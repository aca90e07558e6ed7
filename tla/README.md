# Verification of Lightweight C++ Server Pages

TLA+ models of the programs in this repository, TLC configurations that check them on
small instances, and proofs of the main results for instances of any size.

`PROJECT.json` lists components, runs, theorems, findings and hazards, and gives for each
definition the lines of code it stands for.

## 1. The system

Three loosely related programs share the repository.

| Part | State | Operations | Interacts by |
|---|---|---|---|
| `lightwcsp/server.cc`: main thread | `clientSock`, `nextThread`, `threadPool` | `startup`, `accept`, scan of the pool, start of a thread, `error_die` | starts threads with a descriptor number; `exit` ends all |
| `HttpRequest`: handler, one thread per HTTP connection | a descriptor, a buffer on the stack, a url | `recv`, `tokenlize`, look-up, `send`, `close` | the file map and the descriptor table, unlocked |
| `httpsServer.cc`: one thread for all HTTPS connections | `serverSock`, SSL context | `OpenListener`, `accept`, handshake, `SSL_read`, the same handler | the same file map and descriptors; `abort` ends all |
| `FileSys`: file map | `filemap` | `dfs` before `main`; `access` inserts what is missing | read and written by every thread |
| `HashMap` | chains, size, used | `add`, `grow`, `get` | library, not called by the server |
| `Buffer` | data, size, length | `append`, `checkSpace` | every request has one; CSP servlets append to it |
| `hydroprot/server.cc` | open file and its offset, option, block buffer | accept, read option, answer | one client at a time, SIGINT |
| `hydroprot/client.cc` | socket, template file, message | connect, receive, merge, write | reads what `mdata` wrote and the server sent, calls `convert` |
| `mdata.cc`, `mdata_inv.cc` | template, stdio buffer | split into lengths and texts, or texts and places | `fixed.dat` |
| `convert.cc` | static digit string | integers and doubles to text | called by `mdata` and the client |
| `builder.cc` | blocks of the child, base, lines gathered | template to a C++ servlet | its output appends to `Buffer` |
| `CspServlet.cc` | | `doGet` of each page | appends to the `Buffer` of the request |
| `encrypt/testEncrypt.cc`, `SSLsample.c` | buffers, a context of the library | encrypt, decrypt | on their own |
| other files of `encrypt/` | | AES-128 in C++ and as gates | not called |

What makes these correct, and hard:

- **Web server.** Threads know their connection by a number that `accept` reuses. All of them
  share a map that a look-up changes. The pool is an array that nothing empties. The buffers
  of requests are never cleared. One client that leaves raises SIGPIPE; one that is silent
  holds the HTTPS thread; one that shuts its side makes a read return nothing and can still receive.
  The properties: a client gets at most one page, and one that asked the right one;
  descriptors are owned; patient clients are answered; connections end.
- **Loading and requests.** A recursion that names files by path and opens them from a current
  directory it moves; a tokenizer that does not know how much was received. The properties: each
  file is loaded under its own path, and a request whose url has come gets the file it names.
- **HashMap, Buffer, Convert.** Growth, exactly full buffers, edges of digit groups.
- **Pages.** A compiler that gathers lines across turns of its loop, fills blocks of one file with
  those of another, and searches for an end that may not come. The properties: the servlet appends
  what the template stands for; the compiler ends; the buffer then holds the page.
- **hydroprot.** State that outlives a client; two ways of writing to one file; arithmetic on
  the width of numbers that two programs must agree on; a message that may come in part.
- **Encryption.** Lengths that grow by padding and wrap, a text decrypted over itself, calls that fail.

`PROJECT.json` lists each hazard with its line and the properties that would catch it.

## 2. Modules

### HttpServer, WebService, MCHttpServer, HttpServerProofs

`HttpServer` composes the main thread, the handlers, the HTTPS thread, the descriptor table
and the file map. A connection is named by its client. Correspondence:

| Model | Code |
|---|---|
| `acc`, `clientSock`, `nextThread`, `pool` | control point and locals of `main`; `pool[i]` is `threadPool[i].joinable()` |
| `corrupted` | `threadPool` has been indexed past its end and the program still runs |
| `queue`, `fdtab` | backlog of the two ports; owner of each descriptor (kernel) |
| `pc[c]`, `fd[c]`, `key[c]` | where the handler of `c` is, its descriptor, `filename` |
| `tls`, `tlsKey` | constructor of `HttpsServer` done; the url left on its stack |
| `ssl` | how far the handshake of an HTTPS client is |
| `filemap` | per key: a servlet, the null pointer `operator[]` inserted, or no entry |
| `conn`, `msg`, `reply` | the client's side: open, half closed (it asks no more and can still receive) or gone; what it sent; what it received |
| `Connect`, `Greet`, `SendRequest`, `HalfClose`, `Leave` | the clients |
| `Startup`, `StartupFails` | `startup` |
| `Accept`, `AcceptFails`, `Scan`, `Spawn`, `ScanPastEnd` | the loop of `main`, server.cc:170-182 |
| `Receive`, `ReceiveThrows` | `read` and `tokenlize` |
| `Access`, `RacedAccess` | `FS.access(filename)` alone, and with another thread in the map |
| `Send`, `SendBreaks` | `doGet`; SIGPIPE |
| `Close`, `CloseTls` | end of `accept_request`; end of a turn of `HttpsServer::run` |
| `HttpsAccept`, `HttpsAcceptFails`, `Handshake`, `HandshakeBreaks`, `ReceiveTls`, `ReceiveTlsFaults` | `HttpsServer::run`, `HttpsRequest` |

Undefined behaviour is a choice of what the build can do. Past the end of `threadPool` the
walk faults or finds a word that reads as an idle thread. Two look-ups of which one inserts may
also fault, or lose an entry. A scan of bytes that were not received yields any key or throws.

The text of requests is abstracted to four shapes (`full`, `terse`, `bare`, `overlong`) by what
`tokenlize` does with them, and a url. A message arrives whole or, from a client that reset its
connection, not at all. A read returns nothing when the client has shut its side and asked nothing,
whether it is gone or can still receive; over HTTP the scan then takes what the stack holds, over HTTPS
the look-up takes the url of the request before. `SSL_accept` waits for the client (`Greet`), and takes
a shutdown in its place for success. `HttpRequest::send` is declared and has no body in the repository: the page is
taken to be sent by a plain `send` on the socket. An `accept` fails for want of a descriptor or because its client
has given up; errors of the whole system (memory, its table of files) are left out.

`WebService` is what clients are promised: connections are taken, answered at most once with a
page that was loaded, and ended; the page fits the request of a client that asked, and only one that
shut its side without asking may get what another asked for; the service may go down. `HttpServer`
implements it under the mapping at `Service`, when the pool is exhausted and the map raced too:
what then fails is that the service stays up, which `WebService` does not promise.

### FileSysLoad, RequestTokens, Site, MCSite, SiteProofs

`FileSysLoad` is `FileSys::dfs`: a stack of frames, the current directory, the path of the call to
come. A path is a sequence of names; a tree is sets of directories, files, directories that `opendir` cannot
read or `chdir` cannot enter, and files that do not open. `readdir` lists entries in any order. The result of `lstat`, which the
code does not look at, is that of the entry, or what it was before, or at first anything. `Content`
is what the constructor of the servlet reads.

`RequestTokens` is `read`, `getNextToken` and `tokenlize` on the array of one handler: `Begin` (the
thread's `HttpRequest`, with an array that is not initialized), `Read` (one `recv`, cut anywhere),
`NextToken`, `Throw`. A cell of the array is a piece of a token (a word, a segment of a path, a NUL)
or a blank.

`Site` composes them: `LoadSite`, then for each request `Accept`, `Parse` and `Handle`
(`HttpRequest::handler` with the look-up in the loaded map, where what is missing becomes a null
pointer). It also grounds the four shapes of requests in HttpServer: a message with six tokens is
parsed from its own bytes, one with fewer takes what is left in the array or throws.

### HashMap, UrlTable, MCHashMap, HashMapProofs

`add` with its growth and `get`; a chain is a set. `UrlTable` is the table it implements: the first
servlet added for a url stays. Urls have no query: the code hashes and compares the whole string, the
comment of Hash.hh:28-30 has a look-up stop at `?`, and the model takes neither side.

### Buffer, Builder, CspServlet, MCCspServlet, CspProofs

`Buffer` is `checkSpace` and the appends, by lengths: `touched` is how far the allocation was written,
`nuls` where it holds a NUL. What a type reserves (`Reserves`) and what its values need (`Prints`) are
constants, and `append(text, bytes)` takes the length of the text and what its caller reserves for it apart: neither a
number nor a text need fit. `excess` is by how much the last one did not. Behind the first write past the end nothing is
defined, and nothing more is appended (`Intact`).

`Builder` is `builder.cc`. A line is a sequence of tokens: texts and whole tags. `Collect` is a line of
the child (`aux` and `mp` are the variables of that name), `CompileVariable`, `CompileCode`,
`CompileComment`, `CompileAttr`, `CompileTag`, `CompileText` the branches of the loop over the base in
the order the code tries them, `SearchBlock` and `CompileBlock` the search for an endblock and what
fills the block. A search behind the end of the file is the stage `"endless"`. The text behind a block
that the child gives is read from freed memory: any text.

`CspServlet` runs a `doGet` statement by statement on the `Buffer`: one of the pages of
`CspServlet.cc`, the one the compiler has just made, or any sequence of appends. What a variable of a
template prints is an int of three digits. The code of a template is C++ that may make loops and branches of the
statements around it, as the `for` of test1.csp and the `while` of test2.csp do: from code, and from the statement behind
it, control goes to any statement (`Behind`). A servlet whose literals go on in the next line, or whose code has its
quotes escaped, does not compile and has no `doGet` (`Builds`).

### Hydroprot, MCHydroprot, HydroprotProofs

The hydroprot server, with the option, the offset and the buffer that belong to its loop. `buff`
says what the first and last bytes of the block buffer hold, `order` in which order clients were answered. A client
that shuts its side without an option is answered by the option of the one before.

### DataMerge, PositionSplit, Convert, ClientPage, MCClientPage, PageProofs

`DataMerge` is `mdata` and the client as one pipeline: `SplitVariable`, `SplitRest`, `CloseFile` write
`fixed.dat` by two ways, of which one is buffered; `OpenSocket`, `Refused`, `Connected`, `Dies` are the
loop over addresses and the calls that end the client; `Unasked` is option 0; `ReadMessage`,
`MergeVariable`, `MergeDies`, `MergeRest` read the message and the file. A text is known by where it
begins and ends among all texts. `ReadAt` is what `sscanf` reads at a character of the header, also
in the middle of a number. A header that is not one (no variable, or a text flushed before a length)
sends the client to `"lost"`.

`PositionSplit` is `mdata_inv`, which prints places instead of lengths and writes the texts past
stdio's buffer.

`Convert` is `fastlltoa` and `fastulltoa` a group at a time, `_cvt` and `convert(double)` as operators. The
number of digits in a group, groups, bits and decimals are constants, and so are the significant digits `_cvt` picks
off and the length of its string (`DigPrec`, `DigMax`: 17 and 30). A double is a whole number
of units and the arithmetic on it exact: the error of floating point is not modelled.

`ClientPage` composes the three: a template is split both ways, and for each value the client has
received it calls `Convert` (`ConvertStep`, `ConvertReturns`) before it goes on to the next variable. A message is a byte
for the type of a value and as many as the server puts for it (`Sizeof`), one value behind the other. `auxb` is the byte
the client is at; the type it reads there (`tag`) decides what is converted and how far it moves on (`Moved`). Where
no value begins it may read anything. Type 0 has no value and prints nothing. A long double and a char (8, 9) are neither
converted nor stepped over, so that what comes behind is read astray: the model takes it as not received.

### Cipher, MCCipher, CipherProofs

`testEncrypt` and `SSLsample`, which share their `encrypt` and `decrypt`: one action per call of the
library (`NewContext`, `InitContext`, `EncryptUpdate`, ..., `FreeDecrypt`), any of which may fail
(`HandleErrors`). A block of ciphertext is known by which block of the text it stands for; `touched` is
how far each buffer was written, the last block included that `EVP_DecryptUpdate` may write and take back. Lengths are ints (`Wrapped`); an array on the stack with a negative
size or more than the stack holds is the stage `"undefined"`.

### Numbers, Induction

`Numbers` holds the arithmetic several modules share, as recursive functions: sums (`SumTo`), powers
(`Pow`), the digits of a number (`Digits`, `LastDigits`) and the number digits stand for (`ValueOf`).
`LastDigits` is the inner loop of the conversions, which divides by ten a fixed number of times.
`Induction` holds no model: its lemmas are what the other proofs cite about those functions.

## 3. Runs

| Run | Asks | Bounds |
|---|---|---|
| `HttpServer_service` | `TypeOK`, `FdOwnership`, `DescriptorsAccounted`, `PagesSafe` under any client | 2 HTTP clients and 1 HTTPS, pool of 1, 2 descriptors, backlog 1: the pool, the descriptors and the backlog all run out |
| `HttpServer_served` | `HandlesKept`, `PageServed` with enough of everything | pool of 2, 3 descriptors, patient clients on both ports |
| `HttpServer_ends` | `RightReply`, `ImplementsService`, `ConnectionsEnd` when clients send anything, shut their side and leave | 1 HTTP client and 2 HTTPS clients, so that one may get what the other left in the frame; a descriptor for each |
| `HttpServer_race` | finds `MapRaceFree` violated | 2 clients, one page missing |
| `HttpServer_exhausted` | finds `PageServed` violated | 3 clients, pool of 2 |
| `Site_pages` | `SiteTypeOK`, `PlainTreesLoaded`, `LoadingEnds`, `RequestAnswered` | all trees of two directories and five files, trees two levels deep with directories that cannot be read or not be entered; two requests of nine kinds over three arrays, each cut anywhere |
| `Site_twolevels` | finds `LoadsEveryFile` violated | a file two directories deep |
| `HashMap_grow` | `Placed`, `OneNodeEach`, `CountsNodes`, `ImplementsTable` | six urls that collide before or after growth, 2 to 32 buckets |
| `CspServlet_page` | `CspTypeOK`, `InBounds`, `NothingHidden`, `PageCompiled`, `CompilationEnds`, `PagePrinted` | pages of 100, 1000 and 10000 numbers in a buffer of 16 bytes at first; templates and bases of up to two of thirteen elements, with code, blocks of two lines and quotes among them; own appends up to 36 bytes from sizes of 1 on, of values that fit what is reserved and of some that do not |
| `Hydroprot_serial` | `TypeOK`, `ValuesForOption`, `BlocksOnce`, `StaleTail`, `ClientsServed` | 3 clients that may shut their side or leave; files of none, one and three blocks, the last one short |
| `ClientPage_values` | `PageTypeOK`, `LengthsFirst`, `PageMerged`, `MergeFinishes`, `TextsFirst`, `SplittersAgree`, `IntegersRight`, `DoublesRight`, `ValuesShown` | 0 to 3 variables, texts of 0 to 4000 bytes around one stdio buffer (12 bytes for the places), 2 addresses, 0 to 3 values received; groups of 2 digits, 3 groups, 16 bits; 6 bits for the integer part, 4 significant digits of 6; messages of every type of value |
| `Cipher_roundtrip` | `TypeOK`, `InBounds`, `RoundTrip` | n from -8 to 70 and from 120 to 127 in an int of eight bits, 2 more encryptions, a stack of 200 bytes; the text of SSLsample |

Why these bounds are enough: a descriptor is reused once with two connections one after the
other on two descriptors; a pool of one is full after one connection and a pool of two exercises
the wrap of `nextThread`; the map is raced by two threads. For the numbers, two digits a group
keep both zeros inside a group and zeros of a whole group, and three groups keep a first, a
middle and a last one. For texts, lengths of one to four digits are those that differ for
`numbersize`; longer ones overflow the buffer. The Buffer of a request has 32768 bytes at first; with
16 the pages grow it ten times and more. Two elements are enough for a block that is left
unfinished and the one behind it. With an int of eight bits both the length of the text and that of the
ciphertext wrap.

`CHECK_DEADLOCK FALSE` is in the runs whose system stops: the process has exited, all clients are
done, the page is there, the text decrypted; in `CspServlet_page` also because a servlet of one's own
appends nothing past `MaxLength`. `HashMap_grow` checks deadlock: `get` is always possible.

**Violations, each of a statement of the repository.** `HttpServer_race`: the notes ask servers to
worry about the thread safety of shared objects; two threads meet in `filemap` while one inserts.
`HttpServer_exhausted`: preloaded pages are served, until `THREAD_POOL_SIZE` connections have been
made; none of the threads is ever joined. `Site_twolevels`: the loading is "recursive" to
one level of directories only.

**Fairness.** `HttpServer`: weak fairness of the main thread, of the HTTPS thread and of each
handler, because the operating system runs every thread that can run, and of connecting and
asking for the clients called patient; nothing obliges the others. `Greet` and `SendRequest` are not fair for
other clients, and `ConnectionsEnd` (in the end every connection has ended) excepts only those that wait, for ever, behind a client whose
next bytes its thread waits for. It is checked
with enough descriptors: with none left the HTTPS accept loop spins and its connections wait for
ever. `Site`: weak fairness of the loading, and
`CspServlet`, `ClientPage`: of the compiler, the client and the splitters, single processes that run.
`Hydroprot`: weak fairness of the loop; `ClientsServed` excepts a client that stays silent.

## 4. Proofs

All proofs are for any value of the constants that satisfies the named assumption of the module.
Where a theorem has a further hypothesis, it is named below with what in the code meets it.

### HttpServer (HttpServerProofs)

*Typing* (`Typing`): `TypeOK` is inductive by itself.

*Descriptors* (`FdOwned`, `DescriptorsKept`). `FdOwnership` is not inductive: when `accept` gives
descriptor `f` to the head of a queue, nothing in it says that connection is not already being
handled. `OwnerInv` adds `Queues` (whoever is in a queue is queued, once, on its port) and `Stages`
(only HTTPS connections shake hands, only HTTP ones are dispatched, what main dispatches is
what it accepted last), and with `DescriptorsAccounted` (a connection holds one descriptor) it is
inductive. The lemmas are by kind of step: a handler that goes on (`OwnerMove`), a new thread
(`OwnerStart`), an accept (`TakeHead`).

*Pool* (`NoHandleLost`). `HandlesKept` counts: as many elements of the pool are joinable as threads
were started, the joinable ones come first and `nextThread` is inside, until the program writes past the
pool's end. `PoolInv` adds that the started threads are finitely many, so that a spawn adds one to both sides.

*Replies* (`RepliesRight`). `ReplyInv` adds `KeysFit` to `RightReply`: what a handler looks up
answers its client if that client asked and can still receive, over HTTPS it is what some client asked, what it
sends was loaded, and a reply exists only behind `"send"`. With `OwnerInv` the reply goes to the handler's own
client. A client that shut its side without asking can be sent a page, and `RightReply` says which.

*Refinement* (`Implementation`): from `TypeOK`, `OwnerInv` and `ReplyInv` each step is one of
`WebService` or a stutter. *Map* (`PagesKept`): the preloaded pages stay as they are as long as no two threads
conflict, so a look-up that inserts is of a page that was not loaded, and only such a look-up makes a conflict.

### Site (SiteProofs)

*Loading* (`TreeLoaded`). That everything is loaded at the end needs where the recursion is on the way.
`LoadInv`, for a tree of one level of directories, says: the calls on the stack, the current directory and
the argument of the call to come fit together (`Shape`); what is left to read of a directory is listed in it;
each file is loaded or is still to be read, in htdocs (`Level1`) or in a directory of it (`Level2`);
each entry is named after its file and holds its content (`Named`).

*Requests* (`Answered`, `SiteTyping`). `Scan` is what is known while the tokens of a request are taken:
they are in order, between blanks, with no word in front of the cursor left out (`Words`); the array begins with
what has arrived; when no token is left there is no blank before a word behind the cursor. If six tokens
ended within what arrived, the i-th token is the i-th of those, because both are in order and
none is between two of them. `Answers` adds that a page sent is that of the url's key, and that a null pointer
was put in the map only for keys that had no entry. The assumption of `Site` keeps the words of
messages (a method, a version) apart from the names of files.

### HashMap (HashMapProofs)

`Placement` (a node is where its hash says, one per url, finitely many buckets) is
inductive and contains `Placed` and `OneNodeEach`; `TableStep` gives the refinement, `CountedStep` the count, which needs the cardinality
of the set of nodes.

### Buffer, Builder, CspServlet (CspProofs)

*Buffer* (`StaysInBounds`, `AllShows`). `Room`: `length < size` besides `InBounds`, up to what was printed beyond its
reserve; without the byte to spare `append(char)` of a full buffer would be outside. The reserves are not assumed to be
enough: `InBounds` says that a write goes past the end by no more than its value lacked, and values such as
-2147483648 lack some (see the hazards). `Showing` gives `NothingHidden` for buffers that begin
empty (`InitTexts = {}`), as those of requests do; one that begins with a text hides what is appended.

*Pages* (`CspTyping`, `PageShows`, `PageInBounds`, `PageFits`). `CspInv` adds to the types of the buffer `CompilerInv`, where the
compiler is in its two files and that each value it has put in the servlet is one variable, and
`Serving`, that a doGet is within its statements and has not begun before the compiler is done. So what
a generated page appends is bounded, and `PageInBounds` carries `Room` over to the pages. `PageFits` shows that no
page, by hand or compiled, goes past the end at all. It assumes `PagesFit`: what is
reserved for an int is enough for ten digits and for a variable of a template; the code reserves ten.

*Compiler* (`CompiledRight`). `PageCompiled` speaks of the end only; `Right` says how far the compiler is on the way.
While it reads a template it has taken m of its elements and the map holds what those m give (`Collecting`); from
the base on the map holds what the whole template gives (`MapFilled`); it has then compiled m
elements of the base and what it has written stands for those (`PageBegun`), or it is at line k of a
block of the next one and keeps aside what stands before it (`Searching`). Each turn of the compiler's loops
takes it from m to m or m + 1, and inside a block from line k to k + 1. It is stated for
pages whose elements are what they seem (`SoundPage`), as in the property: text in front of one tag, a
block with only text inside; and for blocks with text on one line (`OneLinePage`), whose tags may stand on other lines.

*Page* (`PagePrints`). `Right` also says that each statement prints what its tokens show (`Plainly`); `Printing` that
the length of the buffer is the sum of what the statements executed so far print. For a page written by hand that sum is
taken round by round (`HandSum`), and a number in it is as many characters as powers of ten it
reaches, counted in a set of pairs by the property and by `Digits` in the model (`DigitsReach`).
A template with code is excepted (`Straight`): what is around it may be printed any number of times.

### Hydroprot (HydroprotProofs)

`Typing`, `OptionRespected`, `TailOld`, `BlocksApart`: `AnswerInv` adds to the three properties that
who has an answer has asked and is hung up on, so its option cannot change behind its answer, and
that the end of the buffer holds a block below the offset. For the order of the blocks it adds that every block handed
out so far is one already read, so the next one is later than all.

### DataMerge, PositionSplit, Convert, ClientPage (PageProofs)

*Splitters* (`TextsWait`, `PlacesWait`, `PlacesMatchLengths`). `Splitting` says what the file and the buffer hold
after k variables, as long as the texts fit in the buffer: the lengths are in the file, the texts wait.
`PlacesWaiting` says the same of the splitter by positions with the roles exchanged, and which places it
has printed: each the sum of the lengths before it. `Turn` (the splitters run one after the other)
lets both be compared.

*Integers* (`NumeralsRight`). `Numbering` is the invariant of the conversion: the characters written, as a
number, times ten to the power of what is left to write, plus what is left, is the value's magnitude. It holds for every
number of groups and width of a group; `ClientPageAssumption` asks that the groups hold every value of
`Bits` bits. The least value, whose opposite overflows, is excepted, as in the property.

*Doubles* (`DoublesRounded`). The first digits of a number are its quotient by a power of ten (`FirstDigitsIs`), so
the digit after them says on which side of the half it is (`NextDigit`); `CarriedRight` shows that what `_cvt` does to
the nines adds one, or, if all were nines, gives a power of ten with one digit fewer behind the point. `Rounded`
follows. The digit that rounds must be one of the significant digits (`DigPrec`): the ten digits of an unsigned int and three
decimals are fewer than 17. `PointedMade` says that what the client takes from the string of `_cvt` is those digits and the point, although
it asks for more characters than the string has when the point has moved, and `PointedRead` reads it back. It is for
every number of decimals printed up to those a double has.

*Order* (`ValuesInOrder`). `Sending`: the client has shown as many values as it has met variables, or one
fewer while it converts, each is what was made of the value at that place of the message, and it is at the byte where
the next one begins. `FieldsApart` shows that values begin at different bytes, whatever their sizes, so what it reads there
is that value; `FieldsFollow` that the step for the type of a value leads to the next.

*Page* (`PagesRight`). `Merging` says where the client is after k variables, in the lengths and in the texts, and that
what it has written is the page so far (`Reached`). It is exact in the texts but not in the lengths: `numbersize`
takes four digits for three, so after a text of 1000 bytes or more it is one character behind (`Behind`).
The next `sscanf` then reads the blank in front of the right number, which does no harm; after a second such
text it would read the end of the wrong number, which `PageMerged` excepts (`Followed`). It assumes `SmallBuffer`: stdio's buffer has fewer than 10000 bytes
(4096 in the code), so no length has five digits, which `numbersize` takes for six.

*Types* (`PageTyped`). It has no hypothesis on the template: the texts may overflow the buffer, and then lengths and texts
are mixed in the file and the client reads what it likes. `Typing` adds to `TypeOK` why
it still meets no more variables than there are: the file begins with at most as many lengths, whatever
was flushed between them (`Leads`), and the client takes only those for lengths. What it reads is a number for any header
(`ReadType`), because a cursor is in a number, before one, or behind them all, and `Numbersize` of a number is a number, by
a recursion on its thousandth part (`NumbersizeType`). `Placing` adds to `PlacesWaiting` what holds without its condition: the buffer and
the kinds of pieces in the file. `Converting` says that what is left of a number is below the divisor before the group at
hand, also for the least value, which stays negative until the groups have run out; without it the
quotient might not be a group of the table. `DoubleTyped` is that of the string of `_cvt` the client takes characters only,
those of an earlier call among them.

### Cipher (CipherProofs)

`IInv` says for each stage what has been counted, how many
blocks the ciphertext has and that what `encrypt` returned is sixteen times that many; the lemmas
`Division` and `Wrapping` tie it to the sizes of the arrays (`StaysInBounds`). It assumes `SampleFits`: the text of
SSLsample with its padding fits in the 128 bytes. `Recovered` states `RoundTrip`:
`TextInv` adds which blocks the ciphertext holds before each call (none, all, or all but the last), and
`WrittenFirst` and `WrittenLast` show that writing over any of them gives the same ciphertext, which is
why 10000 encryptions into one array leave what one would. `Typing` follows from both and the types of the scalars.

### Induction

The provers cannot instantiate the library's induction theorems, which take an operator as a parameter.
`Induction` states induction over numbers as a fact about sets: a set of numbers that holds 0 and with each number the next
holds all (`Inductive`, from `Least`). A property is then the set of numbers that have it. `Recursion` gives in the
same way that a function made turn by turn satisfies its equation, so that sums, powers, folds and the joining of
texts can be reasoned about (`SumNext`, `PowNext`, `ValueAppended`, ...).

### Model-checked only

Liveness (`PageServed`, `ConnectionsEnd`, `LoadingEnds`, `ClientsServed`,
`MergeFinishes`, `CompilationEnds`): fairness and ENABLED are out of this prover's reach. Every other property
of a passing run is a theorem; the violations are what TLC finds.

**Not modelled.** The bytes of pages and headers; partial sends; what greedy expressions match
across two tags of one line of a template; what the client reads behind a long double or a char; Bench, Signal, Config, Logger, MystringBuffer, compilecsp
and the draft lightwcsp/hydroprot.cc; match, rdata and the copy of convert in `Match Replace Data`;
older copies under `hydroprot/backup` and `test`; AES in software and in hardware, tables that could
only be compared with themselves.

Seen while modelling and not stated by a run: `HashMap` looks up a url with its query, although
Hash.hh:30 says to stop at `?`; the second client that sends hydroprot's option 0 gets the second
block of the file, although README.txt:9 calls that a first request; the lines of a child's block run
together, although test/test3.html is written as if they did not, and a block of the base with several lines
of text becomes a literal that does not end (builder.cc:147-154): `PageCompiled` and `PagePrinted` are about blocks with
text on one line; a page with a percent sign prints two; a client that shuts its side without asking is sent the
page of a url that is not its own (`RightReply` says which).

## 5. Plan

1. Done: HttpServer with WebService; FileSysLoad and RequestTokens composed in Site; HashMap; Buffer and
   Builder composed in CspServlet; Hydroprot; DataMerge, PositionSplit and Convert composed in
   ClientPage; Cipher. Proofs of every safety invariant, action property and refinement the runs check.
2. What `output.dat` held before a merge, when it was longer.
