----------------------------- MODULE HttpServer -----------------------------
(***************************************************************************)
(* The lightwcsp web server process: the main thread that accepts HTTP     *)
(* connections and starts one thread for each (server.cc), the handler     *)
(* those threads run (HttpRequest.cc), the single thread that serves HTTPS *)
(* connections one after the other (httpsServer.cc), the table of          *)
(* descriptors of the process, and the map of preloaded servlets that all  *)
(* of them read and write without a lock (FileSys.hh).                     *)
(*                                                                         *)
(* A connection is named by the client that opens it; each client opens    *)
(* one.  The handler of a connection knows only its descriptor: a reply    *)
(* goes to whichever connection owns that descriptor when it is sent.      *)
(***************************************************************************)
EXTENDS Integers, Sequences, FiniteSets

CONSTANTS
    HttpClients,   \* clients of the HTTP port
    HttpsClients,  \* clients of the HTTPS port
    Patient,       \* the clients that connect, ask and wait: they never leave
    PoolSize,      \* THREAD_POOL_SIZE
    MaxFd,         \* descriptors the process may hold for connections
    Backlog,       \* pending connections a listening socket holds
    Urls,          \* what clients ask for
    SlashUrls,     \* those that end in '/'
    IndexUrl,      \* the url /index.html
    HttpKinds,     \* shapes of what HTTP clients send: see Parses below
    HttpsKinds,    \* and of what HTTPS clients send
    Loaded,        \* keys of the servlets FileSys holds when main starts
    None

Clients == HttpClients \cup HttpsClients
Keys == {"path", "raw"} \X Urls
Requests == [kind : HttpKinds \cup HttpsKinds, url : Urls]
RequestsOf(c) == [kind : IF c \in HttpClients THEN HttpKinds ELSE HttpsKinds, url : Urls]
Ports == {"http", "https"}

ASSUME ConstantsAssumption ==
    /\ HttpClients \cap HttpsClients = {}
    /\ Patient \subseteq Clients
    /\ PoolSize \in Nat \ {0}
    /\ MaxFd \in Nat
    /\ Backlog \in Nat
    /\ SlashUrls \subseteq Urls
    /\ IndexUrl \in Urls \ SlashUrls
    /\ HttpKinds \cup HttpsKinds \subseteq {"full", "terse", "bare", "overlong"}
    /\ Loaded \subseteq {"path"} \X (Urls \ SlashUrls)
    /\ None \notin Clients \cup Keys \cup Requests

VARIABLES
    down,       \* "no", or what ended the process
    acc,        \* where the main thread is
    clientSock, \* the descriptor main accepted last
    nextThread, \* index into the pool
    pool,       \* which elements of threadPool are joinable
    corrupted,  \* main has written past the end of threadPool
    tls,        \* what the HTTPS thread has reached: "init" or "open"
    tlsKey,     \* the url left in the frame of run() by the last request read
    ssl,        \* what an HTTPS client has done: "none", "hello" or "bad", and
                \* "session" once the handshake with it is complete
    queue,      \* connections waiting for accept, per port
    fdtab,      \* owner of each descriptor
    pc,         \* where the handler of each connection is
    fd,         \* the descriptor that handler was given
    key,        \* the key it looks up
    filemap,    \* FileSys::filemap: a servlet, a null pointer, or no entry
    raced,      \* two threads were in filemap at once, one of them inserting
    conn,       \* the client's side: "idle", "open", "half" when it has shut its
                \* writing side and can still receive, or "gone"
    msg,        \* the request the client sent
    reply       \* the pages it received

mainVars == <<acc, clientSock, nextThread, pool, corrupted>>
tlsVars == <<tls, tlsKey, ssl>>
netVars == <<queue, fdtab>>
handlerVars == <<pc, fd, key>>
mapVars == <<filemap, raced>>
clientVars == <<conn, msg, reply>>
vars == <<down, mainVars, tlsVars, netVars, handlerVars, mapVars, clientVars>>

Fds == 1..MaxFd
Slots == 0..(PoolSize - 1)
FreeFds == {f \in Fds : fdtab[f] = None}
PortOf(c) == IF c \in HttpClients THEN "http" ELSE "https"

\* A handler at one of these holds a descriptor it will still use.
Handling == {"handshake", "recv", "access", "send", "close"}

Init ==
    /\ down = "no"
    /\ acc = "startup" /\ clientSock = 0 /\ nextThread = 0
    /\ pool = [i \in Slots |-> FALSE] /\ corrupted = FALSE
    /\ tls = "init" /\ tlsKey = None /\ ssl = [c \in HttpsClients |-> "none"]
    /\ queue = [p \in Ports |-> <<>>]
    /\ fdtab = [f \in Fds |-> None]
    /\ pc = [c \in Clients |-> "none"]
    /\ fd = [c \in Clients |-> 0]
    /\ key = [c \in Clients |-> None]
    /\ filemap = [k \in Keys |-> IF k \in Loaded THEN "servlet" ELSE "absent"]
    /\ raced = FALSE
    /\ conn = [c \in Clients |-> "idle"]
    /\ msg = [c \in Clients |-> None]
    /\ reply = [c \in Clients |-> <<>>]

\* The whole process ends: exit, abort, terminate, a signal.
Die(cause) ==
    /\ down = "no"
    /\ down' = cause
    /\ UNCHANGED <<mainVars, tlsVars, netVars, handlerVars, mapVars, clientVars>>

-----------------------------------------------------------------------------
(* Clients and the network. *)

\* The kernel completes a connection once the port listens and has room.
Connect(c) ==
    /\ down = "no"
    /\ conn[c] = "idle"
    /\ IF c \in HttpClients THEN acc # "startup" ELSE tls = "open"
    /\ Len(queue[PortOf(c)]) < Backlog
    /\ queue' = [queue EXCEPT ![PortOf(c)] = Append(@, c)]
    /\ pc' = [pc EXCEPT ![c] = "queued"]
    /\ conn' = [conn EXCEPT ![c] = "open"]
    /\ UNCHANGED <<down, mainVars, tlsVars, fdtab, fd, key, mapVars, msg, reply>>

\* The client's part of the handshake, or something that is none.
Greet(c) ==
    /\ down = "no"
    /\ c \in HttpsClients /\ conn[c] = "open" /\ ssl[c] = "none"
    /\ \E g \in {"hello", "bad"} :
        /\ c \in Patient => g = "hello"
        /\ ssl' = [ssl EXCEPT ![c] = g]
    /\ UNCHANGED <<down, mainVars, tls, tlsKey, netVars, handlerVars, mapVars, clientVars>>

SendRequest(c) ==
    /\ down = "no"
    /\ conn[c] = "open" /\ msg[c] = None
    /\ c \in HttpsClients => ssl[c] = "session"
    /\ \E r \in RequestsOf(c) : msg' = [msg EXCEPT ![c] = r]
    /\ UNCHANGED <<down, mainVars, tlsVars, netVars, handlerVars, mapVars, conn, reply>>

\* shutdown(SHUT_WR), or close_notify: what was sent still arrives, then a read
\* returns nothing; the client goes on receiving.
HalfClose(c) ==
    /\ down = "no"
    /\ c \notin Patient
    /\ conn[c] = "open"
    /\ conn' = [conn EXCEPT ![c] = "half"]
    /\ UNCHANGED <<down, mainVars, tlsVars, netVars, handlerVars, mapVars, msg, reply>>

Leave(c) ==
    /\ down = "no"
    /\ c \notin Patient
    /\ conn[c] \in {"open", "half"}
    /\ conn' = [conn EXCEPT ![c] = "gone"]
    /\ UNCHANGED <<down, mainVars, tlsVars, netVars, handlerVars, mapVars, msg, reply>>

-----------------------------------------------------------------------------
(* The main thread. *)

Startup ==
    /\ down = "no"
    /\ acc = "startup"
    /\ acc' = "accept"
    /\ UNCHANGED <<down, clientSock, nextThread, pool, corrupted, tlsVars, netVars,
                   handlerVars, mapVars, clientVars>>

\* No address to bind, or listen refused: exit(1).
StartupFails == acc = "startup" /\ Die("startup")

\* accept returns the lowest free descriptor.
Accept ==
    /\ down = "no"
    /\ acc = "accept" /\ queue["http"] # <<>>
    /\ \E f \in FreeFds :
        /\ \A g \in FreeFds : f <= g
        /\ clientSock' = f
        /\ fdtab' = [fdtab EXCEPT ![f] = Head(queue["http"])]
    /\ pc' = [pc EXCEPT ![Head(queue["http"])] = "dispatch"]
    /\ queue' = [queue EXCEPT !["http"] = Tail(@)]
    /\ acc' = "dispatch"
    /\ UNCHANGED <<down, nextThread, pool, corrupted, tlsVars, fd, key, mapVars, clientVars>>

\* Mutant: the result of accept is not looked at.
AcceptUnchecked ==
    /\ down = "no"
    /\ acc = "accept" /\ queue["http"] # <<>>
    /\ FreeFds = {}
    /\ clientSock' = -1 /\ acc' = "dispatch"
    /\ UNCHANGED <<down, nextThread, pool, corrupted, tlsVars, netVars, handlerVars,
                   mapVars, clientVars>>

\* With no descriptor left accept fails, or with a client that has already given
\* up its connection, and error_die exits.  Errors of the system as a whole (no
\* memory, no descriptor for any process) are assumed away.
AcceptFails ==
    /\ acc = "accept" /\ queue["http"] # <<>>
    /\ FreeFds = {} \/ conn[Head(queue["http"])] = "gone"
    /\ Die("accept")

\* One turn of while (threadPool[nextThread].joinable()) nextThread++
Scan ==
    /\ down = "no"
    /\ acc = "dispatch"
    /\ nextThread \in Slots /\ pool[nextThread]
    /\ nextThread' = nextThread + 1
    /\ UNCHANGED <<down, acc, clientSock, pool, corrupted, tlsVars, netVars, handlerVars,
                   mapVars, clientVars>>

\* The new thread starts accept_request(clientSock).
StartHandler ==
    LET c == fdtab[clientSock] IN
    /\ pc' = [pc EXCEPT ![c] = "recv"]
    /\ fd' = [fd EXCEPT ![c] = clientSock]
    /\ acc' = "accept"

\* Mutant: every thread goes to the same element, joinable or not.
SpawnOverwriting ==
    /\ down = "no"
    /\ acc = "dispatch" /\ nextThread \in Slots
    /\ StartHandler
    /\ pool' = [pool EXCEPT ![nextThread] = TRUE]
    /\ UNCHANGED <<down, clientSock, nextThread, corrupted, tlsVars, netVars, key, mapVars, clientVars>>

Spawn ==
    /\ down = "no"
    /\ acc = "dispatch"
    /\ nextThread \in Slots /\ ~pool[nextThread]
    /\ StartHandler
    /\ pool' = [pool EXCEPT ![nextThread] = TRUE]
    /\ nextThread' = (nextThread + 1) % PoolSize
    /\ UNCHANGED <<down, clientSock, corrupted, tlsVars, netVars, key, mapVars, clientVars>>

\* No thread is ever joined, so a full pool stays full and the scan leaves the
\* array.  What lies behind it on the stack decides: the walk or the assignment
\* faults, or a word that happens to be zero is taken for an idle thread, is
\* overwritten, and the thread starts.
ScanPastEnd ==
    /\ down = "no"
    /\ acc = "dispatch" /\ nextThread = PoolSize
    /\ \/ Die("wild")
       \/ /\ StartHandler
          /\ corrupted' = TRUE
          /\ nextThread' = 0
          /\ UNCHANGED <<down, clientSock, pool, tlsVars, netVars, key, mapVars, clientVars>>

MainThread ==
    Startup \/ StartupFails \/ Accept \/ AcceptFails \/ Scan \/ Spawn \/ ScanPastEnd

-----------------------------------------------------------------------------
(* The handler of a connection: read, tokenlize, handler, doGet, close. *)

\* "htdocs/index.html" for every url that ends in '/', whatever stands before it.
KeyOf(u) == <<"path", IF u \in SlashUrls THEN IndexUrl ELSE u>>

\* What of the client's message a read gets.  A reset connection may lose it; of
\* a client that shut its side having asked nothing a read gets nothing.
Received(c) == IF conn[c] = "gone" THEN {msg[c], None} ELSE {msg[c]}

\* The keys tokenlize may produce.  It wants six tokens and never looks at how
\* much was received: a "full" request has them, a "terse" one has a url but
\* fewer than six, so the scan runs on into whatever the stack held before; a
\* "bare" message or an empty one leaves even the url to that; an "overlong"
\* token meets the end of the buffer first.
Parses(m) ==
    IF m = None THEN Keys
    ELSE CASE m.kind \in {"full", "terse"} -> {KeyOf(m.url)}
           [] m.kind = "bare" -> Keys
           [] m.kind = "overlong" -> {}

\* Whether the scan may reach the end of the buffer and throw.
MayThrow(m) == m \notin [kind : {"full"}, url : Urls]

\* Mutant: a recv of nothing is tried again.
ReadableData(c) == msg[c] # None

\* recv returns when data has come or the peer has shut its side.
Readable(c) == msg[c] # None \/ conn[c] # "open"

\* Mutant: the thread takes clientSock by reference.
ReceiveByReference(c) ==
    /\ down = "no"
    /\ c \in HttpClients /\ pc[c] = "recv" /\ Readable(c)
    /\ \E m \in Received(c) : \E k \in Parses(m) : key' = [key EXCEPT ![c] = k]
    /\ pc' = [pc EXCEPT ![c] = "access"]
    /\ fd' = [fd EXCEPT ![c] = clientSock]
    /\ UNCHANGED <<down, mainVars, tlsVars, netVars, mapVars, clientVars>>

Receive(c) ==
    /\ down = "no"
    /\ c \in HttpClients /\ pc[c] = "recv" /\ Readable(c)
    /\ \E m \in Received(c) : \E k \in Parses(m) : key' = [key EXCEPT ![c] = k]
    /\ pc' = [pc EXCEPT ![c] = "access"]
    /\ UNCHANGED <<down, mainVars, tlsVars, netVars, fd, mapVars, clientVars>>

\* Nothing catches what getNextToken throws: std::terminate.
ReceiveThrows(c) ==
    /\ c \in HttpClients /\ pc[c] = "recv" /\ Readable(c)
    /\ \E m \in Received(c) : MayThrow(m)
    /\ Die("throw")

\* Another thread is inside filemap, and it or c inserts.
Conflict(c) ==
    \E d \in Clients \ {c} :
        /\ pc[c] = "access" /\ pc[d] = "access"
        /\ \/ filemap[key[c]] = "absent"
           \/ filemap[key[d]] = "absent"

\* Mutant: the lookup leaves a null entry behind, whatever it found.
AccessResets(c) ==
    /\ down = "no"
    /\ pc[c] = "access"
    /\ filemap' = [filemap EXCEPT ![key[c]] = "null"]
    /\ pc' = [pc EXCEPT ![c] = IF filemap[key[c]] = "servlet" THEN "send" ELSE "close"]
    /\ raced' = (raced \/ Conflict(c))
    /\ UNCHANGED <<down, mainVars, tlsVars, netVars, fd, key, clientVars>>

\* Mutant: the descriptor is closed before the reply is sent.
AccessCloses(c) ==
    /\ down = "no"
    /\ pc[c] = "access"
    /\ filemap' = [filemap EXCEPT ![key[c]] = IF @ = "absent" THEN "null" ELSE @]
    /\ pc' = [pc EXCEPT ![c] = IF filemap[key[c]] = "servlet" THEN "send" ELSE "close"]
    /\ fdtab' = [fdtab EXCEPT ![fd[c]] = None]
    /\ raced' = (raced \/ Conflict(c))
    /\ UNCHANGED <<down, mainVars, tlsVars, queue, fd, key, clientVars>>

\* filemap[filename]: a key that is missing is inserted with a null servlet.
Access(c) ==
    /\ down = "no"
    /\ pc[c] = "access"
    /\ filemap' = [filemap EXCEPT ![key[c]] = IF @ = "absent" THEN "null" ELSE @]
    /\ pc' = [pc EXCEPT ![c] = IF filemap[key[c]] = "servlet" THEN "send" ELSE "close"]
    /\ raced' = (raced \/ Conflict(c))
    /\ UNCHANGED <<down, mainVars, tlsVars, netVars, fd, key, clientVars>>

\* What else two unordered accesses may do: fault, or leave a bucket from which
\* an entry can no longer be reached while this lookup finds nothing.
RacedAccess(c) ==
    /\ down = "no"
    /\ pc[c] = "access" /\ Conflict(c)
    /\ \/ Die("race")
       \/ /\ \E k \in Keys : filemap' = [filemap EXCEPT ![k] = "absent"]
          /\ pc' = [pc EXCEPT ![c] = "close"]
          /\ raced' = TRUE
          /\ UNCHANGED <<down, mainVars, tlsVars, netVars, fd, key, clientVars>>

\* Who can still receive, over TLS only within a session.
Reachable(c) == conn[c] \in {"open", "half"} /\ (c \in HttpsClients => ssl[c] = "session")

\* Mutant: the send is repeated.
SendAgain(c) ==
    LET peer == fdtab[fd[c]] IN
    /\ down = "no"
    /\ pc[c] = "send"
    /\ reply' = IF peer # None /\ Reachable(peer)
                THEN [reply EXCEPT ![peer] = Append(@, key[c])]
                ELSE reply
    /\ pc' \in {pc, [pc EXCEPT ![c] = "close"]}
    /\ UNCHANGED <<down, mainVars, tlsVars, netVars, fd, key, mapVars, conn, msg>>

\* doGet: one send of the preloaded buffer on the descriptor of the request.
Send(c) ==
    LET peer == fdtab[fd[c]] IN
    /\ down = "no"
    /\ pc[c] = "send"
    /\ reply' = IF peer # None /\ Reachable(peer)
                THEN [reply EXCEPT ![peer] = Append(@, key[c])]
                ELSE reply
    /\ pc' = [pc EXCEPT ![c] = "close"]
    /\ UNCHANGED <<down, mainVars, tlsVars, netVars, fd, key, mapVars, conn, msg>>

\* HttpRequest::send is declared and nowhere defined: it is taken as a plain send
\* on the socket.  SIGPIPE is not ignored.
SendBreaks(c) ==
    LET peer == fdtab[fd[c]] IN
    /\ pc[c] = "send"
    /\ peer # None /\ conn[peer] = "gone"
    /\ peer \in HttpsClients => ssl[peer] = "session"
    /\ Die("sigpipe")

\* Mutant: the thread ends and the descriptor stays open.
CloseForgotten(c) ==
    /\ down = "no"
    /\ c \in HttpClients /\ pc[c] = "close"
    /\ pc' = [pc EXCEPT ![c] = "done"]
    /\ UNCHANGED <<down, mainVars, tlsVars, netVars, fd, key, mapVars, clientVars>>

\* accept_request closes the descriptor and its thread ends.
Close(c) ==
    /\ down = "no"
    /\ c \in HttpClients /\ pc[c] = "close"
    /\ pc' = [pc EXCEPT ![c] = "done"]
    /\ fdtab' = [fdtab EXCEPT ![fd[c]] = None]
    /\ UNCHANGED <<down, mainVars, tlsVars, queue, fd, key, mapVars, clientVars>>

\* HttpsServer::run goes round: the descriptor stays open.
CloseTls(c) ==
    /\ down = "no"
    /\ c \in HttpsClients /\ pc[c] = "close"
    /\ pc' = [pc EXCEPT ![c] = "done"]
    /\ UNCHANGED <<down, mainVars, tlsVars, netVars, fd, key, mapVars, clientVars>>

-----------------------------------------------------------------------------
(* The HTTPS thread. *)

HttpsOpen ==
    /\ down = "no"
    /\ tls = "init"
    /\ tls' = "open"
    /\ UNCHANGED <<down, mainVars, tlsKey, ssl, netVars, handlerVars, mapVars, clientVars>>

\* A context, certificate or port it cannot have: abort(), HTTP and all.
HttpsAbort == tls = "init" /\ Die("tls")

\* With no descriptor left accept fails, and so does the handshake on -1: the
\* loop goes round and nothing changes.
HttpsAccept ==
    /\ down = "no"
    /\ tls = "open" /\ queue["https"] # <<>>
    /\ \A d \in HttpsClients : pc[d] \notin Handling
    /\ LET c == Head(queue["https"]) IN
        \E f \in FreeFds :
            /\ \A g \in FreeFds : f <= g
            /\ fdtab' = [fdtab EXCEPT ![f] = c]
            /\ fd' = [fd EXCEPT ![c] = f]
            /\ pc' = [pc EXCEPT ![c] = "handshake"]
    /\ queue' = [queue EXCEPT !["https"] = Tail(@)]
    /\ UNCHANGED <<down, mainVars, tlsVars, key, mapVars, clientVars>>

\* accept gives up a connection its client has left: on -1 the handshake fails
\* at once, and the loop goes round.
HttpsAcceptFails ==
    /\ down = "no"
    /\ tls = "open" /\ queue["https"] # <<>>
    /\ \A d \in HttpsClients : pc[d] \notin Handling
    /\ conn[Head(queue["https"])] = "gone"
    /\ pc' = [pc EXCEPT ![Head(queue["https"])] = "done"]
    /\ queue' = [queue EXCEPT !["https"] = Tail(@)]
    /\ UNCHANGED <<down, mainVars, tlsVars, fdtab, fd, key, mapVars, clientVars>>

\* SSL_accept waits for the client's part of the handshake or the end of what it
\* sends.  It returns 1 when the client completes it and -1 when it fails, and
\* then the connection is given up; the 0 of a client that shuts the handshake
\* down is taken for success, and read from, without a session.
Handshake(c) ==
    /\ down = "no"
    /\ pc[c] = "handshake"
    /\ \/ /\ ssl[c] = "hello"
          /\ ssl' = [ssl EXCEPT ![c] = "session"]
          /\ pc' = [pc EXCEPT ![c] = "recv"]
       \/ /\ ssl[c] = "bad" \/ conn[c] # "open"
          /\ ssl' = ssl
          /\ pc' = [pc EXCEPT ![c] = "close"]
       \/ /\ conn[c] # "open"
          /\ ssl' = ssl
          /\ pc' = [pc EXCEPT ![c] = "recv"]
    /\ UNCHANGED <<down, mainVars, tls, tlsKey, netVars, fd, key, mapVars, clientVars>>

\* The server's part of it, written to a client that has left.
HandshakeBreaks(c) ==
    /\ pc[c] = "handshake"
    /\ ssl[c] = "hello" /\ conn[c] = "gone"
    /\ Die("sigpipe")

\* HttpsRequest::read takes everything it received for the url, nothing parses it.
TlsKeyOf(m) == IF m.kind = "bare" THEN KeyOf(m.url) ELSE <<"raw", m.url>>

\* When nothing was read the url is what the previous request left in the frame.
ReceiveTls(c) ==
    /\ down = "no"
    /\ c \in HttpsClients /\ pc[c] = "recv" /\ Readable(c)
    /\ \E m \in Received(c) : tlsKey' = IF m = None THEN tlsKey ELSE TlsKeyOf(m)
    /\ tlsKey' # None
    /\ key' = [key EXCEPT ![c] = tlsKey']
    /\ pc' = [pc EXCEPT ![c] = "access"]
    /\ UNCHANGED <<down, mainVars, tls, ssl, netVars, fd, mapVars, clientVars>>

\* On a fresh stack it is a null pointer.
ReceiveTlsFaults(c) ==
    /\ c \in HttpsClients /\ pc[c] = "recv"
    /\ Readable(c) /\ None \in Received(c) /\ tlsKey = None
    /\ Die("wild")

-----------------------------------------------------------------------------
Serve(c) ==
    \/ Access(c) \/ RacedAccess(c) \/ Send(c) \/ SendBreaks(c)
HttpHandler(c) == Receive(c) \/ ReceiveThrows(c) \/ Serve(c) \/ Close(c)
TlsHandler(c) ==
    \/ Handshake(c) \/ HandshakeBreaks(c) \/ ReceiveTls(c) \/ ReceiveTlsFaults(c)
    \/ Serve(c) \/ CloseTls(c)
HttpsThread ==
    \/ HttpsOpen \/ HttpsAbort \/ HttpsAccept \/ HttpsAcceptFails
    \/ \E c \in HttpsClients : TlsHandler(c)

Next ==
    \/ MainThread
    \/ HttpsThread
    \/ \E c \in HttpClients : HttpHandler(c)
    \/ \E c \in Clients : Connect(c) \/ Greet(c) \/ SendRequest(c) \/ HalfClose(c) \/ Leave(c)

Spec == Init /\ [][Next]_vars

\* The operating system runs every thread that can run; patient clients proceed.
Fairness ==
    /\ WF_vars(MainThread)
    /\ WF_vars(HttpsThread)
    /\ \A c \in HttpClients : WF_vars(HttpHandler(c))
    /\ \A c \in Patient : /\ WF_vars(Connect(c))
                          /\ WF_vars(Greet(c))
                          /\ WF_vars(SendRequest(c))

FairSpec == Spec /\ Fairness

-----------------------------------------------------------------------------
(* Properties. *)

TypeOK ==
    /\ down \in {"no", "startup", "tls", "accept", "throw", "sigpipe", "wild", "race"}
    /\ acc \in {"startup", "accept", "dispatch"}
    /\ clientSock \in 0..MaxFd
    /\ nextThread \in 0..PoolSize
    /\ pool \in [Slots -> BOOLEAN] /\ corrupted \in BOOLEAN
    /\ tls \in {"init", "open"} /\ tlsKey \in Keys \cup {None}
    /\ ssl \in [HttpsClients -> {"none", "hello", "bad", "session"}]
    /\ queue \in [Ports -> Seq(Clients)]
    /\ fdtab \in [Fds -> Clients \cup {None}]
    /\ pc \in [Clients -> Handling \cup {"none", "queued", "dispatch", "done"}]
    /\ fd \in [Clients -> 0..MaxFd]
    /\ key \in [Clients -> Keys \cup {None}]
    /\ filemap \in [Keys -> {"servlet", "null", "absent"}] /\ raced \in BOOLEAN
    /\ conn \in [Clients -> {"idle", "open", "half", "gone"}]
    /\ msg \in [Clients -> Requests \cup {None}]
    /\ reply \in [Clients -> Seq(Keys \cup {None})]

\* The pages that answer what c asked: one for a well-formed request, any for
\* one whose url is read from stale memory, none before it has asked.
AnswersTo(c, m) == IF c \in HttpClients THEN Parses(m) ELSE {TlsKeyOf(m)}
Answers(c) == IF msg[c] = None THEN {} ELSE AnswersTo(c, msg[c])

\* A handler uses a bare number for its connection.  Until it closes it, that
\* number must name its own connection, or it answers, or hangs up on, a
\* stranger whom accept gave the number to (server.cc accept_request).
FdOwnership ==
    /\ \A c \in Clients : pc[c] \in Handling => fd[c] \in Fds /\ fdtab[fd[c]] = c
    /\ \A c \in Clients :
        pc[c] = "dispatch" => acc = "dispatch" /\ clientSock \in Fds /\ fdtab[clientSock] = c

\* Descriptors are what accept dies without.  Each that is taken belongs to one
\* connection that HTTP is still serving, or to an HTTPS connection: those alone
\* are never given back (accept_request against HttpsServer::run).
DescriptorsAccounted ==
    \A f \in Fds : fdtab[f] # None =>
        /\ pc[fdtab[f]] \notin {"none", "queued"}
        /\ fdtab[f] \in HttpClients => pc[fdtab[f]] # "done"
        /\ \A g \in Fds : fdtab[g] = fdtab[f] => f = g

\* The pages an earlier client of the HTTPS port asked for: one of them is the
\* url left in the frame when a read gets nothing.
LeftInFrame(k) == \E d \in HttpsClients : msg[d] # None /\ k = TlsKeyOf(msg[d])

\* Whatever the interleaving, a client receives at most one page, a preloaded
\* one.  If it asked for something it is the answer to its own request.  Only a
\* client that shut its side without asking can get the page of a stale url: over
\* HTTPS that of an earlier client's request, over HTTP whatever the stack holds
\* (HttpRequest::handler and doGet, HttpsRequest::read).
RightReply ==
    \A c \in Clients : reply[c] # <<>> =>
        /\ Len(reply[c]) = 1 /\ reply[c][1] \in Loaded
        /\ IF msg[c] # None THEN reply[c][1] \in Answers(c)
           ELSE conn[c] # "open" /\ (c \in HttpsClients => LeftInFrame(reply[c][1]))

\* What makes the three above inductive: a connection waits in the queue of its
\* port once, main dispatches the one it accepted last, and the key a handler
\* looks up answers its client as long as that client can still receive.
Queues ==
    \A p \in Ports : \A i \in 1..Len(queue[p]) :
        /\ pc[queue[p][i]] = "queued" /\ PortOf(queue[p][i]) = p
        /\ \A j \in 1..Len(queue[p]) : queue[p][i] = queue[p][j] => i = j
Stages ==
    /\ \A c \in Clients : pc[c] = "none" <=> conn[c] = "idle"
    /\ \A c \in HttpClients : pc[c] # "handshake"
    /\ \A c \in HttpsClients : pc[c] # "dispatch"
    /\ acc = "dispatch" =>
        /\ clientSock \in Fds /\ fdtab[clientSock] \in Clients
        /\ pc[fdtab[clientSock]] = "dispatch"
OwnerInv == Queues /\ Stages /\ FdOwnership /\ DescriptorsAccounted

KeysFit ==
    /\ \A k \in Keys : filemap[k] = "servlet" => k \in Loaded
    /\ tlsKey # None => LeftInFrame(tlsKey)
    /\ \A c \in Clients :
        /\ pc[c] \in {"access", "send"} =>
            /\ key[c] \in Keys
            /\ c \in HttpsClients => LeftInFrame(key[c])
            /\ conn[c] = "open" => msg[c] # None
            /\ conn[c] \in {"open", "half"} /\ msg[c] # None => key[c] \in Answers(c)
        /\ pc[c] = "send" => key[c] \in Loaded
        /\ reply[c] # <<>> => pc[c] \in {"close", "done"} /\ (msg[c] # None \/ conn[c] # "open")
ReplyInv == KeysFit /\ RightReply

\* main loses no thread handle: as long as it stays inside the array, as many
\* elements of threadPool are joinable as threads were started, and the index
\* is at the oldest idle one (the scan in main).
HandlesKept ==
    ~corrupted =>
        /\ Cardinality({i \in Slots : pool[i]})
              = Cardinality({c \in HttpClients : pc[c] \in Handling \cup {"done"}})
        /\ \A i \in Slots : pool[i] => \A j \in 0..i : pool[j]
        /\ acc # "dispatch" => nextThread \in Slots
        /\ nextThread \in Slots /\ ~pool[nextThread] => \A i \in Slots : pool[i] <=> i < nextThread

\* What puts the shared map at risk is a request for a page that is missing, and
\* nothing else: without one no lookup inserts and no two threads conflict, every
\* null entry is the trace of such a request, and a preloaded page is out of reach
\* only after a conflict (FileSys::access).
PagesSafe ==
    /\ raced => \E c \in Clients : key[c] \in Keys \ Loaded
    /\ \A k \in Keys : filemap[k] = "null" => \E c \in Clients : key[c] = k
    /\ ~raced => \A k \in Keys : k \in Loaded <=> filemap[k] = "servlet"

\* The objects in the file map are shared by every thread of the server, and
\* "the servers must worry about thread safety of the objects within".
MapRaceFree == ~raced

\* The server implements WebService: threads, reused descriptors and the shared
\* map can make it go down, but never give a client a page it should not have.
Service == INSTANCE WebService WITH
    Pages <- Loaded,
    Fits <- [c \in Clients |-> [m \in Requests |-> AnswersTo(c, m)]],
    Before <- [c \in Clients |-> IF c \in HttpClients THEN {} ELSE HttpsClients],
    Stack <- [c \in Clients |-> IF c \in HttpClients THEN Loaded ELSE {}],
    up <- down = "no",
    phase <- [c \in Clients |->
                 CASE pc[c] \in {"none", "queued"} -> "waiting"
                   [] pc[c] = "done" -> "ended"
                   [] OTHER -> "taken"],
    asked <- msg,
    shut <- [c \in Clients |-> conn[c] \in {"half", "gone"}],
    answer <- reply
ImplementsService == Service!Spec

\* A client that asks for a preloaded page and waits receives it, unless the
\* server never came up.
PageServed ==
    \A c \in Patient :
        (msg[c] # None /\ Answers(c) \subseteq Loaded)
            ~> (reply[c] # <<>> \/ down \in {"startup", "tls"})

\* A client whose next bytes the thread at its connection waits for.
Silent(c) ==
    /\ conn[c] = "open"
    /\ \/ pc[c] = "handshake" /\ ssl[c] = "none"
       \/ pc[c] = "recv" /\ msg[c] = None

\* A silent client holds up only itself on the HTTP port, where each connection
\* has a thread, but every later one on the HTTPS port, where all share one.
HeldUp(c) == \E d \in (IF c \in HttpClients THEN {c} ELSE HttpsClients) : Silent(d)

\* Whatever clients send and however they leave, every connection, however far it
\* has come, is accepted, served and ended, unless the process ends or clients
\* that stay silent for ever hold it up (main, accept_request, HttpsServer::run).
\* A connection never goes back: what is not stuck in the end has ended.
ConnectionsEnd ==
    <>[](\A c \in Clients : pc[c] \in {"none", "done"} \/ down # "no" \/ HeldUp(c))
=============================================================================
