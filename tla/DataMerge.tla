----------------------------- MODULE DataMerge -----------------------------
(***************************************************************************)
(* How hydroprot fills a page with values: mdata.cc splits a template into *)
(* fixed.dat, the lengths of the texts between its variables, then the     *)
(* texts; client.cc reads fixed.dat and the values the server sent, and    *)
(* writes texts and values in turn to output.dat.                          *)
(*                                                                         *)
(* mdata writes the lengths with write and the texts with fprintf to the   *)
(* same file: their order is that of the flushes of stdio's buffer.  A     *)
(* text is known by where it starts and ends among all the texts.          *)
(***************************************************************************)
EXTENDS Numbers, Sequences, FiniteSetsExt

CONSTANTS
    Templates,   \* [pre |-> lengths of the texts before each variable, rest |-> of the last]
    StdioSize,   \* bytes the buffer of a FILE holds: 4096
    Values,      \* how many values the server sends: 5
    Addresses    \* that getaddrinfo finds for the server

ASSUME DataMergeAssumption ==
    /\ \A t \in Templates : t.pre \in Seq(Nat) /\ t.rest \in Nat
    /\ StdioSize \in Nat \ {0}
    /\ Values \in Nat /\ Addresses \in Nat

VARIABLES
    tmpl,      \* the template
    stage,     \* "split", "close", "connect", "connecting", "read", "merge", "done",
               \* "closed", or "lost": the client died, or follows what is no length
    k,         \* variables met so far, by mdata, then by the client
    file,      \* fixed.dat: items "len", "last" and "text", with their number
    pending,   \* bytes of text in stdio's buffer
    tried,     \* addresses that were tried in vain
    sockets,   \* that are open
    received,  \* how many of the values the one read of the client got whole, and
               \* the client can follow
    auxv,      \* where the client is among the lengths, in characters
    text,      \* and where among the texts
    out        \* what it has written to output.dat

vars == <<tmpl, stage, k, file, pending, tried, sockets, received, auxv, text, out>>

Variables == Len(tmpl.pre)
Total(t) == SumTo(t.pre, Len(t.pre)) + t.rest

Init ==
    /\ tmpl \in Templates
    /\ stage = "split" /\ k = 0
    /\ file = <<>> /\ pending = 0
    /\ tried = 0 /\ sockets = 0
    /\ received = 0 /\ auxv = 0 /\ text = 0
    /\ out = <<>>

-----------------------------------------------------------------------------
(* mdata *)

Item(kind, n) == [kind |-> kind, n |-> n]
Text(n) == IF n = 0 THEN <<>> ELSE <<Item("text", n)>>

\* Mutant: the texts bypass the buffer.
FlushedAtOnce(n) == pending + n

\* fprintf of n bytes: when they overflow the buffer whole blocks are written.
Flushed(n) == IF pending + n <= StdioSize THEN 0 ELSE ((pending + n) \div StdioSize) * StdioSize
Fprintf(n) == pending' = pending + n - Flushed(n)

\* A variable: the length of its prefix is written, then the prefix printed.
SplitVariable ==
    /\ stage = "split" /\ k < Variables
    /\ LET n == tmpl.pre[k + 1] IN
        /\ file' = file \o <<Item("len", n)>> \o Text(Flushed(n))
        /\ Fprintf(n)
    /\ k' = k + 1
    /\ UNCHANGED <<tmpl, stage, tried, sockets, received, auxv, text, out>>

\* After the last variable the rest is printed, then its length written; without
\* a variable neither is, and fixed.dat stays empty.
SplitRest ==
    /\ stage = "split" /\ k = Variables
    /\ IF k = 0 THEN UNCHANGED <<file, pending>>
       ELSE /\ file' = file \o Text(Flushed(tmpl.rest)) \o <<Item("last", tmpl.rest)>>
            /\ Fprintf(tmpl.rest)
    /\ stage' = "close"
    /\ UNCHANGED <<tmpl, k, tried, sockets, received, auxv, text, out>>

\* fclose writes what is left in the buffer.
CloseFile ==
    /\ stage = "close"
    /\ file' = file \o Text(pending)
    /\ pending' = 0
    /\ stage' = "connect" /\ k' = 0
    /\ UNCHANGED <<tmpl, tried, sockets, received, auxv, text, out>>

-----------------------------------------------------------------------------
(* The client *)

Waiting == <<tmpl, k, file, pending, received, auxv, text, out>>

\* A socket for the next address, or none for this one.
OpenSocket ==
    /\ stage = "connect" /\ tried < Addresses
    /\ \/ sockets' = sockets + 1 /\ stage' = "connecting" /\ UNCHANGED tried
       \/ tried' = tried + 1 /\ UNCHANGED <<sockets, stage>>
    /\ UNCHANGED Waiting

\* Mutant: the socket that was refused stays open.
RefusedOpen ==
    /\ stage = "connecting"
    /\ tried' = tried + 1
    /\ stage' = "connect"
    /\ UNCHANGED <<sockets, Waiting>>

Refused ==
    /\ stage = "connecting"
    /\ sockets' = sockets - 1
    /\ tried' = tried + 1
    /\ stage' = "connect"
    /\ UNCHANGED Waiting

Connected ==
    /\ stage = "connecting"
    /\ stage' = "read"
    /\ tried' = 0
    /\ UNCHANGED <<sockets, Waiting>>

\* No address is left, or a call fails: error_die.
Dies ==
    /\ \/ stage = "connect" /\ tried = Addresses
       \/ stage = "read"
    /\ stage' = "lost"
    /\ UNCHANGED <<tried, sockets, Waiting>>

\* The file is the lengths, the last of them, and nothing but text.
WellFormed(f) ==
    \E i \in 1..Len(f) :
        /\ f[i].kind = "last"
        /\ \A j \in 1..(i - 1) : f[j].kind = "len"
        /\ \A j \in (i + 1)..Len(f) : f[j].kind = "text"

\* One read of the socket: any number of the values that were sent, from the first.
ReadMessage ==
    /\ stage = "read"
    /\ received' \in 0..Values
    /\ stage' = IF WellFormed(file) THEN "merge" ELSE "lost"
    /\ UNCHANGED <<tmpl, k, file, pending, tried, sockets, auxv, text, out>>

\* With option 0 the client only reads, and closes.
Unasked ==
    /\ stage = "read"
    /\ stage' = "closed"
    /\ sockets' = sockets - 1
    /\ UNCHANGED <<tried, Waiting>>

\* What the client takes that number to be; a negative one is its opposite.
Numbersize(n) ==
    LET abs == IF n < 0 THEN -n ELSE n
        size[m \in 0..abs] ==
            IF m < 10 THEN 1 ELSE IF m < 100 THEN 2 ELSE IF m < 1000 THEN 3
            ELSE 3 * size[m \div 1000]
    IN  size[abs]

Header == SubSeq(file, 1, CHOOSE i \in 1..Len(file) : file[i].kind = "last")
\* Where each number of the header starts; each is followed by a newline.
StartOf(i) == SumTo([j \in DOMAIN Header |-> Digits(Header[j].n) + 1], i - 1)

\* sscanf at a character of the header: the digits that are left of the number
\* there, or the next number; the last one has a minus before it.
ReadAt(pos) ==
    LET last == Len(Header)
        in == {i \in 1..(last - 1) :
                  StartOf(i) <= pos /\ pos < StartOf(i) + Digits(Header[i].n)}
    IN  IF in # {}
        THEN LET i == CHOOSE i \in in : TRUE
                 left == Digits(Header[i].n) - (pos - StartOf(i))
             IN Header[i].n % Pow(10, left)
        ELSE LET next == {i \in 1..last : StartOf(i) >= pos}
             IN IF next = {} THEN -1
                ELSE IF Min(next) = last THEN -Header[last].n
                ELSE Header[Min(next)].n

TextOut(n) == [kind |-> "text", from |-> text, to |-> text + n]
ValueOut(i) == [kind |-> "value", n |-> i]
Junk == [kind |-> "junk"]

\* Behind the values received the buffer holds anything: a type that prints
\* nothing, one that prints what follows, or none at all.
Converted(i) == IF i <= received THEN {<<ValueOut(i)>>} ELSE {<<>>, <<Junk>>}

\* Mutant: the value is written before its text.
MergeSwapped ==
    LET n == ReadAt(auxv) IN
    /\ stage = "merge" /\ k < Len(Header) - 1 /\ n >= 0
    /\ k' = k + 1 /\ auxv' = auxv + Numbersize(n) + 1 /\ text' = text + n
    /\ \E v \in Converted(k + 1) : out' = out \o v \o <<TextOut(n)>>
    /\ UNCHANGED <<tmpl, stage, file, pending, tried, sockets, received>>

\* One turn of the loop over the variables: the length, the text, the value.
MergeVariable ==
    LET n == ReadAt(auxv) IN
    /\ stage = "merge" /\ k < Len(Header) - 1
    /\ n >= 0
    /\ k' = k + 1
    /\ auxv' = auxv + Numbersize(n) + 1
    /\ text' = text + n
    /\ \E v \in Converted(k + 1) : out' = out \o <<TextOut(n)>> \o v
    /\ UNCHANGED <<tmpl, stage, file, pending, tried, sockets, received>>

\* Mutant: the last value received counts as missing.
MergeDiesEarly ==
    /\ stage = "merge" /\ k < Len(Header) - 1
    /\ k + 1 >= received
    /\ stage' = "lost"
    /\ UNCHANGED <<tmpl, k, file, pending, tried, sockets, received, auxv, text, out>>

\* A length that is none ends the client, and so may what lies behind the values
\* received, once the text before it is written.
MergeDies ==
    LET n == ReadAt(auxv) IN
    /\ stage = "merge" /\ k < Len(Header) - 1
    /\ \/ n < 0 /\ UNCHANGED out
       \/ n >= 0 /\ k >= received /\ out' = Append(out, TextOut(n))
    /\ stage' = "lost"
    /\ UNCHANGED <<tmpl, k, file, pending, tried, sockets, received, auxv, text>>

\* The last length is negative; one that is not is taken as it is.
MergeRest ==
    LET n == ReadAt(auxv) IN
    /\ stage = "merge" /\ k = Len(Header) - 1
    /\ out' = Append(out, TextOut(IF n < 0 THEN -n ELSE n))
    /\ stage' = "done" /\ sockets' = sockets - 1
    /\ UNCHANGED <<tmpl, k, file, pending, tried, received, auxv, text>>

Next ==
    \/ SplitVariable \/ SplitRest \/ CloseFile
    \/ OpenSocket \/ Refused \/ Connected \/ Dies \/ Unasked
    \/ ReadMessage \/ MergeVariable \/ MergeDies \/ MergeRest

Spec == Init /\ [][Next]_vars /\ WF_vars(Next)

-----------------------------------------------------------------------------
(* Properties *)

Items == [kind : {"len", "last", "text"}, n : Nat]

\* The buffer never holds more than StdioSize, and neither program meets more
\* variables than there are; the client has one socket at most, and when it has
\* written the page none.
TypeOK ==
    /\ tmpl \in Templates
    /\ stage \in {"split", "close", "connect", "connecting", "read", "merge", "done",
                 "closed", "lost"}
    /\ tried \in 0..Addresses /\ sockets \in 0..1
    /\ stage \in {"connecting", "read", "merge"} => sockets = 1
    /\ stage \in {"connect", "done", "closed"} => sockets = 0
    /\ k \in 0..Variables
    /\ file \in Seq(Items)
    /\ pending \in 0..StdioSize
    /\ received \in 0..Values
    /\ auxv \in Nat /\ text \in Nat
    /\ \A i \in 1..Len(out) : out[i].kind \in {"text", "value", "junk"}

\* The template has a variable and its texts fit in the buffer.
Fits == Variables > 0 /\ Total(tmpl) <= StdioSize

TextBytes == SumTo([i \in DOMAIN file |-> IF file[i].kind = "text" THEN file[i].n ELSE 0], Len(file))

\* fixed.dat begins with its lengths, all of them and in order, although they
\* are written between the texts: the texts wait in the buffer (mdata.cc:49).
LengthsFirst ==
    Fits /\ stage \notin {"split", "close"} =>
        /\ WellFormed(file)
        /\ [i \in 1..Len(Header) |-> Header[i].n] = Append(tmpl.pre, tmpl.rest)
        /\ TextBytes = Total(tmpl)

\* Lengths the client can follow: one of four digits leaves it a character
\* behind, which sscanf makes good; a second one does not (client.cc:58).
Followed == Cardinality({i \in 1..Variables : tmpl.pre[i] >= 1000}) <= 1

\* The page: text, value, text, value, ... and the rest.
Before(i) == SumTo(tmpl.pre, i - 1)
Page ==
    [i \in 1..(2 * Variables + 1) |->
        IF i = 2 * Variables + 1
        THEN [kind |-> "text", from |-> Before(Variables + 1), to |-> Total(tmpl)]
        ELSE IF i % 2 = 0 THEN ValueOut(i \div 2)
        ELSE [kind |-> "text", from |-> Before((i + 1) \div 2), to |-> Before((i + 3) \div 2)]]

\* When the values have arrived, the client that finishes has written the texts
\* of the template with the values in the places of the variables, each once and
\* in order: mdata's format and the client's arithmetic on it agree.
PageMerged ==
    Fits /\ Followed /\ received >= Variables /\ stage = "done" => out = Page

\* And it does finish.
MergeFinishes ==
    (Fits /\ Followed /\ received >= Variables /\ stage = "merge") ~> (stage = "done")
=============================================================================
