----------------------------- MODULE Hydroprot -----------------------------
(***************************************************************************)
(* The hydroprot server (server.cc): one loop that accepts a client, reads *)
(* its option and answers with the next block of the template file (option *)
(* 0, a first request) or with the binary values (any other option).       *)
(* The option, the block buffer and the offset of the open file belong to  *)
(* the loop, not to the client, and are never reset.                       *)
(*                                                                         *)
(* A block is what one read of the file fills: block i of the file, or, at *)
(* its end, nothing.  The buffer is described by what its first bytes hold *)
(* and what its last bytes hold, since a short block and the values cover  *)
(* the first ones only.                                                    *)
(***************************************************************************)
EXTENDS Integers, Sequences, FiniteSets

CONSTANTS
    Clients,
    Options,     \* what clients may send: "zero", "other", "partial"
    Blocks,      \* numbers of blocks a file may have
    LastShort,   \* whether the last of them fills only part of the buffer
    None

ASSUME HydroprotAssumption ==
    /\ Options \subseteq {"zero", "other", "partial"}
    /\ Blocks \subseteq Nat
    /\ LastShort \in BOOLEAN
    /\ None \notin Clients \cup {"zero", "other", "partial"}

VARIABLES
    server,   \* "starting", "running" or "ended"
    queue,    \* clients waiting for accept
    client,   \* the client being served, or None
    opt,      \* the option last read, "junk" before the first
    blocks,   \* number of blocks of the file it was started with
    offset,   \* those of them read so far
    buff,     \* what the buffer holds
    conn,     \* the clients' side: "idle", "open", "half" (it sends no more), "gone"
              \* or "closed" by the server
    sent,     \* the option a client sent, or None
    got,      \* the answer a client received, or None
    order     \* history: the clients with an answer, in the order they got it

vars == <<server, queue, client, opt, blocks, offset, buff, conn, sent, got, order>>

Junk == 0
Values == -1
Content == {Junk, Values} \cup 1..blocks

Init ==
    /\ server = "starting"
    /\ queue = <<>> /\ client = None
    /\ opt = "junk"
    /\ blocks \in Blocks /\ offset = 0
    /\ buff = [first |-> Junk, last |-> Junk]
    /\ conn = [c \in Clients |-> "idle"]
    /\ sent = [c \in Clients |-> None]
    /\ got = [c \in Clients |-> None]
    /\ order = <<>>

-----------------------------------------------------------------------------
(* The clients. *)

Connect(c) ==
    /\ server = "running" /\ conn[c] = "idle"
    /\ conn' = [conn EXCEPT ![c] = "open"]
    /\ queue' = Append(queue, c)
    /\ UNCHANGED <<server, client, opt, blocks, offset, buff, sent, got, order>>

SendOption(c) ==
    /\ conn[c] = "open" /\ sent[c] = None
    /\ \E o \in Options : sent' = [sent EXCEPT ![c] = o]
    /\ UNCHANGED <<server, queue, client, opt, blocks, offset, buff, conn, got, order>>

\* It shuts its side down, and can still receive.
HalfClose(c) ==
    /\ conn[c] = "open"
    /\ conn' = [conn EXCEPT ![c] = "half"]
    /\ UNCHANGED <<server, queue, client, opt, blocks, offset, buff, sent, got, order>>

Leave(c) ==
    /\ conn[c] \in {"open", "half"}
    /\ conn' = [conn EXCEPT ![c] = "gone"]
    /\ UNCHANGED <<server, queue, client, opt, blocks, offset, buff, sent, got, order>>

-----------------------------------------------------------------------------
(* The server. *)

\* The file is there, and one of the addresses can be bound and listened to.
Startup ==
    /\ server = "starting"
    /\ server' = "running"
    /\ UNCHANGED <<queue, client, opt, blocks, offset, buff, conn, sent, got, order>>

\* No file or no address: it exits.  SIGINT ends it at any time.
StartupFails ==
    /\ server = "starting"
    /\ server' = "ended"
    /\ UNCHANGED <<queue, client, opt, blocks, offset, buff, conn, sent, got, order>>
Interrupt ==
    /\ server = "running"
    /\ server' = "ended"
    /\ UNCHANGED <<queue, client, opt, blocks, offset, buff, conn, sent, got, order>>

Accept ==
    /\ server = "running"
    /\ client = None /\ queue # <<>>
    /\ client' = Head(queue)
    /\ queue' = Tail(queue)
    /\ UNCHANGED <<server, opt, blocks, offset, buff, conn, sent, got, order>>

\* Mutant: a read of nothing is tried again.
OptionsAwaited(c) ==
    CASE sent[c] = "zero" -> {"zero"}
      [] sent[c] = "other" -> {"other"}
      [] sent[c] = "partial" -> {"zero", "other"}
      [] OTHER -> {}

\* What opt may be after the read: the option, or what it was when nothing comes any
\* more; part of an option leaves a mixture of the two.
OptionsRead(c) ==
    (CASE sent[c] = "zero" -> {"zero"}
       [] sent[c] = "other" -> {"other"}
       [] sent[c] = "partial" -> {"zero", "other"}
       [] OTHER -> {})
    \cup (IF conn[c] = "gone" \/ (conn[c] = "half" /\ sent[c] = None) THEN {opt} ELSE {})

\* Mutant: blocks are read past the end of the file.
BlockPastEnd == [first |-> offset + 1, last |-> offset + 1]

\* read(fd, buff, BUFFSIZE): the next block, and at the end of the file nothing.
BlockRead ==
    IF offset = blocks THEN buff
    ELSE [first |-> offset + 1,
          last |-> IF LastShort /\ offset + 1 = blocks THEN buff.last ELSE offset + 1]

\* The answer reaches a client that is still there; SIGPIPE ends a server that
\* writes to one that has gone.
Deliver(c) ==
    /\ \/ /\ conn[c] \in {"open", "half"}
          /\ got' = [got EXCEPT ![c] = buff']
          /\ conn' = [conn EXCEPT ![c] = "closed"]
          /\ order' = Append(order, c)
          /\ UNCHANGED server
       \/ /\ conn[c] = "gone"
          /\ server' \in {"running", "ended"}
          /\ UNCHANGED <<got, conn, order>>
    /\ client' = None

\* Mutants: the negation of opt is dropped; the file is read from its start.
AnswerOther(o) ==
    /\ o \in {"other", "junk"}
    /\ buff' = BlockRead
    /\ offset' = IF offset = blocks THEN offset ELSE offset + 1
AnswerFirst(o) ==
    /\ o \in {"zero", "junk"}
    /\ buff' = BlockRead
    /\ UNCHANGED offset

\* An option is false as a C integer when it is zero; an uninitialized one is either.
AnswerBlock(o) ==
    /\ o \in {"zero", "junk"}
    /\ buff' = BlockRead
    /\ offset' = IF offset = blocks THEN offset ELSE offset + 1
AnswerValues(o) ==
    /\ o \in {"other", "junk"}
    /\ buff' = [buff EXCEPT !.first = Values]
    /\ UNCHANGED offset

Answer(c) ==
    /\ server = "running" /\ client = c
    /\ \E o \in OptionsRead(c) :
        /\ opt' = o
        /\ AnswerBlock(o) \/ AnswerValues(o)
    /\ Deliver(c)
    /\ UNCHANGED <<queue, blocks, sent>>

Next ==
    \/ Startup \/ StartupFails \/ Interrupt \/ Accept
    \/ \E c \in Clients : Connect(c) \/ SendOption(c) \/ HalfClose(c) \/ Leave(c) \/ Answer(c)

\* The loop runs whenever it can; nothing obliges a client to do anything.
Spec == Init /\ [][Next]_vars
FairSpec == Spec /\ WF_vars(Accept \/ \E c \in Clients : Answer(c))

-----------------------------------------------------------------------------
TypeOK ==
    /\ server \in {"starting", "running", "ended"}
    /\ queue \in Seq(Clients) /\ client \in Clients \cup {None}
    /\ opt \in {"junk", "zero", "other"}
    /\ blocks \in Blocks /\ offset \in 0..blocks
    /\ buff \in [first : Content, last : Content]
    /\ conn \in [Clients -> {"idle", "open", "half", "gone", "closed"}]
    /\ sent \in [Clients -> Options \cup {None}]
    /\ got \in [Clients -> [first : Content, last : Content] \cup {None}]
    /\ order \in Seq(Clients)

\* A client that sends an option other than 0 is answered with the values, whatever
\* those before it asked and left behind.
ValuesForOption ==
    \A c \in Clients : sent[c] = "other" /\ got[c] # None => got[c].first = Values

\* The blocks are handed out in the order of the file, each to one client, however the
\* requests for values fall between: of two clients that got a block, the later one's is
\* the later block, until the last, which everyone gets who comes after it.  It is the
\* loop's offset that orders them (server.cc:155), so that a second client's first request
\* is answered with the second block, where README.txt:9 has the file streamed to a
\* client whose option is 0.
GotBlock(c) == got[c].first # Values
BlocksOnce ==
    \A i, j \in DOMAIN order :
        i < j /\ GotBlock(order[i]) /\ GotBlock(order[j])
            => got[order[i]].first < got[order[j]].first \/ got[order[j]].first = blocks

\* The tail of a values answer is whatever the buffer last held: it may show the
\* last full block read, but never a block that was not read before.
StaleTail ==
    \A c \in Clients : got[c] # None /\ got[c].last # Junk => got[c].last \in 1..offset

\* One client at a time: an accepted client is served before the next, unless it
\* stays silent.
ClientsServed ==
    \A c \in Clients :
        client = c ~> (client # c \/ server = "ended" \/ (conn[c] = "open" /\ sent[c] = None))
=============================================================================
