-------------------------- MODULE HydroprotProofs --------------------------
(***************************************************************************)
(* What the hydroprot server answers, for any clients, any options they    *)
(* send and any number of blocks.                                          *)
(***************************************************************************)
EXTENDS Hydroprot, SequenceTheorems, TLAPS

LEMMA TypeInit == Init => TypeOK
BY HydroprotAssumption DEF Init, TypeOK, Content

\* What a read of the file leaves in the buffer, and where in the file.
LEMMA BlockType ==
    ASSUME TypeOK
    PROVE  /\ BlockRead \in [first : Content, last : Content]
           /\ offset # blocks => BlockRead.first = offset + 1 /\ offset + 1 \in 1..blocks
           /\ BlockRead.last \in {buff.last, offset + 1}
           /\ offset = blocks => BlockRead = buff
BY HydroprotAssumption DEF TypeOK, BlockRead, Content

\* What one answer does to option, buffer and offset.
LEMMA AnswerEffect ==
    ASSUME TypeOK, NEW c \in Clients, Answer(c)
    PROVE  /\ opt' \in {"junk", "zero", "other"}
           /\ buff' \in [first : Content, last : Content]
           /\ blocks' = blocks /\ offset' \in 0..blocks /\ offset <= offset'
           /\ buff'.last = buff.last \/ (buff'.last = offset' /\ offset' = offset + 1)
           /\ \/ buff'.first = Values
              \/ offset = blocks /\ offset' = offset /\ buff'.first = buff.first
              \/ buff'.first = offset' /\ offset' = offset + 1
           /\ conn[c] \in {"open", "half"} /\ sent[c] = "other" => buff'.first = Values
<1> USE HydroprotAssumption
<1>1. PICK o \in OptionsRead(c) : opt' = o /\ (AnswerBlock(o) \/ AnswerValues(o))
  BY DEF Answer
<1> /\ blocks' = blocks /\ blocks \in Nat
  BY DEF Answer, TypeOK
<1>2. o \in {"junk", "zero", "other"}
  BY <1>1 DEF OptionsRead, TypeOK
<1>3. conn[c] \in {"open", "half"} /\ sent[c] = "other" => o = "other"
  BY HydroprotAssumption DEF OptionsRead
<1>4. CASE AnswerBlock(o)
  BY <1>1, <1>2, <1>3, <1>4, BlockType DEF AnswerBlock, TypeOK
<1>5. CASE AnswerValues(o)
  <2>1. o # "zero" /\ buff' = [buff EXCEPT !.first = Values] /\ offset' = offset
    BY <1>2, <1>5, <1>1 DEF AnswerValues
  <2>2. buff \in [first : Content, last : Content] /\ Values \in Content /\ offset \in 0..blocks
    BY DEF TypeOK, Content
  <2>3. buff' \in [first : Content, last : Content] /\ buff'.first = Values /\ buff'.last = buff.last
    BY <2>1, <2>2
  <2> QED BY <1>1, <1>2, <2>1, <2>2, <2>3
<1> QED BY <1>1, <1>4, <1>5

\* A client that receives its answer is served no more and says no more.
LEMMA DeliverEffect ==
    ASSUME TypeOK, NEW c \in Clients, Answer(c)
    PROVE  /\ \A d \in Clients \ {c} : got'[d] = got[d] /\ conn'[d] = conn[d]
           /\ \/ /\ conn[c] \in {"open", "half"} /\ conn'[c] = "closed"
                 /\ got'[c] = buff' /\ order' = Append(order, c)
              \/ got' = got /\ conn' = conn /\ order' = order
           /\ sent' = sent
BY DEF Answer, Deliver, TypeOK

LEMMA TypeStep == TypeOK /\ [Next]_vars => TypeOK'
<1> SUFFICES ASSUME TypeOK, [Next]_vars PROVE TypeOK'
  OBVIOUS
<1> USE HydroprotAssumption
<1>1. CASE UNCHANGED vars
  BY <1>1 DEF TypeOK, vars, Content
<1>2. CASE Startup \/ StartupFails \/ Interrupt
  BY <1>2 DEF TypeOK, Startup, StartupFails, Interrupt, Content
<1>3. CASE Accept
  <2>1. Head(queue) \in Clients /\ Tail(queue) \in Seq(Clients)
    BY <1>3, HeadTailProperties DEF Accept, TypeOK
  <2> QED BY <1>3, <2>1 DEF Accept, TypeOK, Content
<1>4. ASSUME NEW c \in Clients, Connect(c) PROVE TypeOK'
  <2>1. Append(queue, c) \in Seq(Clients)
    BY AppendProperties DEF TypeOK
  <2> QED BY <1>4, <2>1 DEF Connect, TypeOK, Content
<1>5. ASSUME NEW c \in Clients, SendOption(c) PROVE TypeOK'
  BY <1>5 DEF SendOption, TypeOK, Content
<1>6. ASSUME NEW c \in Clients, Leave(c) PROVE TypeOK'
  BY <1>6 DEF Leave, TypeOK, Content
<1>8. ASSUME NEW c \in Clients, HalfClose(c) PROVE TypeOK'
  BY <1>8 DEF HalfClose, TypeOK, Content
<1>7. ASSUME NEW c \in Clients, Answer(c) PROVE TypeOK'
  <2>1. opt' \in {"junk", "zero", "other"} /\ blocks' = blocks /\ offset' \in 0..blocks
        /\ buff' \in [first : Content, last : Content]
    BY <1>7, AnswerEffect
  <2>2. Content' = Content
    BY <2>1 DEF Content
  <2>3. Append(order, c) \in Seq(Clients)
    BY AppendProperties DEF TypeOK
  <2>4. UNCHANGED <<queue, blocks, sent>> /\ client' = None
        /\ server' \in {"starting", "running", "ended"}
    BY <1>7 DEF Answer, Deliver, TypeOK
  <2>5. /\ conn' \in [Clients -> {"idle", "open", "half", "gone", "closed"}]
        /\ got' \in [Clients -> [first : Content, last : Content] \cup {None}]
        /\ order' \in Seq(Clients)
    <3>1. /\ conn \in [Clients -> {"idle", "open", "half", "gone", "closed"}]
          /\ got \in [Clients -> [first : Content, last : Content] \cup {None}]
          /\ order \in Seq(Clients)
      BY DEF TypeOK
    <3>2. \/ /\ got' = [got EXCEPT ![c] = buff'] /\ conn' = [conn EXCEPT ![c] = "closed"]
             /\ order' = Append(order, c)
          \/ UNCHANGED <<got, conn, order>>
      BY <1>7 DEF Answer, Deliver
    <3> DEFINE R == [first : Content, last : Content]
               C == {"idle", "open", "half", "gone", "closed"}
    <3>3. conn \in [Clients -> C] /\ "closed" \in C /\ got \in [Clients -> R \cup {None}] /\ buff' \in R
      BY <2>1, <3>1
    <3> HIDE DEF R, C
    <3>4. conn' \in [Clients -> C] /\ got' \in [Clients -> R \cup {None}] /\ order' \in Seq(Clients)
      BY <2>3, <3>1, <3>2, <3>3
    <3> QED BY <3>4 DEF R, C
  <2> QED BY <2>1, <2>2, <2>4, <2>5 DEF TypeOK
<1> QED BY <1>1, <1>2, <1>3, <1>4, <1>5, <1>6, <1>7, <1>8 DEF Next

\* Every variable of the server and its clients keeps its type.
THEOREM Typing == Spec => []TypeOK
BY TypeInit, TypeStep, PTL DEF Spec

-----------------------------------------------------------------------------
\* Who has an answer is hung up on, and answered no more; the buffer shows what was read,
\* and no block was handed out that was not read before.
AnswerInv ==
    /\ \A c \in Clients : got[c] # None => conn[c] = "closed"
    /\ \A i \in DOMAIN order : conn[order[i]] = "closed"
    /\ \A i \in DOMAIN order : GotBlock(order[i]) => got[order[i]].first \in 0..offset
    /\ buff.last # Junk => buff.last \in 1..offset
    /\ buff.first # Values => buff.first = offset
    /\ ValuesForOption
    /\ StaleTail
    /\ BlocksOnce

answerVars == <<blocks, offset, buff, conn, sent, got, order>>

LEMMA AnswerInit == Init => AnswerInv
BY DEF Init, AnswerInv, ValuesForOption, StaleTail, BlocksOnce, Junk

LEMMA AnswerFrame == AnswerInv /\ UNCHANGED answerVars => AnswerInv'
BY DEF AnswerInv, answerVars, ValuesForOption, StaleTail, BlocksOnce, GotBlock

\* What a client does before its answer disturbs no answer.
LEMMA ClientStep ==
    ASSUME TypeOK, AnswerInv, NEW c \in Clients,
           Connect(c) \/ SendOption(c) \/ HalfClose(c) \/ Leave(c)
    PROVE  AnswerInv'
<1>1. UNCHANGED <<got, blocks, offset, buff, order>>
  BY DEF Connect, SendOption, HalfClose, Leave
<1>2. got[c] = None
  BY DEF Connect, SendOption, HalfClose, Leave, AnswerInv
<1>3. \A d \in Clients \ {c} : conn'[d] = conn[d] /\ sent'[d] = sent[d]
  BY DEF Connect, SendOption, HalfClose, Leave, TypeOK
<1>4. conn[c] # "closed" \/ conn'[c] = conn[c]
  BY DEF Connect, SendOption, HalfClose, Leave
<1>5. (\A i \in DOMAIN order : conn[order[i]] = "closed")'
  <2>1. \A i \in DOMAIN order : order[i] \in Clients /\ conn[order[i]] = "closed"
    BY DEF TypeOK, AnswerInv
  <2> QED BY <1>1, <1>3, <1>4, <2>1
<1>6. (\A d \in Clients : got[d] # None => conn[d] = "closed")'
  BY <1>1, <1>2, <1>3 DEF AnswerInv
<1>7. ValuesForOption'
  BY <1>1, <1>2, <1>3 DEF AnswerInv, ValuesForOption
<1> QED BY <1>1, <1>5, <1>6, <1>7 DEF AnswerInv, StaleTail, BlocksOnce, GotBlock

LEMMA ServerStep ==
    ASSUME TypeOK, AnswerInv, NEW c \in Clients, Answer(c)
    PROVE  AnswerInv'
<1> USE DeliverEffect, AnswerEffect
<1>0. /\ offset \in Nat /\ offset' \in Nat /\ blocks \in Nat /\ blocks' = blocks
      /\ offset <= offset' /\ offset' <= blocks /\ offset <= blocks
      /\ order \in Seq(Clients)
  BY HydroprotAssumption DEF TypeOK
<1>1. (\A d \in Clients : got[d] # None => conn[d] = "closed")'
  BY DEF AnswerInv
<1>2. (buff.last # Junk => buff.last \in 1..offset)'
  BY <1>0 DEF AnswerInv
<1>3. ValuesForOption'
  BY DEF AnswerInv, ValuesForOption
<1>4. StaleTail'
  BY <1>0, <1>2 DEF AnswerInv, StaleTail
<1>5. buff'.first # Values =>
        buff'.first = offset' /\ (offset' = offset + 1 \/ (offset' = offset /\ offset = blocks))
  BY <1>0 DEF AnswerInv
<1>6. CASE got' = got /\ conn' = conn /\ order' = order
  BY <1>0, <1>1, <1>2, <1>3, <1>4, <1>5, <1>6 DEF AnswerInv, BlocksOnce, GotBlock
<1>7. CASE /\ conn[c] \in {"open", "half"} /\ conn'[c] = "closed"
           /\ got'[c] = buff' /\ order' = Append(order, c)
  <2> DEFINE n == Len(order)
  <2>1. /\ n \in Nat /\ Len(order') = n + 1 /\ order'[n + 1] = c
        /\ \A i \in 1..n : order'[i] = order[i]
        /\ DOMAIN order = 1..n /\ DOMAIN order' = 1..(n + 1)
    BY <1>0, <1>7
  <2>2. \A i \in 1..n : order[i] # c /\ order[i] \in Clients
    <3>1. \A i \in 1..n : order[i] \in Clients
      BY <1>0
    <3>2. \A i \in 1..n : conn[order[i]] = "closed"
      BY <2>1 DEF AnswerInv
    <3> QED BY <1>7, <3>1, <3>2
  <2>3. \A i \in 1..n : got'[order'[i]] = got[order[i]]
    BY <2>1, <2>2
  <2>4. got'[order'[n + 1]] = buff'
    BY <1>7, <2>1
  <2> HIDE DEF n
  <2>5. conn'[c] = "closed" /\ \A d \in Clients \ {c} : conn'[d] = conn[d]
    BY <1>7
  <2>6. (\A i \in DOMAIN order : conn[order[i]] = "closed")'
    BY <2>1, <2>2, <2>5 DEF AnswerInv
  <2>7. (\A i \in DOMAIN order : GotBlock(order[i]) => got[order[i]].first \in 0..offset)'
    BY <1>0, <1>5, <2>1, <2>3, <2>4 DEF AnswerInv, GotBlock
  <2>8. BlocksOnce'
    <3> SUFFICES ASSUME NEW i \in 1..(n + 1), NEW j \in 1..(n + 1), i < j,
                        got'[order'[i]].first # Values, got'[order'[j]].first # Values
                 PROVE  \/ got'[order'[i]].first < got'[order'[j]].first
                        \/ got'[order'[j]].first = blocks
      BY <1>0, <2>1 DEF BlocksOnce, GotBlock
    <3>1. CASE j \in 1..n
      <4>1. i \in 1..n
        BY <2>1, <3>1
      <4> QED BY <2>1, <2>3, <3>1, <4>1 DEF AnswerInv, BlocksOnce, GotBlock
    <3>2. CASE j = n + 1
      <4>1. i \in 1..n
        BY <2>1, <3>2
      <4>2. got[order[i]].first \in 0..offset
        BY <2>1, <2>3, <4>1 DEF AnswerInv, GotBlock
      <4> QED BY <1>0, <1>5, <2>3, <2>4, <3>2, <4>1, <4>2
    <3> QED BY <2>1, <3>1, <3>2
  <2> QED BY <1>1, <1>2, <1>3, <1>4, <1>5, <2>6, <2>7, <2>8 DEF AnswerInv
<1> QED BY <1>6, <1>7

LEMMA AnswerStep == TypeOK /\ AnswerInv /\ [Next]_vars => AnswerInv'
<1> SUFFICES ASSUME TypeOK, AnswerInv, [Next]_vars PROVE AnswerInv'
  OBVIOUS
<1>1. CASE UNCHANGED vars
  BY <1>1, AnswerFrame DEF vars, answerVars
<1>2. CASE Startup \/ StartupFails \/ Interrupt \/ Accept
  BY <1>2, AnswerFrame DEF Startup, StartupFails, Interrupt, Accept, answerVars
<1>3. ASSUME NEW c \in Clients, Connect(c) \/ SendOption(c) \/ HalfClose(c) \/ Leave(c)
      PROVE  AnswerInv'
  BY <1>3, ClientStep
<1>4. ASSUME NEW c \in Clients, Answer(c) PROVE AnswerInv'
  BY <1>4, ServerStep
<1> QED BY <1>1, <1>2, <1>3, <1>4 DEF Next

\* The inductive invariant behind the three that follow.
THEOREM Answers == Spec => []AnswerInv
BY Typing, AnswerInit, AnswerStep, PTL DEF Spec

\* Whatever earlier clients asked and left behind in opt, who asks for the values
\* receives them.
THEOREM OptionRespected == Spec => []ValuesForOption
BY Answers, PTL DEF AnswerInv

\* The reused buffer never shows a block that was not read from the file.
THEOREM TailOld == Spec => []StaleTail
BY Answers, PTL DEF AnswerInv

\* The shared offset hands the blocks out in the order of the file, each to one client up
\* to the last one, whatever requests for values and departures fall between
\* (server.cc:149-176), for any number of clients and of blocks.
THEOREM BlocksApart == Spec => []BlocksOnce
BY Answers, PTL DEF AnswerInv
=============================================================================
