-------------------------- MODULE HttpServerProofs --------------------------
(***************************************************************************)
(* Proofs about HttpServer for any clients, urls, pool size, number of     *)
(* descriptors and backlog: who owns a descriptor, that no handle is lost, *)
(* what a client is answered, and that the server implements WebService.   *)
(***************************************************************************)
EXTENDS HttpServer, SequenceTheorems, FiniteSetTheorems, TLAPS

-----------------------------------------------------------------------------
(* Typing. *)

LEMMA KeyTypes ==
    ASSUME NEW m \in Requests \cup {None}
    PROVE  /\ Parses(m) \subseteq Keys
           /\ m # None => TlsKeyOf(m) \in Keys
<1>1. \A u \in Urls : KeyOf(u) \in Keys
  BY ConstantsAssumption DEF KeyOf, Keys
<1>2. \A r \in Requests : r.url \in Urls /\ <<"raw", r.url>> \in Keys
  BY DEF Requests, Keys
<1>3. \A r \in Requests : r.kind \in {"full", "terse", "bare", "overlong"}
  BY ConstantsAssumption DEF Requests
<1>4. m # None => TlsKeyOf(m) \in Keys
  BY <1>1, <1>2 DEF TlsKeyOf
<1>5. Parses(m) \subseteq Keys
  BY <1>1, <1>2, <1>3 DEF Parses
<1> QED BY <1>4, <1>5

LEMMA TypeInit == Init => TypeOK
<1> SUFFICES ASSUME Init PROVE TypeOK
  OBVIOUS
<1> USE DEF Init
<1>1. nextThread \in 0..PoolSize /\ clientSock \in 0..MaxFd
  BY ConstantsAssumption
<1>2. queue \in [Ports -> Seq(Clients)] /\ reply \in [Clients -> Seq(Keys \cup {None})]
  BY EmptySeq
<1>3. pc \in [Clients -> Handling \cup {"none", "queued", "dispatch", "done"}]
  OBVIOUS
<1>4. fd \in [Clients -> 0..MaxFd]
  BY ConstantsAssumption
<1> QED BY <1>1, <1>2, <1>3, <1>4 DEF TypeOK

LEMMA TypeStep == TypeOK /\ [Next]_vars => TypeOK'
<1> SUFFICES ASSUME TypeOK, [Next]_vars PROVE TypeOK'
  OBVIOUS
<1> USE ConstantsAssumption DEF Handling
<1>unchanged. CASE UNCHANGED vars
  BY <1>unchanged DEF TypeOK, vars, mainVars, tlsVars, netVars, handlerVars, mapVars, clientVars
<1>die. ASSUME NEW cause \in {"startup", "tls", "accept", "throw", "sigpipe", "wild", "race"}, Die(cause)
        PROVE TypeOK'
  BY <1>die DEF TypeOK, Die, mainVars, tlsVars, netVars, handlerVars, mapVars, clientVars
<1>connect. ASSUME NEW c \in Clients, Connect(c) PROVE TypeOK'
  <2>1. PortOf(c) \in Ports
    BY DEF PortOf, Ports
  <2>2. queue' \in [Ports -> Seq(Clients)]
    BY <1>connect, <2>1 DEF Connect, TypeOK
  <2> QED BY <1>connect, <2>2 DEF Connect, TypeOK, mainVars, tlsVars, mapVars
<1>ask. ASSUME NEW c \in Clients, SendRequest(c) PROVE TypeOK'
  BY <1>ask DEF SendRequest, RequestsOf, Requests, TypeOK, mainVars, tlsVars, netVars, handlerVars, mapVars
<1>greet. ASSUME NEW c \in Clients, Greet(c) PROVE TypeOK'
  BY <1>greet DEF Greet, TypeOK, mainVars, netVars, handlerVars, mapVars, clientVars
<1>half. ASSUME NEW c \in Clients, HalfClose(c) PROVE TypeOK'
  BY <1>half DEF HalfClose, TypeOK, mainVars, tlsVars, netVars, handlerVars, mapVars
<1>leave. ASSUME NEW c \in Clients, Leave(c) PROVE TypeOK'
  BY <1>leave DEF Leave, TypeOK, mainVars, tlsVars, netVars, handlerVars, mapVars
<1>main. ASSUME MainThread PROVE TypeOK'
  <2>1. CASE Startup
    BY <2>1 DEF Startup, TypeOK, tlsVars, netVars, handlerVars, mapVars, clientVars
  <2>2. CASE StartupFails
    BY <2>2, <1>die DEF StartupFails
  <2>3. CASE Accept
    <3>1. "http" \in Ports /\ queue["http"] \in Seq(Clients) /\ queue["http"] # <<>>
      BY <2>3 DEF Accept, TypeOK, Ports
    <3>2. Head(queue["http"]) \in Clients /\ Tail(queue["http"]) \in Seq(Clients)
      BY <3>1, HeadTailProperties
    <3>3. queue' \in [Ports -> Seq(Clients)]
      BY <2>3, <3>1, <3>2 DEF Accept, TypeOK
    <3>4. PICK f \in Fds : clientSock' = f /\ fdtab' = [fdtab EXCEPT ![f] = Head(queue["http"])]
      BY <2>3 DEF Accept, FreeFds
    <3>5. clientSock' \in 0..MaxFd /\ fdtab' \in [Fds -> Clients \cup {None}]
      BY <3>2, <3>4 DEF Fds, TypeOK
    <3> QED BY <2>3, <3>2, <3>3, <3>5 DEF Accept, TypeOK, tlsVars, mapVars, clientVars
  <2>4. CASE AcceptFails
    BY <2>4, <1>die DEF AcceptFails
  <2>5. CASE Scan
    BY <2>5 DEF Scan, Slots, TypeOK, tlsVars, netVars, handlerVars, mapVars, clientVars
  <2>6. ASSUME StartHandler PROVE /\ pc' \in [Clients -> Handling \cup {"none", "queued", "dispatch", "done"}]
                                  /\ fd' \in [Clients -> 0..MaxFd]
                                  /\ acc' = "accept"
    <3>1. pc' \in [Clients -> Handling \cup {"none", "queued", "dispatch", "done"}]
      BY <2>6 DEF StartHandler, TypeOK
    <3>2. fd' \in [Clients -> 0..MaxFd]
      BY <2>6 DEF StartHandler, TypeOK
    <3> QED BY <2>6, <3>1, <3>2 DEF StartHandler
  <2>7. CASE Spawn
    <3>1. nextThread' \in 0..PoolSize
      <4>1. nextThread \in Nat /\ PoolSize \in Nat \ {0}
        BY <2>7 DEF Spawn, Slots
      <4>2. (nextThread + 1) % PoolSize \in 0..PoolSize
        BY <4>1
      <4> QED BY <2>7, <4>2 DEF Spawn
    <3>2. pool' \in [Slots -> BOOLEAN]
      BY <2>7 DEF Spawn, TypeOK
    <3>3. StartHandler
      BY <2>7 DEF Spawn
    <3> QED BY <2>6, <2>7, <3>1, <3>2, <3>3 DEF Spawn, TypeOK, tlsVars, netVars, mapVars, clientVars
  <2>8. CASE ScanPastEnd
    <3>1. CASE Die("wild")
      BY <3>1, <1>die
    <3>2. CASE ~Die("wild")
      <4>1. StartHandler /\ corrupted' = TRUE /\ nextThread' = 0
        BY <2>8, <3>2 DEF ScanPastEnd
      <4> QED BY <2>6, <2>8, <3>2, <4>1 DEF ScanPastEnd, TypeOK, tlsVars, netVars, mapVars, clientVars
    <3> QED BY <3>1, <3>2
  <2> QED BY <1>main, <2>1, <2>2, <2>3, <2>4, <2>5, <2>7, <2>8 DEF MainThread
<1>serve. ASSUME NEW c \in Clients, Serve(c) PROVE TypeOK'
  <2>1. CASE Access(c)
    BY <2>1 DEF Access, TypeOK, mainVars, tlsVars, netVars, clientVars
  <2>2. CASE RacedAccess(c)
    <3>1. CASE Die("race")
      BY <3>1, <1>die
    <3>2. CASE ~Die("race")
      <4>1. PICK k \in Keys : filemap' = [filemap EXCEPT ![k] = "absent"]
        BY <2>2, <3>2 DEF RacedAccess
      <4>2. filemap' \in [Keys -> {"servlet", "null", "absent"}]
        BY <4>1 DEF TypeOK
      <4>3. /\ pc' = [pc EXCEPT ![c] = "close"] /\ raced' = TRUE
            /\ UNCHANGED <<down, mainVars, tlsVars, netVars, fd, key, clientVars>>
        BY <2>2, <3>2 DEF RacedAccess
      <4> QED BY <4>2, <4>3 DEF TypeOK, mainVars, tlsVars, netVars, clientVars
    <3> QED BY <3>1, <3>2
  <2>3. CASE Send(c)
    <3>1. reply' \in [Clients -> Seq(Keys \cup {None})]
      <4> DEFINE peer == fdtab[fd[c]]
      <4>1. CASE reply' = reply
        BY <4>1 DEF TypeOK
      <4>2. CASE reply' # reply
        <5>1. reply' = [reply EXCEPT ![peer] = Append(@, key[c])]
          BY <2>3, <4>2 DEF Send
        <5>2. key[c] \in Keys \cup {None} /\ \A d \in Clients : reply[d] \in Seq(Keys \cup {None})
          BY DEF TypeOK
        <5>3. \A d \in Clients : Append(reply[d], key[c]) \in Seq(Keys \cup {None})
          BY <5>2, AppendProperties
        <5> QED BY <5>1, <5>3 DEF TypeOK
      <4> QED BY <4>1, <4>2
    <3> QED BY <2>3, <3>1 DEF Send, TypeOK, mainVars, tlsVars, netVars, mapVars
  <2>4. CASE SendBreaks(c)
    BY <2>4, <1>die DEF SendBreaks
  <2> QED BY <1>serve, <2>1, <2>2, <2>3, <2>4 DEF Serve
<1>http. ASSUME NEW c \in HttpClients, HttpHandler(c) PROVE TypeOK'
  <2> c \in Clients
    BY DEF Clients
  <2>1. CASE Receive(c)
    <3>1. \A m \in Received(c) : Parses(m) \subseteq Keys
      BY KeyTypes DEF Received, TypeOK
    <3> QED BY <2>1, <3>1 DEF Receive, TypeOK, mainVars, tlsVars, netVars, mapVars, clientVars
  <2>2. CASE ReceiveThrows(c)
    BY <2>2, <1>die DEF ReceiveThrows
  <2>3. CASE Close(c)
    BY <2>3 DEF Close, TypeOK, mainVars, tlsVars, mapVars, clientVars
  <2> QED BY <1>http, <1>serve, <2>1, <2>2, <2>3 DEF HttpHandler
<1>https. ASSUME HttpsThread PROVE TypeOK'
  <2>1. CASE HttpsOpen
    BY <2>1 DEF HttpsOpen, TypeOK, mainVars, netVars, handlerVars, mapVars, clientVars
  <2>2. CASE HttpsAbort
    BY <2>2, <1>die DEF HttpsAbort
  <2>3. CASE HttpsAccept
    <3>1. "https" \in Ports /\ queue["https"] \in Seq(Clients) /\ queue["https"] # <<>>
      BY <2>3 DEF HttpsAccept, TypeOK, Ports
    <3>2. Head(queue["https"]) \in Clients /\ Tail(queue["https"]) \in Seq(Clients)
      BY <3>1, HeadTailProperties
    <3>3. queue' \in [Ports -> Seq(Clients)]
      BY <2>3, <3>1, <3>2 DEF HttpsAccept, TypeOK
    <3>4. PICK f \in Fds : /\ fdtab' = [fdtab EXCEPT ![f] = Head(queue["https"])]
                           /\ fd' = [fd EXCEPT ![Head(queue["https"])] = f]
                           /\ pc' = [pc EXCEPT ![Head(queue["https"])] = "handshake"]
      BY <2>3 DEF HttpsAccept, FreeFds
    <3> QED BY <2>3, <3>2, <3>3, <3>4 DEF HttpsAccept, Fds, TypeOK, mainVars, tlsVars, mapVars, clientVars
  <2>5. CASE HttpsAcceptFails
    <3>1. "https" \in Ports /\ queue["https"] \in Seq(Clients) /\ queue["https"] # <<>>
      BY <2>5 DEF HttpsAcceptFails, TypeOK, Ports
    <3>2. Head(queue["https"]) \in Clients /\ Tail(queue["https"]) \in Seq(Clients)
      BY <3>1, HeadTailProperties
    <3>3. queue' \in [Ports -> Seq(Clients)]
      BY <2>5, <3>1, <3>2 DEF HttpsAcceptFails, TypeOK
    <3> QED BY <2>5, <3>2, <3>3 DEF HttpsAcceptFails, TypeOK, mainVars, tlsVars, mapVars, clientVars
  <2>4. ASSUME NEW c \in HttpsClients, TlsHandler(c) PROVE TypeOK'
    <3> c \in Clients
      BY DEF Clients
    <3>1. CASE Handshake(c)
      BY <3>1 DEF Handshake, TypeOK, mainVars, netVars, mapVars, clientVars
    <3>5. CASE HandshakeBreaks(c)
      BY <3>5, <1>die DEF HandshakeBreaks
    <3>2. CASE ReceiveTls(c)
      <4>1. \A m \in Received(c) : m # None => TlsKeyOf(m) \in Keys
        BY KeyTypes DEF Received, TypeOK
      <4>2. tlsKey' \in Keys
        BY <3>2, <4>1 DEF ReceiveTls, TypeOK
      <4> QED BY <3>2, <4>2 DEF ReceiveTls, TypeOK, mainVars, netVars, mapVars, clientVars
    <3>3. CASE ReceiveTlsFaults(c)
      BY <3>3, <1>die DEF ReceiveTlsFaults
    <3>4. CASE CloseTls(c)
      BY <3>4 DEF CloseTls, TypeOK, mainVars, tlsVars, netVars, mapVars, clientVars
    <3> QED BY <2>4, <1>serve, <3>1, <3>2, <3>3, <3>4, <3>5 DEF TlsHandler
  <2> QED BY <1>https, <2>1, <2>2, <2>3, <2>4, <2>5 DEF HttpsThread
<1> QED BY <1>unchanged, <1>main, <1>https, <1>http, <1>connect, <1>greet, <1>ask, <1>half, <1>leave DEF Next

\* Every variable keeps its type, whatever the constants.
THEOREM Typing == Spec => []TypeOK
BY TypeInit, TypeStep, PTL DEF Spec

-----------------------------------------------------------------------------
(* Descriptors: whose they are, and that each belongs to one connection.   *)

ownerVars == <<queue, fdtab, pc, fd, acc, clientSock, conn>>

LEMMA OwnerInit == Init => OwnerInv
BY ConstantsAssumption
   DEF Init, OwnerInv, Queues, Stages, FdOwnership, DescriptorsAccounted, Handling, Clients

LEMMA OwnerFrame == OwnerInv /\ UNCHANGED ownerVars => OwnerInv'
BY DEF OwnerInv, ownerVars, Queues, Stages, FdOwnership, DescriptorsAccounted

\* A handler that goes on, or ends without giving its descriptor back.
LEMMA OwnerMove ==
    ASSUME TypeOK, OwnerInv, NEW c \in Clients, pc[c] \in Handling,
           NEW v \in {"recv", "access", "send", "close", "done"},
           v = "done" => c \in HttpsClients,
           pc' = [pc EXCEPT ![c] = v],
           UNCHANGED <<queue, fdtab, fd, acc, clientSock, conn>>
    PROVE  OwnerInv'
<1> USE ConstantsAssumption DEF OwnerInv, Handling
<1>1. pc'[c] = v /\ \A d \in Clients \ {c} : pc'[d] = pc[d]
  BY DEF TypeOK
<1>2. Queues'
  BY <1>1 DEF Queues, TypeOK
<1>3. Stages'
  BY <1>1 DEF Stages, Clients
<1>4. FdOwnership'
  BY <1>1 DEF FdOwnership
<1>5. DescriptorsAccounted'
  BY <1>1 DEF DescriptorsAccounted, TypeOK
<1> QED BY <1>2, <1>3, <1>4, <1>5

\* What waits in a queue is a connection that is queued.
LEMMA QueuedClients ==
    ASSUME TypeOK, Queues
    PROVE  \A p \in Ports : \A i \in 1..Len(queue[p]) :
               queue[p][i] \in Clients /\ pc[queue[p][i]] = "queued"
<1> SUFFICES ASSUME NEW p \in Ports, NEW i \in 1..Len(queue[p])
             PROVE  queue[p][i] \in Clients /\ pc[queue[p][i]] = "queued"
  OBVIOUS
<1>1. queue[p] \in Seq(Clients)
  BY DEF TypeOK
<1> QED BY <1>1 DEF Queues

\* The new thread takes over the connection main dispatches.
LEMMA OwnerStart ==
    ASSUME TypeOK, OwnerInv, acc = "dispatch", StartHandler,
           UNCHANGED <<queue, fdtab, clientSock, conn>>
    PROVE  OwnerInv'
<1> USE ConstantsAssumption DEF OwnerInv, Handling
<1> DEFINE c == fdtab[clientSock]
<1>1. clientSock \in Fds /\ c \in Clients /\ pc[c] = "dispatch" /\ c \in HttpClients
  BY DEF Stages, Clients
<1>2. /\ pc'[c] = "recv" /\ fd'[c] = clientSock /\ acc' = "accept"
      /\ \A d \in Clients \ {c} : pc'[d] = pc[d] /\ fd'[d] = fd[d]
  <2>1. /\ pc' = [pc EXCEPT ![c] = "recv"] /\ fd' = [fd EXCEPT ![c] = clientSock]
        /\ acc' = "accept"
    BY DEF StartHandler
  <2>2. pc \in [Clients -> Handling \cup {"none", "queued", "dispatch", "done"}] /\ fd \in [Clients -> 0..MaxFd]
    BY DEF TypeOK
  <2> QED BY <1>1, <2>1, <2>2
<1>3. \A d \in Clients \ {c} : pc[d] # "dispatch"
  BY DEF FdOwnership
<1>4. Queues'
  <2>1. \A p \in Ports : \A i \in 1..Len(queue[p]) : queue[p][i] \in Clients /\ pc[queue[p][i]] = "queued"
    BY QueuedClients
  <2> QED BY <2>1, <1>1, <1>2 DEF Queues, PortOf
<1>5. Stages'
  BY <1>1, <1>2, <1>3 DEF Stages, Clients
<1>6. FdOwnership'
  BY <1>1, <1>2, <1>3 DEF FdOwnership
<1>7. DescriptorsAccounted'
  <2> SUFFICES ASSUME NEW f \in Fds, fdtab[f] # None
               PROVE  /\ pc'[fdtab[f]] \notin {"none", "queued"}
                      /\ fdtab[f] \in HttpClients => pc'[fdtab[f]] # "done"
                      /\ \A g \in Fds : fdtab[g] = fdtab[f] => f = g
    BY DEF DescriptorsAccounted
  <2>1. fdtab[f] \in Clients
    BY DEF TypeOK
  <2> QED BY <1>2, <2>1 DEF DescriptorsAccounted
<1> QED BY <1>4, <1>5, <1>6, <1>7

\* What the head of a queue is, and what taking it leaves.
LEMMA TakeHead ==
    ASSUME TypeOK, OwnerInv, NEW p \in Ports, queue[p] # <<>>,
           queue' = [queue EXCEPT ![p] = Tail(@)],
           NEW v \in {"dispatch", "handshake", "done"},
           pc' = [pc EXCEPT ![Head(queue[p])] = v]
    PROVE  /\ Head(queue[p]) \in Clients
           /\ pc[Head(queue[p])] = "queued"
           /\ PortOf(Head(queue[p])) = p
           /\ Queues'
<1> DEFINE c == Head(queue[p])
<1> USE DEF OwnerInv
<1>1. /\ queue \in [Ports -> Seq(Clients)] /\ queue[p] \in Seq(Clients)
      /\ pc \in [Clients -> Handling \cup {"none", "queued", "dispatch", "done"}]
  BY DEF TypeOK
<1>2. /\ Len(queue[p]) \in Nat /\ Len(queue[p]) >= 1
      /\ c = queue[p][1] /\ c \in Clients
  BY <1>1, HeadTailProperties, EmptySeq
<1>3. pc[c] = "queued" /\ PortOf(c) = p
  BY <1>2 DEF Queues
<1>4. queue'[p] = Tail(queue[p]) /\ \A q \in Ports \ {p} : queue'[q] = queue[q]
  BY <1>1
<1>5. \A i \in 1..Len(queue'[p]) : i + 1 \in 2..Len(queue[p]) /\ queue'[p][i] = queue[p][i + 1]
  <2> DEFINE n == Len(queue[p])
  <2>1. /\ Len(Tail(queue[p])) = n - 1
        /\ \A i \in 1..(n - 1) : Tail(queue[p])[i] = queue[p][i + 1]
    BY <1>1, HeadTailProperties
  <2>2. n \in Nat
    BY <1>2
  <2> HIDE DEF n
  <2>3. \A i \in 1..(n - 1) : i + 1 \in 2..n
    BY <2>2
  <2> QED BY <1>4, <2>1, <2>3 DEF n
<1>6. \A d \in Clients : pc'[d] = IF d = c THEN v ELSE pc[d]
  BY <1>1
<1>7. \A q \in Ports : \A i \in 1..Len(queue'[q]) : queue'[q][i] \in Clients \ {c}
  <2> SUFFICES ASSUME NEW q \in Ports, NEW i \in 1..Len(queue'[q])
               PROVE queue'[q][i] \in Clients \ {c}
    OBVIOUS
  <2>1. CASE q = p
    <3>1. i + 1 \in 2..Len(queue[p]) /\ queue'[q][i] = queue[p][i + 1]
      BY <2>1, <1>5
    <3>2. 1 \in 1..Len(queue[p]) /\ i + 1 \in 1..Len(queue[p]) /\ i + 1 # 1
      BY <1>2, <3>1
    <3>3. queue[p][i + 1] # queue[p][1]
      BY <3>2 DEF Queues
    <3> QED BY <1>1, <1>2, <3>1, <3>2, <3>3
  <2>2. CASE q # p
    <3>1. queue'[q] = queue[q] /\ queue[q] \in Seq(Clients) /\ i \in 1..Len(queue[q])
      BY <2>2, <1>1, <1>4
    <3>2. queue[q][i] \in Clients /\ PortOf(queue[q][i]) = q
      BY <3>1 DEF Queues
    <3> QED BY <2>2, <3>1, <3>2, <1>3
  <2> QED BY <2>1, <2>2
<1>8. Queues'
  <2> SUFFICES ASSUME NEW q \in Ports, NEW i \in 1..Len(queue'[q])
               PROVE /\ pc'[queue'[q][i]] = "queued" /\ PortOf(queue'[q][i]) = q
                     /\ \A j \in 1..Len(queue'[q]) : queue'[q][i] = queue'[q][j] => i = j
    BY DEF Queues, PortOf
  <2>1. CASE q = p
    <3>1. i \in Int /\ \A j \in 1..Len(queue'[q]) :
             j \in Int /\ j + 1 \in 1..Len(queue[p]) /\ queue'[q][j] = queue[p][j + 1]
      BY <2>1, <1>5
    <3>2. pc'[queue'[q][i]] = "queued" /\ PortOf(queue'[q][i]) = q
      BY <2>1, <3>1, <1>6, <1>7 DEF Queues
    <3>3. ASSUME NEW j \in 1..Len(queue'[q]), queue'[q][i] = queue'[q][j] PROVE i = j
      <4>1. i + 1 = j + 1
        BY <3>1, <3>3 DEF Queues
      <4> QED BY <4>1, <3>1
    <3> QED BY <3>2, <3>3
  <2>2. CASE q # p
    BY <2>2, <1>4, <1>6, <1>7 DEF Queues
  <2> QED BY <2>1, <2>2
<1> QED BY <1>2, <1>3, <1>8

LEMMA OwnerStep == TypeOK /\ OwnerInv /\ [Next]_vars => OwnerInv'
<1> SUFFICES ASSUME TypeOK, OwnerInv, [Next]_vars PROVE OwnerInv'
  OBVIOUS
<1> USE ConstantsAssumption
<1>unchanged. CASE UNCHANGED vars
  BY <1>unchanged, OwnerFrame DEF vars, ownerVars, mainVars, netVars, handlerVars, clientVars
<1>die. ASSUME NEW cause, Die(cause) PROVE OwnerInv'
  BY <1>die, OwnerFrame DEF Die, ownerVars, mainVars, netVars, handlerVars, clientVars
<1>connect. ASSUME NEW c \in Clients, Connect(c) PROVE OwnerInv'
  <2> DEFINE p == PortOf(c)
  <2> USE DEF OwnerInv
  <2>1. /\ pc[c] = "none" /\ p \in Ports /\ queue[p] \in Seq(Clients)
        /\ pc \in [Clients -> Handling \cup {"none", "queued", "dispatch", "done"}]
        /\ conn \in [Clients -> {"idle", "open", "half", "gone"}]
    BY <1>connect DEF Connect, Stages, PortOf, Ports, TypeOK
  <2>2. /\ pc'[c] = "queued" /\ \A d \in Clients \ {c} : pc'[d] = pc[d]
        /\ conn'[c] = "open" /\ \A d \in Clients \ {c} : conn'[d] = conn[d]
        /\ UNCHANGED <<fdtab, fd, acc, clientSock>>
    BY <1>connect, <2>1 DEF Connect, mainVars
  <2>3. \A q \in Ports : \A i \in 1..Len(queue[q]) : queue[q][i] \in Clients \ {c}
    BY <2>1 DEF Queues, TypeOK
  <2>4. /\ queue'[p] = Append(queue[p], c)
        /\ \A q \in Ports \ {p} : queue'[q] = queue[q]
    BY <1>connect, <2>1 DEF Connect, TypeOK
  <2>5. /\ Len(queue[p]) \in Nat /\ Len(queue'[p]) = Len(queue[p]) + 1
        /\ \A i \in 1..Len(queue[p]) : queue'[p][i] = queue[p][i]
        /\ queue'[p][Len(queue[p]) + 1] = c
    BY <2>1, <2>4, AppendProperties
  <2>6. Queues'
    <3> SUFFICES ASSUME NEW q \in Ports, NEW i \in 1..Len(queue'[q])
                 PROVE /\ pc'[queue'[q][i]] = "queued" /\ PortOf(queue'[q][i]) = q
                       /\ \A j \in 1..Len(queue'[q]) : queue'[q][i] = queue'[q][j] => i = j
      BY DEF Queues, PortOf
    <3>1. CASE q # p
      BY <3>1, <2>2, <2>3, <2>4 DEF Queues
    <3>2. CASE q = p
      <4>1. \A j \in 1..Len(queue'[p]) : j \in 1..Len(queue[p]) \/ j = Len(queue[p]) + 1
        BY <2>5
      <4>2. CASE i = Len(queue[p]) + 1
        <5>1. queue'[q][i] = c /\ PortOf(c) = q
          BY <3>2, <4>2, <2>5
        <5>2. \A j \in 1..Len(queue'[q]) : c = queue'[q][j] => j = i
          BY <3>2, <4>1, <4>2, <2>3, <2>5
        <5> QED BY <5>1, <5>2, <2>2
      <4>3. CASE i \in 1..Len(queue[p])
        <5>1. queue'[q][i] = queue[p][i] /\ queue[p][i] \in Clients \ {c}
          BY <3>2, <4>3, <2>1, <2>3, <2>5
        <5>2. pc[queue[p][i]] = "queued" /\ PortOf(queue[p][i]) = p
          BY <4>3, <2>1 DEF Queues
        <5>3. ASSUME NEW j \in 1..Len(queue'[q]), queue'[q][i] = queue'[q][j] PROVE i = j
          <6>1. j \in 1..Len(queue[p])
            BY <3>2, <4>1, <5>1, <5>3, <2>5
          <6> QED BY <4>3, <5>3, <6>1, <3>2, <2>1, <2>5 DEF Queues
        <5> QED BY <3>2, <5>1, <5>2, <5>3, <2>2
      <4> QED BY <3>2, <4>1, <4>2, <4>3
    <3> QED BY <3>1, <3>2
  <2>7. Stages'
    BY <2>1, <2>2 DEF Stages, Clients
  <2>8. FdOwnership'
    BY <2>1, <2>2 DEF FdOwnership, Handling
  <2>9. DescriptorsAccounted'
    BY <2>1, <2>2 DEF DescriptorsAccounted, TypeOK
  <2> QED BY <2>6, <2>7, <2>8, <2>9
<1>ask. ASSUME NEW c \in Clients, SendRequest(c) PROVE OwnerInv'
  BY <1>ask, OwnerFrame DEF SendRequest, ownerVars, mainVars, netVars, handlerVars
<1>greet. ASSUME NEW c \in Clients, Greet(c) PROVE OwnerInv'
  BY <1>greet, OwnerFrame DEF Greet, ownerVars, mainVars, netVars, handlerVars, clientVars
<1>half. ASSUME NEW c \in Clients, HalfClose(c) PROVE OwnerInv'
  BY <1>half DEF HalfClose, OwnerInv, Queues, Stages, FdOwnership, DescriptorsAccounted,
                 mainVars, netVars, handlerVars, TypeOK
<1>leave. ASSUME NEW c \in Clients, Leave(c) PROVE OwnerInv'
  BY <1>leave DEF Leave, OwnerInv, Queues, Stages, FdOwnership, DescriptorsAccounted,
                  mainVars, netVars, handlerVars, TypeOK
<1>taken. ASSUME NEW p \in Ports, queue[p] # <<>>,
                 queue' = [queue EXCEPT ![p] = Tail(@)],
                 NEW v \in {"dispatch", "handshake"}, v = "dispatch" <=> p = "http",
                 pc' = [pc EXCEPT ![Head(queue[p])] = v],
                 NEW f \in FreeFds,
                 fdtab' = [fdtab EXCEPT ![f] = Head(queue[p])],
                 IF p = "http"
                 THEN acc = "accept" /\ acc' = "dispatch" /\ clientSock' = f /\ fd' = fd
                 ELSE UNCHANGED <<acc, clientSock>> /\ fd' = [fd EXCEPT ![Head(queue[p])] = f],
                 conn' = conn
          PROVE OwnerInv'
  <2> DEFINE c == Head(queue[p])
  <2> USE DEF OwnerInv
  <2>1. /\ c \in Clients /\ pc[c] = "queued" /\ PortOf(c) = p /\ Queues'
    BY <1>taken, TakeHead
  <2>2. /\ pc \in [Clients -> Handling \cup {"none", "queued", "dispatch", "done"}]
        /\ fdtab \in [Fds -> Clients \cup {None}] /\ fd \in [Clients -> 0..MaxFd]
        /\ f \in Fds /\ fdtab[f] = None /\ c # None
    BY <2>1 DEF TypeOK, FreeFds
  <2> HIDE DEF c
  <2>3. /\ pc'[c] = v /\ \A d \in Clients \ {c} : pc'[d] = pc[d]
        /\ fdtab'[f] = c /\ \A g \in Fds \ {f} : fdtab'[g] = fdtab[g]
    BY <1>taken, <2>1, <2>2 DEF c
  <2>4. \A d \in Clients \ {c} : fd'[d] = fd[d]
    BY <1>taken, <2>2 DEF c
  <2>5. p # "http" => fd'[c] = f
    BY <1>taken, <2>1, <2>2 DEF c
  <2>6. c \in HttpClients <=> p = "http"
    BY <2>1 DEF PortOf
  <2>7. \A g \in Fds : fdtab[g] # c
    BY <2>1, <2>2 DEF DescriptorsAccounted
  <2>8. Stages'
    <3>1. p = "http" => acc' = "dispatch" /\ clientSock' = f /\ v = "dispatch"
      BY <1>taken
    <3>2. p # "http" => acc' = acc /\ clientSock' = clientSock /\ v = "handshake"
      BY <1>taken
    <3>3. acc = "dispatch" => fdtab'[clientSock] = fdtab[clientSock] /\ fdtab[clientSock] # c
      BY <2>1, <2>2, <2>3 DEF Stages
    <3> QED BY <1>taken, <2>1, <2>2, <2>3, <2>6, <3>1, <3>2, <3>3 DEF Stages, Clients
  <2>9. FdOwnership'
    <3>1. ASSUME NEW d \in Clients, pc'[d] \in Handling
          PROVE fd'[d] \in Fds /\ fdtab'[fd'[d]] = d
      <4>1. CASE d = c
        <5>1. p # "http"
          BY <1>taken, <2>3, <3>1, <4>1 DEF Handling
        <5> QED BY <2>2, <2>3, <2>5, <4>1, <5>1
      <4>2. CASE d # c
        <5>1. pc[d] \in Handling /\ fd'[d] = fd[d]
          BY <2>3, <2>4, <3>1, <4>2
        <5>2. fd[d] \in Fds /\ fdtab[fd[d]] = d /\ d # None
          BY <5>1 DEF FdOwnership, TypeOK
        <5> QED BY <2>2, <2>3, <5>1, <5>2
      <4> QED BY <4>1, <4>2
    <3>2. ASSUME NEW d \in Clients, pc'[d] = "dispatch"
          PROVE acc' = "dispatch" /\ clientSock' \in Fds /\ fdtab'[clientSock'] = d
      <4>1. CASE p = "http"
        <5>1. d = c
          BY <1>taken, <2>3, <3>2, <4>1 DEF FdOwnership
        <5> QED BY <1>taken, <2>2, <2>3, <4>1, <5>1
      <4>2. CASE p # "http"
        <5>1. pc[d] = "dispatch"
          BY <1>taken, <2>3, <3>2, <4>2
        <5>2. acc = "dispatch" /\ clientSock \in Fds /\ fdtab[clientSock] = d /\ d # None
          BY <5>1 DEF FdOwnership
        <5> QED BY <1>taken, <2>2, <2>3, <4>2, <5>2
      <4> QED BY <4>1, <4>2
    <3> QED BY <3>1, <3>2 DEF FdOwnership
  <2>10. DescriptorsAccounted'
    <3> SUFFICES ASSUME NEW g \in Fds, fdtab'[g] # None
                 PROVE  /\ pc'[fdtab'[g]] \notin {"none", "queued"}
                        /\ fdtab'[g] \in HttpClients => pc'[fdtab'[g]] # "done"
                        /\ \A h \in Fds : fdtab'[h] = fdtab'[g] => g = h
      BY DEF DescriptorsAccounted
    <3>1. CASE g = f
      BY <2>2, <2>3, <2>7, <3>1
    <3>2. CASE g # f
      <4>1. fdtab'[g] = fdtab[g] /\ fdtab[g] \in Clients \ {c}
        BY <2>2, <2>3, <2>7, <3>2
      <4> QED BY <2>2, <2>3, <4>1, <3>2 DEF DescriptorsAccounted
    <3> QED BY <3>1, <3>2
  <2> QED BY <2>1, <2>8, <2>9, <2>10
<1>main. ASSUME MainThread PROVE OwnerInv'
  <2>1. CASE Startup
    BY <2>1 DEF Startup, OwnerInv, Queues, Stages, FdOwnership, DescriptorsAccounted,
                netVars, handlerVars, clientVars
  <2>2. CASE StartupFails
    BY <2>2, <1>die DEF StartupFails
  <2>3. CASE Accept
    <3>1. PICK f \in FreeFds : clientSock' = f /\ fdtab' = [fdtab EXCEPT ![f] = Head(queue["http"])]
      BY <2>3 DEF Accept
    <3> QED BY <2>3, <3>1, <1>taken DEF Accept, Ports, clientVars
  <2>4. CASE AcceptFails
    BY <2>4, <1>die DEF AcceptFails
  <2>5. CASE Scan
    BY <2>5, OwnerFrame DEF Scan, ownerVars, netVars, handlerVars, clientVars
  <2>6. CASE Spawn
    BY <2>6, OwnerStart DEF Spawn, netVars, clientVars
  <2>7. CASE ScanPastEnd
    <3>1. CASE Die("wild")
      BY <3>1, <1>die
    <3>2. CASE ~Die("wild")
      BY <2>7, <3>2, OwnerStart DEF ScanPastEnd, netVars, clientVars
    <3> QED BY <3>1, <3>2
  <2> QED BY <1>main, <2>1, <2>2, <2>3, <2>4, <2>5, <2>6, <2>7 DEF MainThread
<1>serve. ASSUME NEW c \in Clients, Serve(c) PROVE OwnerInv'
  <2>1. CASE Access(c)
    <3>1. PICK v \in {"send", "close"} : pc' = [pc EXCEPT ![c] = v]
      BY <2>1 DEF Access
    <3> QED BY <2>1, <3>1, OwnerMove DEF Access, Handling, mainVars, netVars, clientVars
  <2>2. CASE RacedAccess(c)
    <3>1. CASE Die("race")
      BY <3>1, <1>die
    <3>2. CASE ~Die("race")
      <4>1. /\ pc[c] = "access" /\ pc' = [pc EXCEPT ![c] = "close"]
            /\ UNCHANGED <<mainVars, netVars, fd, clientVars>>
        BY <2>2, <3>2 DEF RacedAccess
      <4> QED BY <4>1, OwnerMove DEF Handling, mainVars, netVars, clientVars
    <3> QED BY <3>1, <3>2
  <2>3. CASE Send(c)
    BY <2>3, OwnerMove DEF Send, Handling, mainVars, netVars
  <2>4. CASE SendBreaks(c)
    BY <2>4, <1>die DEF SendBreaks
  <2> QED BY <1>serve, <2>1, <2>2, <2>3, <2>4 DEF Serve
<1>http. ASSUME NEW c \in HttpClients, HttpHandler(c) PROVE OwnerInv'
  <2> c \in Clients
    BY DEF Clients
  <2>1. CASE Receive(c)
    BY <2>1, OwnerMove DEF Receive, Handling, mainVars, netVars, clientVars
  <2>2. CASE ReceiveThrows(c)
    BY <2>2, <1>die DEF ReceiveThrows
  <2>3. CASE Close(c)
    <3> USE DEF OwnerInv
    <3>1. /\ pc[c] = "close" /\ fd[c] \in Fds /\ fdtab[fd[c]] = c
          /\ pc \in [Clients -> Handling \cup {"none", "queued", "dispatch", "done"}]
          /\ fdtab \in [Fds -> Clients \cup {None}] /\ None \notin Clients
      BY <2>3 DEF Close, FdOwnership, Handling, TypeOK
    <3>2. /\ pc'[c] = "done" /\ \A d \in Clients \ {c} : pc'[d] = pc[d]
          /\ fdtab'[fd[c]] = None /\ \A g \in Fds \ {fd[c]} : fdtab'[g] = fdtab[g]
          /\ UNCHANGED <<queue, fd, acc, clientSock, conn>>
      BY <2>3, <3>1 DEF Close, mainVars, clientVars
    <3>3. Queues'
      <4>1. \A p \in Ports : \A i \in 1..Len(queue[p]) : queue[p][i] \in Clients \ {c}
        BY <3>1 DEF Queues, TypeOK
      <4> QED BY <3>2, <4>1 DEF Queues, PortOf
    <3>4. Stages'
      BY <3>1, <3>2 DEF Stages, Clients
    <3>5. FdOwnership'
      <4>1. \A d \in Clients \ {c} : pc[d] \in Handling => fd[d] # fd[c]
        BY <3>1 DEF FdOwnership
      <4>2. \A d \in Clients \ {c} : pc[d] = "dispatch" => clientSock # fd[c]
        BY <3>1 DEF FdOwnership
      <4>3. pc'[c] \notin Handling /\ pc'[c] # "dispatch"
        BY <3>2 DEF Handling
      <4> QED BY <3>1, <3>2, <4>1, <4>2, <4>3 DEF FdOwnership
    <3>6. DescriptorsAccounted'
      <4>1. \A g \in Fds \ {fd[c]} : fdtab[g] # c
        BY <3>1 DEF DescriptorsAccounted
      <4> QED BY <3>1, <3>2, <4>1 DEF DescriptorsAccounted
    <3> QED BY <3>3, <3>4, <3>5, <3>6
  <2> QED BY <1>http, <1>serve, <2>1, <2>2, <2>3 DEF HttpHandler
<1>https. ASSUME HttpsThread PROVE OwnerInv'
  <2>1. CASE HttpsOpen
    BY <2>1, OwnerFrame DEF HttpsOpen, ownerVars, mainVars, netVars, handlerVars, clientVars
  <2>2. CASE HttpsAbort
    BY <2>2, <1>die DEF HttpsAbort
  <2>3. CASE HttpsAccept
    <3>1. PICK f \in FreeFds : /\ fdtab' = [fdtab EXCEPT ![f] = Head(queue["https"])]
                               /\ fd' = [fd EXCEPT ![Head(queue["https"])] = f]
                               /\ pc' = [pc EXCEPT ![Head(queue["https"])] = "handshake"]
      BY <2>3 DEF HttpsAccept
    <3> QED BY <2>3, <3>1, <1>taken DEF HttpsAccept, Ports, mainVars, clientVars
  <2>5. CASE HttpsAcceptFails
    <3> DEFINE c == Head(queue["https"])
    <3> USE DEF OwnerInv
    <3>1. /\ "https" \in Ports /\ queue["https"] # <<>>
          /\ queue' = [queue EXCEPT !["https"] = Tail(@)] /\ pc' = [pc EXCEPT ![c] = "done"]
          /\ UNCHANGED <<fdtab, fd, acc, clientSock, conn>>
      BY <2>5 DEF HttpsAcceptFails, Ports, mainVars, clientVars
    <3>2. /\ c \in Clients /\ pc[c] = "queued" /\ PortOf(c) = "https" /\ Queues'
      BY <3>1, TakeHead
    <3> HIDE DEF c
    <3>3. c \in HttpsClients /\ c \notin HttpClients
      BY <3>2 DEF PortOf, Clients
    <3>4. pc'[c] = "done" /\ \A e \in Clients \ {c} : pc'[e] = pc[e]
      BY <3>1, <3>2 DEF TypeOK
    <3>5. Stages'
      BY <3>1, <3>2, <3>3, <3>4 DEF Stages, Clients
    <3>6. FdOwnership'
      BY <3>1, <3>2, <3>4 DEF FdOwnership, Handling
    <3>7. DescriptorsAccounted'
      BY <3>1, <3>2, <3>3, <3>4 DEF DescriptorsAccounted, TypeOK
    <3> QED BY <3>2, <3>5, <3>6, <3>7
  <2>4. ASSUME NEW c \in HttpsClients, TlsHandler(c) PROVE OwnerInv'
    <3> c \in Clients
      BY DEF Clients
    <3>1. CASE Handshake(c)
      <4>1. PICK v \in {"recv", "close"} : pc' = [pc EXCEPT ![c] = v]
        BY <3>1 DEF Handshake
      <4> QED BY <3>1, <4>1, OwnerMove DEF Handshake, Handling, mainVars, netVars, clientVars
    <3>5. CASE HandshakeBreaks(c)
      BY <3>5, <1>die DEF HandshakeBreaks
    <3>2. CASE ReceiveTls(c)
      BY <3>2, OwnerMove DEF ReceiveTls, Handling, mainVars, netVars, clientVars
    <3>3. CASE ReceiveTlsFaults(c)
      BY <3>3, <1>die DEF ReceiveTlsFaults
    <3>4. CASE CloseTls(c)
      BY <3>4, OwnerMove DEF CloseTls, Handling, mainVars, netVars, clientVars
    <3> QED BY <2>4, <1>serve, <3>1, <3>2, <3>3, <3>4, <3>5 DEF TlsHandler
  <2> QED BY <1>https, <2>1, <2>2, <2>3, <2>4, <2>5 DEF HttpsThread
<1> QED BY <1>unchanged, <1>main, <1>https, <1>http, <1>connect, <1>greet, <1>ask, <1>half, <1>leave DEF Next

\* In every state each queued, dispatched and served connection is where the
\* others cannot reach it: the inductive invariant behind the two that follow.
THEOREM Owner == Spec => []OwnerInv
BY Typing, OwnerInit, OwnerStep, PTL DEF Spec

\* A handler's descriptor names its own connection until the handler closes it.
THEOREM FdOwned == Spec => []FdOwnership
BY Owner, PTL DEF OwnerInv

\* Every descriptor taken belongs to one connection, and to no HTTP connection
\* that has ended.
THEOREM DescriptorsKept == Spec => []DescriptorsAccounted
BY Owner, PTL DEF OwnerInv

-----------------------------------------------------------------------------
(* The handles of threadPool. *)

Joinable == {i \in Slots : pool[i]}
Started == {c \in HttpClients : pc[c] \in Handling \cup {"done"}}

\* HandlesKept, of which the number of threads must be a number.
PoolInv == HandlesKept /\ (~corrupted => IsFiniteSet(Started))

LEMMA PoolInit == Init => PoolInv
<1> SUFFICES ASSUME Init PROVE PoolInv
  OBVIOUS
<1>1. Started = {} /\ Joinable = {}
  BY DEF Init, Handling, Clients, Started, Joinable
<1>2. nextThread = 0 /\ \A i \in Slots : i \in Nat /\ ~pool[i]
  BY ConstantsAssumption DEF Init, Slots
<1>3. acc = "startup"
  BY DEF Init
<1>4. HandlesKept
  <2>1. Cardinality(Joinable) = Cardinality(Started)
    BY <1>1
  <2>2. Cardinality({i \in Slots : pool[i]})
          = Cardinality({c \in HttpClients : pc[c] \in Handling \cup {"done"}})
    BY <2>1 DEF Joinable, Started
  <2>3. nextThread \in Slots
    BY <1>2, ConstantsAssumption DEF Slots
  <2>4. \A i \in Slots : ~pool[i] /\ ~(i < nextThread)
    BY <1>2
  <2> QED BY <2>2, <2>3, <2>4 DEF HandlesKept
<1> QED BY <1>1, <1>4, FS_EmptySet DEF PoolInv

\* What leaves the pool alone and starts no thread.
LEMMA PoolFrame ==
    ASSUME PoolInv, UNCHANGED <<nextThread, pool, corrupted>>,
           Started' = Started, acc' \in {acc, "dispatch"}
    PROVE  PoolInv'
<1>1. Started = {c \in HttpClients : pc[c] \in Handling \cup {"done"}}
  BY DEF Started
<1>2. Started' = {c \in HttpClients : pc'[c] \in Handling \cup {"done"}}
  BY DEF Started
<1> QED BY <1>1, <1>2 DEF PoolInv, HandlesKept

\* A handler that goes on, or ends, has been started before.
LEMMA StartedMove ==
    ASSUME TypeOK, NEW c \in Clients, pc[c] \in Handling,
           NEW v \in Handling \cup {"done"}, pc' = [pc EXCEPT ![c] = v]
    PROVE  Started' = Started
BY DEF Started, TypeOK, Clients

\* A connection that no handler has, and gets none.
LEMMA NotStarted ==
    ASSUME TypeOK, NEW c \in Clients, pc[c] \notin Handling \cup {"done"},
           NEW v, v \notin Handling \cup {"done"} \/ c \in HttpsClients,
           pc' = [pc EXCEPT ![c] = v]
    PROVE  Started' = Started
BY ConstantsAssumption DEF Started, TypeOK, Clients

LEMMA PoolSpawn == TypeOK /\ OwnerInv /\ PoolInv /\ Spawn => PoolInv'
<1> SUFFICES ASSUME TypeOK, OwnerInv, PoolInv, Spawn PROVE PoolInv'
  OBVIOUS
<1> DEFINE c == fdtab[clientSock]
<1>1. /\ acc = "dispatch" /\ nextThread \in Slots /\ ~pool[nextThread]
      /\ pool' = [pool EXCEPT ![nextThread] = TRUE]
      /\ nextThread' = (nextThread + 1) % PoolSize
      /\ acc' = "accept" /\ pc' = [pc EXCEPT ![c] = "recv"] /\ corrupted' = corrupted
  BY DEF Spawn, StartHandler
<1> SUFFICES ASSUME ~corrupted PROVE HandlesKept' /\ IsFiniteSet(Started')
  BY <1>1 DEF PoolInv, HandlesKept
<1>2. c \in HttpClients /\ pc[c] = "dispatch"
  BY <1>1, ConstantsAssumption DEF OwnerInv, Stages, Clients
<1>3. Started' = Started \cup {c} /\ c \notin Started
  BY <1>1, <1>2 DEF Started, TypeOK, Clients, Handling
<1>4. Joinable' = Joinable \cup {nextThread} /\ nextThread \notin Joinable
  BY <1>1 DEF Joinable, TypeOK
<1>5. IsFiniteSet(Started) /\ IsFiniteSet(Joinable)
  <2>1. IsFiniteSet(Slots) /\ Joinable \subseteq Slots
    BY ConstantsAssumption, FS_Interval DEF Slots, Joinable
  <2> QED BY <2>1, FS_Subset DEF PoolInv
<1>6. IsFiniteSet(Started') /\ Cardinality(Started') = Cardinality(Started) + 1
  BY <1>3, <1>5, FS_AddElement
<1>7. Cardinality(Joinable') = Cardinality(Joinable) + 1
  BY <1>4, <1>5, FS_AddElement
<1>8. Cardinality(Joinable) = Cardinality(Started)
  BY DEF PoolInv, HandlesKept, Joinable, Started
<1>9. \A i \in Slots : pool'[i] <=> i <= nextThread
  <2>1. \A i \in Slots : pool[i] <=> i < nextThread
    BY <1>1 DEF PoolInv, HandlesKept
  <2> QED BY <1>1, <2>1 DEF Slots, TypeOK
<1>10. /\ nextThread' \in Slots
       /\ pool'[nextThread'] \/ nextThread' = nextThread + 1
  <2>1. nextThread \in 0..(PoolSize - 1) /\ PoolSize \in Nat \ {0}
    BY <1>1, ConstantsAssumption DEF Slots
  <2>2. \A p \in Nat \ {0} : p % p = 0 /\ \A m \in 0..(p - 1) : m % p = m
    OBVIOUS
  <2>3. (nextThread + 1) % PoolSize = IF nextThread + 1 = PoolSize THEN 0 ELSE nextThread + 1
    BY <2>1, <2>2
  <2> QED BY <1>1, <1>9, <2>1, <2>3 DEF Slots
<1>11. HandlesKept'
  <2>1. Cardinality({i \in Slots : pool'[i]})
          = Cardinality({d \in HttpClients : pc'[d] \in Handling \cup {"done"}})
    BY <1>6, <1>7, <1>8 DEF Joinable, Started
  <2>2. \A i \in Slots : pool'[i] => \A j \in 0..i : pool'[j]
    BY <1>1, <1>9, ConstantsAssumption DEF Slots
  <2>3. nextThread' \in Slots /\ ~pool'[nextThread'] => \A i \in Slots : pool'[i] <=> i < nextThread'
    BY <1>1, <1>9, <1>10 DEF Slots
  <2> QED BY <1>1, <1>10, <2>1, <2>2, <2>3 DEF HandlesKept
<1> QED BY <1>6, <1>11

LEMMA PoolScan == TypeOK /\ PoolInv /\ Scan => PoolInv'
<1> SUFFICES ASSUME TypeOK, PoolInv, Scan PROVE PoolInv'
  OBVIOUS
<1>1. /\ acc = "dispatch" /\ nextThread \in Slots /\ pool[nextThread]
      /\ nextThread' = nextThread + 1
      /\ UNCHANGED <<acc, pool, corrupted, pc>>
  BY DEF Scan, handlerVars
<1> SUFFICES ASSUME ~corrupted PROVE HandlesKept'
  BY <1>1 DEF PoolInv, HandlesKept, Started
<1>2. \A i \in Slots : pool[i] => \A j \in 0..i : pool[j]
  BY DEF PoolInv, HandlesKept
<1>3. ASSUME nextThread' \in Slots, ~pool[nextThread'], NEW i \in Slots
      PROVE  pool[i] <=> i < nextThread'
  <2>1. i < nextThread' => pool[i]
    BY <1>1, <1>2 DEF Slots
  <2>2. i >= nextThread' => ~pool[i]
    BY <1>1, <1>2, <1>3 DEF Slots
  <2> QED BY <1>1, <2>1, <2>2 DEF Slots
<1> QED BY <1>1, <1>2, <1>3 DEF PoolInv, HandlesKept

LEMMA PoolStep == TypeOK /\ OwnerInv /\ PoolInv /\ [Next]_vars => PoolInv'
<1> SUFFICES ASSUME TypeOK, OwnerInv, PoolInv, [Next]_vars PROVE PoolInv'
  OBVIOUS
<1> USE ConstantsAssumption
<1>kept. ASSUME UNCHANGED <<mainVars, pc>> PROVE PoolInv'
  BY <1>kept, PoolFrame DEF mainVars, Started
<1>die. ASSUME NEW cause, Die(cause) PROVE PoolInv'
  BY <1>die, <1>kept DEF Die, handlerVars
<1>moves. ASSUME NEW c \in Clients, UNCHANGED mainVars, pc[c] \in Handling,
                 NEW v \in Handling \cup {"done"}, pc' = [pc EXCEPT ![c] = v]
          PROVE  PoolInv'
  BY <1>moves, StartedMove, PoolFrame DEF mainVars
<1>unchanged. CASE UNCHANGED vars
  BY <1>unchanged, <1>kept DEF vars, handlerVars
<1>clients. ASSUME NEW c \in Clients,
                   Connect(c) \/ Greet(c) \/ SendRequest(c) \/ HalfClose(c) \/ Leave(c)
            PROVE PoolInv'
  <2>1. CASE Connect(c)
    <3>1. pc[c] = "none"
      BY <2>1 DEF Connect, OwnerInv, Stages
    <3> QED BY <2>1, <3>1, NotStarted, PoolFrame DEF Connect, Handling, mainVars
  <2>2. CASE Greet(c) \/ SendRequest(c) \/ HalfClose(c) \/ Leave(c)
    BY <2>2, <1>kept DEF Greet, SendRequest, HalfClose, Leave, handlerVars
  <2> QED BY <1>clients, <2>1, <2>2
<1>main. ASSUME MainThread PROVE PoolInv'
  <2>1. CASE Startup
    <3>1. UNCHANGED <<nextThread, pool, corrupted, pc>> /\ acc = "startup" /\ acc' = "accept"
      BY <2>1 DEF Startup, handlerVars
    <3> QED BY <3>1 DEF PoolInv, HandlesKept, Started
  <2>2. CASE StartupFails \/ AcceptFails
    BY <2>2, <1>die DEF StartupFails, AcceptFails
  <2>3. CASE Accept
    <3>1. "http" \in Ports /\ queue["http"] # <<>> /\ pc' = [pc EXCEPT ![Head(queue["http"])] = "dispatch"]
          /\ queue' = [queue EXCEPT !["http"] = Tail(@)]
      BY <2>3 DEF Accept, Ports
    <3>2. Head(queue["http"]) \in Clients /\ pc[Head(queue["http"])] = "queued"
      BY <3>1, TakeHead
    <3>3. Started' = Started
      BY <3>1, <3>2, NotStarted DEF Handling
    <3> QED BY <2>3, <3>3, PoolFrame DEF Accept
  <2>4. CASE ScanPastEnd
    <3>1. CASE Die("wild")
      BY <3>1, <1>die
    <3>2. CASE ~Die("wild")
      BY <2>4, <3>2 DEF ScanPastEnd, PoolInv, HandlesKept
    <3> QED BY <3>1, <3>2
  <2> QED BY <1>main, <2>1, <2>2, <2>3, <2>4, PoolScan, PoolSpawn DEF MainThread
<1>serve. ASSUME NEW c \in Clients, Serve(c) PROVE PoolInv'
  <2>1. CASE Access(c)
    <3>1. PICK v \in {"send", "close"} : pc' = [pc EXCEPT ![c] = v]
      BY <2>1 DEF Access
    <3> QED BY <2>1, <3>1, <1>moves DEF Access, Handling
  <2>2. CASE RacedAccess(c)
    <3>1. CASE Die("race")
      BY <3>1, <1>die
    <3>2. CASE ~Die("race")
      BY <2>2, <3>2, <1>moves DEF RacedAccess, Handling
    <3> QED BY <3>1, <3>2
  <2>3. CASE Send(c)
    BY <2>3, <1>moves DEF Send, Handling
  <2>4. CASE SendBreaks(c)
    BY <2>4, <1>die DEF SendBreaks
  <2> QED BY <1>serve, <2>1, <2>2, <2>3, <2>4 DEF Serve
<1>http. ASSUME NEW c \in HttpClients, HttpHandler(c) PROVE PoolInv'
  <2> c \in Clients
    BY DEF Clients
  <2>1. CASE Receive(c) \/ Close(c)
    BY <2>1, <1>moves DEF Receive, Close, Handling
  <2>2. CASE ReceiveThrows(c)
    BY <2>2, <1>die DEF ReceiveThrows
  <2> QED BY <1>http, <1>serve, <2>1, <2>2 DEF HttpHandler
<1>https. ASSUME HttpsThread PROVE PoolInv'
  <2>1. CASE HttpsOpen
    BY <2>1, <1>kept DEF HttpsOpen, handlerVars
  <2>2. CASE HttpsAbort
    BY <2>2, <1>die DEF HttpsAbort
  <2>3. CASE HttpsAccept
    <3>1. /\ "https" \in Ports /\ queue["https"] # <<>>
          /\ queue' = [queue EXCEPT !["https"] = Tail(@)]
          /\ pc' = [pc EXCEPT ![Head(queue["https"])] = "handshake"]
      BY <2>3 DEF HttpsAccept, Ports
    <3>2. /\ Head(queue["https"]) \in Clients /\ pc[Head(queue["https"])] = "queued"
          /\ PortOf(Head(queue["https"])) = "https"
      BY <3>1, TakeHead
    <3>3. Head(queue["https"]) \in HttpsClients
      BY <3>2 DEF PortOf, Clients
    <3>4. Started' = Started
      BY <3>1, <3>2, <3>3, NotStarted DEF Handling
    <3> QED BY <2>3, <3>4, PoolFrame DEF HttpsAccept, mainVars
  <2>5. CASE HttpsAcceptFails
    <3>1. /\ "https" \in Ports /\ queue["https"] # <<>>
          /\ queue' = [queue EXCEPT !["https"] = Tail(@)]
          /\ pc' = [pc EXCEPT ![Head(queue["https"])] = "done"]
      BY <2>5 DEF HttpsAcceptFails, Ports
    <3>2. /\ Head(queue["https"]) \in Clients /\ pc[Head(queue["https"])] = "queued"
          /\ PortOf(Head(queue["https"])) = "https"
      BY <3>1, TakeHead
    <3>3. Head(queue["https"]) \in HttpsClients
      BY <3>2 DEF PortOf, Clients
    <3>4. Started' = Started
      BY <3>1, <3>2, <3>3, NotStarted DEF Handling
    <3> QED BY <2>5, <3>4, PoolFrame DEF HttpsAcceptFails, mainVars
  <2>4. ASSUME NEW c \in HttpsClients, TlsHandler(c) PROVE PoolInv'
    <3> c \in Clients
      BY DEF Clients
    <3>1. CASE Handshake(c)
      <4>1. PICK v \in {"recv", "close"} : pc' = [pc EXCEPT ![c] = v]
        BY <3>1 DEF Handshake
      <4> QED BY <3>1, <4>1, <1>moves DEF Handshake, Handling
    <3>5. CASE HandshakeBreaks(c)
      BY <3>5, <1>die DEF HandshakeBreaks
    <3>2. CASE ReceiveTls(c) \/ CloseTls(c)
      BY <3>2, <1>moves DEF ReceiveTls, CloseTls, Handling
    <3>3. CASE ReceiveTlsFaults(c)
      BY <3>3, <1>die DEF ReceiveTlsFaults
    <3> QED BY <2>4, <1>serve, <3>1, <3>2, <3>3, <3>5 DEF TlsHandler
  <2> QED BY <1>https, <2>1, <2>2, <2>3, <2>4, <2>5 DEF HttpsThread
<1> QED BY <1>unchanged, <1>main, <1>https, <1>http, <1>clients DEF Next

\* As long as main stays inside the array no thread handle is overwritten: there are as
\* many joinable elements as threads were started, for any number of clients.
THEOREM NoHandleLost == Spec => []HandlesKept
<1>1. PoolInv => HandlesKept
  BY DEF PoolInv
<1>2. Init => PoolInv
  BY PoolInit
<1> QED BY <1>1, <1>2, PoolStep, Typing, Owner, PTL DEF Spec
-----------------------------------------------------------------------------
(* What is answered: each client gets at most its own page. *)

LEMMA ReplyInit == Init => ReplyInv
BY DEF Init, ReplyInv, KeysFit, RightReply

\* A step that touches no key, entry, request or reply keeps the invariant when
\* no handler enters a lookup or a send by it, none that is past them returns, and
\* no client opens what it had shut.
LEMMA ReplyFrame ==
    ASSUME ReplyInv, UNCHANGED <<filemap, tlsKey, key, msg, reply>>,
           \A c \in Clients : pc'[c] \in {"access", "send"} => pc'[c] = pc[c],
           \A c \in Clients : pc[c] \in {"close", "done"} => pc'[c] \in {"close", "done"},
           \A c \in Clients : pc[c] # "none" =>
               /\ conn'[c] = "open" => conn[c] = "open"
               /\ conn'[c] \in {"open", "half"} => conn[c] \in {"open", "half"}
    PROVE  ReplyInv'
<1>1. \A c \in Clients : Answers(c)' = Answers(c)
  BY DEF Answers
<1>2. \A k : LeftInFrame(k)' = LeftInFrame(k)
  BY DEF LeftInFrame
<1>3. RightReply'
  BY <1>1, <1>2 DEF ReplyInv, RightReply, KeysFit
<1>4. KeysFit'
  BY <1>1, <1>2 DEF ReplyInv, KeysFit
<1> QED BY <1>3, <1>4 DEF ReplyInv

\* A handler that has read its request looks up a key that answers it, and one
\* that read nothing what was left.
LEMMA ReplyRead ==
    ASSUME TypeOK, OwnerInv, ReplyInv, NEW c \in Clients, pc[c] = "recv", Readable(c),
           NEW k \in Keys,
           conn[c] \in {"open", "half"} /\ msg[c] # None => k \in Answers(c),
           c \in HttpsClients => LeftInFrame(k),
           tlsKey' # None => LeftInFrame(tlsKey'),
           key' = [key EXCEPT ![c] = k], pc' = [pc EXCEPT ![c] = "access"],
           UNCHANGED <<filemap, conn, msg, reply>>
    PROVE  ReplyInv'
<1>1. /\ key'[c] = k /\ pc'[c] = "access"
      /\ \A d \in Clients \ {c} : key'[d] = key[d] /\ pc'[d] = pc[d]
  BY DEF TypeOK
<1>2. /\ \A d \in Clients : Answers(d)' = Answers(d)
      /\ \A j : LeftInFrame(j) => \E d \in HttpsClients : msg'[d] # None /\ j = TlsKeyOf(msg'[d])
  BY DEF Answers, LeftInFrame
<1>3. RightReply'
  BY <1>2 DEF ReplyInv, RightReply, LeftInFrame
<1>4. reply[c] = <<>>
  BY DEF ReplyInv, KeysFit
<1>5. conn[c] = "open" => msg[c] # None
  BY DEF Readable
<1>6. ASSUME NEW d \in Clients, pc'[d] \in {"access", "send"}
      PROVE  /\ key'[d] \in Keys
             /\ d \in HttpsClients => LeftInFrame(key'[d])
             /\ conn[d] = "open" => msg[d] # None
             /\ conn[d] \in {"open", "half"} /\ msg[d] # None => key'[d] \in Answers(d)
  BY <1>1, <1>5, <1>6 DEF ReplyInv, KeysFit
<1>7. \A d \in Clients : pc'[d] = "send" => key'[d] \in Loaded
  BY <1>1 DEF ReplyInv, KeysFit
<1>8. \A d \in Clients : reply[d] # <<>> =>
          pc'[d] \in {"close", "done"} /\ (msg[d] # None \/ conn[d] # "open")
  BY <1>1, <1>4 DEF ReplyInv, KeysFit
<1>9. KeysFit'
  BY <1>2, <1>6, <1>7, <1>8 DEF ReplyInv, KeysFit, LeftInFrame
<1> QED BY <1>3, <1>9 DEF ReplyInv

\* A lookup that lets no entry become a servlet.
LEMMA ReplyAccess ==
    ASSUME TypeOK, ReplyInv, NEW c \in Clients, pc[c] = "access",
           \A k \in Keys : filemap'[k] = "servlet" => filemap[k] = "servlet",
           NEW v \in {"send", "close"}, v = "send" => filemap[key[c]] = "servlet",
           pc' = [pc EXCEPT ![c] = v], UNCHANGED <<tlsKey, key, conn, msg, reply>>
    PROVE  ReplyInv'
<1>1. pc'[c] = v /\ \A d \in Clients \ {c} : pc'[d] = pc[d]
  BY DEF TypeOK
<1>2. /\ \A d \in Clients : Answers(d)' = Answers(d)
      /\ \A k : LeftInFrame(k)' = LeftInFrame(k)
  BY DEF Answers, LeftInFrame
<1>3. RightReply'
  BY <1>2 DEF ReplyInv, RightReply
<1>4. reply[c] = <<>> /\ key[c] \in Keys /\ (v = "send" => key[c] \in Loaded)
  BY DEF ReplyInv, KeysFit
<1>5. KeysFit'
  BY <1>1, <1>2, <1>4 DEF ReplyInv, KeysFit
<1> QED BY <1>3, <1>5 DEF ReplyInv

\* What may be sent to c: the answer to its request, or what was left.
Due(c, k) ==
    /\ k \in Loaded
    /\ IF msg[c] # None THEN k \in Answers(c)
       ELSE conn[c] # "open" /\ (c \in HttpsClients => LeftInFrame(k))

\* A send reaches the client of the connection, and it alone.
LEMMA SendReply ==
    ASSUME TypeOK, OwnerInv, ReplyInv, NEW c \in Clients, Send(c)
    PROVE  /\ fdtab[fd[c]] = c
           /\ pc[c] = "send" /\ pc' = [pc EXCEPT ![c] = "close"] /\ msg' = msg /\ conn' = conn
           /\ reply[c] = <<>>
           /\ reply' = IF Reachable(c) THEN [reply EXCEPT ![c] = <<key[c]>>] ELSE reply
           /\ Reachable(c) => Due(c, key[c])
<1>1. pc[c] = "send" /\ fdtab[fd[c]] = c /\ c # None
  BY ConstantsAssumption DEF Send, OwnerInv, FdOwnership, Handling
<1>2. reply[c] = <<>> /\ (Reachable(c) => Due(c, key[c]))
  BY <1>1 DEF ReplyInv, KeysFit, Reachable, Due
<1>3. Append(reply[c], key[c]) = <<key[c]>>
  BY <1>2
<1> QED BY <1>1, <1>2, <1>3 DEF Send

LEMMA ReplySend ==
    ASSUME TypeOK, OwnerInv, ReplyInv, NEW c \in Clients, Send(c)
    PROVE  ReplyInv'
<1>1. /\ pc'[c] = "close" /\ \A d \in Clients \ {c} : pc'[d] = pc[d]
      /\ \A d \in Clients \ {c} : reply'[d] = reply[d]
      /\ reply'[c] = IF Reachable(c) THEN <<key[c]>> ELSE <<>>
  BY SendReply DEF TypeOK
<1>2. UNCHANGED <<filemap, tlsKey, key, conn, msg>>
  BY DEF Send, mapVars, tlsVars
<1>3. /\ \A d \in Clients : Answers(d)' = Answers(d)
      /\ \A k : LeftInFrame(k)' = LeftInFrame(k)
  BY <1>2 DEF Answers, LeftInFrame
<1>4. RightReply'
  <2> SUFFICES ASSUME NEW d \in Clients, reply'[d] # <<>>
               PROVE  Len(reply'[d]) = 1 /\ Due(d, reply'[d][1])
    BY <1>2, <1>3 DEF RightReply, Due
  <2>1. CASE d = c
    <3>1. reply'[c] = <<key[c]>> /\ Reachable(c)
      BY <1>1, <2>1
    <3> QED BY <2>1, <3>1, SendReply
  <2>2. CASE d # c
    BY <1>1, <2>2 DEF ReplyInv, RightReply, Due
  <2> QED BY <2>1, <2>2
<1>5. KeysFit'
  <2>1. \A d \in Clients : reply'[d] # <<>> =>
            pc'[d] \in {"close", "done"} /\ (msg[d] # None \/ conn[d] # "open")
    BY <1>1, SendReply DEF ReplyInv, KeysFit, Due
  <2> QED BY <1>1, <1>2, <1>3, <2>1 DEF ReplyInv, KeysFit
<1> QED BY <1>4, <1>5 DEF ReplyInv

LEMMA ReplyStep == TypeOK /\ OwnerInv /\ ReplyInv /\ [Next]_vars => ReplyInv'
<1> SUFFICES ASSUME TypeOK, OwnerInv, ReplyInv, [Next]_vars PROVE ReplyInv'
  OBVIOUS
<1> USE ConstantsAssumption
<1>types. /\ pc \in [Clients -> Handling \cup {"none", "queued", "dispatch", "done"}]
          /\ conn \in [Clients -> {"idle", "open", "half", "gone"}]
          /\ msg \in [Clients -> Requests \cup {None}]
  BY DEF TypeOK
<1>unchanged. CASE UNCHANGED vars
  BY <1>unchanged, ReplyFrame DEF vars, tlsVars, mapVars, handlerVars, clientVars
<1>die. ASSUME NEW cause, Die(cause) PROVE ReplyInv'
  BY <1>die, ReplyFrame DEF Die, tlsVars, mapVars, handlerVars, clientVars
<1>same. ASSUME UNCHANGED <<tlsKey, handlerVars, mapVars, clientVars>> PROVE ReplyInv'
  BY <1>same, ReplyFrame DEF mapVars, handlerVars, clientVars
<1>move. ASSUME NEW c \in Clients, pc[c] \notin {"done"}, NEW v, v \notin {"access", "send"},
                pc[c] = "close" => v = "done",
                pc' = [pc EXCEPT ![c] = v],
                UNCHANGED <<tlsKey, key, filemap, conn, msg, reply>>
         PROVE ReplyInv'
  BY <1>move, <1>types, ReplyFrame
<1>connect. ASSUME NEW c \in Clients, Connect(c) PROVE ReplyInv'
  <2>1. pc[c] = "none"
    BY <1>connect DEF Connect, OwnerInv, Stages
  <2> QED BY <1>connect, <1>types, <2>1, ReplyFrame DEF Connect, tlsVars, mapVars
<1>ask. ASSUME NEW c \in Clients, SendRequest(c) PROVE ReplyInv'
  <2>1. /\ conn[c] = "open" /\ msg[c] = None
        /\ \A d \in Clients \ {c} : msg'[d] = msg[d]
        /\ UNCHANGED <<filemap, tlsKey, key, pc, conn, reply>>
    BY <1>ask, <1>types DEF SendRequest, tlsVars, handlerVars, mapVars
  <2>2. /\ \A d \in Clients \ {c} : Answers(d)' = Answers(d)
        /\ \A k : LeftInFrame(k) => LeftInFrame(k)'
    BY <2>1 DEF Answers, LeftInFrame, Clients
  <2>3. reply[c] = <<>> /\ pc[c] \notin {"access", "send"}
    BY <2>1 DEF ReplyInv, KeysFit
  <2>4. RightReply'
    BY <2>1, <2>2, <2>3 DEF ReplyInv, RightReply
  <2>5. KeysFit'
    BY <2>1, <2>2, <2>3 DEF ReplyInv, KeysFit
  <2> QED BY <2>4, <2>5 DEF ReplyInv
<1>greet. ASSUME NEW c \in Clients, Greet(c) PROVE ReplyInv'
  BY <1>greet, <1>same DEF Greet
<1>half. ASSUME NEW c \in Clients, HalfClose(c) PROVE ReplyInv'
  BY <1>half, <1>types, ReplyFrame DEF HalfClose, tlsVars, handlerVars, mapVars
<1>leave. ASSUME NEW c \in Clients, Leave(c) PROVE ReplyInv'
  BY <1>leave, <1>types, ReplyFrame DEF Leave, tlsVars, handlerVars, mapVars
<1>taken. ASSUME NEW p \in Ports, queue[p] # <<>>, queue' = [queue EXCEPT ![p] = Tail(@)],
                 NEW v \in {"dispatch", "handshake", "done"},
                 pc' = [pc EXCEPT ![Head(queue[p])] = v],
                 UNCHANGED <<tlsKey, key, mapVars, clientVars>>
          PROVE ReplyInv'
  <2>1. Head(queue[p]) \in Clients /\ pc[Head(queue[p])] = "queued"
    BY <1>taken, TakeHead
  <2> QED BY <1>taken, <2>1, <1>move DEF mapVars, clientVars
<1>start. ASSUME acc = "dispatch", StartHandler, UNCHANGED <<tlsKey, key, mapVars, clientVars>> PROVE ReplyInv'
  <2>1. fdtab[clientSock] \in Clients /\ pc[fdtab[clientSock]] = "dispatch"
    BY <1>start DEF OwnerInv, Stages
  <2>2. pc' = [pc EXCEPT ![fdtab[clientSock]] = "recv"]
    BY <1>start DEF StartHandler
  <2>3. UNCHANGED <<tlsKey, key, filemap, conn, msg, reply>>
    BY <1>start DEF mapVars, clientVars
  <2>4. \A c \in Clients : pc[c] = "dispatch" /\ pc' = [pc EXCEPT ![c] = "recv"] => ReplyInv'
    BY <2>3, <1>move
  <2> QED BY <2>1, <2>2, <2>4
<1>main. ASSUME MainThread PROVE ReplyInv'
  <2>1. CASE Startup
    BY <2>1, <1>same DEF Startup, tlsVars
  <2>2. CASE StartupFails
    BY <2>2, <1>die DEF StartupFails
  <2>3. CASE Accept
    BY <2>3, <1>taken DEF Accept, Ports, tlsVars
  <2>4. CASE AcceptFails
    BY <2>4, <1>die DEF AcceptFails
  <2>5. CASE Scan
    BY <2>5, <1>same DEF Scan, tlsVars
  <2>6. CASE Spawn
    BY <2>6, <1>start DEF Spawn, tlsVars
  <2>7. CASE ScanPastEnd
    BY <2>7, <1>die, <1>start DEF ScanPastEnd, tlsVars
  <2> QED BY <1>main, <2>1, <2>2, <2>3, <2>4, <2>5, <2>6, <2>7 DEF MainThread
<1>serve. ASSUME NEW c \in Clients, Serve(c) PROVE ReplyInv'
  <2>1. CASE Access(c)
    <3>1. PICK v \in {"send", "close"} : /\ v = "send" <=> filemap[key[c]] = "servlet"
                                         /\ pc' = [pc EXCEPT ![c] = v]
      BY <2>1 DEF Access
    <3>2. \A k \in Keys : filemap'[k] = "servlet" => filemap[k] = "servlet"
      BY <2>1 DEF Access, TypeOK
    <3> QED BY <2>1, <3>1, <3>2, ReplyAccess DEF Access, tlsVars, clientVars
  <2>2. CASE RacedAccess(c)
    <3>1. CASE Die("race")
      BY <3>1, <1>die
    <3>2. CASE ~Die("race")
      <4>1. /\ pc[c] = "access" /\ pc' = [pc EXCEPT ![c] = "close"]
            /\ \E k \in Keys : filemap' = [filemap EXCEPT ![k] = "absent"]
            /\ UNCHANGED <<tlsVars, key, clientVars>>
        BY <2>2, <3>2 DEF RacedAccess
      <4>2. \A k \in Keys : filemap'[k] = "servlet" => filemap[k] = "servlet"
        BY <4>1 DEF TypeOK
      <4> QED BY <4>1, <4>2, ReplyAccess DEF tlsVars, clientVars
    <3> QED BY <3>1, <3>2
  <2>3. CASE Send(c)
    BY <2>3, ReplySend
  <2>4. CASE SendBreaks(c)
    BY <2>4, <1>die DEF SendBreaks
  <2> QED BY <1>serve, <2>1, <2>2, <2>3, <2>4 DEF Serve
<1>http. ASSUME NEW c \in HttpClients, HttpHandler(c) PROVE ReplyInv'
  <2> c \in Clients
    BY DEF Clients
  <2>1. CASE Receive(c)
    <3>0. PICK m \in Received(c) : \E k \in Parses(m) : key' = [key EXCEPT ![c] = k]
      BY <2>1 DEF Receive
    <3>1. PICK k \in Parses(m) : key' = [key EXCEPT ![c] = k]
      BY <3>0
    <3>2. m \in Requests \cup {None} /\ k \in Keys
      BY <1>types, KeyTypes, <3>1 DEF Received
    <3>3. conn[c] \in {"open", "half"} /\ msg[c] # None => k \in Answers(c)
      BY <2>1, <3>1 DEF Receive, Received, Answers, AnswersTo
    <3>4. c \notin HttpsClients /\ tlsKey' = tlsKey /\ (tlsKey # None => LeftInFrame(tlsKey))
      BY <2>1 DEF Receive, tlsVars, ReplyInv, KeysFit
    <3> QED BY <2>1, <3>1, <3>2, <3>3, <3>4, ReplyRead DEF Receive, mapVars, clientVars
  <2>2. CASE ReceiveThrows(c)
    BY <2>2, <1>die DEF ReceiveThrows
  <2>3. CASE Close(c)
    BY <2>3, <1>move DEF Close, tlsVars, mapVars, clientVars
  <2> QED BY <1>http, <1>serve, <2>1, <2>2, <2>3 DEF HttpHandler
<1>https. ASSUME HttpsThread PROVE ReplyInv'
  <2>1. CASE HttpsOpen
    BY <2>1, <1>same DEF HttpsOpen
  <2>2. CASE HttpsAbort
    BY <2>2, <1>die DEF HttpsAbort
  <2>3. CASE HttpsAccept
    BY <2>3, <1>taken DEF HttpsAccept, Ports, tlsVars
  <2>5. CASE HttpsAcceptFails
    BY <2>5, <1>taken DEF HttpsAcceptFails, Ports, tlsVars
  <2>4. ASSUME NEW c \in HttpsClients, TlsHandler(c) PROVE ReplyInv'
    <3> c \in Clients
      BY DEF Clients
    <3>1. CASE Handshake(c)
      <4>1. PICK v \in {"recv", "close"} : pc' = [pc EXCEPT ![c] = v]
        BY <3>1 DEF Handshake
      <4> QED BY <3>1, <4>1, <1>move DEF Handshake, mapVars, clientVars
    <3>5. CASE HandshakeBreaks(c)
      BY <3>5, <1>die DEF HandshakeBreaks
    <3>2. CASE ReceiveTls(c)
      <4>1. PICK m \in Received(c) : tlsKey' = IF m = None THEN tlsKey ELSE TlsKeyOf(m)
        BY <3>2 DEF ReceiveTls
      <4>2. tlsKey' \in Keys
        <5>1. m \in Requests \cup {None} /\ tlsKey \in Keys \cup {None} /\ tlsKey' # None
          BY <3>2, <4>1, <1>types DEF Received, ReceiveTls, TypeOK
        <5> QED BY <4>1, <5>1, KeyTypes
      <4>3. conn[c] \in {"open", "half"} /\ msg[c] # None => tlsKey' \in Answers(c)
        <5> SUFFICES ASSUME conn[c] \in {"open", "half"}, msg[c] # None PROVE tlsKey' \in Answers(c)
          OBVIOUS
        <5>1. m = msg[c] /\ c \notin HttpClients
          BY <4>1 DEF Received
        <5> QED BY <4>1, <5>1 DEF Answers, AnswersTo
      <4>4. LeftInFrame(tlsKey')
        <5>1. CASE m = None
          BY <4>1, <4>2, <5>1 DEF ReplyInv, KeysFit
        <5>2. CASE m # None
          <6>1. m = msg[c]
            BY <4>1, <5>2 DEF Received
          <6> QED BY <4>1, <5>2, <6>1 DEF LeftInFrame
        <5> QED BY <5>1, <5>2
      <4> QED BY <3>2, <4>2, <4>3, <4>4, ReplyRead DEF ReceiveTls, mapVars, clientVars
    <3>3. CASE ReceiveTlsFaults(c)
      BY <3>3, <1>die DEF ReceiveTlsFaults
    <3>4. CASE CloseTls(c)
      BY <3>4, <1>move DEF CloseTls, tlsVars, mapVars, clientVars
    <3> QED BY <2>4, <1>serve, <3>1, <3>2, <3>3, <3>4, <3>5 DEF TlsHandler
  <2> QED BY <1>https, <2>1, <2>2, <2>3, <2>4, <2>5 DEF HttpsThread
<1> QED BY <1>unchanged, <1>main, <1>https, <1>http, <1>connect, <1>greet, <1>ask, <1>half, <1>leave DEF Next

\* What a handler looks up is what its client asked, from recv to send: the
\* inductive invariant behind RightReply.
THEOREM Replies == Spec => []ReplyInv
BY Typing, Owner, ReplyInit, ReplyStep, PTL DEF Spec

\* No interleaving gives a client a second page, one that was not preloaded, or
\* one that is not the answer to what it asked; a page without having asked only
\* if it shut its side, and over HTTPS only one that was asked for before.
THEOREM RepliesRight == Spec => []RightReply
BY Replies, PTL DEF ReplyInv

-----------------------------------------------------------------------------
(* The file map. *)

\* PagesSafe, and that a handler has no key before it has read.
MapInv ==
    /\ PagesSafe
    /\ \A c \in Clients : pc[c] \in {"none", "queued", "dispatch", "handshake", "recv"} => key[c] = None

LEMMA MapInit == Init => MapInv
BY ConstantsAssumption DEF Init, MapInv, PagesSafe, Keys

\* A step outside the map that gives no handler a key.
LEMMA MapFrame ==
    ASSUME MapInv, UNCHANGED <<mapVars, key>>,
           \A c \in Clients : pc'[c] \in {"none", "queued", "dispatch", "handshake", "recv"}
               => pc[c] \in {"none", "queued", "dispatch", "handshake", "recv"}
    PROVE  MapInv'
BY DEF MapInv, PagesSafe, mapVars

\* A handler's first and only key: it had none that could have been missing.
LEMMA MapRead ==
    ASSUME TypeOK, MapInv, NEW c \in Clients, pc[c] = "recv", NEW k \in Keys,
           key' = [key EXCEPT ![c] = k], pc' = [pc EXCEPT ![c] = "access"], UNCHANGED mapVars
    PROVE  MapInv'
<1>1. key[c] = None /\ None \notin Keys
  BY ConstantsAssumption DEF MapInv
<1>2. /\ key'[c] = k /\ pc'[c] = "access"
      /\ \A d \in Clients \ {c} : key'[d] = key[d] /\ pc'[d] = pc[d]
  BY DEF TypeOK
<1>3. \A d \in Clients : key[d] \in Keys => key'[d] = key[d]
  BY <1>1, <1>2
<1> QED BY <1>2, <1>3 DEF MapInv, PagesSafe, mapVars

\* Who conflicts, or inserts, looks up a missing page.
LEMMA MapServe == ASSUME TypeOK, ReplyInv, MapInv, NEW c \in Clients, Serve(c) PROVE MapInv'
<1>move. ASSUME UNCHANGED <<mapVars, key>>, NEW v \in {"close", "send"}, pc' = [pc EXCEPT ![c] = v]
         PROVE  MapInv'
  <2>1. pc'[c] = v /\ \A d \in Clients \ {c} : pc'[d] = pc[d]
    BY <1>move DEF TypeOK
  <2> QED BY <1>move, <2>1, MapFrame
<1>die. ASSUME NEW cause, Die(cause) PROVE MapInv'
  BY <1>die, MapFrame DEF Die, handlerVars
<1>keys. \A d \in Clients : pc[d] = "access" => key[d] \in Keys
  BY DEF ReplyInv, KeysFit
<1>conflict. Conflict(c) => \E d \in Clients : key[d] \in Keys \ Loaded
  <2> SUFFICES ASSUME Conflict(c), ~raced PROVE \E d \in Clients : key[d] \in Keys \ Loaded
    BY DEF MapInv, PagesSafe
  <2>1. PICK d \in Clients : /\ pc[c] = "access" /\ pc[d] = "access"
                             /\ filemap[key[c]] = "absent" \/ filemap[key[d]] = "absent"
    BY DEF Conflict
  <2>2. PICK e \in {c, d} : filemap[key[e]] = "absent" /\ key[e] \in Keys
    BY <2>1, <1>keys
  <2>3. key[e] \notin Loaded
    BY <2>2 DEF MapInv, PagesSafe
  <2> QED BY <2>2, <2>3
<1>1. CASE Access(c)
  <2>1. /\ pc[c] = "access" /\ key' = key /\ key[c] \in Keys
        /\ raced' = (raced \/ Conflict(c))
        /\ filemap' = [filemap EXCEPT ![key[c]] = IF @ = "absent" THEN "null" ELSE @]
    BY <1>1, <1>keys DEF Access
  <2>2. /\ pc'[c] \in {"send", "close"} /\ \A d \in Clients \ {c} : pc'[d] = pc[d]
    BY <1>1 DEF Access, TypeOK
  <2>3. \A k \in Keys : /\ filemap'[k] = "servlet" <=> filemap[k] = "servlet"
                        /\ filemap'[k] = "null" => filemap[k] = "null" \/ k = key[c]
    BY <2>1 DEF TypeOK
  <2>4. raced' => \E d \in Clients : key[d] \in Keys \ Loaded
    BY <2>1, <1>conflict DEF MapInv, PagesSafe
  <2> QED BY <2>1, <2>2, <2>3, <2>4 DEF MapInv, PagesSafe
<1>2. CASE RacedAccess(c)
  <2>1. CASE Die("race")
    BY <2>1, <1>die
  <2>2. CASE ~Die("race")
    <3>1. PICK k \in Keys : filemap' = [filemap EXCEPT ![k] = "absent"]
      BY <1>2, <2>2 DEF RacedAccess
    <3>2. Conflict(c) /\ raced' = TRUE /\ key' = key /\ pc' = [pc EXCEPT ![c] = "close"]
      BY <1>2, <2>2 DEF RacedAccess
    <3>3. /\ pc'[c] = "close" /\ \A d \in Clients \ {c} : pc'[d] = pc[d]
          /\ \A j \in Keys : filemap'[j] = "null" => filemap[j] = "null"
      BY <3>1, <3>2 DEF TypeOK
    <3> QED BY <3>2, <3>3, <1>conflict DEF MapInv, PagesSafe
  <2> QED BY <2>1, <2>2
<1>3. CASE Send(c)
  BY <1>3, <1>move DEF Send
<1>4. CASE SendBreaks(c)
  BY <1>4, <1>die DEF SendBreaks
<1> QED BY <1>1, <1>2, <1>3, <1>4 DEF Serve

LEMMA MapStep == TypeOK /\ OwnerInv /\ ReplyInv /\ MapInv /\ [Next]_vars => MapInv'
<1> SUFFICES ASSUME TypeOK, OwnerInv, ReplyInv, MapInv, [Next]_vars PROVE MapInv'
  OBVIOUS
<1>same. ASSUME UNCHANGED <<mapVars, key, pc>> PROVE MapInv'
  BY <1>same, MapFrame
<1>die. ASSUME NEW cause, Die(cause) PROVE MapInv'
  BY <1>die, <1>same DEF Die, handlerVars
<1>move. ASSUME NEW c \in Clients, UNCHANGED <<mapVars, key>>, NEW v, pc' = [pc EXCEPT ![c] = v],
                pc[c] \in {"none", "queued", "dispatch", "handshake", "recv"} \/ v \in {"close", "done"}
         PROVE  MapInv'
  <2>1. pc'[c] = v /\ \A d \in Clients \ {c} : pc'[d] = pc[d]
    BY <1>move DEF TypeOK
  <2> QED BY <1>move, <2>1, MapFrame
<1>unchanged. CASE UNCHANGED vars
  BY <1>unchanged, <1>same DEF vars, handlerVars
<1>taken. ASSUME NEW p \in Ports, queue[p] # <<>>, queue' = [queue EXCEPT ![p] = Tail(@)],
                 NEW v \in {"dispatch", "handshake", "done"},
                 pc' = [pc EXCEPT ![Head(queue[p])] = v], UNCHANGED <<mapVars, key>>
          PROVE MapInv'
  <2>1. Head(queue[p]) \in Clients /\ pc[Head(queue[p])] = "queued"
    BY <1>taken, TakeHead
  <2> QED BY <1>taken, <2>1, <1>move
<1>start. ASSUME acc = "dispatch", StartHandler, UNCHANGED <<mapVars, key>> PROVE MapInv'
  <2>1. fdtab[clientSock] \in Clients /\ pc[fdtab[clientSock]] = "dispatch"
    BY <1>start DEF OwnerInv, Stages
  <2>2. pc' = [pc EXCEPT ![fdtab[clientSock]] = "recv"]
    BY <1>start DEF StartHandler
  <2>3. \A c \in Clients : pc[c] = "dispatch" /\ pc' = [pc EXCEPT ![c] = "recv"] => MapInv'
    BY <1>start, <1>move
  <2> QED BY <2>1, <2>2, <2>3
<1>main. ASSUME MainThread PROVE MapInv'
  <2>1. CASE Startup \/ Scan
    BY <2>1, <1>same DEF Startup, Scan, handlerVars
  <2>2. CASE StartupFails \/ AcceptFails
    BY <2>2, <1>die DEF StartupFails, AcceptFails
  <2>3. CASE Accept
    BY <2>3, <1>taken DEF Accept, Ports
  <2>4. CASE Spawn
    BY <2>4, <1>start DEF Spawn
  <2>5. CASE ScanPastEnd
    BY <2>5, <1>die, <1>start DEF ScanPastEnd
  <2> QED BY <1>main, <2>1, <2>2, <2>3, <2>4, <2>5 DEF MainThread
<1>http. ASSUME NEW c \in HttpClients, HttpHandler(c) PROVE MapInv'
  <2> c \in Clients
    BY DEF Clients
  <2>1. CASE Receive(c)
    <3>1. PICK m \in Received(c) : \E k \in Parses(m) : key' = [key EXCEPT ![c] = k]
      BY <2>1 DEF Receive
    <3>2. PICK k \in Keys : key' = [key EXCEPT ![c] = k]
      BY <3>1, KeyTypes DEF Received, TypeOK
    <3> QED BY <2>1, <3>2, MapRead DEF Receive
  <2>2. CASE ReceiveThrows(c)
    BY <2>2, <1>die DEF ReceiveThrows
  <2>3. CASE Close(c)
    BY <2>3, <1>move DEF Close
  <2> QED BY <1>http, MapServe, <2>1, <2>2, <2>3 DEF HttpHandler
<1>https. ASSUME HttpsThread PROVE MapInv'
  <2>1. CASE HttpsOpen
    BY <2>1, <1>same DEF HttpsOpen, handlerVars
  <2>2. CASE HttpsAbort
    BY <2>2, <1>die DEF HttpsAbort
  <2>3. CASE HttpsAccept
    BY <2>3, <1>taken DEF HttpsAccept, Ports
  <2>5. CASE HttpsAcceptFails
    BY <2>5, <1>taken DEF HttpsAcceptFails, Ports
  <2>4. ASSUME NEW c \in HttpsClients, TlsHandler(c) PROVE MapInv'
    <3> c \in Clients
      BY DEF Clients
    <3>1. CASE Handshake(c)
      BY <3>1, <1>move DEF Handshake
    <3>2. CASE HandshakeBreaks(c) \/ ReceiveTlsFaults(c)
      BY <3>2, <1>die DEF HandshakeBreaks, ReceiveTlsFaults
    <3>3. CASE ReceiveTls(c)
      <4>1. tlsKey' \in Keys
        <5>1. PICK m \in Received(c) : tlsKey' = IF m = None THEN tlsKey ELSE TlsKeyOf(m)
          BY <3>3 DEF ReceiveTls
        <5>2. m \in Requests \cup {None} /\ tlsKey \in Keys \cup {None} /\ tlsKey' # None
          BY <3>3, <5>1 DEF Received, ReceiveTls, TypeOK
        <5> QED BY <5>1, <5>2, KeyTypes
      <4> QED BY <3>3, <4>1, MapRead DEF ReceiveTls
    <3>4. CASE CloseTls(c)
      BY <3>4, <1>move DEF CloseTls
    <3> QED BY <2>4, MapServe, <3>1, <3>2, <3>3, <3>4 DEF TlsHandler
  <2> QED BY <1>https, <2>1, <2>2, <2>3, <2>4, <2>5 DEF HttpsThread
<1>clients. ASSUME NEW c \in Clients,
                   Connect(c) \/ Greet(c) \/ SendRequest(c) \/ HalfClose(c) \/ Leave(c)
            PROVE MapInv'
  <2>1. CASE Connect(c)
    <3>1. pc[c] = "none"
      BY <2>1 DEF Connect, OwnerInv, Stages
    <3> QED BY <2>1, <3>1, <1>move DEF Connect
  <2>2. CASE Greet(c) \/ SendRequest(c) \/ HalfClose(c) \/ Leave(c)
    BY <2>2, <1>same DEF Greet, SendRequest, HalfClose, Leave, handlerVars
  <2> QED BY <1>clients, <2>1, <2>2
<1> QED BY <1>unchanged, <1>main, <1>https, <1>http, <1>clients DEF Next

\* Only a request for a page that is missing puts the map all threads share at
\* risk: without one nothing is inserted, no two threads conflict in it, and every
\* preloaded page stays in reach; with one, until two threads conflict.
THEOREM PagesKept == Spec => []PagesSafe
<1>1. MapInv => PagesSafe
  BY DEF MapInv
<1> QED BY <1>1, MapInit, MapStep, Typing, Owner, Replies, PTL DEF Spec

-----------------------------------------------------------------------------
(* The server implements WebService. *)

PhaseOf(p) == IF p \in {"none", "queued"} THEN "waiting" ELSE IF p = "done" THEN "ended" ELSE "taken"

LEMMA ServiceInit == Init => Service!Init
<1> SUFFICES ASSUME Init PROVE Service!Init
  OBVIOUS
<1>1. /\ \A c \in Clients : pc[c] = "none" /\ conn[c] = "idle"
      /\ down = "no" /\ msg = [c \in Clients |-> None] /\ reply = [c \in Clients |-> <<>>]
  BY DEF Init
<1>2. \A c \in Clients : (conn[c] \in {"half", "gone"}) = FALSE
  BY <1>1
<1>3. [c \in Clients |-> conn[c] \in {"half", "gone"}] = [c \in Clients |-> FALSE]
  BY <1>2
<1> QED BY <1>1, <1>3 DEF Service!Init

\* A step the abstract service does not see.
LEMMA ServiceStutter ==
    ASSUME TypeOK, down' = down, UNCHANGED <<conn, msg, reply>>,
           \A c \in Clients : PhaseOf(pc'[c]) = PhaseOf(pc[c])
    PROVE  UNCHANGED Service!vars
BY DEF PhaseOf, Service!vars

LEMMA ServiceStep ==
    TypeOK /\ OwnerInv /\ ReplyInv /\ [Next]_vars => [Service!Next]_(Service!vars)
<1> SUFFICES ASSUME TypeOK, OwnerInv, ReplyInv, [Next]_vars PROVE [Service!Next]_(Service!vars)
  OBVIOUS
<1> USE ConstantsAssumption
<1>types. /\ pc \in [Clients -> Handling \cup {"none", "queued", "dispatch", "done"}]
          /\ msg \in [Clients -> Requests \cup {None}]
          /\ conn \in [Clients -> {"idle", "open", "half", "gone"}]
  BY DEF TypeOK
<1>unchanged. CASE UNCHANGED vars
  BY <1>unchanged DEF vars, handlerVars, clientVars, Service!vars
<1> SUFFICES ASSUME Next PROVE [Service!Next]_(Service!vars)
  BY <1>unchanged, Zenon
<1>up. down = "no"
  BY Zenon DEF Next, MainThread, Startup, StartupFails, Accept, AcceptFails, Scan, Spawn, ScanPastEnd,
         HttpsThread, HttpsOpen, HttpsAbort, HttpsAccept, HttpsAcceptFails, TlsHandler, Handshake,
         HandshakeBreaks, ReceiveTls, Greet, HalfClose,
         ReceiveTlsFaults, CloseTls, HttpHandler, Receive, ReceiveThrows, Close, Serve, Access,
         RacedAccess, Send, SendBreaks, Connect, SendRequest, Leave, Die
<1>die. ASSUME NEW cause \in {"startup", "tls", "accept", "throw", "sigpipe", "wild", "race"}, Die(cause)
        PROVE [Service!Next]_(Service!vars)
  BY <1>die, <1>up DEF Die, handlerVars, clientVars, Service!Next, Service!GoDown
<1>same. ASSUME UNCHANGED <<down, handlerVars, clientVars>> PROVE UNCHANGED Service!vars
  BY <1>same DEF handlerVars, clientVars, Service!vars
<1>move. ASSUME NEW c \in Clients, NEW v, pc' = [pc EXCEPT ![c] = v], PhaseOf(v) = PhaseOf(pc[c]),
                UNCHANGED <<down, conn, msg, reply>>
         PROVE UNCHANGED Service!vars
  <2>1. \A d \in Clients : PhaseOf(pc'[d]) = PhaseOf(pc[d])
    BY <1>move, <1>types
  <2> QED BY <1>move, <2>1, ServiceStutter
<1>take. ASSUME NEW c \in Clients, pc[c] = "queued", NEW v \in {"dispatch", "handshake"},
                pc' = [pc EXCEPT ![c] = v], UNCHANGED <<down, conn, msg, reply>>
         PROVE [Service!Next]_(Service!vars)
  <2>1. Service!Take(c)
    BY <1>take, <1>types DEF Service!Take
  <2> QED BY <1>up, <2>1 DEF Service!Next
<1>end. ASSUME NEW c \in Clients, pc[c] \in {"queued", "close"}, pc' = [pc EXCEPT ![c] = "done"],
               UNCHANGED <<down, conn, msg, reply>>
        PROVE [Service!Next]_(Service!vars)
  <2>1. Service!End(c)
    BY <1>end, <1>types DEF Service!End
  <2> QED BY <1>up, <2>1 DEF Service!Next
<1>connect. ASSUME NEW c \in Clients, Connect(c) PROVE UNCHANGED Service!vars
  <2>1. pc[c] = "none"
    BY <1>connect DEF Connect, OwnerInv, Stages
  <2>2. /\ conn[c] = "idle" /\ pc' = [pc EXCEPT ![c] = "queued"] /\ conn' = [conn EXCEPT ![c] = "open"]
        /\ UNCHANGED <<down, msg, reply>>
    BY <1>connect DEF Connect
  <2>3. /\ \A d \in Clients : PhaseOf(pc'[d]) = PhaseOf(pc[d])
        /\ \A d \in Clients : (conn'[d] \in {"half", "gone"}) = (conn[d] \in {"half", "gone"})
    BY <2>1, <2>2, <1>types DEF PhaseOf
  <2> QED BY <2>2, <2>3 DEF PhaseOf, Service!vars
<1>greet. ASSUME NEW c \in Clients, Greet(c) PROVE UNCHANGED Service!vars
  BY <1>greet, <1>same DEF Greet
<1>ask. ASSUME NEW c \in Clients, SendRequest(c) PROVE [Service!Next]_(Service!vars)
  <2>1. \E r \in Requests : msg' = [msg EXCEPT ![c] = r]
    BY <1>ask DEF SendRequest, RequestsOf, Requests
  <2>2. Service!Ask(c)
    BY <1>ask, <2>1 DEF SendRequest, handlerVars, Service!Ask
  <2> QED BY <1>up, <2>2 DEF Service!Next
<1>shut. ASSUME NEW c \in Clients, NEW v \in {"half", "gone"}, conn[c] \in {"open", "half"},
                conn' = [conn EXCEPT ![c] = v], UNCHANGED <<down, pc, msg, reply>>
         PROVE [Service!Next]_(Service!vars)
  <2>1. CASE conn[c] = "half"
    <3>1. \A d \in Clients : (conn'[d] \in {"half", "gone"}) = (conn[d] \in {"half", "gone"})
      BY <1>shut, <2>1, <1>types
    <3> QED BY <1>shut, <3>1 DEF Service!vars
  <2>2. CASE conn[c] = "open"
    <3>1. \A d \in Clients : (conn'[d] \in {"half", "gone"})
                               = IF d = c THEN TRUE ELSE (conn[d] \in {"half", "gone"})
      BY <1>shut, <1>types
    <3>2. Service!Shut(c)
      BY <1>shut, <2>2, <3>1 DEF Service!Shut
    <3> QED BY <1>up, <3>2 DEF Service!Next
  <2> QED BY <1>shut, <2>1, <2>2
<1>half. ASSUME NEW c \in Clients, HalfClose(c) PROVE [Service!Next]_(Service!vars)
  BY <1>half, <1>shut DEF HalfClose, handlerVars
<1>leave. ASSUME NEW c \in Clients, Leave(c) PROVE [Service!Next]_(Service!vars)
  BY <1>leave, <1>shut DEF Leave, handlerVars
<1>taken. ASSUME NEW p \in Ports, queue[p] # <<>>, queue' = [queue EXCEPT ![p] = Tail(@)],
                 NEW v \in {"dispatch", "handshake"},
                 pc' = [pc EXCEPT ![Head(queue[p])] = v],
                 UNCHANGED <<down, clientVars>>
          PROVE [Service!Next]_(Service!vars)
  <2>1. Head(queue[p]) \in Clients /\ pc[Head(queue[p])] = "queued"
    BY <1>taken, TakeHead
  <2> QED BY <1>taken, <2>1, <1>take DEF clientVars
<1>start. ASSUME acc = "dispatch", StartHandler, UNCHANGED <<down, clientVars>>
          PROVE UNCHANGED Service!vars
  <2>1. fdtab[clientSock] \in Clients /\ pc[fdtab[clientSock]] = "dispatch"
    BY <1>start DEF OwnerInv, Stages
  <2>2. pc' = [pc EXCEPT ![fdtab[clientSock]] = "recv"] /\ UNCHANGED <<down, conn, msg, reply>>
    BY <1>start DEF StartHandler, clientVars
  <2>3. PhaseOf("recv") = PhaseOf("dispatch")
    BY DEF PhaseOf
  <2>4. \A c \in Clients : pc[c] = "dispatch" /\ pc' = [pc EXCEPT ![c] = "recv"] => UNCHANGED Service!vars
    BY <2>2, <2>3, <1>move
  <2> QED BY <2>1, <2>2, <2>4
<1>main. ASSUME MainThread PROVE [Service!Next]_(Service!vars)
  <2>1. CASE Startup
    BY <2>1, <1>same DEF Startup
  <2>2. CASE StartupFails
    BY <2>2, <1>die DEF StartupFails
  <2>3. CASE Accept
    BY <2>3, <1>taken DEF Accept, Ports
  <2>4. CASE AcceptFails
    BY <2>4, <1>die DEF AcceptFails
  <2>5. CASE Scan
    BY <2>5, <1>same DEF Scan
  <2>6. CASE Spawn
    BY <2>6, <1>start DEF Spawn
  <2>7. CASE ScanPastEnd
    BY <2>7, <1>die, <1>start DEF ScanPastEnd
  <2> QED BY <1>main, <2>1, <2>2, <2>3, <2>4, <2>5, <2>6, <2>7 DEF MainThread
<1>serve. ASSUME NEW c \in Clients, Serve(c) PROVE [Service!Next]_(Service!vars)
  <2>1. CASE Access(c)
    BY <2>1, <1>move DEF Access, PhaseOf, clientVars
  <2>2. CASE RacedAccess(c)
    BY <2>2, <1>die, <1>move DEF RacedAccess, PhaseOf, clientVars
  <2>3. CASE Send(c)
    <3>1. /\ pc[c] = "send" /\ pc' = [pc EXCEPT ![c] = "close"]
          /\ UNCHANGED <<down, conn, msg>>
      BY <2>3 DEF Send
    <3>2. \A d \in Clients : PhaseOf(pc'[d]) = PhaseOf(pc[d])
      BY <3>1, <1>types DEF PhaseOf
    <3>3. CASE ~Reachable(c)
      BY <2>3, <3>1, <3>2, <3>3, SendReply, ServiceStutter
    <3>4. CASE Reachable(c)
      <4>1. /\ reply[c] = <<>> /\ reply' = [reply EXCEPT ![c] = <<key[c]>>]
            /\ Due(c, key[c]) /\ conn[c] \in {"open", "half"} /\ msg[c] \in Requests \cup {None}
        BY <2>3, <3>4, SendReply, <1>types DEF Reachable
      <4>2. /\ key[c] \in Loaded
            /\ \/ msg[c] # None /\ key[c] \in AnswersTo(c, msg[c])
               \/ msg[c] = None /\ conn[c] \in {"half", "gone"} /\ key[c] \in Service!Leftover(c)
        <5>1. CASE msg[c] # None
          BY <4>1, <5>1 DEF Due, Answers
        <5>2. CASE msg[c] = None
          <6>1. CASE c \in HttpClients
            BY <4>1, <5>2, <6>1 DEF Due, Service!Leftover
          <6>2. CASE c \notin HttpClients
            <7>1. PICK d \in HttpsClients : msg[d] # None /\ key[c] = TlsKeyOf(msg[d])
              BY <4>1, <5>2, <6>2 DEF Due, LeftInFrame, Clients
            <7>2. d \in Clients /\ d \notin HttpClients /\ msg[d] \in Requests
              BY <7>1, <1>types DEF Clients
            <7>3. key[c] \in AnswersTo(d, msg[d])
              BY <7>1, <7>2 DEF AnswersTo
            <7>4. key[c] \in Service!Leftover(c)
              BY <6>2, <7>1, <7>2, <7>3 DEF Service!Leftover
            <7> QED BY <4>1, <5>2, <7>4 DEF Due
          <6> QED BY <6>1, <6>2
        <5> QED BY <5>1, <5>2
      <4>3. Service!Answer(c)
        BY <3>1, <3>2, <4>1, <4>2, <1>types DEF PhaseOf, Service!Answer
      <4> QED BY <1>up, <4>3 DEF Service!Next
    <3> QED BY <3>3, <3>4
  <2>4. CASE SendBreaks(c)
    BY <2>4, <1>die DEF SendBreaks
  <2> QED BY <1>serve, <2>1, <2>2, <2>3, <2>4 DEF Serve
<1>http. ASSUME NEW c \in HttpClients, HttpHandler(c) PROVE [Service!Next]_(Service!vars)
  <2> c \in Clients
    BY DEF Clients
  <2>1. CASE Receive(c)
    BY <2>1, <1>move DEF Receive, PhaseOf, clientVars
  <2>2. CASE ReceiveThrows(c)
    BY <2>2, <1>die DEF ReceiveThrows
  <2>3. CASE Close(c)
    BY <2>3, <1>end DEF Close, clientVars
  <2> QED BY <1>http, <1>serve, <2>1, <2>2, <2>3 DEF HttpHandler
<1>https. ASSUME HttpsThread PROVE [Service!Next]_(Service!vars)
  <2>1. CASE HttpsOpen
    BY <2>1, <1>same DEF HttpsOpen
  <2>2. CASE HttpsAbort
    BY <2>2, <1>die DEF HttpsAbort
  <2>3. CASE HttpsAccept
    BY <2>3, <1>taken DEF HttpsAccept, Ports
  <2>5. CASE HttpsAcceptFails
    <3>1. /\ "https" \in Ports /\ queue["https"] # <<>> /\ queue' = [queue EXCEPT !["https"] = Tail(@)]
          /\ pc' = [pc EXCEPT ![Head(queue["https"])] = "done"]
          /\ UNCHANGED <<down, clientVars>>
      BY <2>5 DEF HttpsAcceptFails, Ports
    <3>2. Head(queue["https"]) \in Clients /\ pc[Head(queue["https"])] = "queued"
      BY <3>1, TakeHead
    <3> QED BY <3>1, <3>2, <1>end DEF clientVars
  <2>4. ASSUME NEW c \in HttpsClients, TlsHandler(c) PROVE [Service!Next]_(Service!vars)
    <3> c \in Clients
      BY DEF Clients
    <3>1. CASE Handshake(c)
      <4>1. PICK v \in {"recv", "close"} : pc' = [pc EXCEPT ![c] = v]
        BY <3>1 DEF Handshake
      <4> QED BY <3>1, <4>1, <1>move DEF Handshake, PhaseOf, clientVars
    <3>5. CASE HandshakeBreaks(c)
      BY <3>5, <1>die DEF HandshakeBreaks
    <3>2. CASE ReceiveTls(c)
      BY <3>2, <1>move DEF ReceiveTls, PhaseOf, clientVars
    <3>3. CASE ReceiveTlsFaults(c)
      BY <3>3, <1>die DEF ReceiveTlsFaults
    <3>4. CASE CloseTls(c)
      BY <3>4, <1>end DEF CloseTls, clientVars
    <3> QED BY <2>4, <1>serve, <3>1, <3>2, <3>3, <3>4, <3>5 DEF TlsHandler
  <2> QED BY <1>https, <2>1, <2>2, <2>3, <2>4, <2>5 DEF HttpsThread
<1> QED BY <1>main, <1>https, <1>http, <1>connect, <1>greet, <1>ask, <1>half, <1>leave DEF Next

\* The server, with its threads, reused descriptors and shared map, implements
\* the service that answers each client at most once, rightly if it asked, or
\* goes down.
THEOREM Implementation == Spec => ImplementsService
BY Typing, Owner, Replies, ServiceInit, ServiceStep, PTL DEF Spec, ImplementsService, Service!Spec
=============================================================================
