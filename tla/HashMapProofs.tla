--------------------------- MODULE HashMapProofs ---------------------------
(***************************************************************************)
(* HashMap keeps each url once, where get looks for it, and implements     *)
(* UrlTable, for any hash function, initial size and bound.                *)
(***************************************************************************)
EXTENDS HashMap, FiniteSetTheorems, TLAPS

LEMMA ModRange == \A h \in Nat, n \in Nat \ {0} : h % n \in Buckets(n)
BY DEF Buckets

\* A node is in the bucket get would walk, and stays there if the table is
\* rebuilt with n buckets.
LEMMA RehashedNodes ==
    ASSUME TypeOK, NEW n \in Nat \ {0}
    PROVE  /\ Rehashed(n) \in [Buckets(n) -> SUBSET Node]
           /\ \A k \in Buckets(n) : \A x \in Rehashed(n)[k] : Hash[x.str] % n = k /\ x \in Nodes
           /\ UNION {Rehashed(n)[k] : k \in Buckets(n)} = Nodes
<1>1. Nodes \subseteq Node
  BY DEF TypeOK, Nodes
<1>2. \A x \in Nodes : Hash[x.str] % n \in Buckets(n)
  BY <1>1, ModRange, HashMapAssumption DEF Node
<1>3. \A k \in Buckets(n) : Rehashed(n)[k] = {x \in Nodes : Hash[x.str] % n = k}
  BY DEF Rehashed
<1>4. Rehashed(n) \in [Buckets(n) -> SUBSET Node]
  BY <1>1 DEF Rehashed
<1> QED BY <1>2, <1>3, <1>4

\* What add does, seen as the set of nodes: grow changes none of them, and one
\* is added unless the url has one.
Placement == TypeOK /\ Placed /\ OneNodeEach

LEMMA AddNodes ==
    ASSUME Placement, NEW u \in Urls, NEW s \in Servlets, Add(u, s)
    PROVE  /\ size' \in Nat \ {0}
           /\ v' \in [Buckets(size') -> SUBSET Node]
           /\ Placed'
           /\ IF \E x \in Nodes : x.str = u
              THEN Nodes' = Nodes /\ used' = used
              ELSE Nodes' = Nodes \cup {[str |-> u, servlet |-> s]} /\ used' = used + 1
<1> USE DEF Placement
<1> DEFINE n == IF Crowded THEN 4 * size ELSE size
           w == IF Crowded THEN Rehashed(n) ELSE v
           k == Hash[u] % n
           x0 == [str |-> u, servlet |-> s]
<1>1. n \in Nat \ {0} /\ size' = n
  BY DEF Add, TypeOK
<1>2. /\ w \in [Buckets(n) -> SUBSET Node]
      /\ \A j \in Buckets(n) : \A x \in w[j] : Hash[x.str] % n = j
      /\ UNION {w[j] : j \in Buckets(n)} = Nodes
  <2>1. CASE Crowded
    BY <1>1, <2>1, RehashedNodes
  <2>2. CASE ~Crowded
    <3>1. n = size /\ w = v
      BY <2>2
    <3>2. DOMAIN v = Buckets(size)
      BY DEF TypeOK
    <3> QED BY <3>1, <3>2 DEF TypeOK, Placed, Nodes
  <2> QED BY <2>1, <2>2
<1>3. k \in Buckets(n) /\ x0 \in Node
  BY <1>1, ModRange, HashMapAssumption DEF Node
<1>4. IF \E x \in w[k] : x.str = u
      THEN v' = w /\ used' = used
      ELSE v' = [w EXCEPT ![k] = @ \cup {x0}] /\ used' = used + 1
  BY DEF Add
<1> HIDE DEF n, w, k, x0
<1>5. (\E x \in Nodes : x.str = u) <=> (\E x \in w[k] : x.str = u)
  <2>1. w[k] \subseteq Nodes
    BY <1>2, <1>3
  <2>2. \A x \in Nodes : x.str = u => x \in w[k]
    BY <1>2 DEF k
  <2> QED BY <2>1, <2>2
<1>6. CASE \E x \in w[k] : x.str = u
  <2>1. v' = w /\ used' = used /\ DOMAIN v' = Buckets(n)
    BY <1>2, <1>4, <1>6
  <2>2. Nodes' = Nodes
    BY <1>2, <2>1 DEF Nodes
  <2> QED BY <1>1, <1>2, <1>5, <1>6, <2>1, <2>2 DEF Placed
<1>7. CASE ~ \E x \in w[k] : x.str = u
  <2>1. v' = [w EXCEPT ![k] = @ \cup {x0}] /\ used' = used + 1
    BY <1>4, <1>7
  <2>2. /\ v' \in [Buckets(n) -> SUBSET Node]
        /\ \A j \in Buckets(n) : v'[j] = IF j = k THEN w[k] \cup {x0} ELSE w[j]
    BY <1>2, <1>3, <2>1
  <2>3. DOMAIN v' = Buckets(n)
    BY <2>2
  <2>4. Nodes' = Nodes \cup {x0}
    BY <1>2, <1>3, <2>2, <2>3 DEF Nodes
  <2>5. \A j \in Buckets(n) : \A x \in v'[j] : Hash[x.str] % n = j
    BY <1>2, <2>2 DEF k, x0
  <2> QED BY <1>1, <1>5, <1>7, <2>1, <2>2, <2>4, <2>5 DEF Placed, x0
<1> QED BY <1>6, <1>7

\* What get finds, seen as the set of nodes.
FindsNodes ==
    \A u \in Urls :
        /\ \A x \in Nodes : x.str = u => Found(u) = x.servlet
        /\ (\A x \in Nodes : x.str # u) => Found(u) = None
        /\ Found(u) \in Servlets \cup {None}

LEMMA FoundNode == Placement => FindsNodes
<1> SUFFICES ASSUME Placement, NEW u \in Urls
             PROVE  /\ \A x \in Nodes : x.str = u => Found(u) = x.servlet
                    /\ (\A x \in Nodes : x.str # u) => Found(u) = None
                    /\ Found(u) \in Servlets \cup {None}
  BY DEF FindsNodes
<1> USE DEF Placement
<1> DEFINE h == Hash[u] % size
           hits == {x \in v[h] : x.str = u}
<1>1. h \in Buckets(size) /\ DOMAIN v = Buckets(size) /\ Nodes \subseteq Node
  BY ModRange, HashMapAssumption DEF TypeOK, Nodes
<1>2. hits = {x \in Nodes : x.str = u}
  <2>1. v[h] \subseteq Nodes
    BY <1>1 DEF Nodes
  <2>2. \A x \in Nodes : x.str = u => x \in v[h]
    BY <1>1 DEF Nodes, Placed
  <2> QED BY <2>1, <2>2
<1>3. Found(u) = IF hits = {} THEN None ELSE (CHOOSE x \in hits : TRUE).servlet
  BY DEF Found
<1> HIDE DEF hits
<1>4. ASSUME NEW x \in Nodes, x.str = u PROVE Found(u) = x.servlet /\ x.servlet \in Servlets
  <2>1. hits = {x}
    BY <1>2, <1>4 DEF OneNodeEach
  <2> QED BY <1>1, <1>3, <2>1 DEF Node
<1>5. (\A x \in Nodes : x.str # u) => Found(u) = None
  BY <1>2, <1>3
<1> QED BY <1>4, <1>5

LEMMA PlacementInit == Init => Placement
<1> SUFFICES ASSUME Init PROVE Placement
  OBVIOUS
<1>1. Nodes = {}
  BY DEF Init, Nodes
<1>2. TypeOK
  BY HashMapAssumption DEF Init, TypeOK
<1> QED BY <1>1, <1>2 DEF Init, Placement, Placed, OneNodeEach, Nodes

LEMMA PlacementStep == Placement /\ [Next]_vars => Placement'
<1> SUFFICES ASSUME Placement, [Next]_vars PROVE Placement'
  OBVIOUS
<1>1. ASSUME NEW u \in Urls, NEW s \in Servlets, Add(u, s) PROVE Placement'
  <2>1. TypeOK'
    BY <1>1, AddNodes DEF Placement, TypeOK, Add
  <2>2. OneNodeEach'
    BY <1>1, AddNodes DEF Placement, OneNodeEach
  <2> QED BY <1>1, <2>1, <2>2, AddNodes DEF Placement
<1>2. ASSUME NEW u \in Urls, Get(u) PROVE Placement'
  <2>1. Found(u) \in Servlets \cup {None}
    BY FoundNode DEF FindsNodes
  <2> QED BY <1>2, <2>1 DEF Get, Placement, TypeOK, Placed, OneNodeEach, Nodes
<1>3. CASE UNCHANGED vars
  BY <1>3 DEF vars, Placement, TypeOK, Placed, OneNodeEach, Nodes
<1> QED BY <1>1, <1>2, <1>3 DEF Next

THEOREM Placements == Spec => []Placement
BY PlacementInit, PlacementStep, PTL DEF Spec

\* A node is always in the bucket that get walks for its url.
THEOREM AlwaysPlaced == Spec => []Placed
BY Placements, PTL DEF Placement

\* No url ever has two nodes.
THEOREM AlwaysOneNode == Spec => []OneNodeEach
BY Placements, PTL DEF Placement

LEMMA TableStep == Placement /\ [Next]_vars => [Table!Next]_<<[u \in Urls |-> Found(u)], got>>
<1> SUFFICES ASSUME Placement, [Next]_vars
             PROVE  [Table!Next]_<<[u \in Urls |-> Found(u)], got>>
  OBVIOUS
<1>0. FindsNodes /\ FindsNodes'
  BY FoundNode, PlacementStep, PTL
<1>1. ASSUME NEW u \in Urls, NEW s \in Servlets, Add(u, s) PROVE Table!Add(u, s)
  <2> DEFINE x0 == [str |-> u, servlet |-> s]
  <2>1. Nodes \subseteq Node
    BY DEF Placement, TypeOK, Nodes
  <2>2. ASSUME NEW t \in Urls
        PROVE Found(t)' = IF t = u /\ Found(t) = None THEN s ELSE Found(t)
    <3>1. CASE \E x \in Nodes : x.str = t
      <4>1. PICK x \in Nodes : x.str = t
        BY <3>1
      <4>2. x \in Nodes'
        BY <1>1, <4>1, AddNodes
      <4>3. Found(t) = x.servlet /\ Found(t)' = x.servlet
        BY <1>0, <4>1, <4>2 DEF FindsNodes
      <4>4. Found(t) # None
        BY <2>1, <4>1, <4>3, HashMapAssumption DEF Node
      <4> QED BY <4>3, <4>4
    <3>2. CASE t = u /\ ~ \E x \in Nodes : x.str = t
      <4>1. x0 \in Nodes'
        BY <1>1, <3>2, AddNodes
      <4>2. Found(t)' = s
        BY <1>0, <3>2, <4>1 DEF FindsNodes
      <4> QED BY <1>0, <3>2, <4>2 DEF FindsNodes
    <3>3. CASE t # u /\ ~ \E x \in Nodes : x.str = t
      <4>1. \A x \in Nodes' : x.str # t
        BY <1>1, <3>3, AddNodes
      <4> QED BY <1>0, <3>3, <4>1 DEF FindsNodes
    <3> QED BY <3>1, <3>2, <3>3
  <2> QED BY <1>1, <2>2 DEF Table!Add, Add
<1>2. ASSUME NEW u \in Urls, Get(u) PROVE Table!Get(u)
  BY <1>2 DEF Get, Found, Table!Get
<1>3. CASE UNCHANGED vars
  BY <1>3 DEF vars, Found
<1> QED BY <1>1, <1>2, <1>3 DEF Next, Table!Next

\* Through every growth the table answers as a map that keeps the first servlet
\* added for each url.
THEOREM Implementation == Spec => ImplementsTable
<1>1. Init => Table!Init
  <2> SUFFICES ASSUME Init PROVE Table!Init
    OBVIOUS
  <2>1. Nodes = {} /\ Placement
    BY PlacementInit DEF Init, Nodes
  <2> QED BY <2>1, FoundNode DEF FindsNodes, Init, Table!Init
<1> QED BY <1>1, Placements, TableStep, PTL DEF Spec, ImplementsTable, Table!Spec

-----------------------------------------------------------------------------
Counted == IsFiniteSet(Nodes) /\ CountsNodes

LEMMA CountedStep == Placement /\ Counted /\ [Next]_vars => Counted'
<1> SUFFICES ASSUME Placement, Counted, [Next]_vars PROVE Counted'
  OBVIOUS
<1>1. ASSUME NEW u \in Urls, NEW s \in Servlets, Add(u, s) PROVE Counted'
  <2> DEFINE x0 == [str |-> u, servlet |-> s]
  <2>1. /\ size \in Nat \ {0} /\ used \in Nat /\ 2 * used <= size + 2
        /\ size' = IF 2 * used > size THEN 4 * size ELSE size
    BY <1>1 DEF Placement, TypeOK, Counted, CountsNodes, Add, Crowded
  <2>2. CASE \E x \in Nodes : x.str = u
    <3>1. Nodes' = Nodes /\ used' = used
      BY <1>1, <2>2, AddNodes
    <3>2. 2 * used <= size' + 2
      BY <2>1
    <3> QED BY <3>1, <3>2 DEF Counted, CountsNodes
  <2>3. CASE ~ \E x \in Nodes : x.str = u
    <3>1. Nodes' = Nodes \cup {x0} /\ x0 \notin Nodes /\ used' = used + 1
      BY <1>1, <2>3, AddNodes
    <3>2. 2 * (used + 1) <= size' + 2
      BY <2>1
    <3>3. IsFiniteSet(Nodes') /\ Cardinality(Nodes') = Cardinality(Nodes) + 1
      BY <3>1, FS_AddElement DEF Counted
    <3> QED BY <3>1, <3>2, <3>3 DEF Counted, CountsNodes
  <2> QED BY <2>2, <2>3
<1>2. ASSUME NEW u \in Urls, Get(u) PROVE Counted'
  BY <1>2 DEF Get, Counted, CountsNodes, Nodes
<1>3. CASE UNCHANGED vars
  BY <1>3 DEF vars, Counted, CountsNodes, Nodes
<1> QED BY <1>1, <1>2, <1>3 DEF Next

\* used_ counts the nodes, and chains stay short: the table is at most half full
\* but for one node.
THEOREM AlwaysCounted == Spec => []CountsNodes
<1>1. Init => Counted
  <2> SUFFICES ASSUME Init PROVE Counted
    OBVIOUS
  <2>1. Nodes = {} /\ used = 0 /\ size \in Nat
    BY HashMapAssumption DEF Init, Nodes
  <2> QED BY <2>1, FS_EmptySet DEF Counted, CountsNodes
<1>2. Counted => CountsNodes
  BY DEF Counted
<1> QED BY <1>1, <1>2, Placements, CountedStep, PTL DEF Spec
=============================================================================
