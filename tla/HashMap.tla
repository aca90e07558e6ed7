------------------------------ MODULE HashMap ------------------------------
(***************************************************************************)
(* The chained hash table of servlets (Hash.hh, Hash.cc).  A chain is a    *)
(* set of nodes: its order shows in nothing but time.                      *)
(***************************************************************************)
EXTENDS Integers, FiniteSets

CONSTANTS
    Urls, Servlets, None,
    Hash,       \* HashMap::hash, a function from Urls to numbers
    InitSize,   \* the constructor's argument, 50 unless given
    MaxSize     \* bound of the model: no growth beyond this many buckets

ASSUME HashMapAssumption ==
    /\ Hash \in [Urls -> Nat]
    /\ InitSize \in Nat \ {0}
    /\ MaxSize \in Nat
    /\ None \notin Servlets

VARIABLES
    size,   \* number of buckets
    v,      \* the buckets
    used,   \* number of nodes counted by add
    got     \* the last get and its answer

vars == <<size, v, used, got>>

Node == [str : Urls, servlet : Servlets]
Nodes == UNION {v[k] : k \in DOMAIN v}
Buckets(n) == 0..(n - 1)

Init ==
    /\ size = InitSize
    /\ v = [k \in Buckets(InitSize) |-> {}]
    /\ used = 0
    /\ got = None

\* Mutant: the hash reduced by the old size.
RehashedOld(n) == [k \in Buckets(n) |-> {x \in Nodes : Hash[x.str] % size = k}]

\* Each node moves to the bucket of its hash in a table of that many buckets.
Rehashed(n) == [k \in Buckets(n) |-> {x \in Nodes : Hash[x.str] % n = k}]

\* Mutant: growth of a full table.
CrowdedLate == used > size

\* Whether add calls grow before it looks for the url.
Crowded == 2 * used > size

Add(u, s) ==
    LET n == IF Crowded THEN 4 * size ELSE size
        w == IF Crowded THEN Rehashed(n) ELSE v
        k == Hash[u] % n
    IN  /\ n <= MaxSize
        /\ size' = n
        /\ IF \E x \in w[k] : x.str = u
           THEN v' = w /\ UNCHANGED used
           ELSE /\ v' = [w EXCEPT ![k] = @ \cup {[str |-> u, servlet |-> s]}]
                /\ used' = used + 1
        /\ UNCHANGED got

\* What a walk of the chain of u finds.
Found(u) ==
    LET hits == {x \in v[Hash[u] % size] : x.str = u}
    IN  IF hits = {} THEN None ELSE (CHOOSE x \in hits : TRUE).servlet

Get(u) ==
    /\ got' = <<u, Found(u)>>
    /\ UNCHANGED <<size, v, used>>

Next == \E u \in Urls : Get(u) \/ \E s \in Servlets : Add(u, s)

Spec == Init /\ [][Next]_vars

-----------------------------------------------------------------------------
TypeOK ==
    /\ size \in Nat \ {0}
    /\ v \in [Buckets(size) -> SUBSET Node]
    /\ used \in Nat
    /\ got \in {None} \cup (Urls \X (Servlets \cup {None}))

\* After any mixture of insertions and growths a node is where get looks for it.
Placed == \A k \in Buckets(size) : \A x \in v[k] : Hash[x.str] % size = k

\* No url has two nodes, in whichever chains: the growth that precedes the test
\* for a duplicate does not hide one.
OneNodeEach == \A x, y \in Nodes : x.str = y.str => x = y

\* used_ counts the nodes, and the table never gets more than half full by more
\* than the one node that makes it grow next time.
CountsNodes == used = Cardinality(Nodes) /\ 2 * used <= size + 2

\* The table of servlets it implements, for urls that hold no '?': the code compares a
\* url with all that stands in it, where Hash.hh:28-30 lets a lookup stop at the '?'.
Table == INSTANCE UrlTable WITH table <- [u \in Urls |-> Found(u)]
ImplementsTable == Table!Spec
=============================================================================
