------------------------------ MODULE UrlTable ------------------------------
(***************************************************************************)
(* What a table of servlets by url promises: the first servlet added for a *)
(* url is kept, and a lookup answers it, or None.                          *)
(***************************************************************************)
CONSTANTS Urls, Servlets, None

VARIABLES
    table,   \* the servlet of each url, or None
    got      \* the last lookup and its answer

Init ==
    /\ table = [u \in Urls |-> None]
    /\ got = None

Add(u, s) ==
    /\ table' = [table EXCEPT ![u] = IF @ = None THEN s ELSE @]
    /\ UNCHANGED got

Get(u) ==
    /\ got' = <<u, table[u]>>
    /\ UNCHANGED table

Next == \E u \in Urls : Get(u) \/ \E s \in Servlets : Add(u, s)

Spec == Init /\ [][Next]_<<table, got>>
=============================================================================
