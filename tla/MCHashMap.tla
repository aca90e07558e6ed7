----------------------------- MODULE MCHashMap -----------------------------
(* Values for the constants of HashMap: collisions before and after growth.   *)
(* No url has a query: a lookup that met one would have to stop at the '?'    *)
(* (Hash.hh:28-30), and the code compares the whole string.                   *)
EXTENDS HashMap

McUrls == {"a", "b", "c", "d", "e", "f"}
McHash == [u \in McUrls |->
    CASE u = "a" -> 1 [] u = "b" -> 3 [] u = "c" -> 9 [] u = "d" -> 0 [] u = "e" -> 4
      [] u = "f" -> 6]
=============================================================================
