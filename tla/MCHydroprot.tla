---------------------------- MODULE MCHydroprot ----------------------------
(* Three clients for Hydroprot. *)
EXTENDS Hydroprot

CONSTANTS c1, c2, c3
=============================================================================
