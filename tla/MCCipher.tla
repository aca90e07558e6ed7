------------------------------ MODULE MCCipher ------------------------------
(* Ints of eight bits: 4 * n wraps from 32 on, and is nothing again at 64. *)
EXTENDS Cipher

McNumbers == -8..70 \cup 120..127
=============================================================================
