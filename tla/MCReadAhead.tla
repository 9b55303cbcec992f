----------------------------- MODULE MCReadAhead -----------------------------
(* Small instances of ReadAhead for TLC. *)
EXTENDS ReadAhead, TLC

CONSTANTS t1, t2

Permuted == Permutations(Task)
=============================================================================
