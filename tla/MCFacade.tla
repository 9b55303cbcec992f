------------------------------ MODULE MCFacade ------------------------------
(* Small instances of Facade for TLC. *)
EXTENDS Facade, TLC

CONSTANTS t1, t2, t3, f1, f2

Permuted == Permutations(Task)
=============================================================================
