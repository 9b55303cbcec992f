----------------------------- MODULE MCTransfer -----------------------------
(* A small instance of Transfer for TLC. *)
EXTENDS Transfer

\* Up to four segments of each kind there is.
MCArgs == UNION {[1..n -> {"", ".", "..", "a", "b"}] : n \in 0..4}
=============================================================================
