---------------------------- MODULE MCSmbSession ----------------------------
(* A small instance of SmbSession for TLC. *)
EXTENDS SmbSession

CONSTANTS t1, t2, f1, f2, h1, h2
=============================================================================
