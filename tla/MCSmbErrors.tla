----------------------------- MODULE MCSmbErrors -----------------------------
(* Instances of SmbErrors for TLC. *)
EXTENDS SmbErrors
=============================================================================
