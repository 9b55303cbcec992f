------------------------------ MODULE MCSmbCopy ------------------------------
(* Small instances of SmbCopy for TLC. *)
EXTENDS SmbCopy
=============================================================================
