---------------------------- MODULE MCNamespace ----------------------------
(* Small instances of Namespace for TLC. *)
EXTENDS Namespace, TLC

CONSTANTS t1, t2, i1, i2, i3, i4

MCLocation == {<<>>, <<"a">>, <<"b">>, <<"a", "a">>, <<"b", "a">>}

\* Up to two segments, with and without a detour.
MCRaws == UNION {[1..n -> {".", "..", "a", "b"}] : n \in 0..2}

Flags(r, w, c, n, t) == [read |-> r, write |-> w, create |-> c, create_new |-> n, truncate |-> t]

\* write_only, write_only truncating, create_exclusive truncating, and reading with
\* create_new or truncate.
MCRequests == {Flags(FALSE, TRUE, TRUE, FALSE, FALSE), Flags(FALSE, TRUE, TRUE, FALSE, TRUE),
               Flags(FALSE, TRUE, TRUE, TRUE, TRUE), Flags(TRUE, FALSE, FALSE, TRUE, FALSE),
               Flags(TRUE, FALSE, FALSE, FALSE, TRUE)}

Permuted == Permutations(Task) \cup Permutations(Inode)
=============================================================================
