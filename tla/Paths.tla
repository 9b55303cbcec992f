------------------------------- MODULE Paths -------------------------------
(***************************************************************************)
(* VfsPath of krystallos-core (path.rs): a place in a backend, as the      *)
(* sequence of names from its root.                                        *)
(*                                                                         *)
(* What the user or a server gave is the sequence of segments between its  *)
(* separators, which may be empty, "." or "..".  Every call makes a VfsPath*)
(* of it first; a path that climbs above the root is refused.              *)
(***************************************************************************)
EXTENDS Integers, Sequences, FiniteSets, SequencesExt

\* Result<VfsPath>
Path(p) == [ok |-> TRUE, segments |-> p]
InvalidPath == [ok |-> FALSE, segments |-> <<>>]

Root == <<>>

NextSegment_Clamps(path, s) ==
    IF s \in {"", "."} THEN path
    ELSE IF s # ".." THEN Path(Append(path.segments, s))
    ELSE IF path.segments = <<>> THEN path
    ELSE Path(Front(path.segments))

\* One round of the loop in VfsPath::new.
NextSegment(path, s) ==
    IF ~path.ok \/ s \in {"", "."} THEN path
    ELSE IF s # ".." THEN Path(Append(path.segments, s))
    ELSE IF path.segments = <<>> THEN InvalidPath
    ELSE Path(Front(path.segments))

\* VfsPath::new
Normalise(raw) == FoldLeft(NextSegment, Path(Root), raw)

\* VfsPath::join: ".." is refused, and so is a name that changes nothing.
Join(p, name) ==
    LET joined == Normalise(p \o name)
    IN  IF ".." \in Range(name) \/ joined = Path(p) THEN InvalidPath ELSE joined

\* VfsPath::parent: the root is its own.
Parent(p) == IF p = Root THEN Root ELSE Front(p)

\* VfsPath::file_name, of what is not the root
FileName(p) == Last(p)

-----------------------------------------------------------------------------
(* What they should come to *)

\* Names less ".." in the stretch from i to j.
Rise(raw, i, j) ==
    Cardinality({k \in i..j : raw[k] \notin {"", ".", ".."}})
      - Cardinality({k \in i..j : raw[k] = ".."})

Escapes(raw) == \E j \in DOMAIN raw : Rise(raw, 1, j) < 0

\* A name counts unless some later stretch takes it back.
Stays(raw, i) ==
    /\ raw[i] \notin {"", ".", ".."}
    /\ \A j \in i..Len(raw) : Rise(raw, i, j) > 0

Staying(raw) == {i \in DOMAIN raw : Stays(raw, i)}

\* Its place among those that stay
Rank(raw, i) == Cardinality({j \in Staying(raw) : j <= i})

Remaining(raw) ==
    [k \in 1..Cardinality(Staying(raw)) |->
        raw[CHOOSE i \in Staying(raw) : Rank(raw, i) = k]]

\* A path leads where walking its segments one by one from the root would, and it is
\* refused exactly if that walk leaves the root, also if it came back later.
LeadsWhereItSays(raw) ==
    Normalise(raw) = IF Escapes(raw) THEN InvalidPath ELSE Path(Remaining(raw))

\* Whatever name a server or a user supplies, joining it goes down: the result is
\* strictly below the path, and normalising what came out changes nothing.
JoinGoesDown(p, name) ==
    Join(p, name).ok =>
       /\ IsStrictPrefix(p, Join(p, name).segments)
       /\ Normalise(Join(p, name).segments) = Join(p, name)
       /\ Len(name) = 1 => Parent(Join(p, name).segments) = p
=============================================================================
