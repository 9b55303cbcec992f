---------------------------- MODULE CopyContract ----------------------------
(***************************************************************************)
(* What StorageBackend::copy promises (krystallos-core, backend.rs), as    *)
(* one file that comes to stand at one name: it is made where nothing was, *)
(* it only ever holds a beginning of the source, a success is the whole of *)
(* it, and a failure is told when nothing of the copy is left.             *)
(*                                                                         *)
(* How the bytes travel is left open: SmbCopy is one way, with its         *)
(* round-trips, limits and second attempts.                                *)
(***************************************************************************)
EXTENDS Naturals, Sequences

CONSTANT MaxLen    \* bound: the longest source

VARIABLES
    faults,  \* what may go wrong in this behaviour
    source,  \* the file at `from`; a block is the number of its place
    name,    \* what `to` stands for: nothing, the copy's file, another's
    dest,    \* the file the copy makes
    held,    \* the copy holds its file open, and nobody else can take the name
    told     \* what the caller is told

vars == <<faults, source, name, dest, held, told>>

Beginning(n) == [i \in 1..n |-> i]

Copying == told.st = "none"

Init ==
    /\ faults \in SUBSET {"stat", "unlink", "others"}
    /\ \E n \in 0..MaxLen : source = Beginning(n)
    /\ name \in {"free", "theirs"}
    /\ dest = <<>>
    /\ held = FALSE
    /\ told = [st |-> "none", copied |-> 0]

\* Fails if the destination exists.
Create ==
    /\ Copying /\ ~held
    /\ name = "free" /\ name' = "ours"
    /\ held' = TRUE
    /\ UNCHANGED <<faults, source, dest, told>>

\* Only a source that shrinks meanwhile can leave more than there still is.
Grow ==
    /\ held
    /\ \E n \in (Len(dest) + 1)..MaxLen :
          /\ "others" \notin faults => n <= Len(source)
          /\ dest' = Beginning(n)
    /\ UNCHANGED <<faults, source, name, held, told>>

\* The count is of bytes that are there; it is all of them unless the size could
\* not be asked or the source changed.
Succeed ==
    /\ held /\ held' = FALSE
    /\ \E n \in 0..Len(dest) : told' = [st |-> "ok", copied |-> n]
    /\ faults \cap {"stat", "others"} = {} =>
          dest = source /\ told'.copied = Len(source)
    /\ UNCHANGED <<faults, source, name, dest>>

GiveUp ==
    /\ held /\ held' = FALSE
    /\ UNCHANGED <<faults, source, name, dest, told>>

Remove ==
    /\ Copying /\ ~held
    /\ name = "ours" /\ name' = "free"
    /\ UNCHANGED <<faults, source, dest, held, told>>

Fail ==
    /\ Copying /\ ~held
    /\ "unlink" \notin faults => name # "ours"
    /\ told' = [st |-> "err", copied |-> 0]
    /\ UNCHANGED <<faults, source, name, dest, held>>

\* Other clients truncate the source, and make or remove files at a name that
\* nobody holds.
Others ==
    /\ "others" \in faults
    /\ \/ /\ \E n \in 0..Len(source) : source' = SubSeq(source, 1, n)
          /\ UNCHANGED name
       \/ /\ ~held /\ name' \in {"free", "theirs"}
          /\ UNCHANGED source
    /\ UNCHANGED <<faults, dest, held, told>>

Next == Create \/ Grow \/ Succeed \/ GiveUp \/ Remove \/ Fail \/ Others

Spec == Init /\ [][Next]_vars
=============================================================================
