------------------------------- MODULE SmbCopy -------------------------------
(***************************************************************************)
(* One copy of one file on an SMB share (copy_file in krystallos-smb,      *)
(* actor.rs), with the server it talks to and the share's other clients.   *)
(*                                                                         *)
(* The server is asked to move the bytes itself, a chunk at a time, and    *)
(* tells its limit by refusing a larger chunk.  If it cannot, the bytes go *)
(* through this process.  A copy that fails removes what it has made.      *)
(*                                                                         *)
(* A step is one round-trip.  Sizes are counted in blocks: a block is the  *)
(* number of its place in the source, so that a block in the wrong place   *)
(* shows.  What the server answers is a choice: any limit, any number of   *)
(* blocks up to the one asked for, an error at any point.                  *)
(***************************************************************************)
EXTENDS Naturals, Sequences

CONSTANTS
    ChunkBytes,    \* COPY_CHUNK_BYTES, in blocks
    MaxLen         \* bound: the longest source

ASSUME SizesAssumption == ChunkBytes \in Nat \ {0} /\ MaxLen \in Nat

VARIABLES
    faults,   \* what may go wrong in this behaviour
    pc,       \* where copy_file is
    source,   \* the source on the server
    dest,     \* the file this copy created
    name,     \* what the destination's name stands for on the server
    size,     \* copy_file: size
    offset,   \* how far the loop under way has come
    chunk,    \* copy_server_side: chunk_bytes
    read,     \* copy_through_here: what is left to write of the buffer
    srcOpen,  \* FhGuard of the source
    dstOpen,  \* FhGuard of the destination
    outcome   \* what the caller is told

server == <<source, dest, name, faults>>
local == <<size, offset, chunk, read>>
guards == <<srcOpen, dstOpen>>
vars == <<pc, server, local, guards, outcome>>

-----------------------------------------------------------------------------

\* smb2_fstat fails; smb2_unlink fails; other clients truncate the source, or use
\* the destination's name while this copy has no file open there.
Faults == {"stat", "unlink", "others"}

Least(a, b) == IF a <= b THEN a ELSE b

Outcomes == [st : {"none", "ok", "err"}, copied : Nat]
Running == [st |-> "none", copied |-> 0]
Failed == [st |-> "err", copied |-> 0]
Copied(n) == [st |-> "ok", copied |-> n]

\* dest after blocks `from + 1 .. from + n` of the source were written to the
\* same place.  The loops leave no gap.
Moved(from, n) ==
    [i \in 1..(IF from + n > Len(dest) THEN from + n ELSE Len(dest)) |->
        IF i > from /\ i <= from + n THEN source[i] ELSE dest[i]]

TypeOK ==
    /\ faults \subseteq Faults
    /\ pc \in {"open", "stat", "create", "key", "chunk", "read", "write",
               "drop", "unlink", "leave", "done"}
    /\ source \in Seq(Nat) /\ dest \in Seq(Nat)
    /\ name \in {"free", "ours", "theirs"}
    /\ size \in 0..MaxLen
    /\ offset \in 0..size
    /\ chunk \in 1..ChunkBytes
    /\ read \in Seq(Nat) /\ Len(read) <= ChunkBytes
    /\ srcOpen \in BOOLEAN /\ dstOpen \in BOOLEAN
    /\ outcome \in Outcomes

Init ==
    /\ faults \in SUBSET Faults
    /\ pc = "open"
    /\ \E n \in 0..MaxLen : source = [i \in 1..n |-> i]
    /\ dest = <<>>
    /\ name \in {"free", "theirs"}
    /\ size = 0 /\ offset = 0 /\ chunk = ChunkBytes /\ read = <<>>
    /\ srcOpen = FALSE /\ dstOpen = FALSE
    /\ outcome = Running

-----------------------------------------------------------------------------
(* copy_file, up to the choice of a way *)

OpenSource ==
    /\ pc = "open"
    /\ \/ srcOpen' = TRUE /\ pc' = "stat" /\ UNCHANGED outcome
       \/ outcome' = Failed /\ pc' = "done" /\ UNCHANGED srcOpen
    /\ UNCHANGED <<server, local, dstOpen>>

\* A failing fstat makes the size zero.
StatSource ==
    /\ pc = "stat"
    /\ \/ size' = Len(source)
       \/ "stat" \in faults /\ size' = 0
    /\ pc' = "create"
    /\ UNCHANGED <<server, offset, chunk, read, guards, outcome>>

\* O_CREAT | O_EXCL: a name that is taken is an error.  An empty source needs
\* nothing more.
CreateDest ==
    /\ pc = "create"
    /\ \/ /\ name = "free"
          /\ name' = "ours" /\ dstOpen' = TRUE
          /\ IF size = 0 THEN outcome' = Copied(0) /\ pc' = "leave"
                         ELSE pc' = "key" /\ UNCHANGED outcome
       \/ outcome' = Failed /\ pc' = "leave" /\ UNCHANGED <<name, dstOpen>>
    /\ UNCHANGED <<source, dest, faults, local, srcOpen>>

-----------------------------------------------------------------------------
(* copy_server_side *)

\* classify_copy_failure: the server cannot do it at all, and the bytes go
\* through here from the start, or it is an error.
ServerSideFails ==
    \/ /\ pc' = "read" /\ offset' = 0 /\ UNCHANGED outcome
    \/ /\ pc' = "drop" /\ outcome' = Failed /\ UNCHANGED offset

ResumeKey ==
    /\ pc = "key"
    /\ \/ pc' = "chunk" /\ UNCHANGED <<offset, outcome>>
       \/ ServerSideFails
    /\ UNCHANGED <<server, size, chunk, read, guards>>

\* COPYCHUNK succeeded: it moved all or part of the chunk.
ChunkMoved ==
    /\ pc = "chunk"
    /\ \E n \in 1..Least(chunk, size - offset) :
          /\ offset + n <= Len(source)
          /\ dest' = Moved(offset, n)
          /\ offset' = offset + n
          /\ IF offset' = size THEN outcome' = Copied(offset') /\ pc' = "leave"
                               ELSE UNCHANGED <<pc, outcome>>
    /\ UNCHANGED <<source, name, faults, size, chunk, read, guards>>

\* It succeeded and moved nothing.
ChunkOfNothing ==
    /\ pc = "chunk"
    /\ pc' = "drop" /\ outcome' = Failed
    /\ UNCHANGED <<server, local, guards>>

ChunkRefused_TakesAnyLimit ==
    /\ pc = "chunk"
    /\ \E limit \in 0..(ChunkBytes + 1) :
          IF limit > 0 /\ limit <= ChunkBytes
          THEN chunk' = limit /\ UNCHANGED <<pc, offset, outcome>>
          ELSE ServerSideFails /\ UNCHANGED chunk
    /\ UNCHANGED <<server, size, read, guards>>

ChunkRefused_TakesZero ==
    /\ pc = "chunk"
    /\ \E limit \in 0..(ChunkBytes + 1) :
          IF limit < chunk
          THEN chunk' = limit /\ UNCHANGED <<pc, offset, outcome>>
          ELSE ServerSideFails /\ UNCHANGED chunk
    /\ UNCHANGED <<server, size, read, guards>>

\* It failed: a limit below the chunk tried is adopted, anything else is final.
ChunkRefused ==
    /\ pc = "chunk"
    /\ \E limit \in 0..(ChunkBytes + 1) :
          IF limit > 0 /\ limit < chunk
          THEN chunk' = limit /\ UNCHANGED <<pc, offset, outcome>>
          ELSE ServerSideFails /\ UNCHANGED chunk
    /\ UNCHANGED <<server, size, read, guards>>

-----------------------------------------------------------------------------
(* copy_through_here *)

\* smb2_pread: some bytes, or none because the source has shrunk and what was
\* copied is all there is.
ReadHere ==
    /\ pc = "read"
    /\ LET most == Least(Least(ChunkBytes, size - offset),
                         IF offset < Len(source) THEN Len(source) - offset ELSE 0)
       IN  IF most = 0
           THEN outcome' = Copied(offset) /\ pc' = "leave" /\ UNCHANGED read
           ELSE /\ \E n \in 1..most : read' = SubSeq(source, offset + 1, offset + n)
                /\ pc' = "write" /\ UNCHANGED outcome
    /\ UNCHANGED <<server, size, offset, chunk, guards>>

WriteHere_OnceOnly ==
    /\ pc = "write"
    /\ \E n \in 1..Len(read) :
          /\ dest' = [i \in 1..(IF offset + n > Len(dest) THEN offset + n ELSE Len(dest)) |->
                         IF i > offset /\ i <= offset + n THEN read[i - offset] ELSE dest[i]]
          /\ offset' = offset + Len(read)
          /\ read' = <<>>
    /\ IF offset' = size THEN outcome' = Copied(offset') /\ pc' = "leave"
                         ELSE pc' = "read" /\ UNCHANGED outcome
    /\ UNCHANGED <<source, name, faults, size, chunk, guards>>

\* smb2_pwrite of what is left of the buffer; it may take less.
WriteHere ==
    /\ pc = "write"
    /\ \E n \in 1..Len(read) :
          /\ dest' = [i \in 1..(IF offset + n > Len(dest) THEN offset + n ELSE Len(dest)) |->
                         IF i > offset /\ i <= offset + n THEN read[i - offset] ELSE dest[i]]
          /\ offset' = offset + n
          /\ read' = SubSeq(read, n + 1, Len(read))
    /\ IF read' # <<>> THEN UNCHANGED <<pc, outcome>>
       ELSE IF offset' = size THEN outcome' = Copied(offset') /\ pc' = "leave"
       ELSE pc' = "read" /\ UNCHANGED outcome
    /\ UNCHANGED <<source, name, faults, size, chunk, guards>>

\* smb2_pread is negative, or smb2_pwrite is not positive.
HereFails ==
    /\ pc \in {"read", "write"}
    /\ outcome' = Failed
    /\ pc' = "drop"
    /\ UNCHANGED <<server, local, guards>>

-----------------------------------------------------------------------------
(* The way out *)

\* The destination's guard goes before the unlink.
DropDest ==
    /\ pc = "drop"
    /\ dstOpen' = FALSE
    /\ pc' = "unlink"
    /\ UNCHANGED <<server, local, srcOpen, outcome>>

\* smb2_unlink takes whatever file has the name; its result is not looked at.
Unlink ==
    /\ pc = "unlink"
    /\ \/ name' = "free"
       \/ "unlink" \in faults /\ UNCHANGED name
    /\ pc' = "leave"
    /\ UNCHANGED <<source, dest, faults, local, guards, outcome>>

\* The guards that are left close their handles.
Leave ==
    /\ pc = "leave"
    /\ srcOpen' = FALSE /\ dstOpen' = FALSE
    /\ pc' = "done"
    /\ UNCHANGED <<server, local, outcome>>

-----------------------------------------------------------------------------
(* The other clients of the share *)

TruncateSource ==
    /\ "others" \in faults
    /\ \E n \in 0..Len(source) : n # Len(source) /\ source' = SubSeq(source, 1, n)
    /\ UNCHANGED <<pc, dest, name, faults, local, guards, outcome>>

\* Somebody creates, replaces or deletes the file at the destination's name.
UseName ==
    /\ "others" \in faults
    /\ ~dstOpen
    /\ name' \in {"free", "theirs"} \ {name}
    /\ UNCHANGED <<pc, source, dest, faults, local, guards, outcome>>

-----------------------------------------------------------------------------

CopyNext ==
    \/ OpenSource \/ StatSource \/ CreateDest
    \/ ResumeKey \/ ChunkMoved \/ ChunkOfNothing \/ ChunkRefused
    \/ ReadHere \/ WriteHere \/ HereFails
    \/ DropDest \/ Unlink \/ Leave

Finished == pc = "done" /\ UNCHANGED vars

Next == CopyNext \/ TruncateSource \/ UseName \/ Finished

Spec == Init /\ [][Next]_vars

\* Every round-trip ends, by libsmb2's timeout at the latest.
FairSpec == Spec /\ WF_vars(CopyNext)

-----------------------------------------------------------------------------

\* A copy that succeeds has copied the whole source and says how much it was.
SuccessIsWhole == outcome.st = "ok" => dest = source /\ outcome.copied = Len(source)

\* The caller is told when the guards are gone.
Contract == INSTANCE CopyContract WITH
    held <- dstOpen,
    told <- IF pc = "done" THEN outcome ELSE Running

\* A copy is what StorageBackend::copy promises: the round-trips, the short transfers,
\* the limits and the second attempt show to nobody.  What was at the destination
\* stays, every block is in its place, success is the whole and failure leaves nothing,
\* unless fstat or unlink fails or others meddle.
KeepsContract == Contract!Spec

\* A copy ends whatever limits the server asks for: each one it adopts is smaller.
CopyEnds == <>(pc = "done")
=============================================================================
