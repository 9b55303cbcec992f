------------------------------ MODULE Transfer ------------------------------
(***************************************************************************)
(* The commands of the command line (krystallos-cli, commands.rs).  get    *)
(* and put read a file from one side and write it to the other, a buffer   *)
(* at a time; ls, stat, mkdir, rm, rmdir and mv make one call.             *)
(*                                                                         *)
(* Either side may transfer less than asked for, and any call may fail.    *)
(* Whatever happens, the handle is dropped and the session shut down, and  *)
(* the outcome is the first thing that went wrong.                         *)
(*                                                                         *)
(* A byte of the destination is the position in the source it was read     *)
(* from, or 0 if it was there before or fills a gap.                       *)
(***************************************************************************)
EXTENDS Naturals, Sequences, Paths

CONSTANTS
    BufLen,  \* --chunk for get, CHUNK for put
    MaxLen,  \* bound: the longest source
    Args     \* bound: the paths on the command line

\* get with an empty buffer reads nothing and calls it the end of the file.
ASSUME BufLenAssumption == BufLen \in Nat \ {0} /\ MaxLen \in Nat

\* Whatever text is typed, in segments.
ASSUME ArgsAssumption == Args \subseteq Seq(STRING)

VARIABLES
    job,        \* "get", "put"; "ask" for ls and stat, "change" for mkdir, rm, rmdir and mv
    arg,        \* a path on the command line, in segments
    asked,      \* the places the backend has been called about
    source,     \* the length of the source
    disturbed,  \* somebody has changed it during the transfer
    input,      \* whether the source is open
    dest,       \* the destination's bytes
    handle,     \* the FileHandle on the backend
    session,    \* the backend's session
    buf,        \* what has been read and not been written yet
    cursor,     \* put: where the next read of the local file begins
    offset,     \* offset
    pc,
    work,       \* the outcome of the async block
    outcome     \* what finish returns

command == <<job, arg>>
world == <<source, disturbed>>
loop == <<buf, cursor, offset>>
vars == <<command, asked, world, input, dest, handle, session, loop, pc, work, outcome>>

Least(a, b) == IF a <= b THEN a ELSE b

Positions(from, n) == [i \in 1..n |-> from + i]

\* A destination that is there already.
Old == <<0, 0>>

\* What parse makes of the path.
Place == Normalise(arg)

TypeOK ==
    /\ job \in {"get", "put", "ask", "change"} /\ arg \in Args
    /\ asked \subseteq {Place.segments} /\ source \in 0..MaxLen
    /\ {disturbed, input} \subseteq BOOLEAN
    /\ dest \in Seq(0..MaxLen)
    /\ handle \in {"none", "open", "closed", "dropped"} /\ session \in {"up", "down"}
    /\ buf \in Seq(1..MaxLen) /\ Len(buf) <= BufLen
    /\ cursor \in 0..MaxLen /\ offset \in 0..MaxLen
    /\ pc \in {"call", "print", "source", "open", "create", "read", "write", "flush", "close",
               "drop", "shutdown", "done"}
    /\ work \in {"none", "ok", "failed"}
    /\ outcome \in {"none", "ok", "work failed", "shutdown failed"}

\* The session is connected.  (bound: only a transfer has a source, and only of a path
\* of at most one segment)
Init ==
    /\ job \in {"get", "put", "ask", "change"} /\ arg \in Args /\ asked = {}
    /\ disturbed = FALSE
    /\ IF job \in {"get", "put"}
       THEN Len(arg) <= 1 /\ source \in 0..MaxLen /\ dest \in {<<>>, Old} /\ pc = "source"
       ELSE source = 0 /\ dest = <<>> /\ pc = "call"
    /\ input = FALSE
    /\ handle = "none" /\ session = "up"
    /\ buf = <<>> /\ cursor = 0 /\ offset = 0
    /\ work = "none" /\ outcome = "none"

\* What cannot be parsed is told before any call.
Refused ==
    /\ pc \in {"call", "source"} /\ ~Place.ok
    /\ work' = "failed"
    /\ pc' = "drop"
    /\ UNCHANGED <<command, asked, world, input, dest, handle, session, loop, outcome>>

\* The one call, inside the block whose outcome finish gets.
Change ==
    /\ pc = "call" /\ job = "change"
    /\ Place.ok /\ asked' = {Place.segments}
    /\ work' = "ok"
    /\ pc' = "drop"
    /\ UNCHANGED <<command, world, input, dest, handle, session, loop, outcome>>

Ask ==
    /\ pc = "call" /\ job = "ask"
    /\ Place.ok /\ asked' = {Place.segments}
    /\ pc' = "print"
    /\ UNCHANGED <<command, world, input, dest, handle, session, loop, work, outcome>>

\* To stdout, which may fail as well.
Show ==
    /\ pc = "print"
    /\ work' = "ok"
    /\ pc' = "drop"
    /\ UNCHANGED <<command, asked, world, input, dest, handle, session, loop, outcome>>

-----------------------------------------------------------------------------
(* Opening both sides *)

\* The local destination is truncated before the remote file is known to open.
CheckSource_CreatesFirst ==
    /\ pc = "source"
    /\ Place.ok /\ asked' = IF job = "get" THEN {Place.segments} ELSE asked
    /\ input' = (job = "put")
    /\ dest' = IF job = "get" THEN <<>> ELSE dest
    /\ pc' = "open"
    /\ UNCHANGED <<command, world, handle, session, loop, work, outcome>>

\* Both parse the path.  get stats it and refuses a directory; put opens the local file.
CheckSource ==
    /\ pc = "source"
    /\ Place.ok /\ asked' = IF job = "get" THEN {Place.segments} ELSE asked
    /\ input' = (job = "put")
    /\ pc' = "open"
    /\ UNCHANGED <<command, world, dest, handle, session, loop, work, outcome>>

\* get opens the remote file for reading, put creates or truncates it.
OpenHandle ==
    /\ pc = "open"
    /\ asked' = {Place.segments}
    /\ handle' = "open"
    /\ input' = TRUE
    /\ dest' = IF job = "put" THEN <<>> ELSE dest
    /\ pc' = IF job = "get" THEN "create" ELSE "read"
    /\ UNCHANGED <<command, world, session, loop, work, outcome>>

\* get: File::create(dest)
CreateDest ==
    /\ pc = "create"
    /\ dest' = <<>>
    /\ pc' = "read"
    /\ UNCHANGED <<command, asked, world, input, handle, session, loop, work, outcome>>

-----------------------------------------------------------------------------
(* The loops *)

\* Where the next byte is read: get reads at offset, put where the file's own cursor is.
At == IF job = "get" THEN offset ELSE cursor

\* A length seen before decides when the loop ends.
ReadSome_UntilLength ==
    /\ pc = "read"
    /\ IF MaxLen <= At \/ Len(buf) = BufLen
       THEN pc' = (IF buf = <<>> THEN "flush" ELSE "write") /\ UNCHANGED <<buf, cursor>>
       ELSE \E k \in 0..Least(source - At, BufLen - Len(buf)) :
              /\ buf' = buf \o Positions(At, k)
              /\ cursor' = IF job = "put" THEN cursor + k ELSE cursor
              /\ pc' = IF job = "get" /\ k > 0 THEN "write" ELSE "read"
    /\ UNCHANGED <<command, asked, world, input, dest, handle, session, offset, work, outcome>>

\* Every read of the local file asks for a whole buffer.
ReadSome_AsksForAll ==
    /\ pc = "read"
    /\ IF source <= At \/ Len(buf) >= BufLen
       THEN pc' = (IF buf = <<>> THEN "flush" ELSE "write") /\ UNCHANGED <<buf, cursor>>
       ELSE \E k \in 1..Least(source - At, BufLen) :
              /\ buf' = buf \o Positions(At, k)
              /\ cursor' = IF job = "put" THEN cursor + k ELSE cursor
              /\ pc' = IF job = "get" THEN "write" ELSE "read"
    /\ UNCHANGED <<command, asked, world, input, dest, handle, session, offset, work, outcome>>

\* get: read_at, until it returns nothing.  put: read until the buffer is full or read
\* returns nothing, and the loop ends when the buffer stayed empty.
ReadSome ==
    /\ pc = "read"
    /\ IF source <= At \/ Len(buf) = BufLen
       THEN pc' = (IF buf = <<>> THEN "flush" ELSE "write") /\ UNCHANGED <<buf, cursor>>
       ELSE \E k \in 1..Least(source - At, BufLen - Len(buf)) :
              /\ buf' = buf \o Positions(At, k)
              /\ cursor' = IF job = "put" THEN cursor + k ELSE cursor
              /\ pc' = IF job = "get" THEN "write" ELSE "read"
    /\ UNCHANGED <<command, asked, world, input, dest, handle, session, offset, work, outcome>>

\* dest with the bytes data written at offset at
Placed(data, at) ==
    [i \in 1..(IF Len(dest) > at + Len(data) THEN Len(dest) ELSE at + Len(data)) |->
        IF i > at /\ i <= at + Len(data) THEN data[i - at]
        ELSE IF i <= Len(dest) THEN dest[i] ELSE 0]

\* The rest of the buffer is taken from its beginning again.
WriteSome_FromTheStart ==
    /\ pc = "write"
    /\ \E k \in 1..Len(buf) :
         /\ dest' = Placed(SubSeq(buf, 1, k), offset)
         /\ buf' = SubSeq(buf, 1, Len(buf) - k)
         /\ offset' = offset + k
         /\ pc' = IF k = Len(buf) THEN "read" ELSE "write"
    /\ UNCHANGED <<command, asked, world, input, handle, session, cursor, work, outcome>>

\* A short write loses the rest of the buffer.
WriteSome_Once ==
    /\ pc = "write"
    /\ \E k \in 1..Len(buf) :
         /\ dest' = Placed(SubSeq(buf, 1, k), offset)
         /\ offset' = offset + k
    /\ buf' = <<>>
    /\ pc' = "read"
    /\ UNCHANGED <<command, asked, world, input, handle, session, cursor, work, outcome>>

\* The first k bytes of the buffer reach the destination.  put writes the rest at the
\* next offset; get's write_all is one call of as many writes as it takes.
WriteSome ==
    /\ pc = "write"
    /\ \E k \in 1..Len(buf) :
         /\ job = "get" => k = Len(buf)
         /\ dest' = Placed(SubSeq(buf, 1, k), offset)
         /\ buf' = SubSeq(buf, k + 1, Len(buf))
         /\ offset' = offset + k
         /\ pc' = IF k = Len(buf) THEN "read" ELSE "write"
    /\ UNCHANGED <<command, asked, world, input, handle, session, cursor, work, outcome>>

Flush ==
    /\ pc = "flush"
    /\ pc' = "close"
    /\ UNCHANGED <<command, asked, world, input, dest, handle, session, loop, work, outcome>>

\* handle.close, after which dropping the handle does nothing more.
Close ==
    /\ pc = "close"
    /\ handle' = "closed"
    /\ work' = "ok"
    /\ pc' = "drop"
    /\ UNCHANGED <<command, asked, world, input, dest, session, loop, outcome>>

\* Some call fails, and its error leaves the block.  A write may have taken effect in
\* part, or in full if only its answer is lost; put takes a write of nothing for a
\* failure, and a close that fails has closed as far as the handle is concerned.
Fail ==
    /\ work = "none" /\ Place.ok
    /\ \/ pc = "write" /\ \E k \in 0..Len(buf) : dest' = Placed(SubSeq(buf, 1, k), offset)
       \/ pc = "open" /\ job = "put" /\ dest' = <<>>
       \/ UNCHANGED dest
    /\ handle' = IF pc = "close" THEN "closed" ELSE handle
    /\ work' = "failed"
    /\ pc' = "drop"
    /\ UNCHANGED <<command, asked, world, input, session, loop, outcome>>

-----------------------------------------------------------------------------
(* The end *)

\* The block's locals are dropped: a handle that was not closed queues its close.
DropHandle ==
    /\ pc = "drop"
    /\ handle' = IF handle = "open" THEN "dropped" ELSE handle
    /\ pc' = "shutdown"
    /\ UNCHANGED <<command, asked, world, input, dest, session, loop, work, outcome>>

\* A failure would return before the shutdown.
Finish_OnlyOnSuccess ==
    /\ pc = "shutdown"
    /\ session' = IF work = "ok" THEN "down" ELSE session
    /\ outcome' = IF work = "ok" THEN "ok" ELSE "work failed"
    /\ pc' = "done"
    /\ UNCHANGED <<command, asked, world, input, dest, handle, loop, work>>

\* finish: the session is shut down whatever the outcome, and the work's error is the one
\* reported if both fail.
Finish ==
    /\ pc = "shutdown"
    /\ session' = "down"
    /\ \E ends \in {"ok", "shutdown failed"} :
         outcome' = IF work = "failed" THEN "work failed" ELSE ends
    /\ pc' = "done"
    /\ UNCHANGED <<command, asked, world, input, dest, handle, loop, work>>

\* Another process or client truncates or extends the source, once.
Disturb ==
    /\ job \in {"get", "put"} /\ pc # "done" /\ ~disturbed
    /\ disturbed' = TRUE
    /\ source' \in 0..MaxLen
    /\ UNCHANGED <<command, asked, input, dest, handle, session, loop, pc, work, outcome>>

\* The program is over.
Finished == pc = "done" /\ UNCHANGED vars

Work ==
    \/ Refused \/ Change \/ Ask \/ Show \/ CheckSource \/ OpenHandle \/ CreateDest
    \/ ReadSome \/ WriteSome \/ Flush \/ Close
    \/ DropHandle \/ Finish

Next == Work \/ Fail \/ Disturb \/ Finished

Spec == Init /\ [][Next]_vars

\* Every call is answered, by libsmb2's timeout at the latest.
FairSpec == Spec /\ WF_vars(Work)

-----------------------------------------------------------------------------

\* A transfer that reports success has moved every byte, in order and nothing else,
\* however short the reads and writes: unless the source changed meanwhile.
SuccessIsWhole == outcome = "ok" /\ job \in {"get", "put"} /\ ~disturbed => dest = Positions(0, source)

\* At every moment, also after a failure or over a source that changes, the destination
\* is what it was or holds the source's bytes from the first on, each in its place.
EachByteInPlace == dest \in {<<>>, Old} \/ dest = Positions(0, Len(dest))

\* What cannot be read is not downloaded over a file that is there: the destination is
\* untouched until the source is open.
SourceBeforeDest == [][dest' # dest => input']_vars

\* The session does not outlive the transfer, nor a handle the session, whichever call
\* failed.
NothingLeftOpen == pc = "done" => session = "down" /\ handle # "open"

\* Whatever text a path is given as, the backend is called about the place a walk of
\* its segments leads to, and about none if the walk leaves the root, even if it came
\* back later; no other path is refused.  A path in two parts that are joined goes down
\* from the first.
PathsLeadWhereTheySay ==
    /\ LeadsWhereItSays(arg)
    /\ asked # {} => asked = {Remaining(arg)} /\ ~Escapes(arg)
    /\ \A k \in 0..Len(arg) :
          LET base == Normalise(SubSeq(arg, 1, k)) IN
          base.ok => JoinGoesDown(base.segments, SubSeq(arg, k + 1, Len(arg)))

\* Also a source that shrinks or was never as long as reported comes to an end.
TransferEnds == <>(outcome # "none")
=============================================================================
