------------------------------ MODULE ReadAhead ------------------------------
(***************************************************************************)
(* The read-ahead decorator of krystallos-cache (lib.rs).                  *)
(*                                                                         *)
(* ReadAhead wraps a FileHandle and serves reads from one window that all  *)
(* tasks share.  The window is behind a mutex that is never held across an *)
(* await: a read looks at it, fetches outside the lock, publishes under    *)
(* it, and looks again.  A write goes to the wrapped handle first and      *)
(* empties the window afterwards.                                          *)
(*                                                                         *)
(* A step is one critical section of the mutex or one call of the wrapped  *)
(* handle, which takes effect at one instant.  A byte is the position it   *)
(* was written at and the number of the write that put it there: enough to *)
(* tell a byte of another position, or an old one, from the right one.     *)
(***************************************************************************)
EXTENDS Naturals, Sequences

CONSTANTS
    Task,          \* the tasks that use the handle
    WindowSize,    \* ReadAhead::window_size
    MaxLen,        \* bound: the longest file, and the last offset asked for
    Lens,          \* bound: the lengths the wrapped handle may report
    MaxWant,       \* bound: the largest buffer of a read
    MaxWrites,     \* bound: the number of write_at and set_len calls
    FailingWrites  \* whether a write may take effect and yet return an error

ASSUME BoundsAssumption ==
    /\ WindowSize \in Nat /\ MaxLen \in Nat /\ MaxWrites \in Nat
    /\ MaxWant \in Nat \ {0} /\ Lens \subseteq Nat
    /\ FailingWrites \in BOOLEAN

VARIABLES
    content,  \* the file, as the wrapped handle sees it
    len,      \* FileHandle::len of the wrapped handle: advisory, may be wrong
    closed,   \* the wrapped handle is closed
    writes,   \* the number of write_at and set_len calls so far
    window,   \* ReadAhead::state
    pc,       \* where each task is in its call
    off,      \* read_at: offset
    want,     \* read_at: buf.len()
    start,    \* fill: start
    got,      \* fill: what has been fetched
    eof,      \* fill: hit_eof
    overlap,  \* a write has overlapped a fetch, or has failed
    result,   \* what the read returned that ended with the last step, if one did
    past      \* what the file held at some moment of each task's call

handle == <<content, len, closed, writes>>
call == <<off, want, start, got, eof>>
vars == <<handle, window, pc, call, overlap, result, past>>

-----------------------------------------------------------------------------
(* The wrapped handle *)

Byte == [at : Nat, ver : Nat]
Contents == Seq(Byte)

Written(at, ver) == [at |-> at, ver |-> ver]

Least(a, b) == IF a <= b THEN a ELSE b

\* What a read of up to n bytes at offset may return: short reads are routine,
\* an empty one means the end of the file.
InnerReads(offset, n) ==
    LET avail == IF offset < Len(content) THEN Least(Len(content) - offset, n) ELSE 0
    IN  IF avail = 0 THEN {<<>>}
        ELSE {SubSeq(content, offset + 1, offset + k) : k \in 1..avail}

\* The file after a write of n bytes at offset: a gap is filled with zeros.
AfterWrite(offset, n) ==
    [i \in 1..(IF Len(content) > offset + n THEN Len(content) ELSE offset + n) |->
        IF i \in (offset + 1)..(offset + n) \/ i > Len(content)
        THEN Written(i - 1, writes + 1) ELSE content[i]]

AfterSetLen(n) ==
    [i \in 1..n |-> IF i <= Len(content) THEN content[i] ELSE Written(i - 1, writes + 1)]

-----------------------------------------------------------------------------
(* The window *)

Empty == [start |-> 0, data |-> <<>>, eof |-> FALSE]

End(w) == w.start + Len(w.data)

\* Window::covers, for n > 0
Covers(w, offset, n) ==
    /\ offset >= w.start
    /\ offset + n <= End(w) \/ w.eof

CopyOut_FromTheStart(w, offset, n) ==
    SubSeq(w.data, 1, Least(Len(w.data), n))

\* Window::copy_out
CopyOut(w, offset, n) ==
    LET from == Least(offset - w.start, Len(w.data))
    IN  SubSeq(w.data, from + 1, from + Least(Len(w.data) - from, n))

\* The window containing offset
Aligned(offset) == (offset \div WindowSize) * WindowSize

FetchLen_WholeFile(from) == IF len <= from THEN WindowSize ELSE len - from

\* How much fill asks for: remaining_from and the window size.
FetchLen(from) == IF len <= from THEN WindowSize ELSE Least(len - from, WindowSize)

-----------------------------------------------------------------------------

NoResult == [st |-> "none", off |-> 0, want |-> 0, data |-> <<>>, past |-> {}]

TypeOK ==
    /\ content \in Contents /\ len \in Nat
    /\ closed \in BOOLEAN /\ writes \in 0..MaxWrites
    /\ window \in [start : Nat, data : Contents, eof : BOOLEAN]
    /\ Len(window.data) <= WindowSize
    /\ pc \in [Task -> {"idle", "miss", "fetch", "publish", "serve", "through",
                        "fallback", "invalidate", "close"}]
    /\ off \in [Task -> Nat] /\ want \in [Task -> Nat] /\ start \in [Task -> Nat]
    /\ got \in [Task -> Contents] /\ eof \in [Task -> BOOLEAN]
    /\ overlap \in BOOLEAN
    /\ result \in [st : {"none", "ok", "err"}, off : Nat, want : Nat, data : Contents,
                    past : SUBSET Contents]
    /\ past \in [Task -> SUBSET Contents]

\* A file of any length, whatever the handle says its length is.
Init ==
    /\ \E n \in 0..MaxLen : content = [i \in 1..n |-> Written(i - 1, 0)]
    /\ len \in Lens
    /\ closed = FALSE
    /\ writes = 0
    /\ window = Empty
    /\ pc = [t \in Task |-> "idle"]
    /\ off = [t \in Task |-> 0]
    /\ want = [t \in Task |-> 0]
    /\ start = [t \in Task |-> 0]
    /\ got = [t \in Task |-> <<>>]
    /\ eof = [t \in Task |-> FALSE]
    /\ overlap = FALSE
    /\ result = NoResult
    /\ past = [t \in Task |-> {}]

-----------------------------------------------------------------------------
(* read_at *)

Goto(t, at) == pc' = [pc EXCEPT ![t] = at]

\* The read returns; the task forgets the call.
Done(t, st, data, o, n, seen) ==
    /\ result' = [st |-> st, off |-> o, want |-> n, data |-> data, past |-> seen]
    /\ past' = [past EXCEPT ![t] = {}]
    /\ off' = [off EXCEPT ![t] = 0]
    /\ want' = [want EXCEPT ![t] = 0]
    /\ start' = [start EXCEPT ![t] = 0]
    /\ got' = [got EXCEPT ![t] = <<>>]
    /\ eof' = [eof EXCEPT ![t] = FALSE]
    /\ Goto(t, "idle")

\* What a read that begins now may see: the file, and what writes under way have
\* replaced but not answered for yet.
Visible == {content} \cup UNION {past[u] : u \in {v \in Task : pc[v] = "invalidate"}}

Return(t, data) == Done(t, "ok", data, off[t], want[t], past[t])
Fail(t) == Done(t, "err", <<>>, off[t], want[t], past[t])

\* The fast path, under the lock; else a request no window can hold, and
\* everything when read-ahead is disabled, goes straight to the handle.
BeginRead(t, o, n) ==
    /\ pc[t] = "idle"
    /\ IF WindowSize > 0 /\ Covers(window, o, n)
       THEN Done(t, "ok", CopyOut(window, o, n), o, n, Visible)
       ELSE /\ Goto(t, IF n > WindowSize THEN "through" ELSE "miss")
            /\ off' = [off EXCEPT ![t] = o]
            /\ want' = [want EXCEPT ![t] = n]
            /\ past' = [past EXCEPT ![t] = Visible]
            /\ result' = NoResult
            /\ UNCHANGED <<start, got, eof>>
    /\ UNCHANGED <<handle, window, overlap>>

\* worth_fetching looks at the window again: another task may have replaced it.
DecideFetch(t) ==
    /\ pc[t] = "miss"
    /\ IF window.eof /\ off[t] >= End(window)
       THEN Goto(t, "through") /\ UNCHANGED start
       ELSE /\ Goto(t, "fetch")
            /\ start' = [start EXCEPT ![t] = Aligned(off[t])]
    /\ result' = NoResult
    /\ UNCHANGED <<handle, window, off, want, got, eof, overlap, past>>

FetchMore_ShortIsEnd(t) ==
    /\ pc[t] = "fetch" /\ ~closed
    /\ LET more == FetchLen(start[t]) - Len(got[t])
       IN  \E data \in InnerReads(start[t] + Len(got[t]), more) :
             /\ got' = [got EXCEPT ![t] = @ \o data]
             /\ eof' = [eof EXCEPT ![t] = Len(data) < more]
             /\ Goto(t, "publish")
    /\ result' = NoResult
    /\ UNCHANGED <<handle, window, off, want, start, overlap, past>>

FetchMore_UntilFull(t) ==
    /\ pc[t] = "fetch" /\ ~closed
    /\ LET more == FetchLen(start[t]) - Len(got[t])
       IN  \E data \in InnerReads(start[t] + Len(got[t]), more) :
             /\ got' = [got EXCEPT ![t] = @ \o data]
             /\ Goto(t, IF Len(data) < more THEN "fetch" ELSE "publish")
    /\ result' = NoResult
    /\ UNCHANGED <<handle, window, off, want, start, eof, overlap, past>>

\* One round of the loop in fill: it ends when the window is full or the handle
\* has nothing more.
FetchMore(t) ==
    /\ pc[t] = "fetch" /\ ~closed
    /\ LET more == FetchLen(start[t]) - Len(got[t])
       IN  \E data \in InnerReads(start[t] + Len(got[t]), more) :
             /\ got' = [got EXCEPT ![t] = @ \o data]
             /\ eof' = [eof EXCEPT ![t] = data = <<>>]
             /\ Goto(t, IF data = <<>> \/ Len(data) = more THEN "publish" ELSE "fetch")
    /\ result' = NoResult
    /\ UNCHANGED <<handle, window, off, want, start, overlap, past>>

\* The window fill fetched replaces the one that is there, under the lock.
Publish(t) ==
    /\ pc[t] = "publish"
    /\ window' = [start |-> start[t], data |-> got[t], eof |-> eof[t]]
    /\ Goto(t, "serve")
    /\ result' = NoResult
    /\ UNCHANGED <<handle, call, overlap, past>>

\* Look again: another task may have published or emptied the window meanwhile.
Serve(t) ==
    /\ pc[t] = "serve"
    /\ IF Covers(window, off[t], want[t])
       THEN Return(t, CopyOut(window, off[t], want[t]))
       ELSE Goto(t, "fallback") /\ result' = NoResult /\ UNCHANGED <<call, past>>
    /\ UNCHANGED <<handle, window, overlap>>

\* read_through
ReadThrough(t) ==
    /\ pc[t] = "through" /\ ~closed
    /\ \E data \in InnerReads(off[t], want[t]) : Return(t, data)
    /\ UNCHANGED <<handle, window, overlap>>

\* The direct read at the end of read_at.
Fallback(t) ==
    /\ pc[t] = "fallback" /\ ~closed
    /\ \E data \in InnerReads(off[t], want[t]) : Return(t, data)
    /\ UNCHANGED <<handle, window, overlap>>

\* The wrapped handle fails, as it always does once it is closed.
ReadFails(t) ==
    /\ pc[t] \in {"fetch", "through", "fallback"}
    /\ Fail(t)
    /\ UNCHANGED <<handle, window, overlap>>

-----------------------------------------------------------------------------
(* write_at, set_len, close *)

\* A window is being fetched.
Fetching == \E t \in Task : pc[t] \in {"fetch", "publish"}

\* The wrapped handle's file becomes c; the calls under way may see it.  The
\* writer's own call goes on if its bytes are still to be taken off the window.
Change(t, c, goesOn) ==
    /\ content' = c
    /\ writes' = writes + 1
    /\ past' = [u \in Task |-> IF u = t THEN (IF goesOn THEN {content, c} ELSE {})
                               ELSE IF past[u] = {} THEN {} ELSE past[u] \cup {c}]
    /\ UNCHANGED <<len, closed>>

Modified == {AfterWrite(o, n) : o \in 0..(MaxLen - 1), n \in 1..2} \cup
            {AfterSetLen(n) : n \in 0..MaxLen}

\* inner.write_at or inner.set_len took effect ...
Write(t) ==
    /\ pc[t] = "idle" /\ ~closed
    /\ writes < MaxWrites
    /\ \E c \in Modified : Len(c) <= MaxLen /\ Change(t, c, TRUE)
    /\ Goto(t, "invalidate")
    /\ overlap' = (overlap \/ Fetching)
    /\ result' = NoResult
    /\ UNCHANGED <<window, call>>

\* ... and returned an error all the same: the call returns it and no more.
WriteFails(t) ==
    /\ FailingWrites
    /\ pc[t] = "idle" /\ ~closed
    /\ writes < MaxWrites
    /\ \E c \in Modified : Len(c) <= MaxLen /\ Change(t, c, FALSE)
    /\ overlap' = TRUE
    /\ result' = NoResult
    /\ UNCHANGED <<window, pc, call>>

Invalidate(t) ==
    /\ pc[t] = "invalidate"
    /\ window' = Empty
    /\ Goto(t, "idle")
    /\ past' = [past EXCEPT ![t] = {}]
    /\ result' = NoResult
    /\ UNCHANGED <<handle, call, overlap>>

\* close empties the window ...
BeginClose(t) ==
    /\ pc[t] = "idle"
    /\ window' = Empty
    /\ Goto(t, "close")
    /\ result' = NoResult
    /\ UNCHANGED <<handle, call, overlap, past>>

\* ... and closes the wrapped handle.
Close(t) ==
    /\ pc[t] = "close"
    /\ closed' = TRUE
    /\ Goto(t, "idle")
    /\ result' = NoResult
    /\ UNCHANGED <<content, len, writes, window, call, overlap, past>>

-----------------------------------------------------------------------------

\* What a call under way does next.
Proceed(t) ==
    \/ DecideFetch(t) \/ FetchMore(t) \/ Publish(t) \/ Serve(t)
    \/ ReadThrough(t) \/ Fallback(t) \/ ReadFails(t)
    \/ Invalidate(t) \/ Close(t)

Next ==
    \E t \in Task :
       \/ \E o \in 0..MaxLen, n \in 1..MaxWant : BeginRead(t, o, n)
       \/ Write(t) \/ WriteFails(t) \/ BeginClose(t)
       \/ Proceed(t)

Spec == Init /\ [][Next]_vars

\* The wrapped handle answers in the end, and a future that can go on is polled.
Fairness == \A t \in Task : WF_vars(Proceed(t))

FairSpec == Spec /\ Fairness

-----------------------------------------------------------------------------
(* What a read returns *)

\* Every byte is the byte of its position, whatever window it came from and
\* however windows were replaced meanwhile.
RightPositions ==
    \A i \in 1..Len(result.data) : result.data[i].at = result.off + i - 1

\* What a read returns was in the file while the read ran: no byte that had been
\* overwritten before it began, none from beyond an end the file had all along,
\* and "nothing there" only if the file did end there.
ReadsAreCurrent ==
    result.st = "ok" =>
       /\ \A i \in 1..Len(result.data) :
             \E c \in result.past : /\ result.off + i <= Len(c)
                                   /\ c[result.off + i] = result.data[i]
       /\ result.data = <<>> => \E c \in result.past : Len(c) <= result.off

\* Only a write that overlaps a fetch, or fails, can make it otherwise: readers
\* cannot do it to each other by replacing the window, nor can short reads, a wrong
\* length, or a write that finds a window there.
CurrentUnlessOverlapped == overlap \/ ReadsAreCurrent

\* Every call ends, also when the file is shorter than the handle says.
EveryCallEnds == \A t \in Task : []<>(pc[t] = "idle")
=============================================================================
