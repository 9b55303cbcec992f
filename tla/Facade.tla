------------------------------- MODULE Facade -------------------------------
(***************************************************************************)
(* The FFI facade of krystallos-ffi (lib.rs): a Session and the            *)
(* RemoteFiles opened from it, called from Kotlin by several tasks at once.*)
(*                                                                         *)
(* The objects are shared without a lock.  What keeps calls apart is a     *)
(* closed flag in each, read or swapped once when a call begins, and the   *)
(* cached length of a file, which is updated once after the backend has    *)
(* answered.  A step is one of these accesses together with what the call  *)
(* does up to its await, or the moment the backend executes a request.     *)
(*                                                                         *)
(* The backend is one of two.  An SMB session ends when it is shut down or *)
(* loses its connection, and its files' handles with it; a local directory *)
(* has no session to end, and closing a local handle does nothing: the     *)
(* file is closed when the last reference goes, which is not modelled.     *)
(***************************************************************************)
EXTENDS Integers

CONSTANTS
    Task,    \* the tasks that call the facade
    File,    \* the RemoteFile objects, each of a file of its own
    MaxLen   \* bound: the longest file, and the end of the furthest request

ASSUME MaxLenAssumption == MaxLen \in Nat

TheSession == "session"

\* What is settled is told apart by its name.
ASSUME FileAssumption == TheSession \notin File

VARIABLES
    backend,    \* "smb" or "local", chosen by the URI connected to
    disconnected, \* Session.closed
    gone,       \* the SMB session has ended
    handle,     \* each file's handle at the backend
    released,   \* RemoteFile.closed
    size,       \* how long each file is
    len,        \* RemoteFile.len
    pc,         \* where each task is in its call
    args,       \* what it was called with, and what came of it so far
    answer,     \* what the read returned that ended with the last step, if one did
    closes,     \* how often each file's handle was asked to close
    shutdowns,  \* how often the backend was asked to shut down
    settled,    \* files and sessions whose release or disconnect did its work and returned Ok
    known       \* files whose length the facade has had every chance to know

session == <<backend, disconnected, gone, shutdowns>>
files == <<handle, released, closes>>
lengths == <<size, len, known>>
vars == <<session, files, lengths, pc, args, answer, settled>>

NoArgs == [f |-> TheSession, off |-> 0, n |-> 0, got |-> 0, least |-> 0, exact |-> FALSE]
NoAnswer == NoArgs

Larger(a, b) == IF a >= b THEN a ELSE b

Call == [f : File \cup {TheSession}, off : 0..MaxLen, n : 0..MaxLen, got : 0..MaxLen,
         least : 0..MaxLen, exact : BOOLEAN]

TypeOK ==
    /\ backend \in {"smb", "local"} /\ disconnected \in BOOLEAN /\ gone \in BOOLEAN
    /\ handle \in [File -> {"none", "open", "closed"}]
    /\ released \in [File -> BOOLEAN]
    /\ size \in [File -> 0..MaxLen] /\ len \in [File -> 0..MaxLen]
    /\ pc \in [Task -> {"idle", "open", "read", "write", "wrote", "set_len", "resized",
                        "close", "shutdown"}]
    /\ args \in [Task -> Call] /\ answer \in Call
    /\ answer.got <= answer.n /\ \A t \in Task : args[t].got <= args[t].n
    /\ closes \in [File -> Nat] /\ shutdowns \in Nat
    /\ settled \subseteq File \cup {TheSession} /\ known \subseteq File

\* Kernel::connect
Init ==
    /\ backend \in {"smb", "local"}
    /\ disconnected = FALSE /\ gone = FALSE /\ shutdowns = 0
    /\ handle = [f \in File |-> "none"]
    /\ released = [f \in File |-> FALSE]
    /\ closes = [f \in File |-> 0]
    /\ size = [f \in File |-> 0] /\ len = [f \in File |-> 0]
    /\ pc = [t \in Task |-> "idle"]
    /\ args = [t \in Task |-> NoArgs]
    /\ answer = NoAnswer
    /\ settled = {} /\ known = File

-----------------------------------------------------------------------------
(* A call from its first check to its return *)

Begin(t, at, a) ==
    /\ pc[t] = "idle"
    /\ pc' = [pc EXCEPT ![t] = at]
    /\ args' = [args EXCEPT ![t] = a]
    /\ answer' = NoAnswer

Goto(t, at) ==
    /\ pc' = [pc EXCEPT ![t] = at]
    /\ answer' = NoAnswer

Returns(t) ==
    /\ pc' = [pc EXCEPT ![t] = "idle"]
    /\ args' = [args EXCEPT ![t] = NoArgs]

Return(t) == Returns(t) /\ answer' = NoAnswer

\* The backend has the handle and executes requests on it.
Usable(f) == handle[f] = "open" /\ ~gone

\* An opened file and its handle; a call that finds the file released fails at once.
CanUse(f) == handle[f] # "none" /\ ~released[f]

\* A call that finds the flag set asks the backend nothing: disconnect and release
\* return Ok, every other call fails as closed.
RefusedAtOnce(t) ==
    /\ pc[t] = "idle"
    /\ disconnected \/ \E f \in File : released[f]
    /\ answer' = NoAnswer
    /\ UNCHANGED <<session, files, lengths, pc, args, settled>>

\* The backend fails a request without any effect.  It always does once the session
\* or the handle is gone.
Fails(t) ==
    /\ pc[t] \in {"open", "read", "write", "set_len", "close"}
    /\ Return(t)
    /\ UNCHANGED <<session, files, lengths, settled>>

-----------------------------------------------------------------------------
(* Opening *)

\* open: ensure_open, and the request.
CallOpen(t) ==
    /\ ~disconnected
    /\ Begin(t, "open", NoArgs)
    /\ UNCHANGED <<session, files, lengths, settled>>

\* The backend opens the file, and RemoteFile::new takes its length from the new
\* handle, which knows none if the SMB fstat fails.
Opened(t, f) ==
    /\ pc[t] = "open" /\ ~gone
    /\ handle[f] = "none"
    /\ handle' = [handle EXCEPT ![f] = "open"]
    /\ \E n \in 0..MaxLen :
         /\ size' = [size EXCEPT ![f] = n]
         /\ \/ len' = [len EXCEPT ![f] = n] /\ UNCHANGED known
            \/ backend = "smb" /\ len' = [len EXCEPT ![f] = 0] /\ known' = known \ {f}
    /\ Return(t)
    /\ UNCHANGED <<session, released, closes, settled>>

-----------------------------------------------------------------------------
(* Reading *)

\* read_at, and read_exact_at, which fails where read_at stops short.
CallRead(t, f, o, n, exact) ==
    /\ CanUse(f)
    /\ Begin(t, "read", [f |-> f, off |-> o, n |-> n, got |-> 0, least |-> size[f],
                         exact |-> exact])
    /\ UNCHANGED <<session, files, lengths, settled>>

ReadReturns(t, got) ==
    /\ Returns(t)
    /\ answer' = IF got < args[t].n /\ args[t].exact THEN NoAnswer
                 ELSE [args[t] EXCEPT !.got = got]

\* Every round asks for the whole buffer.
ReadMore_AsksForAll(t) ==
    /\ pc[t] = "read"
    /\ LET a == args[t]
           left == size[a.f] - (a.off + a.got)
       IN  /\ Usable(a.f)
           /\ IF left <= 0
              THEN ReadReturns(t, a.got)
              ELSE \E k \in 1..a.n :
                     /\ k <= left
                     /\ args' = [args EXCEPT ![t].got = a.got + k]
                     /\ Goto(t, "read")
    /\ UNCHANGED <<session, files, lengths, settled>>

\* A short read taken for the end of the file.
ReadMore_StopsShort(t) ==
    /\ pc[t] = "read"
    /\ LET a == args[t]
           left == size[a.f] - (a.off + a.got)
       IN  /\ Usable(a.f)
           /\ IF left <= 0
              THEN ReadReturns(t, a.got)
              ELSE \E k \in 0..(a.n - a.got) : k <= left /\ ReadReturns(t, a.got + k)
    /\ UNCHANGED <<session, files, lengths, settled>>

\* One round of the loop.  A backend may return short at any place, and returns
\* nothing only at or past the end.
ReadMore(t) ==
    /\ pc[t] = "read"
    /\ LET a == args[t]
           left == size[a.f] - (a.off + a.got)
       IN  /\ Usable(a.f)
           /\ IF left <= 0
              THEN ReadReturns(t, a.got)
              ELSE \E k \in 1..(a.n - a.got) :
                     /\ k <= left
                     /\ IF a.got + k = a.n
                        THEN ReadReturns(t, a.n)
                        ELSE /\ args' = [args EXCEPT ![t].got = a.got + k]
                             /\ Goto(t, "read")
    /\ UNCHANGED <<session, files, lengths, settled>>

-----------------------------------------------------------------------------
(* Writing and set_len *)

\* Other tasks' calls under way that change the length of f.
Resizing(t, f) == {u \in Task \ {t} : args[u].f = f /\ pc[u] \in {"set_len", "resized"}}
Writing(t, f) == {u \in Task \ {t} : args[u].f = f /\ pc[u] \in {"write", "wrote"}}

CallWrite(t, f, o, n) ==
    /\ CanUse(f)
    /\ Begin(t, "write", [NoArgs EXCEPT !.f = f, !.off = o, !.n = n])
    /\ known' = IF Resizing(t, f) # {} THEN known \ {f} ELSE known
    /\ UNCHANGED <<session, files, size, len, settled>>

CallSetLen(t, f, n) ==
    /\ CanUse(f)
    /\ Begin(t, "set_len", [NoArgs EXCEPT !.f = f, !.n = n])
    /\ known' = IF Resizing(t, f) \cup Writing(t, f) # {} THEN known \ {f} ELSE known
    /\ UNCHANGED <<session, files, size, len, settled>>

\* The file is n long now, and the reads under way have seen that.
Resize(f, n) == size' = [size EXCEPT ![f] = n]

SeenBy(f, n) ==
    [u \in Task |-> IF pc[u] = "read" /\ args[u].f = f /\ n < args[u].least
                    THEN [args[u] EXCEPT !.least = n] ELSE args[u]]

\* The backend accepts the first k bytes: none only of an empty write, which asks
\* neither the SMB server nor the file.
Writes(t, k) ==
    LET a == args[t]
    IN  /\ pc[t] = "write"
        /\ \/ a.n = 0 /\ k = 0 /\ UNCHANGED size
           \/ k \in 1..a.n /\ Usable(a.f) /\ Resize(a.f, Larger(size[a.f], a.off + k))
        /\ args' = [args EXCEPT ![t].got = k]

Write(t) ==
    /\ \E k \in 0..args[t].n : Writes(t, k)
    /\ known' = IF args[t].n = 0 /\ args[t].off > size[args[t].f]
                 THEN known \ {args[t].f} ELSE known
    /\ Goto(t, "wrote")
    /\ UNCHANGED <<session, files, len, settled>>

SetLen(t) ==
    LET a == args[t]
    IN  /\ pc[t] = "set_len" /\ Usable(a.f)
        /\ Resize(a.f, a.n)
        /\ args' = SeenBy(a.f, a.n)
        /\ Goto(t, "resized")
        /\ UNCHANGED <<session, files, len, known, settled>>

\* The request takes effect and its answer is lost: to the caller it failed.
AnswerLost(t) ==
    LET a == args[t]
    IN  /\ backend = "smb" /\ pc[t] \in {"write", "set_len"} /\ Usable(a.f)
        /\ \/ pc[t] = "write" /\ \E k \in 1..a.n : Resize(a.f, Larger(size[a.f], a.off + k))
              /\ args' = [args EXCEPT ![t] = NoArgs]
           \/ pc[t] = "set_len" /\ Resize(a.f, a.n)
              /\ args' = [SeenBy(a.f, a.n) EXCEPT ![t] = NoArgs]
        /\ known' = known \ {a.f}
        /\ pc' = [pc EXCEPT ![t] = "idle"]
        /\ answer' = NoAnswer
        /\ UNCHANGED <<session, files, len, settled>>

\* A plain store: the write that answers last has the last word.
WriteReturns_Stores(t) ==
    LET f == args[t].f
    IN  /\ pc[t] = "wrote"
        /\ len' = [len EXCEPT ![f] = args[t].off + args[t].got]
        /\ Return(t)
        /\ UNCHANGED <<session, files, size, known, settled>>

\* len.fetch_max(offset + n)
WriteReturns(t) ==
    LET f == args[t].f
    IN  /\ pc[t] = "wrote"
        /\ len' = [len EXCEPT ![f] = Larger(@, args[t].off + args[t].got)]
        /\ Return(t)
        /\ UNCHANGED <<session, files, size, known, settled>>

\* len.store(n)
SetLenReturns(t) ==
    LET f == args[t].f
    IN  /\ pc[t] = "resized"
        /\ len' = [len EXCEPT ![f] = args[t].n]
        /\ Return(t)
        /\ UNCHANGED <<session, files, size, known, settled>>

-----------------------------------------------------------------------------
(* Releasing and disconnecting *)

Release_LoadsTheFlag(t, f) ==
    /\ handle[f] # "none"
    /\ released' = [released EXCEPT ![f] = TRUE]
    /\ closes' = [closes EXCEPT ![f] = @ + 1]
    /\ Begin(t, "close", [NoArgs EXCEPT !.f = f])
    /\ UNCHANGED <<session, handle, lengths, settled>>

\* release: closed.swap(true).  Whoever finds it set returns Ok at once.
Release(t, f) ==
    /\ handle[f] # "none" /\ ~released[f]
    /\ released' = [released EXCEPT ![f] = TRUE]
    /\ closes' = [closes EXCEPT ![f] = @ + 1]
    /\ Begin(t, "close", [NoArgs EXCEPT !.f = f])
    /\ UNCHANGED <<session, handle, lengths, settled>>

\* The backend closes the handle: SMB with a round-trip, unless the session is gone and
\* the handle with it; a local handle's close does nothing.  Any other error is Fails.
Closed(t) ==
    LET f == args[t].f
    IN  /\ pc[t] = "close"
        /\ handle' = IF backend = "smb" THEN [handle EXCEPT ![f] = "closed"] ELSE handle
        /\ settled' = settled \cup {f}
        /\ Return(t)
        /\ UNCHANGED <<session, released, closes, lengths>>

\* disconnect: closed.swap(true).  Whoever finds it set returns Ok at once.
Disconnect(t) ==
    /\ ~disconnected
    /\ disconnected' = TRUE
    /\ shutdowns' = shutdowns + 1
    /\ Begin(t, "shutdown", NoArgs)
    /\ UNCHANGED <<backend, gone, files, lengths, settled>>

Ends == /\ gone' = TRUE
        /\ handle' = [f \in File |-> IF handle[f] = "open" THEN "closed" ELSE handle[f]]

ShutDown_LeavesFiles(t) ==
    /\ pc[t] = "shutdown"
    /\ settled' = settled \cup {TheSession}
    /\ Return(t)
    /\ UNCHANGED <<session, files, lengths>>

\* The backend shuts down: an SMB session closes every handle and ends; a local one has
\* nothing to tear down.
ShutDown(t) ==
    /\ pc[t] = "shutdown"
    /\ IF backend = "smb" THEN Ends ELSE UNCHANGED <<gone, handle>>
    /\ settled' = settled \cup {TheSession}
    /\ Return(t)
    /\ UNCHANGED <<backend, disconnected, shutdowns, released, closes, lengths>>

\* The server takes every handle of a lost connection with it.
ConnectionLost ==
    /\ backend = "smb" /\ ~gone
    /\ Ends
    /\ answer' = NoAnswer
    /\ UNCHANGED <<backend, disconnected, shutdowns, released, closes, lengths, pc, args, settled>>

-----------------------------------------------------------------------------

Requests == {r \in (0..MaxLen) \X (0..MaxLen) : r[1] + r[2] <= MaxLen}

Calls(t) ==
    \/ RefusedAtOnce(t)
    \/ CallOpen(t)
    \/ Disconnect(t)
    \/ \E f \in File :
         \/ Release(t, f)
         \/ \E r \in Requests : CallWrite(t, f, r[1], r[2])
         \/ \E n \in 0..MaxLen : CallSetLen(t, f, n)
         \/ \E r \in Requests, exact \in BOOLEAN :
              r[2] > 0 /\ CallRead(t, f, r[1], r[2], exact)

\* What a call under way does next.
Proceed(t) ==
    \/ \E f \in File : Opened(t, f)
    \/ ReadMore(t)
    \/ Write(t) \/ WriteReturns(t) \/ SetLen(t) \/ SetLenReturns(t)
    \/ Closed(t) \/ ShutDown(t)
    \/ Fails(t) \/ AnswerLost(t)

Next ==
    \/ \E t \in Task : Calls(t) \/ Proceed(t)
    \/ ConnectionLost

Spec == Init /\ [][Next]_vars

-----------------------------------------------------------------------------

\* len() is the file's size whenever no call that changes it is under way, and never
\* ahead of it while writes are: concurrent writes may answer in any order.  Where the
\* facade cannot know, this is not asked: the size was not to be had at open, the
\* answer of a change was lost, a set_len overlapped another change.  Nor is it where
\* an empty write past the end has made the cached length too large.
LenIsTheSize ==
    \A f \in known :
       LET doing(at) == \E t \in Task : args[t].f = f /\ pc[t] \in at
       IN  /\ ~doing({"wrote", "resized"}) => len[f] = size[f]
           /\ ~doing({"resized"}) => len[f] <= size[f]

\* read_at returns fewer bytes than asked for only if the file ended there at some
\* moment of the call, however short the backend's reads and whoever resizes the file;
\* read_exact_at never does.
ShortMeansEnd ==
    answer.got < answer.n => ~answer.exact /\ answer.least <= answer.off + answer.got

\* However many tasks release a file or disconnect the session at once, the backend is
\* asked once.
AskedOnce == shutdowns <= 1 /\ \A f \in File : closes[f] <= 1

\* Once the release of a file, or the disconnect of its session, has returned to the
\* task that it did the work for, an SMB file is open no more, one whose open was under
\* way included: nothing waits for Kotlin to collect the object.
NothingStaysOpen ==
    backend = "smb" =>
       \A f \in File : f \in settled \/ TheSession \in settled => handle[f] # "open"
=============================================================================
