---------------------------- MODULE FileService ----------------------------
(***************************************************************************)
(* What a session with files promises its callers (the traits              *)
(* StorageBackend and FileHandle of krystallos-core, backend.rs), without  *)
(* a thread, channels, ids or a handle table:                              *)
(*                                                                         *)
(*   - a call takes effect at one instant between its begin and its return,*)
(*     or fails, and its answer is about the file it was made on;          *)
(*   - a file is open on the server from the effect of its one open to the *)
(*     effect of its one close, and is used only between the two;          *)
(*   - what is dropped or abandoned is dealt with later, or never;         *)
(*   - when the session ends everything is closed first, the calls that    *)
(*     are left fail, and a shutdown returns afterwards.                   *)
(***************************************************************************)
CONSTANTS
    Task,  \* the callers
    File,  \* the files they open, each by at most one open
    None   \* no file

VARIABLES
    session,  \* "connecting", "running", "closing" or "exited"
    client,   \* the caller's hold on it: "connecting", "up", "failed" or "dropped"
    open,     \* the files that are open on the server
    file,     \* the life of the object a file is held by
    closed,   \* that object's closed flag
    call,     \* the call each task has under way, and what came of it
    late      \* what nobody waits for any more and is still to be done

vars == <<session, client, open, file, closed, call, late>>

-----------------------------------------------------------------------------

NoCall == [op |-> "none", on |-> None, st |-> "none", from |-> None]
Called(o, f) == [op |-> o, on |-> f, st |-> "pending", from |-> None]
Late(o, f) == [op |-> o, on |-> f]

Busy(t) == call[t] # NoCall
Pending(t, o) == call[t].op = o /\ call[t].st = "pending"

InUse(f) == \E t \in Task : call[t].op \in {"use", "close"} /\ call[t].on = f

Init ==
    /\ session = "connecting" /\ client = "connecting"
    /\ open = {}
    /\ file = [f \in File |-> "unborn"]
    /\ closed = [f \in File |-> FALSE]
    /\ call = [t \in Task |-> NoCall]
    /\ late = {}

-----------------------------------------------------------------------------
(* Calls begin, return, or are abandoned *)

\* list, stat, mkdir, remove_file, remove_dir, rename, copy; open; shutdown.
BeginOnBackend(t) ==
    /\ ~Busy(t) /\ client = "up"
    /\ \/ \E o \in {"path", "shutdown"} : call' = [call EXCEPT ![t] = Called(o, None)]
          /\ UNCHANGED file
       \/ \E f \in File :
             /\ file[f] = "unborn" /\ file' = [file EXCEPT ![f] = "opening"]
             /\ call' = [call EXCEPT ![t] = Called("open", f)]
    /\ UNCHANGED <<session, client, open, closed, late>>

\* read_at, write_at, set_len, flush; and close, which only one caller gets to make.
BeginOnFile(t) ==
    /\ ~Busy(t)
    /\ \E f \in File, o \in {"use", "close"} :
          /\ file[f] = "alive" /\ ~closed[f]
          /\ call' = [call EXCEPT ![t] = Called(o, f)]
          /\ closed' = [closed EXCEPT ![f] = o = "close"]
    /\ UNCHANGED <<session, client, open, file, late>>

\* A call that the session did not get to fails when the session is over.  Nothing
\* but the end of the session lets a shutdown return.
Return(t) ==
    /\ Busy(t)
    /\ \/ session = "exited"
       \/ call[t].st # "pending" /\ call[t].op # "shutdown"
    /\ call' = [call EXCEPT ![t] = NoCall]
    /\ file' = IF call[t].op # "open" THEN file
               ELSE [file EXCEPT ![call[t].on] =
                        IF call[t].st = "ok" THEN "alive" ELSE "unborn"]
    /\ UNCHANGED <<session, client, open, closed, late>>

\* Nobody waits for the call any more.  What it would have done is done late, as long
\* as the session runs.
Abandon(t) ==
    /\ Busy(t)
    /\ call' = [call EXCEPT ![t] = NoCall]
    /\ file' = IF call[t].op # "open" THEN file
               ELSE [file EXCEPT ![call[t].on] = "abandoned"]
    /\ late' = IF /\ session = "running" /\ call[t].st = "pending"
                  /\ call[t].op \in {"open", "close", "shutdown"}
               THEN late \cup {Late(call[t].op, call[t].on)} ELSE late
    /\ UNCHANGED <<session, client, open, closed>>

\* An object dropped without a close is closed late.
DropFile(f) ==
    /\ file[f] = "alive" /\ ~InUse(f)
    /\ file' = [file EXCEPT ![f] = "dropped"]
    /\ closed' = [closed EXCEPT ![f] = TRUE]
    /\ late' = IF session = "running" /\ ~closed[f]
               THEN late \cup {Late("close", f)} ELSE late
    /\ UNCHANGED <<session, client, open, call>>

DropClient ==
    /\ client \in {"connecting", "up"}
    /\ \A t \in Task : Busy(t) => call[t].op \in {"use", "close"}
    /\ client' = "dropped"
    /\ UNCHANGED <<session, open, file, closed, call, late>>

-----------------------------------------------------------------------------
(* Effects *)

Answer(t, st, from) == call' = [call EXCEPT ![t].st = st, ![t].from = from]

Path(t) ==
    /\ session = "running" /\ Pending(t, "path")
    /\ Answer(t, "ok", None) \/ Answer(t, "err", None)
    /\ UNCHANGED <<session, client, open, file, closed, late>>

Open(t) ==
    /\ session = "running" /\ Pending(t, "open")
    /\ \/ open' = open \cup {call[t].on} /\ Answer(t, "ok", call[t].on)
       \/ UNCHANGED open /\ Answer(t, "err", None)
    /\ UNCHANGED <<session, client, file, closed, late>>

\* Only a file that is open answers, and it answers for itself.
Use(t) ==
    /\ session = "running" /\ Pending(t, "use")
    /\ \/ call[t].on \in open /\ Answer(t, "ok", call[t].on)
       \/ Answer(t, "err", None)
    /\ UNCHANGED <<session, client, open, file, closed, late>>

\* The file is closed whatever is answered.
Close(t) ==
    /\ session = "running" /\ Pending(t, "close")
    /\ call[t].on \in open /\ open' = open \ {call[t].on}
    /\ Answer(t, "ok", None) \/ Answer(t, "err", None)
    /\ UNCHANGED <<session, client, file, closed, late>>

Shutdown(t) ==
    /\ session = "running" /\ Pending(t, "shutdown")
    /\ session' = "closing" /\ late' = {}
    /\ Answer(t, "ok", None)
    /\ UNCHANGED <<client, open, file, closed>>

LateOpen(f) ==
    /\ Late("open", f) \in late /\ late' = late \ {Late("open", f)}
    /\ open' \in {open, open \cup {f}}
    /\ UNCHANGED <<session, client, file, closed, call>>

LateClose(f) ==
    /\ Late("close", f) \in late /\ late' = late \ {Late("close", f)}
    /\ f \in open /\ open' = open \ {f}
    /\ UNCHANGED <<session, client, file, closed, call>>

LateShutdown ==
    /\ Late("shutdown", None) \in late
    /\ session' = "closing" /\ late' = {}
    /\ UNCHANGED <<client, open, file, closed, call>>

-----------------------------------------------------------------------------
(* The session *)

Connect ==
    /\ session = "connecting"
    /\ session' \in {"running", "exited"}
    /\ UNCHANGED <<client, open, file, closed, call, late>>

Connected ==
    /\ client = "connecting" /\ session # "connecting"
    /\ client' = IF session = "exited" THEN "failed" ELSE "up"
    /\ UNCHANGED <<session, open, file, closed, call, late>>

\* Nobody holds the session or a file of it, and nothing is left to do.
EndUnused ==
    /\ session = "running" /\ client \in {"failed", "dropped"}
    /\ late = {} /\ \A f \in File : file[f] # "alive"
    /\ session' = "closing"
    /\ UNCHANGED <<client, open, file, closed, call, late>>

CloseRest(f) ==
    /\ session = "closing" /\ f \in open
    /\ open' = open \ {f}
    /\ UNCHANGED <<session, client, file, closed, call, late>>

Exit ==
    /\ session = "closing" /\ open = {}
    /\ session' = "exited"
    /\ UNCHANGED <<client, open, file, closed, call, late>>

Next ==
    \/ \E t \in Task :
          \/ BeginOnBackend(t) \/ BeginOnFile(t) \/ Return(t) \/ Abandon(t)
          \/ Path(t) \/ Open(t) \/ Use(t) \/ Close(t) \/ Shutdown(t)
    \/ \E f \in File : DropFile(f) \/ LateOpen(f) \/ LateClose(f) \/ CloseRest(f)
    \/ DropClient \/ LateShutdown \/ Connect \/ Connected \/ EndUnused \/ Exit

Spec == Init /\ [][Next]_vars
=============================================================================
