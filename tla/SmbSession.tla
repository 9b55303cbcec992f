----------------------------- MODULE SmbSession -----------------------------
(***************************************************************************)
(* The SMB session of krystallos-smb (actor.rs, file.rs).                  *)
(*                                                                         *)
(* libsmb2 has no internal synchronisation, so one thread owns the context *)
(* and every file handle opened from it.  Callers are async tasks on other *)
(* threads: they send a command down an mpsc channel and await the answer  *)
(* on a oneshot channel of their own.  What a caller holds of an open file *)
(* is a RemoteFile: an opaque id into the thread's table, a closed flag,   *)
(* and a clone of the session.  The thread ends on Command::Shutdown or    *)
(* when the last clone of the session is dropped.                          *)
(*                                                                         *)
(* Abstractions: paths, modes, offsets and bytes are left out; what a file *)
(* operation returns is the open instance its bytes came from.  The seven  *)
(* path operations leave the table alone and are one command.  A command   *)
(* is executed and answered in one step of the thread: only the thread     *)
(* reads or writes what that step touches.                                 *)
(***************************************************************************)
EXTENDS Naturals, Sequences

CONSTANTS
    Task,        \* the async tasks that call into the session
    File,        \* the RemoteFile objects, each made by at most one open
    Fh,          \* libsmb2 handle addresses: reused once a handle is closed
    Abandoning,  \* the tasks whose futures may be dropped at an await point
    MaxQueue,    \* bound: no call starts while this many commands are queued
    None         \* no task, no file, a null handle

ASSUME AbandoningAssumption == Abandoning \subseteq Task
ASSUME NoneAssumption == None \notin Task \cup File \cup Fh

VARIABLES
    thread,   \* where the session thread is in actor_thread
    ready,    \* what the thread reported about connecting
    backend,  \* the SmbBackend's clone of the Session, and how it came to be
    queue,    \* the command channel
    handles,  \* OpenFiles::handles: id -> handle
    nextId,   \* OpenFiles::next_id
    serves,   \* libsmb2: the open instance a handle stands for, None when free
    join,     \* SessionInner::join
    file,     \* the life of each RemoteFile object
    fileId,   \* RemoteFile::id
    closed,   \* RemoteFile::closed
    pc,       \* where each task is in its call
    op,       \* the operation each task is calling
    on,       \* the RemoteFile the call is about
    reply     \* the task's oneshot channel

threadVars == <<thread, ready, handles, nextId, serves>>
fileVars == <<file, fileId, closed>>
taskVars == <<pc, op, on>>
vars == <<threadVars, backend, queue, join, fileVars, taskVars, reply>>

-----------------------------------------------------------------------------
(* Values *)

Op == {"path", "open", "use", "close", "shutdown"}

\* enum Command.  "path" is List .. Copy, "use" is ReadAt, WriteAt, SetLen and
\* Flush.  by is the task holding the receiving end of the reply channel.
Command == [op : Op, id : Nat, path : File \cup {None}, by : Task \cup {None}]

\* What a reply channel may hold: nothing yet, Ok, Err, or its sender dropped.
Pending == [st |-> "pending", id |-> 0, from |-> None]
Lost    == [st |-> "lost", id |-> 0, from |-> None]
Failed  == [st |-> "err", id |-> 0, from |-> None]
Ok(id, from) == [st |-> "ok", id |-> id, from |-> from]

Reply == [st : {"pending", "ok", "err", "lost"}, id : Nat, from : File \cup {None}]

\* The mpsc channel is unbounded; MaxQueue keeps abandoned calls from piling up.
Room == Len(queue) < MaxQueue

\* The file calls that borrow the RemoteFile; the others borrow the backend.
FileOps == {"use", "close"}

Busy(t) == pc[t] # "idle"
UsesBackend(t) == Busy(t) /\ op[t] \notin FileOps
UsesFile(t, f) == Busy(t) /\ op[t] \in FileOps /\ on[t] = f

\* The mpsc channel: some clone of the Session keeps a sender, the thread keeps
\* the receiver until it returns.
SendersAlive == backend \in {"connecting", "up"} \/ \E f \in File : file[f] = "alive"
ReceiverAlive == thread # "exited"

\* The libsmb2 context exists.
ContextLive == thread \in {"running", "closing"}

NoHandles == [i \in {} |-> None]

TypeOK ==
    /\ thread \in {"connecting", "running", "closing", "destroyed", "exited"}
    /\ ready \in {"pending", "ok", "err"}
    /\ backend \in {"connecting", "up", "failed", "dropped"}
    /\ queue \in Seq(Command)
    /\ nextId \in Nat
    /\ DOMAIN handles \subseteq 1..nextId
    /\ handles \in [DOMAIN handles -> Fh]
    /\ serves \in [Fh -> File \cup {None}]
    /\ join \in {"held", "taken"}
    /\ file \in [File -> {"unborn", "opening", "alive", "dropped", "abandoned"}]
    /\ fileId \in [File -> Nat]
    /\ closed \in [File -> BOOLEAN]
    /\ pc \in [Task -> {"idle", "checked", "await", "takejoin", "joining"}]
    /\ op \in [Task -> Op]
    /\ on \in [Task -> File \cup {None}]
    /\ reply \in [Task -> Reply]

Init ==
    /\ thread = "connecting"
    /\ ready = "pending"
    /\ backend = "connecting"
    /\ queue = <<>>
    /\ handles = NoHandles
    /\ nextId = 0
    /\ serves = [h \in Fh |-> None]
    /\ join = "held"
    /\ file = [f \in File |-> "unborn"]
    /\ fileId = [f \in File |-> 0]
    /\ closed = [f \in File |-> FALSE]
    /\ pc = [t \in Task |-> "idle"]
    /\ op = [t \in Task |-> "path"]
    /\ on = [t \in Task |-> None]
    /\ reply = [t \in Task |-> Pending]

-----------------------------------------------------------------------------
(* Connecting *)

\* SmbContext::connect on the new thread, and the limits or the error sent back.
\* A failed connect destroys its context and the thread returns.
ThreadConnects ==
    /\ thread = "connecting"
    /\ \/ thread' = "running" /\ ready' = "ok"
       \/ thread' = "exited"  /\ ready' = "err"
    /\ UNCHANGED <<backend, queue, handles, nextId, serves, join, fileVars, taskVars, reply>>

\* Session::connect gets the answer; on an error it joins the thread, which has
\* already returned.
ConnectReturns ==
    /\ backend = "connecting"
    /\ ready # "pending"
    /\ backend' = IF ready = "ok" THEN "up" ELSE "failed"
    /\ UNCHANGED <<threadVars, queue, join, fileVars, taskVars, reply>>

\* The SmbBackend is dropped, or the future of Session::connect is.
DropBackend ==
    /\ \/ backend = "up"
       \/ backend = "connecting" /\ Abandoning # {}
    /\ \A t \in Task : ~UsesBackend(t)
    /\ backend' = "dropped"
    /\ UNCHANGED <<threadVars, queue, join, fileVars, taskVars, reply>>

-----------------------------------------------------------------------------
(* Callers: Session::call and RemoteFile *)

\* The call is over.
Return(t) ==
    /\ pc' = [pc EXCEPT ![t] = "idle"]
    /\ op' = [op EXCEPT ![t] = "path"]
    /\ on' = [on EXCEPT ![t] = None]
    /\ reply' = [reply EXCEPT ![t] = Pending]

\* Put a command on the channel and wait for the answer.  A failed send is an
\* immediate ConnectionLost: the call is over.
Send(t, o, id, f) ==
    IF ReceiverAlive
    THEN /\ queue' = Append(queue, [op |-> o, id |-> id,
                                    path |-> IF o = "open" THEN f ELSE None, by |-> t])
         /\ pc' = [pc EXCEPT ![t] = "await"]
         /\ op' = [op EXCEPT ![t] = o]
         /\ on' = [on EXCEPT ![t] = f]
         /\ UNCHANGED reply
    ELSE Return(t) /\ UNCHANGED queue

\* list, stat, mkdir, remove_file, remove_dir, rename, copy.
CallPath(t) ==
    /\ pc[t] = "idle"
    /\ backend = "up" /\ Room
    /\ Send(t, "path", 0, None)
    /\ UNCHANGED <<threadVars, backend, join, fileVars>>

CallOpen(t, f) ==
    /\ pc[t] = "idle"
    /\ backend = "up" /\ Room
    /\ file[f] = "unborn"
    /\ Send(t, "open", 0, f)
    /\ file' = [file EXCEPT ![f] = IF ReceiverAlive THEN "opening" ELSE "unborn"]
    /\ UNCHANGED <<threadVars, backend, join, fileId, closed>>

\* RemoteFile::{read_at, write_at, set_len, flush} load the closed flag ...
CallUse(t, f) ==
    /\ pc[t] = "idle"
    /\ file[f] = "alive" /\ Room
    /\ ~closed[f]
    /\ pc' = [pc EXCEPT ![t] = "checked"]
    /\ op' = [op EXCEPT ![t] = "use"]
    /\ on' = [on EXCEPT ![t] = f]
    /\ UNCHANGED <<threadVars, backend, queue, join, fileVars, reply>>

\* ... and RemoteFile::close swaps it: only the first closer goes on.
CallClose(t, f) ==
    /\ pc[t] = "idle"
    /\ file[f] = "alive" /\ Room
    /\ ~closed[f]
    /\ closed' = [closed EXCEPT ![f] = TRUE]
    /\ pc' = [pc EXCEPT ![t] = "checked"]
    /\ op' = [op EXCEPT ![t] = "close"]
    /\ on' = [on EXCEPT ![t] = f]
    /\ UNCHANGED <<threadVars, backend, queue, join, file, fileId, reply>>

\* The command is sent afterwards, when another task may have closed the file.
SendChecked(t) ==
    /\ pc[t] = "checked"
    /\ Send(t, op[t], fileId[on[t]], on[t])
    /\ UNCHANGED <<threadVars, backend, join, fileVars>>

\* What Session::open makes of its reply: a RemoteFile with a clone of the
\* session, or nothing.
FileOpened(f, r) ==
    /\ file' = [file EXCEPT ![f] = IF r.st = "ok" THEN "alive" ELSE "unborn"]
    /\ fileId' = [fileId EXCEPT ![f] = r.id]
    /\ UNCHANGED closed

\* The awaited oneshot resolves.
Receive(t) ==
    /\ pc[t] = "await"
    /\ op[t] # "shutdown"
    /\ reply[t].st # "pending"
    /\ Return(t)
    /\ IF op[t] = "open" THEN FileOpened(on[t], reply[t]) ELSE UNCHANGED fileVars
    /\ UNCHANGED <<threadVars, backend, queue, join>>

DropFile_ClosesNothing(f) ==
    /\ file[f] = "alive"
    /\ \A t \in Task : ~UsesFile(t, f)
    /\ file' = [file EXCEPT ![f] = "dropped"]
    /\ closed' = [closed EXCEPT ![f] = TRUE]
    /\ UNCHANGED <<threadVars, backend, queue, join, fileId, taskVars, reply>>

\* RemoteFile::drop: queue a close nobody waits for, unless it was closed.
DropFile(f) ==
    /\ file[f] = "alive"
    /\ \A t \in Task : ~UsesFile(t, f)
    /\ file' = [file EXCEPT ![f] = "dropped"]
    /\ closed' = [closed EXCEPT ![f] = TRUE]
    /\ queue' = IF ~closed[f] /\ ReceiverAlive
                THEN Append(queue, [op |-> "close", id |-> fileId[f],
                                    path |-> None, by |-> None])
                ELSE queue
    /\ UNCHANGED <<threadVars, backend, join, fileId, taskVars, reply>>

\* Session::shutdown: send, where a failure skips the wait for the reply, ...
CallShutdown(t) ==
    /\ pc[t] = "idle"
    /\ backend = "up" /\ Room
    /\ pc' = [pc EXCEPT ![t] = IF ReceiverAlive THEN "await" ELSE "takejoin"]
    /\ op' = [op EXCEPT ![t] = "shutdown"]
    /\ queue' = IF ReceiverAlive
                THEN Append(queue, [op |-> "shutdown", id |-> 0, path |-> None, by |-> t])
                ELSE queue
    /\ UNCHANGED <<threadVars, backend, join, fileVars, on, reply>>

\* ... go on whatever the reply is, ...
ShutdownAnswered(t) ==
    /\ pc[t] = "await"
    /\ op[t] = "shutdown"
    /\ reply[t].st # "pending"
    /\ pc' = [pc EXCEPT ![t] = "takejoin"]
    /\ UNCHANGED <<threadVars, backend, queue, join, fileVars, op, on, reply>>

TakeJoin_WaitsForNobody(t) ==
    /\ pc[t] = "takejoin"
    /\ Return(t)
    /\ join' = "taken"
    /\ UNCHANGED <<threadVars, backend, queue, fileVars>>

\* ... take the join handle if nobody else has, ...
TakeJoin(t) ==
    /\ pc[t] = "takejoin"
    /\ IF join = "held"
       THEN pc' = [pc EXCEPT ![t] = "joining"] /\ UNCHANGED <<op, on, reply>>
       ELSE Return(t)
    /\ join' = "taken"
    /\ UNCHANGED <<threadVars, backend, queue, fileVars>>

\* ... and wait for the thread on the blocking pool.
JoinReturns(t) ==
    /\ pc[t] = "joining"
    /\ thread = "exited"
    /\ Return(t)
    /\ UNCHANGED <<threadVars, backend, queue, join, fileVars>>

\* The future of a call is dropped at an await point.  The command stays where
\* it is; its answer will find nobody.
Abandon(t) ==
    /\ t \in Abandoning
    /\ pc[t] \in {"await", "joining"}
    /\ Return(t)
    /\ queue' = [i \in 1..Len(queue) |->
                    IF queue[i].by = t THEN [queue[i] EXCEPT !.by = None] ELSE queue[i]]
    /\ IF op[t] = "open"
       THEN file' = [file EXCEPT ![on[t]] = "abandoned"]
       ELSE UNCHANGED file
    /\ UNCHANGED <<threadVars, backend, join, fileId, closed>>

-----------------------------------------------------------------------------
(* The session thread *)

\* reply.send(..): a reply nobody waits for is dropped.
Answer(c, r) == reply' = IF c.by = None THEN reply ELSE [reply EXCEPT ![c.by] = r]

\* The next command is c and it is taken off the channel.
Recv(c, o) ==
    /\ thread = "running"
    /\ queue # <<>>
    /\ c = Head(queue)
    /\ c.op = o
    /\ queue' = Tail(queue)

ExecPath(c) ==
    /\ Recv(c, "path")
    /\ Answer(c, Ok(0, None)) \/ Answer(c, Failed)
    /\ UNCHANGED <<threadVars, backend, join, fileVars, taskVars>>

Insert_ReusesIds(h) ==
    LET id == CHOOSE i \in 1..(nextId + 1) :
                 /\ i \notin DOMAIN handles
                 /\ 1..(i - 1) \subseteq DOMAIN handles
    IN  /\ nextId' = IF id > nextId THEN id ELSE nextId
        /\ handles' = [i \in DOMAIN handles \cup {id} |-> IF i = id THEN h ELSE handles[i]]

\* OpenFiles::insert
Insert(h) ==
    /\ nextId' = nextId + 1
    /\ handles' = [i \in DOMAIN handles \cup {nextId + 1} |->
                      IF i = nextId + 1 THEN h ELSE handles[i]]

\* smb2_open returned a handle: any address not in use.  A failing smb2_fstat
\* does not fail the open.
ExecOpen(c) ==
    /\ Recv(c, "open")
    /\ \E h \in Fh :
          /\ serves[h] = None
          /\ serves' = [serves EXCEPT ![h] = c.path]
          /\ Insert(h)
    /\ Answer(c, Ok(nextId', c.path))
    /\ UNCHANGED <<thread, ready, backend, join, fileVars, taskVars>>

ExecOpenFails_KeepsNull(c) ==
    /\ Recv(c, "open")
    /\ Insert(None)
    /\ Answer(c, Failed)
    /\ UNCHANGED <<thread, ready, serves, backend, join, fileVars, taskVars>>

\* smb2_open returned null.
ExecOpenFails(c) ==
    /\ Recv(c, "open")
    /\ Answer(c, Failed)
    /\ UNCHANGED <<threadVars, backend, join, fileVars, taskVars>>

CloseHandle_LeavesEntry(id) ==
    /\ serves' = [serves EXCEPT ![handles[id]] = None]
    /\ UNCHANGED handles

\* OpenFiles::take and smb2_close of what it returned.
CloseHandle(id) ==
    /\ handles' = [i \in DOMAIN handles \ {id} |-> handles[i]]
    /\ serves' = [serves EXCEPT ![handles[id]] = None]

ExecClose_OnlyIfAwaited(c) ==
    /\ Recv(c, "close")
    /\ IF c.id \in DOMAIN handles /\ c.by # None
       THEN CloseHandle(c.id)
       ELSE UNCHANGED <<handles, serves>>
    /\ Answer(c, Ok(0, None))
    /\ UNCHANGED <<thread, ready, nextId, backend, join, fileVars, taskVars>>

\* close_file: an id that is not in the table is closed already.
ExecClose(c) ==
    /\ Recv(c, "close")
    /\ IF c.id \in DOMAIN handles
       THEN /\ CloseHandle(c.id)
            /\ Answer(c, Ok(0, None)) \/ Answer(c, Failed)
       ELSE /\ Answer(c, Ok(0, None))
            /\ UNCHANGED <<handles, serves>>
    /\ UNCHANGED <<thread, ready, nextId, backend, join, fileVars, taskVars>>

\* read_at, write_at, set_len, flush: handle_of, then the libsmb2 call.
ExecUse(c) ==
    /\ Recv(c, "use")
    /\ \/ c.id \in DOMAIN handles /\ Answer(c, Ok(0, serves[handles[c.id]]))
       \/ Answer(c, Failed)
    /\ UNCHANGED <<threadVars, backend, join, fileVars, taskVars>>

ExecShutdown_KeepsServing(c) ==
    /\ Recv(c, "shutdown")
    /\ Answer(c, Ok(0, None))
    /\ UNCHANGED <<threadVars, backend, join, fileVars, taskVars>>

\* Command::Shutdown answers and leaves the loop.
ExecShutdown(c) ==
    /\ Recv(c, "shutdown")
    /\ Answer(c, Ok(0, None))
    /\ thread' = "closing"
    /\ UNCHANGED <<ready, handles, nextId, serves, backend, join, fileVars, taskVars>>

Disconnected_WhenNothingOpen ==
    /\ thread = "running"
    /\ queue = <<>>
    /\ ~SendersAlive
    /\ DOMAIN handles = {}
    /\ thread' = "closing"
    /\ UNCHANGED <<ready, handles, nextId, serves, backend, queue, join, fileVars, taskVars, reply>>

\* recv fails: the channel is empty and no clone of the session is left.
Disconnected ==
    /\ thread = "running"
    /\ queue = <<>>
    /\ ~SendersAlive
    /\ thread' = "closing"
    /\ UNCHANGED <<ready, handles, nextId, serves, backend, queue, join, fileVars, taskVars, reply>>

\* OpenFiles::close_all, one handle of the drain at a time.
CloseAllStep ==
    /\ thread = "closing"
    /\ \E id \in DOMAIN handles : CloseHandle(id)
    /\ UNCHANGED <<thread, ready, nextId, backend, queue, join, fileVars, taskVars, reply>>

DestroyContext_WithoutDrain ==
    /\ thread = "closing"
    /\ thread' = "destroyed"
    /\ UNCHANGED <<ready, handles, nextId, serves, backend, queue, join, fileVars, taskVars, reply>>

\* SmbContext::drop, after the drain.
DestroyContext ==
    /\ thread = "closing"
    /\ DOMAIN handles = {}
    /\ thread' = "destroyed"
    /\ UNCHANGED <<ready, handles, nextId, serves, backend, queue, join, fileVars, taskVars, reply>>

\* actor_thread returns: its receiver goes last, and the commands still queued
\* go with it, dropping their reply senders.
ThreadExits ==
    /\ thread = "destroyed"
    /\ thread' = "exited"
    /\ queue' = <<>>
    /\ reply' = [t \in Task |-> IF \E i \in 1..Len(queue) : queue[i].by = t
                                THEN Lost ELSE reply[t]]
    /\ UNCHANGED <<ready, handles, nextId, serves, backend, join, fileVars, taskVars>>

Exec ==
    \E c \in {queue[i] : i \in 1..Len(queue)} :
       \/ ExecPath(c) \/ ExecOpen(c) \/ ExecOpenFails(c) \/ ExecClose(c)
       \/ ExecUse(c) \/ ExecShutdown(c)

-----------------------------------------------------------------------------

ThreadNext ==
    \/ ThreadConnects \/ Exec \/ Disconnected
    \/ CloseAllStep \/ DestroyContext \/ ThreadExits

\* The steps of a call that is under way.
Proceed(t) ==
    \/ SendChecked(t) \/ Receive(t)
    \/ ShutdownAnswered(t) \/ TakeJoin(t) \/ JoinReturns(t)

CallerNext ==
    \/ ConnectReturns
    \/ DropBackend
    \/ \E t \in Task :
          \/ CallPath(t) \/ CallShutdown(t)
          \/ \E f \in File : CallOpen(t, f) \/ CallUse(t, f) \/ CallClose(t, f)
          \/ Proceed(t)
          \/ Abandon(t)
    \/ \E f \in File : DropFile(f)

\* Where it all may stop: no clone of the session is left, no call is under way.
Finished ==
    /\ ~SendersAlive
    /\ \A t \in Task : ~Busy(t)
    /\ UNCHANGED vars

Next == ThreadNext \/ CallerNext \/ Finished

Spec == Init /\ [][Next]_vars

\* The thread runs whenever it can: libsmb2 bounds each call by its timeout, so
\* none blocks it for ever.  A future that can make progress is polled again.
\* Nobody has to make a call, drop a file or shut anything down.
Fairness ==
    /\ WF_vars(ThreadNext)
    /\ WF_vars(ConnectReturns)
    /\ \A t \in Task : WF_vars(Proceed(t))

FairSpec == Spec /\ Fairness

-----------------------------------------------------------------------------
(* Safety *)

\* The table and libsmb2 agree: while the context exists every entry is a handle
\* libsmb2 still knows, no two entries share one, and no open handle is missing
\* from the table.  A close that leaves its entry behind, or frees a handle
\* twice, breaks it as soon as the address is used again.
TableMatchesServer ==
    /\ \A i \in DOMAIN handles : serves[handles[i]] # None
    /\ \A i, j \in DOMAIN handles : i # j => handles[i] # handles[j]
    /\ \A h \in Fh : serves[h] # None => \E i \in DOMAIN handles : handles[i] = h

\* What a caller is answered about its file comes from the handle that file was
\* opened on, also when the check of the closed flag is long past and the file
\* has been closed and others opened since (ids are never handed out twice).
AnswersComeFromOwnHandle ==
    \A t \in Task :
       pc[t] = "await" /\ op[t] = "use" /\ reply[t].st = "ok" => reply[t].from = on[t]

\* Somebody will still close the handle: its file, a close under way or queued,
\* or the open whose answer has not been looked at.
Owned(id) ==
    LET f == serves[handles[id]] IN
    \/ file[f] = "alive" /\ ~closed[f] /\ fileId[f] = id
    \/ \E t \in Task : pc[t] = "checked" /\ op[t] = "close" /\ on[t] = f /\ fileId[f] = id
    \/ \E i \in 1..Len(queue) : queue[i].op = "close" /\ queue[i].id = id
    \/ \E t \in Task : /\ pc[t] = "await" /\ op[t] = "open" /\ on[t] = f
                       /\ reply[t] = Ok(id, f)

\* While the session runs, no handle on the server is forgotten: each has an owner
\* that will close it, except those whose open was abandoned by its caller.
NoForgottenHandle ==
    thread = "running" =>
       \A id \in DOMAIN handles :
          Owned(id) \/ file[serves[handles[id]]] = "abandoned"

\* The context is destroyed only when every handle opened from it is closed (the
\* SAFETY comment of SmbContext::drop), and none is opened afterwards.
ClosedBeforeContextGoes ==
    ~ContextLive => \A h \in Fh : serves[h] = None

\* A shutdown returns, rather than being abandoned.
ShutdownReturns(t) == (TakeJoin(t) \/ JoinReturns(t)) /\ pc'[t] = "idle"

\* Every shutdown, the one that joins the thread and those that find the handle
\* taken, returns only when the thread is gone and its context with it.
ShutdownMeansGone ==
    [][\A t \in Task : ShutdownReturns(t) => thread = "exited"]_vars

-----------------------------------------------------------------------------
(* What the safety properties rest on: the parts of the inductive invariant *)

\* A task's call and the file it is about.
CallShape ==
    \A t \in Task :
       /\ pc[t] = "idle" => op[t] = "path" /\ on[t] = None /\ reply[t] = Pending
       /\ pc[t] = "checked" => op[t] \in FileOps /\ reply[t] = Pending
       /\ pc[t] \in {"takejoin", "joining"} => op[t] = "shutdown"
       /\ Busy(t) /\ op[t] \in FileOps => on[t] \in File /\ file[on[t]] = "alive"
       /\ Busy(t) /\ op[t] = "open" =>
             /\ pc[t] = "await" /\ on[t] \in File /\ file[on[t]] = "opening"
             /\ \A u \in Task : Busy(u) /\ op[u] = "open" /\ on[u] = on[t] => u = t

\* A queued command that somebody awaits is that task's call, not answered yet.
QueueShape ==
    \A i \in 1..Len(queue) :
       LET c == queue[i] IN
       /\ c.op = "open" => /\ c.path \in File
                           /\ c.by = None => file[c.path] = "abandoned"
       /\ c.by # None =>
             /\ pc[c.by] = "await" /\ op[c.by] = c.op /\ reply[c.by] = Pending
             /\ c.op \in FileOps => c.id = fileId[on[c.by]]
             /\ c.op = "open" => c.path = on[c.by]
             /\ \A j \in 1..Len(queue) : queue[j].by = c.by => j = i

\* A file is born open.
BornOpen == \A f \in File : file[f] \in {"unborn", "opening"} => ~closed[f]

\* An id stands for one open for ever.
IdsStandForOneOpen ==
    /\ \A f \in File : file[f] = "alive" =>
          /\ fileId[f] \in 1..nextId
          /\ fileId[f] \in DOMAIN handles => serves[handles[fileId[f]]] = f
    /\ \A t \in Task : pc[t] = "await" /\ op[t] = "open" /\ reply[t].st = "ok" =>
          /\ reply[t].id \in 1..nextId
          /\ reply[t].id \in DOMAIN handles => serves[handles[reply[t].id]] = on[t]

\* The shutdown the thread answered, which has yet to take the join handle.
MayJoin(t) ==
    \/ pc[t] = "takejoin"
    \/ pc[t] = "await" /\ op[t] = "shutdown" /\ reply[t] # Pending

\* Until the thread is gone there is at most one, and the handle is there for it.
OneMayJoin ==
    /\ thread \in {"connecting", "running"} => join = "held" /\ \A t \in Task : ~MayJoin(t)
    /\ thread # "exited" => \A t \in Task : MayJoin(t) =>
          join = "held" /\ \A u \in Task : MayJoin(u) => u = t

\* Before the session is up and after its context is gone the table is empty.
TableEmptyOutsideSession == ~ContextLive => DOMAIN handles = {}

IInv ==
    /\ TypeOK
    /\ CallShape
    /\ QueueShape
    /\ BornOpen
    /\ IdsStandForOneOpen
    /\ AnswersComeFromOwnHandle
    /\ TableMatchesServer
    /\ TableEmptyOutsideSession
    /\ NoForgottenHandle
    /\ OneMayJoin

-----------------------------------------------------------------------------
(* What it all implements *)

\* A queued command that nobody waits for and that changes something.
LateWork ==
    LET c == {queue[i] : i \in {j \in 1..Len(queue) : queue[j].by = None}} IN
    {[op |-> "open", on |-> x.path] : x \in {y \in c : y.op = "open"}} \cup
    {[op |-> "shutdown", on |-> None] : x \in {y \in c : y.op = "shutdown"}} \cup
    {[op |-> "close", on |-> f] :
        f \in {g \in File : \E x \in c : x.op = "close" /\ x.id = fileId[g]}}

\* A call as its caller sees it: a lost reply is no answer yet.
CallOf(t) ==
    IF pc[t] = "idle" THEN [op |-> "none", on |-> None, st |-> "none", from |-> None]
    ELSE [op |-> op[t], on |-> on[t],
          st |-> IF reply[t].st = "lost" THEN "pending" ELSE reply[t].st,
          from |-> reply[t].from]

\* What the callers cannot see of the thread is part of its closing, and what is queued
\* counts as long as it runs.
SessionState == IF thread = "destroyed" THEN "closing" ELSE thread
OpenOnServer == {serves[h] : h \in Fh} \ {None}
Calls == [t \in Task |-> CallOf(t)]
StillDue == IF thread = "running" THEN LateWork ELSE {}

Service == INSTANCE FileService WITH
    session <- SessionState, client <- backend, open <- OpenOnServer, call <- Calls,
    late <- StillDue

\* The thread, its queue and its table keep the promise of the traits: every call
\* takes effect at one instant, on its own file, and nothing is open, closed or
\* answered in another way.
KeepsService == Service!Spec

-----------------------------------------------------------------------------
(* Liveness *)

\* Every call ends, whatever is shut down or dropped meanwhile: nobody waits for
\* ever for an answer that will not come.
EveryCallEnds == \A t \in Task : []<>~Busy(t)

\* A RemoteFile that is dropped has its handle closed, without anybody waiting and
\* without the session having to end.  (A file once dropped stays so, and is never
\* opened again: what holds of each in the end holds of all from some time on.)
DroppedFilesAreClosed ==
    <>[](\A f \in File : file[f] = "dropped" => \A h \in Fh : serves[h] # f)

\* Dropping the last clone of the session, for good, ends its thread.
ThreadEnds == <>[](~SendersAlive => thread = "exited")
=============================================================================
