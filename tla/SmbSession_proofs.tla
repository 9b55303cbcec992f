-------------------------- MODULE SmbSession_proofs --------------------------
(* Theorems about SmbSession, for every set of tasks, files and handles. *)
EXTENDS SmbSession, SequenceTheorems, TLAPS

(***************************************************************************)
(* The command channel keeps its type whatever is done to it.              *)
(***************************************************************************)

\* A dropped future leaves its command queued with nobody to answer.
LEMMA AbandonedQueue ==
    ASSUME NEW q \in Seq(Command), NEW t \in Task
    PROVE  [i \in 1..Len(q) |-> IF q[i].by = t THEN [q[i] EXCEPT !.by = None] ELSE q[i]]
              \in Seq(Command)
<1>1. ASSUME NEW i \in 1..Len(q)
      PROVE  (IF q[i].by = t THEN [q[i] EXCEPT !.by = None] ELSE q[i]) \in Command
  <2>1. q[i] \in Command
    OBVIOUS
  <2>2. [q[i] EXCEPT !.by = None] \in Command
    BY <2>1 DEF Command
  <2>3. QED
    BY <2>1, <2>2
<1>2. QED
  BY <1>1

\* The command that is executed is one of those that were sent.
LEMMA HeadIsCommand ==
    ASSUME NEW q \in Seq(Command), q # <<>>
    PROVE  Head(q) \in Command /\ Tail(q) \in Seq(Command)
  OBVIOUS

\* Every reply the thread sends is a reply a channel may hold.
LEMMA AnswerType ==
    ASSUME TypeOK, NEW c \in Command, NEW r \in Reply, Answer(c, r)
    PROVE  reply' \in [Task -> Reply]
  BY DEF TypeOK, Answer, Command

\* What the thread sends, and what Session::call starts with, are replies.
LEMMA ReplyValues ==
    /\ Pending \in Reply /\ Lost \in Reply /\ Failed \in Reply
    /\ \A id \in Nat, from \in File \cup {None} : Ok(id, from) \in Reply
  BY DEF Pending, Lost, Failed, Ok, Reply

\* Closing a handle leaves a smaller table and a handle address free for reuse.
LEMMA CloseType ==
    ASSUME TypeOK, NEW id \in DOMAIN handles, CloseHandle(id)
    PROVE  /\ DOMAIN handles' = DOMAIN handles \ {id}
           /\ \A i \in DOMAIN handles' : handles'[i] = handles[i]
           /\ handles[id] \in Fh
           /\ \A h \in Fh : serves'[h] = IF h = handles[id] THEN None ELSE serves[h]
           /\ handles' \in [DOMAIN handles' -> Fh]
           /\ serves' \in [Fh -> File \cup {None}]
<1>1. handles[id] \in Fh
  BY DEF TypeOK
<1>2. /\ DOMAIN handles' = DOMAIN handles \ {id}
      /\ \A i \in DOMAIN handles' : handles'[i] = handles[i]
      /\ handles' \in [DOMAIN handles' -> Fh]
  BY DEF CloseHandle, TypeOK
<1>3. /\ serves' \in [Fh -> File \cup {None}]
      /\ \A h \in Fh : serves'[h] = IF h = handles[id] THEN None ELSE serves[h]
  BY <1>1 DEF CloseHandle, TypeOK
<1>4. QED
  BY <1>1, <1>2, <1>3

-----------------------------------------------------------------------------
(* Type correctness *)

\* Before anything has happened every variable has its type.
LEMMA InitType == Init => TypeOK
  BY ReplyValues DEF Init, TypeOK, NoHandles, Op

\* The session thread keeps every variable in its type.
LEMMA ThreadType == TypeOK /\ ThreadNext => TypeOK'
<1> SUFFICES ASSUME TypeOK, ThreadNext PROVE TypeOK'
  OBVIOUS
<1> USE DEF TypeOK, threadVars, fileVars, taskVars
<1>1. CASE ThreadConnects
  BY <1>1 DEF ThreadConnects
<1>2. CASE Exec
  <2>1. PICK c \in {queue[i] : i \in 1..Len(queue)} :
           \/ ExecPath(c) \/ ExecOpen(c) \/ ExecOpenFails(c) \/ ExecClose(c)
           \/ ExecUse(c) \/ ExecShutdown(c)
    BY <1>2 DEF Exec
  <2>2. c \in Command
    BY <2>1
  <2>3. CASE ExecPath(c)
    <3>1. reply' \in [Task -> Reply]
      BY <2>2, <2>3, AnswerType, ReplyValues DEF ExecPath
    <3>2. queue' \in Seq(Command)
      BY <2>3, HeadIsCommand DEF ExecPath, Recv
    <3>3. QED
      BY <2>3, <3>1, <3>2 DEF ExecPath
  <2>4. CASE ExecOpen(c)
    <3>1. PICK h \in Fh : serves' = [serves EXCEPT ![h] = c.path] /\ Insert(h)
      BY <2>4 DEF ExecOpen
    <3>2. nextId' \in Nat /\ c.path \in File \cup {None}
      BY <2>2, <3>1 DEF Insert, Command
    <3>3. reply' \in [Task -> Reply]
      BY <2>2, <2>4, <3>2, AnswerType, ReplyValues DEF ExecOpen
    <3>4. queue' \in Seq(Command)
      BY <2>4, HeadIsCommand DEF ExecOpen, Recv
    <3>5. DOMAIN handles' \subseteq 1..nextId' /\ handles' \in [DOMAIN handles' -> Fh]
      BY <3>1 DEF Insert
    <3>6. QED
      BY <2>4, <3>1, <3>2, <3>3, <3>4, <3>5 DEF ExecOpen
  <2>5. CASE ExecOpenFails(c)
    <3>1. reply' \in [Task -> Reply]
      BY <2>2, <2>5, AnswerType, ReplyValues DEF ExecOpenFails
    <3>2. queue' \in Seq(Command)
      BY <2>5, HeadIsCommand DEF ExecOpenFails, Recv
    <3>3. QED
      BY <2>5, <3>1, <3>2 DEF ExecOpenFails
  <2>6. CASE ExecClose(c)
    <3>1. reply' \in [Task -> Reply]
      BY <2>2, <2>6, AnswerType, ReplyValues DEF ExecClose
    <3>2. queue' \in Seq(Command)
      BY <2>6, HeadIsCommand DEF ExecClose, Recv
    <3>3. DOMAIN handles' \subseteq 1..nextId /\ handles' \in [DOMAIN handles' -> Fh]
          /\ serves' \in [Fh -> File \cup {None}]
      <4>1. CASE c.id \in DOMAIN handles
        BY <2>6, <4>1, CloseType DEF ExecClose
      <4>2. CASE c.id \notin DOMAIN handles
        BY <2>6, <4>2 DEF ExecClose
      <4>3. QED
        BY <4>1, <4>2
    <3>4. QED
      BY <2>6, <3>1, <3>2, <3>3 DEF ExecClose
  <2>7. CASE ExecUse(c)
    <3>1. c.id \in DOMAIN handles => serves[handles[c.id]] \in File \cup {None}
      OBVIOUS
    <3>2. reply' \in [Task -> Reply]
      BY <2>2, <2>7, <3>1, AnswerType, ReplyValues DEF ExecUse
    <3>3. queue' \in Seq(Command)
      BY <2>7, HeadIsCommand DEF ExecUse, Recv
    <3>4. QED
      BY <2>7, <3>2, <3>3 DEF ExecUse
  <2>8. CASE ExecShutdown(c)
    <3>1. reply' \in [Task -> Reply]
      BY <2>2, <2>8, AnswerType, ReplyValues DEF ExecShutdown
    <3>2. queue' \in Seq(Command)
      BY <2>8, HeadIsCommand DEF ExecShutdown, Recv
    <3>3. QED
      BY <2>8, <3>1, <3>2 DEF ExecShutdown
  <2>9. QED
    BY <2>1, <2>3, <2>4, <2>5, <2>6, <2>7, <2>8
<1>3. CASE Disconnected
  BY <1>3 DEF Disconnected
<1>4. CASE CloseAllStep
  BY <1>4, CloseType DEF CloseAllStep
<1>5. CASE DestroyContext
  BY <1>5 DEF DestroyContext
<1>6. CASE ThreadExits
  BY <1>6, ReplyValues DEF ThreadExits
<1>7. QED
  BY <1>1, <1>2, <1>3, <1>4, <1>5, <1>6 DEF ThreadNext

\* A call that is sent, or that fails because the thread is gone, keeps the types.
LEMMA SendType ==
    ASSUME TypeOK, NEW t \in Task, NEW o \in Op, NEW id \in Nat,
           NEW f \in File \cup {None}, o = "open" => f \in File, Send(t, o, id, f)
    PROVE  /\ queue' \in Seq(Command)
           /\ pc' \in [Task -> {"idle", "checked", "await", "takejoin", "joining"}]
           /\ op' \in [Task -> Op]
           /\ on' \in [Task -> File \cup {None}]
           /\ reply' \in [Task -> Reply]
<1>1. CASE ReceiverAlive
  <2>1. [op |-> o, id |-> id, path |-> IF o = "open" THEN f ELSE None, by |-> t] \in Command
    <3>1. CASE o = "open"
      BY <3>1 DEF Command
    <3>2. CASE o # "open"
      BY <3>2 DEF Command
    <3>3. QED
      BY <3>1, <3>2
  <2>2. queue' = Append(queue, [op |-> o, id |-> id,
                                path |-> IF o = "open" THEN f ELSE None, by |-> t])
    BY <1>1 DEF Send
  <2>3. queue' \in Seq(Command)
    BY <2>1, <2>2, AppendProperties DEF TypeOK
  <2>4. QED
    BY <1>1, <2>3 DEF Send, TypeOK
<1>2. CASE ~ReceiverAlive
  BY <1>2, ReplyValues DEF Send, Return, TypeOK, Op
<1>3. QED
  BY <1>1, <1>2

\* The callers, Session::call and RemoteFile, keep every variable in its type.
LEMMA CallerType == TypeOK /\ CallShape /\ CallerNext => TypeOK'
<1> SUFFICES ASSUME TypeOK, CallShape, CallerNext PROVE TypeOK'
  OBVIOUS
<1> USE DEF TypeOK, threadVars, fileVars, taskVars
<1>1. CASE ConnectReturns \/ DropBackend
  BY <1>1 DEF ConnectReturns, DropBackend
<1>2. ASSUME NEW t \in Task, CallPath(t)
      PROVE  TypeOK'
  BY <1>2, SendType DEF CallPath, Op
<1>3. ASSUME NEW t \in Task, CallShutdown(t)
      PROVE  TypeOK'
  <2>1. [op |-> "shutdown", id |-> 0, path |-> None, by |-> t] \in Command
    BY DEF Command, Op
  <2>2. queue' \in Seq(Command)
    BY <1>3, <2>1, AppendProperties DEF CallShutdown
  <2>3. QED
    BY <1>3, <2>2 DEF CallShutdown, Op
<1>4. ASSUME NEW t \in Task, NEW f \in File, CallOpen(t, f)
      PROVE  TypeOK'
  BY <1>4, SendType DEF CallOpen, Op
<1>5. ASSUME NEW t \in Task, NEW f \in File, CallUse(t, f) \/ CallClose(t, f)
      PROVE  TypeOK'
  <2>1. CASE CallUse(t, f)
    BY <2>1 DEF CallUse, Op
  <2>2. CASE CallClose(t, f)
    BY <2>2 DEF CallClose, Op
  <2>3. QED
    BY <1>5, <2>1, <2>2
<1>6. ASSUME NEW t \in Task, SendChecked(t)
      PROVE  TypeOK'
  <2>1. on[t] \in File /\ op[t] \in {"use", "close"}
    BY <1>6 DEF SendChecked, CallShape, Busy, FileOps
  <2>2. Send(t, op[t], fileId[on[t]], on[t])
    BY <1>6 DEF SendChecked
  <2>3. QED
    BY <1>6, <2>1, <2>2, SendType DEF SendChecked
<1>7. ASSUME NEW t \in Task, Receive(t)
      PROVE  TypeOK'
  <2>1. reply[t].id \in Nat
    BY DEF Reply
  <2>2. fileId' \in [File -> Nat] /\ closed' = closed
        /\ file' \in [File -> {"unborn", "opening", "alive", "dropped", "abandoned"}]
    BY <1>7, <2>1 DEF Receive, FileOpened
  <2>3. QED
    BY <1>7, <2>2, ReplyValues DEF Receive, Return, Op
<1>8. ASSUME NEW t \in Task, ShutdownAnswered(t) \/ TakeJoin(t) \/ JoinReturns(t)
      PROVE  TypeOK'
  <2>1. CASE ShutdownAnswered(t)
    BY <2>1, ReplyValues DEF ShutdownAnswered, Return, Op
  <2>2. CASE TakeJoin(t)
    BY <2>2, ReplyValues DEF TakeJoin, Return, Op
  <2>3. CASE JoinReturns(t)
    BY <2>3, ReplyValues DEF JoinReturns, Return, Op
  <2>4. QED
    BY <1>8, <2>1, <2>2, <2>3
<1>9. ASSUME NEW t \in Task, Abandon(t)
      PROVE  TypeOK'
  <2>1. queue' \in Seq(Command)
    BY <1>9, AbandonedQueue DEF Abandon
  <2>2. QED
    BY <1>9, <2>1, ReplyValues DEF Abandon, Return, Op
<1>10. ASSUME NEW f \in File, DropFile(f)
       PROVE  TypeOK'
  <2>1. [op |-> "close", id |-> fileId[f], path |-> None, by |-> None] \in Command
    BY DEF Command, Op
  <2>2. queue' \in Seq(Command)
    BY <1>10, <2>1, AppendProperties DEF DropFile
  <2>3. QED
    BY <1>10, <2>2 DEF DropFile
<1>11. QED
  BY <1>1, <1>2, <1>3, <1>4, <1>5, <1>6, <1>7, <1>8, <1>9, <1>10 DEF CallerNext, Proceed

-----------------------------------------------------------------------------
(* The command channel, element by element *)

\* What is left of the channel when the first command has been taken off.
LEMMA TailFacts ==
    ASSUME NEW q \in Seq(Command), q # <<>>
    PROVE  /\ Tail(q) \in Seq(Command)
           /\ 1 \in 1..Len(q) /\ Head(q) = q[1] /\ Head(q) \in Command
           /\ Len(Tail(q)) = Len(q) - 1
           /\ \A i \in 1..Len(Tail(q)) : i + 1 \in 1..Len(q) /\ Tail(q)[i] = q[i + 1]
  OBVIOUS

\* What the channel holds after a command has been sent.
LEMMA AppendFacts ==
    ASSUME NEW q \in Seq(Command), NEW c \in Command
    PROVE  /\ Append(q, c) \in Seq(Command)
           /\ Len(Append(q, c)) = Len(q) + 1
           /\ \A i \in 1..Len(q) : Append(q, c)[i] = q[i] /\ i \in 1..(Len(q) + 1)
           /\ Append(q, c)[Len(q) + 1] = c /\ Len(q) + 1 \in 1..(Len(q) + 1)
           /\ \A i \in 1..(Len(q) + 1) : i \in 1..Len(q) \/ i = Len(q) + 1
  OBVIOUS

\* The command the thread takes: whoever awaits it is still waiting, and no other
\* command will answer the same task.
LEMMA RecvFacts ==
    ASSUME TypeOK, QueueShape, NEW c, NEW o, Recv(c, o)
    PROVE  /\ thread = "running"
           /\ c \in Command /\ c.op = o /\ 1 \in 1..Len(queue) /\ c = queue[1]
           /\ queue' \in Seq(Command)
           /\ \A i \in 1..Len(queue') : i + 1 \in 1..Len(queue) /\ queue'[i] = queue[i + 1]
           /\ \A i \in 1..Len(queue) : i = 1 \/ (i - 1 \in 1..Len(queue') /\ queue'[i - 1] = queue[i])
           /\ o = "open" => c.path \in File /\ (c.by = None => file[c.path] = "abandoned")
           /\ c.by # None =>
                 /\ c.by \in Task /\ pc[c.by] = "await" /\ op[c.by] = o
                 /\ reply[c.by] = Pending
                 /\ o \in FileOps => c.id = fileId[on[c.by]]
                 /\ o = "open" => c.path = on[c.by]
                 /\ \A i \in 1..Len(queue') : queue'[i].by # c.by
<1>1. queue \in Seq(Command) /\ queue # <<>> /\ queue' = Tail(queue) /\ c = Head(queue)
  BY DEF TypeOK, Recv
<1>2. /\ thread = "running" /\ c.op = o
      /\ c \in Command /\ 1 \in 1..Len(queue) /\ c = queue[1]
      /\ queue' \in Seq(Command)
      /\ Len(queue') = Len(queue) - 1
      /\ \A i \in 1..Len(queue') : i + 1 \in 1..Len(queue) /\ queue'[i] = queue[i + 1]
  BY <1>1, TailFacts DEF Recv
<1>3. \A i \in 1..Len(queue) : i = 1 \/ (i - 1 \in 1..Len(queue') /\ queue'[i - 1] = queue[i])
  BY <1>2, <1>1
<1>4. c.by \in Task \cup {None}
  BY <1>2 DEF Command
<1>5. /\ o = "open" => c.path \in File /\ (c.by = None => file[c.path] = "abandoned")
      /\ c.by # None =>
            /\ pc[c.by] = "await" /\ op[c.by] = o /\ reply[c.by] = Pending
            /\ o \in FileOps => c.id = fileId[on[c.by]]
            /\ o = "open" => c.path = on[c.by]
            /\ \A j \in 1..Len(queue) : queue[j].by = c.by => j = 1
  BY <1>2 DEF QueueShape
<1>6. ASSUME c.by # None, NEW i \in 1..Len(queue')
      PROVE  queue'[i].by # c.by
  BY <1>2, <1>5, <1>6
<1>7. QED
  BY <1>2, <1>3, <1>4, <1>5, <1>6

\* Answering changes nothing but the reply channel of the task that awaits it.
LEMMA AnswerFacts ==
    ASSUME TypeOK, NEW c \in Command, NEW r \in Reply, Answer(c, r)
    PROVE  /\ \A t \in Task : t # c.by => reply'[t] = reply[t]
           /\ c.by \in Task => reply'[c.by] = r
           /\ c.by = None => reply' = reply
  BY NoneAssumption DEF Answer, TypeOK, Command

\* What every command has in common.
LEMMA ExecFacts ==
    ASSUME TypeOK, QueueShape, Exec
    PROVE  \E c \in Command, o \in Op, r \in Reply :
              /\ Recv(c, o) /\ Answer(c, r) /\ r.st \in {"ok", "err"}
              /\ file' = file /\ fileId' = fileId /\ closed' = closed
              /\ pc' = pc /\ op' = op /\ on' = on
              /\ ready' = ready /\ backend' = backend /\ join' = join
              /\ IF o = "shutdown" THEN thread' = "closing" ELSE thread' = thread
<1>1. PICK c \in {queue[i] : i \in 1..Len(queue)} :
         \/ ExecPath(c) \/ ExecOpen(c) \/ ExecOpenFails(c) \/ ExecClose(c)
         \/ ExecUse(c) \/ ExecShutdown(c)
  BY DEF Exec
<1>2. c \in Command
  BY <1>1 DEF TypeOK
<1>. DEFINE Common(o, r) ==
         /\ Recv(c, o) /\ Answer(c, r) /\ r.st \in {"ok", "err"}
         /\ file' = file /\ fileId' = fileId /\ closed' = closed
         /\ pc' = pc /\ op' = op /\ on' = on
         /\ ready' = ready /\ backend' = backend /\ join' = join
         /\ IF o = "shutdown" THEN thread' = "closing" ELSE thread' = thread
<1>3. \A id \in Nat, from \in File \cup {None} :
         Ok(id, from) \in Reply /\ Ok(id, from).st = "ok"
  BY ReplyValues DEF Ok
<1>4. Failed \in Reply /\ Failed.st = "err"
  BY ReplyValues DEF Failed
<1>5. \E o \in Op, r \in Reply : Common(o, r)
  <2> USE DEF threadVars, fileVars, taskVars
  <2>1. CASE ExecPath(c)
    <3>1. Common("path", Ok(0, None)) \/ Common("path", Failed)
      BY <2>1, <1>3, <1>4 DEF ExecPath
    <3>2. QED
      BY <3>1, <1>3, <1>4 DEF Op
  <2>2. CASE ExecOpen(c)
    <3>1. nextId' \in Nat /\ c.path \in File \cup {None}
      BY <2>2, <1>2 DEF ExecOpen, Insert, TypeOK, Command
    <3>2. Common("open", Ok(nextId', c.path))
      BY <2>2, <1>3, <3>1 DEF ExecOpen
    <3>3. QED
      BY <3>1, <3>2, <1>3 DEF Op
  <2>3. CASE ExecOpenFails(c)
    <3>1. Common("open", Failed)
      BY <2>3, <1>4 DEF ExecOpenFails
    <3>2. QED
      BY <3>1, <1>4 DEF Op
  <2>4. CASE ExecClose(c)
    <3>1. Common("close", Ok(0, None)) \/ Common("close", Failed)
      BY <2>4, <1>3, <1>4 DEF ExecClose
    <3>2. QED
      BY <3>1, <1>3, <1>4 DEF Op
  <2>5. CASE ExecUse(c)
    <3>1. c.id \in DOMAIN handles => serves[handles[c.id]] \in File \cup {None}
      BY DEF TypeOK
    <3>2. /\ Recv(c, "use")
          /\ UNCHANGED <<thread, ready, handles, nextId, serves, backend, join,
                         file, fileId, closed, pc, op, on>>
          /\ \/ c.id \in DOMAIN handles /\ Answer(c, Ok(0, serves[handles[c.id]]))
             \/ Answer(c, Failed)
      BY <2>5 DEF ExecUse
    <3>3. CASE Answer(c, Failed)
      <4>1. Common("use", Failed)
        BY <3>2, <3>3, <1>4
      <4>2. QED
        BY <4>1, <1>4 DEF Op
    <3>4. CASE c.id \in DOMAIN handles /\ Answer(c, Ok(0, serves[handles[c.id]]))
      <4>1. /\ Ok(0, serves[handles[c.id]]) \in Reply
            /\ Ok(0, serves[handles[c.id]]).st = "ok"
        BY <3>1, <3>4, <1>3
      <4>2. Common("use", Ok(0, serves[handles[c.id]]))
        BY <3>2, <3>4, <4>1
      <4>3. QED
        BY <4>1, <4>2 DEF Op
    <3>5. QED
      BY <3>2, <3>3, <3>4
  <2>6. CASE ExecShutdown(c)
    <3>1. Common("shutdown", Ok(0, None))
      BY <2>6, <1>3 DEF ExecShutdown
    <3>2. QED
      BY <3>1, <1>3 DEF Op
  <2>7. QED
    BY <1>1, <2>1, <2>2, <2>3, <2>4, <2>5, <2>6
<1>6. QED
  BY <1>2, <1>5

-----------------------------------------------------------------------------
(* The shape of the calls *)

\* A return touches the calling task only.
LEMMA ReturnFacts ==
    ASSUME TypeOK, NEW t \in Task, Return(t)
    PROVE  /\ pc'[t] = "idle" /\ op'[t] = "path" /\ on'[t] = None /\ reply'[t] = Pending
           /\ \A u \in Task : u # t =>
                 pc'[u] = pc[u] /\ op'[u] = op[u] /\ on'[u] = on[u] /\ reply'[u] = reply[u]
  BY DEF Return, TypeOK

\* Sending concerns the calling task and the channel alone.
LEMMA SendFacts ==
    ASSUME TypeOK, NEW t \in Task, NEW o, NEW id, NEW f, Send(t, o, id, f)
    PROVE  /\ \A u \in Task : u # t =>
                 pc'[u] = pc[u] /\ op'[u] = op[u] /\ on'[u] = on[u] /\ reply'[u] = reply[u]
           /\ ReceiverAlive =>
                 /\ pc'[t] = "await" /\ op'[t] = o /\ on'[t] = f /\ reply' = reply
                 /\ queue' = Append(queue, [op |-> o, id |-> id,
                                            path |-> IF o = "open" THEN f ELSE None, by |-> t])
           /\ ~ReceiverAlive =>
                 /\ pc'[t] = "idle" /\ op'[t] = "path" /\ on'[t] = None /\ reply'[t] = Pending
                 /\ queue' = queue
  BY ReturnFacts DEF Send, TypeOK

\* Executing a command answers the call it came from and changes no other.
LEMMA CallShapeExec == TypeOK /\ CallShape /\ QueueShape /\ Exec => CallShape'
<1> SUFFICES ASSUME TypeOK, CallShape, QueueShape, Exec PROVE CallShape'
  OBVIOUS
<1>1. PICK c \in Command, o \in Op, r \in Reply :
         /\ Recv(c, o) /\ Answer(c, r)
         /\ file' = file /\ pc' = pc /\ op' = op /\ on' = on
  BY ExecFacts
<1>2. c.by # None => pc[c.by] = "await"
  BY <1>1, RecvFacts
<1>3. \A t \in Task : pc[t] # "await" => reply'[t] = reply[t]
  <2> SUFFICES ASSUME NEW t \in Task, pc[t] # "await" PROVE reply'[t] = reply[t]
    OBVIOUS
  <2>1. CASE c.by = None
    BY <1>1, <2>1, AnswerFacts
  <2>2. CASE c.by # None
    BY <1>1, <1>2, <2>2, AnswerFacts
  <2>3. QED
    BY <2>1, <2>2
<1>4. QED
  BY <1>1, <1>3 DEF CallShape, Busy

\* Whatever the thread does, the calls under way keep their shape.
LEMMA CallShapeThread == TypeOK /\ CallShape /\ QueueShape /\ ThreadNext => CallShape'
<1> SUFFICES ASSUME TypeOK, CallShape, QueueShape, ThreadNext PROVE CallShape'
  OBVIOUS
<1> USE DEF threadVars, fileVars, taskVars
<1>1. CASE Exec
  BY <1>1, CallShapeExec
<1>2. CASE ThreadExits
  <2>1. \A t \in Task : pc[t] # "await" => reply'[t] = reply[t]
    <3> SUFFICES ASSUME NEW t \in Task, pc[t] # "await" PROVE reply'[t] = reply[t]
      OBVIOUS
    <3>1. ~ \E i \in 1..Len(queue) : queue[i].by = t
      BY NoneAssumption DEF QueueShape
    <3>2. QED
      BY <1>2, <3>1 DEF ThreadExits
  <2>2. QED
    BY <1>2, <2>1 DEF ThreadExits, CallShape, Busy
<1>3. CASE ThreadConnects \/ Disconnected \/ CloseAllStep \/ DestroyContext
  BY <1>3 DEF ThreadConnects, Disconnected, CloseAllStep, DestroyContext, CallShape, Busy
<1>4. QED
  BY <1>1, <1>2, <1>3 DEF ThreadNext

\* A caller that starts, goes on with, ends or abandons a call keeps its shape.
LEMMA CallShapeCaller == TypeOK /\ CallShape /\ CallerNext => CallShape'
<1> SUFFICES ASSUME TypeOK, CallShape, CallerNext PROVE CallShape'
  OBVIOUS
<1> USE DEF threadVars, fileVars, taskVars
<1>1. CASE ConnectReturns \/ DropBackend
  BY <1>1 DEF ConnectReturns, DropBackend, CallShape, Busy
<1>2. ASSUME NEW t \in Task, CallPath(t)
      PROVE  CallShape'
  <2>1. file' = file /\ Send(t, "path", 0, None)
    BY <1>2 DEF CallPath
  <2>2. /\ \A u \in Task : u # t =>
              pc'[u] = pc[u] /\ op'[u] = op[u] /\ on'[u] = on[u] /\ reply'[u] = reply[u]
        /\ IF ReceiverAlive
           THEN pc'[t] = "await" /\ op'[t] = "path" /\ on'[t] = None /\ reply' = reply
           ELSE pc'[t] = "idle" /\ op'[t] = "path" /\ on'[t] = None /\ reply'[t] = Pending
    <3>1. Send(t, "path", 0, None)
      BY <2>1
    <3>2. CASE ReceiverAlive
      BY <3>1, <3>2, SendFacts
    <3>3. CASE ~ReceiverAlive
      BY <3>1, <3>3, SendFacts
    <3>4. QED
      BY <3>2, <3>3
  <2>3. QED
    BY <2>1, <2>2 DEF CallShape, Busy, FileOps
<1>3. ASSUME NEW t \in Task, CallShutdown(t)
      PROVE  CallShape'
  BY <1>3 DEF CallShutdown, CallShape, Busy, FileOps, TypeOK
<1>4. ASSUME NEW t \in Task, NEW f \in File, CallOpen(t, f)
      PROVE  CallShape'
  <2>1. Send(t, "open", 0, f) /\ file[f] = "unborn"
        /\ file' = [file EXCEPT ![f] = IF ReceiverAlive THEN "opening" ELSE "unborn"]
    BY <1>4 DEF CallOpen
  <2>2. file'[f] = (IF ReceiverAlive THEN "opening" ELSE "unborn")
        /\ \A g \in File : g # f => file'[g] = file[g]
    BY <2>1 DEF TypeOK
  <2>3. /\ \A u \in Task : u # t =>
              pc'[u] = pc[u] /\ op'[u] = op[u] /\ on'[u] = on[u] /\ reply'[u] = reply[u]
        /\ IF ReceiverAlive
           THEN pc'[t] = "await" /\ op'[t] = "open" /\ on'[t] = f /\ reply' = reply
           ELSE pc'[t] = "idle" /\ op'[t] = "path" /\ on'[t] = None /\ reply'[t] = Pending
    <3>1. Send(t, "open", 0, f)
      BY <2>1
    <3>2. CASE ReceiverAlive
      BY <3>1, <3>2, SendFacts
    <3>3. CASE ~ReceiverAlive
      BY <3>1, <3>3, SendFacts
    <3>4. QED
      BY <3>2, <3>3
  <2>4. CASE ReceiverAlive
    <3>1. ASSUME NEW u \in Task, u # t
          PROVE  /\ pc'[u] = pc[u] /\ op'[u] = op[u] /\ on'[u] = on[u] /\ reply'[u] = reply[u]
                 /\ Busy(u) /\ op[u] \in FileOps => on[u] # f
                 /\ Busy(u) /\ op[u] = "open" => on[u] # f
      BY <2>1, <2>3, <3>1 DEF CallShape, Busy, FileOps
    <3>2. pc'[t] = "await" /\ op'[t] = "open" /\ on'[t] = f /\ file'[f] = "opening"
      BY <2>2, <2>3, <2>4
    <3>3. QED
      BY <2>2, <3>1, <3>2 DEF CallShape, Busy, FileOps
  <2>5. CASE ~ReceiverAlive
    BY <2>1, <2>2, <2>3, <2>5 DEF CallShape, Busy, FileOps
  <2>6. QED
    BY <2>4, <2>5
<1>5. ASSUME NEW t \in Task, NEW f \in File, CallUse(t, f) \/ CallClose(t, f)
      PROVE  CallShape'
  <2>1. CASE CallUse(t, f)
    BY <2>1 DEF CallUse, CallShape, Busy, FileOps, TypeOK
  <2>2. CASE CallClose(t, f)
    BY <2>2 DEF CallClose, CallShape, Busy, FileOps, TypeOK
  <2>3. QED
    BY <1>5, <2>1, <2>2
<1>6. ASSUME NEW t \in Task, SendChecked(t)
      PROVE  CallShape'
  <2>1. file' = file /\ Send(t, op[t], fileId[on[t]], on[t]) /\ pc[t] = "checked"
    BY <1>6 DEF SendChecked
  <2>2. /\ \A u \in Task : u # t =>
              pc'[u] = pc[u] /\ op'[u] = op[u] /\ on'[u] = on[u] /\ reply'[u] = reply[u]
        /\ IF ReceiverAlive
           THEN pc'[t] = "await" /\ op'[t] = op[t] /\ on'[t] = on[t] /\ reply' = reply
           ELSE pc'[t] = "idle" /\ op'[t] = "path" /\ on'[t] = None /\ reply'[t] = Pending
    BY <2>1, SendFacts
  <2>3. on[t] \in File /\ file[on[t]] = "alive" /\ op[t] \in FileOps
    BY <2>1 DEF CallShape, Busy, FileOps
  <2>4. QED
    BY <2>1, <2>2, <2>3 DEF CallShape, Busy, FileOps
<1>7. ASSUME NEW t \in Task, Receive(t)
      PROVE  CallShape'
  <2>1. Return(t) /\ pc[t] = "await"
    BY <1>7 DEF Receive
  <2>2. CASE op[t] = "open"
    <3>1. on[t] \in File /\ file[on[t]] = "opening"
      BY <2>1, <2>2 DEF CallShape, Busy
    <3>2. \A g \in File : g # on[t] => file'[g] = file[g]
      BY <1>7, <2>2 DEF Receive, FileOpened, TypeOK
    <3>3. QED
      BY <2>1, <2>2, <3>1, <3>2, ReturnFacts DEF CallShape, Busy, FileOps
  <2>3. CASE op[t] # "open"
    <3>1. file' = file
      BY <1>7, <2>3 DEF Receive
    <3>2. QED
      BY <2>1, <3>1, ReturnFacts DEF CallShape, Busy, FileOps
  <2>4. QED
    BY <2>2, <2>3
<1>8. ASSUME NEW t \in Task, ShutdownAnswered(t) \/ TakeJoin(t) \/ JoinReturns(t)
      PROVE  CallShape'
  <2>1. CASE ShutdownAnswered(t)
    BY <2>1 DEF ShutdownAnswered, CallShape, Busy, FileOps, TypeOK
  <2>2. CASE TakeJoin(t)
    <3>1. CASE join = "held"
      BY <2>2, <3>1 DEF TakeJoin, CallShape, Busy, FileOps, TypeOK
    <3>2. CASE join # "held"
      BY <2>2, <3>2, ReturnFacts DEF TakeJoin, CallShape, Busy
    <3>3. QED
      BY <3>1, <3>2
  <2>3. CASE JoinReturns(t)
    BY <2>3, ReturnFacts DEF JoinReturns, CallShape, Busy
  <2>4. QED
    BY <1>8, <2>1, <2>2, <2>3
<1>9. ASSUME NEW t \in Task, Abandon(t)
      PROVE  CallShape'
  <2>1. Return(t) /\ pc[t] # "idle"
    BY <1>9 DEF Abandon
  <2>2. \A g \in File : file'[g] = file[g] \/ (op[t] = "open" /\ g = on[t] /\ on[t] \in File)
    BY <1>9 DEF Abandon, TypeOK
  <2>3. op[t] = "open" => on[t] \in File /\ file[on[t]] = "opening"
    BY <2>1 DEF CallShape, Busy
  <2>4. QED
    BY <2>1, <2>2, <2>3, ReturnFacts DEF CallShape, Busy, FileOps
<1>10. ASSUME NEW f \in File, DropFile(f)
       PROVE  CallShape'
  <2>1. /\ file[f] = "alive" /\ \A t \in Task : ~UsesFile(t, f)
        /\ \A g \in File : g # f => file'[g] = file[g]
        /\ pc' = pc /\ op' = op /\ on' = on /\ reply' = reply
    BY <1>10 DEF DropFile, TypeOK
  <2>2. QED
    BY <2>1 DEF CallShape, Busy, UsesFile
<1>11. QED
  BY <1>1, <1>2, <1>3, <1>4, <1>5, <1>6, <1>7, <1>8, <1>9, <1>10 DEF CallerNext, Proceed

-----------------------------------------------------------------------------
(* The shape of the queue *)

\* Taking commands off the channel leaves the others with a task that awaits them.
LEMMA QueueShapeThread == TypeOK /\ QueueShape /\ ThreadNext => QueueShape'
<1> SUFFICES ASSUME TypeOK, QueueShape, ThreadNext PROVE QueueShape'
  OBVIOUS
<1> USE DEF threadVars, fileVars, taskVars
<1>1. CASE Exec
  <2>1. PICK c \in Command, o \in Op, r \in Reply :
           /\ Recv(c, o) /\ Answer(c, r)
           /\ file' = file /\ fileId' = fileId /\ pc' = pc /\ op' = op /\ on' = on
    BY <1>1, ExecFacts
  <2>2. /\ \A i \in 1..Len(queue') : i + 1 \in 1..Len(queue) /\ queue'[i] = queue[i + 1]
        /\ c.by # None => \A i \in 1..Len(queue') : queue'[i].by # c.by
        /\ queue' \in Seq(Command)
    BY <2>1, RecvFacts
  <2>3. ASSUME NEW i \in 1..Len(queue'), queue'[i].by # None
        PROVE  reply'[queue'[i].by] = reply[queue'[i].by]
    <3>0. queue'[i] \in Command
      BY <2>2
    <3>1. queue'[i].by \in Task
      BY <2>3, <3>0 DEF Command
    <3>2. queue'[i].by # c.by
      BY <2>2, <2>3
    <3>3. QED
      BY <2>1, <3>1, <3>2, AnswerFacts
  <2>4. ASSUME NEW i \in 1..Len(queue'), NEW j \in 1..Len(queue'),
               queue'[i].by # None, queue'[j].by = queue'[i].by
        PROVE  j = i
    <3>1. /\ i + 1 \in 1..Len(queue) /\ queue'[i] = queue[i + 1]
          /\ j + 1 \in 1..Len(queue) /\ queue'[j] = queue[j + 1]
      BY <2>2
    <3>2. j + 1 = i + 1
      BY <2>4, <3>1 DEF QueueShape
    <3>3. QED
      BY <3>2
  <2>5. QED
    BY <2>1, <2>2, <2>3, <2>4 DEF QueueShape
<1>2. CASE ThreadExits
  BY <1>2 DEF ThreadExits, QueueShape
<1>3. CASE ThreadConnects \/ Disconnected \/ CloseAllStep \/ DestroyContext
  BY <1>3 DEF ThreadConnects, Disconnected, CloseAllStep, DestroyContext, QueueShape
<1>4. QED
  BY <1>1, <1>2, <1>3 DEF ThreadNext

\* A task that is not waiting has no command in the queue.
LEMMA NoCommandOf ==
    ASSUME TypeOK, QueueShape, NEW t \in Task, pc[t] # "await" \/ reply[t] # Pending
    PROVE  \A i \in 1..Len(queue) : queue[i].by # t
  BY NoneAssumption DEF QueueShape

\* Sending keeps the shape of the queue: the sender had nothing in it.
LEMMA QueueShapeAppend ==
    ASSUME TypeOK, QueueShape, NEW t \in Task, NEW c \in Command, c.by = t,
           pc[t] # "await", queue' = Append(queue, c),
           pc'[t] = "await", op'[t] = c.op, reply'[t] = Pending,
           c.op \in FileOps => c.id = fileId'[on'[t]],
           c.op = "open" => c.path \in File /\ c.path = on'[t],
           fileId' = fileId,
           \A g \in File : file[g] = "abandoned" => file'[g] = "abandoned",
           \A u \in Task : u # t =>
              pc'[u] = pc[u] /\ op'[u] = op[u] /\ on'[u] = on[u] /\ reply'[u] = reply[u]
    PROVE  QueueShape'
<1>1. \A i \in 1..Len(queue) : queue[i].by # t
  BY NoCommandOf
<1>2. /\ Len(queue') = Len(queue) + 1
      /\ \A i \in 1..Len(queue) : queue'[i] = queue[i] /\ queue[i] \in Command
      /\ queue'[Len(queue) + 1] = c
      /\ \A i \in 1..Len(queue') : i \in 1..Len(queue) \/ i = Len(queue) + 1
  BY AppendFacts DEF TypeOK
<1>3. t # None
  BY NoneAssumption
<1>4. ASSUME NEW i \in 1..Len(queue'), NEW j \in 1..Len(queue'),
             queue'[i].by # None, queue'[j].by = queue'[i].by
      PROVE  j = i
  BY <1>1, <1>2, <1>4 DEF QueueShape
<1>5. ASSUME NEW i \in 1..Len(queue)
      PROVE  /\ queue[i].op = "open" => queue[i].path \in File
             /\ queue[i].op = "open" /\ queue[i].by = None => file'[queue[i].path] = "abandoned"
             /\ queue[i].by # None =>
                  /\ pc'[queue[i].by] = "await" /\ op'[queue[i].by] = queue[i].op
                  /\ reply'[queue[i].by] = Pending
                  /\ queue[i].op \in FileOps => queue[i].id = fileId'[on'[queue[i].by]]
                  /\ queue[i].op = "open" => queue[i].path = on'[queue[i].by]
  <2>1. queue[i].by \in Task \cup {None} /\ queue[i].by # t
    BY <1>1, <1>2 DEF Command
  <2>2. QED
    BY <2>1 DEF QueueShape
<1>6. QED
  BY <1>2, <1>3, <1>4, <1>5 DEF QueueShape

\* What keeps the queue as it is, and leaves alone the tasks and files it is about.
LEMMA QueueShapeFrame ==
    ASSUME TypeOK, QueueShape, CallShape, queue' = queue,
           NEW t \in Task, \A i \in 1..Len(queue) : queue[i].by # t,
           \A u \in Task : u # t =>
              pc'[u] = pc[u] /\ op'[u] = op[u] /\ on'[u] = on[u] /\ reply'[u] = reply[u],
           \A g \in File : file[g] = "abandoned" => file'[g] = "abandoned",
           \A g \in File : file[g] = "alive" => fileId'[g] = fileId[g]
    PROVE  QueueShape'
<1>1. ASSUME NEW i \in 1..Len(queue)
      PROVE  /\ queue[i].op = "open" => queue[i].path \in File
             /\ queue[i].op = "open" /\ queue[i].by = None => file'[queue[i].path] = "abandoned"
             /\ queue[i].by # None =>
                  /\ pc'[queue[i].by] = "await" /\ op'[queue[i].by] = queue[i].op
                  /\ reply'[queue[i].by] = Pending
                  /\ queue[i].op \in FileOps => queue[i].id = fileId'[on'[queue[i].by]]
                  /\ queue[i].op = "open" => queue[i].path = on'[queue[i].by]
                  /\ \A j \in 1..Len(queue) : queue[j].by = queue[i].by => j = i
  <2>0. queue[i] \in Command
    BY DEF TypeOK
  <2>1. queue[i].by \in Task \cup {None} /\ queue[i].by # t
    BY <2>0 DEF Command
  <2>2. CASE queue[i].by = None
    BY <2>2 DEF QueueShape
  <2>3. CASE queue[i].by # None
    <3>1. DEFINE u == queue[i].by
    <3>2. u \in Task /\ u # t /\ pc[u] = "await" /\ op[u] = queue[i].op
      BY <2>1, <2>3 DEF QueueShape
    <3>3. op[u] \in FileOps => on[u] \in File /\ file[on[u]] = "alive"
      BY <3>2 DEF CallShape, Busy
    <3>4. QED
      BY <2>3, <3>2, <3>3 DEF QueueShape
  <2>4. QED
    BY <2>2, <2>3
<1>2. QED
  BY <1>1 DEF QueueShape

\* Whatever a caller does, each awaited command stays the call of one task.
LEMMA QueueShapeCaller ==
    TypeOK /\ QueueShape /\ CallShape /\ CallerNext => QueueShape'
<1> SUFFICES ASSUME TypeOK, QueueShape, CallShape, CallerNext PROVE QueueShape'
  OBVIOUS
<1> USE DEF threadVars, fileVars, taskVars
<1>1. CASE ConnectReturns \/ DropBackend
  BY <1>1 DEF ConnectReturns, DropBackend, QueueShape
<1>2. ASSUME NEW t \in Task, NEW o \in {"path", "open", "use", "close"}, NEW id \in Nat,
             NEW f \in File \cup {None}, Send(t, o, id, f),
             pc[t] \in {"idle", "checked"},
             o = "open" => f \in File, o \in FileOps => id = fileId[f],
             fileId' = fileId,
             \A g \in File : file[g] = "abandoned" => file'[g] = "abandoned"
      PROVE  QueueShape'
  <2>1. /\ \A u \in Task : u # t =>
              pc'[u] = pc[u] /\ op'[u] = op[u] /\ on'[u] = on[u] /\ reply'[u] = reply[u]
        /\ ReceiverAlive =>
              /\ pc'[t] = "await" /\ op'[t] = o /\ on'[t] = f /\ reply' = reply
              /\ queue' = Append(queue, [op |-> o, id |-> id,
                                         path |-> IF o = "open" THEN f ELSE None, by |-> t])
        /\ ~ReceiverAlive => queue' = queue
    BY <1>2, SendFacts
  <2>2. CASE ReceiverAlive
    <3>1. DEFINE c == [op |-> o, id |-> id, path |-> IF o = "open" THEN f ELSE None, by |-> t]
    <3>2. /\ c.op = o /\ c.id = id /\ c.by = t
          /\ o = "open" => c.path = f
      OBVIOUS
    <3>3. c \in Command
      <4>1. (IF o = "open" THEN f ELSE None) \in File \cup {None}
        OBVIOUS
      <4>2. QED
        BY <4>1 DEF Command, Op
    <3>4. queue' = Append(queue, c)
      BY <2>1, <2>2
    <3>5. reply'[t] = Pending
      BY <1>2, <2>1, <2>2 DEF CallShape
    <3> HIDE DEF c
    <3>6. QED
      BY <1>2, <2>1, <2>2, <3>2, <3>3, <3>4, <3>5, QueueShapeAppend
  <2>3. CASE ~ReceiverAlive
    <3>1. \A i \in 1..Len(queue) : queue[i].by # t
      BY <1>2, NoCommandOf
    <3>2. QED
      BY <1>2, <2>1, <2>3, <3>1, QueueShapeFrame
  <2>4. QED
    BY <2>2, <2>3
<1>3. ASSUME NEW t \in Task, CallPath(t)
      PROVE  QueueShape'
  BY <1>2, <1>3 DEF CallPath, FileOps
<1>4. ASSUME NEW t \in Task, NEW f \in File, CallOpen(t, f)
      PROVE  QueueShape'
  <2>1. \A g \in File : file[g] = "abandoned" => file'[g] = "abandoned"
    BY <1>4 DEF CallOpen, TypeOK
  <2>2. QED
    BY <1>2, <1>4, <2>1 DEF CallOpen, FileOps
<1>5. ASSUME NEW t \in Task, SendChecked(t)
      PROVE  QueueShape'
  <2>1. on[t] \in File /\ op[t] \in {"use", "close"} /\ fileId[on[t]] \in Nat
    BY <1>5 DEF SendChecked, CallShape, Busy, FileOps, TypeOK
  <2>2. /\ Send(t, op[t], fileId[on[t]], on[t]) /\ pc[t] = "checked"
        /\ file' = file /\ fileId' = fileId
    BY <1>5 DEF SendChecked
  <2>3. QED
    BY <1>2, <2>1, <2>2
<1>6. ASSUME NEW t \in Task, CallShutdown(t)
      PROVE  QueueShape'
  <2>1. /\ \A u \in Task : u # t =>
              pc'[u] = pc[u] /\ op'[u] = op[u] /\ on'[u] = on[u] /\ reply'[u] = reply[u]
        /\ op'[t] = "shutdown" /\ reply'[t] = Pending /\ pc[t] = "idle"
        /\ file' = file /\ fileId' = fileId
    BY <1>6 DEF CallShutdown, TypeOK, CallShape
  <2>2. CASE ReceiverAlive
    <3>1. DEFINE c == [op |-> "shutdown", id |-> 0, path |-> None, by |-> t]
    <3>2. c \in Command /\ c.op = "shutdown" /\ c.by = t
      BY DEF Command, Op
    <3>3. queue' = Append(queue, c) /\ pc'[t] = "await"
      BY <1>6, <2>2 DEF CallShutdown, TypeOK
    <3> HIDE DEF c
    <3>4. QED
      BY <2>1, <3>2, <3>3, QueueShapeAppend DEF FileOps
  <2>3. CASE ~ReceiverAlive
    <3>1. queue' = queue
      BY <1>6, <2>3 DEF CallShutdown
    <3>2. \A i \in 1..Len(queue) : queue[i].by # t
      BY <2>1, NoCommandOf
    <3>3. QED
      BY <2>1, <3>1, <3>2, QueueShapeFrame
  <2>4. QED
    BY <2>2, <2>3
<1>7. ASSUME NEW t \in Task, NEW f \in File, CallUse(t, f) \/ CallClose(t, f)
      PROVE  QueueShape'
  <2>1. /\ \A u \in Task : u # t =>
              pc'[u] = pc[u] /\ op'[u] = op[u] /\ on'[u] = on[u] /\ reply'[u] = reply[u]
        /\ pc[t] = "idle" /\ file' = file /\ fileId' = fileId /\ queue' = queue
    <3>1. CASE CallUse(t, f)
      BY <3>1 DEF CallUse, TypeOK
    <3>2. CASE CallClose(t, f)
      BY <3>2 DEF CallClose, TypeOK
    <3>3. QED
      BY <1>7, <3>1, <3>2
  <2>2. \A i \in 1..Len(queue) : queue[i].by # t
    BY <2>1, NoCommandOf
  <2>3. QED
    BY <2>1, <2>2, QueueShapeFrame
<1>8. ASSUME NEW t \in Task, Receive(t)
      PROVE  QueueShape'
  <2>1. Return(t) /\ pc[t] = "await" /\ queue' = queue /\ reply[t] # Pending
    BY <1>8 DEF Receive, Pending
  <2>2. /\ \A g \in File : file[g] = "abandoned" => file'[g] = "abandoned"
        /\ \A g \in File : file[g] = "alive" => fileId'[g] = fileId[g]
    <3>1. CASE op[t] = "open"
      <4>1. on[t] \in File /\ file[on[t]] = "opening"
        BY <2>1, <3>1 DEF CallShape, Busy
      <4>2. QED
        BY <1>8, <3>1, <4>1 DEF Receive, FileOpened, TypeOK
    <3>2. CASE op[t] # "open"
      BY <1>8, <3>2 DEF Receive
    <3>3. QED
      BY <3>1, <3>2
  <2>3. \A i \in 1..Len(queue) : queue[i].by # t
    BY <2>1, NoCommandOf
  <2>4. \A u \in Task : u # t =>
           pc'[u] = pc[u] /\ op'[u] = op[u] /\ on'[u] = on[u] /\ reply'[u] = reply[u]
    BY <2>1, ReturnFacts
  <2>5. QED
    BY <2>1, <2>2, <2>3, <2>4, QueueShapeFrame
<1>9. ASSUME NEW t \in Task, ShutdownAnswered(t) \/ TakeJoin(t) \/ JoinReturns(t)
      PROVE  QueueShape'
  <2>1. pc[t] # "await" \/ reply[t] # Pending
    BY <1>9 DEF ShutdownAnswered, TakeJoin, JoinReturns, Pending
  <2>2. queue' = queue /\ file' = file /\ fileId' = fileId
    BY <1>9 DEF ShutdownAnswered, TakeJoin, JoinReturns
  <2>3. \A u \in Task : u # t =>
           pc'[u] = pc[u] /\ op'[u] = op[u] /\ on'[u] = on[u] /\ reply'[u] = reply[u]
    BY <1>9, ReturnFacts DEF ShutdownAnswered, TakeJoin, JoinReturns, TypeOK
  <2>4. \A i \in 1..Len(queue) : queue[i].by # t
    BY <2>1, NoCommandOf
  <2>5. QED
    BY <2>2, <2>3, <2>4, QueueShapeFrame
<1>10. ASSUME NEW t \in Task, Abandon(t)
       PROVE  QueueShape'
  <2>1. /\ Return(t) /\ fileId' = fileId /\ pc[t] # "idle"
        /\ queue' = [i \in 1..Len(queue) |->
                        IF queue[i].by = t THEN [queue[i] EXCEPT !.by = None] ELSE queue[i]]
    BY <1>10 DEF Abandon
  <2>2. \A u \in Task : u # t =>
           pc'[u] = pc[u] /\ op'[u] = op[u] /\ on'[u] = on[u] /\ reply'[u] = reply[u]
    BY <2>1, ReturnFacts
  <2>3. /\ \A g \in File : file[g] = "abandoned" => file'[g] = "abandoned"
        /\ op[t] = "open" /\ on[t] \in File => file'[on[t]] = "abandoned"
    <3>1. CASE op[t] = "open"
      BY <1>10, <3>1 DEF Abandon, TypeOK
    <3>2. CASE op[t] # "open"
      BY <1>10, <3>2 DEF Abandon
    <3>3. QED
      BY <3>1, <3>2
  <2>4. Len(queue') = Len(queue) /\ Len(queue) \in Nat
    <3>1. DOMAIN queue' = 1..Len(queue) /\ Len(queue) \in Nat /\ queue' \in Seq(Command)
      BY <2>1, AbandonedQueue DEF TypeOK
    <3>2. QED
      BY <3>1
  <2>5. ASSUME NEW i \in 1..Len(queue)
        PROVE  /\ queue[i] \in Command
               /\ queue'[i].op = queue[i].op /\ queue'[i].id = queue[i].id
               /\ queue'[i].path = queue[i].path
               /\ queue'[i].by = IF queue[i].by = t THEN None ELSE queue[i].by
    <3>1. queue[i] \in Command
      BY DEF TypeOK
    <3>2. CASE queue[i].by = t
      <4>1. queue'[i] = [queue[i] EXCEPT !.by = None]
        BY <2>1, <3>2
      <4>2. QED
        BY <3>1, <3>2, <4>1 DEF Command
    <3>3. CASE queue[i].by # t
      BY <2>1, <3>1, <3>3
    <3>4. QED
      BY <3>2, <3>3
  <2>6. ASSUME NEW i \in 1..Len(queue), NEW j \in 1..Len(queue),
               queue'[i].by # None, queue'[j].by = queue'[i].by
        PROVE  j = i
    BY <2>5, <2>6 DEF QueueShape
  <2>7. ASSUME NEW i \in 1..Len(queue)
        PROVE  /\ queue'[i].op = "open" => queue'[i].path \in File
               /\ queue'[i].op = "open" /\ queue'[i].by = None => file'[queue'[i].path] = "abandoned"
               /\ queue'[i].by # None =>
                    /\ pc'[queue'[i].by] = "await" /\ op'[queue'[i].by] = queue'[i].op
                    /\ reply'[queue'[i].by] = Pending
                    /\ queue'[i].op \in FileOps => queue'[i].id = fileId'[on'[queue'[i].by]]
                    /\ queue'[i].op = "open" => queue'[i].path = on'[queue'[i].by]
    <3>1. CASE queue[i].by = t
      <4>1. t # None
        BY NoneAssumption
      <4>2. op[t] = queue[i].op /\ (op[t] = "open" => queue[i].path = on[t] /\ on[t] \in File)
        BY <3>1, <4>1 DEF QueueShape
      <4>3. QED
        BY <2>3, <2>5, <3>1, <4>2
    <3>2. CASE queue[i].by # t
      <4>1. queue[i].by \in Task \cup {None}
        BY <2>5 DEF Command
      <4>2. QED
        BY <2>1, <2>2, <2>3, <2>5, <3>2, <4>1 DEF QueueShape
    <3>3. QED
      BY <3>1, <3>2
  <2>8. 1..Len(queue') = 1..Len(queue)
    BY <2>4
  <2>9. QED
    BY <2>6, <2>7, <2>8 DEF QueueShape
<1>11. ASSUME NEW f \in File, DropFile(f)
       PROVE  QueueShape'
  <2>1. /\ pc' = pc /\ op' = op /\ on' = on /\ reply' = reply /\ fileId' = fileId
        /\ \A g \in File : file[g] = "abandoned" => file'[g] = "abandoned"
    BY <1>11 DEF DropFile, TypeOK
  <2>2. CASE queue' = queue
    BY <2>1, <2>2 DEF QueueShape
  <2>3. CASE queue' # queue
    <3>1. DEFINE c == [op |-> "close", id |-> fileId[f], path |-> None, by |-> None]
    <3>2. queue' = Append(queue, c)
      BY <1>11, <2>3 DEF DropFile
    <3>3. c \in Command /\ c.op = "close" /\ c.by = None
      BY DEF Command, Op, TypeOK
    <3> HIDE DEF c
    <3>4. /\ Len(queue') = Len(queue) + 1
          /\ \A i \in 1..Len(queue) : queue'[i] = queue[i]
          /\ queue'[Len(queue) + 1] = c
          /\ \A i \in 1..Len(queue') : i \in 1..Len(queue) \/ i = Len(queue) + 1
      BY <3>2, <3>3, AppendFacts DEF TypeOK
    <3>5. ASSUME NEW i \in 1..Len(queue'), NEW j \in 1..Len(queue'),
                 queue'[i].by # None, queue'[j].by = queue'[i].by
          PROVE  j = i
      BY <3>3, <3>4, <3>5 DEF QueueShape
    <3>6. ASSUME NEW i \in 1..Len(queue)
          PROVE  /\ queue[i].op = "open" => queue[i].path \in File
                 /\ queue[i].op = "open" /\ queue[i].by = None => file'[queue[i].path] = "abandoned"
                 /\ queue[i].by # None =>
                      /\ pc'[queue[i].by] = "await" /\ op'[queue[i].by] = queue[i].op
                      /\ reply'[queue[i].by] = Pending
                      /\ queue[i].op \in FileOps => queue[i].id = fileId'[on'[queue[i].by]]
                      /\ queue[i].op = "open" => queue[i].path = on'[queue[i].by]
      BY <2>1 DEF QueueShape
    <3>7. QED
      BY <3>3, <3>4, <3>5, <3>6 DEF QueueShape
  <2>4. QED
    BY <2>2, <2>3
<1>12. QED
  BY <1>1, <1>3, <1>4, <1>5, <1>6, <1>7, <1>8, <1>9, <1>10, <1>11 DEF CallerNext, Proceed

-----------------------------------------------------------------------------
(* The table of open files *)

\* OpenFiles::take together with smb2_close keeps table and server in agreement.
LEMMA TableClose ==
    ASSUME TypeOK, TableMatchesServer, NEW id \in DOMAIN handles, CloseHandle(id)
    PROVE  /\ TableMatchesServer'
           /\ \A i \in DOMAIN handles' : serves'[handles'[i]] = serves[handles[i]]
<1>1. /\ DOMAIN handles' = DOMAIN handles \ {id}
      /\ \A i \in DOMAIN handles' : handles'[i] = handles[i] /\ handles[i] \in Fh
      /\ handles[id] \in Fh
      /\ \A h \in Fh : serves'[h] = IF h = handles[id] THEN None ELSE serves[h]
  BY CloseType DEF TypeOK
<1>2. QED
  BY <1>1 DEF TableMatchesServer

\* OpenFiles::insert of a handle smb2_open has just returned keeps them in agreement.
LEMMA TableOpen ==
    ASSUME TypeOK, TableMatchesServer, NEW h \in Fh, NEW f \in File,
           serves[h] = None, serves' = [serves EXCEPT ![h] = f], Insert(h)
    PROVE  /\ TableMatchesServer'
           /\ nextId' = nextId + 1 /\ nextId' \in Nat
           /\ DOMAIN handles' = DOMAIN handles \cup {nextId'} /\ nextId' \notin DOMAIN handles
           /\ handles'[nextId'] = h /\ serves'[handles'[nextId']] = f
           /\ \A i \in DOMAIN handles :
                 handles'[i] = handles[i] /\ serves'[handles'[i]] = serves[handles[i]]
<1>1. /\ nextId' = nextId + 1 /\ nextId' \in Nat
      /\ DOMAIN handles' = DOMAIN handles \cup {nextId'} /\ nextId' \notin DOMAIN handles
      /\ handles'[nextId'] = h
      /\ \A i \in DOMAIN handles : handles'[i] = handles[i] /\ handles[i] \in Fh
  BY DEF Insert, TypeOK
<1>2. \A g \in Fh : serves'[g] = IF g = h THEN f ELSE serves[g]
  BY DEF TypeOK
<1>3. f # None
  BY NoneAssumption
<1>4. QED
  BY <1>1, <1>2, <1>3 DEF TableMatchesServer

\* The thread's steps, as far as the table is concerned.
LEMMA TableThread ==
    TypeOK /\ QueueShape /\ TableMatchesServer /\ TableEmptyOutsideSession /\ ThreadNext
       => TableMatchesServer' /\ TableEmptyOutsideSession'
<1> SUFFICES ASSUME TypeOK, QueueShape, TableMatchesServer, TableEmptyOutsideSession, ThreadNext
             PROVE  TableMatchesServer' /\ TableEmptyOutsideSession'
  OBVIOUS
<1> USE DEF threadVars, fileVars, taskVars
<1>1. CASE Exec
  <2>1. PICK c \in {queue[i] : i \in 1..Len(queue)} :
           \/ ExecPath(c) \/ ExecOpen(c) \/ ExecOpenFails(c) \/ ExecClose(c)
           \/ ExecUse(c) \/ ExecShutdown(c)
    BY <1>1 DEF Exec
  <2>2. CASE ExecOpen(c)
    <3>1. PICK h \in Fh : serves[h] = None /\ serves' = [serves EXCEPT ![h] = c.path] /\ Insert(h)
      BY <2>2 DEF ExecOpen
    <3>2. c.path \in File /\ thread = "running" /\ thread' = thread
      BY <2>2, RecvFacts DEF ExecOpen
    <3>3. QED
      BY <3>1, <3>2, TableOpen DEF TableEmptyOutsideSession, ContextLive
  <2>3. CASE ExecClose(c)
    <3>1. thread = "running" /\ thread' = thread
      BY <2>3 DEF ExecClose, Recv
    <3>2. CASE c.id \in DOMAIN handles
      BY <2>3, <3>1, <3>2, TableClose DEF ExecClose, TableEmptyOutsideSession, ContextLive
    <3>3. CASE c.id \notin DOMAIN handles
      BY <2>3, <3>1, <3>3 DEF ExecClose, TableEmptyOutsideSession, ContextLive, TableMatchesServer
    <3>4. QED
      BY <3>2, <3>3
  <2>4. CASE ExecPath(c) \/ ExecOpenFails(c) \/ ExecUse(c) \/ ExecShutdown(c)
    <3>1. handles' = handles /\ serves' = serves
          /\ thread = "running" /\ thread' \in {"running", "closing"}
      BY <2>4 DEF ExecPath, ExecOpenFails, ExecUse, ExecShutdown, Recv
    <3>2. QED
      BY <3>1 DEF TableEmptyOutsideSession, ContextLive, TableMatchesServer
  <2>5. QED
    BY <2>1, <2>2, <2>3, <2>4
<1>2. CASE ThreadConnects \/ Disconnected \/ DestroyContext \/ ThreadExits
  <2>1. handles' = handles /\ serves' = serves /\ (ContextLive' \/ DOMAIN handles = {})
    BY <1>2 DEF ThreadConnects, Disconnected, DestroyContext, ThreadExits, ContextLive,
                TableEmptyOutsideSession
  <2>2. QED
    BY <2>1 DEF TableEmptyOutsideSession, TableMatchesServer
<1>3. CASE CloseAllStep
  <2>1. PICK id \in DOMAIN handles : CloseHandle(id)
    BY <1>3 DEF CloseAllStep
  <2>2. ContextLive'
    BY <1>3 DEF CloseAllStep, ContextLive
  <2>3. QED
    BY <2>1, <2>2, TableClose DEF TableEmptyOutsideSession
<1>4. QED
  BY <1>1, <1>2, <1>3 DEF ThreadNext

\* Nothing a caller does touches what the thread owns.
LEMMA CallerLeavesThread ==
    ASSUME CallerNext
    PROVE  thread' = thread /\ handles' = handles /\ nextId' = nextId /\ serves' = serves
BY DEF CallerNext, Proceed, ConnectReturns, DropBackend, CallPath, CallShutdown, CallOpen, CallUse,
       CallClose, SendChecked, Receive, ShutdownAnswered, TakeJoin, JoinReturns, Abandon,
       DropFile, threadVars

\* So no caller can disturb the agreement of table and server.
LEMMA TableCaller ==
    TableMatchesServer /\ TableEmptyOutsideSession /\ CallerNext
       => TableMatchesServer' /\ TableEmptyOutsideSession'
BY CallerLeavesThread DEF TableMatchesServer, TableEmptyOutsideSession, ContextLive

-----------------------------------------------------------------------------
(* Ids and answers *)

\* Only a file that somebody holds is ever marked closed.
LEMMA BornOpenStep == TypeOK /\ CallShape /\ BornOpen /\ Next => BornOpen'
<1> SUFFICES ASSUME TypeOK, CallShape, BornOpen, Next PROVE BornOpen'
  OBVIOUS
<1> USE DEF threadVars, fileVars, taskVars
<1>1. CASE file' = file /\ closed' = closed
  BY <1>1 DEF BornOpen
<1>2. ASSUME NEW t \in Task, NEW f \in File, CallOpen(t, f)
      PROVE  BornOpen'
  BY <1>2 DEF CallOpen, BornOpen, TypeOK
<1>3. ASSUME NEW t \in Task, NEW f \in File, CallClose(t, f)
      PROVE  BornOpen'
  BY <1>3 DEF CallClose, BornOpen, TypeOK
<1>4. ASSUME NEW t \in Task, Receive(t)
      PROVE  BornOpen'
  <2>1. CASE op[t] = "open"
    <3>1. on[t] \in File /\ file[on[t]] = "opening"
      BY <1>4, <2>1 DEF Receive, CallShape, Busy
    <3>2. closed' = closed /\ \A g \in File : g # on[t] => file'[g] = file[g]
      BY <1>4, <2>1 DEF Receive, FileOpened, TypeOK
    <3>3. QED
      BY <3>1, <3>2 DEF BornOpen
  <2>2. CASE op[t] # "open"
    BY <1>4, <2>2 DEF Receive, BornOpen
  <2>3. QED
    BY <2>1, <2>2
<1>5. ASSUME NEW t \in Task, Abandon(t)
      PROVE  BornOpen'
  <2>1. closed' = closed /\ \A g \in File : file'[g] \in {file[g], "abandoned"}
    BY <1>5 DEF Abandon, TypeOK
  <2>2. QED
    BY <2>1 DEF BornOpen
<1>6. ASSUME NEW f \in File, DropFile(f)
      PROVE  BornOpen'
  BY <1>6 DEF DropFile, BornOpen, TypeOK
<1>7. CASE ThreadNext
  <2>1. file' = file /\ closed' = closed
    BY <1>7 DEF ThreadNext, ThreadConnects, Exec, ExecPath, ExecOpen, ExecOpenFails, ExecClose,
           ExecUse, ExecShutdown, Disconnected, CloseAllStep, DestroyContext, ThreadExits
  <2>2. QED
    BY <1>1, <2>1
<1>8. CASE CallerNext
  <2>1. ASSUME NEW t \in Task,
               \/ CallPath(t) \/ CallShutdown(t) \/ SendChecked(t)
               \/ ShutdownAnswered(t) \/ TakeJoin(t) \/ JoinReturns(t)
               \/ \E f \in File : CallUse(t, f)
        PROVE  BornOpen'
    BY <1>1, <2>1 DEF CallPath, CallShutdown, SendChecked, ShutdownAnswered, TakeJoin,
                      JoinReturns, CallUse
  <2>2. CASE ConnectReturns \/ DropBackend
    BY <1>1, <2>2 DEF ConnectReturns, DropBackend
  <2>3. QED
    BY <1>2, <1>3, <1>4, <1>5, <1>6, <1>8, <2>1, <2>2 DEF CallerNext, Proceed
<1>9. CASE Finished
  BY <1>1, <1>9 DEF Finished, vars
<1>10. QED
  BY <1>7, <1>8, <1>9 DEF Next

\* Ids stay put when the table does and nothing is opened.
LEMMA IdsFrame ==
    ASSUME IdsStandForOneOpen,
           handles' = handles, nextId' = nextId, serves' = serves,
           \A f \in File : file'[f] = "alive" => file[f] = "alive" /\ fileId'[f] = fileId[f],
           \A t \in Task : pc'[t] = "await" /\ op'[t] = "open" /\ reply'[t].st = "ok" =>
              pc[t] = "await" /\ op[t] = "open" /\ reply'[t] = reply[t] /\ on'[t] = on[t]
    PROVE  IdsStandForOneOpen'
  BY DEF IdsStandForOneOpen

\* The calls only: who has been answered what.
LEMMA CallerReplies ==
    ASSUME TypeOK, CallShape, CallerNext, NEW u \in Task, pc'[u] = "await", reply'[u] # Pending
    PROVE  pc[u] = "await" /\ op'[u] = op[u] /\ on'[u] = on[u] /\ reply'[u] = reply[u]
<1> USE DEF threadVars, fileVars, taskVars
<1>1. CASE ConnectReturns \/ DropBackend
  BY <1>1 DEF ConnectReturns, DropBackend
<1>2. ASSUME NEW t \in Task, NEW o, NEW id, NEW f, Send(t, o, id, f), reply[t] = Pending
      PROVE  pc[u] = "await" /\ op'[u] = op[u] /\ on'[u] = on[u] /\ reply'[u] = reply[u]
  <2>1. /\ u # t => pc'[u] = pc[u] /\ op'[u] = op[u] /\ on'[u] = on[u] /\ reply'[u] = reply[u]
        /\ u = t => reply'[u] = Pending
    BY <1>2, SendFacts
  <2>2. QED
    BY <2>1
<1>3. ASSUME NEW t \in Task, CallPath(t) \/ SendChecked(t) \/ \E f \in File : CallOpen(t, f)
      PROVE  pc[u] = "await" /\ op'[u] = op[u] /\ on'[u] = on[u] /\ reply'[u] = reply[u]
  <2>1. reply[t] = Pending
    BY <1>3 DEF CallPath, SendChecked, CallOpen, CallShape
  <2>2. \E o, id, f : Send(t, o, id, f)
    BY <1>3 DEF CallPath, SendChecked, CallOpen
  <2>3. QED
    BY <1>2, <2>1, <2>2
<1>4. ASSUME NEW t \in Task, CallShutdown(t)
      PROVE  pc[u] = "await" /\ op'[u] = op[u] /\ on'[u] = on[u] /\ reply'[u] = reply[u]
  BY <1>4 DEF CallShutdown, CallShape, TypeOK
<1>5. ASSUME NEW t \in Task, NEW f \in File, CallUse(t, f) \/ CallClose(t, f)
      PROVE  pc[u] = "await" /\ op'[u] = op[u] /\ on'[u] = on[u] /\ reply'[u] = reply[u]
  <2>1. CASE CallUse(t, f)
    BY <2>1 DEF CallUse, TypeOK
  <2>2. CASE CallClose(t, f)
    BY <2>2 DEF CallClose, TypeOK
  <2>3. QED
    BY <1>5, <2>1, <2>2
<1>6. ASSUME NEW t \in Task, Return(t)
      PROVE  pc[u] = "await" /\ op'[u] = op[u] /\ on'[u] = on[u] /\ reply'[u] = reply[u]
  BY <1>6, ReturnFacts
<1>7. ASSUME NEW t \in Task,
             Receive(t) \/ ShutdownAnswered(t) \/ TakeJoin(t) \/ JoinReturns(t) \/ Abandon(t)
      PROVE  pc[u] = "await" /\ op'[u] = op[u] /\ on'[u] = on[u] /\ reply'[u] = reply[u]
  <2>1. CASE Receive(t) \/ JoinReturns(t) \/ Abandon(t)
    BY <1>6, <2>1 DEF Receive, JoinReturns, Abandon
  <2>2. CASE ShutdownAnswered(t)
    BY <2>2 DEF ShutdownAnswered, TypeOK
  <2>3. CASE TakeJoin(t)
    BY <1>6, <2>3 DEF TakeJoin, TypeOK
  <2>4. QED
    BY <1>7, <2>1, <2>2, <2>3
<1>8. ASSUME NEW f \in File, DropFile(f)
      PROVE  pc[u] = "await" /\ op'[u] = op[u] /\ on'[u] = on[u] /\ reply'[u] = reply[u]
  BY <1>8 DEF DropFile
<1>9. QED
  BY <1>1, <1>3, <1>4, <1>5, <1>7, <1>8 DEF CallerNext, Proceed

\* A RemoteFile comes to life with the id its open was answered with.
LEMMA CallerFiles ==
    ASSUME TypeOK, CallShape, CallerNext, NEW f \in File, file'[f] = "alive"
    PROVE  \/ file[f] = "alive" /\ fileId'[f] = fileId[f]
           \/ \E t \in Task : /\ pc[t] = "await" /\ op[t] = "open" /\ on[t] = f
                              /\ reply[t].st = "ok" /\ fileId'[f] = reply[t].id
<1> USE DEF threadVars, fileVars, taskVars
<1>1. CASE file' = file /\ fileId' = fileId
  BY <1>1
<1>2. ASSUME NEW t \in Task, Receive(t)
      PROVE  \/ file[f] = "alive" /\ fileId'[f] = fileId[f]
             \/ \E u \in Task : /\ pc[u] = "await" /\ op[u] = "open" /\ on[u] = f
                                /\ reply[u].st = "ok" /\ fileId'[f] = reply[u].id
  <2>1. CASE op[t] = "open" /\ on[t] = f
    <3>1. /\ pc[t] = "await"
          /\ file'[f] = (IF reply[t].st = "ok" THEN "alive" ELSE "unborn")
          /\ fileId'[f] = reply[t].id
      BY <1>2, <2>1 DEF Receive, FileOpened, TypeOK
    <3>2. QED
      BY <2>1, <3>1
  <2>2. CASE ~(op[t] = "open" /\ on[t] = f)
    BY <1>2, <2>2 DEF Receive, FileOpened, TypeOK
  <2>3. QED
    BY <2>1, <2>2
<1>3. ASSUME NEW t \in Task, Abandon(t)
      PROVE  file[f] = "alive" /\ fileId'[f] = fileId[f]
  BY <1>3 DEF Abandon, TypeOK
<1>4. ASSUME NEW t \in Task, NEW g \in File, CallOpen(t, g)
      PROVE  file[f] = "alive" /\ fileId'[f] = fileId[f]
  BY <1>4 DEF CallOpen, TypeOK
<1>5. ASSUME NEW g \in File, DropFile(g)
      PROVE  file[f] = "alive" /\ fileId'[f] = fileId[f]
  BY <1>5 DEF DropFile, TypeOK
<1>6. ASSUME NEW t \in Task,
             \/ CallPath(t) \/ CallShutdown(t) \/ SendChecked(t)
             \/ ShutdownAnswered(t) \/ TakeJoin(t) \/ JoinReturns(t)
             \/ \E g \in File : CallUse(t, g) \/ CallClose(t, g)
      PROVE  file[f] = "alive" /\ fileId'[f] = fileId[f]
  BY <1>6 DEF CallPath, CallShutdown, SendChecked, ShutdownAnswered, TakeJoin, JoinReturns,
              CallUse, CallClose
<1>7. CASE ConnectReturns \/ DropBackend
  BY <1>7 DEF ConnectReturns, DropBackend
<1>8. QED
  BY <1>2, <1>3, <1>4, <1>5, <1>6, <1>7 DEF CallerNext, Proceed

\* A caller gets its id from the answer to its own open.
LEMMA IdsCaller ==
    TypeOK /\ CallShape /\ IdsStandForOneOpen /\ CallerNext => IdsStandForOneOpen'
<1> SUFFICES ASSUME TypeOK, CallShape, IdsStandForOneOpen, CallerNext
             PROVE  IdsStandForOneOpen'
  OBVIOUS
<1>1. handles' = handles /\ nextId' = nextId /\ serves' = serves
  BY CallerLeavesThread
<1>2. ASSUME NEW f \in File, file'[f] = "alive"
      PROVE  /\ fileId'[f] \in 1..nextId
             /\ fileId'[f] \in DOMAIN handles => serves[handles[fileId'[f]]] = f
  <2>1. CASE file[f] = "alive" /\ fileId'[f] = fileId[f]
    BY <2>1 DEF IdsStandForOneOpen
  <2>2. ASSUME NEW t \in Task, pc[t] = "await", op[t] = "open", on[t] = f,
               reply[t].st = "ok", fileId'[f] = reply[t].id
        PROVE  /\ fileId'[f] \in 1..nextId
               /\ fileId'[f] \in DOMAIN handles => serves[handles[fileId'[f]]] = f
    BY <2>2 DEF IdsStandForOneOpen
  <2>3. QED
    BY <1>2, <2>1, <2>2, CallerFiles
<1>3. ASSUME NEW t \in Task, pc'[t] = "await", op'[t] = "open", reply'[t].st = "ok"
      PROVE  pc[t] = "await" /\ op[t] = "open" /\ reply'[t] = reply[t] /\ on'[t] = on[t]
  <2>1. reply'[t] # Pending
    BY <1>3 DEF Pending
  <2>2. QED
    BY <1>3, <2>1, CallerReplies
<1>4. QED
  BY <1>1, <1>2, <1>3 DEF IdsStandForOneOpen

\* The thread never gives an id of the table to another open.
LEMMA IdsThread ==
    TypeOK /\ QueueShape /\ TableMatchesServer /\ IdsStandForOneOpen /\ ThreadNext
       => IdsStandForOneOpen'
<1> SUFFICES ASSUME TypeOK, QueueShape, TableMatchesServer, IdsStandForOneOpen, ThreadNext
             PROVE  IdsStandForOneOpen'
  OBVIOUS
<1> USE DEF threadVars, fileVars, taskVars
<1>1. CASE Exec
  <2>1. PICK c \in {queue[i] : i \in 1..Len(queue)} :
           \/ ExecPath(c) \/ ExecOpen(c) \/ ExecOpenFails(c) \/ ExecClose(c)
           \/ ExecUse(c) \/ ExecShutdown(c)
    BY <1>1 DEF Exec
  <2>2. c \in Command
    BY <2>1 DEF TypeOK
  <2>3. ASSUME NEW o \in {"path", "close", "use", "shutdown"}, NEW r \in Reply,
               Recv(c, o), Answer(c, r), pc' = pc, op' = op, on' = on,
               NEW t \in Task, op'[t] = "open"
        PROVE  reply'[t] = reply[t]
    <3>1. c.by # t
      BY <2>3, RecvFacts, NoneAssumption
    <3>2. QED
      BY <2>2, <2>3, <3>1, AnswerFacts
  <2>4. CASE ExecOpen(c)
    <3>1. PICK h \in Fh : serves[h] = None /\ serves' = [serves EXCEPT ![h] = c.path] /\ Insert(h)
      BY <2>4 DEF ExecOpen
    <3>2. /\ c.path \in File
          /\ c.by # None => c.by \in Task /\ c.path = on[c.by] /\ reply[c.by] = Pending
      BY <2>4, RecvFacts DEF ExecOpen
    <3>3. /\ nextId' = nextId + 1 /\ nextId' \in Nat /\ nextId \in Nat
          /\ DOMAIN handles' = DOMAIN handles \cup {nextId'}
          /\ handles'[nextId'] = h /\ serves'[handles'[nextId']] = c.path
          /\ \A i \in DOMAIN handles :
                handles'[i] = handles[i] /\ serves'[handles'[i]] = serves[handles[i]]
      BY <3>1, <3>2, TableOpen DEF TypeOK
    <3>4. /\ Answer(c, Ok(nextId', c.path)) /\ Ok(nextId', c.path) \in Reply
          /\ Ok(nextId', c.path).id = nextId'
      BY <2>4, <3>2, <3>3, ReplyValues DEF ExecOpen, Ok
    <3>5. \A t \in Task : reply'[t] = IF t = c.by THEN Ok(nextId', c.path) ELSE reply[t]
      BY <2>2, <3>2, <3>4, AnswerFacts
    <3>6. file' = file /\ fileId' = fileId /\ pc' = pc /\ op' = op /\ on' = on
      BY <2>4 DEF ExecOpen
    <3>7. ASSUME NEW f \in File, file'[f] = "alive"
          PROVE  /\ fileId'[f] \in 1..nextId'
                 /\ fileId'[f] \in DOMAIN handles' => serves'[handles'[fileId'[f]]] = f
      BY <3>3, <3>6, <3>7 DEF IdsStandForOneOpen
    <3>8. ASSUME NEW t \in Task, pc'[t] = "await", op'[t] = "open", reply'[t].st = "ok"
          PROVE  /\ reply'[t].id \in 1..nextId'
                 /\ reply'[t].id \in DOMAIN handles' => serves'[handles'[reply'[t].id]] = on'[t]
      <4>1. CASE t = c.by
        <5>1. t # None
          BY NoneAssumption
        <5>2. QED
          BY <3>2, <3>3, <3>4, <3>5, <3>6, <4>1, <5>1
      <4>2. CASE t # c.by
        BY <3>3, <3>5, <3>6, <3>8, <4>2 DEF IdsStandForOneOpen
      <4>3. QED
        BY <4>1, <4>2
    <3>9. QED
      BY <3>7, <3>8 DEF IdsStandForOneOpen
  <2>5. CASE ExecClose(c)
    <3>1. /\ file' = file /\ fileId' = fileId /\ pc' = pc /\ op' = op /\ on' = on
          /\ nextId' = nextId /\ Recv(c, "close")
          /\ Answer(c, Ok(0, None)) \/ Answer(c, Failed)
      BY <2>5 DEF ExecClose
    <3>2. \A t \in Task : op'[t] = "open" => reply'[t] = reply[t]
      BY <2>3, <3>1, ReplyValues
    <3>3. /\ DOMAIN handles' \subseteq DOMAIN handles
          /\ \A i \in DOMAIN handles' : serves'[handles'[i]] = serves[handles[i]]
      <4>1. CASE c.id \in DOMAIN handles
        <5>1. CloseHandle(c.id)
          BY <2>5, <4>1 DEF ExecClose
        <5>2. QED
          BY <4>1, <5>1, CloseType, TableClose
      <4>2. CASE c.id \notin DOMAIN handles
        BY <2>5, <4>2 DEF ExecClose
      <4>3. QED
        BY <4>1, <4>2
    <3>4. QED
      BY <3>1, <3>2, <3>3 DEF IdsStandForOneOpen
  <2>6. CASE ExecPath(c) \/ ExecUse(c) \/ ExecShutdown(c)
    <3>1. /\ file' = file /\ fileId' = fileId /\ pc' = pc /\ op' = op /\ on' = on
          /\ handles' = handles /\ nextId' = nextId /\ serves' = serves
      BY <2>6 DEF ExecPath, ExecUse, ExecShutdown
    <3>2. \E o \in {"path", "close", "use", "shutdown"}, r \in Reply : Recv(c, o) /\ Answer(c, r)
      <4>1. CASE ExecPath(c)
        BY <4>1, ReplyValues DEF ExecPath
      <4>2. CASE ExecUse(c)
        <5>1. c.id \in DOMAIN handles => Ok(0, serves[handles[c.id]]) \in Reply
          BY ReplyValues DEF TypeOK
        <5>2. \/ c.id \in DOMAIN handles /\ Answer(c, Ok(0, serves[handles[c.id]]))
              \/ Answer(c, Failed)
          BY <4>2 DEF ExecUse
        <5>3. Recv(c, "use")
          BY <4>2 DEF ExecUse
        <5>4. QED
          BY <5>1, <5>2, <5>3, ReplyValues
      <4>3. CASE ExecShutdown(c)
        BY <4>3, ReplyValues DEF ExecShutdown
      <4>4. QED
        BY <2>6, <4>1, <4>2, <4>3
    <3>3. \A t \in Task : op'[t] = "open" => reply'[t] = reply[t]
      BY <2>3, <3>1, <3>2
    <3>4. QED
      BY <3>1, <3>3, IdsFrame
  <2>7. CASE ExecOpenFails(c)
    <3>1. /\ file' = file /\ fileId' = fileId /\ pc' = pc /\ op' = op /\ on' = on
          /\ handles' = handles /\ nextId' = nextId /\ serves' = serves
          /\ Answer(c, Failed) /\ Failed \in Reply /\ Failed.st # "ok"
      BY <2>7, ReplyValues DEF ExecOpenFails, Failed
    <3>2. \A t \in Task : reply'[t] \in {reply[t], Failed}
      BY <2>2, <3>1, AnswerFacts
    <3>3. \A t \in Task : reply'[t].st = "ok" => reply'[t] = reply[t]
      BY <3>1, <3>2
    <3>4. QED
      BY <3>1, <3>3, IdsFrame
  <2>8. QED
    BY <2>1, <2>4, <2>5, <2>6, <2>7
<1>2. CASE ThreadExits
  <2>1. \A t \in Task : reply'[t].st = "ok" => reply'[t] = reply[t]
    BY <1>2 DEF ThreadExits, Lost
  <2>2. QED
    BY <1>2, <2>1, IdsFrame DEF ThreadExits
<1>3. CASE CloseAllStep
  <2>1. PICK id \in DOMAIN handles : CloseHandle(id)
    BY <1>3 DEF CloseAllStep
  <2>2. /\ DOMAIN handles' \subseteq DOMAIN handles
        /\ \A i \in DOMAIN handles' : serves'[handles'[i]] = serves[handles[i]]
    BY <2>1, CloseType, TableClose
  <2>3. /\ file' = file /\ fileId' = fileId /\ pc' = pc /\ op' = op /\ on' = on
        /\ nextId' = nextId /\ reply' = reply
    BY <1>3 DEF CloseAllStep
  <2>4. QED
    BY <2>2, <2>3 DEF IdsStandForOneOpen
<1>4. CASE ThreadConnects \/ Disconnected \/ DestroyContext
  BY <1>4, IdsFrame DEF ThreadConnects, Disconnected, DestroyContext
<1>5. QED
  BY <1>1, <1>2, <1>3, <1>4 DEF ThreadNext

\* An answer is taken from the handle its command names, which is the file's own.
LEMMA AnswersStep ==
    TypeOK /\ CallShape /\ QueueShape /\ IdsStandForOneOpen /\ AnswersComeFromOwnHandle /\ Next
       => AnswersComeFromOwnHandle'
<1> SUFFICES ASSUME TypeOK, CallShape, QueueShape, IdsStandForOneOpen, AnswersComeFromOwnHandle, Next
             PROVE  AnswersComeFromOwnHandle'
  OBVIOUS
<1> USE DEF threadVars, fileVars, taskVars
<1>1. CASE CallerNext
  <2>1. ASSUME NEW t \in Task, pc'[t] = "await", reply'[t].st = "ok"
        PROVE  pc[t] = "await" /\ op'[t] = op[t] /\ on'[t] = on[t] /\ reply'[t] = reply[t]
    <3>1. reply'[t] # Pending
      BY <2>1 DEF Pending
    <3>2. QED
      BY <1>1, <2>1, <3>1, CallerReplies
  <2>2. QED
    BY <2>1 DEF AnswersComeFromOwnHandle
<1>2. CASE Exec
  <2>1. PICK c \in {queue[i] : i \in 1..Len(queue)} :
           \/ ExecPath(c) \/ ExecOpen(c) \/ ExecOpenFails(c) \/ ExecClose(c)
           \/ ExecUse(c) \/ ExecShutdown(c)
    BY <1>2 DEF Exec
  <2>2. c \in Command
    BY <2>1 DEF TypeOK
  <2>3. CASE ExecUse(c)
    <3>1. /\ Recv(c, "use") /\ pc' = pc /\ op' = op /\ on' = on
          /\ \/ c.id \in DOMAIN handles /\ Answer(c, Ok(0, serves[handles[c.id]]))
             \/ Answer(c, Failed)
      BY <2>3 DEF ExecUse
    <3>2. ASSUME NEW t \in Task, pc[t] = "await", op[t] = "use", reply'[t].st = "ok"
          PROVE  reply'[t].from = on[t]
      <4>1. CASE c.by # t
        <5>1. reply'[t] = reply[t]
          BY <3>1, <4>1 DEF Answer, TypeOK
        <5>2. QED
          BY <3>2, <5>1 DEF AnswersComeFromOwnHandle
      <4>2. CASE c.by = t
        <5>1. t # None
          BY NoneAssumption
        <5>2. c.id = fileId[on[t]] /\ on[t] \in File /\ file[on[t]] = "alive"
          BY <3>1, <3>2, <4>2, <5>1, RecvFacts DEF FileOps, CallShape, Busy
        <5>3. c.id \in DOMAIN handles => serves[handles[c.id]] = on[t]
          BY <5>2 DEF IdsStandForOneOpen
        <5>4. CASE Answer(c, Failed)
          BY <3>2, <4>2, <5>1, <5>4 DEF Answer, Failed, TypeOK
        <5>5. CASE c.id \in DOMAIN handles /\ Answer(c, Ok(0, serves[handles[c.id]]))
          BY <4>2, <5>1, <5>3, <5>5 DEF Answer, Ok, TypeOK
        <5>6. QED
          BY <3>1, <5>4, <5>5
      <4>3. QED
        BY <4>1, <4>2
    <3>3. QED
      BY <3>1, <3>2 DEF AnswersComeFromOwnHandle
  <2>4. ASSUME NEW o \in {"path", "open", "close", "shutdown"}, NEW r,
               Recv(c, o), Answer(c, r), pc' = pc, op' = op, on' = on
        PROVE  AnswersComeFromOwnHandle'
    <3>1. ASSUME NEW t \in Task, op[t] = "use"
          PROVE  reply'[t] = reply[t]
      <4>1. c.by # t
        BY <2>4, <3>1, RecvFacts, NoneAssumption
      <4>2. QED
        BY <2>4, <4>1 DEF Answer, TypeOK
    <3>2. QED
      BY <2>4, <3>1 DEF AnswersComeFromOwnHandle
  <2>5. CASE ExecPath(c) \/ ExecOpen(c) \/ ExecOpenFails(c) \/ ExecClose(c) \/ ExecShutdown(c)
    <3>1. pc' = pc /\ op' = op /\ on' = on
      BY <2>5 DEF ExecPath, ExecOpen, ExecOpenFails, ExecClose, ExecShutdown
    <3>2. \E o \in {"path", "open", "close", "shutdown"} : Recv(c, o) /\ \E r : Answer(c, r)
      BY <2>5 DEF ExecPath, ExecOpen, ExecOpenFails, ExecClose, ExecShutdown
    <3>3. QED
      BY <2>4, <3>1, <3>2
  <2>6. QED
    BY <2>1, <2>3, <2>5
<1>3. CASE ThreadExits
  <2>1. \A t \in Task : reply'[t].st = "ok" => reply'[t] = reply[t]
    BY <1>3 DEF ThreadExits, Lost
  <2>2. QED
    BY <1>3, <2>1 DEF ThreadExits, AnswersComeFromOwnHandle
<1>4. CASE ThreadConnects \/ Disconnected \/ CloseAllStep \/ DestroyContext \/ Finished
  BY <1>4 DEF ThreadConnects, Disconnected, CloseAllStep, DestroyContext, Finished, vars,
              AnswersComeFromOwnHandle
<1>5. QED
  BY <1>1, <1>2, <1>3, <1>4 DEF Next, ThreadNext

-----------------------------------------------------------------------------
(* Shutting down *)

\* A step that answers no shutdown and joins nothing lets nobody else join.
LEMMA OneMayJoinFrame ==
    ASSUME OneMayJoin, thread' = thread, join' = join, \A t \in Task : MayJoin(t)' => MayJoin(t)
    PROVE  OneMayJoin'
  BY DEF OneMayJoin

\* The thread answers one shutdown and no other before it is gone.
LEMMA OneMayJoinThread ==
    TypeOK /\ QueueShape /\ OneMayJoin /\ ThreadNext => OneMayJoin'
<1> SUFFICES ASSUME TypeOK, QueueShape, OneMayJoin, ThreadNext PROVE OneMayJoin'
  OBVIOUS
<1> USE DEF threadVars, fileVars, taskVars
<1>1. CASE Exec
  <2>1. PICK c \in Command, o \in Op, r \in Reply :
           /\ Recv(c, o) /\ Answer(c, r)
           /\ pc' = pc /\ op' = op /\ on' = on /\ join' = join
           /\ IF o = "shutdown" THEN thread' = "closing" ELSE thread' = thread
    BY <1>1, ExecFacts
  <2>2. thread = "running" /\ (c.by # None => op[c.by] = o)
    BY <2>1, RecvFacts
  <2>3. \A t \in Task : t # c.by => reply'[t] = reply[t]
    BY <2>1, AnswerFacts
  <2>4. join = "held" /\ \A t \in Task : ~MayJoin(t)
    <3>1. \A t \in Task : ~MayJoin(t)
      BY <2>2 DEF OneMayJoin
    <3>2. join = "held"
      BY <2>2 DEF OneMayJoin
    <3>3. QED
      BY <3>1, <3>2
  <2>5. ASSUME NEW t \in Task, MayJoin(t)'
        PROVE  t = c.by /\ o = "shutdown"
    BY <2>1, <2>2, <2>3, <2>4, <2>5, NoneAssumption DEF MayJoin
  <2>6. QED
    BY <2>1, <2>2, <2>4, <2>5 DEF OneMayJoin
<1>2. CASE ThreadExits
  BY <1>2 DEF ThreadExits, OneMayJoin
<1>3. CASE ThreadConnects \/ Disconnected \/ CloseAllStep \/ DestroyContext
  BY <1>3 DEF ThreadConnects, Disconnected, CloseAllStep, DestroyContext, OneMayJoin, MayJoin
<1>4. QED
  BY <1>1, <1>2, <1>3 DEF ThreadNext

\* The one shutdown that was answered finds the join handle and keeps it.
LEMMA OneMayJoinCaller ==
    TypeOK /\ CallShape /\ OneMayJoin /\ CallerNext => OneMayJoin'
<1> SUFFICES ASSUME TypeOK, CallShape, OneMayJoin, CallerNext PROVE OneMayJoin'
  OBVIOUS
<1> USE DEF threadVars, fileVars, taskVars
<1>1. thread' = thread
  BY CallerLeavesThread
<1>2. CASE thread = "exited"
  BY <1>1, <1>2 DEF OneMayJoin
<1>3. CASE thread # "exited"
  <2>1. ReceiverAlive
    BY <1>3 DEF ReceiverAlive
  <2>2. ASSUME NEW t \in Task, NEW o \in Op, NEW id, NEW f, Send(t, o, id, f),
               o # "shutdown", join' = join
        PROVE  OneMayJoin'
    <3>1. /\ \A u \in Task : u # t =>
                pc'[u] = pc[u] /\ op'[u] = op[u] /\ on'[u] = on[u] /\ reply'[u] = reply[u]
          /\ pc'[t] = "await" /\ op'[t] = o
      BY <2>1, <2>2, SendFacts
    <3>2. \A u \in Task : MayJoin(u)' => MayJoin(u)
      BY <2>2, <3>1 DEF MayJoin
    <3>3. QED
      BY <1>1, <2>2, <3>2, OneMayJoinFrame
  <2>3. ASSUME NEW t \in Task, CallPath(t) \/ SendChecked(t) \/ \E f \in File : CallOpen(t, f)
        PROVE  OneMayJoin'
    <3>1. join' = join
      BY <2>3 DEF CallPath, SendChecked, CallOpen
    <3>2. \E o \in Op : \E id, f : o # "shutdown" /\ Send(t, o, id, f)
      <4>1. CASE SendChecked(t)
        BY <4>1 DEF SendChecked, CallShape, FileOps, TypeOK
      <4>2. CASE CallPath(t) \/ \E f \in File : CallOpen(t, f)
        BY <4>2 DEF CallPath, CallOpen, Op
      <4>3. QED
        BY <2>3, <4>1, <4>2
    <3>3. QED
      BY <2>2, <3>1, <3>2
  <2>4. ASSUME NEW t \in Task, Return(t), join' = join
        PROVE  OneMayJoin'
    <3>1. \A u \in Task : MayJoin(u)' => MayJoin(u)
      BY <2>4, ReturnFacts DEF MayJoin
    <3>2. QED
      BY <1>1, <2>4, <3>1, OneMayJoinFrame
  <2>5. ASSUME NEW t \in Task, Receive(t) \/ JoinReturns(t) \/ Abandon(t)
        PROVE  OneMayJoin'
    BY <2>4, <2>5 DEF Receive, JoinReturns, Abandon
  <2>6. ASSUME NEW t \in Task, CallShutdown(t)
        PROVE  OneMayJoin'
    <3>1. \A u \in Task : MayJoin(u)' => MayJoin(u)
      BY <2>1, <2>6 DEF CallShutdown, MayJoin, CallShape, TypeOK
    <3>2. QED
      BY <1>1, <2>6, <3>1, OneMayJoinFrame DEF CallShutdown
  <2>7. ASSUME NEW t \in Task, ShutdownAnswered(t)
        PROVE  OneMayJoin'
    <3>1. \A u \in Task : MayJoin(u)' => MayJoin(u)
      BY <2>7 DEF ShutdownAnswered, MayJoin, TypeOK, Pending
    <3>2. QED
      BY <1>1, <2>7, <3>1, OneMayJoinFrame DEF ShutdownAnswered
  <2>8. ASSUME NEW t \in Task, TakeJoin(t)
        PROVE  OneMayJoin'
    <3>1. MayJoin(t) /\ join = "held" /\ thread \notin {"connecting", "running"}
          /\ \A u \in Task : MayJoin(u) => u = t
      BY <1>3, <2>8 DEF TakeJoin, OneMayJoin, MayJoin
    <3>2. pc' = [pc EXCEPT ![t] = "joining"] /\ op' = op /\ reply' = reply
      BY <2>8, <3>1 DEF TakeJoin
    <3>3. \A u \in Task : ~MayJoin(u)'
      BY <3>1, <3>2 DEF MayJoin, TypeOK
    <3>4. QED
      BY <1>1, <3>1, <3>3 DEF OneMayJoin
  <2>9. ASSUME NEW t \in Task, NEW f \in File, CallUse(t, f) \/ CallClose(t, f)
        PROVE  OneMayJoin'
    <3>1. /\ pc' = [pc EXCEPT ![t] = "checked"] /\ reply' = reply /\ join' = join
          /\ \A u \in Task : u # t => op'[u] = op[u]
      BY <2>9 DEF CallUse, CallClose, TypeOK
    <3>2. \A u \in Task : MayJoin(u)' => MayJoin(u)
      BY <3>1 DEF MayJoin, TypeOK
    <3>3. QED
      BY <1>1, <3>1, <3>2, OneMayJoinFrame
  <2>10. CASE ConnectReturns \/ DropBackend \/ \E f \in File : DropFile(f)
    BY <1>1, <2>10, OneMayJoinFrame DEF ConnectReturns, DropBackend, DropFile, MayJoin
  <2>11. QED
    BY <2>3, <2>5, <2>6, <2>7, <2>8, <2>9, <2>10 DEF CallerNext, Proceed
<1>4. QED
  BY <1>2, <1>3

-----------------------------------------------------------------------------
(* No forgotten handle *)

\* The thread forgets no handle: a close it executes closes it, an open it answers hands it over.
LEMMA ForgottenThread ==
    TypeOK /\ QueueShape /\ TableMatchesServer /\ TableEmptyOutsideSession
    /\ NoForgottenHandle /\ ThreadNext => NoForgottenHandle'
<1> SUFFICES ASSUME TypeOK, QueueShape, TableMatchesServer, TableEmptyOutsideSession,
                    NoForgottenHandle, ThreadNext, thread' = "running"
             PROVE  NoForgottenHandle'
  BY DEF NoForgottenHandle
<1> USE DEF threadVars, fileVars, taskVars
<1>1. CASE ThreadConnects
  BY <1>1 DEF ThreadConnects, TableEmptyOutsideSession, ContextLive, NoForgottenHandle
<1>2. CASE Exec
  <2>1. PICK c \in {queue[i] : i \in 1..Len(queue)} :
           \/ ExecPath(c) \/ ExecOpen(c) \/ ExecOpenFails(c) \/ ExecClose(c)
           \/ ExecUse(c) \/ ExecShutdown(c)
    BY <1>2 DEF Exec
  <2>2. c \in Command
    BY <2>1 DEF TypeOK
  \* Whoever owned a handle still does, unless this was the close that was due.
  <2>3. ASSUME NEW o \in Op, NEW r, Recv(c, o), Answer(c, r),
               file' = file, fileId' = fileId, closed' = closed, pc' = pc, op' = op, on' = on,
               NEW id \in DOMAIN handles, id \in DOMAIN handles',
               serves'[handles'[id]] = serves[handles[id]],
               o = "close" => id # c.id
        PROVE  Owned(id)' \/ file'[serves'[handles'[id]]] = "abandoned"
    <3>0. DEFINE f == serves[handles[id]]
    <3>1. thread = "running" /\ c = queue[1] /\ c.op = o
          /\ (c.by # None => reply[c.by] = Pending)
          /\ \A i \in 1..Len(queue) : i = 1 \/ (i - 1 \in 1..Len(queue') /\ queue'[i - 1] = queue[i])
      BY <2>3, RecvFacts
    <3>2. Owned(id) \/ file[f] = "abandoned"
      BY <3>1 DEF NoForgottenHandle
    <3>3. CASE file[f] = "abandoned" \/ (file[f] = "alive" /\ ~closed[f] /\ fileId[f] = id)
      BY <2>3, <3>3 DEF Owned
    <3>4. CASE \E t \in Task : pc[t] = "checked" /\ op[t] = "close" /\ on[t] = f /\ fileId[f] = id
      BY <2>3, <3>4 DEF Owned
    <3>5. CASE \E i \in 1..Len(queue) : queue[i].op = "close" /\ queue[i].id = id
      <4>1. PICK i \in 1..Len(queue) : queue[i].op = "close" /\ queue[i].id = id
        BY <3>5
      <4>2. i # 1
        BY <2>3, <3>1, <4>1
      <4>3. i - 1 \in 1..Len(queue') /\ queue'[i - 1] = queue[i]
        BY <3>1, <4>2
      <4>4. QED
        BY <4>1, <4>3 DEF Owned
    <3>6. CASE \E t \in Task : pc[t] = "await" /\ op[t] = "open" /\ on[t] = f /\ reply[t] = Ok(id, f)
      <4>1. PICK t \in Task : pc[t] = "await" /\ op[t] = "open" /\ on[t] = f /\ reply[t] = Ok(id, f)
        BY <3>6
      <4>2. Ok(id, f) # Pending
        BY DEF Ok, Pending
      <4>3. reply'[t] = reply[t]
        BY <2>3, <3>1, <4>1, <4>2 DEF Answer, TypeOK
      <4>4. QED
        BY <2>3, <4>1, <4>3 DEF Owned, Ok
    <3>7. QED
      BY <3>2, <3>3, <3>4, <3>5, <3>6 DEF Owned
  <2>4. CASE ExecOpen(c)
    <3>1. PICK h \in Fh : serves[h] = None /\ serves' = [serves EXCEPT ![h] = c.path] /\ Insert(h)
      BY <2>4 DEF ExecOpen
    <3>2. /\ c.path \in File /\ (c.by = None => file[c.path] = "abandoned")
          /\ c.by # None => /\ c.by \in Task /\ pc[c.by] = "await" /\ op[c.by] = "open"
                            /\ c.path = on[c.by]
          /\ Recv(c, "open") /\ Answer(c, Ok(nextId', c.path))
          /\ file' = file /\ fileId' = fileId /\ closed' = closed
          /\ pc' = pc /\ op' = op /\ on' = on
      BY <2>4, RecvFacts DEF ExecOpen
    <3>3. /\ DOMAIN handles' = DOMAIN handles \cup {nextId'}
          /\ serves'[handles'[nextId']] = c.path
          /\ \A i \in DOMAIN handles : serves'[handles'[i]] = serves[handles[i]]
      BY <3>1, <3>2, TableOpen
    <3>4. ASSUME NEW id \in DOMAIN handles
          PROVE  Owned(id)' \/ file'[serves'[handles'[id]]] = "abandoned"
      BY <2>3, <3>2, <3>3 DEF Op
    <3>5. Owned(nextId)' \/ file'[serves'[handles'[nextId']]] = "abandoned"
      <4>1. CASE c.by = None
        BY <3>2, <3>3, <4>1
      <4>2. CASE c.by # None
        <5>1. reply'[c.by] = Ok(nextId', c.path)
          BY <3>2, <4>2 DEF Answer, TypeOK
        <5>2. QED
          BY <3>2, <3>3, <4>2, <5>1 DEF Owned, Ok
      <4>3. QED
        BY <4>1, <4>2
    <3>6. QED
      BY <3>3, <3>4, <3>5 DEF NoForgottenHandle
  <2>5. CASE ExecClose(c)
    <3>1. /\ Recv(c, "close") /\ \E r : Answer(c, r)
          /\ file' = file /\ fileId' = fileId /\ closed' = closed
          /\ pc' = pc /\ op' = op /\ on' = on
      BY <2>5 DEF ExecClose
    <3>2. /\ DOMAIN handles' = DOMAIN handles \ {c.id}
          /\ \A i \in DOMAIN handles' : serves'[handles'[i]] = serves[handles[i]]
      <4>1. CASE c.id \in DOMAIN handles
        <5>1. CloseHandle(c.id)
          BY <2>5, <4>1 DEF ExecClose
        <5>2. QED
          BY <4>1, <5>1, CloseType, TableClose
      <4>2. CASE c.id \notin DOMAIN handles
        BY <2>5, <4>2 DEF ExecClose
      <4>3. QED
        BY <4>1, <4>2
    <3>3. ASSUME NEW id \in DOMAIN handles'
          PROVE  Owned(id)' \/ file'[serves'[handles'[id]]] = "abandoned"
      BY <2>3, <3>1, <3>2 DEF Op
    <3>4. QED
      BY <3>3 DEF NoForgottenHandle
  <2>6. CASE ExecPath(c) \/ ExecOpenFails(c) \/ ExecUse(c) \/ ExecShutdown(c)
    <3>1. /\ file' = file /\ fileId' = fileId /\ closed' = closed
          /\ pc' = pc /\ op' = op /\ on' = on /\ handles' = handles /\ serves' = serves
          /\ \E o \in Op \ {"close"} : Recv(c, o) /\ \E r : Answer(c, r)
      BY <2>6 DEF ExecPath, ExecOpenFails, ExecUse, ExecShutdown, Op
    <3>2. ASSUME NEW id \in DOMAIN handles'
          PROVE  Owned(id)' \/ file'[serves'[handles'[id]]] = "abandoned"
      BY <2>3, <3>1
    <3>3. QED
      BY <3>2 DEF NoForgottenHandle
  <2>7. QED
    BY <2>1, <2>4, <2>5, <2>6
<1>3. QED
  BY <1>1, <1>2 DEF ThreadNext, Disconnected, CloseAllStep, DestroyContext, ThreadExits

\* No caller takes a command out of the queue.
LEMMA QueueKept ==
    ASSUME TypeOK, CallShape, CallerNext, NEW i \in 1..Len(queue)
    PROVE  \E j \in 1..Len(queue') : queue'[j].op = queue[i].op /\ queue'[j].id = queue[i].id
<1> USE DEF threadVars, fileVars, taskVars
<1>1. CASE queue' = queue
  BY <1>1
<1>2. ASSUME NEW c \in Command, queue' = Append(queue, c)
      PROVE  \E j \in 1..Len(queue') : queue'[j].op = queue[i].op /\ queue'[j].id = queue[i].id
  <2>1. i \in 1..Len(queue') /\ queue'[i] = queue[i]
    BY <1>2, AppendFacts DEF TypeOK
  <2>2. QED
    BY <2>1
<1>3. ASSUME NEW t \in Task, NEW o \in Op, NEW id \in Nat, NEW f \in File \cup {None}, Send(t, o, id, f)
      PROVE  \E j \in 1..Len(queue') : queue'[j].op = queue[i].op /\ queue'[j].id = queue[i].id
  <2>1. CASE ReceiverAlive
    <3>1. DEFINE c == [op |-> o, id |-> id, path |-> IF o = "open" THEN f ELSE None, by |-> t]
    <3>2. (IF o = "open" THEN f ELSE None) \in File \cup {None}
      OBVIOUS
    <3>3. c \in Command
      BY <3>2 DEF Command
    <3>4. queue' = Append(queue, c)
      BY <1>3, <2>1, SendFacts
    <3> HIDE DEF c
    <3>5. QED
      BY <1>2, <3>3, <3>4
  <2>2. CASE ~ReceiverAlive
    BY <1>1, <1>3, <2>2, SendFacts
  <2>3. QED
    BY <2>1, <2>2
<1>4. ASSUME NEW t \in Task, CallPath(t) \/ \E f \in File : CallOpen(t, f)
      PROVE  \E j \in 1..Len(queue') : queue'[j].op = queue[i].op /\ queue'[j].id = queue[i].id
  BY <1>3, <1>4 DEF CallPath, CallOpen, Op
<1>5. ASSUME NEW t \in Task, SendChecked(t)
      PROVE  \E j \in 1..Len(queue') : queue'[j].op = queue[i].op /\ queue'[j].id = queue[i].id
  <2>1. on[t] \in File /\ op[t] \in Op /\ fileId[on[t]] \in Nat
    BY <1>5 DEF SendChecked, CallShape, Busy, FileOps, TypeOK
  <2>2. Send(t, op[t], fileId[on[t]], on[t])
    BY <1>5 DEF SendChecked
  <2>3. QED
    BY <1>3, <2>1, <2>2
<1>6. ASSUME NEW t \in Task, CallShutdown(t)
      PROVE  \E j \in 1..Len(queue') : queue'[j].op = queue[i].op /\ queue'[j].id = queue[i].id
  <2>1. [op |-> "shutdown", id |-> 0, path |-> None, by |-> t] \in Command
    BY DEF Command, Op
  <2>2. QED
    BY <1>1, <1>2, <1>6, <2>1 DEF CallShutdown
<1>7. ASSUME NEW t \in Task, Abandon(t)
      PROVE  \E j \in 1..Len(queue') : queue'[j].op = queue[i].op /\ queue'[j].id = queue[i].id
  <2>1. queue' = [j \in 1..Len(queue) |->
                    IF queue[j].by = t THEN [queue[j] EXCEPT !.by = None] ELSE queue[j]]
    BY <1>7 DEF Abandon
  <2>2. queue' \in Seq(Command) /\ DOMAIN queue' = 1..Len(queue)
    BY <2>1, AbandonedQueue DEF TypeOK
  <2>3. i \in 1..Len(queue')
    BY <2>2
  <2>4. queue[i] \in Command
    BY DEF TypeOK
  <2>5. queue'[i].op = queue[i].op /\ queue'[i].id = queue[i].id
    BY <2>1, <2>4 DEF Command
  <2>6. QED
    BY <2>3, <2>5
<1>8. ASSUME NEW f \in File, DropFile(f)
      PROVE  \E j \in 1..Len(queue') : queue'[j].op = queue[i].op /\ queue'[j].id = queue[i].id
  <2>1. [op |-> "close", id |-> fileId[f], path |-> None, by |-> None] \in Command
    BY DEF Command, Op, TypeOK
  <2>2. QED
    BY <1>1, <1>2, <1>8, <2>1 DEF DropFile
<1>9. ASSUME NEW t \in Task,
             \/ Receive(t) \/ ShutdownAnswered(t) \/ TakeJoin(t) \/ JoinReturns(t)
             \/ \E f \in File : CallUse(t, f) \/ CallClose(t, f)
      PROVE  queue' = queue
  BY <1>9 DEF Receive, ShutdownAnswered, TakeJoin, JoinReturns, CallUse, CallClose
<1>10. CASE ConnectReturns \/ DropBackend
  BY <1>1, <1>10 DEF ConnectReturns, DropBackend
<1>11. QED
  BY <1>1, <1>4, <1>5, <1>6, <1>7, <1>8, <1>9, <1>10 DEF CallerNext, Proceed

\* No caller lets go of a file without a close on its way.
LEMMA ForgottenCaller ==
    TypeOK /\ CallShape /\ BornOpen /\ TableMatchesServer /\ NoForgottenHandle /\ CallerNext
       => NoForgottenHandle'
<1> SUFFICES ASSUME TypeOK, CallShape, BornOpen, TableMatchesServer, NoForgottenHandle, CallerNext,
                    thread' = "running", NEW id \in DOMAIN handles
             PROVE  Owned(id)' \/ file'[serves[handles[id]]] = "abandoned"
  BY CallerLeavesThread DEF NoForgottenHandle
<1> USE DEF threadVars, fileVars, taskVars
<1> DEFINE f == serves[handles[id]]
<1>1. /\ thread = "running" /\ ReceiverAlive
      /\ handles' = handles /\ serves' = serves /\ f \in File
      /\ Owned(id) \/ file[f] = "abandoned"
  BY CallerLeavesThread DEF NoForgottenHandle, TableMatchesServer, TypeOK, ReceiverAlive
<1> DEFINE ByFile == file[f] = "alive" /\ ~closed[f] /\ fileId[f] = id
           ByClose(t) == pc[t] = "checked" /\ op[t] = "close" /\ on[t] = f /\ fileId[f] = id
           ByOpen(t) == pc[t] = "await" /\ op[t] = "open" /\ on[t] = f /\ reply[t] = Ok(id, f)
           Goal == Owned(id)' \/ file'[f] = "abandoned"
\* What makes Owned hold afterwards.
<1>2. /\ ByFile' => Owned(id)'
      /\ \A t \in Task : ByClose(t)' => Owned(id)'
      /\ \A t \in Task : ByOpen(t)' => Owned(id)'
      /\ (\E i \in 1..Len(queue') : queue'[i].op = "close" /\ queue'[i].id = id) => Owned(id)'
  BY <1>1 DEF Owned, Ok
<1>3. ASSUME \E i \in 1..Len(queue) : queue[i].op = "close" /\ queue[i].id = id
      PROVE  Goal
  BY <1>2, <1>3, QueueKept
\* A step that leaves the file and the owning task alone.
<1>4. ASSUME file'[f] = file[f], closed'[f] = closed[f], fileId'[f] = fileId[f],
             \A t \in Task : ByClose(t) => ByClose(t)' \/ Owned(id)',
             \A t \in Task : ByOpen(t) => ByOpen(t)' \/ Owned(id)'
      PROVE  Goal
  <2>1. CASE ByFile
    <3>1. ByFile'
      BY <1>1, <1>4, <2>1
    <3>2. QED
      BY <1>2, <3>1
  <2>4. CASE file[f] = "abandoned"
    BY <1>4, <2>4
  <2>2. CASE \E t \in Task : ByClose(t) \/ ByOpen(t)
    BY <1>2, <1>4, <2>2
  <2>3. QED
    BY <1>1, <1>3, <2>1, <2>2, <2>4 DEF Owned
<1> HIDE DEF Goal
<1>5. ASSUME NEW t \in Task, NEW o, NEW n, NEW g, Send(t, o, n, g), pc[t] = "idle",
             fileId' = fileId, closed' = closed,
             file[f] \in {"alive", "abandoned", "opening"} => file'[f] = file[f]
      PROVE  Goal
  <2>1. /\ \A u \in Task : u # t =>
              pc'[u] = pc[u] /\ op'[u] = op[u] /\ on'[u] = on[u] /\ reply'[u] = reply[u]
    BY <1>5, SendFacts
  <2>2. CASE ByFile
    <3>1. ByFile'
      BY <1>1, <1>5, <2>2
    <3>2. QED
      BY <1>2, <3>1 DEF Goal
  <2>5. CASE file[f] = "abandoned"
    BY <1>5, <2>5 DEF Goal
  <2>3. CASE \E u \in Task : ByClose(u) \/ ByOpen(u)
    BY <1>1, <1>2, <1>5, <2>1, <2>3 DEF Goal, Ok
  <2>4. QED
    BY <1>1, <1>3, <2>2, <2>3, <2>5 DEF Owned, Goal
<1>6. ASSUME NEW t \in Task, CallPath(t) \/ \E g \in File : CallOpen(t, g)
      PROVE  Goal
  <2>1. CASE CallPath(t)
    BY <1>5, <2>1 DEF CallPath
  <2>2. ASSUME NEW g \in File, CallOpen(t, g)
        PROVE  Goal
    <3>1. file[f] \in {"alive", "abandoned", "opening"} => file'[f] = file[f]
      BY <1>1, <2>2 DEF CallOpen, TypeOK
    <3>2. QED
      BY <1>5, <2>2, <3>1 DEF CallOpen
  <2>3. QED
    BY <1>6, <2>1, <2>2
<1>7. ASSUME NEW t \in Task, CallShutdown(t)
      PROVE  Goal
  <2>1. /\ \A u \in Task : u # t => pc'[u] = pc[u] /\ op'[u] = op[u]
        /\ pc[t] = "idle" /\ on' = on /\ reply' = reply
        /\ file' = file /\ closed' = closed /\ fileId' = fileId
    BY <1>7 DEF CallShutdown, TypeOK
  <2>2. /\ \A u \in Task : ByClose(u) => ByClose(u)'
        /\ \A u \in Task : ByOpen(u) => ByOpen(u)'
    BY <1>1, <2>1 DEF Ok
  <2>3. QED
    BY <1>4, <2>1, <2>2 DEF Goal
<1>8. ASSUME NEW t \in Task, SendChecked(t)
      PROVE  Goal
  <2>1. /\ pc[t] = "checked" /\ Send(t, op[t], fileId[on[t]], on[t])
        /\ file' = file /\ closed' = closed /\ fileId' = fileId
    BY <1>8 DEF SendChecked
  <2>2. /\ \A u \in Task : u # t =>
              pc'[u] = pc[u] /\ op'[u] = op[u] /\ on'[u] = on[u] /\ reply'[u] = reply[u]
        /\ queue' = Append(queue, [op |-> op[t], id |-> fileId[on[t]],
                                   path |-> IF op[t] = "open" THEN on[t] ELSE None, by |-> t])
    BY <1>1, <2>1, SendFacts
  <2>3. ByClose(t) => Owned(id)'
    <3>1. SUFFICES ASSUME ByClose(t) PROVE Owned(id)'
      OBVIOUS
    <3> DEFINE c == [op |-> "close", id |-> id, path |-> None, by |-> t]
    <3>2. queue' = Append(queue, c) /\ c.op = "close" /\ c.id = id
      BY <2>2, <3>1
    <3>3. c \in Command
      BY <3>1, <1>1 DEF Command, Op, TypeOK
    <3> HIDE DEF c
    <3>4. Len(queue) + 1 \in 1..Len(queue') /\ queue'[Len(queue) + 1] = c
      BY <3>2, <3>3, AppendFacts DEF TypeOK
    <3>5. QED
      BY <1>2, <3>2, <3>4
  <2>4. \A u \in Task : ByClose(u) => ByClose(u)' \/ Owned(id)'
    BY <1>1, <2>1, <2>2, <2>3
  <2>5. \A u \in Task : ByOpen(u) => ByOpen(u)'
    BY <1>1, <2>1, <2>2 DEF Ok
  <2>6. QED
    BY <1>4, <2>1, <2>4, <2>5 DEF Goal
<1>9. ASSUME NEW t \in Task, NEW g \in File, CallUse(t, g)
      PROVE  Goal
  <2>1. /\ \A u \in Task : u # t => pc'[u] = pc[u] /\ op'[u] = op[u] /\ on'[u] = on[u]
        /\ pc[t] = "idle" /\ reply' = reply
        /\ file' = file /\ closed' = closed /\ fileId' = fileId
    BY <1>9 DEF CallUse, TypeOK
  <2>2. /\ \A u \in Task : ByClose(u) => ByClose(u)'
        /\ \A u \in Task : ByOpen(u) => ByOpen(u)'
    BY <1>1, <2>1 DEF Ok
  <2>3. QED
    BY <1>4, <2>1, <2>2 DEF Goal
<1>10. ASSUME NEW t \in Task, NEW g \in File, CallClose(t, g)
       PROVE  Goal
  <2>1. /\ \A u \in Task : u # t => pc'[u] = pc[u] /\ op'[u] = op[u] /\ on'[u] = on[u]
        /\ pc[t] = "idle" /\ reply' = reply /\ file' = file /\ fileId' = fileId
        /\ pc'[t] = "checked" /\ op'[t] = "close" /\ on'[t] = g
        /\ \A x \in File : x # g => closed'[x] = closed[x]
    BY <1>10 DEF CallClose, TypeOK
  <2>2. /\ \A u \in Task : ByClose(u) => ByClose(u)'
        /\ \A u \in Task : ByOpen(u) => ByOpen(u)'
    BY <1>1, <2>1 DEF Ok
  <2>3. CASE f = g /\ ByFile
    <3>1. ByClose(t)'
      BY <1>1, <2>1, <2>3
    <3>2. QED
      BY <1>2, <3>1 DEF Goal
  <2>4. CASE f # g
    BY <1>1, <1>4, <2>1, <2>2, <2>4 DEF Goal
  <2>5. CASE f = g /\ ~ByFile
    <3>1. CASE file[f] = "abandoned"
      BY <2>1, <3>1 DEF Goal
    <3>2. CASE \E u \in Task : ByClose(u) \/ ByOpen(u)
      BY <1>2, <2>2, <3>2 DEF Goal
    <3>3. QED
      BY <1>1, <1>3, <2>5, <3>1, <3>2 DEF Owned, Goal
  <2>6. QED
    BY <2>3, <2>4, <2>5
<1>11. ASSUME NEW t \in Task, Receive(t)
       PROVE  Goal
  <2>1. /\ pc[t] = "await" /\ closed' = closed
        /\ \A u \in Task : u # t =>
              pc'[u] = pc[u] /\ op'[u] = op[u] /\ on'[u] = on[u] /\ reply'[u] = reply[u]
    BY <1>11, ReturnFacts DEF Receive, FileOpened
  <2>2. CASE op[t] = "open" /\ on[t] = f
    <3>1. file[f] = "opening" /\ ~closed[f]
      BY <1>1, <2>1, <2>2 DEF CallShape, Busy, BornOpen
    <3>2. /\ file'[f] = (IF reply[t].st = "ok" THEN "alive" ELSE "unborn")
          /\ fileId'[f] = reply[t].id
      BY <1>1, <1>11, <2>2 DEF Receive, FileOpened, TypeOK
    <3>3. \A u \in Task : ~ByClose(u)
      BY <1>1, <3>1 DEF CallShape, Busy, FileOps
    <3>4. \A u \in Task : ByOpen(u) => u = t
      BY <2>1, <2>2 DEF CallShape, Busy
    <3>5. CASE ByOpen(t)
      <4>1. ByFile'
        BY <1>1, <2>1, <3>1, <3>2, <3>5 DEF Ok
      <4>2. QED
        BY <1>2, <4>1 DEF Goal
    <3>6. CASE ~ByOpen(t)
      BY <1>1, <1>3, <3>1, <3>3, <3>4, <3>6 DEF Owned
    <3>7. QED
      BY <3>5, <3>6
  <2>3. CASE ~(op[t] = "open" /\ on[t] = f)
    <3>1. file'[f] = file[f] /\ fileId'[f] = fileId[f]
      BY <1>1, <1>11, <2>3 DEF Receive, FileOpened, TypeOK
    <3>2. /\ \A u \in Task : ByClose(u) => ByClose(u)'
          /\ \A u \in Task : ByOpen(u) => ByOpen(u)'
      BY <1>1, <2>1, <2>3, <3>1 DEF Ok
    <3>3. QED
      BY <1>4, <2>1, <3>1, <3>2 DEF Goal
  <2>4. QED
    BY <2>2, <2>3
<1>12. ASSUME NEW t \in Task, ShutdownAnswered(t) \/ TakeJoin(t) \/ JoinReturns(t)
       PROVE  Goal
  <2>1. /\ \A u \in Task : u # t =>
              pc'[u] = pc[u] /\ op'[u] = op[u] /\ on'[u] = on[u] /\ reply'[u] = reply[u]
        /\ file' = file /\ closed' = closed /\ fileId' = fileId
    BY <1>12, ReturnFacts DEF ShutdownAnswered, TakeJoin, JoinReturns, TypeOK
  <2>2. op[t] = "shutdown"
    BY <1>12 DEF ShutdownAnswered, TakeJoin, JoinReturns, CallShape
  <2>3. /\ \A u \in Task : ByClose(u) => ByClose(u)'
        /\ \A u \in Task : ByOpen(u) => ByOpen(u)'
    BY <1>1, <2>1, <2>2 DEF Ok
  <2>4. QED
    BY <1>4, <2>1, <2>3 DEF Goal
<1>13. ASSUME NEW t \in Task, Abandon(t)
       PROVE  Goal
  <2>1. /\ pc[t] \in {"await", "joining"} /\ closed' = closed /\ fileId' = fileId
        /\ \A u \in Task : u # t =>
              pc'[u] = pc[u] /\ op'[u] = op[u] /\ on'[u] = on[u] /\ reply'[u] = reply[u]
    BY <1>13, ReturnFacts DEF Abandon
  <2>2. CASE op[t] = "open" /\ on[t] = f
    <3>1. file'[f] = "abandoned"
      BY <1>1, <1>13, <2>2 DEF Abandon, TypeOK
    <3>2. QED
      BY <3>1 DEF Goal
  <2>3. CASE ~(op[t] = "open" /\ on[t] = f)
    <3>1. file'[f] = file[f]
      BY <1>1, <1>13, <2>3 DEF Abandon, TypeOK
    <3>2. /\ \A u \in Task : ByClose(u) => ByClose(u)'
          /\ \A u \in Task : ByOpen(u) => ByOpen(u)'
      BY <1>1, <2>1, <2>3 DEF Ok
    <3>3. QED
      BY <1>4, <2>1, <3>1, <3>2 DEF Goal
  <2>4. QED
    BY <2>2, <2>3
<1>14. ASSUME NEW g \in File, DropFile(g)
       PROVE  Goal
  <2>1. /\ pc' = pc /\ op' = op /\ on' = on /\ reply' = reply /\ fileId' = fileId
        /\ file[g] = "alive"
        /\ \A x \in File : x # g => file'[x] = file[x] /\ closed'[x] = closed[x]
    BY <1>14 DEF DropFile, TypeOK
  <2>2. /\ \A u \in Task : ByClose(u) => ByClose(u)'
        /\ \A u \in Task : ByOpen(u) => ByOpen(u)'
    BY <1>1, <2>1 DEF Ok
  <2>3. CASE f # g
    BY <1>1, <1>4, <2>1, <2>2, <2>3 DEF Goal
  <2>4. CASE f = g /\ ByFile
    <3> DEFINE c == [op |-> "close", id |-> id, path |-> None, by |-> None]
    <3>1. queue' = Append(queue, c) /\ c.op = "close" /\ c.id = id
      BY <1>1, <1>14, <2>4 DEF DropFile
    <3>2. c \in Command
      BY <1>1, <2>4 DEF Command, Op, TypeOK
    <3> HIDE DEF c
    <3>3. Len(queue) + 1 \in 1..Len(queue') /\ queue'[Len(queue) + 1] = c
      BY <3>1, <3>2, AppendFacts DEF TypeOK
    <3>4. QED
      BY <1>2, <3>1, <3>3 DEF Goal
  <2>5. CASE f = g /\ ~ByFile
    <3>1. CASE \E u \in Task : ByClose(u) \/ ByOpen(u)
      BY <1>2, <2>2, <3>1 DEF Goal
    <3>2. CASE ~\E u \in Task : ByClose(u) \/ ByOpen(u)
      BY <1>1, <1>3, <2>1, <2>5, <3>2 DEF Owned
    <3>3. QED
      BY <3>1, <3>2
  <2>6. QED
    BY <2>3, <2>4, <2>5
<1>15. CASE ConnectReturns \/ DropBackend
  <2>1. /\ pc' = pc /\ op' = op /\ on' = on /\ reply' = reply
        /\ file' = file /\ closed' = closed /\ fileId' = fileId
    BY <1>15 DEF ConnectReturns, DropBackend
  <2>2. Goal
    BY <1>1, <1>4, <2>1 DEF Goal, Ok
  <2>3. QED
    BY <2>2 DEF Goal
<1>16. Goal
  BY <1>6, <1>7, <1>8, <1>9, <1>10, <1>11, <1>12, <1>13, <1>14, <1>15 DEF CallerNext, Proceed, Goal
<1>17. QED
  BY <1>16 DEF Goal

-----------------------------------------------------------------------------
(* The invariant and what follows from it *)

\* The session starts with an empty table, an empty channel and idle tasks.
LEMMA InitIInv == Init => IInv
<1> SUFFICES ASSUME Init PROVE IInv
  OBVIOUS
<1>1. TypeOK
  BY InitType
<1>2. CallShape /\ BornOpen /\ AnswersComeFromOwnHandle
  BY DEF Init, CallShape, BornOpen, AnswersComeFromOwnHandle, Busy
<1>3. QueueShape
  BY DEF Init, QueueShape
<1>4. IdsStandForOneOpen
  BY DEF Init, IdsStandForOneOpen
<1>5. TableMatchesServer /\ TableEmptyOutsideSession /\ NoForgottenHandle
  BY NoneAssumption DEF Init, TableMatchesServer, TableEmptyOutsideSession, NoForgottenHandle, NoHandles
<1>6. OneMayJoin
  BY DEF Init, OneMayJoin, MayJoin
<1>7. QED
  BY <1>1, <1>2, <1>3, <1>4, <1>5, <1>6 DEF IInv

\* A step that changes nothing keeps it.
LEMMA StutterIInv == IInv /\ UNCHANGED vars => IInv'
<1> SUFFICES ASSUME IInv, UNCHANGED vars PROVE IInv'
  OBVIOUS
<1> USE DEF vars, threadVars, fileVars, taskVars
<1>1. TypeOK' /\ CallShape' /\ BornOpen' /\ AnswersComeFromOwnHandle'
  BY DEF IInv, TypeOK, CallShape, Busy, BornOpen, AnswersComeFromOwnHandle
<1>2. QueueShape' /\ IdsStandForOneOpen'
  BY DEF IInv, QueueShape, IdsStandForOneOpen
<1>3. TableMatchesServer' /\ TableEmptyOutsideSession' /\ OneMayJoin'
  BY DEF IInv, TableMatchesServer, TableEmptyOutsideSession, ContextLive, OneMayJoin, MayJoin
<1>4. NoForgottenHandle'
  BY DEF IInv, NoForgottenHandle, Owned
<1>5. QED
  BY <1>1, <1>2, <1>3, <1>4 DEF IInv

\* Every step keeps it: of the thread, of a caller, or none.
LEMMA NextIInv == IInv /\ [Next]_vars => IInv'
<1> SUFFICES ASSUME IInv, [Next]_vars PROVE IInv'
  OBVIOUS
<1> USE DEF IInv
<1>1. CASE ThreadNext
  <2>1. Next
    BY <1>1 DEF Next
  <2>2. TypeOK' /\ CallShape' /\ QueueShape' /\ BornOpen'
    BY <1>1, <2>1, ThreadType, CallShapeThread, QueueShapeThread, BornOpenStep
  <2>3. IdsStandForOneOpen' /\ AnswersComeFromOwnHandle'
    BY <1>1, <2>1, IdsThread, AnswersStep
  <2>4. TableMatchesServer' /\ TableEmptyOutsideSession'
    BY <1>1, TableThread
  <2>5. NoForgottenHandle' /\ OneMayJoin'
    BY <1>1, ForgottenThread, OneMayJoinThread
  <2>6. QED
    BY <2>2, <2>3, <2>4, <2>5
<1>2. CASE CallerNext
  <2>1. Next
    BY <1>2 DEF Next
  <2>2. TypeOK' /\ CallShape' /\ QueueShape' /\ BornOpen'
    BY <1>2, <2>1, CallerType, CallShapeCaller, QueueShapeCaller, BornOpenStep
  <2>3. IdsStandForOneOpen' /\ AnswersComeFromOwnHandle'
    BY <1>2, <2>1, IdsCaller, AnswersStep
  <2>4. TableMatchesServer' /\ TableEmptyOutsideSession'
    BY <1>2, TableCaller
  <2>5. NoForgottenHandle' /\ OneMayJoin'
    BY <1>2, ForgottenCaller, OneMayJoinCaller
  <2>6. QED
    BY <2>2, <2>3, <2>4, <2>5
<1>3. CASE Finished \/ UNCHANGED vars
  BY <1>3, StutterIInv DEF Finished
<1>4. QED
  BY <1>1, <1>2, <1>3 DEF Next

\* IInv is an invariant of the session for any numbers of tasks, files and
\* handles, any subset of abandoning tasks and any bound on the channel.
THEOREM InductiveInvariant == Spec => []IInv
<1>1. Init => IInv
  BY InitIInv
<1>2. IInv /\ [Next]_vars => IInv'
  BY NextIInv
<1>3. QED
  BY <1>1, <1>2, PTL DEF Spec

\* Every variable keeps its type; ids in the table are ids that were handed out.
THEOREM TypeCorrect == Spec => []TypeOK
<1>1. IInv => TypeOK
  BY DEF IInv
<1>2. QED
  BY <1>1, InductiveInvariant, PTL

\* OpenFiles and libsmb2 agree on the open handles at all times: an entry is
\* added and removed only together with the handle it stands for.
THEOREM TableCorrect == Spec => []TableMatchesServer
<1>1. IInv => TableMatchesServer
  BY DEF IInv
<1>2. QED
  BY <1>1, InductiveInvariant, PTL

\* An answer about a file comes from the handle of that file, however late the
\* command is executed: OpenFiles::insert never hands an id out twice.
THEOREM OwnAnswers == Spec => []AnswersComeFromOwnHandle
<1>1. IInv => AnswersComeFromOwnHandle
  BY DEF IInv
<1>2. QED
  BY <1>1, InductiveInvariant, PTL

\* RemoteFile::close and RemoteFile::drop between them leave no handle that
\* nobody will close, but for an open whose caller went away.
THEOREM NothingForgotten == Spec => []NoForgottenHandle
<1>1. IInv => NoForgottenHandle
  BY DEF IInv
<1>2. QED
  BY <1>1, InductiveInvariant, PTL

\* actor_thread destroys the context after OpenFiles::close_all has closed every
\* handle, those of abandoned opens included, and nothing opens one afterwards.
THEOREM ContextGoesLast == Spec => []ClosedBeforeContextGoes
<1>1. IInv => ClosedBeforeContextGoes
  BY DEF IInv, TableMatchesServer, TableEmptyOutsideSession, ClosedBeforeContextGoes
<1>2. QED
  BY <1>1, InductiveInvariant, PTL

\* Session::shutdown returns to nobody before the thread and its context are
\* gone: whoever finds the join handle taken was answered by the thread's end.
THEOREM ShutdownWaits == Spec => ShutdownMeansGone
<1>1. IInv /\ [Next]_vars =>
         [\A t \in Task : ShutdownReturns(t) => thread = "exited"]_vars
  <2> SUFFICES ASSUME IInv, NEW t \in Task, ShutdownReturns(t)
               PROVE  thread = "exited"
    OBVIOUS
  <2>1. CASE JoinReturns(t)
    BY <2>1 DEF JoinReturns
  <2>2. CASE TakeJoin(t)
    <3>1. MayJoin(t)
      BY <2>2 DEF TakeJoin, MayJoin
    <3>2. CASE join = "held"
      <4>1. pc'[t] = "joining"
        BY <2>2, <3>2 DEF TakeJoin, IInv, TypeOK
      <4>2. QED
        BY <4>1 DEF ShutdownReturns
    <3>3. QED
      BY <3>1, <3>2 DEF IInv, OneMayJoin, TypeOK
  <2>3. QED
    BY <2>1, <2>2 DEF ShutdownReturns
<1>2. QED
  BY <1>1, InductiveInvariant, PTL DEF Spec, ShutdownMeansGone
=============================================================================
