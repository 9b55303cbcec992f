-------------------------- MODULE SmbSession_refines --------------------------
(* That SmbSession implements FileService, and that nobody waits for ever in it, for every
   set of tasks, files and handles. *)
EXTENDS SmbSession_proofs, FiniteSetTheorems

-----------------------------------------------------------------------------
(* What the refinement rests on, beside the inductive invariant of SmbSession *)

\* Nobody has used the session yet.
Unused ==
    /\ queue = <<>>
    /\ \A t \in Task : pc[t] = "idle"
    /\ \A f \in File : file[f] = "unborn"

\* Nothing is sent before the caller has been told that the session is up, and the
\* caller is told how connecting ended, not how the thread did.
Starts ==
    /\ thread = "connecting" => Unused
    /\ ready # "pending" => thread # "connecting"
    /\ backend = "up" => ready = "ok"
    /\ backend = "connecting" =>
          /\ Unused
          /\ thread \in {"connecting", "running", "exited"}
          /\ thread = "exited" => ready = "err"
          /\ ready = "err" => thread = "exited"

\* A call that waits is either in the queue or answered; its answer is lost only with
\* the thread.
Waits ==
    \A t \in Task :
       /\ reply[t] \in {Pending, Lost, Failed} \/ reply[t].st = "ok"
       /\ reply[t] = Lost => thread = "exited"
       /\ pc[t] = "await" /\ reply[t] = Pending => \E i \in 1..Len(queue) : queue[i].by = t
       /\ pc[t] = "joining" => join = "taken"

\* A call on the backend is about no file, or about the one it opens.
OnBackend == \A t \in Task : op[t] \in {"path", "shutdown"} => on[t] = None

\* An open whose caller has not looked at the answer yet.
Opened(t) == pc[t] = "await" /\ op[t] = "open" /\ reply[t].st = "ok"

\* The ids of files: a file has one from the moment its open has returned, for good, and
\* it has it alone.
OwnIds ==
    /\ \A f \in File : fileId[f] # 0 =>
          /\ file[f] \in {"alive", "dropped"} /\ fileId[f] \in 1..nextId
          /\ fileId[f] \in DOMAIN handles => serves[handles[fileId[f]]] = f
    /\ \A f, g \in File : fileId[f] = fileId[g] /\ fileId[f] # 0 => f = g
    /\ \A t \in Task : Opened(t) =>
          /\ \A f \in File : fileId[f] # reply[t].id
          /\ \A u \in Task : Opened(u) /\ reply[u].id = reply[t].id => u = t

\* A file is opened on the server once: what is open was neither refused nor is it
\* still to be opened.
OpenedOnce ==
    /\ \A h, k \in Fh : serves[h] = serves[k] /\ serves[h] # None => h = k
    /\ \A h \in Fh : serves[h] # None =>
          /\ file[serves[h]] # "unborn"
          /\ \A i \in 1..Len(queue) : queue[i].op = "open" => queue[i].path # serves[h]
          /\ \A t \in Task : pc[t] = "await" /\ op[t] = "open" /\ on[t] = serves[h] =>
                reply[t].st = "ok"
    /\ \A i, j \in 1..Len(queue) :
          queue[i].op = "open" /\ queue[j].op = "open" /\ queue[i].path = queue[j].path => i = j

\* A close that has passed the check of the flag and is not sent yet.
Closing(t) == pc[t] = "checked" /\ op[t] = "close"

\* It is closed once: whoever sets the flag, close or drop, sends the one command.
ClosedOnce ==
    /\ \A i \in 1..Len(queue) : queue[i].op = "close" =>
          \E f \in File : fileId[f] = queue[i].id /\ fileId[f] # 0 /\ closed[f]
    /\ \A i, j \in 1..Len(queue) :
          queue[i].op = "close" /\ queue[j].op = "close" /\ queue[i].id = queue[j].id => i = j
    /\ \A t \in Task : Closing(t) =>
          /\ closed[on[t]]
          /\ \A i \in 1..Len(queue) : queue[i].op = "close" => queue[i].id # fileId[on[t]]
          /\ \A u \in Task : Closing(u) /\ on[u] = on[t] => u = t

\* So a close finds its handle: no other close can have come before it.
ClosesFind ==
    thread = "running" =>
       /\ \A f \in File : file[f] = "alive" /\ ~closed[f] => fileId[f] \in DOMAIN handles
       /\ \A t \in Task : Closing(t) => fileId[on[t]] \in DOMAIN handles
       /\ \A i \in 1..Len(queue) : queue[i].op = "close" => queue[i].id \in DOMAIN handles
       /\ \A t \in Task : Opened(t) => reply[t].id \in DOMAIN handles

RInv == Starts /\ Waits /\ OnBackend /\ OwnIds /\ OpenedOnce /\ ClosedOnce /\ ClosesFind

-----------------------------------------------------------------------------
(* What the callers do, to the queue and to the files *)

\* A command joins the queue: an open of a file that has had none, or the close of a
\* file whose flag was clear until this step or has been set by the sender.
Joins(c) ==
    /\ Len(queue') = Len(queue) + 1
    /\ \A i \in 1..Len(queue) : queue'[i] = queue[i]
    /\ queue'[Len(queue) + 1] = c
    /\ ReceiverAlive
    /\ c.op = "open" => c.path \in File /\ file[c.path] = "unborn"
    /\ c.op = "close" =>
          \/ \E t \in Task : Closing(t) /\ c.id = fileId[on[t]] /\ ~Closing(t)'
          \/ \E f \in File : file[f] = "alive" /\ ~closed[f] /\ closed'[f] /\ c.id = fileId[f]

\* The queue stays, but for the commands whose callers have gone.
QueueStays ==
    /\ Len(queue') = Len(queue)
    /\ \A i \in 1..Len(queue) : /\ queue'[i].op = queue[i].op /\ queue'[i].id = queue[i].id
                                /\ queue'[i].path = queue[i].path
                                /\ queue'[i].by = queue[i].by \/ pc'[queue[i].by] = "idle"

\* A send is a command more at the end.
LEMMA SendJoins ==
    ASSUME TypeOK, NEW t \in Task, NEW o \in Op, NEW id \in Nat, NEW f \in File \cup {None},
           Send(t, o, id, f),
           o = "open" => f \in File /\ file[f] = "unborn",
           o = "close" => Closing(t) /\ id = fileId[on[t]]
    PROVE  QueueStays \/ \E c \in Command : Joins(c)
<1>1. CASE ReceiverAlive
  <2>1. DEFINE c == [op |-> o, id |-> id, path |-> IF o = "open" THEN f ELSE None, by |-> t]
  <2>2. (IF o = "open" THEN f ELSE None) \in File \cup {None}
    OBVIOUS
  <2>3. c \in Command /\ c.op = o /\ c.id = id /\ (o = "open" => c.path = f)
    BY <2>2 DEF Command
  <2>4. queue' = Append(queue, c) /\ pc'[t] = "await"
    BY <1>1, SendFacts
  <2> HIDE DEF c
  <2>5. /\ Len(queue') = Len(queue) + 1
        /\ \A i \in 1..Len(queue) : queue'[i] = queue[i]
        /\ queue'[Len(queue) + 1] = c
    BY <2>3, <2>4, AppendFacts DEF TypeOK
  <2>6. ~Closing(t)'
    BY <2>4 DEF Closing
  <2>7. c.op = "close" => \E u \in Task : Closing(u) /\ c.id = fileId[on[u]] /\ ~Closing(u)'
    BY <2>3, <2>6
  <2>8. Joins(c)
    BY <1>1, <2>3, <2>5, <2>7 DEF Joins
  <2>9. QED
    BY <2>3, <2>8
<1>2. CASE ~ReceiverAlive
  BY <1>2, SendFacts DEF QueueStays
<1>3. QED
  BY <1>1, <1>2

LEMMA CallerQueue ==
    ASSUME TypeOK, CallShape, CallerNext
    PROVE  QueueStays \/ \E c \in Command : Joins(c)
<1> USE DEF threadVars, fileVars, taskVars
<1>1. CASE queue' = queue
  BY <1>1 DEF QueueStays
<1>2. ASSUME NEW t \in Task, CallPath(t) \/ \E f \in File : CallOpen(t, f)
      PROVE  QueueStays \/ \E c \in Command : Joins(c)
  BY <1>2, SendJoins DEF CallPath, CallOpen, Op
<1>3. ASSUME NEW t \in Task, SendChecked(t)
      PROVE  QueueStays \/ \E c \in Command : Joins(c)
  <2>1. /\ on[t] \in File /\ op[t] \in Op /\ op[t] # "open" /\ fileId[on[t]] \in Nat
        /\ op[t] = "close" => Closing(t)
    BY <1>3 DEF SendChecked, CallShape, Busy, FileOps, TypeOK, Closing
  <2>2. Send(t, op[t], fileId[on[t]], on[t])
    BY <1>3 DEF SendChecked
  <2>3. QED
    BY <2>1, <2>2, SendJoins
<1>4. ASSUME NEW t \in Task, CallShutdown(t)
      PROVE  QueueStays \/ \E c \in Command : Joins(c)
  <2>1. DEFINE c == [op |-> "shutdown", id |-> 0, path |-> None, by |-> t]
  <2>2. c \in Command /\ c.op = "shutdown"
    BY DEF Command, Op
  <2>3. (queue' = Append(queue, c) /\ ReceiverAlive) \/ queue' = queue
    BY <1>4 DEF CallShutdown
  <2> HIDE DEF c
  <2>4. CASE queue' = Append(queue, c) /\ ReceiverAlive
    <3>1. /\ Len(queue') = Len(queue) + 1
          /\ \A i \in 1..Len(queue) : queue'[i] = queue[i]
          /\ queue'[Len(queue) + 1] = c
      BY <2>2, <2>4, AppendFacts DEF TypeOK
    <3>2. QED
      BY <2>2, <2>4, <3>1 DEF Joins
  <2>5. QED
    BY <1>1, <2>3, <2>4
<1>5. ASSUME NEW t \in Task, Abandon(t)
      PROVE  QueueStays
  <2>1. queue' = [j \in 1..Len(queue) |->
                    IF queue[j].by = t THEN [queue[j] EXCEPT !.by = None] ELSE queue[j]]
    BY <1>5 DEF Abandon
  <2>2. queue' \in Seq(Command) /\ DOMAIN queue' = 1..Len(queue) /\ Len(queue) \in Nat
    BY <2>1, AbandonedQueue DEF TypeOK
  <2>3. Len(queue') = Len(queue)
    BY <2>2
  <2>4. ASSUME NEW i \in 1..Len(queue)
        PROVE  /\ queue'[i].op = queue[i].op /\ queue'[i].id = queue[i].id
               /\ queue'[i].path = queue[i].path
               /\ queue'[i].by = queue[i].by \/ pc'[queue[i].by] = "idle"
    <3>1. queue[i] \in Command
      BY DEF TypeOK
    <3>2. pc'[t] = "idle"
      BY <1>5, ReturnFacts DEF Abandon
    <3>3. QED
      BY <2>1, <3>1, <3>2 DEF Command
  <2>5. QED
    BY <2>3, <2>4 DEF QueueStays
<1>6. ASSUME NEW f \in File, DropFile(f)
      PROVE  QueueStays \/ \E c \in Command : Joins(c)
  <2>1. DEFINE c == [op |-> "close", id |-> fileId[f], path |-> None, by |-> None]
  <2>2. c \in Command /\ c.op = "close" /\ c.id = fileId[f]
    BY DEF Command, Op, TypeOK
  <2>3. (queue' = Append(queue, c) /\ ~closed[f] /\ ReceiverAlive) \/ queue' = queue
    BY <1>6 DEF DropFile
  <2>4. file[f] = "alive" /\ closed'[f]
    BY <1>6 DEF DropFile, TypeOK
  <2> HIDE DEF c
  <2>5. CASE queue' = Append(queue, c) /\ ~closed[f] /\ ReceiverAlive
    <3>1. /\ Len(queue') = Len(queue) + 1
          /\ \A i \in 1..Len(queue) : queue'[i] = queue[i]
          /\ queue'[Len(queue) + 1] = c
      BY <2>2, <2>5, AppendFacts DEF TypeOK
    <3>2. Joins(c)
      BY <2>2, <2>4, <2>5, <3>1 DEF Joins
    <3>3. QED
      BY <2>2, <3>2
  <2>6. QED
    BY <1>1, <2>3, <2>5
<1>7. ASSUME NEW t \in Task,
             \/ Receive(t) \/ ShutdownAnswered(t) \/ TakeJoin(t) \/ JoinReturns(t)
             \/ \E f \in File : CallUse(t, f) \/ CallClose(t, f)
      PROVE  queue' = queue
  BY <1>7 DEF Receive, ShutdownAnswered, TakeJoin, JoinReturns, CallUse, CallClose
<1>8. CASE ConnectReturns \/ DropBackend
  BY <1>1, <1>8 DEF ConnectReturns, DropBackend
<1>9. QED
  BY <1>1, <1>2, <1>3, <1>4, <1>5, <1>6, <1>7, <1>8 DEF CallerNext, Proceed

\* A flag once set stays set.
LEMMA ClosedStays ==
    ASSUME TypeOK, CallerNext, NEW f \in File, closed[f]
    PROVE  closed'[f]
BY DEF CallerNext, Proceed, ConnectReturns, DropBackend, CallPath, CallShutdown, CallOpen, CallUse,
       CallClose, SendChecked, Receive, FileOpened, ShutdownAnswered, TakeJoin, JoinReturns, Abandon,
       DropFile, threadVars, fileVars, TypeOK

\* An id is given to a file when the answer to its open is looked at, and taken from none.
LEMMA CallerIds ==
    ASSUME TypeOK, CallShape, OwnIds, Waits, CallerNext, NEW f \in File
    PROVE  \/ /\ fileId'[f] = fileId[f]
              /\ file[f] \in {"alive", "dropped"} => file'[f] \in {"alive", "dropped"}
           \/ \E t \in Task : /\ Opened(t) /\ ~Opened(t)' /\ on[t] = f /\ fileId[f] = 0
                              /\ fileId'[f] = reply[t].id /\ file'[f] = "alive"
<1> DEFINE Goal ==
       \/ /\ fileId'[f] = fileId[f]
          /\ file[f] \in {"alive", "dropped"} => file'[f] \in {"alive", "dropped"}
       \/ \E t \in Task : /\ Opened(t) /\ ~Opened(t)' /\ on[t] = f /\ fileId[f] = 0
                          /\ fileId'[f] = reply[t].id /\ file'[f] = "alive"
<1> USE DEF threadVars, fileVars, taskVars
<1>1. ASSUME NEW t \in Task, Receive(t), op[t] = "open", on[t] = f
      PROVE  Goal
  <2>1. /\ pc[t] = "await" /\ file[f] = "opening" /\ pc'[t] = "idle"
        /\ file'[f] = (IF reply[t].st = "ok" THEN "alive" ELSE "unborn")
        /\ fileId'[f] = reply[t].id
    BY <1>1, ReturnFacts DEF Receive, FileOpened, TypeOK, CallShape, Busy
  <2>2. fileId[f] = 0
    BY <2>1 DEF OwnIds
  <2>3. CASE reply[t].st = "ok"
    BY <1>1, <2>1, <2>2, <2>3 DEF Opened
  <2>4. CASE reply[t].st # "ok"
    <3>1. reply[t].id = 0
      BY <2>4 DEF Waits, Pending, Lost, Failed
    <3>2. QED
      BY <2>1, <2>2, <3>1
  <2>5. QED
    BY <2>3, <2>4
<1>2. ASSUME NEW t \in Task, Receive(t), ~(op[t] = "open" /\ on[t] = f)
      PROVE  fileId'[f] = fileId[f] /\ file'[f] = file[f]
  BY <1>2 DEF Receive, FileOpened, TypeOK
<1>3. ASSUME NEW t \in Task, Abandon(t)
      PROVE  fileId'[f] = fileId[f] /\ (file[f] \in {"alive", "dropped"} => file'[f] = file[f])
  <2>1. CASE op[t] = "open"
    <3>1. on[t] \in File /\ file[on[t]] = "opening"
      BY <1>3, <2>1 DEF Abandon, CallShape, Busy
    <3>2. QED
      BY <1>3, <2>1, <3>1 DEF Abandon, TypeOK
  <2>2. CASE op[t] # "open"
    BY <1>3, <2>2 DEF Abandon
  <2>3. QED
    BY <2>1, <2>2
<1>4. ASSUME NEW t \in Task, NEW g \in File, CallOpen(t, g)
      PROVE  fileId'[f] = fileId[f] /\ (file[f] \in {"alive", "dropped"} => file'[f] = file[f])
  BY <1>4 DEF CallOpen, TypeOK
<1>5. ASSUME NEW g \in File, DropFile(g)
      PROVE  fileId'[f] = fileId[f] /\ (file[f] \in {"alive", "dropped"} => file'[f] \in {"alive", "dropped"})
  BY <1>5 DEF DropFile, TypeOK
<1>6. ASSUME NEW t \in Task,
             \/ CallPath(t) \/ CallShutdown(t) \/ SendChecked(t)
             \/ ShutdownAnswered(t) \/ TakeJoin(t) \/ JoinReturns(t)
             \/ \E g \in File : CallUse(t, g) \/ CallClose(t, g)
      PROVE  fileId'[f] = fileId[f] /\ file'[f] = file[f]
  BY <1>6 DEF CallPath, CallShutdown, SendChecked, ShutdownAnswered, TakeJoin, JoinReturns,
              CallUse, CallClose
<1>7. ASSUME ConnectReturns \/ DropBackend
      PROVE  Goal
  BY <1>7 DEF ConnectReturns, DropBackend
<1>8. ASSUME NEW t \in Task, Receive(t)
      PROVE  Goal
  BY <1>1, <1>2, <1>8
<1>9. ASSUME NEW t \in Task, Abandon(t) \/ \E g \in File : CallOpen(t, g)
      PROVE  Goal
  BY <1>3, <1>4, <1>9
<1>10. ASSUME NEW t \in Task,
              \/ CallPath(t) \/ CallShutdown(t) \/ SendChecked(t)
              \/ ShutdownAnswered(t) \/ TakeJoin(t) \/ JoinReturns(t)
              \/ \E g \in File : CallUse(t, g) \/ CallClose(t, g)
       PROVE  Goal
  BY <1>6, <1>10
<1>11. ASSUME NEW g \in File, DropFile(g)
       PROVE  Goal
  BY <1>5, <1>11
<1> HIDE DEF Goal
<1>12. Goal
  BY <1>7, <1>8, <1>9, <1>10, <1>11 DEF CallerNext, Proceed
<1>13. QED
  BY <1>12 DEF Goal

\* A close is past the check of the flag because it was before, or because its caller has
\* just set the flag; and then nobody else has done anything.
LEMMA CallerCloses ==
    ASSUME TypeOK, CallShape, CallerNext, NEW t \in Task, Closing(t)'
    PROVE  \/ Closing(t) /\ on'[t] = on[t]
           \/ /\ on'[t] \in File /\ file[on'[t]] = "alive" /\ ~closed[on'[t]] /\ closed'[on'[t]]
              /\ queue' = queue /\ fileId' = fileId
              /\ \A u \in Task : u # t /\ Closing(u)' => Closing(u) /\ on'[u] = on[u]
<1> USE DEF threadVars, fileVars, taskVars
<1>1. ASSUME NEW f \in File, CallClose(t, f)
      PROVE  /\ on'[t] \in File /\ file[on'[t]] = "alive" /\ ~closed[on'[t]] /\ closed'[on'[t]]
             /\ queue' = queue /\ fileId' = fileId
             /\ \A u \in Task : u # t /\ Closing(u)' => Closing(u) /\ on'[u] = on[u]
  BY <1>1 DEF CallClose, Closing, TypeOK
<1>2. ASSUME NEW u \in Task, NEW f \in File, CallUse(u, f) \/ (CallClose(u, f) /\ u # t)
      PROVE  Closing(t) /\ on'[t] = on[t]
  <2>1. CASE CallUse(u, f)
    BY <2>1 DEF CallUse, Closing, TypeOK
  <2>2. CASE CallClose(u, f) /\ u # t
    BY <2>2 DEF CallClose, Closing, TypeOK
  <2>3. QED
    BY <1>2, <2>1, <2>2
<1>3. ASSUME NEW u \in Task, CallPath(u) \/ SendChecked(u) \/ \E f \in File : CallOpen(u, f)
      PROVE  Closing(t) /\ on'[t] = on[t]
  <2>1. \E o, id, f : Send(u, o, id, f)
    BY <1>3 DEF CallPath, SendChecked, CallOpen
  <2>2. /\ t # u => pc'[t] = pc[t] /\ op'[t] = op[t] /\ on'[t] = on[t]
        /\ pc'[u] # "checked"
    BY <2>1, SendFacts
  <2>3. QED
    BY <2>2 DEF Closing
<1>4. ASSUME NEW u \in Task, Return(u)
      PROVE  Closing(t) /\ on'[t] = on[t]
  BY <1>4, ReturnFacts DEF Closing
<1>5. ASSUME NEW u \in Task,
             \/ CallShutdown(u) \/ Receive(u) \/ ShutdownAnswered(u) \/ TakeJoin(u)
             \/ JoinReturns(u) \/ Abandon(u)
      PROVE  Closing(t) /\ on'[t] = on[t]
  <2>1. CASE Receive(u) \/ JoinReturns(u) \/ Abandon(u)
    BY <1>4, <2>1 DEF Receive, JoinReturns, Abandon
  <2>2. CASE CallShutdown(u)
    BY <2>2 DEF CallShutdown, Closing, TypeOK
  <2>3. CASE ShutdownAnswered(u)
    BY <2>3 DEF ShutdownAnswered, Closing, TypeOK
  <2>4. CASE TakeJoin(u)
    BY <1>4, <2>4 DEF TakeJoin, Closing, TypeOK
  <2>5. QED
    BY <1>5, <2>1, <2>2, <2>3, <2>4
<1>6. CASE ConnectReturns \/ DropBackend \/ \E f \in File : DropFile(f)
  BY <1>6 DEF ConnectReturns, DropBackend, DropFile, Closing
<1>7. QED
  BY <1>1, <1>2, <1>3, <1>5, <1>6 DEF CallerNext, Proceed

-----------------------------------------------------------------------------
(* The callers keep it *)

\* Nobody uses the session before connecting has returned, nor after it has failed.
LEMMA StartsCaller == TypeOK /\ Starts /\ CallerNext => Starts'
<1> SUFFICES ASSUME TypeOK, Starts, CallerNext PROVE Starts'
  OBVIOUS
<1> USE DEF threadVars, fileVars, taskVars
<1>1. thread' = thread /\ ready' = ready
  BY DEF CallerNext, Proceed, ConnectReturns, DropBackend, CallPath, CallShutdown, CallOpen, CallUse,
         CallClose, SendChecked, Receive, ShutdownAnswered, TakeJoin, JoinReturns, Abandon, DropFile
<1>2. CASE ConnectReturns \/ DropBackend
  <2>1. Unused' = Unused
    BY <1>2 DEF ConnectReturns, DropBackend, Unused
  <2>2. backend' # "connecting" /\ (backend' = "up" => ready = "ok")
    BY <1>2 DEF ConnectReturns, DropBackend
  <2>3. QED
    BY <1>1, <2>1, <2>2 DEF Starts
<1>3. CASE ~(ConnectReturns \/ DropBackend)
  <2>1. backend' = backend
    BY <1>3 DEF CallerNext, Proceed, CallPath, CallShutdown, CallOpen, CallUse,
         CallClose, SendChecked, Receive, ShutdownAnswered, TakeJoin, JoinReturns, Abandon, DropFile
  <2>2. \/ backend = "up"
        \/ \E t \in Task : pc[t] # "idle"
        \/ \E f \in File : file[f] = "alive"
    <3>1. ASSUME NEW t \in Task, Proceed(t) \/ Abandon(t)
          PROVE  pc[t] # "idle"
      BY <3>1 DEF Proceed, SendChecked, Receive, ShutdownAnswered, TakeJoin, JoinReturns, Abandon
    <3>2. ASSUME NEW t \in Task, CallPath(t) \/ CallShutdown(t) \/ \E f \in File : CallOpen(t, f)
          PROVE  backend = "up"
      BY <3>2 DEF CallPath, CallShutdown, CallOpen
    <3>3. ASSUME NEW t \in Task, NEW f \in File, CallUse(t, f) \/ CallClose(t, f)
          PROVE  file[f] = "alive"
      BY <3>3 DEF CallUse, CallClose
    <3>4. ASSUME NEW f \in File, DropFile(f)
          PROVE  file[f] = "alive"
      BY <3>4 DEF DropFile
    <3>5. QED
      BY <1>3, <3>1, <3>2, <3>3, <3>4 DEF CallerNext
  <2>3. thread # "connecting" /\ backend # "connecting"
    BY <2>2 DEF Starts, Unused
  <2>4. QED
    BY <1>1, <2>1, <2>3 DEF Starts
<1>4. QED
  BY <1>2, <1>3

\* What is written on a reply channel is written by the thread.
LEMMA CallerReplyStays ==
    ASSUME TypeOK, CallShape, CallerNext, NEW t \in Task
    PROVE  reply'[t] = Pending \/ reply'[t] = reply[t]
<1> USE DEF threadVars, fileVars, taskVars
<1>1. ASSUME NEW u \in Task, Return(u)
      PROVE  reply'[t] = Pending \/ reply'[t] = reply[t]
  BY <1>1, ReturnFacts
<1>2. ASSUME NEW u \in Task, NEW o, NEW id, NEW f, Send(u, o, id, f)
      PROVE  reply'[t] = Pending \/ reply'[t] = reply[t]
  BY <1>1, <1>2 DEF Send
<1>3. QED
  BY <1>1, <1>2 DEF CallerNext, Proceed, ConnectReturns, DropBackend, CallPath, CallShutdown, CallOpen,
       CallUse, CallClose, SendChecked, Receive, ShutdownAnswered, TakeJoin, JoinReturns, Abandon,
       DropFile

\* Whoever begins to wait has sent a command, and whoever goes on waiting has one queued.
LEMMA WaitsInQueue ==
    ASSUME TypeOK, CallShape, Waits, CallerNext,
           NEW t \in Task, pc'[t] = "await", reply'[t] = Pending
    PROVE  \E i \in 1..Len(queue') : queue'[i].by = t
<1> USE DEF threadVars, fileVars, taskVars
<1> DEFINE Goal == \E i \in 1..Len(queue') : queue'[i].by = t
<1>1. ASSUME NEW c \in Command, queue' = Append(queue, c), c.by = t \/ (pc[t] = "await" /\ reply[t] = Pending)
      PROVE  Goal
  <2>1. /\ \A i \in 1..Len(queue) : queue'[i] = queue[i] /\ i \in 1..Len(queue')
        /\ Len(queue) + 1 \in 1..Len(queue') /\ queue'[Len(queue) + 1] = c
    BY <1>1, AppendFacts DEF TypeOK
  <2>2. CASE c.by = t
    BY <2>1, <2>2
  <2>3. CASE pc[t] = "await" /\ reply[t] = Pending
    BY <2>1, <2>3 DEF Waits
  <2>4. QED
    BY <1>1, <2>2, <2>3
<1>2. ASSUME queue' = queue, pc[t] = "await", reply[t] = Pending
      PROVE  Goal
  BY <1>2 DEF Waits
<1>3. ASSUME NEW u \in Task, NEW o \in Op, NEW id \in Nat, NEW f \in File \cup {None}, Send(u, o, id, f)
      PROVE  Goal
  <2>1. CASE ReceiverAlive
    <3>1. DEFINE c == [op |-> o, id |-> id, path |-> IF o = "open" THEN f ELSE None, by |-> u]
    <3>2. (IF o = "open" THEN f ELSE None) \in File \cup {None}
      OBVIOUS
    <3>3. c \in Command /\ c.by = u
      BY <3>2 DEF Command
    <3>4. queue' = Append(queue, c) /\ (t # u => pc'[t] = pc[t] /\ reply'[t] = reply[t])
      BY <1>3, <2>1, SendFacts
    <3> HIDE DEF c, Goal
    <3>5. QED
      BY <1>1, <3>3, <3>4
  <2>2. CASE ~ReceiverAlive
    <3>1. /\ queue' = queue /\ pc'[u] = "idle"
          /\ (t # u => pc'[t] = pc[t] /\ reply'[t] = reply[t])
      BY <1>3, <2>2, SendFacts
    <3>2. QED
      BY <1>2, <3>1
  <2>3. QED
    BY <2>1, <2>2
<1>4. ASSUME NEW u \in Task, Return(u)
      PROVE  t # u /\ pc[t] = "await" /\ reply[t] = Pending
  BY <1>4, ReturnFacts
<1> HIDE DEF Goal
<1>5. ASSUME NEW u \in Task, CallPath(u) \/ \E f \in File : CallOpen(u, f)
      PROVE  Goal
  BY <1>3, <1>5 DEF CallPath, CallOpen, Op
<1>6. ASSUME NEW u \in Task, SendChecked(u)
      PROVE  Goal
  <2>1. on[u] \in File /\ op[u] \in Op /\ fileId[on[u]] \in Nat
    BY <1>6 DEF SendChecked, CallShape, Busy, FileOps, TypeOK
  <2>2. Send(u, op[u], fileId[on[u]], on[u])
    BY <1>6 DEF SendChecked
  <2>3. QED
    BY <1>3, <2>1, <2>2
<1>7. ASSUME NEW u \in Task, CallShutdown(u)
      PROVE  Goal
  <2>1. DEFINE c == [op |-> "shutdown", id |-> 0, path |-> None, by |-> u]
  <2>2. c \in Command /\ c.by = u
    BY DEF Command, Op
  <2>3. /\ reply' = reply /\ (t # u => pc'[t] = pc[t])
        /\ \/ queue' = Append(queue, c)
           \/ queue' = queue /\ pc'[u] = "takejoin"
    BY <1>7 DEF CallShutdown, TypeOK
  <2> HIDE DEF c
  <2>4. QED
    BY <1>1, <1>2, <2>2, <2>3
<1>8. ASSUME NEW u \in Task, Abandon(u)
      PROVE  Goal
  <2>1. t # u /\ pc[t] = "await" /\ reply[t] = Pending
    BY <1>4, <1>8 DEF Abandon
  <2>2. PICK i \in 1..Len(queue) : queue[i].by = t
    BY <2>1 DEF Waits
  <2>3. queue' = [j \in 1..Len(queue) |->
                    IF queue[j].by = u THEN [queue[j] EXCEPT !.by = None] ELSE queue[j]]
    BY <1>8 DEF Abandon
  <2>4. DOMAIN queue' = 1..Len(queue) /\ queue' \in Seq(Command)
    BY <2>3, AbandonedQueue DEF TypeOK
  <2>5. i \in 1..Len(queue') /\ queue'[i].by = t
    BY <2>1, <2>2, <2>3, <2>4
  <2>6. QED
    BY <2>5 DEF Goal
<1>9. ASSUME NEW f \in File, DropFile(f)
      PROVE  Goal
  <2>1. DEFINE c == [op |-> "close", id |-> fileId[f], path |-> None, by |-> None]
  <2>2. c \in Command
    BY DEF Command, Op, TypeOK
  <2>3. /\ reply' = reply /\ pc' = pc
        /\ queue' = Append(queue, c) \/ queue' = queue
    BY <1>9 DEF DropFile
  <2> HIDE DEF c
  <2>4. QED
    BY <1>1, <1>2, <2>2, <2>3
<1>10. ASSUME NEW u \in Task, Receive(u) \/ JoinReturns(u)
       PROVE  Goal
  BY <1>2, <1>4, <1>10 DEF Receive, JoinReturns
<1>11. ASSUME NEW u \in Task, ShutdownAnswered(u) \/ \E f \in File : CallUse(u, f) \/ CallClose(u, f)
       PROVE  Goal
  <2>1. /\ queue' = queue /\ reply' = reply /\ pc'[u] # "await"
        /\ (t # u => pc'[t] = pc[t])
    BY <1>11 DEF ShutdownAnswered, CallUse, CallClose, TypeOK
  <2>2. QED
    BY <1>2, <2>1
<1>12. ASSUME NEW u \in Task, TakeJoin(u)
       PROVE  Goal
  <2>1. CASE join = "held"
    <3>1. /\ queue' = queue /\ reply' = reply /\ pc'[u] # "await"
          /\ (t # u => pc'[t] = pc[t])
      BY <1>12, <2>1 DEF TakeJoin, TypeOK
    <3>2. QED
      BY <1>2, <3>1
  <2>2. CASE join # "held"
    BY <1>2, <1>4, <1>12, <2>2 DEF TakeJoin
  <2>3. QED
    BY <2>1, <2>2
<1>13. ASSUME ConnectReturns \/ DropBackend
       PROVE  Goal
  BY <1>2, <1>13 DEF ConnectReturns, DropBackend
<1>14. QED
  BY <1>5, <1>6, <1>7, <1>8, <1>9, <1>10, <1>11, <1>12, <1>13 DEF CallerNext, Proceed, Goal

\* Whoever joins the thread has taken the handle.
LEMMA CallerJoins ==
    ASSUME TypeOK, CallShape, Waits, CallerNext, NEW t \in Task, pc'[t] = "joining"
    PROVE  join' = "taken"
<1> USE DEF threadVars, fileVars, taskVars
<1>1. ASSUME NEW u \in Task, TakeJoin(u)
      PROVE  join' = "taken"
  BY <1>1 DEF TakeJoin
<1>2. CASE join' = join /\ pc[t] = "joining"
  BY <1>2 DEF Waits
<1>3. ASSUME NEW u \in Task, Return(u)
      PROVE  pc[t] = "joining"
  BY <1>3, ReturnFacts
<1>4. ASSUME NEW u \in Task, NEW o, NEW id, NEW f, Send(u, o, id, f)
      PROVE  pc[t] = "joining"
  BY <1>4, SendFacts
<1>5. ASSUME NEW u \in Task, CallPath(u) \/ SendChecked(u) \/ \E f \in File : CallOpen(u, f)
      PROVE  join' = join /\ pc[t] = "joining"
  BY <1>4, <1>5 DEF CallPath, SendChecked, CallOpen
<1>6. ASSUME NEW u \in Task, Receive(u) \/ JoinReturns(u) \/ Abandon(u)
      PROVE  join' = join /\ pc[t] = "joining"
  BY <1>3, <1>6 DEF Receive, JoinReturns, Abandon
<1>7. ASSUME NEW u \in Task, CallShutdown(u)
      PROVE  join' = join /\ pc[t] = "joining"
  BY <1>7 DEF CallShutdown, TypeOK
<1>8. ASSUME NEW u \in Task, ShutdownAnswered(u) \/ \E f \in File : CallUse(u, f) \/ CallClose(u, f)
      PROVE  join' = join /\ pc[t] = "joining"
  BY <1>8 DEF ShutdownAnswered, CallUse, CallClose, TypeOK
<1>9. CASE ConnectReturns \/ DropBackend \/ \E f \in File : DropFile(f)
  BY <1>2, <1>9 DEF ConnectReturns, DropBackend, DropFile
<1>10. QED
  BY <1>1, <1>2, <1>5, <1>6, <1>7, <1>8, <1>9 DEF CallerNext, Proceed

LEMMA WaitsCaller == TypeOK /\ CallShape /\ Waits /\ CallerNext => Waits'
<1> SUFFICES ASSUME TypeOK, CallShape, Waits, CallerNext, NEW t \in Task
             PROVE  /\ reply'[t] \in {Pending, Lost, Failed} \/ reply'[t].st = "ok"
                    /\ reply'[t] = Lost => thread' = "exited"
                    /\ pc'[t] = "await" /\ reply'[t] = Pending =>
                          \E i \in 1..Len(queue') : queue'[i].by = t
                    /\ pc'[t] = "joining" => join' = "taken"
  BY DEF Waits
<1>1. reply'[t] = Pending \/ reply'[t] = reply[t]
  BY CallerReplyStays
<1>2. Pending # Lost
  BY DEF Pending, Lost
<1>3. thread' = thread
  BY CallerLeavesThread
<1>4. QED
  BY <1>1, <1>2, <1>3, WaitsInQueue, CallerJoins DEF Waits

\* An open is awaited because it was before, or because it has just been sent, for a file
\* that has had none.
LEMMA CallerOpens ==
    ASSUME TypeOK, CallShape, CallerNext, NEW t \in Task, pc'[t] = "await", op'[t] = "open"
    PROVE  \/ pc[t] = "await" /\ op[t] = "open" /\ on'[t] = on[t] /\ reply'[t] = reply[t]
           \/ on'[t] \in File /\ file[on'[t]] = "unborn"
<1> USE DEF threadVars, fileVars, taskVars
<1> DEFINE Goal == \/ pc[t] = "await" /\ op[t] = "open" /\ on'[t] = on[t] /\ reply'[t] = reply[t]
                   \/ on'[t] \in File /\ file[on'[t]] = "unborn"
<1>1. ASSUME pc'[t] = pc[t], op'[t] = op[t], on'[t] = on[t], reply'[t] = reply[t]
      PROVE  Goal
  BY <1>1
<1>2. ASSUME NEW u \in Task, Return(u)
      PROVE  Goal
  <2>1. t # u
    BY <1>2, ReturnFacts
  <2>2. QED
    BY <1>2, <2>1, <1>1, ReturnFacts
<1>3. ASSUME NEW u \in Task, NEW o, NEW id, NEW f, Send(u, o, id, f),
             o = "open" => f \in File /\ file[f] = "unborn"
      PROVE  Goal
  <2>1. CASE t = u
    <3>1. /\ ReceiverAlive => op'[u] = o /\ on'[u] = f
          /\ ~ReceiverAlive => pc'[u] = "idle"
      BY <1>3 DEF Send, Return, TypeOK
    <3>2. QED
      BY <1>3, <2>1, <3>1
  <2>2. CASE t # u
    BY <1>1, <1>3, <2>2, SendFacts
  <2>3. QED
    BY <2>1, <2>2
<1> HIDE DEF Goal
<1>4. ASSUME NEW u \in Task, CallPath(u) \/ SendChecked(u) \/ \E f \in File : CallOpen(u, f)
      PROVE  Goal
  <2>1. CASE CallPath(u)
    BY <1>3, <2>1 DEF CallPath
  <2>2. CASE SendChecked(u)
    <3>1. op[u] # "open"
      BY <2>2 DEF SendChecked, CallShape, FileOps
    <3>2. QED
      BY <1>3, <2>2, <3>1 DEF SendChecked
  <2>3. ASSUME NEW f \in File, CallOpen(u, f)
        PROVE  Goal
    BY <1>3, <2>3 DEF CallOpen
  <2>4. QED
    BY <1>4, <2>1, <2>2, <2>3
<1>5. ASSUME NEW u \in Task, Receive(u) \/ JoinReturns(u) \/ Abandon(u)
      PROVE  Goal
  BY <1>2, <1>5 DEF Receive, JoinReturns, Abandon
<1>6. ASSUME NEW u \in Task, CallShutdown(u) \/ ShutdownAnswered(u)
      PROVE  Goal
  <2>1. /\ t # u => pc'[t] = pc[t] /\ op'[t] = op[t]
        /\ on'[t] = on[t] /\ reply'[t] = reply[t] /\ op'[u] = "shutdown"
    BY <1>6 DEF CallShutdown, ShutdownAnswered, TypeOK
  <2>2. QED
    BY <1>1, <2>1
<1>7. ASSUME NEW u \in Task, NEW f \in File, CallUse(u, f) \/ CallClose(u, f)
      PROVE  Goal
  <2>1. /\ t # u => pc'[t] = pc[t] /\ op'[t] = op[t] /\ on'[t] = on[t]
        /\ reply'[t] = reply[t] /\ pc'[u] = "checked"
    BY <1>7 DEF CallUse, CallClose, TypeOK
  <2>2. QED
    BY <1>1, <2>1
<1>8. ASSUME NEW u \in Task, TakeJoin(u)
      PROVE  Goal
  <2>1. CASE join = "held"
    <3>1. /\ t # u => pc'[t] = pc[t]
          /\ op'[t] = op[t] /\ on'[t] = on[t] /\ reply'[t] = reply[t] /\ pc'[u] = "joining"
      BY <1>8, <2>1 DEF TakeJoin, TypeOK
    <3>2. QED
      BY <1>1, <3>1
  <2>2. CASE join # "held"
    BY <1>2, <1>8, <2>2 DEF TakeJoin
  <2>3. QED
    BY <2>1, <2>2
<1>9. ASSUME ConnectReturns \/ DropBackend \/ \E f \in File : DropFile(f)
      PROVE  Goal
  BY <1>1, <1>9 DEF ConnectReturns, DropBackend, DropFile
<1>10. QED
  BY <1>4, <1>5, <1>6, <1>7, <1>8, <1>9 DEF CallerNext, Proceed, Goal

\* A file is without an open if it was, or if its open was refused.
LEMMA CallerUnborn ==
    ASSUME TypeOK, CallShape, CallerNext, NEW f \in File, file'[f] = "unborn"
    PROVE  \/ file[f] = "unborn"
           \/ \E t \in Task : pc[t] = "await" /\ op[t] = "open" /\ on[t] = f /\ reply[t].st # "ok"
<1> USE DEF threadVars, fileVars, taskVars
<1>1. ASSUME NEW t \in Task, Receive(t)
      PROVE  \/ file[f] = "unborn"
             \/ \E u \in Task : pc[u] = "await" /\ op[u] = "open" /\ on[u] = f /\ reply[u].st # "ok"
  <2>1. CASE op[t] = "open" /\ on[t] = f
    BY <1>1, <2>1 DEF Receive, FileOpened, TypeOK
  <2>2. CASE ~(op[t] = "open" /\ on[t] = f)
    BY <1>1, <2>2 DEF Receive, FileOpened, TypeOK
  <2>3. QED
    BY <2>1, <2>2
<1>2. ASSUME NEW t \in Task, NEW g \in File, CallOpen(t, g)
      PROVE  file[f] = "unborn"
  BY <1>2 DEF CallOpen, TypeOK
<1>3. ASSUME NEW t \in Task, Abandon(t)
      PROVE  file[f] = "unborn"
  BY <1>3 DEF Abandon, TypeOK
<1>4. ASSUME NEW g \in File, DropFile(g)
      PROVE  file[f] = "unborn"
  BY <1>4 DEF DropFile, TypeOK
<1>5. ASSUME NEW t \in Task,
             \/ CallPath(t) \/ CallShutdown(t) \/ SendChecked(t)
             \/ ShutdownAnswered(t) \/ TakeJoin(t) \/ JoinReturns(t)
             \/ \E g \in File : CallUse(t, g) \/ CallClose(t, g)
      PROVE  file[f] = "unborn"
  BY <1>5 DEF CallPath, CallShutdown, SendChecked, ShutdownAnswered, TakeJoin, JoinReturns,
              CallUse, CallClose
<1>6. CASE ConnectReturns \/ DropBackend
  BY <1>6 DEF ConnectReturns, DropBackend
<1>7. QED
  BY <1>1, <1>2, <1>3, <1>4, <1>5, <1>6 DEF CallerNext, Proceed

\* The file of a queued open has its open already.
LEMMA QueuedOpens ==
    ASSUME TypeOK, CallShape, QueueShape, NEW i \in 1..Len(queue), queue[i].op = "open"
    PROVE  queue[i].path \in File /\ file[queue[i].path] \in {"opening", "abandoned"}
<1>1. queue[i].path \in File /\ queue[i] \in Command
  BY DEF QueueShape, TypeOK
<1>2. CASE queue[i].by = None
  BY <1>1, <1>2 DEF QueueShape
<1>3. CASE queue[i].by # None
  <2>1. queue[i].by \in Task
    BY <1>1, <1>3 DEF Command
  <2>2. pc[queue[i].by] = "await" /\ op[queue[i].by] = "open" /\ on[queue[i].by] = queue[i].path
    BY <1>3 DEF QueueShape
  <2>3. QED
    BY <1>1, <2>1, <2>2 DEF CallShape, Busy
<1>4. QED
  BY <1>2, <1>3

\* What is queued after a caller's step, was before or has joined.
LEMMA QueuedNow ==
    ASSUME TypeOK, CallShape, CallerNext, NEW i \in 1..Len(queue')
    PROVE  \/ /\ i \in 1..Len(queue) /\ queue'[i].op = queue[i].op /\ queue'[i].id = queue[i].id
              /\ queue'[i].path = queue[i].path
           \/ i = Len(queue) + 1 /\ \E c \in Command : Joins(c) /\ queue'[i] = c
<1>1. Len(queue) \in Nat
  BY DEF TypeOK
<1>2. CASE QueueStays
  BY <1>2 DEF QueueStays
<1>3. ASSUME NEW c \in Command, Joins(c)
      PROVE  \/ i \in 1..Len(queue) /\ queue'[i] = queue[i]
             \/ i = Len(queue) + 1 /\ queue'[i] = c
  BY <1>1, <1>3 DEF Joins
<1>4. QED
  BY <1>2, <1>3, CallerQueue

\* No caller opens a file twice.
LEMMA OpenedOnceCaller ==
    TypeOK /\ CallShape /\ QueueShape /\ OpenedOnce /\ CallerNext => OpenedOnce'
<1> SUFFICES ASSUME TypeOK, CallShape, QueueShape, OpenedOnce, CallerNext PROVE OpenedOnce'
  OBVIOUS
<1>1. serves' = serves
  BY CallerLeavesThread
<1>2. ASSUME NEW h \in Fh, serves[h] # None
      PROVE  /\ file'[serves[h]] # "unborn"
             /\ \A i \in 1..Len(queue') : queue'[i].op = "open" => queue'[i].path # serves[h]
             /\ \A t \in Task : pc'[t] = "await" /\ op'[t] = "open" /\ on'[t] = serves[h] =>
                   reply'[t].st = "ok"
  <2>1. serves[h] \in File
    BY <1>2 DEF TypeOK
  <2>2. file'[serves[h]] # "unborn"
    BY <1>2, <2>1, CallerUnborn DEF OpenedOnce
  <2>3. ASSUME NEW i \in 1..Len(queue'), queue'[i].op = "open"
        PROVE  queue'[i].path # serves[h]
    BY <1>2, <2>3, QueuedNow DEF OpenedOnce, Joins
  <2>4. ASSUME NEW t \in Task, pc'[t] = "await", op'[t] = "open", on'[t] = serves[h]
        PROVE  reply'[t].st = "ok"
    BY <1>2, <2>4, CallerOpens DEF OpenedOnce
  <2>5. QED
    BY <2>2, <2>3, <2>4
<1>3. ASSUME NEW i \in 1..Len(queue'), NEW j \in 1..Len(queue'),
             queue'[i].op = "open", queue'[j].op = "open", queue'[i].path = queue'[j].path
      PROVE  i = j
  <2>1. ASSUME NEW k \in 1..Len(queue), queue[k].op = "open"
        PROVE  file[queue[k].path] # "unborn"
    BY <2>1, QueuedOpens
  <2>2. ASSUME NEW k \in 1..Len(queue'), queue'[k].op = "open"
        PROVE  \/ /\ k \in 1..Len(queue) /\ queue[k].op = "open" /\ queue'[k].path = queue[k].path
                  /\ file[queue'[k].path] # "unborn"
               \/ k = Len(queue) + 1 /\ file[queue'[k].path] = "unborn"
    BY <2>1, <2>2, QueuedNow DEF Joins
  <2>3. QED
    BY <1>3, <2>2 DEF OpenedOnce
<1>4. QED
  BY <1>1, <1>2, <1>3 DEF OpenedOnce

\* No caller gives a file another's id.
LEMMA OwnIdsCaller ==
    TypeOK /\ CallShape /\ IdsStandForOneOpen /\ Waits /\ OwnIds /\ CallerNext => OwnIds'
<1> SUFFICES ASSUME TypeOK, CallShape, IdsStandForOneOpen, Waits, OwnIds, CallerNext PROVE OwnIds'
  OBVIOUS
<1>1. handles' = handles /\ nextId' = nextId /\ serves' = serves
  BY CallerLeavesThread
<1>2. ASSUME NEW t \in Task, Opened(t)'
      PROVE  Opened(t) /\ reply'[t] = reply[t]
  <2>1. pc'[t] = "await" /\ reply'[t] # Pending /\ op'[t] = "open" /\ reply'[t].st = "ok"
    BY <1>2 DEF Opened, Pending
  <2>2. QED
    BY <2>1, CallerReplies DEF Opened
<1>3. ASSUME NEW f \in File, fileId'[f] # 0
      PROVE  /\ file'[f] \in {"alive", "dropped"} /\ fileId'[f] \in 1..nextId
             /\ fileId'[f] \in DOMAIN handles => serves[handles[fileId'[f]]] = f
  BY <1>3, CallerIds DEF OwnIds, IdsStandForOneOpen, Opened
<1>4. ASSUME NEW f \in File, NEW g \in File, fileId'[f] = fileId'[g], fileId'[f] # 0
      PROVE  f = g
  <2>1. CASE fileId'[f] = fileId[f] /\ fileId'[g] = fileId[g]
    BY <1>4, <2>1 DEF OwnIds
  <2>2. ASSUME NEW t \in Task, Opened(t), on[t] = f, fileId'[f] = reply[t].id
        PROVE  f = g
    <3>1. fileId'[g] # fileId[g]
      BY <1>4, <2>2 DEF OwnIds
    <3>2. PICK u \in Task : Opened(u) /\ on[u] = g /\ fileId'[g] = reply[u].id
      BY <3>1, CallerIds
    <3>3. u = t
      BY <1>4, <2>2, <3>2 DEF OwnIds
    <3>4. QED
      BY <2>2, <3>2, <3>3
  <2>3. ASSUME NEW t \in Task, Opened(t), on[t] = g, fileId'[g] = reply[t].id
        PROVE  f = g
    <3>1. fileId'[f] # fileId[f]
      BY <1>4, <2>3 DEF OwnIds
    <3>2. PICK u \in Task : Opened(u) /\ on[u] = f /\ fileId'[f] = reply[u].id
      BY <3>1, CallerIds
    <3>3. u = t
      BY <1>4, <2>3, <3>2 DEF OwnIds
    <3>4. QED
      BY <2>3, <3>2, <3>3
  <2>4. QED
    BY <2>1, <2>2, <2>3, CallerIds
<1>5. ASSUME NEW t \in Task, Opened(t)', NEW f \in File
      PROVE  fileId'[f] # reply'[t].id
  <2>1. Opened(t) /\ reply'[t] = reply[t]
    BY <1>2, <1>5
  <2>2. QED
    BY <1>5, <2>1, CallerIds DEF OwnIds
<1>6. ASSUME NEW t \in Task, Opened(t)', NEW u \in Task, Opened(u)', reply'[u].id = reply'[t].id
      PROVE  u = t
  BY <1>2, <1>6 DEF OwnIds
<1>7. QED
  BY <1>1, <1>3, <1>4, <1>5, <1>6 DEF OwnIds

\* A file that lives has an id, and keeps it.
LEMMA AliveHasId ==
    ASSUME TypeOK, CallShape, IdsStandForOneOpen, NEW f \in File, file[f] = "alive"
    PROVE  fileId[f] # 0
  BY DEF IdsStandForOneOpen

\* No caller closes a file twice.
LEMMA ClosedOnceCaller ==
    TypeOK /\ CallShape /\ IdsStandForOneOpen /\ Waits /\ OwnIds /\ ClosedOnce /\ CallerNext
       => ClosedOnce'
<1> SUFFICES ASSUME TypeOK, CallShape, IdsStandForOneOpen, Waits, OwnIds, ClosedOnce, CallerNext
             PROVE  ClosedOnce'
  OBVIOUS
<1>1. ASSUME NEW f \in File, fileId[f] # 0
      PROVE  fileId'[f] = fileId[f] /\ (closed[f] => closed'[f])
  BY <1>1, CallerIds, ClosedStays
<1>2. ASSUME NEW t \in Task, Closing(t)
      PROVE  on[t] \in File /\ file[on[t]] = "alive" /\ fileId[on[t]] # 0 /\ closed[on[t]]
  <2>1. on[t] \in File /\ file[on[t]] = "alive"
    BY <1>2 DEF Closing, CallShape, Busy, FileOps
  <2>2. QED
    BY <1>2, <2>1, AliveHasId DEF ClosedOnce
<1>3. ASSUME NEW c \in Command, Joins(c), c.op = "close"
      PROVE  /\ \E f \in File : fileId[f] = c.id /\ fileId[f] # 0 /\ closed'[f]
             /\ \A i \in 1..Len(queue) : queue[i].op = "close" => queue[i].id # c.id
             /\ \A t \in Task : Closing(t) /\ fileId[on[t]] = c.id => ~Closing(t)'
  <2>1. ASSUME NEW t \in Task, Closing(t), c.id = fileId[on[t]], ~Closing(t)'
        PROVE  /\ \E f \in File : fileId[f] = c.id /\ fileId[f] # 0 /\ closed'[f]
               /\ \A i \in 1..Len(queue) : queue[i].op = "close" => queue[i].id # c.id
               /\ \A u \in Task : Closing(u) /\ fileId[on[u]] = c.id => ~Closing(u)'
    <3>1. on[t] \in File /\ fileId[on[t]] # 0 /\ closed'[on[t]]
      BY <1>1, <1>2, <2>1
    <3>2. ASSUME NEW u \in Task, Closing(u), fileId[on[u]] = c.id
          PROVE  u = t
      <4>1. on[u] = on[t]
        BY <1>2, <2>1, <3>1, <3>2 DEF OwnIds
      <4>2. QED
        BY <2>1, <3>2, <4>1 DEF ClosedOnce
    <3>3. QED
      BY <2>1, <3>1, <3>2 DEF ClosedOnce
  <2>2. ASSUME NEW f \in File, file[f] = "alive", ~closed[f], closed'[f], c.id = fileId[f]
        PROVE  /\ \E g \in File : fileId[g] = c.id /\ fileId[g] # 0 /\ closed'[g]
               /\ \A i \in 1..Len(queue) : queue[i].op = "close" => queue[i].id # c.id
               /\ \A u \in Task : ~(Closing(u) /\ fileId[on[u]] = c.id)
    <3>1. fileId[f] # 0
      BY <2>2, AliveHasId
    <3>2. ASSUME NEW i \in 1..Len(queue), queue[i].op = "close"
          PROVE  queue[i].id # c.id
      BY <2>2, <3>1, <3>2 DEF ClosedOnce, OwnIds
    <3>3. ASSUME NEW u \in Task, Closing(u)
          PROVE  fileId[on[u]] # c.id
      BY <1>2, <2>2, <3>1, <3>3 DEF OwnIds
    <3>4. QED
      BY <2>2, <3>1, <3>2, <3>3
  <2>3. QED
    BY <1>3, <2>1, <2>2 DEF Joins
<1>4. ASSUME NEW i \in 1..Len(queue'), queue'[i].op = "close"
      PROVE  \E f \in File : fileId'[f] = queue'[i].id /\ fileId'[f] # 0 /\ closed'[f]
  <2>1. \E f \in File : fileId[f] = queue'[i].id /\ fileId[f] # 0 /\ closed'[f]
    BY <1>1, <1>3, <1>4, QueuedNow DEF ClosedOnce
  <2>2. QED
    BY <1>1, <2>1
<1>5. ASSUME NEW i \in 1..Len(queue'), NEW j \in 1..Len(queue'),
             queue'[i].op = "close", queue'[j].op = "close", queue'[i].id = queue'[j].id
      PROVE  i = j
  <2>1. ASSUME NEW k \in 1..Len(queue'), queue'[k].op = "close"
        PROVE  \/ k \in 1..Len(queue) /\ queue[k].op = "close" /\ queue'[k].id = queue[k].id
               \/ /\ k = Len(queue) + 1
                  /\ \A m \in 1..Len(queue) : queue[m].op = "close" => queue[m].id # queue'[k].id
    BY <1>3, <2>1, QueuedNow
  <2>2. QED
    BY <1>5, <2>1 DEF ClosedOnce
<1>6. ASSUME NEW t \in Task, Closing(t)'
      PROVE  closed'[on'[t]]
  BY <1>1, <1>2, <1>6, CallerCloses
<1>7. ASSUME NEW t \in Task, Closing(t)', NEW i \in 1..Len(queue'), queue'[i].op = "close"
      PROVE  queue'[i].id # fileId'[on'[t]]
  <2>1. CASE Closing(t) /\ on'[t] = on[t]
    <3>1. fileId'[on'[t]] = fileId[on[t]]
      BY <1>1, <1>2, <2>1
    <3>2. CASE i \in 1..Len(queue) /\ queue[i].op = "close" /\ queue'[i].id = queue[i].id
      BY <2>1, <3>1, <3>2 DEF ClosedOnce
    <3>3. ASSUME NEW c \in Command, Joins(c), queue'[i] = c
          PROVE  queue'[i].id # fileId'[on'[t]]
      BY <1>3, <1>7, <2>1, <3>1, <3>3
    <3>4. QED
      BY <1>7, <3>2, <3>3, QueuedNow
  <2>2. CASE /\ on'[t] \in File /\ file[on'[t]] = "alive" /\ ~closed[on'[t]]
             /\ queue' = queue /\ fileId' = fileId
    <3>1. fileId[on'[t]] # 0
      BY <2>2, AliveHasId
    <3>2. QED
      BY <1>7, <2>2, <3>1 DEF ClosedOnce, OwnIds
  <2>3. QED
    BY <1>7, <2>1, <2>2, CallerCloses
<1>8. ASSUME NEW t \in Task, Closing(t)', NEW u \in Task, Closing(u)', on'[u] = on'[t]
      PROVE  u = t
  <2>1. CASE Closing(t) /\ on'[t] = on[t] /\ Closing(u) /\ on'[u] = on[u]
    BY <1>8, <2>1 DEF ClosedOnce
  <2>2. CASE ~(Closing(t) /\ on'[t] = on[t])
    <3>1. SUFFICES ASSUME u # t PROVE FALSE
      OBVIOUS
    <3>2. ~closed[on'[t]] /\ Closing(u) /\ on'[u] = on[u]
      BY <1>8, <2>2, <3>1, CallerCloses
    <3>3. QED
      BY <1>2, <1>8, <3>2
  <2>3. CASE ~(Closing(u) /\ on'[u] = on[u])
    <3>1. SUFFICES ASSUME u # t PROVE FALSE
      OBVIOUS
    <3>2. ~closed[on'[u]] /\ Closing(t) /\ on'[t] = on[t]
      BY <1>8, <2>3, <3>1, CallerCloses
    <3>3. QED
      BY <1>2, <1>8, <3>2
  <2>4. QED
    BY <2>1, <2>2, <2>3
<1>9. QED
  BY <1>4, <1>5, <1>6, <1>7, <1>8 DEF ClosedOnce

\* Nothing a caller queues is closed already.
LEMMA ClosesFindCaller ==
    TypeOK /\ CallShape /\ IdsStandForOneOpen /\ Waits /\ OwnIds /\ ClosesFind /\ CallerNext
       => ClosesFind'
<1> SUFFICES ASSUME TypeOK, CallShape, IdsStandForOneOpen, Waits, OwnIds, ClosesFind, CallerNext,
                    thread = "running"
             PROVE  /\ \A f \in File : file'[f] = "alive" /\ ~closed'[f] => fileId'[f] \in DOMAIN handles
                    /\ \A t \in Task : Closing(t)' => fileId'[on'[t]] \in DOMAIN handles
                    /\ \A i \in 1..Len(queue') : queue'[i].op = "close" => queue'[i].id \in DOMAIN handles
                    /\ \A t \in Task : Opened(t)' => reply'[t].id \in DOMAIN handles
  BY CallerLeavesThread DEF ClosesFind
<1>1. ASSUME NEW f \in File, file'[f] = "alive", ~closed'[f]
      PROVE  fileId'[f] \in DOMAIN handles
  <2>1. ~closed[f]
    BY <1>1, ClosedStays
  <2>2. QED
    BY <1>1, <2>1, CallerFiles DEF ClosesFind, Opened
<1>2. ASSUME NEW t \in Task, Closing(t)
      PROVE  on[t] \in File /\ fileId'[on[t]] = fileId[on[t]]
  <2>1. on[t] \in File /\ file[on[t]] = "alive"
    BY <1>2 DEF Closing, CallShape, Busy, FileOps
  <2>2. fileId[on[t]] # 0
    BY <2>1, AliveHasId
  <2>3. QED
    BY <2>1, <2>2, CallerIds
<1>3. ASSUME NEW t \in Task, Closing(t)'
      PROVE  fileId'[on'[t]] \in DOMAIN handles
  BY <1>2, <1>3, CallerCloses DEF ClosesFind
<1>4. ASSUME NEW i \in 1..Len(queue'), queue'[i].op = "close"
      PROVE  queue'[i].id \in DOMAIN handles
  BY <1>4, QueuedNow DEF ClosesFind, Joins
<1>5. ASSUME NEW t \in Task, Opened(t)'
      PROVE  reply'[t].id \in DOMAIN handles
  <2>1. pc'[t] = "await" /\ reply'[t] # Pending /\ op'[t] = "open" /\ reply'[t].st = "ok"
    BY <1>5 DEF Opened, Pending
  <2>2. Opened(t) /\ reply'[t] = reply[t]
    BY <2>1, CallerReplies DEF Opened
  <2>3. QED
    BY <2>2 DEF ClosesFind
<1>6. QED
  BY <1>1, <1>3, <1>4, <1>5

-----------------------------------------------------------------------------
(* The thread keeps it *)

\* What the thread does with a command: it answers r, and the table stays as it is, has
\* the file opened, or loses the one that is closed.
Executes(c, o, r) ==
    /\ Recv(c, o) /\ Answer(c, r) /\ (r = Failed \/ r.st = "ok")
    /\ file' = file /\ fileId' = fileId /\ closed' = closed
    /\ pc' = pc /\ op' = op /\ on' = on
    /\ ready' = ready /\ backend' = backend /\ join' = join
    /\ thread' = IF o = "shutdown" THEN "closing" ELSE thread

Opens(c, r) ==
    /\ \E h \in Fh : serves[h] = None /\ serves' = [serves EXCEPT ![h] = c.path] /\ Insert(h)
    /\ r = Ok(nextId', c.path)

TableMoves(c, o, r) ==
    \/ handles' = handles /\ nextId' = nextId /\ serves' = serves /\ (o = "open" => r = Failed)
    \/ o = "open" /\ Opens(c, r)
    \/ o = "close" /\ c.id \in DOMAIN handles /\ CloseHandle(c.id) /\ nextId' = nextId

LEMMA ExecSteps ==
    ASSUME TypeOK, QueueShape, Exec
    PROVE  \E c \in Command, o \in Op, r \in Reply : Executes(c, o, r) /\ TableMoves(c, o, r)
<1>1. PICK c \in {queue[i] : i \in 1..Len(queue)} :
         \/ ExecPath(c) \/ ExecOpen(c) \/ ExecOpenFails(c) \/ ExecClose(c)
         \/ ExecUse(c) \/ ExecShutdown(c)
  BY DEF Exec
<1>2. c \in Command
  BY <1>1 DEF TypeOK
<1>3. \A id \in Nat, from \in File \cup {None} :
         Ok(id, from) \in Reply /\ Ok(id, from).st = "ok"
  BY ReplyValues DEF Ok
<1>4. Failed \in Reply
  BY ReplyValues
<1> DEFINE Goal == \E o \in Op, r \in Reply : Executes(c, o, r) /\ TableMoves(c, o, r)
<1> USE DEF threadVars, fileVars, taskVars
<1>5. ASSUME NEW o \in Op, NEW r \in Reply, Executes(c, o, r), TableMoves(c, o, r)
      PROVE  Goal
  BY <1>5
<1> HIDE DEF Goal
<1>6. ASSUME ExecPath(c) PROVE Goal
  <2>1. PICK r \in {Ok(0, None), Failed} : Answer(c, r)
    BY <1>6 DEF ExecPath
  <2>2. r \in Reply /\ (r = Failed \/ r.st = "ok")
    BY <1>3, <1>4
  <2>3. Executes(c, "path", r) /\ TableMoves(c, "path", r)
    BY <1>6, <2>1, <2>2 DEF ExecPath, Executes, TableMoves
  <2>4. QED
    BY <1>5, <2>2, <2>3 DEF Op
<1>7. ASSUME ExecOpen(c) PROVE Goal
  <2>1. nextId' \in Nat /\ c.path \in File \cup {None}
    BY <1>2, <1>7 DEF ExecOpen, Insert, TypeOK, Command
  <2>2. Ok(nextId', c.path) \in Reply /\ Ok(nextId', c.path).st = "ok"
    BY <1>3, <2>1
  <2>3. Executes(c, "open", Ok(nextId', c.path))
    BY <1>7, <2>2 DEF ExecOpen, Executes
  <2>4. Opens(c, Ok(nextId', c.path))
    BY <1>7 DEF ExecOpen, Opens
  <2>5. QED
    BY <1>5, <2>2, <2>3, <2>4 DEF TableMoves, Op
<1>8. ASSUME ExecOpenFails(c) PROVE Goal
  <2>1. Executes(c, "open", Failed) /\ TableMoves(c, "open", Failed)
    BY <1>8 DEF ExecOpenFails, Executes, TableMoves
  <2>2. QED
    BY <1>4, <1>5, <2>1 DEF Op
<1>9. ASSUME ExecClose(c) PROVE Goal
  <2>1. PICK r \in {Ok(0, None), Failed} : Answer(c, r)
    BY <1>9 DEF ExecClose
  <2>2. r \in Reply /\ (r = Failed \/ r.st = "ok")
    BY <1>3, <1>4
  <2>3. Executes(c, "close", r)
    BY <1>9, <2>1, <2>2 DEF ExecClose, Executes
  <2>4. TableMoves(c, "close", r)
    BY <1>9 DEF ExecClose, TableMoves
  <2>5. QED
    BY <1>5, <2>2, <2>3, <2>4 DEF Op
<1>10. ASSUME ExecUse(c) PROVE Goal
  <2>1. c.id \in DOMAIN handles => serves[handles[c.id]] \in File \cup {None}
    BY DEF TypeOK
  <2>2. \E r \in Reply : Answer(c, r) /\ (r = Failed \/ r.st = "ok")
    BY <1>3, <1>4, <1>10, <2>1 DEF ExecUse
  <2>3. PICK r \in Reply : Answer(c, r) /\ (r = Failed \/ r.st = "ok")
    BY <2>2
  <2>4. Executes(c, "use", r) /\ TableMoves(c, "use", r)
    BY <1>10, <2>3 DEF ExecUse, Executes, TableMoves
  <2>5. QED
    BY <1>5, <2>4 DEF Op
<1>11. ASSUME ExecShutdown(c) PROVE Goal
  <2>1. Ok(0, None) \in Reply /\ Ok(0, None).st = "ok"
    BY <1>3
  <2>2. Executes(c, "shutdown", Ok(0, None)) /\ TableMoves(c, "shutdown", Ok(0, None))
    BY <1>11, <2>1 DEF ExecShutdown, Executes, TableMoves
  <2>3. QED
    BY <1>5, <2>1, <2>2 DEF Op
<1>12. Goal
  BY <1>1, <1>6, <1>7, <1>8, <1>9, <1>10, <1>11
<1>13. QED
  BY <1>2, <1>12 DEF Goal

\* Executing a command, for each call and each command that is left.
LEMMA Executed ==
    ASSUME TypeOK, QueueShape, NEW c \in Command, NEW o \in Op, NEW r \in Reply, Executes(c, o, r)
    PROVE  /\ \A t \in Task : reply'[t] = IF t = c.by THEN r ELSE reply[t]
           /\ r # Pending /\ r # Lost
           /\ \A i \in 1..Len(queue') : /\ i + 1 \in 1..Len(queue) /\ i + 1 # 1
                                        /\ queue'[i] = queue[i + 1]
           /\ \A i, j \in 1..Len(queue') : i + 1 = j + 1 => i = j
<1>1. Recv(c, o) /\ Answer(c, r) /\ (r = Failed \/ r.st = "ok")
  BY DEF Executes
<1>2. /\ queue' \in Seq(Command) /\ Len(queue') \in Nat
      /\ \A i \in 1..Len(queue') : i + 1 \in 1..Len(queue) /\ queue'[i] = queue[i + 1]
  BY <1>1, RecvFacts
<1>3. \A t \in Task : reply'[t] = IF t = c.by THEN r ELSE reply[t]
  BY <1>1, AnswerFacts
<1>4. r # Pending /\ r # Lost
  BY <1>1 DEF Pending, Lost, Failed
<1>5. \A i \in 1..Len(queue') : i + 1 # 1
  BY <1>2
<1>6. \A i, j \in 1..Len(queue') : i + 1 = j + 1 => i = j
  BY <1>2
<1>7. QED
  BY <1>2, <1>3, <1>4, <1>5, <1>6

\* What the thread does it does for a session somebody has had.
LEMMA StartsThread == TypeOK /\ Starts /\ QueueShape /\ ThreadNext => Starts'
<1> SUFFICES ASSUME TypeOK, Starts, QueueShape, ThreadNext PROVE Starts'
  OBVIOUS
<1> USE DEF threadVars, fileVars, taskVars
<1>1. CASE Exec
  <2>1. PICK c \in Command, o \in Op, r \in Reply : Executes(c, o, r)
    BY <1>1, ExecSteps
  <2>2. /\ thread = "running" /\ queue # <<>> /\ thread' \in {"running", "closing"}
        /\ ready' = ready /\ backend' = backend
    BY <2>1 DEF Executes, Recv
  <2>3. backend # "connecting"
    BY <2>2 DEF Starts, Unused
  <2>4. QED
    BY <2>2, <2>3 DEF Starts
<1>2. CASE ThreadConnects
  <2>1. Unused /\ Unused' = Unused
    BY <1>2 DEF ThreadConnects, Starts, Unused
  <2>2. QED
    BY <1>2, <2>1 DEF ThreadConnects, Starts
<1>3. CASE Disconnected
  BY <1>3 DEF Disconnected, SendersAlive, Starts
<1>4. CASE CloseAllStep
  <2>1. Unused' = Unused
    BY <1>4 DEF CloseAllStep, Unused
  <2>2. QED
    BY <1>4, <2>1 DEF CloseAllStep, Starts
<1>5. CASE DestroyContext \/ ThreadExits
  BY <1>5 DEF DestroyContext, ThreadExits, Starts
<1>6. QED
  BY <1>1, <1>2, <1>3, <1>4, <1>5 DEF ThreadNext

\* Who is not answered stays in the queue; when the thread goes all of them are told.
LEMMA WaitsThread == TypeOK /\ QueueShape /\ Waits /\ ThreadNext => Waits'
<1> SUFFICES ASSUME TypeOK, QueueShape, Waits, ThreadNext PROVE Waits'
  OBVIOUS
<1> USE DEF threadVars, fileVars, taskVars
<1>0. Pending # Lost
  BY DEF Pending, Lost
<1>1. CASE Exec
  <2>1. PICK c \in Command, o \in Op, r \in Reply : Executes(c, o, r)
    BY <1>1, ExecSteps
  <2>2. /\ \A t \in Task : reply'[t] = IF t = c.by THEN r ELSE reply[t]
        /\ r # Pending /\ r # Lost /\ (r = Failed \/ r.st = "ok")
    BY <2>1, Executed DEF Executes
  <2>3. /\ thread = "running" /\ pc' = pc /\ join' = join /\ c = queue[1]
        /\ \A i \in 1..Len(queue) : i = 1 \/ (i - 1 \in 1..Len(queue') /\ queue'[i - 1] = queue[i])
    BY <2>1, RecvFacts DEF Executes
  <2>4. ASSUME NEW t \in Task, pc[t] = "await", reply'[t] = Pending
        PROVE  \E i \in 1..Len(queue') : queue'[i].by = t
    <3>1. t # c.by /\ reply[t] = Pending
      BY <2>2, <2>4
    <3>2. PICK i \in 1..Len(queue) : queue[i].by = t
      BY <2>4, <3>1 DEF Waits
    <3>3. i # 1
      BY <2>3, <3>1, <3>2
    <3>4. QED
      BY <2>3, <3>2, <3>3
  <2>5. QED
    BY <2>2, <2>3, <2>4 DEF Waits
<1>2. CASE ThreadExits
  <2>1. /\ thread' = "exited" /\ pc' = pc /\ join' = join
        /\ \A t \in Task : reply'[t] = IF \E i \in 1..Len(queue) : queue[i].by = t
                                       THEN Lost ELSE reply[t]
    BY <1>2 DEF ThreadExits
  <2>2. ASSUME NEW t \in Task, pc[t] = "await"
        PROVE  reply'[t] # Pending
    BY <1>0, <2>1, <2>2 DEF Waits
  <2>3. QED
    BY <2>1, <2>2 DEF Waits
<1>3. CASE ThreadConnects \/ Disconnected \/ CloseAllStep \/ DestroyContext
  <2>1. /\ thread # "exited" /\ queue' = queue /\ reply' = reply /\ pc' = pc /\ join' = join
    BY <1>3 DEF ThreadConnects, Disconnected, CloseAllStep, DestroyContext
  <2>2. QED
    BY <2>1 DEF Waits
<1>4. QED
  BY <1>1, <1>2, <1>3 DEF ThreadNext

\* An open is answered with an id that no file has and nobody else was answered with.
LEMMA OwnIdsThread ==
    TypeOK /\ CallShape /\ QueueShape /\ IdsStandForOneOpen /\ TableMatchesServer /\ OwnIds /\ ThreadNext
       => OwnIds'
<1> SUFFICES ASSUME TypeOK, CallShape, QueueShape, IdsStandForOneOpen, TableMatchesServer, OwnIds,
                    ThreadNext
             PROVE  OwnIds'
  OBVIOUS
<1> USE DEF threadVars, fileVars, taskVars
<1>1. ASSUME file' = file, fileId' = fileId, nextId' = nextId,
             \A i \in DOMAIN handles' : i \in DOMAIN handles /\ serves'[handles'[i]] = serves[handles[i]],
             \A t \in Task : Opened(t)' => Opened(t) /\ reply'[t] = reply[t]
      PROVE  OwnIds'
  BY <1>1 DEF OwnIds
<1>2. CASE Exec
  <2>1. PICK c \in Command, o \in Op, r \in Reply : Executes(c, o, r) /\ TableMoves(c, o, r)
    BY <1>2, ExecSteps
  <2>2. /\ \A t \in Task : reply'[t] = IF t = c.by THEN r ELSE reply[t]
        /\ file' = file /\ fileId' = fileId /\ pc' = pc /\ op' = op /\ on' = on
    BY <2>1, Executed DEF Executes
  <2>3. /\ c.by # None => c.by \in Task /\ op[c.by] = o /\ reply[c.by] = Pending
        /\ o = "open" => c.path \in File
        /\ None \notin Task
    BY <2>1, RecvFacts, NoneAssumption DEF Executes
  <2>4. ASSUME o = "open" => r = Failed, NEW t \in Task, Opened(t)'
        PROVE  Opened(t) /\ reply'[t] = reply[t]
    BY <2>2, <2>3, <2>4 DEF Opened, Failed
  <2>5. CASE handles' = handles /\ nextId' = nextId /\ serves' = serves /\ (o = "open" => r = Failed)
    BY <1>1, <2>2, <2>4, <2>5
  <2>6. CASE o = "open" /\ Opens(c, r)
    <3>1. PICK h \in Fh : serves[h] = None /\ serves' = [serves EXCEPT ![h] = c.path] /\ Insert(h)
      BY <2>6 DEF Opens
    <3>2. /\ nextId' = nextId + 1 /\ nextId' \in Nat /\ nextId \in Nat
          /\ DOMAIN handles' = DOMAIN handles \cup {nextId'}
          /\ \A i \in DOMAIN handles : serves'[handles'[i]] = serves[handles[i]]
      BY <2>3, <2>6, <3>1, TableOpen DEF TypeOK
    <3>3. r.id = nextId'
      BY <2>6 DEF Opens, Ok
    <3>4. \A f \in File : fileId[f] \in Nat /\ (fileId[f] # 0 => fileId[f] \in 1..nextId)
      BY DEF OwnIds, TypeOK
    <3>5. \A t \in Task : Opened(t) => reply[t].id \in 1..nextId
      BY DEF IdsStandForOneOpen, Opened
    <3>6. ASSUME NEW t \in Task, Opened(t)'
          PROVE  \/ t = c.by /\ reply'[t].id = nextId'
                 \/ t # c.by /\ Opened(t) /\ reply'[t] = reply[t]
      BY <2>2, <3>3, <3>6 DEF Opened
    <3>7. ASSUME NEW f \in File, fileId'[f] # 0
          PROVE  /\ file'[f] \in {"alive", "dropped"} /\ fileId'[f] \in 1..nextId'
                 /\ fileId'[f] \in DOMAIN handles' => serves'[handles'[fileId'[f]]] = f
      <4>1. fileId'[f] = fileId[f] /\ fileId[f] \in 1..nextId /\ fileId[f] # nextId'
        BY <2>2, <3>2, <3>4, <3>7
      <4>2. QED
        BY <2>2, <3>2, <3>7, <4>1 DEF OwnIds
    <3>8. ASSUME NEW t \in Task, Opened(t)', NEW f \in File
          PROVE  fileId'[f] # reply'[t].id
      BY <2>2, <3>2, <3>4, <3>6, <3>8 DEF OwnIds
    <3>9. ASSUME NEW t \in Task, Opened(t)', NEW u \in Task, Opened(u)', reply'[u].id = reply'[t].id
          PROVE  u = t
      BY <3>2, <3>5, <3>6, <3>9 DEF OwnIds
    <3>10. \A f, g \in File : fileId'[f] = fileId'[g] /\ fileId'[f] # 0 => f = g
      BY <2>2 DEF OwnIds
    <3>11. QED
      BY <3>7, <3>8, <3>9, <3>10 DEF OwnIds
  <2>7. CASE o = "close" /\ c.id \in DOMAIN handles /\ CloseHandle(c.id) /\ nextId' = nextId
    <3>1. \A i \in DOMAIN handles' : i \in DOMAIN handles /\ serves'[handles'[i]] = serves[handles[i]]
      BY <2>7, TableClose, CloseType
    <3>2. QED
      BY <1>1, <2>2, <2>4, <2>7, <3>1
  <2>8. QED
    BY <2>1, <2>5, <2>6, <2>7 DEF TableMoves
<1>3. CASE CloseAllStep
  <2>1. PICK id \in DOMAIN handles : CloseHandle(id)
    BY <1>3 DEF CloseAllStep
  <2>2. \A i \in DOMAIN handles' : i \in DOMAIN handles /\ serves'[handles'[i]] = serves[handles[i]]
    BY <2>1, TableClose, CloseType
  <2>3. QED
    BY <1>1, <1>3, <2>2 DEF CloseAllStep, Opened
<1>4. CASE ThreadExits
  <2>1. \A t \in Task : Opened(t)' => Opened(t) /\ reply'[t] = reply[t]
    BY <1>4 DEF ThreadExits, Opened, Lost
  <2>2. QED
    BY <1>1, <1>4, <2>1 DEF ThreadExits
<1>5. CASE ThreadConnects \/ Disconnected \/ DestroyContext
  <2>1. /\ file' = file /\ fileId' = fileId /\ nextId' = nextId /\ handles' = handles
        /\ serves' = serves /\ reply' = reply /\ pc' = pc /\ op' = op
    BY <1>5 DEF ThreadConnects, Disconnected, DestroyContext
  <2>2. QED
    BY <1>1, <2>1 DEF Opened
<1>6. QED
  BY <1>2, <1>3, <1>4, <1>5 DEF ThreadNext

\* What is opened was queued to be opened, once.
LEMMA OpenedOnceThread ==
    TypeOK /\ CallShape /\ QueueShape /\ TableMatchesServer /\ TableEmptyOutsideSession
       /\ OpenedOnce /\ ThreadNext => OpenedOnce'
<1> SUFFICES ASSUME TypeOK, CallShape, QueueShape, TableMatchesServer, TableEmptyOutsideSession,
                    OpenedOnce, ThreadNext
             PROVE  OpenedOnce'
  OBVIOUS
<1> USE DEF threadVars, fileVars, taskVars
<1>1. CASE Exec
  <2>1. PICK c \in Command, o \in Op, r \in Reply : Executes(c, o, r) /\ TableMoves(c, o, r)
    BY <1>1, ExecSteps
  <2>2. /\ \A t \in Task : reply'[t] = IF t = c.by THEN r ELSE reply[t]
        /\ file' = file /\ pc' = pc /\ op' = op /\ on' = on
        /\ \A i \in 1..Len(queue') : /\ i + 1 \in 1..Len(queue) /\ i + 1 # 1
                                     /\ queue'[i] = queue[i + 1]
        /\ \A i, j \in 1..Len(queue') : i + 1 = j + 1 => i = j
    BY <2>1, Executed DEF Executes
  <2>3. /\ c.op = o /\ 1 \in 1..Len(queue) /\ c = queue[1]
        /\ o = "open" => c.path \in File /\ (c.by = None => file[c.path] = "abandoned")
        /\ c.by # None => c.by \in Task /\ pc[c.by] = "await" /\ op[c.by] = o
        /\ c.by # None /\ o = "open" => c.path = on[c.by]
        /\ None \notin Task
    BY <2>1, RecvFacts, NoneAssumption DEF Executes
  <2>4. \A i, j \in 1..Len(queue') :
           queue'[i].op = "open" /\ queue'[j].op = "open" /\ queue'[i].path = queue'[j].path => i = j
    <3>1. \A i, j \in 1..Len(queue) :
             queue[i].op = "open" /\ queue[j].op = "open" /\ queue[i].path = queue[j].path => i = j
      BY DEF OpenedOnce
    <3>2. SUFFICES ASSUME NEW i \in 1..Len(queue'), NEW j \in 1..Len(queue'),
                          queue[i + 1].op = "open", queue[j + 1].op = "open",
                          queue[i + 1].path = queue[j + 1].path
                   PROVE  i + 1 = j + 1
      BY <2>2
    <3>3. i + 1 \in 1..Len(queue) /\ j + 1 \in 1..Len(queue)
      BY <2>2
    <3>4. QED
      BY <3>1, <3>2, <3>3
  <2>5. ASSUME \A h \in Fh : serves'[h] # None => serves'[h] = serves[h], o = "open" => r = Failed
        PROVE  OpenedOnce'
    <3>1. ASSUME NEW h \in Fh, serves'[h] # None
          PROVE  /\ file'[serves'[h]] # "unborn"
                 /\ \A i \in 1..Len(queue') : queue'[i].op = "open" => queue'[i].path # serves'[h]
                 /\ \A t \in Task : pc'[t] = "await" /\ op'[t] = "open" /\ on'[t] = serves'[h] =>
                       reply'[t].st = "ok"
      <4>1. serves'[h] = serves[h]
        BY <2>5, <3>1
      <4>2. \A i \in 1..Len(queue') : queue'[i].op = "open" => queue'[i].path # serves[h]
        BY <2>2, <3>1, <4>1 DEF OpenedOnce
      <4>3. ASSUME NEW t \in Task, pc[t] = "await", op[t] = "open", on[t] = serves[h]
            PROVE  reply'[t].st = "ok"
        <5>1. CASE t = c.by
          <6>1. o = "open" /\ c.path = serves[h]
            BY <2>3, <4>3, <5>1
          <6>2. QED
            BY <2>3, <3>1, <4>1, <6>1 DEF OpenedOnce
        <5>2. CASE t # c.by
          BY <2>2, <3>1, <4>1, <4>3, <5>2 DEF OpenedOnce
        <5>3. QED
          BY <5>1, <5>2
      <4>4. QED
        BY <2>2, <3>1, <4>1, <4>2, <4>3 DEF OpenedOnce
    <3>2. \A h, k \in Fh : serves'[h] = serves'[k] /\ serves'[h] # None => h = k
      BY <2>5 DEF OpenedOnce
    <3>3. QED
      BY <2>4, <3>1, <3>2 DEF OpenedOnce
  <2>6. CASE handles' = handles /\ nextId' = nextId /\ serves' = serves /\ (o = "open" => r = Failed)
    BY <2>5, <2>6
  <2>7. CASE o = "open" /\ Opens(c, r)
    <3>1. PICK h \in Fh : serves[h] = None /\ serves' = [serves EXCEPT ![h] = c.path]
      BY <2>7 DEF Opens
    <3>2. \A k \in Fh : serves'[k] = IF k = h THEN c.path ELSE serves[k]
      BY <3>1 DEF TypeOK
    <3>3. /\ c.path \in File /\ file[c.path] \in {"opening", "abandoned"}
          /\ \A k \in Fh : serves[k] # c.path
      <4>1. c.path \in File /\ file[c.path] \in {"opening", "abandoned"}
        BY <2>3, <2>7, QueuedOpens
      <4>2. c.path # None
        BY <4>1, NoneAssumption
      <4>3. QED
        BY <2>3, <2>7, <4>1, <4>2 DEF OpenedOnce
    <3>4. ASSUME NEW t \in Task, pc[t] = "await", op[t] = "open", on[t] = c.path
          PROVE  reply'[t].st = "ok"
      <4>1. file[c.path] = "opening"
        BY <3>4 DEF CallShape, Busy
      <4>2. c.by # None
        BY <2>3, <2>7, <4>1
      <4>3. t = c.by
        BY <2>3, <2>7, <3>4, <4>2 DEF CallShape, Busy
      <4>4. r.st = "ok"
        BY <2>7 DEF Opens, Ok
      <4>5. QED
        BY <2>2, <4>3, <4>4
    <3>5. \A i \in 1..Len(queue') : queue'[i].op = "open" => queue'[i].path # c.path
      BY <2>2, <2>3, <2>7 DEF OpenedOnce
    <3>6. ASSUME NEW k \in Fh, k # h, serves[k] # None
          PROVE  /\ file'[serves[k]] # "unborn"
                 /\ \A i \in 1..Len(queue') : queue'[i].op = "open" => queue'[i].path # serves[k]
                 /\ \A t \in Task : pc'[t] = "await" /\ op'[t] = "open" /\ on'[t] = serves[k] =>
                       reply'[t].st = "ok"
      <4>1. \A i \in 1..Len(queue') : queue'[i].op = "open" => queue'[i].path # serves[k]
        BY <2>2, <3>6 DEF OpenedOnce
      <4>2. ASSUME NEW t \in Task, pc[t] = "await", op[t] = "open", on[t] = serves[k]
            PROVE  reply'[t].st = "ok"
        <5>1. t # c.by
          BY <2>3, <2>7, <3>3, <4>2
        <5>2. QED
          BY <2>2, <3>6, <4>2, <5>1 DEF OpenedOnce
      <4>3. QED
        BY <2>2, <3>6, <4>1, <4>2 DEF OpenedOnce
    <3>7. ASSUME NEW k \in Fh, serves'[k] # None
          PROVE  /\ file'[serves'[k]] # "unborn"
                 /\ \A i \in 1..Len(queue') : queue'[i].op = "open" => queue'[i].path # serves'[k]
                 /\ \A t \in Task : pc'[t] = "await" /\ op'[t] = "open" /\ on'[t] = serves'[k] =>
                       reply'[t].st = "ok"
      <4>1. CASE k = h
        <5>1. serves'[k] = c.path
          BY <3>2, <4>1
        <5>2. QED
          BY <2>2, <3>3, <3>4, <3>5, <5>1
      <4>2. CASE k # h
        <5>1. serves'[k] = serves[k] /\ serves[k] # None
          BY <3>2, <3>7, <4>2
        <5>2. QED
          BY <3>6, <4>2, <5>1
      <4>3. QED
        BY <4>1, <4>2
    <3>8. \A k, m \in Fh : serves'[k] = serves'[m] /\ serves'[k] # None => k = m
      BY <3>2, <3>3 DEF OpenedOnce
    <3>9. QED
      BY <2>4, <3>7, <3>8 DEF OpenedOnce
  <2>8. CASE o = "close" /\ c.id \in DOMAIN handles /\ CloseHandle(c.id) /\ nextId' = nextId
    BY <2>5, <2>8, CloseType
  <2>9. QED
    BY <2>1, <2>6, <2>7, <2>8 DEF TableMoves
<1>2. CASE CloseAllStep
  <2>1. \A h \in Fh : serves'[h] # None => serves'[h] = serves[h]
    BY <1>2, CloseType DEF CloseAllStep
  <2>2. file' = file /\ queue' = queue /\ pc' = pc /\ op' = op /\ on' = on /\ reply' = reply
    BY <1>2 DEF CloseAllStep
  <2>3. QED
    BY <2>1, <2>2 DEF OpenedOnce
<1>3. CASE ThreadExits
  <2>1. \A h \in Fh : serves[h] = None
    BY <1>3 DEF ThreadExits, TableEmptyOutsideSession, TableMatchesServer, ContextLive
  <2>2. queue' = <<>> /\ serves' = serves /\ Len(<<>>) = 0
    BY <1>3 DEF ThreadExits
  <2>3. \A i \in 1..Len(queue') : FALSE
    BY <2>2
  <2>4. QED
    BY <2>1, <2>2, <2>3 DEF OpenedOnce
<1>4. CASE ThreadConnects \/ Disconnected \/ DestroyContext
  <2>1. /\ serves' = serves /\ file' = file /\ queue' = queue /\ reply' = reply /\ pc' = pc
        /\ op' = op /\ on' = on
    BY <1>4 DEF ThreadConnects, Disconnected, DestroyContext
  <2>2. QED
    BY <2>1 DEF OpenedOnce
<1>5. QED
  BY <1>1, <1>2, <1>3, <1>4 DEF ThreadNext

\* The thread adds nothing to what is queued.
LEMMA ClosedOnceThread == TypeOK /\ QueueShape /\ ClosedOnce /\ ThreadNext => ClosedOnce'
<1> SUFFICES ASSUME TypeOK, QueueShape, ClosedOnce, ThreadNext PROVE ClosedOnce'
  OBVIOUS
<1> USE DEF threadVars, fileVars, taskVars
<1>1. fileId' = fileId /\ closed' = closed /\ pc' = pc /\ op' = op /\ on' = on
  <2>1. CASE Exec
    BY <2>1, ExecSteps DEF Executes
  <2>2. QED
    BY <2>1 DEF ThreadNext, ThreadConnects, Disconnected, CloseAllStep, DestroyContext, ThreadExits
<1>2. CASE Exec
  <2>1. PICK c \in Command, o \in Op, r \in Reply : Executes(c, o, r)
    BY <1>2, ExecSteps
  <2>2. /\ \A i \in 1..Len(queue') : i + 1 \in 1..Len(queue) /\ queue'[i] = queue[i + 1]
        /\ \A i, j \in 1..Len(queue') : i + 1 = j + 1 => i = j
    BY <2>1, Executed
  <2>3. QED
    BY <1>1, <2>2 DEF ClosedOnce, Closing
<1>3. CASE ThreadExits
  <2>1. \A i \in 1..Len(queue') : FALSE
    BY <1>3 DEF ThreadExits
  <2>2. QED
    BY <1>1, <2>1 DEF ClosedOnce, Closing
<1>4. CASE ThreadConnects \/ Disconnected \/ CloseAllStep \/ DestroyContext
  <2>1. queue' = queue
    BY <1>4 DEF ThreadConnects, Disconnected, CloseAllStep, DestroyContext
  <2>2. QED
    BY <1>1, <2>1 DEF ClosedOnce, Closing
<1>5. QED
  BY <1>2, <1>3, <1>4 DEF ThreadNext

\* What the thread closes, nobody else will close.
LEMMA ClosesFindThread ==
    TypeOK /\ CallShape /\ QueueShape /\ IdsStandForOneOpen /\ TableMatchesServer /\ Starts
       /\ OwnIds /\ ClosedOnce /\ ClosesFind /\ ThreadNext => ClosesFind'
<1> SUFFICES ASSUME TypeOK, CallShape, QueueShape, IdsStandForOneOpen, TableMatchesServer, Starts,
                    OwnIds, ClosedOnce, ClosesFind, ThreadNext, thread' = "running"
             PROVE  ClosesFind'
  BY DEF ClosesFind
<1> USE DEF threadVars, fileVars, taskVars
<1>1. CASE Exec
  <2>1. PICK c \in Command, o \in Op, r \in Reply : Executes(c, o, r) /\ TableMoves(c, o, r)
    BY <1>1, ExecSteps
  <2>2. /\ \A t \in Task : reply'[t] = IF t = c.by THEN r ELSE reply[t]
        /\ file' = file /\ fileId' = fileId /\ closed' = closed /\ pc' = pc /\ op' = op /\ on' = on
        /\ \A i \in 1..Len(queue') : /\ i + 1 \in 1..Len(queue) /\ i + 1 # 1
                                     /\ queue'[i] = queue[i + 1]
    BY <2>1, Executed DEF Executes
  <2>3. /\ thread = "running" /\ c.op = o /\ 1 \in 1..Len(queue) /\ c = queue[1]
        /\ c.by # None => c.by \in Task /\ op[c.by] = o
        /\ None \notin Task
    BY <2>1, RecvFacts, NoneAssumption DEF Executes
  <2>4. ASSUME o = "open" => r = Failed, NEW t \in Task, Opened(t)'
        PROVE  Opened(t) /\ reply'[t] = reply[t]
    BY <2>2, <2>3, <2>4 DEF Opened, Failed
  <2>5. CASE handles' = handles /\ (o = "open" => r = Failed)
    BY <2>2, <2>3, <2>4, <2>5 DEF ClosesFind, Closing
  <2>6. CASE o = "open" /\ Opens(c, r)
    <3>1. DOMAIN handles' = DOMAIN handles \cup {nextId'} /\ r.id = nextId'
      BY <2>6 DEF Opens, Insert, Ok
    <3>2. ASSUME NEW t \in Task, Opened(t)'
          PROVE  reply'[t].id \in DOMAIN handles'
      BY <2>2, <2>3, <3>1, <3>2 DEF Opened, ClosesFind
    <3>3. QED
      BY <2>2, <2>3, <3>1, <3>2 DEF ClosesFind, Closing
  <2>7. CASE o = "close" /\ c.id \in DOMAIN handles /\ CloseHandle(c.id)
    <3>1. DOMAIN handles' = DOMAIN handles \ {c.id}
      BY <2>7, CloseType
    <3>2. PICK g \in File : fileId[g] = c.id /\ fileId[g] # 0 /\ closed[g]
      BY <2>3, <2>7 DEF ClosedOnce
    <3>3. ASSUME NEW f \in File, file[f] = "alive", ~closed[f]
          PROVE  fileId[f] \in DOMAIN handles'
      <4>1. fileId[f] # c.id
        BY <3>2, <3>3 DEF OwnIds
      <4>2. QED
        BY <2>3, <3>1, <3>3, <4>1 DEF ClosesFind
    <3>4. ASSUME NEW t \in Task, Closing(t)
          PROVE  fileId[on[t]] \in DOMAIN handles'
      BY <2>3, <2>7, <3>1, <3>4 DEF ClosedOnce, ClosesFind
    <3>5. ASSUME NEW i \in 1..Len(queue'), queue'[i].op = "close"
          PROVE  queue'[i].id \in DOMAIN handles'
      <4>1. queue'[i].id # c.id
        BY <2>2, <2>3, <2>7, <3>5 DEF ClosedOnce
      <4>2. QED
        BY <2>2, <2>3, <3>1, <3>5, <4>1 DEF ClosesFind
    <3>6. ASSUME NEW t \in Task, Opened(t)'
          PROVE  reply'[t].id \in DOMAIN handles'
      <4>1. Opened(t) /\ reply'[t] = reply[t]
        BY <2>4, <2>7, <3>6
      <4>2. reply[t].id # c.id
        BY <3>2, <4>1 DEF OwnIds
      <4>3. QED
        BY <2>3, <3>1, <4>1, <4>2 DEF ClosesFind
    <3>7. QED
      BY <2>2, <3>3, <3>4, <3>5, <3>6 DEF ClosesFind, Closing
  <2>8. QED
    BY <2>1, <2>5, <2>6, <2>7 DEF TableMoves
<1>2. CASE ThreadConnects
  <2>1. /\ queue = <<>> /\ queue' = queue
        /\ \A t \in Task : pc'[t] = "idle"
        /\ \A f \in File : file'[f] = "unborn"
    BY <1>2 DEF ThreadConnects, Starts, Unused
  <2>2. \A i \in 1..Len(queue') : FALSE
    BY <2>1
  <2>3. QED
    BY <2>1, <2>2 DEF ClosesFind, Closing, Opened
<1>3. QED
  BY <1>1, <1>2 DEF ThreadNext, Disconnected, CloseAllStep, DestroyContext, ThreadExits

-----------------------------------------------------------------------------
(* It holds throughout *)

\* What a call is about is said when it begins.
LEMMA OnBackendStep == TypeOK /\ CallShape /\ QueueShape /\ OnBackend /\ Next => OnBackend'
<1> SUFFICES ASSUME TypeOK, CallShape, QueueShape, OnBackend, Next,
                    NEW u \in Task, op'[u] \in {"path", "shutdown"}
             PROVE  on'[u] = None
  BY DEF OnBackend
<1> DEFINE Goal == on'[u] = None
<1>1. ASSUME NEW t \in Task, NEW o, NEW id, NEW f, Send(t, o, id, f),
             o \in {"path", "shutdown"} => f = None
      PROVE  Goal
  <2>1. /\ u # t => op'[u] = op[u] /\ on'[u] = on[u]
        /\ ReceiverAlive => op'[t] = o /\ on'[t] = f
        /\ ~ReceiverAlive => on'[t] = None
    BY <1>1 DEF Send, Return, TypeOK
  <2>2. QED
    BY <1>1, <2>1 DEF OnBackend
<1>2. ASSUME NEW t \in Task, Return(t) PROVE Goal
  <2>1. CASE u = t
    BY <1>2, <2>1, ReturnFacts
  <2>2. CASE u # t
    BY <1>2, <2>2, ReturnFacts DEF OnBackend
  <2>3. QED
    BY <2>1, <2>2
<1>3. ASSUME op' = op, on' = on PROVE Goal
  BY <1>3 DEF OnBackend
<1> HIDE DEF Goal
<1>4. ASSUME ThreadNext PROVE Goal
  <2>1. CASE Exec
    BY <1>3, <2>1, ExecSteps DEF Executes
  <2>2. CASE ~Exec
    BY <1>3, <1>4, <2>2 DEF ThreadNext, ThreadConnects, Disconnected, CloseAllStep,
                            DestroyContext, ThreadExits, taskVars
  <2>3. QED
    BY <2>1, <2>2
<1>5. ASSUME CallerNext PROVE Goal
  <2>1. CASE ConnectReturns \/ DropBackend \/ \E f \in File : DropFile(f)
    BY <1>3, <2>1 DEF ConnectReturns, DropBackend, DropFile, taskVars
  <2>2. ASSUME NEW t \in Task, CallPath(t) \/ SendChecked(t) \/ \E f \in File : CallOpen(t, f)
        PROVE  Goal
    <3>1. CASE CallPath(t)
      BY <1>1, <3>1 DEF CallPath
    <3>2. CASE SendChecked(t)
      <4>1. op[t] \in FileOps
        BY <3>2 DEF SendChecked, CallShape
      <4>2. QED
        BY <1>1, <3>2, <4>1 DEF SendChecked, FileOps
    <3>3. ASSUME NEW f \in File, CallOpen(t, f) PROVE Goal
      BY <1>1, <3>3 DEF CallOpen
    <3>4. QED
      BY <2>2, <3>1, <3>2, <3>3
  <2>3. ASSUME NEW t \in Task, Receive(t) \/ JoinReturns(t) \/ Abandon(t) PROVE Goal
    BY <1>2, <2>3 DEF Receive, JoinReturns, Abandon
  <2>4. ASSUME NEW t \in Task, ShutdownAnswered(t) \/ TakeJoin(t) PROVE Goal
    BY <1>2, <1>3, <2>4 DEF ShutdownAnswered, TakeJoin
  <2>5. ASSUME NEW t \in Task, CallShutdown(t) PROVE Goal
    <3>1. on' = on /\ op' = [op EXCEPT ![t] = "shutdown"] /\ on[t] = None
      BY <2>5 DEF CallShutdown, CallShape
    <3>2. QED
      BY <3>1 DEF Goal, OnBackend, TypeOK
  <2>6. ASSUME NEW t \in Task, NEW f \in File, CallUse(t, f) \/ CallClose(t, f) PROVE Goal
    <3>1. /\ op' = [op EXCEPT ![t] = "use"] \/ op' = [op EXCEPT ![t] = "close"]
          /\ on' = [on EXCEPT ![t] = f]
      BY <2>6 DEF CallUse, CallClose
    <3>2. QED
      BY <3>1 DEF Goal, OnBackend, TypeOK
  <2>7. QED
    BY <1>5, <2>1, <2>2, <2>3, <2>4, <2>5, <2>6 DEF CallerNext, Proceed
<1>6. ASSUME Finished PROVE Goal
  BY <1>3, <1>6 DEF Finished, vars, taskVars
<1>7. QED
  BY <1>4, <1>5, <1>6 DEF Next, Goal

LEMMA InitRInv == Init => RInv
<1> SUFFICES ASSUME Init PROVE RInv
  OBVIOUS
<1> USE DEF Init
<1>1. \A i \in 1..Len(queue) : FALSE
  OBVIOUS
<1>2. Starts /\ Waits /\ OnBackend
  BY DEF Starts, Unused, Waits, OnBackend, Pending, Lost
<1>3. OwnIds /\ OpenedOnce
  BY <1>1 DEF OwnIds, OpenedOnce, Opened
<1>4. ClosedOnce /\ ClosesFind
  BY <1>1 DEF ClosedOnce, ClosesFind, Closing
<1>5. QED
  BY <1>2, <1>3, <1>4 DEF RInv

LEMMA StutterRInv == RInv /\ UNCHANGED vars => RInv'
<1> SUFFICES ASSUME RInv, UNCHANGED vars PROVE RInv'
  OBVIOUS
<1> USE DEF vars, threadVars, fileVars, taskVars, RInv
<1>1. Starts' /\ Waits' /\ OnBackend'
  BY DEF Starts, Unused, Waits, OnBackend
<1>2. OwnIds' /\ OpenedOnce'
  BY DEF OwnIds, Opened, OpenedOnce
<1>3. ClosedOnce' /\ ClosesFind'
  BY DEF ClosedOnce, Closing, ClosesFind, Opened
<1>4. QED
  BY <1>1, <1>2, <1>3

LEMMA NextRInv == IInv /\ RInv /\ [Next]_vars => RInv'
<1> SUFFICES ASSUME IInv, RInv, [Next]_vars PROVE RInv'
  OBVIOUS
<1> USE DEF IInv, RInv
<1>1. CASE ThreadNext
  <2>1. Starts' /\ Waits' /\ OnBackend'
    BY <1>1, StartsThread, WaitsThread, OnBackendStep DEF Next
  <2>2. OwnIds' /\ OpenedOnce'
    BY <1>1, OwnIdsThread, OpenedOnceThread
  <2>3. ClosedOnce' /\ ClosesFind'
    BY <1>1, ClosedOnceThread, ClosesFindThread
  <2>4. QED
    BY <2>1, <2>2, <2>3
<1>2. CASE CallerNext
  <2>1. Starts' /\ Waits' /\ OnBackend'
    BY <1>2, StartsCaller, WaitsCaller, OnBackendStep DEF Next
  <2>2. OwnIds' /\ OpenedOnce'
    BY <1>2, OwnIdsCaller, OpenedOnceCaller
  <2>3. ClosedOnce' /\ ClosesFind'
    BY <1>2, ClosedOnceCaller, ClosesFindCaller
  <2>4. QED
    BY <2>1, <2>2, <2>3
<1>3. CASE Finished \/ UNCHANGED vars
  BY <1>3, StutterRInv DEF Finished
<1>4. QED
  BY <1>1, <1>2, <1>3 DEF Next

\* A file is opened once and closed once, each close finds its handle, an id belongs to one
\* file for good, and whoever waits is queued or answered: whatever is shut down, dropped
\* or abandoned meanwhile.
THEOREM RefinementInvariant == Spec => []RInv
<1>1. Init => RInv
  BY InitRInv
<1>2. IInv /\ RInv /\ [Next]_vars => RInv'
  BY NextRInv
<1>3. QED
  BY <1>1, <1>2, InductiveInvariant, PTL DEF Spec

-----------------------------------------------------------------------------
(* What is late, command by command *)

\* What a command that nobody awaits stands for.
Owes(c, ids) ==
    IF c.by # None THEN {}
    ELSE IF c.op = "open" THEN {[op |-> "open", on |-> c.path]}
    ELSE IF c.op = "shutdown" THEN {[op |-> "shutdown", on |-> None]}
    ELSE IF c.op = "close" THEN {[op |-> "close", on |-> f] : f \in {g \in File : ids[g] = c.id}}
    ELSE {}

LateIn(q, ids) == UNION {Owes(q[i], ids) : i \in 1..Len(q)}

LEMMA LateNow == LateWork = LateIn(queue, fileId)
<1>1. ASSUME NEW x \in LateWork
      PROVE  x \in LateIn(queue, fileId)
  BY <1>1 DEF LateWork, LateIn, Owes
<1>2. ASSUME NEW x \in LateIn(queue, fileId)
      PROVE  x \in LateWork
  <2>1. PICK i \in 1..Len(queue) : x \in Owes(queue[i], fileId)
    BY <1>2 DEF LateIn
  <2>2. queue[i].by = None
    BY <2>1 DEF Owes
  <2>3. CASE queue[i].op = "open"
    BY <2>1, <2>2, <2>3 DEF LateWork, Owes
  <2>4. CASE queue[i].op = "shutdown"
    BY <2>1, <2>2, <2>4 DEF LateWork, Owes
  <2>5. CASE queue[i].op = "close"
    BY <2>1, <2>2, <2>5 DEF LateWork, Owes
  <2>6. QED
    BY <2>1, <2>3, <2>4, <2>5 DEF Owes
<1>3. QED
  BY <1>1, <1>2

LEMMA LateNext == LateWork' = LateIn(queue', fileId')
<1>1. (LateWork = LateIn(queue, fileId))'
  BY LateNow, PTL
<1>2. QED
  BY <1>1

LEMMA LateAppend ==
    ASSUME NEW q \in Seq(Command), NEW c \in Command, NEW ids
    PROVE  LateIn(Append(q, c), ids) = LateIn(q, ids) \cup Owes(c, ids)
<1>1. /\ Len(Append(q, c)) = Len(q) + 1
      /\ \A i \in 1..Len(q) : Append(q, c)[i] = q[i] /\ i \in 1..(Len(q) + 1)
      /\ Append(q, c)[Len(q) + 1] = c /\ Len(q) + 1 \in 1..(Len(q) + 1)
      /\ \A i \in 1..(Len(q) + 1) : i \in 1..Len(q) \/ i = Len(q) + 1
  BY AppendFacts
<1>2. QED
  BY <1>1 DEF LateIn

LEMMA LateTail ==
    ASSUME NEW q \in Seq(Command), q # <<>>, NEW ids
    PROVE  LateIn(q, ids) = Owes(Head(q), ids) \cup LateIn(Tail(q), ids)
<1>1. /\ 1 \in 1..Len(q) /\ Head(q) = q[1]
      /\ \A i \in 1..Len(Tail(q)) : i + 1 \in 1..Len(q) /\ Tail(q)[i] = q[i + 1]
  BY TailFacts
<1>2. \A i \in 1..Len(q) : i = 1 \/ (i - 1 \in 1..Len(Tail(q)) /\ Tail(q)[i - 1] = q[i])
  <2>1. Len(Tail(q)) = Len(q) - 1 /\ Len(q) \in Nat
    BY TailFacts
  <2>2. ASSUME NEW i \in 1..Len(q), i # 1
        PROVE  i - 1 \in 1..Len(Tail(q)) /\ Tail(q)[i - 1] = q[i]
    <3>1. i - 1 \in 1..Len(Tail(q)) /\ (i - 1) + 1 = i
      BY <2>1, <2>2
    <3>2. QED
      BY <1>1, <3>1
  <2>3. QED
    BY <2>2
<1>3. QED
  BY <1>1, <1>2 DEF LateIn

\* A command whose caller gives up becomes late; the others stay what they were.
LEMMA LateGivenUp ==
    ASSUME NEW q \in Seq(Command), NEW t \in Task, NEW ids,
           NEW i \in 1..Len(q), q[i].by = t,
           \A j \in 1..Len(q) : q[j].by = t => j = i
    PROVE  LateIn([j \in 1..Len(q) |-> IF q[j].by = t THEN [q[j] EXCEPT !.by = None] ELSE q[j]], ids)
              = LateIn(q, ids) \cup Owes([q[i] EXCEPT !.by = None], ids)
<1>1. DEFINE p == [j \in 1..Len(q) |-> IF q[j].by = t THEN [q[j] EXCEPT !.by = None] ELSE q[j]]
<1>2. p \in Seq(Command)
  BY AbandonedQueue
<1>3. DOMAIN p = 1..Len(q) /\ Len(p) = Len(q)
  <2>1. DOMAIN p = 1..Len(q) /\ DOMAIN p = 1..Len(p) /\ Len(p) \in Nat /\ Len(q) \in Nat
    BY <1>2
  <2>2. QED
    BY <2>1
<1>4. \A j \in 1..Len(q) : p[j] = IF j = i THEN [q[i] EXCEPT !.by = None] ELSE q[j]
  OBVIOUS
<1>5. Owes(q[i], ids) = {}
  BY NoneAssumption DEF Owes
<1> HIDE DEF p
<1>6. LateIn(p, ids) = LateIn(q, ids) \cup Owes([q[i] EXCEPT !.by = None], ids)
  <2>1. ASSUME NEW x \in LateIn(p, ids)
        PROVE  x \in LateIn(q, ids) \cup Owes([q[i] EXCEPT !.by = None], ids)
    BY <1>3, <1>4, <2>1 DEF LateIn
  <2>2. ASSUME NEW x \in LateIn(q, ids) \cup Owes([q[i] EXCEPT !.by = None], ids)
        PROVE  x \in LateIn(p, ids)
    <3>1. CASE x \in LateIn(q, ids)
      <4>1. PICK j \in 1..Len(q) : x \in Owes(q[j], ids)
        BY <3>1 DEF LateIn
      <4>2. j # i
        BY <1>5, <4>1
      <4>3. QED
        BY <1>3, <1>4, <4>1, <4>2 DEF LateIn
    <3>2. CASE x \in Owes([q[i] EXCEPT !.by = None], ids)
      BY <1>3, <1>4, <3>2 DEF LateIn
    <3>3. QED
      BY <2>2, <3>1, <3>2
  <2>3. QED
    BY <2>1, <2>2
<1>7. QED
  BY <1>6 DEF p

\* Nobody's command: nothing becomes late.
LEMMA LateNotGivenUp ==
    ASSUME NEW q \in Seq(Command), NEW t \in Task, \A j \in 1..Len(q) : q[j].by # t
    PROVE  [j \in 1..Len(q) |-> IF q[j].by = t THEN [q[j] EXCEPT !.by = None] ELSE q[j]] = q
  OBVIOUS

\* A command that is awaited, or that asks for nothing lasting, owes nothing.
LEMMA OwesNothing ==
    ASSUME NEW c, NEW ids, c.by # None \/ c.op \in {"path", "use"}
    PROVE  Owes(c, ids) = {}
  BY DEF Owes

\* A close owes the closing of the one file that has its id.
LEMMA OwesClose ==
    ASSUME NEW c, NEW ids, NEW f \in File, c.by = None, c.op = "close", ids[f] = c.id,
           \A g \in File : ids[g] = c.id => g = f
    PROVE  Owes(c, ids) = {[op |-> "close", on |-> f]}
<1>1. {g \in File : ids[g] = c.id} = {f}
  OBVIOUS
<1>2. QED
  BY <1>1 DEF Owes

-----------------------------------------------------------------------------
(* What each variable of the service is, before a step and after it *)

LEMMA CallMeans ==
    ASSUME NEW t \in Task
    PROVE  /\ Calls[t] = CallOf(t)
           /\ pc[t] = "idle" => Calls[t] = Service!NoCall
           /\ pc[t] # "idle" =>
                 /\ Calls[t].op = op[t] /\ Calls[t].on = on[t] /\ Calls[t].from = reply[t].from
                 /\ Calls[t].st = IF reply[t].st = "lost" THEN "pending" ELSE reply[t].st
  BY DEF Calls, CallOf, Service!NoCall

LEMMA BusyMeans ==
    ASSUME TypeOK, NEW t \in Task
    PROVE  Service!Busy(t) <=> pc[t] # "idle"
<1>1. op[t] # "none"
  BY DEF TypeOK, Op
<1>2. CASE pc[t] = "idle"
  BY <1>2, CallMeans DEF Service!Busy
<1>3. CASE pc[t] # "idle"
  BY <1>1, <1>3, CallMeans DEF Service!Busy, Service!NoCall
<1>4. QED
  BY <1>2, <1>3

\* A call stays as it is when its task does.
LEMMA CallStays ==
    ASSUME NEW u \in Task, pc'[u] = pc[u], op'[u] = op[u], on'[u] = on[u], reply'[u] = reply[u]
    PROVE  CallOf(u)' = CallOf(u)
  BY DEF CallOf

LEMMA CallsStay ==
    ASSUME \A u \in Task : CallOf(u)' = CallOf(u)
    PROVE  Calls' = Calls
  BY DEF Calls

LEMMA CallsChange ==
    ASSUME NEW t \in Task, NEW c, CallOf(t)' = c,
           \A u \in Task : u # t => CallOf(u)' = CallOf(u)
    PROVE  Calls' = [Calls EXCEPT ![t] = c]
  BY DEF Calls

\* A call begins: its task was idle and waits for an answer from now on.
LEMMA CallBegins ==
    ASSUME TypeOK, NEW t \in Task, NEW o, NEW f,
           pc[t] = "idle", pc'[t] # "idle", op'[t] = o, on'[t] = f, reply'[t] = Pending,
           \A u \in Task : u # t =>
              pc'[u] = pc[u] /\ op'[u] = op[u] /\ on'[u] = on[u] /\ reply'[u] = reply[u]
    PROVE  ~Service!Busy(t) /\ Calls' = [Calls EXCEPT ![t] = Service!Called(o, f)]
<1>1. ~Service!Busy(t)
  BY BusyMeans
<1>2. CallOf(t)' = Service!Called(o, f)
  BY DEF CallOf, Service!Called, Pending
<1>3. \A u \in Task : u # t => CallOf(u)' = CallOf(u)
  BY CallStays
<1>4. QED
  BY <1>1, <1>2, <1>3, CallsChange

\* A call is over.
LEMMA CallEnds ==
    ASSUME TypeOK, NEW t \in Task, pc[t] # "idle", Return(t)
    PROVE  Service!Busy(t) /\ Calls' = [Calls EXCEPT ![t] = Service!NoCall]
<1>1. /\ pc'[t] = "idle"
      /\ \A u \in Task : u # t =>
            pc'[u] = pc[u] /\ op'[u] = op[u] /\ on'[u] = on[u] /\ reply'[u] = reply[u]
  BY ReturnFacts
<1>2. Service!Busy(t)
  BY BusyMeans
<1>3. CallOf(t)' = Service!NoCall
  BY <1>1 DEF CallOf, Service!NoCall
<1>4. \A u \in Task : u # t => CallOf(u)' = CallOf(u)
  BY <1>1, CallStays
<1>5. QED
  BY <1>2, <1>3, <1>4, CallsChange

\* A call is answered by the command the thread has executed.
LEMMA CallAnswered ==
    ASSUME TypeOK, QueueShape, NEW c \in Command, NEW o \in Op, NEW r \in Reply,
           Executes(c, o, r), c.by # None
    PROVE  /\ c.by \in Task /\ Service!Pending(c.by, o)
           /\ Calls[c.by].on = on[c.by]
           /\ Service!Answer(c.by, r.st, r.from)
<1>1. /\ c.by \in Task /\ pc[c.by] = "await" /\ op[c.by] = o /\ reply[c.by] = Pending
  BY RecvFacts DEF Executes
<1>2. /\ \A u \in Task : reply'[u] = IF u = c.by THEN r ELSE reply[u]
      /\ r.st # "lost"
      /\ pc' = pc /\ op' = op /\ on' = on
  BY Executed DEF Executes, Failed
<1>3. Service!Pending(c.by, o) /\ Calls[c.by].on = on[c.by]
  BY <1>1 DEF Calls, CallOf, Service!Pending, Pending
<1>4. CallOf(c.by)' = [op |-> o, on |-> on[c.by], st |-> r.st, from |-> r.from]
  BY <1>1, <1>2 DEF CallOf
<1>5. \A u \in Task : u # c.by => CallOf(u)' = CallOf(u)
  BY <1>2, CallStays
<1>6. Service!Answer(c.by, r.st, r.from)
  <2> DEFINE was == Calls[c.by]
  <2>1. was = [op |-> o, on |-> on[c.by], st |-> "pending", from |-> None]
    BY <1>1 DEF Calls, CallOf, Pending
  <2> HIDE DEF was
  <2>2. [was EXCEPT !.st = r.st] = [op |-> o, on |-> on[c.by], st |-> r.st, from |-> None]
    BY <2>1
  <2>3. [[op |-> o, on |-> on[c.by], st |-> r.st, from |-> None] EXCEPT !.from = r.from]
           = [op |-> o, on |-> on[c.by], st |-> r.st, from |-> r.from]
    OBVIOUS
  <2>4. [was EXCEPT !.st = r.st, !.from = r.from] = [[was EXCEPT !.st = r.st] EXCEPT !.from = r.from]
    OBVIOUS
  <2>5. [was EXCEPT !.st = r.st, !.from = r.from]
           = [op |-> o, on |-> on[c.by], st |-> r.st, from |-> r.from]
    BY <2>2, <2>3, <2>4
  <2>6. Calls' = [Calls EXCEPT ![c.by] = [op |-> o, on |-> on[c.by], st |-> r.st, from |-> r.from]]
    BY <1>1, <1>4, <1>5, CallsChange
  <2>7. Calls' = [Calls EXCEPT ![c.by] = [was EXCEPT !.st = r.st, !.from = r.from]]
    BY <2>5, <2>6
  <2>8. Calls = [u \in Task |-> Calls[u]]
    BY DEF Calls
  <2>9. QED
    BY <1>1, <2>7, <2>8 DEF was, Service!Answer
<1>7. QED
  BY <1>1, <1>3, <1>6

\* Nobody waits for the command: no call changes.
LEMMA NobodyAnswered ==
    ASSUME TypeOK, QueueShape, NEW c \in Command, NEW o \in Op, NEW r \in Reply,
           Executes(c, o, r), c.by = None
    PROVE  Calls' = Calls
<1>1. c.by \notin Task
  BY NoneAssumption
<1>2. \A u \in Task : reply'[u] = reply[u] /\ pc'[u] = pc[u] /\ op'[u] = op[u] /\ on'[u] = on[u]
  BY <1>1, Executed DEF Executes
<1>3. QED
  BY <1>2, CallStays, CallsStay

\* What the thread alone decides, a caller leaves as it is.
LEMMA CallerLeavesService ==
    ASSUME CallerNext
    PROVE  SessionState' = SessionState /\ OpenOnServer' = OpenOnServer
BY CallerLeavesThread DEF SessionState, OpenOnServer

LEMMA DueStays ==
    ASSUME thread' = thread, queue' = queue, fileId' = fileId
    PROVE  StillDue' = StillDue
BY DEF StillDue, LateWork

\* A command joins the queue: what it owes becomes due, as long as the thread runs.
LEMMA DueAppend ==
    ASSUME TypeOK, thread' = thread, fileId' = fileId,
           NEW c \in Command, queue' = Append(queue, c)
    PROVE  StillDue' = IF thread = "running" THEN StillDue \cup Owes(c, fileId) ELSE StillDue
<1>1. LateWork' = LateWork \cup Owes(c, fileId)
  BY LateNow, LateNext, LateAppend DEF TypeOK
<1>2. QED
  BY <1>1 DEF StillDue

LEMMA SessionMeans ==
    /\ thread \in {"connecting", "running", "closing", "exited"} => SessionState = thread
    /\ thread = "destroyed" => SessionState = "closing"
    /\ TypeOK => (SessionState = "exited" <=> thread = "exited")
    /\ TypeOK => (SessionState = "running" <=> thread = "running")
    /\ TypeOK => (SessionState = "connecting" <=> thread = "connecting")
BY DEF SessionState, TypeOK

-----------------------------------------------------------------------------
(* The steps of the callers *)

LEMMA ConnectReturnsRefines == TypeOK /\ Starts /\ ConnectReturns => Service!Connected
<1> SUFFICES ASSUME TypeOK, Starts, ConnectReturns PROVE Service!Connected
  OBVIOUS
<1>1. /\ backend = "connecting" /\ backend' = IF ready = "ok" THEN "up" ELSE "failed"
      /\ thread \in {"running", "exited"} /\ (ready = "ok" <=> thread # "exited")
  BY DEF ConnectReturns, Starts, TypeOK
<1>2. SessionState = thread /\ SessionState # "connecting"
  BY <1>1, SessionMeans
<1>3. SessionState' = SessionState /\ OpenOnServer' = OpenOnServer
  BY CallerLeavesService DEF CallerNext
<1>4. Calls' = Calls /\ StillDue' = StillDue
  BY CallStays, CallsStay, DueStays DEF ConnectReturns, threadVars, fileVars, taskVars
<1>5. file' = file /\ closed' = closed
  BY DEF ConnectReturns, fileVars
<1>6. QED
  BY <1>1, <1>2, <1>3, <1>4, <1>5 DEF Service!Connected

LEMMA DropBackendRefines == TypeOK /\ DropBackend => Service!DropClient
<1> SUFFICES ASSUME TypeOK, DropBackend PROVE Service!DropClient
  OBVIOUS
<1>1. backend \in {"connecting", "up"} /\ backend' = "dropped"
  BY DEF DropBackend
<1>2. \A t \in Task : Service!Busy(t) => Calls[t].op \in {"use", "close"}
  BY BusyMeans, CallMeans DEF DropBackend, UsesBackend, Busy, FileOps
<1>3. SessionState' = SessionState /\ OpenOnServer' = OpenOnServer
  BY CallerLeavesService DEF CallerNext
<1>4. Calls' = Calls /\ StillDue' = StillDue
  BY CallStays, CallsStay, DueStays DEF DropBackend, threadVars, fileVars, taskVars
<1>5. file' = file /\ closed' = closed
  BY DEF DropBackend, fileVars
<1>6. QED
  BY <1>1, <1>2, <1>3, <1>4, <1>5 DEF Service!DropClient

\* A command that its caller awaits adds nothing that is due.
LEMMA DueAwaited ==
    ASSUME TypeOK, thread' = thread, fileId' = fileId,
           NEW c \in Command, c.by # None, queue' = Append(queue, c)
    PROVE  StillDue' = StillDue
<1>1. Owes(c, fileId) = {}
  BY OwesNothing
<1>2. StillDue' = IF thread = "running" THEN StillDue \cup Owes(c, fileId) ELSE StillDue
  BY DueAppend
<1>3. QED
  BY <1>1, <1>2

\* Sending: the call begins, or is over at once.
LEMMA SendBegins ==
    ASSUME TypeOK, CallShape, NEW t \in Task, NEW o \in Op, NEW id \in Nat, NEW f \in File \cup {None},
           o = "open" => f \in File,
           Send(t, o, id, f), pc[t] = "idle", thread' = thread, fileId' = fileId
    PROVE  /\ StillDue' = StillDue
           /\ ReceiverAlive => ~Service!Busy(t) /\ Calls' = [Calls EXCEPT ![t] = Service!Called(o, f)]
           /\ ~ReceiverAlive => Calls' = Calls
<1>1. /\ \A u \in Task : u # t =>
            pc'[u] = pc[u] /\ op'[u] = op[u] /\ on'[u] = on[u] /\ reply'[u] = reply[u]
      /\ ReceiverAlive =>
            /\ pc'[t] = "await" /\ op'[t] = o /\ on'[t] = f /\ reply' = reply
            /\ queue' = Append(queue, [op |-> o, id |-> id,
                                       path |-> IF o = "open" THEN f ELSE None, by |-> t])
      /\ ~ReceiverAlive =>
            /\ pc'[t] = "idle" /\ op'[t] = "path" /\ on'[t] = None /\ reply'[t] = Pending
            /\ queue' = queue
  BY SendFacts
<1>2. /\ pc[t] = "idle" /\ op[t] = "path" /\ on[t] = None /\ reply[t] = Pending
  BY DEF CallShape
<1>3. CASE ReceiverAlive
  <2>1. DEFINE c == [op |-> o, id |-> id, path |-> IF o = "open" THEN f ELSE None, by |-> t]
  <2>2. c \in Command /\ c.by # None
    BY NoneAssumption DEF Command
  <2>3. queue' = Append(queue, c)
    BY <1>1, <1>3
  <2> HIDE DEF c
  <2>4. StillDue' = StillDue
    BY <2>2, <2>3, DueAwaited
  <2>5. ~Service!Busy(t) /\ Calls' = [Calls EXCEPT ![t] = Service!Called(o, f)]
    BY <1>1, <1>2, <1>3, CallBegins
  <2>6. QED
    BY <1>3, <2>4, <2>5
<1>4. CASE ~ReceiverAlive
  <2>1. StillDue' = StillDue
    BY <1>1, <1>4, DueStays
  <2>2. \A u \in Task : CallOf(u)' = CallOf(u)
    BY <1>1, <1>2, <1>4, CallStays
  <2>3. QED
    BY <1>4, <2>1, <2>2, CallsStay
<1>5. QED
  BY <1>3, <1>4

\* A call on the backend begins; when the thread is gone it is over before it began.
LEMMA CallPathRefines ==
    ASSUME TypeOK, CallShape, NEW t \in Task, CallPath(t)
    PROVE  Service!BeginOnBackend(t) \/ UNCHANGED Service!vars
<1>1. /\ pc[t] = "idle" /\ backend = "up" /\ Send(t, "path", 0, None)
      /\ thread' = thread /\ fileId' = fileId /\ backend' = backend
      /\ file' = file /\ closed' = closed
  BY DEF CallPath, threadVars, fileVars
<1>2. SessionState' = SessionState /\ OpenOnServer' = OpenOnServer
  BY CallerLeavesService DEF CallerNext
<1>3. /\ StillDue' = StillDue
      /\ ReceiverAlive => ~Service!Busy(t) /\ Calls' = [Calls EXCEPT ![t] = Service!Called("path", None)]
      /\ ~ReceiverAlive => Calls' = Calls
  BY <1>1, SendBegins DEF Op
<1>4. CASE ReceiverAlive
  BY <1>1, <1>2, <1>3, <1>4 DEF Service!BeginOnBackend
<1>5. CASE ~ReceiverAlive
  BY <1>1, <1>2, <1>3, <1>5 DEF Service!vars
<1>6. QED
  BY <1>4, <1>5

LEMMA CallOpenRefines ==
    ASSUME TypeOK, CallShape, NEW t \in Task, NEW f \in File, CallOpen(t, f)
    PROVE  Service!BeginOnBackend(t) \/ UNCHANGED Service!vars
<1>1. /\ pc[t] = "idle" /\ backend = "up" /\ Send(t, "open", 0, f) /\ file[f] = "unborn"
      /\ thread' = thread /\ fileId' = fileId /\ backend' = backend /\ closed' = closed
      /\ file' = [file EXCEPT ![f] = IF ReceiverAlive THEN "opening" ELSE "unborn"]
  BY DEF CallOpen, threadVars
<1>2. SessionState' = SessionState /\ OpenOnServer' = OpenOnServer
  BY CallerLeavesService DEF CallerNext
<1>3. /\ StillDue' = StillDue
      /\ ReceiverAlive => ~Service!Busy(t) /\ Calls' = [Calls EXCEPT ![t] = Service!Called("open", f)]
      /\ ~ReceiverAlive => Calls' = Calls
  BY <1>1, SendBegins DEF Op
<1>4. CASE ReceiverAlive
  BY <1>1, <1>2, <1>3, <1>4 DEF Service!BeginOnBackend
<1>5. CASE ~ReceiverAlive
  <2>1. file' = file
    BY <1>1, <1>5 DEF TypeOK
  <2>2. QED
    BY <1>1, <1>2, <1>3, <1>5, <2>1 DEF Service!vars
<1>6. QED
  BY <1>4, <1>5

\* A shutdown whose command finds no receiver has begun too: it still takes the handle.
LEMMA CallShutdownRefines ==
    ASSUME TypeOK, CallShape, NEW t \in Task, CallShutdown(t)
    PROVE  Service!BeginOnBackend(t)
<1>1. /\ pc[t] = "idle" /\ backend = "up"
      /\ pc' = [pc EXCEPT ![t] = IF ReceiverAlive THEN "await" ELSE "takejoin"]
      /\ op' = [op EXCEPT ![t] = "shutdown"] /\ on' = on /\ reply' = reply
      /\ thread' = thread /\ fileId' = fileId /\ backend' = backend
      /\ file' = file /\ closed' = closed
  BY DEF CallShutdown, threadVars, fileVars
<1>2. SessionState' = SessionState /\ OpenOnServer' = OpenOnServer
  BY CallerLeavesService DEF CallerNext
<1>3. on[t] = None /\ reply[t] = Pending
  BY <1>1 DEF CallShape
<1>4. /\ pc'[t] # "idle" /\ op'[t] = "shutdown" /\ on'[t] = None /\ reply'[t] = Pending
      /\ \A u \in Task : u # t =>
            pc'[u] = pc[u] /\ op'[u] = op[u] /\ on'[u] = on[u] /\ reply'[u] = reply[u]
  BY <1>1, <1>3 DEF TypeOK
<1>5. ~Service!Busy(t) /\ Calls' = [Calls EXCEPT ![t] = Service!Called("shutdown", None)]
  BY <1>1, <1>4, CallBegins
<1>6. StillDue' = StillDue
  <2>1. CASE ReceiverAlive
    <3>1. DEFINE c == [op |-> "shutdown", id |-> 0, path |-> None, by |-> t]
    <3>2. c \in Command /\ c.by # None
      BY NoneAssumption DEF Command, Op
    <3>3. queue' = Append(queue, c)
      BY <2>1 DEF CallShutdown
    <3> HIDE DEF c
    <3>4. QED
      BY <1>1, <3>2, <3>3, DueAwaited
  <2>2. CASE ~ReceiverAlive
    BY <1>1, <2>2, DueStays DEF CallShutdown
  <2>3. QED
    BY <2>1, <2>2
<1>7. QED
  BY <1>1, <1>2, <1>5, <1>6 DEF Service!BeginOnBackend

\* A call on a file begins when the flag is checked: from then on the file is borrowed.
LEMMA CallFileRefines ==
    ASSUME TypeOK, CallShape, NEW t \in Task, NEW f \in File, CallUse(t, f) \/ CallClose(t, f)
    PROVE  Service!BeginOnFile(t)
<1>1. PICK o \in {"use", "close"} :
         /\ pc[t] = "idle" /\ file[f] = "alive" /\ ~closed[f]
         /\ pc' = [pc EXCEPT ![t] = "checked"] /\ op' = [op EXCEPT ![t] = o]
         /\ on' = [on EXCEPT ![t] = f] /\ reply' = reply /\ queue' = queue
         /\ thread' = thread /\ fileId' = fileId /\ backend' = backend /\ file' = file
         /\ closed' = IF o = "close" THEN [closed EXCEPT ![f] = TRUE] ELSE closed
  BY DEF CallUse, CallClose, threadVars, fileVars
<1>2. SessionState' = SessionState /\ OpenOnServer' = OpenOnServer
  BY CallerLeavesService DEF CallerNext
<1>3. reply[t] = Pending
  BY <1>1 DEF CallShape
<1>4. /\ pc'[t] # "idle" /\ op'[t] = o /\ on'[t] = f /\ reply'[t] = Pending
      /\ \A u \in Task : u # t =>
            pc'[u] = pc[u] /\ op'[u] = op[u] /\ on'[u] = on[u] /\ reply'[u] = reply[u]
  BY <1>1, <1>3 DEF TypeOK
<1>5. ~Service!Busy(t) /\ Calls' = [Calls EXCEPT ![t] = Service!Called(o, f)]
  BY <1>1, <1>4, CallBegins
<1>6. StillDue' = StillDue
  BY <1>1, DueStays
<1>7. closed' = [closed EXCEPT ![f] = (o = "close")]
  <2>1. CASE o = "close"
    BY <1>1, <2>1
  <2>2. CASE o = "use"
    <3>1. closed[f] = FALSE /\ (o = "close") = FALSE
      BY <1>1, <2>2 DEF TypeOK
    <3>2. closed = [closed EXCEPT ![f] = FALSE]
      BY <3>1 DEF TypeOK
    <3>3. QED
      BY <1>1, <2>2, <3>1, <3>2
  <2>3. QED
    BY <2>1, <2>2
<1>8. QED
  BY <1>1, <1>2, <1>5, <1>6, <1>7 DEF Service!BeginOnFile

\* Nothing is due once the thread has left its loop.
LEMMA NothingDue ==
    ASSUME thread # "running", thread' = thread
    PROVE  StillDue = {} /\ StillDue' = {}
BY DEF StillDue

\* A checked call on a file goes on, or ends because the session is over.
LEMMA SendCheckedRefines ==
    ASSUME TypeOK, CallShape, NEW t \in Task, SendChecked(t)
    PROVE  Service!Return(t) \/ UNCHANGED Service!vars
<1>1. /\ pc[t] = "checked" /\ op[t] \in FileOps /\ on[t] \in File /\ reply[t] = Pending
      /\ Send(t, op[t], fileId[on[t]], on[t])
      /\ thread' = thread /\ fileId' = fileId /\ backend' = backend
      /\ file' = file /\ closed' = closed
  BY DEF SendChecked, CallShape, Busy, threadVars, fileVars
<1>2. SessionState' = SessionState /\ OpenOnServer' = OpenOnServer
  BY CallerLeavesService DEF CallerNext, Proceed
<1>3. CASE ReceiverAlive
  <2>1. DEFINE c == [op |-> op[t], id |-> fileId[on[t]],
                     path |-> IF op[t] = "open" THEN on[t] ELSE None, by |-> t]
  <2>2. c \in Command /\ c.by # None
    BY <1>1, NoneAssumption DEF Command, TypeOK, Op
  <2>3. queue' = Append(queue, c) /\ pc' = [pc EXCEPT ![t] = "await"]
        /\ op' = [op EXCEPT ![t] = op[t]] /\ on' = [on EXCEPT ![t] = on[t]] /\ reply' = reply
    BY <1>1, <1>3 DEF Send
  <2> HIDE DEF c
  <2>4. StillDue' = StillDue
    BY <1>1, <2>2, <2>3, DueAwaited
  <2>5. \A u \in Task : /\ pc'[u] = "idle" <=> pc[u] = "idle"
                        /\ op'[u] = op[u] /\ on'[u] = on[u] /\ reply'[u] = reply[u]
    BY <1>1, <2>3 DEF TypeOK
  <2>6. Calls' = Calls
    BY <2>5, CallsStay DEF CallOf
  <2>7. QED
    BY <1>1, <1>2, <2>4, <2>6 DEF Service!vars
<1>4. CASE ~ReceiverAlive
  <2>1. thread = "exited" /\ Return(t) /\ queue' = queue
    BY <1>1, <1>4 DEF ReceiverAlive, Send
  <2>2. Service!Busy(t) /\ Calls' = [Calls EXCEPT ![t] = Service!NoCall]
    BY <1>1, <2>1, CallEnds
  <2>3. Calls[t].op # "open" /\ SessionState = "exited" /\ StillDue' = StillDue
    BY <1>1, <2>1, CallMeans, SessionMeans, NothingDue DEF FileOps
  <2>4. QED
    BY <1>1, <1>2, <2>2, <2>3 DEF Service!Return
<1>5. QED
  BY <1>3, <1>4

\* The ids an opened file may get stand for no close that is queued.
LEMMA ReceiveDue ==
    ASSUME TypeOK, CallShape, Waits, OwnIds, ClosedOnce, NEW t \in Task, Receive(t)
    PROVE  StillDue' = StillDue
<1>1. thread' = thread /\ queue' = queue /\ pc[t] = "await" /\ reply[t].st # "pending"
  BY DEF Receive, threadVars
<1>2. CASE op[t] # "open"
  BY <1>1, <1>2, DueStays DEF Receive, fileVars
<1>3. CASE op[t] = "open"
  <2>1. on[t] \in File /\ file[on[t]] = "opening" /\ fileId' = [fileId EXCEPT ![on[t]] = reply[t].id]
    BY <1>1, <1>3 DEF Receive, FileOpened, CallShape, Busy
  <2>2. fileId[on[t]] = 0
    BY <2>1 DEF OwnIds
  <2>3. reply[t].id = 0 \/ \A f \in File : fileId[f] # reply[t].id
    BY <1>1, <1>3 DEF Waits, Opened, OwnIds, Pending, Lost, Failed
  <2>4. ASSUME NEW i \in 1..Len(queue) PROVE Owes(queue[i], fileId') = Owes(queue[i], fileId)
    <3>1. CASE queue[i].op = "close"
      <4>1. PICK f \in File : fileId[f] = queue[i].id /\ fileId[f] # 0
        BY <3>1 DEF ClosedOnce
      <4>2. \A g \in File : fileId'[g] = queue[i].id <=> fileId[g] = queue[i].id
        BY <2>1, <2>2, <2>3, <4>1 DEF TypeOK
      <4>3. {g \in File : fileId'[g] = queue[i].id} = {g \in File : fileId[g] = queue[i].id}
        BY <4>2
      <4>4. QED
        BY <4>3 DEF Owes
    <3>2. CASE queue[i].op # "close"
      BY <3>2 DEF Owes
    <3>3. QED
      BY <3>1, <3>2
  <2>5. LateIn(queue, fileId') = LateIn(queue, fileId)
    BY <2>4 DEF LateIn
  <2>6. QED
    BY <1>1, <2>5, LateNow, LateNext DEF StillDue
<1>4. QED
  BY <1>2, <1>3

LEMMA ReceiveRefines ==
    ASSUME TypeOK, CallShape, Waits, OwnIds, ClosedOnce, NEW t \in Task, Receive(t)
    PROVE  Service!Return(t)
<1>1. /\ pc[t] = "await" /\ op[t] # "shutdown" /\ reply[t].st # "pending" /\ Return(t)
      /\ thread' = thread /\ backend' = backend /\ closed' = closed
      /\ file' = IF op[t] # "open" THEN file
                 ELSE [file EXCEPT ![on[t]] = IF reply[t].st = "ok" THEN "alive" ELSE "unborn"]
  BY DEF Receive, FileOpened, threadVars, fileVars
<1>2. SessionState' = SessionState /\ OpenOnServer' = OpenOnServer
  BY CallerLeavesService DEF CallerNext, Proceed
<1>3. StillDue' = StillDue
  BY ReceiveDue
<1>4. Service!Busy(t) /\ Calls' = [Calls EXCEPT ![t] = Service!NoCall]
  BY <1>1, CallEnds
<1>5. /\ Calls[t].op = op[t] /\ Calls[t].on = on[t] /\ (Calls[t].st = "ok" <=> reply[t].st = "ok")
      /\ reply[t].st # "lost" => Calls[t].st = reply[t].st
  BY <1>1, CallMeans
<1>6. reply[t].st = "lost" => SessionState = "exited"
  BY SessionMeans DEF Waits, Pending, Lost, Failed
<1>7. QED
  BY <1>1, <1>2, <1>3, <1>4, <1>5, <1>6 DEF Service!Return

\* That a shutdown has been answered its caller does not see.
LEMMA ShutdownAnsweredRefines ==
    ASSUME TypeOK, NEW t \in Task, ShutdownAnswered(t)
    PROVE  UNCHANGED Service!vars
<1>1. /\ pc[t] = "await" /\ pc' = [pc EXCEPT ![t] = "takejoin"]
      /\ op' = op /\ on' = on /\ reply' = reply
      /\ thread' = thread /\ queue' = queue /\ fileId' = fileId /\ backend' = backend
      /\ file' = file /\ closed' = closed
  BY DEF ShutdownAnswered, threadVars, fileVars
<1>2. SessionState' = SessionState /\ OpenOnServer' = OpenOnServer
  BY CallerLeavesService DEF CallerNext, Proceed
<1>3. \A u \in Task : pc'[u] = "idle" <=> pc[u] = "idle"
  BY <1>1 DEF TypeOK
<1>4. Calls' = Calls
  BY <1>1, <1>3, CallsStay DEF CallOf
<1>5. QED
  BY <1>1, <1>2, <1>4, DueStays DEF Service!vars

\* A shutdown that finds the handle taken returns, and one that joins the thread: the
\* session is over by then.
LEMMA ShutdownReturnsRefines ==
    ASSUME TypeOK, CallShape, OneMayJoin, NEW t \in Task, TakeJoin(t) \/ JoinReturns(t)
    PROVE  Service!Return(t) \/ UNCHANGED Service!vars
<1>1. /\ pc[t] \in {"takejoin", "joining"} /\ op[t] = "shutdown"
      /\ thread' = thread /\ queue' = queue /\ fileId' = fileId /\ backend' = backend
      /\ file' = file /\ closed' = closed
  BY DEF TakeJoin, JoinReturns, CallShape, threadVars, fileVars
<1>2. SessionState' = SessionState /\ OpenOnServer' = OpenOnServer
  BY CallerLeavesService DEF CallerNext, Proceed
<1>3. StillDue' = StillDue
  BY <1>1, DueStays
<1>4. CASE pc' = [pc EXCEPT ![t] = "joining"] /\ op' = op /\ on' = on /\ reply' = reply
  <2>1. \A u \in Task : pc'[u] = "idle" <=> pc[u] = "idle"
    BY <1>1, <1>4 DEF TypeOK
  <2>2. Calls' = Calls
    BY <1>4, <2>1, CallsStay DEF CallOf
  <2>3. QED
    BY <1>1, <1>2, <1>3, <2>2 DEF Service!vars
<1>5. CASE Return(t) /\ thread = "exited"
  <2>1. Service!Busy(t) /\ Calls' = [Calls EXCEPT ![t] = Service!NoCall]
    BY <1>1, <1>5, CallEnds
  <2>2. Calls[t].op = "shutdown" /\ SessionState = "exited"
    BY <1>1, <1>5, CallMeans, SessionMeans
  <2>3. QED
    BY <1>1, <1>2, <1>3, <2>1, <2>2 DEF Service!Return
<1>6. TakeJoin(t) /\ join # "held" => thread = "exited"
  BY DEF TakeJoin, OneMayJoin, MayJoin
<1>7. QED
  BY <1>4, <1>5, <1>6 DEF TakeJoin, JoinReturns

\* What nobody waits for any more is due from then on, if the thread has yet to do it.
LEMMA AbandonDue ==
    ASSUME IInv, RInv, NEW t \in Task, Abandon(t), thread = "running"
    PROVE  StillDue' = IF reply[t] = Pending /\ op[t] \in {"open", "close", "shutdown"}
                       THEN StillDue \cup {[op |-> op[t], on |-> on[t]]} ELSE StillDue
<1> USE DEF IInv, RInv
<1>1. /\ thread' = thread /\ fileId' = fileId /\ queue \in Seq(Command)
      /\ queue' = [i \in 1..Len(queue) |->
                      IF queue[i].by = t THEN [queue[i] EXCEPT !.by = None] ELSE queue[i]]
  BY DEF Abandon, threadVars, TypeOK
<1>2. pc[t] = "await"
  BY DEF Abandon, Waits, OneMayJoin, TypeOK
<1>3. StillDue = LateIn(queue, fileId) /\ StillDue' = LateIn(queue', fileId)
  BY <1>1, LateNow, LateNext DEF StillDue
<1>4. CASE reply[t] # Pending
  <2>1. \A i \in 1..Len(queue) : queue[i].by # t
    BY <1>4, NoCommandOf
  <2>2. queue' = queue
    BY <1>1, <2>1, LateNotGivenUp
  <2>3. QED
    BY <1>3, <1>4, <2>2
<1>5. CASE reply[t] = Pending
  <2>1. PICK i \in 1..Len(queue) : queue[i].by = t
    BY <1>2, <1>5 DEF Waits
  <2>2. queue[i].by # None
    BY <2>1, NoneAssumption
  <2>3. /\ queue[i].op = op[t] /\ queue[i] \in Command
        /\ op[t] \in FileOps => queue[i].id = fileId[on[t]]
        /\ op[t] = "open" => queue[i].path = on[t]
        /\ \A j \in 1..Len(queue) : queue[j].by = t => j = i
    BY <1>1, <2>1, <2>2 DEF QueueShape
  <2> DEFINE c == [queue[i] EXCEPT !.by = None]
  <2>4. c.by = None /\ c.op = op[t] /\ c.id = queue[i].id /\ c.path = queue[i].path
    BY <2>3 DEF Command
  <2>5. LateIn(queue', fileId) = LateIn(queue, fileId) \cup Owes(c, fileId)
    BY <1>1, <2>1, <2>3, LateGivenUp
  <2> HIDE DEF c
  <2>6. CASE op[t] = "open"
    BY <1>3, <1>5, <2>3, <2>4, <2>5, <2>6 DEF Owes
  <2>7. CASE op[t] = "shutdown"
    <3>1. on[t] = None
      BY <2>7 DEF OnBackend
    <3>2. QED
      BY <1>3, <1>5, <2>4, <2>5, <2>7, <3>1 DEF Owes
  <2>8. CASE op[t] = "close"
    <3>1. on[t] \in File /\ file[on[t]] = "alive" /\ fileId[on[t]] = c.id
      BY <1>2, <2>3, <2>4, <2>8 DEF CallShape, Busy, FileOps
    <3>2. fileId[on[t]] # 0
      BY <3>1 DEF IdsStandForOneOpen
    <3>3. \A g \in File : fileId[g] = c.id => g = on[t]
      BY <3>1, <3>2 DEF OwnIds
    <3>4. Owes(c, fileId) = {[op |-> "close", on |-> on[t]]}
      BY <2>4, <2>8, <3>1, <3>3, OwesClose
    <3>5. QED
      BY <1>3, <1>5, <2>5, <2>8, <3>4
  <2>9. CASE op[t] \in {"path", "use"}
    <3>1. Owes(c, fileId) = {}
      BY <2>4, <2>9, OwesNothing
    <3>2. QED
      BY <1>3, <2>5, <2>9, <3>1
  <2>10. QED
    BY <2>6, <2>7, <2>8, <2>9 DEF TypeOK, Op
<1>6. QED
  BY <1>4, <1>5

LEMMA AbandonRefines ==
    ASSUME IInv, RInv, NEW t \in Task, Abandon(t)
    PROVE  Service!Abandon(t)
<1> USE DEF IInv, RInv
<1>1. /\ pc[t] \in {"await", "joining"} /\ Return(t)
      /\ thread' = thread /\ backend' = backend /\ closed' = closed
      /\ file' = IF op[t] # "open" THEN file ELSE [file EXCEPT ![on[t]] = "abandoned"]
  BY DEF Abandon, threadVars
<1>2. SessionState' = SessionState /\ OpenOnServer' = OpenOnServer
  BY CallerLeavesService DEF CallerNext
<1>3. Service!Busy(t) /\ Calls' = [Calls EXCEPT ![t] = Service!NoCall]
  BY <1>1, CallEnds
<1>4. /\ Calls[t].op = op[t] /\ Calls[t].on = on[t]
      /\ Calls[t].st = IF reply[t].st = "lost" THEN "pending" ELSE reply[t].st
  BY <1>1, CallMeans
<1>5. SessionState = "running" <=> thread = "running"
  BY SessionMeans
<1>6. StillDue' = IF /\ SessionState = "running" /\ Calls[t].st = "pending"
                     /\ Calls[t].op \in {"open", "close", "shutdown"}
                  THEN StillDue \cup {Service!Late(Calls[t].op, Calls[t].on)} ELSE StillDue
  <2>1. CASE thread = "running"
    <3>1. Calls[t].st = "pending" <=> reply[t] = Pending
      BY <1>4, <2>1 DEF Waits, Pending, Lost, Failed
    <3>2. QED
      BY <1>4, <1>5, <2>1, <3>1, AbandonDue DEF Service!Late
  <2>2. CASE thread # "running"
    BY <1>1, <1>5, <2>2, NothingDue
  <2>3. QED
    BY <2>1, <2>2
<1>7. QED
  BY <1>1, <1>2, <1>3, <1>4, <1>6 DEF Service!Abandon

\* A file dropped with its flag clear is a close that is due.
LEMMA DropFileRefines ==
    ASSUME IInv, RInv, NEW f \in File, DropFile(f)
    PROVE  Service!DropFile(f)
<1> USE DEF IInv, RInv
<1>1. /\ file[f] = "alive" /\ file' = [file EXCEPT ![f] = "dropped"]
      /\ closed' = [closed EXCEPT ![f] = TRUE]
      /\ thread' = thread /\ fileId' = fileId /\ backend' = backend
      /\ pc' = pc /\ op' = op /\ on' = on /\ reply' = reply
  BY DEF DropFile, threadVars, taskVars
<1>2. SessionState' = SessionState /\ OpenOnServer' = OpenOnServer
  BY CallerLeavesService DEF CallerNext
<1>3. Calls' = Calls
  BY <1>1, CallStays, CallsStay
<1>4. ~Service!InUse(f)
  <2>1. ASSUME NEW t \in Task, Calls[t].op \in {"use", "close"}, Calls[t].on = f
        PROVE  FALSE
    <3>1. pc[t] # "idle"
      BY <2>1, CallMeans DEF Service!NoCall
    <3>2. UsesFile(t, f)
      BY <2>1, <3>1, CallMeans DEF UsesFile, Busy, FileOps
    <3>3. QED
      BY <3>2 DEF DropFile
  <2>2. QED
    BY <2>1 DEF Service!InUse
<1>5. SessionState = "running" <=> thread = "running"
  BY SessionMeans
<1>6. StillDue' = IF SessionState = "running" /\ ~closed[f]
                  THEN StillDue \cup {Service!Late("close", f)} ELSE StillDue
  <2>1. CASE thread = "running" /\ ~closed[f]
    <3>1. DEFINE c == [op |-> "close", id |-> fileId[f], path |-> None, by |-> None]
    <3>2. queue' = Append(queue, c)
      BY <2>1 DEF DropFile, ReceiverAlive
    <3>3. c \in Command
      BY DEF TypeOK, Command, Op
    <3>4. c.by = None /\ c.op = "close" /\ fileId[f] = c.id
      OBVIOUS
    <3> HIDE DEF c
    <3>5. fileId[f] # 0
      BY <1>1 DEF IdsStandForOneOpen
    <3>6. \A g \in File : fileId[g] = c.id => g = f
      BY <3>4, <3>5 DEF OwnIds
    <3>7. Owes(c, fileId) = {[op |-> "close", on |-> f]}
      BY <3>4, <3>6, OwesClose
    <3>8. StillDue' = StillDue \cup Owes(c, fileId)
      BY <1>1, <2>1, <3>2, <3>3, DueAppend
    <3>9. QED
      BY <1>5, <2>1, <3>7, <3>8 DEF Service!Late
  <2>2. CASE thread = "running" /\ closed[f]
    BY <1>1, <2>2, DueStays DEF DropFile
  <2>3. CASE thread # "running"
    BY <1>1, <1>5, <2>3, NothingDue
  <2>4. QED
    BY <2>1, <2>2, <2>3
<1>7. QED
  BY <1>1, <1>2, <1>3, <1>4, <1>6 DEF Service!DropFile

-----------------------------------------------------------------------------
(* The steps of the thread *)

\* Opening adds the file to what is open on the server, closing takes it away.
LEMMA ServerOpens ==
    ASSUME TypeOK, NEW h \in Fh, NEW f \in File,
           serves[h] = None, serves' = [serves EXCEPT ![h] = f]
    PROVE  OpenOnServer' = OpenOnServer \cup {f}
<1>1. f # None
  BY NoneAssumption
<1>2. \A k \in Fh : serves'[k] = IF k = h THEN f ELSE serves[k]
  BY DEF TypeOK
<1>3. QED
  BY <1>1, <1>2 DEF OpenOnServer

LEMMA ServerCloses ==
    ASSUME TypeOK, TableMatchesServer, OpenedOnce, NEW id \in DOMAIN handles, CloseHandle(id)
    PROVE  /\ serves[handles[id]] \in File /\ serves[handles[id]] \in OpenOnServer
           /\ OpenOnServer' = OpenOnServer \ {serves[handles[id]]}
<1>1. /\ handles[id] \in Fh
      /\ \A h \in Fh : serves'[h] = IF h = handles[id] THEN None ELSE serves[h]
  BY CloseType
<1>2. serves[handles[id]] \in File /\ serves[handles[id]] # None
  BY <1>1 DEF TableMatchesServer, TypeOK
<1>3. \A h \in Fh : serves[h] = serves[handles[id]] => h = handles[id]
  BY <1>1, <1>2 DEF OpenedOnce
<1>4. QED
  BY <1>1, <1>2, <1>3 DEF OpenOnServer

\* What is due before a command is executed, and after it.
LEMMA ExecDue ==
    ASSUME TypeOK, QueueShape, NEW c \in Command, NEW o \in Op, NEW r \in Reply, Executes(c, o, r)
    PROVE  /\ StillDue = Owes(c, fileId) \cup LateIn(queue', fileId)
           /\ o # "shutdown" => StillDue' = LateIn(queue', fileId)
           /\ o = "shutdown" => StillDue' = {}
<1>1. /\ thread = "running" /\ queue # <<>> /\ c = Head(queue) /\ queue' = Tail(queue)
      /\ fileId' = fileId /\ thread' = IF o = "shutdown" THEN "closing" ELSE thread
  BY DEF Executes, Recv
<1>2. LateIn(queue, fileId) = Owes(c, fileId) \cup LateIn(queue', fileId)
  BY <1>1, LateTail DEF TypeOK
<1>3. QED
  BY <1>1, <1>2, LateNow, LateNext DEF StillDue

\* An awaited command, or one that changes nothing, leaves what is due as it is.
LEMMA ExecDueStays ==
    ASSUME TypeOK, QueueShape, NEW c \in Command, NEW o \in Op, NEW r \in Reply,
           Executes(c, o, r), o # "shutdown", c.by # None \/ o \in {"path", "use"}
    PROVE  StillDue' = StillDue
<1>1. c.op = o
  BY DEF Executes, Recv
<1>2. Owes(c, fileId) = {}
  BY <1>1, OwesNothing
<1>3. QED
  BY <1>2, ExecDue

\* What is done is not due once more: no other command owes it.
LEMMA ExecDueDone ==
    ASSUME TypeOK, QueueShape, OwnIds, OpenedOnce, ClosedOnce,
           NEW c \in Command, NEW o \in Op, NEW r \in Reply,
           Executes(c, o, r), o \in {"open", "close"}, NEW x, Owes(c, fileId) = {x}
    PROVE  x \in StillDue /\ StillDue' = StillDue \ {x}
<1>1. /\ c.op = o /\ 1 \in 1..Len(queue) /\ c = queue[1]
  BY RecvFacts DEF Executes
<1>2. \A i \in 1..Len(queue') : i + 1 \in 1..Len(queue) /\ i + 1 # 1 /\ queue'[i] = queue[i + 1]
  BY Executed
<1>3. x \notin LateIn(queue', fileId)
  <2>1. SUFFICES ASSUME NEW i \in 1..Len(queue'), x \in Owes(queue'[i], fileId) PROVE FALSE
    BY DEF LateIn
  <2>2. x \in Owes(c, fileId)
    OBVIOUS
  <2>3. CASE o = "open"
    <3>1. x = [op |-> "open", on |-> c.path]
      BY <1>1, <2>2, <2>3 DEF Owes
    <3>2. x.op = "open" /\ x.on = c.path
      BY <3>1
    <3>3. queue'[i].op = "open" /\ queue'[i].path = x.on
      BY <2>1, <3>2 DEF Owes
    <3>4. QED
      BY <1>1, <1>2, <2>3, <3>2, <3>3 DEF OpenedOnce
  <2>4. CASE o = "close"
    <3>1. PICK f \in File : x = [op |-> "close", on |-> f] /\ fileId[f] = c.id
      BY <1>1, <2>2, <2>4 DEF Owes
    <3>2. x.op = "close" /\ x.on = f
      BY <3>1
    <3>3. queue'[i].op = "close" /\ queue'[i].id = fileId[f]
      BY <2>1, <3>2 DEF Owes
    <3>4. QED
      BY <1>1, <1>2, <2>4, <3>1, <3>3 DEF ClosedOnce
  <2>5. QED
    BY <2>3, <2>4
<1>4. QED
  BY <1>3, ExecDue

LEMMA ThreadConnectsRefines == TypeOK /\ Starts /\ ThreadConnects => Service!Connect
<1> SUFFICES ASSUME TypeOK, Starts, ThreadConnects PROVE Service!Connect
  OBVIOUS
<1>1. /\ thread = "connecting" /\ thread' \in {"running", "exited"} /\ queue = <<>>
      /\ queue' = queue /\ fileId' = fileId /\ serves' = serves
      /\ backend' = backend /\ file' = file /\ closed' = closed
      /\ pc' = pc /\ op' = op /\ on' = on /\ reply' = reply
  BY DEF ThreadConnects, Starts, Unused, fileVars, taskVars
<1>2. LateIn(queue', fileId') = {}
  BY <1>1 DEF LateIn
<1>3. StillDue' = StillDue
  BY <1>1, <1>2, LateNext DEF StillDue
<1>4. SessionState = "connecting" /\ SessionState' \in {"running", "exited"} /\ OpenOnServer' = OpenOnServer
  BY <1>1 DEF SessionState, OpenOnServer
<1>5. Calls' = Calls
  BY <1>1, CallStays, CallsStay
<1>6. QED
  BY <1>1, <1>3, <1>4, <1>5 DEF Service!Connect

LEMMA DisconnectedRefines == TypeOK /\ Disconnected => Service!EndUnused
<1> SUFFICES ASSUME TypeOK, Disconnected PROVE Service!EndUnused
  OBVIOUS
<1>1. /\ thread = "running" /\ thread' = "closing" /\ queue = <<>>
      /\ backend \in {"failed", "dropped"} /\ \A f \in File : file[f] # "alive"
      /\ serves' = serves /\ backend' = backend /\ file' = file /\ closed' = closed
      /\ pc' = pc /\ op' = op /\ on' = on /\ reply' = reply
  BY DEF Disconnected, SendersAlive, TypeOK, fileVars, taskVars
<1>2. LateIn(queue, fileId) = {}
  BY <1>1 DEF LateIn
<1>3. StillDue = {} /\ StillDue' = {}
  BY <1>1, <1>2, LateNow DEF StillDue
<1>4. SessionState = "running" /\ SessionState' = "closing" /\ OpenOnServer' = OpenOnServer
  BY <1>1 DEF SessionState, OpenOnServer
<1>5. Calls' = Calls
  BY <1>1, CallStays, CallsStay
<1>6. QED
  BY <1>1, <1>3, <1>4, <1>5 DEF Service!EndUnused

LEMMA CloseAllRefines ==
    TypeOK /\ TableMatchesServer /\ OpenedOnce /\ CloseAllStep => \E f \in File : Service!CloseRest(f)
<1> SUFFICES ASSUME TypeOK, TableMatchesServer, OpenedOnce, CloseAllStep
             PROVE  \E f \in File : Service!CloseRest(f)
  OBVIOUS
<1>1. PICK id \in DOMAIN handles : CloseHandle(id)
  BY DEF CloseAllStep
<1>2. /\ thread = "closing" /\ thread' = thread
      /\ backend' = backend /\ file' = file /\ closed' = closed
      /\ pc' = pc /\ op' = op /\ on' = on /\ reply' = reply
  BY DEF CloseAllStep, fileVars, taskVars
<1>3. /\ serves[handles[id]] \in File /\ serves[handles[id]] \in OpenOnServer
      /\ OpenOnServer' = OpenOnServer \ {serves[handles[id]]}
  BY <1>1, ServerCloses
<1>4. SessionState = "closing" /\ SessionState' = SessionState /\ StillDue' = StillDue
  BY <1>2, NothingDue DEF SessionState
<1>5. Calls' = Calls
  BY <1>2, CallStays, CallsStay
<1>6. Service!CloseRest(serves[handles[id]])
  BY <1>2, <1>3, <1>4, <1>5 DEF Service!CloseRest
<1>7. QED
  BY <1>3, <1>6

LEMMA DestroyContextRefines == DestroyContext => UNCHANGED Service!vars
<1> SUFFICES ASSUME DestroyContext PROVE UNCHANGED Service!vars
  OBVIOUS
<1>1. /\ thread = "closing" /\ thread' = "destroyed" /\ serves' = serves
      /\ backend' = backend /\ file' = file /\ closed' = closed
      /\ pc' = pc /\ op' = op /\ on' = on /\ reply' = reply
  BY DEF DestroyContext, fileVars, taskVars
<1>2. SessionState' = SessionState /\ OpenOnServer' = OpenOnServer /\ StillDue' = StillDue
  BY <1>1 DEF SessionState, OpenOnServer, StillDue
<1>3. Calls' = Calls
  BY <1>1, CallStays, CallsStay
<1>4. QED
  BY <1>1, <1>2, <1>3 DEF Service!vars

\* The calls that were queued have lost their answer, which nobody sees yet.
LEMMA ThreadExitsRefines ==
    TypeOK /\ QueueShape /\ TableMatchesServer /\ TableEmptyOutsideSession /\ ThreadExits => Service!Exit
<1> SUFFICES ASSUME TypeOK, QueueShape, TableMatchesServer, TableEmptyOutsideSession, ThreadExits
             PROVE  Service!Exit
  OBVIOUS
<1>1. /\ thread = "destroyed" /\ thread' = "exited" /\ serves' = serves
      /\ backend' = backend /\ file' = file /\ closed' = closed
      /\ pc' = pc /\ op' = op /\ on' = on
      /\ reply' = [t \in Task |-> IF \E i \in 1..Len(queue) : queue[i].by = t
                                  THEN Lost ELSE reply[t]]
  BY DEF ThreadExits, fileVars, taskVars
<1>2. OpenOnServer = {} /\ OpenOnServer' = OpenOnServer
  BY <1>1 DEF OpenOnServer, TableMatchesServer, TableEmptyOutsideSession, ContextLive
<1>3. SessionState = "closing" /\ SessionState' = "exited" /\ StillDue' = StillDue
  BY <1>1 DEF SessionState, StillDue
<1>4. ASSUME NEW u \in Task PROVE CallOf(u)' = CallOf(u)
  <2>1. CASE \E i \in 1..Len(queue) : queue[i].by = u
    <3>1. reply[u] = Pending /\ reply'[u] = Lost
      BY <1>1, <2>1, NoneAssumption DEF QueueShape
    <3>2. QED
      BY <1>1, <3>1 DEF CallOf, Pending, Lost
  <2>2. CASE ~\E i \in 1..Len(queue) : queue[i].by = u
    BY <1>1, <2>2, CallStays
  <2>3. QED
    BY <2>1, <2>2
<1>5. Calls' = Calls
  BY <1>4, CallsStay
<1>6. QED
  BY <1>1, <1>2, <1>3, <1>5 DEF Service!Exit

\* A path operation: its answer, or nothing that anybody sees.
LEMMA ExecPathRefines ==
    ASSUME TypeOK, QueueShape, NEW c \in Command, ExecPath(c)
    PROVE  (\E t \in Task : Service!Path(t)) \/ UNCHANGED Service!vars
<1>1. PICK r \in {Ok(0, None), Failed} : Answer(c, r)
  BY DEF ExecPath
<1>2. r \in Reply /\ (r = Failed \/ r.st = "ok") /\ r.from = None /\ r.st \in {"ok", "err"}
  BY <1>1, ReplyValues DEF Ok, Failed
<1>3. Executes(c, "path", r) /\ "path" \in Op
  BY <1>1, <1>2 DEF ExecPath, Executes, threadVars, fileVars, taskVars, Op
<1>4. /\ thread = "running" /\ thread' = thread /\ serves' = serves
      /\ backend' = backend /\ file' = file /\ closed' = closed
  BY DEF ExecPath, Recv, threadVars, fileVars
<1>5. SessionState = "running" /\ SessionState' = SessionState /\ OpenOnServer' = OpenOnServer
  BY <1>4 DEF SessionState, OpenOnServer
<1>6. StillDue' = StillDue
  BY <1>2, <1>3, ExecDueStays
<1>7. CASE c.by # None
  <2>1. c.by \in Task /\ Service!Pending(c.by, "path") /\ Service!Answer(c.by, r.st, r.from)
    BY <1>2, <1>3, <1>7, CallAnswered
  <2>2. Service!Path(c.by)
    BY <1>2, <1>4, <1>5, <1>6, <2>1 DEF Service!Path
  <2>3. QED
    BY <2>1, <2>2
<1>8. CASE c.by = None
  <2>1. Calls' = Calls
    BY <1>2, <1>3, <1>8, NobodyAnswered
  <2>2. QED
    BY <1>4, <1>5, <1>6, <2>1 DEF Service!vars
<1>9. QED
  BY <1>7, <1>8

\* A file operation: an answer from the call's own file, or an error.
LEMMA ExecUseRefines ==
    ASSUME TypeOK, CallShape, QueueShape, IdsStandForOneOpen, NEW c \in Command, ExecUse(c)
    PROVE  (\E t \in Task : Service!Use(t)) \/ UNCHANGED Service!vars
<1>1. PICK r \in Reply :
         /\ Answer(c, r)
         /\ \/ r = Failed
            \/ c.id \in DOMAIN handles /\ r.st = "ok" /\ r.from = serves[handles[c.id]]
  <2>1. CASE Answer(c, Failed)
    BY <2>1, ReplyValues
  <2>2. CASE c.id \in DOMAIN handles /\ Answer(c, Ok(0, serves[handles[c.id]]))
    <3>1. serves[handles[c.id]] \in File \cup {None}
      BY <2>2 DEF TypeOK
    <3>2. Ok(0, serves[handles[c.id]]) \in Reply
      BY <3>1, ReplyValues
    <3>3. /\ Ok(0, serves[handles[c.id]]).st = "ok"
          /\ Ok(0, serves[handles[c.id]]).from = serves[handles[c.id]]
      BY DEF Ok
    <3>4. QED
      BY <2>2, <3>2, <3>3
  <2>3. QED
    BY <2>1, <2>2 DEF ExecUse
<1>2. Executes(c, "use", r) /\ "use" \in Op /\ c.op = "use"
  BY <1>1 DEF ExecUse, Executes, Recv, threadVars, fileVars, taskVars, Op
<1>3. /\ thread = "running" /\ thread' = thread /\ serves' = serves
      /\ backend' = backend /\ file' = file /\ closed' = closed
  BY DEF ExecUse, Recv, threadVars, fileVars
<1>4. SessionState = "running" /\ SessionState' = SessionState /\ OpenOnServer' = OpenOnServer
  BY <1>3 DEF SessionState, OpenOnServer
<1>5. StillDue' = StillDue
  BY <1>2, ExecDueStays
<1>6. CASE c.by # None
  <2>1. /\ c.by \in Task /\ Service!Pending(c.by, "use") /\ Calls[c.by].on = on[c.by]
        /\ Service!Answer(c.by, r.st, r.from)
    BY <1>2, <1>6, CallAnswered
  <2>2. /\ pc[c.by] = "await" /\ op[c.by] = "use" /\ c.id = fileId[on[c.by]]
    BY <1>2, <1>6, RecvFacts DEF Executes, FileOps
  <2>3. on[c.by] \in File /\ file[on[c.by]] = "alive"
    BY <2>1, <2>2 DEF CallShape, Busy, FileOps
  <2>4. CASE r = Failed
    <3>1. r.st = "err" /\ r.from = None
      BY <2>4 DEF Failed
    <3>2. QED
      BY <1>3, <1>4, <1>5, <2>1, <3>1 DEF Service!Use
  <2>5. CASE c.id \in DOMAIN handles /\ r.st = "ok" /\ r.from = serves[handles[c.id]]
    <3>1. handles[c.id] \in Fh /\ serves[handles[c.id]] = on[c.by]
      BY <2>2, <2>3, <2>5 DEF IdsStandForOneOpen, TypeOK
    <3>2. on[c.by] \in OpenOnServer
      BY <2>3, <3>1, NoneAssumption DEF OpenOnServer
    <3>3. QED
      BY <1>3, <1>4, <1>5, <2>1, <2>5, <3>1, <3>2 DEF Service!Use
  <2>6. QED
    BY <1>1, <2>4, <2>5
<1>7. CASE c.by = None
  <2>1. Calls' = Calls
    BY <1>2, <1>7, NobodyAnswered
  <2>2. QED
    BY <1>3, <1>4, <1>5, <2>1 DEF Service!vars
<1>8. QED
  BY <1>6, <1>7

\* An open: now for its caller, or late.
LEMMA ExecOpenRefines ==
    ASSUME IInv, RInv, NEW c \in Command, ExecOpen(c) \/ ExecOpenFails(c)
    PROVE  (\E t \in Task : Service!Open(t)) \/ (\E f \in File : Service!LateOpen(f))
<1> USE DEF IInv, RInv
<1>1. Recv(c, "open")
  BY DEF ExecOpen, ExecOpenFails
<1>2. c.op = "open" /\ c.path \in File /\ thread = "running"
  BY <1>1, RecvFacts
<1>3. PICK r \in Reply :
         /\ Executes(c, "open", r)
         /\ \/ r.st = "ok" /\ r.from = c.path /\ OpenOnServer' = OpenOnServer \cup {c.path}
            \/ r.st = "err" /\ r.from = None /\ OpenOnServer' = OpenOnServer
  <2>1. CASE ExecOpen(c)
    <3>1. PICK h \in Fh : serves[h] = None /\ serves' = [serves EXCEPT ![h] = c.path]
      BY <2>1 DEF ExecOpen
    <3>2. nextId' \in Nat
      BY <2>1 DEF ExecOpen, Insert, TypeOK
    <3>3. DEFINE r == Ok(nextId', c.path)
    <3>4. r \in Reply
      BY <1>2, <3>2, ReplyValues
    <3>5. r.st = "ok" /\ r.from = c.path
      BY DEF Ok
    <3>6. Answer(c, r)
      BY <2>1 DEF ExecOpen
    <3> HIDE DEF r
    <3>7. Executes(c, "open", r)
      BY <2>1, <3>5, <3>6 DEF ExecOpen, Executes, fileVars, taskVars
    <3>8. OpenOnServer' = OpenOnServer \cup {c.path}
      BY <1>2, <3>1, ServerOpens
    <3>9. QED
      BY <3>4, <3>5, <3>7, <3>8
  <2>2. CASE ExecOpenFails(c)
    <3>1. Executes(c, "open", Failed)
      BY <2>2 DEF ExecOpenFails, Executes, threadVars, fileVars, taskVars
    <3>2. Failed.st = "err" /\ Failed.from = None /\ Failed \in Reply
      BY ReplyValues DEF Failed
    <3>3. OpenOnServer' = OpenOnServer
      BY <2>2 DEF ExecOpenFails, OpenOnServer, threadVars
    <3>4. QED
      BY <3>1, <3>2, <3>3
  <2>3. QED
    BY <2>1, <2>2
<1>4. thread' = thread /\ backend' = backend /\ file' = file /\ closed' = closed /\ "open" \in Op
  BY <1>3 DEF Executes, Op
<1>5. SessionState = "running" /\ SessionState' = SessionState
  BY <1>2, <1>4 DEF SessionState
<1>6. CASE c.by # None
  <2>1. /\ c.by \in Task /\ Service!Pending(c.by, "open") /\ Calls[c.by].on = on[c.by]
        /\ Service!Answer(c.by, r.st, r.from)
    BY <1>3, <1>4, <1>6, CallAnswered
  <2>2. c.path = on[c.by]
    BY <1>1, <1>6, RecvFacts
  <2>3. StillDue' = StillDue
    BY <1>3, <1>4, <1>6, ExecDueStays
  <2>4. Service!Open(c.by)
    BY <1>3, <1>4, <1>5, <2>1, <2>2, <2>3 DEF Service!Open
  <2>5. QED
    BY <2>1, <2>4
<1>7. CASE c.by = None
  <2>1. Calls' = Calls
    BY <1>3, <1>4, <1>7, NobodyAnswered
  <2>2. Owes(c, fileId) = {Service!Late("open", c.path)}
    BY <1>2, <1>7 DEF Owes, Service!Late
  <2>3. /\ Service!Late("open", c.path) \in StillDue
        /\ StillDue' = StillDue \ {Service!Late("open", c.path)}
    BY <1>3, <1>4, <2>2, ExecDueDone
  <2>4. Service!LateOpen(c.path)
    BY <1>3, <1>4, <1>5, <2>1, <2>3 DEF Service!LateOpen
  <2>5. QED
    BY <1>2, <2>4
<1>8. QED
  BY <1>6, <1>7

\* A close: it finds its handle, which is that of the call's own file.
LEMMA ExecCloseRefines ==
    ASSUME IInv, RInv, NEW c \in Command, ExecClose(c)
    PROVE  (\E t \in Task : Service!Close(t)) \/ (\E f \in File : Service!LateClose(f))
<1> USE DEF IInv, RInv
<1>1. Recv(c, "close")
  BY DEF ExecClose
<1>2. c.op = "close" /\ thread = "running" /\ 1 \in 1..Len(queue) /\ c = queue[1]
  BY <1>1, RecvFacts
<1>3. c.id \in DOMAIN handles
  BY <1>2 DEF ClosesFind
<1>4. PICK f \in File : fileId[f] = c.id /\ fileId[f] # 0
  BY <1>2 DEF ClosedOnce
<1>5. serves[handles[c.id]] = f /\ \A g \in File : fileId[g] = c.id => g = f
  BY <1>3, <1>4 DEF OwnIds
<1>6. f \in OpenOnServer /\ OpenOnServer' = OpenOnServer \ {f}
  BY <1>3, <1>5, ServerCloses DEF ExecClose
<1>7. PICK r \in Reply : Executes(c, "close", r) /\ r.st \in {"ok", "err"} /\ r.from = None
  <2>1. PICK r \in {Ok(0, None), Failed} : Answer(c, r)
    BY <1>3 DEF ExecClose
  <2>2. r \in Reply /\ (r = Failed \/ r.st = "ok") /\ r.from = None /\ r.st \in {"ok", "err"}
    BY <2>1, ReplyValues DEF Ok, Failed
  <2>3. Executes(c, "close", r)
    BY <2>1, <2>2 DEF ExecClose, Executes, fileVars, taskVars
  <2>4. QED
    BY <2>2, <2>3
<1>8. thread' = thread /\ backend' = backend /\ file' = file /\ closed' = closed /\ "close" \in Op
  BY <1>7 DEF Executes, Op
<1>9. SessionState = "running" /\ SessionState' = SessionState
  BY <1>2, <1>8 DEF SessionState
<1>10. CASE c.by # None
  <2>1. /\ c.by \in Task /\ Service!Pending(c.by, "close") /\ Calls[c.by].on = on[c.by]
        /\ Service!Answer(c.by, r.st, r.from)
    BY <1>7, <1>8, <1>10, CallAnswered
  <2>2. pc[c.by] = "await" /\ op[c.by] = "close" /\ c.id = fileId[on[c.by]]
    BY <1>1, <1>10, RecvFacts DEF FileOps
  <2>3. on[c.by] = f
    BY <1>5, <2>1, <2>2 DEF CallShape, Busy, FileOps
  <2>4. StillDue' = StillDue
    BY <1>7, <1>8, <1>10, ExecDueStays
  <2>5. Service!Close(c.by)
    BY <1>6, <1>7, <1>8, <1>9, <2>1, <2>3, <2>4 DEF Service!Close
  <2>6. QED
    BY <2>1, <2>5
<1>11. CASE c.by = None
  <2>1. Calls' = Calls
    BY <1>7, <1>8, <1>11, NobodyAnswered
  <2>2. Owes(c, fileId) = {Service!Late("close", f)}
    BY <1>2, <1>4, <1>5, <1>11, OwesClose DEF Service!Late
  <2>3. Service!Late("close", f) \in StillDue /\ StillDue' = StillDue \ {Service!Late("close", f)}
    BY <1>7, <1>8, <2>2, ExecDueDone
  <2>4. Service!LateClose(f)
    BY <1>6, <1>8, <1>9, <2>1, <2>3 DEF Service!LateClose
  <2>5. QED
    BY <2>4
<1>12. QED
  BY <1>10, <1>11

\* A shutdown: what is still queued is given up with it.
LEMMA ExecShutdownRefines ==
    ASSUME TypeOK, QueueShape, NEW c \in Command, ExecShutdown(c)
    PROVE  (\E t \in Task : Service!Shutdown(t)) \/ Service!LateShutdown
<1>1. Recv(c, "shutdown") /\ Answer(c, Ok(0, None)) /\ thread' = "closing"
      /\ serves' = serves /\ backend' = backend /\ file' = file /\ closed' = closed
  BY DEF ExecShutdown, fileVars
<1>2. c.op = "shutdown" /\ thread = "running"
  BY <1>1 DEF Recv
<1>3. PICK r \in Reply : Executes(c, "shutdown", r) /\ r.st = "ok" /\ r.from = None
  <2>1. Ok(0, None) \in Reply /\ Ok(0, None).st = "ok" /\ Ok(0, None).from = None
    BY ReplyValues DEF Ok
  <2>2. Executes(c, "shutdown", Ok(0, None))
    BY <1>1, <2>1 DEF ExecShutdown, Executes, fileVars, taskVars
  <2>3. QED
    BY <2>1, <2>2
<1>4. SessionState = "running" /\ SessionState' = "closing" /\ OpenOnServer' = OpenOnServer
  BY <1>1, <1>2 DEF SessionState, OpenOnServer
<1>5. "shutdown" \in Op
  BY DEF Op
<1>6. StillDue' = {}
  BY <1>3, <1>5, ExecDue
<1>7. CASE c.by # None
  <2>1. c.by \in Task /\ Service!Pending(c.by, "shutdown") /\ Service!Answer(c.by, r.st, r.from)
    BY <1>3, <1>5, <1>7, CallAnswered
  <2>2. Service!Shutdown(c.by)
    BY <1>1, <1>3, <1>4, <1>6, <2>1 DEF Service!Shutdown
  <2>3. QED
    BY <2>1, <2>2
<1>8. CASE c.by = None
  <2>1. Calls' = Calls
    BY <1>3, <1>5, <1>8, NobodyAnswered
  <2>2. Service!Late("shutdown", None) \in Owes(c, fileId)
    BY <1>2, <1>8 DEF Owes, Service!Late
  <2>3. Service!Late("shutdown", None) \in StillDue
    BY <1>3, <1>5, <2>2, ExecDue
  <2>4. QED
    BY <1>1, <1>4, <1>6, <2>1, <2>3 DEF Service!LateShutdown
<1>9. QED
  BY <1>7, <1>8

-----------------------------------------------------------------------------
(* The refinement *)

\* A session that is being set up is one that nobody has used.
LEMMA InitRefines == Init => Service!Init
<1> SUFFICES ASSUME Init PROVE Service!Init
  OBVIOUS
<1>1. /\ thread = "connecting" /\ backend = "connecting" /\ queue = <<>>
      /\ serves = [h \in Fh |-> None] /\ pc = [t \in Task |-> "idle"]
      /\ file = [f \in File |-> "unborn"] /\ closed = [f \in File |-> FALSE]
  BY DEF Init
<1>2. SessionState = "connecting" /\ OpenOnServer = {} /\ StillDue = {}
  BY <1>1 DEF SessionState, OpenOnServer, StillDue
<1>3. Calls = [t \in Task |-> Service!NoCall]
  BY <1>1 DEF Calls, CallOf, Service!NoCall
<1>4. QED
  BY <1>1, <1>2, <1>3 DEF Service!Init

LEMMA ThreadRefines ==
    IInv /\ RInv /\ ThreadNext => Service!Next \/ UNCHANGED Service!vars
<1> SUFFICES ASSUME IInv, RInv, ThreadNext PROVE Service!Next \/ UNCHANGED Service!vars
  OBVIOUS
<1> DEFINE Goal == Service!Next \/ UNCHANGED Service!vars
<1> USE DEF IInv, RInv
<1>1. CASE Exec
  <2>1. PICK c \in {queue[i] : i \in 1..Len(queue)} :
           \/ ExecPath(c) \/ ExecOpen(c) \/ ExecOpenFails(c) \/ ExecClose(c)
           \/ ExecUse(c) \/ ExecShutdown(c)
    BY <1>1 DEF Exec
  <2>2. c \in Command
    BY <2>1 DEF TypeOK
  <2>3. CASE ExecPath(c)
    BY <2>2, <2>3, ExecPathRefines DEF Service!Next
  <2>4. CASE ExecUse(c)
    BY <2>2, <2>4, ExecUseRefines DEF Service!Next
  <2>5. CASE ExecOpen(c) \/ ExecOpenFails(c)
    BY <2>2, <2>5, ExecOpenRefines DEF Service!Next
  <2>6. CASE ExecClose(c)
    BY <2>2, <2>6, ExecCloseRefines DEF Service!Next
  <2>7. CASE ExecShutdown(c)
    BY <2>2, <2>7, ExecShutdownRefines DEF Service!Next
  <2>8. QED
    BY <2>1, <2>3, <2>4, <2>5, <2>6, <2>7
<1>2. CASE ThreadConnects
  BY <1>2, ThreadConnectsRefines DEF Service!Next
<1>3. CASE Disconnected
  BY <1>3, DisconnectedRefines DEF Service!Next
<1>4. CASE CloseAllStep
  BY <1>4, CloseAllRefines DEF Service!Next
<1>5. CASE DestroyContext
  BY <1>5, DestroyContextRefines
<1>6. CASE ThreadExits
  BY <1>6, ThreadExitsRefines DEF Service!Next
<1>7. QED
  BY <1>1, <1>2, <1>3, <1>4, <1>5, <1>6 DEF ThreadNext

LEMMA CallerRefines ==
    IInv /\ RInv /\ CallerNext => Service!Next \/ UNCHANGED Service!vars
<1> SUFFICES ASSUME IInv, RInv, CallerNext PROVE Service!Next \/ UNCHANGED Service!vars
  OBVIOUS
<1> DEFINE Goal == Service!Next \/ UNCHANGED Service!vars
<1> USE DEF IInv, RInv
<1>1. ASSUME ConnectReturns PROVE Goal
  BY <1>1, ConnectReturnsRefines DEF Service!Next
<1>2. ASSUME DropBackend PROVE Goal
  BY <1>2, DropBackendRefines DEF Service!Next
<1>3. ASSUME NEW t \in Task, CallPath(t) PROVE Goal
  BY <1>3, CallPathRefines DEF Service!Next
<1>4. ASSUME NEW t \in Task, CallShutdown(t) PROVE Goal
  BY <1>4, CallShutdownRefines DEF Service!Next
<1>5. ASSUME NEW t \in Task, NEW f \in File, CallOpen(t, f) PROVE Goal
  BY <1>5, CallOpenRefines DEF Service!Next
<1>6. ASSUME NEW t \in Task, NEW f \in File, CallUse(t, f) \/ CallClose(t, f) PROVE Goal
  BY <1>6, CallFileRefines DEF Service!Next
<1>7. ASSUME NEW t \in Task, SendChecked(t) PROVE Goal
  BY <1>7, SendCheckedRefines DEF Service!Next
<1>8. ASSUME NEW t \in Task, Receive(t) PROVE Goal
  BY <1>8, ReceiveRefines DEF Service!Next
<1>9. ASSUME NEW t \in Task, ShutdownAnswered(t) PROVE Goal
  BY <1>9, ShutdownAnsweredRefines
<1>10. ASSUME NEW t \in Task, TakeJoin(t) \/ JoinReturns(t) PROVE Goal
  BY <1>10, ShutdownReturnsRefines DEF Service!Next
<1>11. ASSUME NEW t \in Task, Abandon(t) PROVE Goal
  BY <1>11, AbandonRefines DEF Service!Next
<1>12. ASSUME NEW f \in File, DropFile(f) PROVE Goal
  BY <1>12, DropFileRefines DEF Service!Next
<1> HIDE DEF Goal
<1>13. Goal
  BY <1>1, <1>2, <1>3, <1>4, <1>5, <1>6, <1>7, <1>8, <1>9, <1>10, <1>11, <1>12
     DEF CallerNext, Proceed
<1>14. QED
  BY <1>13 DEF Goal

LEMMA StutterRefines == UNCHANGED vars => UNCHANGED Service!vars
<1> SUFFICES ASSUME UNCHANGED vars PROVE UNCHANGED Service!vars
  OBVIOUS
<1> USE DEF vars, threadVars, fileVars, taskVars
<1>1. SessionState' = SessionState /\ OpenOnServer' = OpenOnServer /\ StillDue' = StillDue
  BY DueStays DEF SessionState, OpenOnServer
<1>2. Calls' = Calls
  BY CallStays, CallsStay
<1>3. QED
  BY <1>1, <1>2 DEF Service!vars

LEMMA NextRefines == IInv /\ RInv /\ [Next]_vars => [Service!Next]_(Service!vars)
<1> SUFFICES ASSUME IInv, RInv, [Next]_vars PROVE Service!Next \/ UNCHANGED Service!vars
  OBVIOUS
<1>1. CASE ThreadNext
  BY <1>1, ThreadRefines
<1>2. CASE CallerNext
  BY <1>2, CallerRefines
<1>3. CASE Finished \/ UNCHANGED vars
  BY <1>3, StutterRefines DEF Finished
<1>4. QED
  BY <1>1, <1>2, <1>3 DEF Next

\* The session, its thread, its queue and its table are what the traits promise, for every
\* set of tasks, files and handles and whoever abandons a call: each call takes effect at
\* one instant between its begin and its return, on its own file, and nothing is open,
\* closed or answered in another way.
THEOREM ServiceRefined == Spec => KeepsService
<1>1. Init => Service!Init
  BY InitRefines
<1>2. IInv /\ RInv /\ [Next]_vars => [Service!Next]_(Service!vars)
  BY NextRefines
<1>3. QED
  BY <1>1, <1>2, InductiveInvariant, RefinementInvariant, PTL DEF Spec, KeepsService, Service!Spec

-----------------------------------------------------------------------------
(* Nobody waits for ever *)

\* A call that has a step of its own to take (the guards of Proceed), and one that has
\* none: it waits for the thread.
CanGoOn(t) ==
    \/ pc[t] \in {"checked", "takejoin"}
    \/ pc[t] = "await" /\ reply[t] # Pending
    \/ pc[t] = "joining" /\ thread = "exited"
Waiting(t) == Busy(t) /\ ~CanGoOn(t)

\* The thread has a step to take (the guards of ThreadNext).
ThreadCan ==
    \/ thread \in {"connecting", "closing", "destroyed"}
    \/ thread = "running" /\ (queue # <<>> \/ ~SendersAlive)

\* Where a call's command is in the queue.
Place(t) == CHOOSE i \in 1..Len(queue) : queue[i].by = t

\* How many steps of the thread are at most left until a waiting call has its answer:
\* two for each command up to its own, since an open leaves one more handle to close,
\* then one for each open handle, and the end of the thread.
AnswerLeft(t) ==
    IF thread = "running" THEN 3 + 2 * Place(t) + Cardinality(DOMAIN handles)
    ELSE IF thread = "closing" THEN 2 + Cardinality(DOMAIN handles)
    ELSE 1

\* The thread takes its receiver with it: nothing is queued that will not be answered.
NothingLeft == thread = "exited" => queue = <<>>

\* A call waits in the queue, at one place, or for a thread that is on its way out.
WaitsForThread ==
    \A t \in Task : Waiting(t) =>
       \/ /\ thread \in {"running", "closing", "destroyed"}
          /\ pc[t] = "await" /\ reply[t] = Pending
          /\ Place(t) \in 1..Len(queue) /\ queue[Place(t)].by = t
          /\ \A i \in 1..Len(queue) : queue[i].by = t => i = Place(t)
       \/ thread \in {"closing", "destroyed"} /\ pc[t] = "joining"

LEMMA NothingLeftStep ==
    TypeOK /\ CallShape /\ QueueShape /\ Starts /\ NothingLeft /\ [Next]_vars => NothingLeft'
<1> SUFFICES ASSUME TypeOK, CallShape, QueueShape, Starts, NothingLeft, [Next]_vars
             PROVE  NothingLeft'
  OBVIOUS
<1>1. CASE CallerNext
  <2>1. ASSUME thread = "exited"
        PROVE  queue' = <<>>
    <3>1. queue = <<>> /\ ~ReceiverAlive
      BY <2>1 DEF NothingLeft, ReceiverAlive
    <3>2. Len(queue') = 0
      BY <1>1, <3>1, CallerQueue DEF QueueStays, Joins
    <3>3. queue' \in Seq(Command)
      BY <1>1, CallerType DEF TypeOK
    <3>4. QED
      BY <3>2, <3>3
  <2>2. QED
    BY <1>1, <2>1, CallerLeavesThread DEF NothingLeft
<1>2. CASE Exec
  <2>1. thread = "running" /\ thread' \in {"running", "closing"}
    BY <1>2, ExecSteps, RecvFacts DEF Executes
  <2>2. QED
    BY <2>1 DEF NothingLeft
<1>3. CASE ThreadConnects
  BY <1>3 DEF ThreadConnects, Starts, Unused, NothingLeft
<1>4. CASE Disconnected \/ CloseAllStep \/ DestroyContext \/ ThreadExits
  BY <1>4 DEF Disconnected, CloseAllStep, DestroyContext, ThreadExits, NothingLeft
<1>5. CASE Finished \/ UNCHANGED vars
  BY <1>5 DEF Finished, vars, threadVars, NothingLeft
<1>6. QED
  BY <1>1, <1>2, <1>3, <1>4, <1>5 DEF Next, ThreadNext

LEMMA WhoWaits == IInv /\ RInv /\ NothingLeft => WaitsForThread
<1> SUFFICES ASSUME IInv, RInv, NothingLeft, NEW t \in Task, Waiting(t)
             PROVE  \/ /\ thread \in {"running", "closing", "destroyed"}
                       /\ pc[t] = "await" /\ reply[t] = Pending
                       /\ Place(t) \in 1..Len(queue) /\ queue[Place(t)].by = t
                       /\ \A i \in 1..Len(queue) : queue[i].by = t => i = Place(t)
                    \/ thread \in {"closing", "destroyed"} /\ pc[t] = "joining"
  BY DEF WaitsForThread
<1> USE DEF IInv, RInv
<1>1. /\ thread \in {"connecting", "running", "closing", "destroyed", "exited"}
      /\ (pc[t] = "await" /\ reply[t] = Pending) \/ (pc[t] = "joining" /\ thread # "exited")
  <2>1. pc[t] \in {"idle", "checked", "await", "takejoin", "joining"}
    BY DEF TypeOK
  <2>2. QED
    BY <2>1 DEF TypeOK, Waiting, CanGoOn, Busy
<1>2. thread # "connecting"
  BY <1>1 DEF Starts, Unused
<1>3. CASE pc[t] = "await" /\ reply[t] = Pending
  <2>1. PICK i \in 1..Len(queue) : queue[i].by = t
    BY <1>3 DEF Waits
  <2>2. thread # "exited"
    BY <2>1 DEF NothingLeft
  <2>3. \A j \in 1..Len(queue) : queue[j].by = t => j = i
    BY <2>1, NoneAssumption DEF QueueShape
  <2>4. Place(t) = i
    BY <2>1, <2>3 DEF Place
  <2>5. QED
    BY <1>1, <1>2, <1>3, <2>1, <2>2, <2>3, <2>4
<1>4. CASE pc[t] = "joining" /\ thread # "exited"
  <2>1. join = "taken"
    BY <1>4 DEF Waits
  <2>2. thread # "running"
    BY <2>1 DEF OneMayJoin
  <2>3. QED
    BY <1>1, <1>2, <1>4, <2>2
<1>5. QED
  BY <1>1, <1>3, <1>4

LEMMA WaitingInvariant == Spec => [](NothingLeft /\ WaitsForThread)
<1>1. Init => NothingLeft
  BY DEF Init, NothingLeft
<1>2. IInv /\ RInv /\ NothingLeft /\ [Next]_vars => NothingLeft'
  BY NothingLeftStep DEF IInv, RInv
<1>3. QED
  BY <1>1, <1>2, WhoWaits, InductiveInvariant, RefinementInvariant, PTL DEF Spec

\* The table is finite.
LEMMA TableFinite ==
    ASSUME NEW n \in Nat, NEW D \in SUBSET (1..n)
    PROVE  IsFiniteSet(D) /\ Cardinality(D) \in Nat
<1>1. IsFiniteSet(1..n)
  BY FS_Interval
<1>2. IsFiniteSet(D)
  BY <1>1, FS_Subset
<1>3. QED
  BY <1>2, FS_CardinalityType

\* What the thread does to the table, in numbers: a handle less, or at most one more.
LEMMA TableShrinks ==
    ASSUME TypeOK, NEW id \in DOMAIN handles, CloseHandle(id)
    PROVE  Cardinality(DOMAIN handles') = Cardinality(DOMAIN handles) - 1
<1>1. IsFiniteSet(DOMAIN handles)
  BY TableFinite DEF TypeOK
<1>2. DOMAIN handles' = DOMAIN handles \ {id}
  BY CloseType
<1>3. QED
  BY <1>1, <1>2, FS_RemoveElement

LEMMA TableGrows ==
    ASSUME TypeOK, NEW c \in Command, NEW o \in Op, NEW r \in Reply, TableMoves(c, o, r)
    PROVE  /\ Cardinality(DOMAIN handles) \in Nat /\ Cardinality(DOMAIN handles') \in Nat
           /\ Cardinality(DOMAIN handles') <= Cardinality(DOMAIN handles) + 1
           /\ o # "open" => Cardinality(DOMAIN handles') <= Cardinality(DOMAIN handles)
<1>1. IsFiniteSet(DOMAIN handles) /\ Cardinality(DOMAIN handles) \in Nat
  BY TableFinite DEF TypeOK
<1>2. \/ handles' = handles
      \/ o = "open" /\ \E x \in Nat : DOMAIN handles' = DOMAIN handles \cup {x}
      \/ \E x \in DOMAIN handles : DOMAIN handles' = DOMAIN handles \ {x}
  <2>1. CASE o = "open" /\ Opens(c, r)
    <3>1. DOMAIN handles' = DOMAIN handles \cup {nextId + 1} /\ nextId + 1 \in Nat
      BY <2>1 DEF Opens, Insert, TypeOK
    <3>2. QED
      BY <2>1, <3>1
  <2>2. CASE c.id \in DOMAIN handles /\ CloseHandle(c.id)
    BY <2>2, CloseType
  <2>3. QED
    BY <2>1, <2>2 DEF TableMoves
<1>3. \A x : Cardinality(DOMAIN handles \cup {x})
                \in {Cardinality(DOMAIN handles), Cardinality(DOMAIN handles) + 1}
  BY <1>1, FS_AddElement
<1>4. \A x \in DOMAIN handles : /\ IsFiniteSet(DOMAIN handles \ {x})
                                /\ Cardinality(DOMAIN handles \ {x}) = Cardinality(DOMAIN handles) - 1
  BY <1>1, FS_RemoveElement
<1>5. \A x \in DOMAIN handles : Cardinality(DOMAIN handles \ {x}) \in Nat
  BY <1>4, FS_CardinalityType
<1> DEFINE n == Cardinality(DOMAIN handles)
           m == Cardinality(DOMAIN handles')
<1>6. m = n \/ (o = "open" /\ m = n + 1) \/ (m = n - 1 /\ m \in Nat)
  BY <1>2, <1>3, <1>4, <1>5
<1>7. n \in Nat
  BY <1>1
<1> HIDE DEF n, m
<1>8. m \in Nat /\ m <= n + 1 /\ (o # "open" => m <= n)
  BY <1>6, <1>7
<1>9. QED
  BY <1>7, <1>8 DEF n, m

\* A step of the thread brings every answer nearer that it does not give.
LEMMA ThreadAnswers ==
    ASSUME IInv, RInv, WaitsForThread, WaitsForThread', ThreadNext,
           NEW t \in Task, Waiting(t), Waiting(t)'
    PROVE  AnswerLeft(t)' < AnswerLeft(t)
<1> USE DEF IInv, RInv
<1> DEFINE n == Cardinality(DOMAIN handles)
           m == Cardinality(DOMAIN handles')
           i == Place(t)
           k == Place(t)'
<1>1. n \in Nat
  BY TableFinite DEF TypeOK
<1>2. /\ thread \in {"running", "closing", "destroyed"}
      /\ thread = "running" => /\ i \in 1..Len(queue) /\ queue[i].by = t
                               /\ pc[t] = "await" /\ reply[t] = Pending
  BY DEF WaitsForThread
<1>3. /\ thread' \in {"running", "closing", "destroyed"}
      /\ thread' = "running" => /\ reply'[t] = Pending
                                /\ \A j \in 1..Len(queue') : queue'[j].by = t => j = k
  BY DEF WaitsForThread
<1>4. CASE Exec
  <2>1. PICK c \in Command, o \in Op, r \in Reply : Executes(c, o, r) /\ TableMoves(c, o, r)
    BY <1>4, ExecSteps
  <2>2. m \in Nat /\ m <= n + 1 /\ (o # "open" => m <= n)
    BY <2>1, TableGrows
  <2>3. /\ reply'[t] = (IF t = c.by THEN r ELSE reply[t]) /\ r # Pending
    BY <2>1, Executed
  <2>4. /\ thread = "running" /\ c = queue[1]
        /\ \A j \in 1..Len(queue) : j = 1 \/ (j - 1 \in 1..Len(queue') /\ queue'[j - 1] = queue[j])
        /\ thread' = IF o = "shutdown" THEN "closing" ELSE thread
    BY <2>1, RecvFacts DEF Executes
  <2>5. i \in Nat /\ i >= 1
    BY <1>2, <2>4
  <2>6. AnswerLeft(t) = 3 + 2 * i + n
    BY <2>4 DEF AnswerLeft
  <2>7. CASE o = "shutdown"
    <3>1. AnswerLeft(t)' = 2 + m /\ m <= n
      BY <2>2, <2>4, <2>7 DEF AnswerLeft
    <3> HIDE DEF n, m, i, k
    <3>2. QED
      BY <1>1, <2>2, <2>5, <2>6, <3>1
  <2>8. CASE o # "shutdown"
    <3>1. thread' = "running"
      BY <2>4, <2>8
    <3>2. i # 1
      BY <1>2, <1>3, <2>3, <2>4, <3>1
    <3>3. k = i - 1
      BY <1>2, <1>3, <2>4, <3>1, <3>2
    <3>4. AnswerLeft(t)' = 3 + 2 * k + m
      BY <3>1 DEF AnswerLeft
    <3> HIDE DEF n, m, i, k
    <3>5. QED
      BY <1>1, <2>2, <2>5, <2>6, <3>3, <3>4
  <2>9. QED
    BY <2>7, <2>8
<1>5. CASE ThreadConnects \/ Disconnected \/ ThreadExits
  BY <1>2, <1>3, <1>5 DEF ThreadConnects, Disconnected, ThreadExits
<1>6. CASE CloseAllStep
  <2>1. PICK id \in DOMAIN handles : CloseHandle(id)
    BY <1>6 DEF CloseAllStep
  <2>2. m = n - 1
    BY <2>1, TableShrinks
  <2>3. AnswerLeft(t) = 2 + n /\ AnswerLeft(t)' = 2 + m
    BY <1>6 DEF CloseAllStep, AnswerLeft
  <2> HIDE DEF n, m, i, k
  <2>4. QED
    BY <1>1, <2>2, <2>3
<1>7. CASE DestroyContext
  <2>1. AnswerLeft(t) = 2 + n /\ AnswerLeft(t)' = 1
    BY <1>7 DEF DestroyContext, AnswerLeft
  <2> HIDE DEF n, m, i, k
  <2>2. QED
    BY <1>1, <2>1
<1>8. QED
  BY <1>4, <1>5, <1>6, <1>7 DEF ThreadNext

\* No caller puts off another's answer, by what it sends, drops or abandons.
LEMMA CallersWait ==
    ASSUME IInv, RInv, WaitsForThread, WaitsForThread', CallerNext,
           NEW t \in Task, Waiting(t), Waiting(t)'
    PROVE  AnswerLeft(t)' = AnswerLeft(t)
<1> USE DEF IInv, RInv
<1>1. thread' = thread /\ handles' = handles
  BY CallerLeavesThread
<1>2. CASE thread = "running"
  <2>1. /\ Place(t) \in 1..Len(queue) /\ queue[Place(t)].by = t
        /\ pc'[t] = "await"
        /\ \A j \in 1..Len(queue') : queue'[j].by = t => j = Place(t)'
    BY <1>1, <1>2 DEF WaitsForThread
  <2>2. Place(t) \in 1..Len(queue') /\ queue'[Place(t)].by = t
    <3>1. CASE QueueStays
      BY <2>1, <3>1 DEF QueueStays
    <3>2. CASE \E c \in Command : Joins(c)
      BY <2>1, <3>2 DEF Joins
    <3>3. QED
      BY <3>1, <3>2, CallerQueue
  <2>3. Place(t)' = Place(t)
    BY <2>1, <2>2
  <2>4. QED
    BY <1>1, <1>2, <2>3 DEF AnswerLeft
<1>3. CASE thread # "running"
  BY <1>1, <1>3 DEF AnswerLeft
<1>4. QED
  BY <1>2, <1>3

\* No call is ever stuck, for every set of tasks, files and handles, whatever is shut down,
\* dropped or abandoned: one that has no step of its own to take waits for a thread that has.
THEOREM NobodyIsStuck == Spec => [](\A t \in Task : Waiting(t) => ThreadCan)
<1>1. WaitsForThread => \A t \in Task : Waiting(t) => ThreadCan
  BY DEF WaitsForThread, ThreadCan
<1>2. QED
  BY <1>1, WaitingInvariant, PTL

AnswersNearer ==
    \A t \in Task : Waiting(t) /\ Waiting(t)' =>
       IF ThreadNext THEN AnswerLeft(t)' < AnswerLeft(t) ELSE AnswerLeft(t)' = AnswerLeft(t)

\* And every step of the thread brings its answer nearer, which no caller can put off again,
\* however many commands the others send: what is left of the wait is a number that only
\* goes down.
THEOREM AnswersCome ==
    Spec => /\ [](\A t \in Task : Waiting(t) => AnswerLeft(t) \in Nat)
            /\ [][AnswersNearer]_vars
<1>1. IInv /\ WaitsForThread => \A t \in Task : Waiting(t) => AnswerLeft(t) \in Nat
  <2> SUFFICES ASSUME IInv, WaitsForThread, NEW t \in Task, Waiting(t)
               PROVE  AnswerLeft(t) \in Nat
    OBVIOUS
  <2> DEFINE n == Cardinality(DOMAIN handles)
             i == Place(t)
  <2>1. n \in Nat
    BY TableFinite DEF IInv, TypeOK
  <2>2. thread = "running" => i \in Nat
    BY DEF WaitsForThread
  <2>3. AnswerLeft(t) = IF thread = "running" THEN 3 + 2 * i + n
                        ELSE IF thread = "closing" THEN 2 + n ELSE 1
    BY DEF AnswerLeft
  <2> HIDE DEF n, i
  <2>4. QED
    BY <2>1, <2>2, <2>3
<1>2. IInv /\ RInv /\ WaitsForThread /\ WaitsForThread' /\ [Next]_vars => [AnswersNearer]_vars
  <2> SUFFICES ASSUME IInv, RInv, WaitsForThread, WaitsForThread', Next PROVE AnswersNearer
    OBVIOUS
  <2> SUFFICES ASSUME NEW t \in Task, Waiting(t), Waiting(t)'
               PROVE  IF ThreadNext THEN AnswerLeft(t)' < AnswerLeft(t)
                      ELSE AnswerLeft(t)' = AnswerLeft(t)
    BY DEF AnswersNearer
  <2>1. CASE ThreadNext
    BY <2>1, ThreadAnswers
  <2>2. CASE ~ThreadNext /\ CallerNext
    BY <2>2, CallersWait
  <2>3. CASE ~ThreadNext /\ Finished
    BY <2>3 DEF Finished, vars, threadVars, AnswerLeft, Place
  <2>4. QED
    BY <2>1, <2>2, <2>3 DEF Next
<1>3. Spec => [](\A t \in Task : Waiting(t) => AnswerLeft(t) \in Nat)
  BY <1>1, WaitingInvariant, InductiveInvariant, PTL
<1>4. Spec => [][AnswersNearer]_vars
  BY <1>2, WaitingInvariant, InductiveInvariant, RefinementInvariant, PTL DEF Spec
<1>5. QED
  BY <1>3, <1>4, PTL

-----------------------------------------------------------------------------
(* Nothing that was dropped stays open *)

\* A file that was dropped and is still open on the server.
Leftover(f) == file[f] = "dropped" /\ \E h \in Fh : serves[h] = f

\* Where its close is in the queue.
ClosePlace(f) == CHOOSE i \in 1..Len(queue) : queue[i].op = "close" /\ queue[i].id = fileId[f]

\* How many steps of the thread are at most left until it is closed.
CloseLeft(f) ==
    IF thread = "running" THEN 1 + 2 * ClosePlace(f) + Cardinality(DOMAIN handles)
    ELSE Cardinality(DOMAIN handles)

\* It is closed by the one command that was sent for it, or with all the others.
ClosesComing ==
    \A f \in File : Leftover(f) =>
       /\ thread \in {"running", "closing"}
       /\ thread = "running" =>
             LET p == ClosePlace(f) IN
             /\ p \in 1..Len(queue) /\ queue[p].op = "close" /\ queue[p].id = fileId[f]
             /\ \A i \in 1..Len(queue) : queue[i].op = "close" /\ queue[i].id = fileId[f] => i = p

LEMMA DroppedWillBeClosed == IInv /\ RInv => ClosesComing
<1> SUFFICES ASSUME IInv, RInv, NEW f \in File, Leftover(f)
             PROVE  /\ thread \in {"running", "closing"}
                    /\ thread = "running" =>
                          LET p == ClosePlace(f) IN
                          /\ p \in 1..Len(queue) /\ queue[p].op = "close" /\ queue[p].id = fileId[f]
                          /\ \A i \in 1..Len(queue) :
                                queue[i].op = "close" /\ queue[i].id = fileId[f] => i = p
  BY DEF ClosesComing
<1> USE DEF IInv, RInv
<1>1. PICK id \in DOMAIN handles : serves[handles[id]] = f
  BY NoneAssumption DEF Leftover, TableMatchesServer
<1>2. thread \in {"running", "closing"}
  BY <1>1 DEF TableEmptyOutsideSession, ContextLive
<1>3. ASSUME thread = "running"
      PROVE  \E i \in 1..Len(queue) : queue[i].op = "close" /\ queue[i].id = id
  <2>1. Owned(id)
    BY <1>1, <1>3 DEF NoForgottenHandle, Leftover
  <2>2. ~\E t \in Task : pc[t] = "checked" /\ op[t] = "close" /\ on[t] = f
    BY DEF CallShape, Busy, FileOps, Leftover
  <2>3. ~\E t \in Task : pc[t] = "await" /\ op[t] = "open" /\ on[t] = f
    BY DEF CallShape, Busy, Leftover
  <2>4. QED
    BY <1>1, <2>1, <2>2, <2>3 DEF Owned, Leftover
<1>4. ASSUME thread = "running"
      PROVE  fileId[f] = id
  <2>1. PICK g \in File : fileId[g] = id /\ fileId[g] # 0
    BY <1>3, <1>4 DEF ClosedOnce
  <2>2. g = f
    BY <1>1, <2>1 DEF OwnIds
  <2>3. QED
    BY <2>1, <2>2
<1>5. ASSUME thread = "running"
      PROVE  LET p == ClosePlace(f) IN
             /\ p \in 1..Len(queue) /\ queue[p].op = "close" /\ queue[p].id = fileId[f]
             /\ \A i \in 1..Len(queue) : queue[i].op = "close" /\ queue[i].id = fileId[f] => i = p
  <2>1. PICK i \in 1..Len(queue) : queue[i].op = "close" /\ queue[i].id = fileId[f]
    BY <1>3, <1>4, <1>5
  <2>2. \A j \in 1..Len(queue) : queue[j].op = "close" /\ queue[j].id = fileId[f] => j = i
    BY <2>1 DEF ClosedOnce
  <2>3. ClosePlace(f) = i
    BY <2>1, <2>2 DEF ClosePlace
  <2>4. QED
    BY <2>1, <2>2, <2>3
<1>6. QED
  BY <1>2, <1>5

\* A step of the thread brings the close nearer that it does not make.
LEMMA ThreadCloses ==
    ASSUME IInv, RInv, ClosesComing, ClosesComing', ThreadNext,
           NEW f \in File, Leftover(f), Leftover(f)'
    PROVE  CloseLeft(f)' < CloseLeft(f)
<1> USE DEF IInv, RInv
<1> DEFINE n == Cardinality(DOMAIN handles)
           m == Cardinality(DOMAIN handles')
           i == ClosePlace(f)
           k == ClosePlace(f)'
<1>1. n \in Nat
  BY TableFinite DEF TypeOK
<1>2. /\ thread \in {"running", "closing"}
      /\ thread = "running" =>
            /\ i \in 1..Len(queue)
            /\ \A j \in 1..Len(queue) : queue[j].op = "close" /\ queue[j].id = fileId[f] => j = i
  BY DEF ClosesComing
<1>3. /\ thread' \in {"running", "closing"}
      /\ thread' = "running" =>
            /\ k \in 1..Len(queue') /\ queue'[k].op = "close" /\ queue'[k].id = fileId'[f]
  BY DEF ClosesComing
<1>4. CASE Exec
  <2>1. PICK c \in Command, o \in Op, r \in Reply : Executes(c, o, r) /\ TableMoves(c, o, r)
    BY <1>4, ExecSteps
  <2>2. m \in Nat /\ m <= n + 1 /\ (o # "open" => m <= n)
    BY <2>1, TableGrows
  <2>3. /\ thread = "running" /\ fileId' = fileId
        /\ thread' = IF o = "shutdown" THEN "closing" ELSE thread
    BY <2>1, RecvFacts DEF Executes
  <2>4. i \in Nat /\ i >= 1
    BY <1>2, <2>3
  <2>5. CloseLeft(f) = 1 + 2 * i + n
    BY <2>3 DEF CloseLeft
  <2>6. CASE o = "shutdown"
    <3>1. CloseLeft(f)' = m /\ m <= n
      BY <2>2, <2>3, <2>6 DEF CloseLeft
    <3> HIDE DEF n, m, i, k
    <3>2. QED
      BY <1>1, <2>2, <2>4, <2>5, <3>1
  <2>7. CASE o # "shutdown"
    <3>1. thread' = "running"
      BY <2>3, <2>7
    <3>2. k + 1 \in 1..Len(queue) /\ queue'[k] = queue[k + 1]
      BY <1>3, <2>1, <3>1, Executed
    <3>3. k + 1 = i
      BY <1>2, <1>3, <2>3, <3>1, <3>2
    <3>4. CloseLeft(f)' = 1 + 2 * k + m
      BY <3>1 DEF CloseLeft
    <3>5. k \in Nat
      BY <1>3, <3>1
    <3> HIDE DEF n, m, i, k
    <3>6. QED
      BY <1>1, <2>2, <2>4, <2>5, <3>3, <3>4, <3>5
  <2>8. QED
    BY <2>6, <2>7
<1>5. CASE ThreadConnects \/ Disconnected \/ DestroyContext \/ ThreadExits
  BY <1>2, <1>3, <1>5 DEF ThreadConnects, Disconnected, DestroyContext, ThreadExits
<1>6. CASE CloseAllStep
  <2>1. PICK id \in DOMAIN handles : CloseHandle(id)
    BY <1>6 DEF CloseAllStep
  <2>2. m = n - 1
    BY <2>1, TableShrinks
  <2>3. CloseLeft(f) = n /\ CloseLeft(f)' = m
    BY <1>6 DEF CloseAllStep, CloseLeft
  <2> HIDE DEF n, m, i, k
  <2>4. QED
    BY <1>1, <2>2, <2>3
<1>7. QED
  BY <1>4, <1>5, <1>6 DEF ThreadNext

\* No caller puts it off.
LEMMA CallersLetClose ==
    ASSUME IInv, RInv, ClosesComing, ClosesComing', CallerNext,
           NEW f \in File, Leftover(f), Leftover(f)'
    PROVE  CloseLeft(f)' = CloseLeft(f)
<1> USE DEF IInv, RInv
<1>1. thread' = thread /\ handles' = handles
  BY CallerLeavesThread
<1>2. CASE thread = "running"
  <2>1. fileId'[f] = fileId[f]
    <3>1. ~\E t \in Task : Opened(t) /\ on[t] = f
      BY DEF Opened, CallShape, Busy, Leftover
    <3>2. QED
      BY <3>1, CallerIds
  <2>2. ClosePlace(f) \in 1..Len(queue') /\ queue'[ClosePlace(f)].op = "close"
        /\ queue'[ClosePlace(f)].id = fileId'[f]
    <3>1. /\ ClosePlace(f) \in 1..Len(queue) /\ queue[ClosePlace(f)].op = "close"
          /\ queue[ClosePlace(f)].id = fileId[f]
      BY <1>2 DEF ClosesComing
    <3>2. CASE QueueStays
      BY <2>1, <3>1, <3>2 DEF QueueStays
    <3>3. CASE \E c \in Command : Joins(c)
      BY <2>1, <3>1, <3>3 DEF Joins
    <3>4. QED
      BY <3>2, <3>3, CallerQueue
  <2>3. ClosePlace(f)' = ClosePlace(f)
    BY <1>1, <1>2, <2>2 DEF ClosesComing
  <2>4. QED
    BY <1>1, <1>2, <2>3 DEF CloseLeft
<1>3. CASE thread # "running"
  BY <1>1, <1>3 DEF CloseLeft
<1>4. QED
  BY <1>2, <1>3

ClosesNearer ==
    \A f \in File : Leftover(f) /\ Leftover(f)' =>
       IF ThreadNext THEN CloseLeft(f)' < CloseLeft(f) ELSE CloseLeft(f)' = CloseLeft(f)

\* What RemoteFile::drop leaves behind is always about to be closed: the thread has a step
\* to take, every step it takes brings the close nearer, and nothing that is sent, opened,
\* dropped or abandoned meanwhile puts it off.
THEOREM DroppedAreClosed ==
    Spec => /\ [](\A f \in File : Leftover(f) => ThreadCan /\ CloseLeft(f) \in Nat)
            /\ [][ClosesNearer]_vars
<1>1. IInv /\ ClosesComing => \A f \in File : Leftover(f) => ThreadCan /\ CloseLeft(f) \in Nat
  <2> SUFFICES ASSUME IInv, ClosesComing, NEW f \in File, Leftover(f)
               PROVE  ThreadCan /\ CloseLeft(f) \in Nat
    OBVIOUS
  <2> DEFINE n == Cardinality(DOMAIN handles)
             i == ClosePlace(f)
  <2>1. n \in Nat
    BY TableFinite DEF IInv, TypeOK
  <2>2. thread = "running" => i \in Nat
    BY DEF ClosesComing
  <2>3. CloseLeft(f) = IF thread = "running" THEN 1 + 2 * i + n ELSE n
    BY DEF CloseLeft
  <2>4. ThreadCan
    BY DEF ClosesComing, ThreadCan
  <2> HIDE DEF n, i
  <2>5. QED
    BY <2>1, <2>2, <2>3, <2>4
<1>2. IInv /\ RInv /\ ClosesComing /\ ClosesComing' /\ [Next]_vars => [ClosesNearer]_vars
  <2> SUFFICES ASSUME IInv, RInv, ClosesComing, ClosesComing', Next PROVE ClosesNearer
    OBVIOUS
  <2> SUFFICES ASSUME NEW f \in File, Leftover(f), Leftover(f)'
               PROVE  IF ThreadNext THEN CloseLeft(f)' < CloseLeft(f)
                      ELSE CloseLeft(f)' = CloseLeft(f)
    BY DEF ClosesNearer
  <2>1. CASE ThreadNext
    BY <2>1, ThreadCloses
  <2>2. CASE ~ThreadNext /\ CallerNext
    BY <2>2, CallersLetClose
  <2>3. CASE ~ThreadNext /\ Finished
    BY <2>3 DEF Finished, vars, threadVars, fileVars, CloseLeft, ClosePlace
  <2>4. QED
    BY <2>1, <2>2, <2>3 DEF Next
<1>3. Spec => []ClosesComing
  BY DroppedWillBeClosed, InductiveInvariant, RefinementInvariant, PTL
<1>4. Spec => [](\A f \in File : Leftover(f) => ThreadCan /\ CloseLeft(f) \in Nat)
  BY <1>1, <1>3, InductiveInvariant, PTL
<1>5. Spec => [][ClosesNearer]_vars
  BY <1>2, <1>3, InductiveInvariant, RefinementInvariant, PTL DEF Spec
<1>6. QED
  BY <1>4, <1>5, PTL

-----------------------------------------------------------------------------
(* The thread ends when nobody is left to use the session *)

\* How many steps it has at most left to take if nothing more is sent.
ThreadLeft ==
    IF thread = "connecting" THEN 4
    ELSE IF thread = "running" THEN 3 + 2 * Len(queue) + Cardinality(DOMAIN handles)
    ELSE IF thread = "closing" THEN 2 + Cardinality(DOMAIN handles)
    ELSE IF thread = "destroyed" THEN 1
    ELSE 0

\* A call on the backend borrows it.
Borrowed == \A t \in Task : UsesBackend(t) => backend = "up"

LEMMA BorrowedStep ==
    TypeOK /\ CallShape /\ QueueShape /\ Borrowed /\ [Next]_vars => Borrowed'
<1> SUFFICES ASSUME TypeOK, CallShape, QueueShape, Borrowed, [Next]_vars, NEW t \in Task, UsesBackend(t)'
             PROVE  backend' = "up"
  BY DEF Borrowed
<1> USE DEF threadVars, fileVars, taskVars
<1>1. CASE pc' = pc /\ op' = op /\ backend' = backend
  BY <1>1 DEF Borrowed, UsesBackend, Busy
<1>2. CASE ThreadNext
  <2>1. CASE Exec
    BY <1>1, <2>1, ExecSteps DEF Executes
  <2>2. CASE ThreadConnects \/ Disconnected \/ CloseAllStep \/ DestroyContext \/ ThreadExits
    BY <1>1, <2>2 DEF ThreadConnects, Disconnected, CloseAllStep, DestroyContext, ThreadExits
  <2>3. QED
    BY <1>2, <2>1, <2>2 DEF ThreadNext
<1>3. CASE ConnectReturns \/ DropBackend
  BY <1>3 DEF ConnectReturns, DropBackend, Borrowed, UsesBackend, Busy
<1>4. ASSUME NEW u \in Task, CallPath(u) \/ CallShutdown(u) \/ \E f \in File : CallOpen(u, f)
      PROVE  backend' = "up"
  BY <1>4 DEF CallPath, CallShutdown, CallOpen
<1>5. ASSUME NEW u \in Task, \E f \in File : CallUse(u, f) \/ CallClose(u, f)
      PROVE  backend' = "up"
  <2>1. pc'[u] = "checked" /\ op'[u] \in FileOps /\ backend' = backend
        /\ (u # t => pc'[t] = pc[t] /\ op'[t] = op[t])
    BY <1>5 DEF CallUse, CallClose, TypeOK, FileOps
  <2>2. QED
    BY <2>1 DEF Borrowed, UsesBackend, Busy
<1>6. ASSUME NEW u \in Task, SendChecked(u)
      PROVE  backend' = "up"
  <2>1. /\ backend' = backend /\ op[u] \in FileOps
        /\ (u # t => pc'[t] = pc[t] /\ op'[t] = op[t])
        /\ pc'[u] = "idle" \/ op'[u] = op[u]
    <3>1. Send(u, op[u], fileId[on[u]], on[u]) /\ backend' = backend /\ op[u] \in FileOps
      BY <1>6 DEF SendChecked, CallShape
    <3>2. CASE ReceiverAlive
      BY <3>1, <3>2, SendFacts
    <3>3. CASE ~ReceiverAlive
      BY <3>1, <3>3, SendFacts
    <3>4. QED
      BY <3>1, <3>2, <3>3
  <2>2. QED
    BY <2>1 DEF Borrowed, UsesBackend, Busy
<1>7. ASSUME NEW u \in Task, \/ Receive(u) \/ ShutdownAnswered(u) \/ TakeJoin(u)
                             \/ JoinReturns(u) \/ Abandon(u)
      PROVE  backend' = "up"
  <2>1. backend' = backend /\ pc[u] # "idle"
    BY <1>7 DEF Receive, ShutdownAnswered, TakeJoin, JoinReturns, Abandon
  <2>2. CASE Return(u)
    BY <2>1, <2>2, ReturnFacts DEF Borrowed, UsesBackend, Busy
  <2>3. CASE ~Return(u)
    <3>1. op' = op /\ (u # t => pc'[t] = pc[t])
      BY <1>7, <2>3 DEF Receive, ShutdownAnswered, TakeJoin, JoinReturns, Abandon, TypeOK
    <3>2. QED
      BY <2>1, <3>1 DEF Borrowed, UsesBackend, Busy
  <2>4. QED
    BY <2>2, <2>3
<1>8. CASE (\E f \in File : DropFile(f)) \/ Finished \/ UNCHANGED vars
  BY <1>1, <1>8 DEF DropFile, Finished, vars
<1>9. QED
  BY <1>2, <1>3, <1>4, <1>5, <1>6, <1>7, <1>8 DEF Next, CallerNext, Proceed

LEMMA BorrowedInvariant == Spec => []Borrowed
<1>1. Init => Borrowed
  BY DEF Init, Borrowed, UsesBackend, Busy
<1>2. IInv /\ Borrowed /\ [Next]_vars => Borrowed'
  BY BorrowedStep DEF IInv
<1>3. QED
  BY <1>1, <1>2, InductiveInvariant, PTL DEF Spec

\* With the last clone of the session gone, nobody makes another and nobody sends.
LEMMA SendersStayGone ==
    ASSUME TypeOK, CallShape, Borrowed, CallerNext, ~SendersAlive
    PROVE  ~SendersAlive' /\ Len(queue') = Len(queue)
<1> USE DEF threadVars, fileVars, taskVars
<1>1. backend \notin {"connecting", "up"} /\ \A f \in File : file[f] # "alive"
  BY DEF SendersAlive
<1>2. CASE backend' = backend /\ file' = file /\ queue' = queue
  BY <1>2 DEF SendersAlive
<1>3. ~ConnectReturns /\ ~DropBackend
  BY <1>1 DEF ConnectReturns, DropBackend
<1>4. \A t \in Task : ~CallPath(t) /\ ~CallShutdown(t) /\ \A f \in File : ~CallOpen(t, f)
  BY <1>1 DEF CallPath, CallShutdown, CallOpen
<1>5. \A f \in File : ~DropFile(f) /\ \A t \in Task : ~CallUse(t, f) /\ ~CallClose(t, f)
  BY <1>1 DEF DropFile, CallUse, CallClose
<1>6. \A t \in Task : ~SendChecked(t)
  BY <1>1 DEF SendChecked, CallShape, Busy, FileOps
<1>7. \A t \in Task : pc[t] # "idle" => op[t] # "open"
  BY <1>1 DEF Borrowed, UsesBackend, Busy, FileOps
<1>8. ASSUME NEW t \in Task, Receive(t) \/ ShutdownAnswered(t) \/ TakeJoin(t) \/ JoinReturns(t)
      PROVE  backend' = backend /\ file' = file /\ queue' = queue
  BY <1>7, <1>8 DEF Receive, ShutdownAnswered, TakeJoin, JoinReturns
<1>9. ASSUME NEW t \in Task, Abandon(t)
      PROVE  ~SendersAlive' /\ Len(queue') = Len(queue)
  <2>1. backend' = backend /\ file' = file
    BY <1>7, <1>9 DEF Abandon
  <2>2. DOMAIN queue' = 1..Len(queue) /\ queue' \in Seq(Command) /\ Len(queue) \in Nat
    BY <1>9, AbandonedQueue DEF Abandon, TypeOK
  <2>3. QED
    BY <1>1, <2>1, <2>2 DEF SendersAlive
<1>10. QED
  BY <1>2, <1>3, <1>4, <1>5, <1>6, <1>8, <1>9 DEF CallerNext, Proceed

LEMMA ThreadLeftType == ASSUME TypeOK PROVE ThreadLeft \in Nat
<1> DEFINE n == Cardinality(DOMAIN handles)
           l == Len(queue)
<1>1. n \in Nat /\ l \in Nat
  BY TableFinite DEF TypeOK
<1>2. ThreadLeft \in {0, 1, 4, 2 + n, 3 + 2 * l + n}
  BY DEF ThreadLeft
<1> HIDE DEF n, l
<1>3. QED
  BY <1>1, <1>2

\* A step of the thread is a step less, and tells nobody to come back.
LEMMA ThreadGoesOn ==
    ASSUME IInv, RInv, ThreadNext
    PROVE  ThreadLeft' < ThreadLeft /\ SendersAlive' = SendersAlive
<1> USE DEF IInv, RInv
<1> DEFINE n == Cardinality(DOMAIN handles)
           m == Cardinality(DOMAIN handles')
           l == Len(queue)
           k == Len(queue')
<1>1. n \in Nat /\ l \in Nat
  BY TableFinite DEF TypeOK
<1>2. backend' = backend /\ file' = file => SendersAlive' = SendersAlive
  BY DEF SendersAlive
<1>3. CASE Exec
  <2>1. PICK c \in Command, o \in Op, r \in Reply : Executes(c, o, r) /\ TableMoves(c, o, r)
    BY <1>3, ExecSteps
  <2>2. m \in Nat /\ m <= n + 1 /\ (o # "open" => m <= n)
    BY <2>1, TableGrows
  <2>3. /\ thread = "running" /\ backend' = backend /\ file' = file
        /\ thread' = IF o = "shutdown" THEN "closing" ELSE thread
        /\ queue # <<>> /\ queue' = Tail(queue)
    BY <2>1 DEF Executes, Recv
  <2>4. k = l - 1
    BY <2>3, TailFacts DEF TypeOK
  <2>5. /\ ThreadLeft = 3 + 2 * l + n
        /\ ThreadLeft' = IF o = "shutdown" THEN 2 + m ELSE 3 + 2 * k + m
    BY <2>3 DEF ThreadLeft
  <2> HIDE DEF n, m, l, k
  <2>6. CASE o = "shutdown"
    <3>1. ThreadLeft' = 2 + m /\ m <= n
      BY <2>2, <2>5, <2>6
    <3>2. QED
      BY <1>1, <1>2, <2>2, <2>3, <2>5, <3>1
  <2>7. CASE o # "shutdown"
    <3>1. ThreadLeft' = 3 + 2 * k + m
      BY <2>5, <2>7
    <3>2. QED
      BY <1>1, <1>2, <2>2, <2>3, <2>4, <2>5, <3>1
  <2>8. QED
    BY <2>6, <2>7
<1>4. CASE ThreadConnects
  <2>1. queue' = <<>> /\ DOMAIN handles' = {} /\ backend' = backend /\ file' = file
    BY <1>4 DEF ThreadConnects, Starts, Unused, TableEmptyOutsideSession, ContextLive,
                threadVars, fileVars
  <2>2. m = 0 /\ k = 0
    BY <2>1, FS_EmptySet
  <2>3. ThreadLeft = 4 /\ ThreadLeft' \in {0, 3 + 2 * k + m}
    BY <1>4 DEF ThreadConnects, ThreadLeft
  <2> HIDE DEF n, m, l, k
  <2>4. QED
    BY <1>2, <2>1, <2>2, <2>3
<1>5. CASE Disconnected
  <2>1. ThreadLeft = 3 + 2 * l + n /\ ThreadLeft' = 2 + n /\ backend' = backend /\ file' = file
    BY <1>5 DEF Disconnected, ThreadLeft, fileVars
  <2> HIDE DEF n, m, l, k
  <2>2. QED
    BY <1>1, <1>2, <2>1
<1>6. CASE CloseAllStep
  <2>1. PICK id \in DOMAIN handles : CloseHandle(id)
    BY <1>6 DEF CloseAllStep
  <2>2. m = n - 1
    BY <2>1, TableShrinks
  <2>3. ThreadLeft = 2 + n /\ ThreadLeft' = 2 + m /\ backend' = backend /\ file' = file
    BY <1>6 DEF CloseAllStep, ThreadLeft, fileVars
  <2> HIDE DEF n, m, l, k
  <2>4. QED
    BY <1>1, <1>2, <2>2, <2>3
<1>7. CASE DestroyContext \/ ThreadExits
  <2>1. /\ \/ ThreadLeft = 2 + n /\ ThreadLeft' = 1
           \/ ThreadLeft = 1 /\ ThreadLeft' = 0
        /\ backend' = backend /\ file' = file
    BY <1>7 DEF DestroyContext, ThreadExits, ThreadLeft, fileVars
  <2> HIDE DEF n, m, l, k
  <2>2. QED
    BY <1>1, <1>2, <2>1
<1>8. QED
  BY <1>3, <1>4, <1>5, <1>6, <1>7 DEF ThreadNext

EndNearer ==
    ~SendersAlive => /\ ~SendersAlive'
                     /\ IF ThreadNext THEN ThreadLeft' < ThreadLeft ELSE ThreadLeft' = ThreadLeft

\* A session that nobody holds any more is over for good, and its thread on its way out: it
\* always has a step to take until it has exited, and every step brings the end nearer,
\* whatever was queued and open when the last clone went.
THEOREM SessionEnds ==
    Spec => /\ [](ThreadLeft \in Nat /\ (~SendersAlive /\ thread # "exited" => ThreadCan))
            /\ [][EndNearer]_vars
<1>1. IInv => ThreadLeft \in Nat /\ (~SendersAlive /\ thread # "exited" => ThreadCan)
  BY ThreadLeftType DEF IInv, TypeOK, ThreadCan
<1>2. IInv /\ RInv /\ Borrowed /\ [Next]_vars => [EndNearer]_vars
  <2> SUFFICES ASSUME IInv, RInv, Borrowed, Next, ~SendersAlive
               PROVE  /\ ~SendersAlive'
                      /\ IF ThreadNext THEN ThreadLeft' < ThreadLeft ELSE ThreadLeft' = ThreadLeft
    BY DEF EndNearer
  <2>1. CASE ThreadNext
    BY <2>1, ThreadGoesOn
  <2>2. CASE ~ThreadNext /\ CallerNext
    <3>1. thread' = thread /\ handles' = handles
      BY <2>2, CallerLeavesThread
    <3>2. Len(queue') = Len(queue) /\ ~SendersAlive'
      BY <2>2, SendersStayGone DEF IInv
    <3>3. QED
      BY <2>2, <3>1, <3>2 DEF ThreadLeft
  <2>3. CASE ~ThreadNext /\ Finished
    BY <2>3 DEF Finished, vars, threadVars, fileVars, ThreadLeft, SendersAlive
  <2>4. QED
    BY <2>1, <2>2, <2>3 DEF Next
<1>3. Spec => [](ThreadLeft \in Nat /\ (~SendersAlive /\ thread # "exited" => ThreadCan))
  BY <1>1, InductiveInvariant, PTL
<1>4. Spec => [][EndNearer]_vars
  BY <1>2, BorrowedInvariant, InductiveInvariant, RefinementInvariant, PTL DEF Spec
<1>5. QED
  BY <1>3, <1>4, PTL
=============================================================================
