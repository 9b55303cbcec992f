-------------------------- MODULE Connection_proofs --------------------------
(***************************************************************************)
(* Theorems about Connection, for every request and every endpoint that    *)
(* can be written.                                                         *)
(***************************************************************************)
EXTENDS Connection, SequenceTheorems, WellFoundedInduction, TLAPS

-----------------------------------------------------------------------------
(* The inductive invariant *)

\* What Connect makes of a request.
Parsed(r) == ParsedEndpoint(Endpoint(r.uri).rest)

Driver(r) ==
    IF Endpoint(r.uri).ok /\ Endpoint(r.uri).scheme \in DOMAIN Drivers
    THEN Drivers[Endpoint(r.uri).scheme] ELSE "none"

\* A connection is made by its own request: what the driver parsed is what libsmb2 gets.
OwnRequest ==
    /\ phase # "idle" =>
          config = IF Driver(request) = "smb" /\ Parsed(request).ok
                   THEN Config(request, Parsed(request)) ELSE None
    /\ phase \in {"start", "made", "share", "open"} /\ backend = "smb" =>
          Driver(request) = "smb" /\ Parsed(request).ok
    /\ phase \in {"made", "share"} => backend = "smb"
    /\ phase \in {"share", "open"} /\ backend = "smb" => applied = config

\* A new context starts with an empty register, and only its own calls set it.  While the
\* session is up no status in the register says that it is gone or was refused.
OwnRegister ==
    /\ phase \in {"made", "share"} => register = NoStatus
    /\ phase = "open" /\ backend = "smb" /\ register # NoStatus => setHere
    /\ phase = "open" /\ backend = "smb" /\ linkUp => register \notin Smb!Gone \cup Smb!Rejected

Accounted ==
    /\ contexts = IF backend = "smb" /\ phase \in {"made", "share", "open"} THEN 1 ELSE 0
    /\ network # "ready" => contexts = 0

IInv ==
    /\ TypeOK /\ OwnRequest /\ OwnRegister /\ Accounted
    /\ ReportedAsHappened /\ FatalOnlyWhenGone /\ StaleOnlyFromOwnSession

-----------------------------------------------------------------------------
(* What the tables say *)

\* An empty register is no status of the tables.
LEMMA EmptyRegister == Smb!FromStatus(NoStatus) = Smb!Unknown /\ Smb!FromName(NoStatus) = Smb!Unknown
<1>1. NoStatus \notin Smb!Status /\ NoStatus \notin Smb!Named
  BY NoStatusAssumption DEF Smb!Named
<1>2. Smb!FromStatus(NoStatus) = Smb!Unknown
  BY <1>1 DEF Smb!FromStatus, Smb!Status, Smb!NotFound, Smb!Denied, Smb!Rejected, Smb!Gone
<1>3. QED
  BY <1>1, <1>2 DEF Smb!FromName

\* A status is told by a kind of its own or by none, and only those that end a session or
\* refuse one by a kind that is fatal to it.
LEMMA StatusKind ==
    ASSUME NEW s
    PROVE  /\ Smb!FromStatus(s) \in Smb!Kinds \cup {Smb!Unknown}
           /\ s \notin Smb!Gone \cup Smb!Rejected => ~Smb!IsFatal(Smb!FromStatus(s))
  BY DEF Smb!FromStatus, Smb!Kinds, Smb!Unknown, Smb!IsFatal, Smb!NotFound, Smb!Denied,
         Smb!Rejected, Smb!Gone

LEMMA NameKind ==
    ASSUME NEW s
    PROVE  /\ Smb!FromName(s) \in Smb!Kinds \cup {Smb!Unknown}
           /\ s \notin Smb!Gone \cup Smb!Rejected => ~Smb!IsFatal(Smb!FromName(s))
           /\ s \in Smb!Named => Smb!FromName(s) = Smb!FromStatus(s)
  BY StatusKind DEF Smb!FromName, Smb!Unknown, Smb!IsFatal

LEMMA ErrnoKind ==
    ASSUME NEW rc
    PROVE  /\ Smb!FromErrno(rc) \in Smb!Kinds \cup {Smb!Unknown}
           /\ rc # "ECONNREFUSED" => ~Smb!IsFatal(Smb!FromErrno(rc))
  BY DEF Smb!FromErrno, Smb!Kinds, Smb!Unknown, Smb!IsFatal

\* Whatever the channels say, the answer is one of the kinds.
LEMMA PartsKind ==
    ASSUME NEW r, NEW t, NEW rc
    PROVE  Smb!FromParts(r, t, rc) \in Smb!Kinds
<1>1. /\ Smb!FromStatus(r) \in Smb!Kinds \cup {Smb!Unknown}
      /\ Smb!FromName(t) \in Smb!Kinds \cup {Smb!Unknown}
      /\ Smb!FromErrno(rc) \in Smb!Kinds \cup {Smb!Unknown}
  BY StatusKind, NameKind, ErrnoKind
<1>2. "ConnectionLost" \in Smb!Kinds /\ "Backend" \in Smb!Kinds
  BY DEF Smb!Kinds
<1>3. QED
  BY <1>1, <1>2 DEF Smb!FromParts

\* A failure is fatal only by a status that is, or by a code that is when no status tells.
LEMMA PartsFatal ==
    ASSUME NEW r, NEW t, NEW rc,
           r \notin Smb!Gone \cup Smb!Rejected, t \notin Smb!Gone \cup Smb!Rejected,
           rc # "ECONNREFUSED",
           rc = "-1" => Smb!FromStatus(r) # Smb!Unknown \/ Smb!FromName(t) # Smb!Unknown
    PROVE  ~Smb!IsFatal(Smb!FromParts(r, t, rc))
<1>1. /\ ~Smb!IsFatal(Smb!FromStatus(r)) /\ ~Smb!IsFatal(Smb!FromName(t))
      /\ ~Smb!IsFatal(Smb!FromErrno(rc)) /\ ~Smb!IsFatal("Backend")
  BY StatusKind, NameKind, ErrnoKind DEF Smb!IsFatal
<1>2. QED
  BY <1>1 DEF Smb!FromParts

\* What the caller is told of a kind of SmbErrors is that kind.
LEMMA KernelKind ==
    ASSUME NEW e
    PROVE  /\ e \in Smb!Kinds => KernelError(e) = e /\ e # "ok"
           /\ ~Smb!IsFatal(e) => ~Smb!IsFatal(KernelError(e))
  BY DEF KernelError, Smb!Kinds, Smb!IsFatal

\* Causes of different kinds have different names.
LEMMA Causes ==
    /\ Smb!Status \cap Smb!Errno = {}
    /\ "link" \notin Smb!Status \cup Smb!Errno /\ "none" \notin Smb!Status \cup Smb!Errno
  BY DEF Smb!Status, Smb!Errno, Smb!NotFound, Smb!Denied, Smb!Rejected, Smb!Gone, Smb!Unlisted

\* What is configured is a configuration.
LEMMA Configured == ASSUME NEW r, NEW parsed PROVE Config(r, parsed) # None
<1>1. "server" \in DOMAIN Config(r, parsed)
  BY DEF Config
<1>2. "server" \notin DOMAIN None
  BY DEF None
<1>3. QED
  BY <1>1, <1>2

LEMMA DriverKnown == ASSUME NEW r PROVE Driver(r) \in {"none", "file", "smb"}
<1>1. ASSUME NEW s \in DOMAIN Drivers PROVE Drivers[s] \in {"file", "smb"}
  BY <1>1 DEF Drivers, Register
<1>2. QED
  BY <1>1 DEF Driver

-----------------------------------------------------------------------------
(* What a step reports *)

Reports == ReportedAsHappened /\ FatalOnlyWhenGone /\ StaleOnlyFromOwnSession

\* The kinds that are fatal come from a libsmb2 call alone.
Harmless == (Smb!Kinds \ {"ConnectionLost", "Auth"}) \cup {"ok", "InvalidPath", "Io"}

LEMMA OutcomeReports ==
    ASSUME NEW e \in Harmless, Outcome(e)
    PROVE  Reports' /\ error' \in Smb!Kinds \cup {"ok", "InvalidPath", "Io"} /\ stale' \in BOOLEAN
<1>1. error' = e /\ cause' = "none" /\ ~stale' /\ stale' \in BOOLEAN
  BY DEF Outcome
<1>2. ~Smb!IsFatal(e) /\ e \in Smb!Kinds \cup {"ok", "InvalidPath", "Io"}
  BY DEF Harmless, Smb!IsFatal
<1>3. ~Smb!IsFatal(Told')
  BY <1>1, <1>2, KernelKind DEF Told
<1>4. FatalOnlyWhenGone'
  BY <1>3 DEF FatalOnlyWhenGone, ToCaller!FatalOnlyWhenGone, ToCaller!IsFatal, Smb!IsFatal
<1>5. ReportedAsHappened'
  BY <1>1, Causes DEF ReportedAsHappened, ToCaller!ReportedAsHappened, ToCaller!Status,
     ToCaller!Errno, Smb!Status, Smb!Errno, ToCaller!NotFound, ToCaller!Denied,
     ToCaller!Rejected, ToCaller!Gone, Smb!NotFound, Smb!Denied, Smb!Rejected, Smb!Gone,
     ToCaller!Unlisted, Smb!Unlisted
<1>6. QED
  BY <1>1, <1>2, <1>4, <1>5 DEF Reports, StaleOnlyFromOwnSession

\* Of a libsmb2 call the caller is told what SmbErrors says.
LEMMA ToldIsError ==
    ASSUME error' \in Smb!Kinds \cup {"ok"}
    PROVE  /\ Smb!ReportedAsHappened' => ReportedAsHappened'
           /\ Smb!FatalOnlyWhenGone' => FatalOnlyWhenGone'
<1>1. Told' = error'
  BY KernelKind DEF Told
<1>2. Smb!FatalOnlyWhenGone' => FatalOnlyWhenGone'
  BY <1>1 DEF FatalOnlyWhenGone, Smb!FatalOnlyWhenGone, ToCaller!FatalOnlyWhenGone,
     ToCaller!IsFatal, Smb!IsFatal
<1>3. Smb!ReportedAsHappened' => ReportedAsHappened'
  BY <1>1 DEF ReportedAsHappened, Smb!ReportedAsHappened, ToCaller!ReportedAsHappened,
     ToCaller!Status, ToCaller!Errno, ToCaller!FromStatus, ToCaller!FromErrno, ToCaller!Unknown,
     ToCaller!NotFound, ToCaller!Denied, ToCaller!Rejected, ToCaller!Gone, ToCaller!Unlisted,
     Smb!Status, Smb!Errno, Smb!FromStatus, Smb!FromErrno, Smb!Unknown,
     Smb!NotFound, Smb!Denied, Smb!Rejected, Smb!Gone, Smb!Unlisted
<1>4. QED
  BY <1>2, <1>3

\* A failure with a status, in the register or in the message.
LEMMA StatusReports ==
    ASSUME NEW r, NEW t, NEW rc, NEW s \in Smb!Status,
           cause' = s, error' = Smb!FromParts(r, t, rc),
           ~stale' => Smb!FromParts(r, t, rc) = Smb!FromParts(s, NoStatus, rc)
    PROVE  Smb!ReportedAsHappened'
  BY Causes DEF Smb!ReportedAsHappened, Smb!FromParts

\* A failure with nothing but a return value.
LEMMA BareReports ==
    ASSUME error' = Smb!FromParts(register, NoStatus, returned'), Smb!LeavesRegister,
           cause' = "link" \/ (cause' = returned' /\ returned' \in Smb!Errno)
    PROVE  Smb!ReportedAsHappened'
<1>1. ~stale' => Smb!FromStatus(register) = Smb!Unknown
  BY DEF Smb!LeavesRegister
<1>2. ~stale' => error' = IF returned' = "-1" THEN "ConnectionLost"
                          ELSE IF Smb!FromErrno(returned') # Smb!Unknown THEN Smb!FromErrno(returned')
                          ELSE "Backend"
  BY <1>1, EmptyRegister DEF Smb!FromParts
<1>3. "-1" \notin Smb!Errno
  BY DEF Smb!Errno
<1>4. QED
  BY <1>2, <1>3, Causes DEF Smb!ReportedAsHappened

\* Every call of a session reports what happened, and leaves in the register what is no
\* reason to give up a session that is up.
LEMMA SmbCalls ==
    ASSUME TypeOK, OwnRegister, phase = "open", backend = "smb", CallSmb
    PROVE  /\ Reports'
           /\ linkUp' \in BOOLEAN /\ stale' \in BOOLEAN /\ setHere' \in BOOLEAN
           /\ register' \in Smb!Status \cup {NoStatus}
           /\ error' \in Smb!Kinds \cup {"ok"}
           /\ register' # NoStatus => setHere'
           /\ linkUp' => register' \notin Smb!Gone \cup Smb!Rejected
<1> DEFINE Fatal == Smb!Gone \cup Smb!Rejected
<1>1. /\ linkUp \in BOOLEAN /\ setHere \in BOOLEAN /\ register \in Smb!Status \cup {NoStatus}
      /\ register # NoStatus => setHere
      /\ linkUp => register \notin Fatal
  BY DEF TypeOK, OwnRegister
<1>2. setHere' = (setHere \/ register' # register) /\ setHere' \in BOOLEAN
  BY <1>1 DEF CallSmb
<1>3. register' # NoStatus => setHere'
  BY <1>1, <1>2
<1>4. NoStatus \notin Fatal
  BY NoStatusAssumption DEF Smb!Status
<1>5. Smb!LeavesRegister => register' = register /\ stale' \in BOOLEAN /\ (stale' => setHere')
  BY <1>1, <1>2, EmptyRegister DEF Smb!LeavesRegister
<1>6. SUFFICES /\ Smb!ReportedAsHappened' /\ Smb!FatalOnlyWhenGone'
               /\ linkUp' \in BOOLEAN /\ stale' \in BOOLEAN /\ (stale' => setHere')
               /\ register' \in Smb!Status \cup {NoStatus}
               /\ error' \in Smb!Kinds \cup {"ok"}
               /\ linkUp' => register' \notin Fatal
  BY <1>2, <1>3, ToldIsError DEF Reports, StaleOnlyFromOwnSession
<1>7. CASE Smb!Succeeds
  <2>1. error' = "ok" /\ cause' = "none" /\ linkUp' = linkUp /\ Smb!LeavesRegister
    BY <1>7 DEF Smb!Succeeds
  <2>2. Smb!ReportedAsHappened' /\ Smb!FatalOnlyWhenGone'
    BY <2>1, Causes DEF Smb!ReportedAsHappened, Smb!FatalOnlyWhenGone, Smb!IsFatal
  <2>3. QED
    BY <1>1, <1>5, <2>1, <2>2
<1>8. CASE Smb!FailsByStatus
  <2>1. PICK s \in Smb!Answers, rc \in Smb!ReturnCode :
           /\ rc \in Smb!RcWith(s) /\ cause' = s /\ returned' = rc
           /\ register' = s /\ stale' = FALSE /\ linkUp' = (s \notin Smb!Gone)
           /\ error' = Smb!FromParts(s, NoStatus, rc)
    BY <1>8 DEF Smb!FailsByStatus, Smb!RcWith
  <2>2. s \in Smb!Status \ Smb!Rejected /\ rc # "ECONNREFUSED"
        /\ (rc = "-1" => Smb!FromStatus(s) # Smb!Unknown)
    BY <2>1 DEF Smb!Answers, Smb!RcWith
  <2>3. error' \in Smb!Kinds
    BY <2>1, PartsKind
  <2>4. Smb!ReportedAsHappened'
    BY <2>1, <2>2, StatusReports
  <2>5. linkUp' => ~Smb!IsFatal(error')
    BY <1>4, <2>1, <2>2, PartsFatal
  <2>6. linkUp' => register' \notin Fatal
    BY <2>1, <2>2
  <2>7. linkUp' \in BOOLEAN /\ stale' \in BOOLEAN /\ register' \in Smb!Status
    BY <2>1, <2>2
  <2>8. QED
    BY <2>1, <2>3, <2>4, <2>5, <2>6, <2>7 DEF Smb!FatalOnlyWhenGone
<1>9. CASE Smb!FailsByMessage
  <2>1. PICK s \in Smb!Answers \cap Smb!Named, rc \in Smb!ReturnCode :
           /\ linkUp /\ rc \in Smb!RcWith(s) /\ cause' = s /\ returned' = rc
           /\ error' = Smb!FromParts(register, s, rc)
           /\ linkUp' = (s \notin Smb!Gone) /\ Smb!LeavesRegister
    BY <1>9 DEF Smb!FailsByMessage, Smb!RcWith
  <2>2. Smb!FromName(s) = Smb!FromStatus(s)
    BY <2>1, NameKind
  <2>3. s \in Smb!Status \ Smb!Rejected /\ rc # "ECONNREFUSED"
        /\ (rc = "-1" => Smb!FromName(s) # Smb!Unknown)
    BY <2>1, <2>2 DEF Smb!Answers, Smb!RcWith
  <2>4. error' \in Smb!Kinds
    BY <2>1, PartsKind
  <2>5. ~stale' => Smb!FromStatus(register) = Smb!Unknown
    BY <2>1 DEF Smb!LeavesRegister
  <2>6. ~stale' => Smb!FromParts(register, s, rc) = Smb!FromParts(s, NoStatus, rc)
    BY <2>2, <2>5, EmptyRegister DEF Smb!FromParts
  <2>7. Smb!ReportedAsHappened'
    BY <2>1, <2>3, <2>6, StatusReports
  <2>8. linkUp' => ~Smb!IsFatal(error')
    BY <1>1, <2>1, <2>3, PartsFatal
  <2>9. linkUp' \in BOOLEAN
    BY <2>1
  <2>10. QED
    BY <1>1, <1>5, <2>1, <2>4, <2>7, <2>8, <2>9 DEF Smb!FatalOnlyWhenGone
<1>10. CASE Smb!FailsByErrno
  <2>1. PICK rc \in Smb!Errno \ {"ECONNREFUSED"} :
           /\ linkUp /\ cause' = rc /\ returned' = rc
           /\ error' = Smb!FromParts(register, NoStatus, rc)
    BY <1>10 DEF Smb!FailsByErrno
  <2>2. Smb!LeavesRegister /\ linkUp' = linkUp
    BY <1>10 DEF Smb!FailsByErrno
  <2>3. error' \in Smb!Kinds
    BY <2>1, PartsKind
  <2>4. Smb!ReportedAsHappened'
    BY <2>1, <2>2, BareReports
  <2>5. rc # "-1" /\ rc # "ECONNREFUSED"
    BY DEF Smb!Errno
  <2>6. ~Smb!IsFatal(error')
    BY <1>1, <1>4, <2>1, <2>5, PartsFatal
  <2>7. QED
    BY <1>1, <1>5, <2>1, <2>2, <2>3, <2>4, <2>6 DEF Smb!FatalOnlyWhenGone
<1>11. CASE Smb!LinkFails
  <2>1. PICK rc : returned' = rc /\ error' = Smb!FromParts(register, NoStatus, rc)
    BY <1>11 DEF Smb!LinkFails
  <2>2. Smb!LeavesRegister /\ cause' = "link"
    BY <1>11 DEF Smb!LinkFails
  <2>3. linkUp' = FALSE
    BY <1>11 DEF Smb!LinkFails
  <2>4. error' \in Smb!Kinds
    BY <2>1, PartsKind
  <2>5. error' = Smb!FromParts(register, NoStatus, returned')
    BY <2>1
  <2>6. Smb!ReportedAsHappened'
    BY <2>2, <2>5, BareReports
  <2>7. QED
    BY <1>1, <1>5, <2>2, <2>3, <2>4, <2>6 DEF Smb!FatalOnlyWhenGone
<1>12. QED
  BY <1>7, <1>8, <1>9, <1>10, <1>11 DEF CallSmb, Smb!Next

-----------------------------------------------------------------------------
(* The invariant is inductive *)

LEMMA InitInvariant == Init => IInv
<1> SUFFICES ASSUME Init PROVE IInv
  OBVIOUS
<1>1. TypeOK
  BY DEF Init, TypeOK
<1>2. OwnRequest /\ OwnRegister /\ Accounted
  BY DEF Init, OwnRequest, OwnRegister, Accounted
<1>3. Told = "ok" /\ stale = FALSE /\ cause = "none"
  BY DEF Init, Told
<1>4. FatalOnlyWhenGone /\ StaleOnlyFromOwnSession
  BY <1>3 DEF FatalOnlyWhenGone, ToCaller!FatalOnlyWhenGone, ToCaller!IsFatal,
     StaleOnlyFromOwnSession
<1>5. ReportedAsHappened
  BY <1>3 DEF ReportedAsHappened, ToCaller!ReportedAsHappened, ToCaller!Status, ToCaller!Errno,
     ToCaller!NotFound, ToCaller!Denied, ToCaller!Rejected, ToCaller!Gone, ToCaller!Unlisted
<1>6. QED
  BY <1>1, <1>2, <1>4, <1>5 DEF IInv

LEMMA RefuseKeeps ==
    ASSUME NEW e \in Harmless, Refuse(e)
    PROVE  /\ Reports' /\ error' \in Smb!Kinds \cup {"ok", "InvalidPath", "Io"}
           /\ stale' \in BOOLEAN /\ linkUp' = FALSE /\ phase' = "failed"
  BY OutcomeReports DEF Refuse

LEMMA ConnectKeeps == ASSUME IInv, NEW r \in Requests, Connect(r) PROVE IInv'
<1> DEFINE refused == \/ ~Endpoint(r.uri).ok
                      \/ Driver(r) = "smb" /\ ~Parsed(r).ok
                      \/ Driver(r) = "file" /\ Endpoint(r.uri).rest = <<>>
           known == Endpoint(r.uri).ok /\ Endpoint(r.uri).scheme \in DOMAIN Drivers
<1>1. /\ phase \in {"idle", "failed"} /\ request' = r /\ backend' = Driver(r)
      /\ applied' = None /\ UNCHANGED <<register, contexts, setHere, network>>
      /\ config' = IF Driver(r) = "smb" /\ ~refused THEN Config(r, Parsed(r)) ELSE None
  BY DEF Connect, Driver, Parsed, NoContext
<1>2. \/ refused /\ Refuse("InvalidPath")
      \/ ~refused /\ ~known /\ Refuse("Unsupported")
      \/ ~refused /\ known /\ Outcome("ok") /\ phase' = "start" /\ linkUp' = FALSE
  <2>1. CASE refused
    BY <2>1 DEF Connect, Driver, Parsed
  <2>2. CASE ~refused /\ ~known
    BY <2>2 DEF Connect, Driver, Parsed
  <2>3. CASE ~refused /\ known
    BY <2>3 DEF Connect, Driver, Parsed
  <2>4. QED
    BY <2>1, <2>2, <2>3
<1>3. Driver(r) = "smb" => known
  BY DEF Driver
<1> HIDE DEF refused, known
<1>4. {"InvalidPath", "Unsupported", "ok"} \subseteq Harmless
  BY DEF Harmless, Smb!Kinds
<1>5. /\ Reports' /\ error' \in Smb!Kinds \cup {"ok", "InvalidPath", "Io"}
      /\ stale' \in BOOLEAN /\ linkUp' = FALSE /\ phase' \in {"failed", "start"}
  BY <1>2, <1>4, RefuseKeeps, OutcomeReports
<1>6. phase' = "start" => ~refused
  BY <1>2 DEF Refuse
<1>7. Driver(r) = "smb" => (refused <=> ~Parsed(r).ok)
  BY <1>3 DEF refused, known
<1>8. contexts = 0
  BY <1>1 DEF IInv, Accounted
<1>9. TypeOK'
  BY <1>1, <1>5, DriverKnown DEF IInv, TypeOK
<1>10. OwnRequest'
  BY <1>1, <1>5, <1>6, <1>7 DEF OwnRequest
<1>11. OwnRegister' /\ Accounted'
  BY <1>1, <1>5, <1>8 DEF OwnRegister, Accounted
<1>12. QED
  BY <1>5, <1>9, <1>10, <1>11 DEF IInv, Reports

LEMMA OpenRootKeeps == ASSUME IInv, OpenRoot PROVE IInv'
<1>1. /\ phase = "start" /\ backend = "file" /\ applied' = None
      /\ UNCHANGED <<register, contexts, setHere, backend, request, config, network>>
  BY DEF OpenRoot, NoContext
<1>2. \/ Outcome("ok") /\ phase' = "open" /\ linkUp' = TRUE
      \/ \E e \in {"NotFound", "Io", "NotADirectory"} : Refuse(e)
  BY DEF OpenRoot
<1>3. {"NotFound", "Io", "NotADirectory", "ok"} \subseteq Harmless
  BY DEF Harmless, Smb!Kinds
<1>4. /\ Reports' /\ error' \in Smb!Kinds \cup {"ok", "InvalidPath", "Io"} /\ stale' \in BOOLEAN
      /\ (phase' = "open" /\ linkUp' = TRUE) \/ (phase' = "failed" /\ linkUp' = FALSE)
  BY <1>2, <1>3, RefuseKeeps, OutcomeReports
<1>5. contexts = 0
  BY <1>1 DEF IInv, Accounted
<1>6. TypeOK'
  BY <1>1, <1>4 DEF IInv, TypeOK
<1>7. OwnRequest'
  BY <1>1, <1>4 DEF IInv, OwnRequest
<1>8. OwnRegister' /\ Accounted'
  BY <1>1, <1>4, <1>5 DEF OwnRegister, Accounted
<1>9. QED
  BY <1>4, <1>6, <1>7, <1>8 DEF IInv, Reports

LEMMA MakeContextKeeps == ASSUME IInv, MakeContext PROVE IInv'
<1>1. /\ phase = "start" /\ backend = "smb" /\ UNCHANGED <<backend, request, config>>
      /\ network' \in {"ready", "broken"} \cup {network}
  BY DEF MakeContext, EnsureNetwork
<1>2. network = "ready" => network' = "ready"
  BY <1>1 DEF MakeContext, EnsureNetwork
<1>3. contexts = 0 /\ linkUp = FALSE /\ config # None /\ network \in {"new", "ready", "broken"}
  BY <1>1, Configured DEF IInv, Accounted, TypeOK, OwnRequest
<1>4. \/ /\ network' = "ready" /\ Outcome("ok") /\ phase' = "made" /\ contexts' = contexts + 1
         /\ register' = NoStatus /\ setHere' = FALSE /\ UNCHANGED <<linkUp, applied>>
      \/ Refuse("Backend") /\ NoContext
  BY DEF MakeContext
<1>5. {"ok", "Backend"} \subseteq Harmless
  BY DEF Harmless, Smb!Kinds
<1>6. /\ Reports' /\ error' \in Smb!Kinds \cup {"ok", "InvalidPath", "Io"} /\ stale' \in BOOLEAN
      /\ \/ /\ network' = "ready" /\ phase' = "made" /\ contexts' = 1
            /\ register' = NoStatus /\ setHere' = FALSE
         \/ phase' = "failed" /\ UNCHANGED <<register, contexts, setHere>>
      /\ linkUp' = FALSE
  <2>1. CASE Refuse("Backend") /\ NoContext
    BY <1>5, <2>1, RefuseKeeps DEF NoContext
  <2>2. CASE /\ network' = "ready" /\ Outcome("ok") /\ phase' = "made" /\ contexts' = contexts + 1
             /\ register' = NoStatus /\ setHere' = FALSE /\ UNCHANGED <<linkUp, applied>>
    BY <1>3, <1>5, <2>2, OutcomeReports
  <2>3. QED
    BY <1>4, <2>1, <2>2
<1>7. TypeOK'
  <2> DEFINE Registers == Smb!Status \cup {NoStatus}
  <2>1. register \in Registers /\ setHere \in BOOLEAN
    BY DEF IInv, TypeOK
  <2>2. NoStatus \in Registers
    OBVIOUS
  <2> HIDE DEF Registers
  <2>3. linkUp' \in BOOLEAN /\ setHere' \in BOOLEAN /\ phase' \in {"made", "failed"}
        /\ register' \in Registers
    BY <1>6, <2>1, <2>2
  <2>4. contexts' \in Nat
    BY <1>3, <1>6
  <2>5. network' \in {"new", "ready", "broken"} /\ backend' \in {"none", "file", "smb"}
        /\ request' \in Requests /\ config' # None
    BY <1>1, <1>3 DEF IInv, TypeOK
  <2>6. QED
    BY <1>6, <2>3, <2>4, <2>5 DEF TypeOK, Registers
<1>8. OwnRequest'
  BY <1>1, <1>6 DEF IInv, OwnRequest
<1>9. OwnRegister' /\ Accounted'
  BY <1>1, <1>2, <1>3, <1>6 DEF OwnRegister, Accounted
<1>10. QED
  BY <1>6, <1>7, <1>8, <1>9 DEF IInv, Reports

LEMMA ConfigureKeeps == ASSUME IInv, Configure PROVE IInv'
<1>1. /\ phase = "made" /\ UNCHANGED <<backend, request, config, network, register, setHere>>
      /\ \/ Refuse("InvalidPath") /\ DropContext
         \/ /\ Outcome("ok") /\ phase' = "share" /\ applied' = config
            /\ UNCHANGED <<linkUp, contexts>>
  BY DEF Configure
<1>2. /\ backend = "smb" /\ contexts = 1 /\ network = "ready" /\ linkUp = FALSE
      /\ register = NoStatus /\ config # None
  BY <1>1 DEF IInv, TypeOK, OwnRequest, OwnRegister, Accounted
<1>3. {"ok", "InvalidPath"} \subseteq Harmless
  BY DEF Harmless
<1>4. /\ Reports' /\ error' \in Smb!Kinds \cup {"ok", "InvalidPath", "Io"} /\ stale' \in BOOLEAN
      /\ linkUp' = FALSE
      /\ \/ phase' = "failed" /\ contexts' = 0
         \/ phase' = "share" /\ contexts' = 1 /\ applied' = config
  <2>1. CASE Refuse("InvalidPath") /\ DropContext
    <3>1. contexts' = 0
      BY <1>2, <2>1 DEF DropContext
    <3>2. QED
      BY <1>3, <2>1, <3>1, RefuseKeeps
  <2>2. CASE /\ Outcome("ok") /\ phase' = "share" /\ applied' = config
             /\ UNCHANGED <<linkUp, contexts>>
    BY <1>2, <1>3, <2>2, OutcomeReports
  <2>3. QED
    BY <1>1, <2>1, <2>2
<1>5. TypeOK'
  <2>1. contexts' \in Nat
    BY <1>4
  <2>2. phase' \in {"failed", "share"}
    BY <1>4
  <2>3. QED
    BY <1>1, <1>2, <1>4, <2>1, <2>2 DEF IInv, TypeOK
<1>6. OwnRequest'
  BY <1>1, <1>2, <1>4 DEF IInv, OwnRequest
<1>7. OwnRegister' /\ Accounted'
  BY <1>1, <1>2, <1>4 DEF OwnRegister, Accounted
<1>8. QED
  BY <1>4, <1>5, <1>6, <1>7 DEF IInv, Reports

\* The register is empty when the share is asked for: the failure is told by its own status
\* or as a lost connection, and nothing is fatal to a session that never was.
LEMMA ShareFailsReports ==
    ASSUME register = NoStatus, ShareFails
    PROVE  /\ Reports' /\ error' \in Smb!Kinds /\ stale' = FALSE /\ linkUp' = FALSE
           /\ phase' = "failed" /\ contexts' = contexts - 1
           /\ register' \in Smb!Status \cup {NoStatus}
           /\ setHere' \in {TRUE, setHere}
<1>1. linkUp' = FALSE /\ phase' = "failed" /\ contexts' = contexts - 1
  BY DEF ShareFails, DropContext
<1>2. CASE \E s \in Smb!Rejected \cup Smb!NotFound \cup Smb!Denied :
              \E rc \in Smb!RcWith(s) \cup IF s \in Smb!Rejected THEN {"ECONNREFUSED"} ELSE {} :
                 /\ cause' = s /\ returned' = rc
                 /\ register' = s /\ stale' = FALSE /\ setHere' = TRUE
                 /\ error' = Smb!FromParts(s, NoStatus, rc)
  <2>1. PICK s, rc :
           /\ s \in Smb!Rejected \cup Smb!NotFound \cup Smb!Denied
           /\ cause' = s /\ register' = s /\ stale' = FALSE /\ setHere' = TRUE
           /\ error' = Smb!FromParts(s, NoStatus, rc)
    BY <1>2
  <2>2. s \in Smb!Status
    BY <2>1 DEF Smb!Status
  <2>3. error' \in Smb!Kinds /\ Smb!ReportedAsHappened'
    BY <2>1, <2>2, PartsKind, StatusReports
  <2>4. Reports'
    BY <1>1, <2>1, <2>3, ToldIsError
       DEF Reports, StaleOnlyFromOwnSession, Smb!FatalOnlyWhenGone
  <2>5. QED
    BY <1>1, <2>1, <2>2, <2>3, <2>4
<1>3. CASE /\ cause' = "link" /\ returned' = "-1"
           /\ error' = Smb!FromParts(register, NoStatus, "-1")
           /\ Smb!LeavesRegister /\ UNCHANGED setHere
  <2>1. error' \in Smb!Kinds /\ error' = Smb!FromParts(register, NoStatus, returned')
    BY <1>3, PartsKind
  <2>2. Smb!ReportedAsHappened'
    BY <1>3, <2>1, BareReports
  <2>3. stale' = FALSE /\ register' = NoStatus /\ setHere' = setHere
    BY <1>3, EmptyRegister DEF Smb!LeavesRegister
  <2>4. Reports'
    BY <1>1, <2>1, <2>2, <2>3, ToldIsError
       DEF Reports, StaleOnlyFromOwnSession, Smb!FatalOnlyWhenGone
  <2>5. QED
    BY <1>1, <2>1, <2>3, <2>4
<1>4. QED
  BY <1>2, <1>3 DEF ShareFails

LEMMA ConnectShareKeeps == ASSUME IInv, ConnectShare PROVE IInv'
<1>1. /\ phase = "share" /\ UNCHANGED <<backend, request, config, network>>
      /\ \/ /\ Outcome("ok") /\ phase' = "open" /\ linkUp' = TRUE
            /\ UNCHANGED <<register, applied, contexts, setHere>>
         \/ ShareFails
  BY DEF ConnectShare
<1>2. /\ backend = "smb" /\ contexts = 1 /\ network = "ready" /\ register = NoStatus
      /\ setHere \in BOOLEAN
  BY <1>1 DEF IInv, TypeOK, OwnRequest, OwnRegister, Accounted
<1>3. "ok" \in Harmless
  BY DEF Harmless
<1>4. /\ Reports' /\ error' \in Smb!Kinds \cup {"ok", "InvalidPath", "Io"} /\ stale' \in BOOLEAN
      /\ \/ /\ phase' = "open" /\ contexts' = 1 /\ linkUp' = TRUE
            /\ UNCHANGED <<register, applied>>
         \/ phase' = "failed" /\ contexts' = 0 /\ linkUp' = FALSE
      /\ register' \in Smb!Status \cup {NoStatus} /\ setHere' \in BOOLEAN
  <2>1. CASE ShareFails
    <3>1. contexts' = 0
      BY <1>2, <2>1 DEF ShareFails, DropContext
    <3>2. QED
      BY <1>2, <2>1, <3>1, ShareFailsReports
  <2>2. CASE /\ Outcome("ok") /\ phase' = "open" /\ linkUp' = TRUE
             /\ UNCHANGED <<register, applied, contexts, setHere>>
    BY <1>2, <1>3, <2>2, OutcomeReports
  <2>3. QED
    BY <1>1, <2>1, <2>2
<1>5. TypeOK'
  <2>1. contexts' \in Nat
    BY <1>4
  <2>2. phase' \in {"failed", "open"} /\ linkUp' \in BOOLEAN /\ (linkUp' => phase' = "open")
    BY <1>4
  <2>3. QED
    BY <1>1, <1>4, <2>1, <2>2 DEF IInv, TypeOK
<1>6. OwnRequest'
  BY <1>1, <1>4 DEF IInv, OwnRequest
<1>7. NoStatus \notin Smb!Gone \cup Smb!Rejected
  BY NoStatusAssumption DEF Smb!Status
<1>8. OwnRegister' /\ Accounted'
  BY <1>1, <1>2, <1>4, <1>7 DEF OwnRegister, Accounted
<1>9. QED
  BY <1>4, <1>5, <1>6, <1>8 DEF IInv, Reports

LEMMA CallSmbKeeps == ASSUME IInv, CallSmb PROVE IInv'
<1>1. /\ phase = "open" /\ backend = "smb"
      /\ UNCHANGED <<phase, backend, request, config, applied, network, contexts>>
  BY DEF CallSmb
<1>2. /\ Reports'
      /\ linkUp' \in BOOLEAN /\ stale' \in BOOLEAN /\ setHere' \in BOOLEAN
      /\ register' \in Smb!Status \cup {NoStatus}
      /\ error' \in Smb!Kinds \cup {"ok"}
      /\ register' # NoStatus => setHere'
      /\ linkUp' => register' \notin Smb!Gone \cup Smb!Rejected
  BY <1>1, SmbCalls DEF IInv
<1>3. TypeOK'
  BY <1>1, <1>2 DEF IInv, TypeOK
<1>4. OwnRequest' /\ Accounted'
  BY <1>1 DEF IInv, OwnRequest, Accounted
<1>5. OwnRegister'
  BY <1>1, <1>2 DEF OwnRegister
<1>6. QED
  BY <1>2, <1>3, <1>4, <1>5 DEF IInv, Reports

LEMMA CallLocalKeeps == ASSUME IInv, CallLocal PROVE IInv'
<1>1. /\ phase = "open" /\ backend = "file"
      /\ UNCHANGED <<linkUp, register, phase, backend, request, config, applied, network>>
      /\ UNCHANGED <<contexts, setHere>>
  BY DEF CallLocal
<1>2. PICK e \in Harmless : Outcome(e)
  <2>1. \A kind \in IoKind : MapIo(kind) \in Harmless
    BY DEF IoKind, MapIo, Harmless, Smb!Kinds
  <2>2. "ok" \in Harmless /\ "Io" \in Harmless
    BY DEF Harmless
  <2>3. QED
    BY <2>1, <2>2 DEF CallLocal
<1>3. Reports' /\ error' \in Smb!Kinds \cup {"ok", "InvalidPath", "Io"} /\ stale' \in BOOLEAN
  BY <1>2, OutcomeReports
<1>4. TypeOK'
  BY <1>1, <1>3 DEF IInv, TypeOK
<1>5. OwnRequest' /\ Accounted' /\ OwnRegister'
  BY <1>1 DEF IInv, OwnRequest, Accounted, OwnRegister
<1>6. QED
  BY <1>3, <1>4, <1>5 DEF IInv, Reports

LEMMA CloseKeeps == ASSUME IInv, Close PROVE IInv'
<1>1. /\ phase = "open" /\ phase' = "idle" /\ linkUp' = FALSE /\ Outcome("ok")
      /\ UNCHANGED <<register, backend, request, config, network, setHere>>
  BY DEF Close
<1>2. /\ contexts = IF backend = "smb" THEN 1 ELSE 0
      /\ contexts' = IF backend = "smb" THEN contexts - 1 ELSE contexts
  BY <1>1 DEF Close, DropContext, IInv, Accounted
<1>3. "ok" \in Harmless
  BY DEF Harmless
<1>4. Reports' /\ error' \in Smb!Kinds \cup {"ok", "InvalidPath", "Io"} /\ stale' \in BOOLEAN
  BY <1>1, <1>3, OutcomeReports
<1>5. contexts' = 0
  BY <1>2
<1>6. contexts' \in Nat
  BY <1>5
<1>7. TypeOK'
  BY <1>1, <1>4, <1>6 DEF IInv, TypeOK
<1>8. OwnRequest' /\ Accounted' /\ OwnRegister'
  BY <1>1, <1>5 DEF IInv, OwnRequest, Accounted, OwnRegister
<1>9. QED
  BY <1>4, <1>7, <1>8 DEF IInv, Reports

LEMMA NextInvariant == IInv /\ [Next]_vars => IInv'
<1> SUFFICES ASSUME IInv, [Next]_vars PROVE IInv'
  OBVIOUS
<1>1. CASE Next
  BY <1>1, ConnectKeeps, OpenRootKeeps, MakeContextKeeps, ConfigureKeeps, ConnectShareKeeps,
     CallSmbKeeps, CallLocalKeeps, CloseKeeps DEF Next
<1>2. CASE UNCHANGED vars
  BY <1>2 DEF vars, smb, IInv, TypeOK, OwnRequest, OwnRegister, Accounted, ReportedAsHappened,
     FatalOnlyWhenGone, StaleOnlyFromOwnSession, ToCaller!ReportedAsHappened,
     ToCaller!FatalOnlyWhenGone, Told
<1>3. QED
  BY <1>1, <1>2

\* Every state of every session satisfies the invariant.
THEOREM InductiveInvariant == Spec => []IInv
<1>1. QED
  BY InitInvariant, NextInvariant, PTL DEF Spec

\* A failure of any kind, while a connection is made and later, is told the caller as what
\* it was: through map_errors, from_parts and KernelError.
THEOREM FailuresToldAsHappened == Spec => []ReportedAsHappened
<1>1. IInv => ReportedAsHappened
  BY DEF IInv
<1>2. QED
  BY <1>1, InductiveInvariant, PTL

\* Variables keep their types, whatever is requested.
THEOREM TypeCorrect == Spec => []TypeOK
<1>1. IInv => TypeOK
  BY DEF IInv
<1>2. QED
  BY <1>1, InductiveInvariant, PTL

\* is_fatal_to_session is true of what a caller is told only when its session is gone.
THEOREM FatalMeansGone == Spec => []FatalOnlyWhenGone
<1>1. IInv => FatalOnlyWhenGone
  BY DEF IInv
<1>2. QED
  BY <1>1, InductiveInvariant, PTL

\* A register that stands in the way of the truth was set by a call of this session.
THEOREM StaleIsOwn == Spec => []StaleOnlyFromOwnSession
<1>1. IInv => StaleOnlyFromOwnSession
  BY DEF IInv
<1>2. QED
  BY <1>1, InductiveInvariant, PTL

\* No way in or out of a connection leaks a libsmb2 context or destroys one twice.
THEOREM NoContextLeaks == Spec => []ContextsAccounted
<1>1. IInv => ContextsAccounted
  BY DEF IInv, Accounted, ContextsAccounted
<1>2. QED
  BY <1>1, InductiveInvariant, PTL

-----------------------------------------------------------------------------
(* Looking for a separator *)

Lacks(s, sep) == \A i \in DOMAIN s : s[i] # sep

\* A set of naturals has a least element, and Min is it.
LEMMA Least ==
    ASSUME NEW I \in SUBSET Nat, I # {}
    PROVE  Min(I) \in I /\ \A j \in I : Min(I) <= j
<1>1. IsWellFoundedOn(OpToRel(<, Nat), Nat)
  BY NatLessThanWellFounded
<1>2. PICK x \in I : \A y \in I : ~(<<y, x>> \in OpToRel(<, Nat))
  BY <1>1, WFMin, Zenon
<1>3. \A y \in I : ~(y < x)
  BY <1>2 DEF OpToRel
<1>4. \A y \in I : x <= y
  BY <1>3
<1>5. QED
  BY <1>4 DEF Min

\* Index is the first place where the separator is, or 0 where it is not.
LEMMA IndexIsFirst ==
    ASSUME NEW S, NEW s \in Seq(S), NEW sep
    PROVE  /\ Index(s, sep) \in 0..Len(s)
           /\ Index(s, sep) = 0 <=> Lacks(s, sep)
           /\ Index(s, sep) # 0 => s[Index(s, sep)] = sep
           /\ \A i \in 1..Len(s) : s[i] = sep => Index(s, sep) # 0 /\ Index(s, sep) <= i
<1> DEFINE I == {i \in 1..Len(s) : s[i] = sep}
<1>1. Len(s) \in Nat /\ DOMAIN s = 1..Len(s)
  BY LenProperties
<1>2. Index(s, sep) = IF I # {} THEN Min(I) ELSE 0
  BY DEF Index, SelectInSeq
<1>3. I \in SUBSET Nat
  BY <1>1
<1>4. CASE I = {}
  <2>1. Index(s, sep) = 0 /\ \A i \in 1..Len(s) : s[i] # sep
    BY <1>2, <1>4
  <2>2. QED
    BY <1>1, <2>1 DEF Lacks
<1>5. CASE I # {}
  <2>1. Min(I) \in I /\ \A j \in I : Min(I) <= j
    BY <1>3, <1>5, Least
  <2>2. Index(s, sep) = Min(I)
    BY <1>2, <1>5
  <2>3. QED
    BY <1>1, <2>1, <2>2 DEF Lacks
<1>6. QED
  BY <1>4, <1>5

\* Where the tokens of a concatenation come from.
LEMMA ConcatAt ==
    ASSUME NEW S, NEW a \in Seq(S), NEW b \in Seq(S)
    PROVE  /\ a \o b \in Seq(S) /\ Len(a \o b) = Len(a) + Len(b)
           /\ \A i \in 1..Len(a) : (a \o b)[i] = a[i]
           /\ \A i \in 1..Len(b) : (a \o b)[Len(a) + i] = b[i]
<1> DEFINE s == a \o b
<1>1. /\ s \in Seq(S) /\ Len(s) = Len(a) + Len(b)
      /\ \A i \in 1..(Len(a) + Len(b)) : s[i] = IF i <= Len(a) THEN a[i] ELSE b[i - Len(a)]
  BY ConcatProperties
<1> HIDE DEF s
<1>2. Len(a) \in Nat /\ Len(b) \in Nat
  BY LenProperties
<1>3. \A i \in 1..Len(a) : s[i] = a[i]
  BY <1>1, <1>2
<1>4. ASSUME NEW i \in 1..Len(b) PROVE s[Len(a) + i] = b[i]
  <2>1. /\ Len(a) + i \in 1..(Len(a) + Len(b)) /\ ~(Len(a) + i <= Len(a))
        /\ (Len(a) + i) - Len(a) = i
    BY <1>2
  <2>2. QED
    BY <1>1, <2>1
<1>5. QED
  BY <1>1, <1>3, <1>4 DEF s

\* What split_once makes of a text whose first part lacks the separator.
LEMMA Split ==
    ASSUME NEW S, NEW a \in Seq(S), NEW b \in Seq(S), NEW sep \in S, Lacks(a, sep)
    PROVE  LET s == a \o <<sep>> \o b
           IN  Index(s, sep) = Len(a) + 1 /\ Before(s, sep) = a /\ After(s, sep) = b
<1> DEFINE m == <<sep>>
           am == a \o m
           s == am \o b
<1>1. m \in Seq(S) /\ Len(m) = 1 /\ m[1] = sep
  OBVIOUS
<1> HIDE DEF m
<1>2. Len(a) \in Nat /\ Len(b) \in Nat /\ DOMAIN a = 1..Len(a)
  BY LenProperties
<1>3. /\ am \in Seq(S) /\ Len(am) = Len(a) + 1
      /\ \A i \in 1..Len(a) : am[i] = a[i]
      /\ am[Len(a) + 1] = sep
  <2>1. /\ am \in Seq(S) /\ Len(am) = Len(a) + Len(m)
        /\ \A i \in 1..Len(a) : am[i] = a[i]
        /\ \A i \in 1..Len(m) : am[Len(a) + i] = m[i]
    <3>1. m \in Seq(S)
      BY <1>1
    <3>2. am \in Seq(S) /\ Len(am) = Len(a) + Len(m)
      BY <3>1, ConcatProperties
    <3>3. \A i \in 1..Len(a) : am[i] = a[i]
      BY <3>1, ConcatAt
    <3>4. \A i \in 1..Len(m) : am[Len(a) + i] = m[i]
      BY <3>1, ConcatAt
    <3>5. QED
      BY <3>2, <3>3, <3>4
  <2> HIDE DEF am
  <2>2. 1 \in 1..Len(m)
    BY <1>1
  <2>3. QED
    BY <1>1, <2>1, <2>2
<1> HIDE DEF am
<1>4. /\ s \in Seq(S) /\ Len(s) = Len(am) + Len(b)
      /\ \A i \in 1..Len(am) : s[i] = am[i]
      /\ \A i \in 1..Len(b) : s[Len(am) + i] = b[i]
  <2>1. s \in Seq(S) /\ Len(s) = Len(am) + Len(b)
    BY <1>3, ConcatProperties
  <2>2. \A i \in 1..Len(am) : s[i] = am[i]
    BY <1>3, ConcatAt
  <2>3. \A i \in 1..Len(b) : s[Len(am) + i] = b[i]
    BY <1>3, ConcatAt
  <2>4. QED
    BY <2>1, <2>2, <2>3
<1> HIDE DEF s
<1>5. 1..Len(a) \subseteq 1..Len(am) /\ Len(a) + 1 \in 1..Len(am)
  BY <1>2, <1>3
<1>6. /\ \A i \in 1..Len(a) : s[i] = a[i]
      /\ s[Len(a) + 1] = sep
  BY <1>3, <1>4, <1>5
<1>7. /\ Len(s) = Len(a) + 1 + Len(b)
      /\ \A i \in 1..Len(b) : s[Len(a) + 1 + i] = b[i]
  BY <1>3, <1>4
<1>8. \A i \in 1..Len(a) : s[i] # sep
  BY <1>2, <1>6 DEF Lacks
<1>9. Index(s, sep) = Len(a) + 1
  <2>1. /\ Index(s, sep) \in 0..Len(s)
        /\ Index(s, sep) # 0 => s[Index(s, sep)] = sep
        /\ \A i \in 1..Len(s) : s[i] = sep => Index(s, sep) # 0 /\ Index(s, sep) <= i
    BY <1>4, IndexIsFirst
  <2>2. Len(a) + 1 \in 1..Len(s)
    BY <1>2, <1>7
  <2>3. QED
    BY <1>2, <1>6, <1>8, <2>1, <2>2
<1>10. Before(s, sep) = a
  <2>1. Before(s, sep) = SubSeq(s, 1, Len(a))
    BY <1>2, <1>9 DEF Before
  <2>2. \A i \in 1..Len(a) : s[i] \in S
    BY <1>6, ElementOfSeq
  <2>3. /\ SubSeq(s, 1, Len(a)) \in Seq(S)
        /\ Len(SubSeq(s, 1, Len(a))) = IF 1 <= Len(a) THEN Len(a) - 1 + 1 ELSE 0
        /\ \A i \in 1..Len(a) - 1 + 1 : SubSeq(s, 1, Len(a))[i] = s[1 + i - 1]
    BY <1>2, <2>2, SubSeqProperties
  <2> DEFINE q == SubSeq(s, 1, Len(a))
  <2> HIDE DEF q
  <2>4. q \in Seq(S) /\ Len(q) = Len(a) /\ \A i \in 1..Len(a) : q[i] = a[i]
    BY <1>2, <1>6, <2>3 DEF q
  <2>5. q = a
    BY <2>4, SeqEqual
  <2>6. QED
    BY <2>1, <2>5 DEF q
<1>11. After(s, sep) = b
  <2> DEFINE n == Len(s)
             f == Len(a) + 2
             q == SubSeq(s, f, n)
  <2>1. After(s, sep) = q
    BY <1>2, <1>9 DEF After
  <2>2. n \in Int /\ f \in Int /\ n - f + 1 = Len(b) /\ f >= 1
    BY <1>2, <1>7
  <2>3. \A i \in f..n : s[i] \in S
    BY <1>4, <2>2, ElementOfSeq
  <2>4. ASSUME NEW i \in 1..Len(b) PROVE s[f + i - 1] = b[i]
    <3>1. f + i - 1 = Len(a) + 1 + i
      BY <1>2
    <3>2. s[Len(a) + 1 + i] = b[i]
      BY <1>7
    <3> HIDE DEF f
    <3>3. QED
      BY <3>1, <3>2
  <2> HIDE DEF n, f
  <2>5. /\ q \in Seq(S)
        /\ Len(q) = IF f <= n THEN n - f + 1 ELSE 0
        /\ \A i \in 1..n - f + 1 : q[i] = s[f + i - 1]
    BY <2>2, <2>3, SubSeqProperties
  <2> HIDE DEF q
  <2>6. Len(q) = Len(b) /\ \A i \in 1..Len(b) : q[i] = b[i]
    BY <1>2, <2>2, <2>4, <2>5
  <2>7. q = b
    BY <2>5, <2>6, SeqEqual
  <2>8. QED
    BY <2>1, <2>7
<1>12. QED
  BY <1>9, <1>10, <1>11 DEF s, am, m

\* Both halves of a text that has the separator are pieces of it, and it stands between them.
LEMMA Halves ==
    ASSUME NEW S, NEW s \in Seq(S), NEW sep, Index(s, sep) # 0
    PROVE  /\ Index(s, sep) \in 1..Len(s) /\ s[Index(s, sep)] = sep
           /\ Before(s, sep) \in Seq(S) /\ Len(Before(s, sep)) = Index(s, sep) - 1
           /\ \A i \in 1..Len(Before(s, sep)) : Before(s, sep)[i] = s[i]
           /\ After(s, sep) \in Seq(S) /\ Len(After(s, sep)) = Len(s) - Index(s, sep)
           /\ \A i \in 1..Len(After(s, sep)) : After(s, sep)[i] = s[Index(s, sep) + i]
<1> DEFINE k == Index(s, sep)
           n == Len(s)
           b == Before(s, sep)
           a == After(s, sep)
<1>1. k \in 1..n /\ s[k] = sep /\ n \in Nat /\ k \in Nat
  BY IndexIsFirst, LenProperties
<1>2. b = SubSeq(s, 1, k - 1) /\ a = SubSeq(s, k + 1, n)
  BY DEF Before, After
<1> HIDE DEF k, n, b, a
<1>3. \A i \in 1..n : s[i] \in S
  BY ElementOfSeq DEF n
<1>4. /\ b \in Seq(S) /\ Len(b) = k - 1
      /\ \A i \in 1..(k - 1) : b[i] = s[i]
  <2>1. \A i \in 1..(k - 1) : s[i] \in S
    BY <1>1, <1>3
  <2>2. /\ SubSeq(s, 1, k - 1) \in Seq(S)
        /\ Len(SubSeq(s, 1, k - 1)) = IF 1 <= k - 1 THEN (k - 1) - 1 + 1 ELSE 0
        /\ \A i \in 1..((k - 1) - 1 + 1) : SubSeq(s, 1, k - 1)[i] = s[1 + i - 1]
    BY <1>1, <2>1, SubSeqProperties
  <2>3. /\ b \in Seq(S) /\ Len(b) = IF 1 <= k - 1 THEN (k - 1) - 1 + 1 ELSE 0
        /\ \A i \in 1..((k - 1) - 1 + 1) : b[i] = s[1 + i - 1]
    BY <1>2, <2>2
  <2>4. QED
    BY <1>1, <2>3
<1>5. /\ a \in Seq(S) /\ Len(a) = n - k
      /\ \A i \in 1..(n - k) : a[i] = s[k + i]
  <2> DEFINE f == k + 1
  <2>1. f \in Int /\ n \in Int /\ f = k + 1 /\ \A i \in f..n : s[i] \in S
    BY <1>1, <1>3
  <2> HIDE DEF f
  <2>2. /\ SubSeq(s, f, n) \in Seq(S)
        /\ Len(SubSeq(s, f, n)) = IF f <= n THEN n - f + 1 ELSE 0
        /\ \A i \in 1..(n - f + 1) : SubSeq(s, f, n)[i] = s[f + i - 1]
    BY <2>1, SubSeqProperties
  <2>3. a = SubSeq(s, f, n)
    BY <1>2, <2>1
  <2>4. /\ a \in Seq(S) /\ Len(a) = IF f <= n THEN n - f + 1 ELSE 0
        /\ \A i \in 1..(n - f + 1) : a[i] = s[f + i - 1]
    BY <2>2, <2>3
  <2>5. ASSUME NEW i \in 1..(n - k) PROVE a[i] = s[k + i]
    <3>1. i \in 1..(n - f + 1) /\ f + i - 1 = k + i
      BY <1>1, <2>1
    <3>2. QED
      BY <2>4, <3>1
  <2>6. QED
    BY <1>1, <2>1, <2>4, <2>5
<1>6. QED
  BY <1>1, <1>4, <1>5 DEF k, n, b, a

\* The piece of text that begins after i tokens.
Piece(s, text, i) ==
    i \in Nat /\ i + Len(s) <= Len(text) /\ \A x \in 1..Len(s) : s[x] = text[i + x]

\* A separator follows it.
Ends(s, text, i, sep) == i + Len(s) + 1 <= Len(text) /\ text[i + Len(s) + 1] = sep

LEMMA HalvesArePieces ==
    ASSUME NEW S, NEW s \in Seq(S), NEW text \in Seq(S), NEW i, Piece(s, text, i),
           NEW sep, Index(s, sep) # 0
    PROVE  /\ Piece(Before(s, sep), text, i)
           /\ Piece(After(s, sep), text, i + Index(s, sep))
           /\ Ends(Before(s, sep), text, i, sep)
<1> DEFINE k == Index(s, sep)
           b == Before(s, sep)
           a == After(s, sep)
           n == Len(s)
           m == Len(text)
<1>1. /\ k \in 1..n /\ s[k] = sep
      /\ Len(b) = k - 1 /\ \A x \in 1..Len(b) : b[x] = s[x]
      /\ Len(a) = n - k /\ \A x \in 1..Len(a) : a[x] = s[k + x]
  BY Halves
<1>2. i \in Nat /\ i + n <= m /\ \A x \in 1..n : s[x] = text[i + x]
  BY DEF Piece
<1>3. n \in Nat /\ m \in Nat
  BY LenProperties
<1> HIDE DEF k, b, a, n, m
<1>4. i + Len(b) <= m /\ \A x \in 1..Len(b) : b[x] = text[i + x]
  <2>1. i + Len(b) <= m /\ 1..Len(b) \subseteq 1..n
    BY <1>1, <1>2, <1>3
  <2>2. \A x \in 1..Len(b) : b[x] = text[i + x]
    BY <1>1, <1>2, <2>1
  <2>3. QED
    BY <2>1, <2>2
<1>5. i + k + Len(a) <= m /\ i + k \in Nat
  BY <1>1, <1>2, <1>3
<1>6. ASSUME NEW x \in 1..Len(a) PROVE a[x] = text[i + k + x]
  <2>1. k + x \in 1..n /\ i + (k + x) = i + k + x
    BY <1>1, <1>2, <1>3
  <2>2. QED
    BY <1>1, <1>2, <2>1
<1>7. i + Len(b) + 1 = i + k /\ i + k <= m
  BY <1>1, <1>2, <1>3
<1>8. text[i + k] = sep
  BY <1>1, <1>2
<1>9. QED
  BY <1>2, <1>4, <1>5, <1>6, <1>7, <1>8 DEF Piece, Ends, k, b, a, m

Closed(text) == text \o <<"/">>

NamedIn(s, text, sep) ==
    \E f, l \in DOMAIN Closed(text) :
       SubSeq(Closed(text), f, l) = s /\ Closed(text)[l + 1] = sep

\* A piece of a URI that a separator follows is where CallerDecides looks for it.
LEMMA PieceStands ==
    ASSUME NEW S, NEW s \in Seq(S), NEW text \in Seq(S), NEW i, Piece(s, text, i), s # <<>>,
           NEW sep, Ends(s, text, i, sep), "/" \in S
    PROVE  NamedIn(s, text, sep)
<1> DEFINE e == <<"/">>
           t == text \o e
           n == Len(s)
           m == Len(text)
<1>1. e \in Seq(S) /\ Len(e) = 1
  OBVIOUS
<1> HIDE DEF e
<1>2. e \in Seq(S)
  BY <1>1
<1>3. t \in Seq(S) /\ Len(t) = Len(text) + Len(e)
  BY <1>2, ConcatProperties
<1>4. \A x \in 1..m : t[x] = text[x]
  BY <1>2, ConcatAt
<1> HIDE DEF t
<1>5. n \in Nat \ {0} /\ m \in Nat
  BY EmptySeq, LenProperties
<1>6. DOMAIN t = 1..(m + 1)
  BY <1>1, <1>3, LenProperties
<1>7. i \in Nat /\ i + n + 1 <= m /\ \A x \in 1..n : s[x] = text[i + x]
  BY DEF Piece, Ends
<1>8. t[i + n + 1] = sep
  BY <1>4, <1>5, <1>7 DEF Ends
<1> HIDE DEF n, m
<1>9. i + 1 \in DOMAIN t /\ i + n \in DOMAIN t
  BY <1>5, <1>6, <1>7
<1>10. SubSeq(t, i + 1, i + n) = s
  <2> DEFINE f == i + 1
             l == i + n
             q == SubSeq(t, f, l)
  <2>1. f \in Int /\ l \in Int /\ f <= l /\ l - f + 1 = n
    BY <1>5, <1>7
  <2>2. \A x \in f..l : t[x] \in S
    BY <1>3, <1>5, <1>6, <1>7, ElementOfSeq, LenProperties
  <2>3. ASSUME NEW x \in 1..n PROVE t[f + x - 1] = s[x]
    <3>1. f + x - 1 = i + x /\ i + x \in 1..m
      BY <1>5, <1>7
    <3>2. QED
      BY <1>4, <1>7, <3>1
  <2> HIDE DEF f, l
  <2>4. /\ q \in Seq(S) /\ Len(q) = IF f <= l THEN l - f + 1 ELSE 0
        /\ \A x \in 1..(l - f + 1) : q[x] = t[f + x - 1]
    BY <2>1, <2>2, SubSeqProperties
  <2> HIDE DEF q
  <2>5. Len(q) = Len(s) /\ \A x \in 1..Len(q) : q[x] = s[x]
    BY <1>5, <2>1, <2>3, <2>4 DEF n
  <2>6. q = s
    BY <2>4, <2>5, SeqEqual
  <2>7. QED
    BY <2>6 DEF q, f, l
<1>11. QED
  BY <1>8, <1>9, <1>10 DEF t, e, Closed, NamedIn

-----------------------------------------------------------------------------
(* Whose word counts *)

\* What text is made of: names and separators, all of them strings.
Token == STRING \cup {"/", "@", ";", "://", "smb"}

LEMMA StringsAreTokens == ASSUME NEW s \in Seq(STRING) PROVE s \in Seq(Token)
  BY SeqMonotonic DEF Token

\* A name stands in text, and one of the separators that make it a name follows.
Stands(name, text) ==
    \E i \in Nat : \E sep \in {"@", ";"} :
       Piece(name, text, i) /\ name # <<>> /\ Ends(name, text, i, sep)

LEMMA StandsBefore ==
    ASSUME NEW s \in Seq(Token), NEW text \in Seq(Token), NEW i, Piece(s, text, i),
           NEW sep, sep \in {"@", ";"}, Index(s, sep) # 0, Given(Before(s, sep)) # Absent
    PROVE  Stands(Given(Before(s, sep)), text) /\ Given(Before(s, sep)) \in Seq(Token)
<1>1. Given(Before(s, sep)) = Before(s, sep) /\ Before(s, sep) # <<>>
  BY DEF Given
<1>2. Piece(Before(s, sep), text, i) /\ Ends(Before(s, sep), text, i, sep)
  BY HalvesArePieces
<1>3. i \in Nat
  BY DEF Piece
<1>4. Before(s, sep) \in Seq(Token)
  BY Halves
<1>5. QED
  BY <1>1, <1>2, <1>3, <1>4 DEF Stands

\* What the driver takes for a user or a domain stands in the URI as one.
LEMMA NamesStand ==
    ASSUME NEW r, r.uri \in Seq(Token), Endpoint(r.uri).ok, Parsed(r).ok,
           NEW name \in {Parsed(r).user, Parsed(r).domain}, name # Absent
    PROVE  Stands(name, r.uri) /\ name \in Seq(Token)
<1> DEFINE uri == r.uri
           text == After(uri, "://")
           authority == Before(text, "/")
           rest == IF Index(authority, ";") = 0 THEN authority ELSE After(authority, ";")
           server == IF Index(rest, "@") = 0 THEN rest ELSE After(rest, "@")
           share == Before(Append(After(text, "/"), "/"), "/")
           domain == IF Index(authority, ";") = 0 THEN Absent ELSE Given(Before(authority, ";"))
           user == IF Index(rest, "@") = 0 THEN Absent ELSE Given(Before(rest, "@"))
<1>1. Index(uri, "://") # 0 /\ Endpoint(uri).rest = text
  BY DEF Endpoint
<1>2. ParsedEndpoint(text).ok /\ Parsed(r) = ParsedEndpoint(text)
  BY <1>1 DEF Parsed
<1>3. Index(text, "/") # 0 /\ name \in {user, domain}
  <2> DEFINE refused == Index(text, "/") = 0 \/ share = <<>> \/ server = <<>>
             parsed == [ok |-> TRUE, server |-> server, share |-> share,
                        domain |-> domain, user |-> user]
  <2>1. ParsedEndpoint(text) = IF refused THEN [ok |-> FALSE] ELSE parsed
    BY DEF ParsedEndpoint
  <2> HIDE DEF refused, share, server, domain, user
  <2>2. Parsed(r) = parsed /\ ~refused
    BY <1>2, <2>1
  <2>3. Parsed(r).user = user /\ Parsed(r).domain = domain
    BY <2>2
  <2>4. Index(text, "/") # 0
    BY <2>2 DEF refused
  <2>5. QED
    BY <2>3, <2>4
<1>4. Piece(uri, uri, 0) /\ uri \in Seq(Token)
  BY LenProperties DEF Piece
<1> HIDE DEF uri
<1>5. Piece(text, uri, 0 + Index(uri, "://")) /\ text \in Seq(Token)
  BY <1>1, <1>4, HalvesArePieces, Halves
<1> HIDE DEF text
<1>6. PICK i : Piece(authority, uri, i)
  BY <1>3, <1>4, <1>5, HalvesArePieces
<1>7. authority \in Seq(Token)
  BY <1>3, <1>5, Halves
<1> HIDE DEF authority
<1>8. PICK j : Piece(rest, uri, j)
  BY <1>4, <1>6, <1>7, HalvesArePieces
<1>9. rest \in Seq(Token)
  BY <1>7, Halves
<1>10. CASE name = domain
  BY <1>4, <1>6, <1>7, <1>10, StandsBefore DEF uri
<1> HIDE DEF rest
<1>11. CASE name = user
  <2>1. Index(rest, "@") # 0 /\ name = Given(Before(rest, "@"))
    BY <1>11
  <2>2. QED
    BY <1>4, <1>8, <1>9, <2>1, StandsBefore DEF uri
<1>12. QED
  BY <1>3, <1>10, <1>11

\* The option, once more a bool, is what the caller asked for.
LEMMA SealAsAsked ==
    ASSUME NEW seal \in BOOLEAN
    PROVE  OrElse(GetBool(IF seal THEN "true" ELSE Absent), FALSE) = seal
<1>1. CASE seal = TRUE
  <2>1. GetBool("true") = TRUE
    BY DEF GetBool
  <2>2. QED
    BY <1>1, <2>1, AbsentAssumption DEF OrElse
<1>2. CASE seal = FALSE
  <2>1. GetBool(Absent) = Absent
    BY AbsentAssumption DEF GetBool
  <2>2. QED
    BY <1>2, <2>1 DEF OrElse
<1>3. QED
  BY <1>1, <1>2

LEMMA OwnRequestDecides == IInv => CallerDecides
<1> SUFFICES ASSUME IInv, phase = "open", backend = "smb"
             PROVE  CallerDecides
  BY DEF CallerDecides
<1> DEFINE parsed == Parsed(request)
           uri == Closed(request.uri)
<1>1. /\ Driver(request) = "smb" /\ parsed.ok /\ applied = Config(request, parsed)
      /\ request \in Requests
  BY DEF IInv, TypeOK, OwnRequest
<1>2. Endpoint(request.uri).ok
  BY <1>1 DEF Driver
<1>3. request.uri \in Seq(Token) /\ request.seal \in BOOLEAN
  BY <1>1, RequestsAssumption, StringsAreTokens
<1>4. /\ applied.user = OrElse(request.username, parsed.user)
      /\ applied.domain = OrElse(request.domain, parsed.domain)
      /\ applied.password = request.password
  BY <1>1 DEF Config
<1>5. applied.seal = request.seal
  <2>1. applied.seal = OrElse(GetBool(Options(request)), FALSE)
    BY <1>1 DEF Config
  <2>2. OrElse(GetBool(Options(request)), FALSE) = request.seal
    BY <1>3, SealAsAsked DEF Options
  <2>3. QED
    BY <2>1, <2>2
<1>6. ASSUME NEW name \in {applied.user, applied.domain} \ {Absent, request.username, request.domain}
      PROVE  \E i, j \in DOMAIN uri : SubSeq(uri, i, j) = name /\ uri[j + 1] \in {"@", ";"}
  <2>1. name \in {parsed.user, parsed.domain} /\ name # Absent
    BY <1>4 DEF OrElse
  <2>2. Stands(name, request.uri) /\ name \in Seq(Token)
    BY <1>1, <1>2, <1>3, <2>1, NamesStand
  <2>3. PICK i \in Nat, sep \in {"@", ";"} :
           Piece(name, request.uri, i) /\ name # <<>> /\ Ends(name, request.uri, i, sep)
    BY <2>2 DEF Stands
  <2>4. "/" \in Token
    BY DEF Token
  <2>5. NamedIn(name, request.uri, sep)
    BY <1>3, <2>2, <2>3, <2>4, PieceStands
  <2>6. QED
    BY <2>5 DEF NamedIn
<1>7. QED
  BY <1>4, <1>5, <1>6 DEF CallerDecides, OrElse, Closed

\* A session runs under the caller's user, domain, password and seal, and falls back on
\* what the URI names for those the caller left out.
THEOREM CallersWordCounts == Spec => []CallerDecides
<1>1. QED
  BY OwnRequestDecides, InductiveInvariant, PTL

-----------------------------------------------------------------------------
(* Endpoints are read as they are written *)

LEMMA LacksConcat ==
    ASSUME NEW a \in Seq(Token), NEW b \in Seq(Token), NEW sep, Lacks(a, sep), Lacks(b, sep)
    PROVE  Lacks(a \o b, sep)
<1> DEFINE s == a \o b
<1>1. /\ s \in Seq(Token) /\ Len(s) = Len(a) + Len(b)
      /\ \A i \in 1..(Len(a) + Len(b)) : s[i] = IF i <= Len(a) THEN a[i] ELSE b[i - Len(a)]
  BY ConcatProperties
<1> HIDE DEF s
<1>2. /\ Len(a) \in Nat /\ Len(b) \in Nat
      /\ DOMAIN a = 1..Len(a) /\ DOMAIN b = 1..Len(b) /\ DOMAIN s = 1..Len(s)
  BY <1>1, LenProperties
<1>3. ASSUME NEW i \in DOMAIN s PROVE s[i] # sep
  <2>1. i \in 1..(Len(a) + Len(b))
    BY <1>1, <1>2
  <2>2. CASE i <= Len(a)
    <3>1. i \in DOMAIN a /\ s[i] = a[i]
      BY <1>1, <1>2, <2>1, <2>2
    <3>2. QED
      BY <3>1 DEF Lacks
  <2>3. CASE ~(i <= Len(a))
    <3>1. i - Len(a) \in DOMAIN b /\ s[i] = b[i - Len(a)]
      BY <1>1, <1>2, <2>1, <2>3
    <3>2. QED
      BY <3>1 DEF Lacks
  <2>4. QED
    BY <2>2, <2>3
<1>4. Lacks(s, sep)
  BY <1>3 DEF Lacks
<1>5. QED
  BY <1>4 DEF s

LEMMA LacksNothing ==
    ASSUME NEW a \in Seq(Token), NEW sep, Lacks(a, sep)
    PROVE  Index(a, sep) = 0
  BY IndexIsFirst

\* A name and its separator before a text.
Prefix(name, sep) == IF name = Absent THEN <<>> ELSE name \o <<sep>>

LEMMA PrefixRead ==
    ASSUME NEW name \in Seq(Token) \cup {Absent}, NEW sep \in Token, NEW text \in Seq(Token),
           name # Absent => Lacks(name, sep), Lacks(text, sep)
    PROVE  LET s == Prefix(name, sep) \o text
           IN  /\ s \in Seq(Token)
               /\ name = Absent => s = text /\ Index(s, sep) = 0
               /\ name # Absent => /\ Index(s, sep) # 0
                                   /\ Before(s, sep) = name /\ After(s, sep) = text
<1>1. CASE name = Absent
  <2>1. Prefix(name, sep) = <<>>
    BY <1>1 DEF Prefix
  <2>2. <<>> \o text = text
    BY ConcatEmptySeq
  <2>3. Index(text, sep) = 0
    BY LacksNothing
  <2>4. QED
    BY <1>1, <2>1, <2>2, <2>3
<1>2. CASE name # Absent
  <2>1. Prefix(name, sep) = name \o <<sep>> /\ name \in Seq(Token)
    BY <1>2 DEF Prefix
  <2> DEFINE s == name \o <<sep>> \o text
  <2>2. Index(s, sep) = Len(name) + 1 /\ Before(s, sep) = name /\ After(s, sep) = text
    BY <1>2, <2>1, Split
  <2>3. Len(name) \in Nat
    BY <2>1, LenProperties
  <2>4. Len(name) + 1 # 0
    BY <2>3
  <2>5. s \in Seq(Token)
    <3>1. <<sep>> \in Seq(Token)
      OBVIOUS
    <3>2. name \o <<sep>> \in Seq(Token)
      BY <2>1, <3>1, ConcatProperties
    <3>3. QED
      BY <3>2, ConcatProperties
  <2> HIDE DEF s
  <2>6. Index(s, sep) # 0
    BY <2>2, <2>4
  <2>7. s = Prefix(name, sep) \o text
    BY <2>1 DEF s
  <2>8. QED
    BY <1>2, <2>2, <2>5, <2>6, <2>7
<1>3. QED
  BY <1>1, <1>2

LEMMA PrefixIsText ==
    ASSUME NEW name \in Seq(Token) \cup {Absent}, NEW sep \in Token
    PROVE  /\ Prefix(name, sep) \in Seq(Token)
           /\ \A x : (name # Absent => Lacks(name, x)) /\ x # sep => Lacks(Prefix(name, sep), x)
<1>1. CASE name = Absent
  <2>1. Prefix(name, sep) = <<>>
    BY <1>1 DEF Prefix
  <2>2. <<>> \in Seq(Token) /\ \A x : Lacks(<<>>, x)
    BY EmptySeq DEF Lacks
  <2>3. QED
    BY <2>1, <2>2
<1>2. CASE name # Absent
  <2> DEFINE m == <<sep>>
  <2>1. Prefix(name, sep) = name \o m /\ name \in Seq(Token)
    BY <1>2 DEF Prefix
  <2>2. m \in Seq(Token) /\ \A x : x # sep => Lacks(m, x)
    BY DEF Lacks
  <2> HIDE DEF m
  <2>3. Prefix(name, sep) \in Seq(Token)
    BY <2>1, <2>2, ConcatProperties
  <2>4. ASSUME NEW x, Lacks(name, x), x # sep PROVE Lacks(Prefix(name, sep), x)
    <3>1. Lacks(m, x)
      BY <2>2, <2>4
    <3>2. QED
      BY <2>1, <2>2, <2>4, <3>1, LacksConcat
  <2>5. QED
    BY <1>2, <2>3, <2>4
<1>3. QED
  BY <1>1, <1>2

\* The share ends where the path begins, or where the text does.
LEMMA ShareRead ==
    ASSUME NEW share \in Seq(Token), NEW path \in Seq(Token), Lacks(share, "/"),
           path # <<>> => path[1] = "/"
    PROVE  Before(Append(share \o path, "/"), "/") = share
<1> DEFINE q == share \o path
           s == Append(q, "/")
           n == Len(share)
<1>1. "/" \in Token
  BY DEF Token
<1>2. /\ q \in Seq(Token) /\ Len(q) = n + Len(path)
      /\ \A i \in 1..n : q[i] = share[i]
      /\ \A i \in 1..Len(path) : q[n + i] = path[i]
  BY ConcatAt
<1> HIDE DEF q
<1>3. /\ s \in Seq(Token) /\ Len(s) = Len(q) + 1
      /\ \A i \in 1..Len(q) : s[i] = q[i]
      /\ s[Len(q) + 1] = "/"
  <2>1. q \in Seq(Token)
    BY <1>2
  <2>2. s \in Seq(Token) /\ Len(s) = Len(q) + 1
    BY <1>1, <2>1, AppendProperties
  <2>3. \A i \in 1..Len(q) : s[i] = q[i]
    BY <1>1, <2>1, AppendProperties
  <2>4. s[Len(q) + 1] = "/"
    BY <1>1, <2>1, AppendProperties
  <2>5. QED
    BY <2>2, <2>3, <2>4
<1> HIDE DEF s
<1>4. /\ n \in Nat /\ Len(path) \in Nat /\ DOMAIN share = 1..n
      /\ path # <<>> => Len(path) # 0
  BY LenProperties, EmptySeq
<1>5. \A i \in 1..n : s[i] = share[i] /\ s[i] # "/"
  BY <1>2, <1>3, <1>4 DEF Lacks
<1>6. n + 1 \in 1..Len(s)
  BY <1>2, <1>3, <1>4
<1>7. s[n + 1] = "/"
  <2>1. CASE path = <<>>
    <3>1. Len(path) = 0
      BY <2>1
    <3>2. n + 1 = Len(q) + 1
      BY <1>2, <1>4, <3>1
    <3>3. QED
      BY <1>3, <3>2
  <2>2. CASE path # <<>>
    <3>1. 1 \in 1..Len(path) /\ n + 1 \in 1..Len(q)
      BY <1>2, <1>4, <2>2
    <3>2. s[n + 1] = path[1]
      BY <1>2, <1>3, <3>1
    <3>3. QED
      BY <2>2, <3>2
  <2>3. QED
    BY <2>1, <2>2
<1> HIDE DEF n
<1>8. Index(s, "/") = n + 1
  <2>1. /\ Index(s, "/") \in 0..Len(s)
        /\ Index(s, "/") # 0 => s[Index(s, "/")] = "/"
        /\ \A i \in 1..Len(s) : s[i] = "/" => Index(s, "/") # 0 /\ Index(s, "/") <= i
    BY <1>3, IndexIsFirst
  <2>2. Index(s, "/") # 0 /\ Index(s, "/") <= n + 1
    BY <1>6, <1>7, <2>1
  <2>3. Index(s, "/") \notin 1..n
    BY <1>5, <2>1
  <2>4. QED
    BY <1>4, <2>1, <2>2, <2>3
<1> DEFINE b == Before(s, "/")
<1>9. /\ b \in Seq(Token) /\ Len(b) = Index(s, "/") - 1
      /\ \A i \in 1..Len(b) : b[i] = s[i]
  <2>1. Index(s, "/") # 0
    BY <1>4, <1>8
  <2>2. QED
    BY <1>3, <2>1, Halves
<1> HIDE DEF b
<1>10. Len(b) = Len(share) /\ \A i \in 1..Len(b) : b[i] = share[i]
  BY <1>4, <1>5, <1>8, <1>9 DEF n
<1>11. b = share
  BY <1>9, <1>10, SeqEqual
<1>12. QED
  BY <1>11 DEF b, s, q

\* Parts as they are written: without the separators that would end them.
Separators == {"/", "@", ";"}

IsPart(part) == part \in Seq(Token) /\ \A sep \in Separators : Lacks(part, sep)

\* What ParsedEndpoint reads of them.
Reading(domain, user, server, share) ==
    IF share = <<>> \/ server = <<>> THEN [ok |-> FALSE]
    ELSE [ok |-> TRUE, server |-> server, share |-> share,
          domain |-> IF domain = Absent THEN Absent ELSE Given(domain),
          user |-> IF user = Absent THEN Absent ELSE Given(user)]

LEMMA Associative ==
    \A a, b, c \in Seq(Token) : (a \o b) \o c = a \o (b \o c)
  BY ONLY ConcatAssociative

LEMMA Together == ASSUME NEW s \in Seq(Token), NEW t \in Seq(Token) PROVE s \o t \in Seq(Token)
  BY ConcatProperties

LEMMA OneToken == \A x \in Token : <<x>> \in Seq(Token)
  OBVIOUS

LEMMA SlashIsToken == "/" \in Token /\ "@" \in Token /\ ";" \in Token
  BY DEF Token

Joined(a, b, c, d, e, f) == a \o b \o c \o d \o e \o f
Halved(a, b, c, d, e, f) == (a \o (b \o c)) \o d \o (e \o f)

LEMMA TextSplits ==
    ASSUME NEW a \in Seq(Token), NEW b \in Seq(Token), NEW c \in Seq(Token),
           NEW d \in Seq(Token), NEW e \in Seq(Token), NEW f \in Seq(Token)
    PROVE  /\ Joined(a, b, c, d, e, f) = Halved(a, b, c, d, e, f)
           /\ Joined(a, b, c, d, e, f) \in Seq(Token)
<1> DEFINE bc == b \o c
           abc == a \o bc
           abcd == abc \o d
           abcde == abcd \o e
           abcdef == abcde \o f
<1>1. bc \in Seq(Token)
  BY Together
<1>2. a \o b \o c = abc
  BY ONLY a \in Seq(Token), b \in Seq(Token), c \in Seq(Token), Associative DEF abc, bc
<1> HIDE DEF bc
<1>3. abc \in Seq(Token)
  BY <1>1, Together
<1> HIDE DEF abc
<1>4. abcd \in Seq(Token)
  BY <1>3, Together
<1> HIDE DEF abcd
<1>5. abcde \in Seq(Token)
  BY <1>4, Together
<1> HIDE DEF abcd
<1>6. abcd \o e \o f = abcd \o (e \o f)
  BY ONLY <1>4, e \in Seq(Token), f \in Seq(Token), Associative
<1> HIDE DEF abcde
<1>7. abcdef \in Seq(Token)
  BY <1>5, Together
<1>8. Joined(a, b, c, d, e, f) = abcdef
  <2>1. Joined(a, b, c, d, e, f) = (a \o b \o c) \o d \o e \o f
    BY DEF Joined
  <2>2. QED
    BY <1>2, <2>1 DEF abcdef, abcde, abcd
<1>9. QED
  BY <1>6, <1>7, <1>8 DEF abcdef, abcde, abcd, abc, bc, Halved

\* Text in the form Rendered has.
Text(domain, user, server, share, path) ==
    Joined(Prefix(domain, ";"), Prefix(user, "@"), server, <<"/">>, share, path)

LEMMA TextRead ==
    ASSUME NEW domain, NEW user, NEW server, NEW share,
           domain # Absent => IsPart(domain), user # Absent => IsPart(user),
           IsPart(server), IsPart(share), NEW path \in Seq(Token), path # <<>> => path[1] = "/"
    PROVE  /\ Text(domain, user, server, share, path) \in Seq(Token)
           /\ ParsedEndpoint(Text(domain, user, server, share, path))
                 = Reading(domain, user, server, share)
<1> DEFINE text == Text(domain, user, server, share, path)
           e == <<"/">>
           D == Prefix(domain, ";")
           U == Prefix(user, "@")
           rest == U \o server
           authority == D \o rest
           tail == share \o path
<1>1. "/" \in Token /\ "@" \in Token /\ ";" \in Token
  BY SlashIsToken
<1>2. /\ server \in Seq(Token) /\ share \in Seq(Token)
      /\ Lacks(server, "/") /\ Lacks(server, "@") /\ Lacks(server, ";") /\ Lacks(share, "/")
  BY DEF IsPart, Separators
<1>3. /\ domain \in Seq(Token) \cup {Absent} /\ user \in Seq(Token) \cup {Absent}
      /\ domain # Absent => Lacks(domain, ";") /\ Lacks(domain, "/")
      /\ user # Absent => Lacks(user, "@") /\ Lacks(user, ";") /\ Lacks(user, "/")
  BY DEF IsPart, Separators
<1>4. D \in Seq(Token) /\ Lacks(D, "/")
  BY <1>1, <1>3, PrefixIsText
<1>5. U \in Seq(Token) /\ Lacks(U, "/") /\ Lacks(U, ";")
  BY <1>1, <1>3, PrefixIsText
<1> HIDE DEF D, U
<1>6. rest \in Seq(Token) /\ Lacks(rest, ";") /\ Lacks(rest, "/")
  BY <1>2, <1>5, LacksConcat, ConcatProperties
<1>7. /\ user = Absent => rest = server /\ Index(rest, "@") = 0
      /\ user # Absent => /\ Index(rest, "@") # 0
                          /\ Before(rest, "@") = user /\ After(rest, "@") = server
  BY <1>1, <1>2, <1>3, PrefixRead DEF U
<1> HIDE DEF rest
<1>8. authority \in Seq(Token) /\ Lacks(authority, "/")
  BY <1>4, <1>6, LacksConcat, ConcatProperties
<1>9. /\ domain = Absent => authority = rest /\ Index(authority, ";") = 0
      /\ domain # Absent => /\ Index(authority, ";") # 0
                            /\ Before(authority, ";") = domain /\ After(authority, ";") = rest
  <2>1. rest \in Seq(Token) /\ Lacks(rest, ";")
    BY <1>6
  <2>2. domain \in Seq(Token) \cup {Absent} /\ (domain # Absent => Lacks(domain, ";"))
    BY <1>3
  <2>3. ";" \in Token
    BY <1>1
  <2>4. QED
    BY ONLY <2>1, <2>2, <2>3, PrefixRead DEF D
<1>10. tail \in Seq(Token)
  BY <1>2, ConcatProperties
<1>11. text = authority \o e \o tail /\ text \in Seq(Token)
  <2>1. e \in Seq(Token)
    BY <1>1, OneToken
  <2>2. text = Joined(D, U, server, e, share, path)
    BY DEF Text, D, U
  <2> HIDE DEF e, text
  <2>3. D \in Seq(Token) /\ U \in Seq(Token) /\ server \in Seq(Token) /\ share \in Seq(Token)
    BY <1>2, <1>4, <1>5
  <2>4. /\ Joined(D, U, server, e, share, path) = Halved(D, U, server, e, share, path)
        /\ Joined(D, U, server, e, share, path) \in Seq(Token)
    BY <2>1, <2>3, TextSplits
  <2>5. QED
    BY <2>2, <2>4 DEF Halved, rest
<1> HIDE DEF text, authority, tail
<1>12. /\ Index(text, "/") # 0
       /\ Before(text, "/") = authority /\ After(text, "/") = tail
  <2> DEFINE s == authority \o <<"/">> \o tail
  <2>1. Index(s, "/") = Len(authority) + 1 /\ Before(s, "/") = authority /\ After(s, "/") = tail
    <3>1. "/" \in Token /\ authority \in Seq(Token) /\ Lacks(authority, "/") /\ tail \in Seq(Token)
      BY <1>1, <1>8, <1>10
    <3>2. QED
      BY ONLY <3>1, Split
  <2>2. text = s
    BY <1>11
  <2> HIDE DEF s
  <2>3. Len(authority) + 1 # 0
    BY <1>8, LenProperties
  <2>4. QED
    BY <2>1, <2>2, <2>3
<1>13. Before(Append(After(text, "/"), "/"), "/") = share
  BY <1>2, <1>12, ShareRead DEF tail
<1>14. (IF Index(authority, ";") = 0 THEN authority ELSE After(authority, ";")) = rest
  BY <1>9
<1>15. (IF Index(rest, "@") = 0 THEN rest ELSE After(rest, "@")) = server
  BY <1>7
<1>16. ParsedEndpoint(text) =
          IF share = <<>> \/ server = <<>> THEN [ok |-> FALSE]
          ELSE [ok |-> TRUE, server |-> server, share |-> share,
                domain |-> IF Index(authority, ";") = 0 THEN Absent
                           ELSE Given(Before(authority, ";")),
                user |-> IF Index(rest, "@") = 0 THEN Absent ELSE Given(Before(rest, "@"))]
  BY <1>12, <1>13, <1>14, <1>15 DEF ParsedEndpoint
<1>17. /\ (IF Index(authority, ";") = 0 THEN Absent ELSE Given(Before(authority, ";")))
          = IF domain = Absent THEN Absent ELSE Given(domain)
       /\ (IF Index(rest, "@") = 0 THEN Absent ELSE Given(Before(rest, "@")))
          = IF user = Absent THEN Absent ELSE Given(user)
  BY <1>7, <1>9
<1>18. QED
  BY <1>11, <1>16, <1>17 DEF Reading, text

\* The scheme is what stands before the first "://", and the driver gets the rest.
LEMMA SchemeRead ==
    ASSUME NEW text \in Seq(Token), NEW uri, uri = <<"smb", "://">> \o text
    PROVE  Endpoint(uri).ok /\ Endpoint(uri).rest = text /\ Endpoint(uri).scheme = <<"smb">>
<1> DEFINE a == <<"smb">>
           s == a \o <<"://">> \o text
           scheme == Before(uri, "://")
<1>1. "smb" \in Token /\ "://" \in Token
  BY DEF Token
<1>2. a \in Seq(Token) /\ Lacks(a, "://")
  BY <1>1, OneToken DEF Lacks
<1>3. Index(s, "://") = Len(a) + 1 /\ Before(s, "://") = a /\ After(s, "://") = text
  BY <1>1, <1>2, Split
<1>4. <<"smb", "://">> = a \o <<"://">>
  OBVIOUS
<1>5. uri = s
  BY <1>4
<1>6. Len(a) + 1 # 0
  OBVIOUS
<1> HIDE DEF s
<1>7. Index(uri, "://") # 0 /\ scheme = <<"smb">> /\ After(uri, "://") = text
  BY <1>3, <1>5, <1>6
<1>8. DOMAIN <<"smb">> = {1} /\ "smb" \in DOMAIN Lower /\ Lower["smb"] = "smb"
  BY DEF Lower
<1>9. [i \in DOMAIN <<"smb">> |-> Lower[<<"smb">>[i]]] = <<"smb">>
  BY <1>8
<1>10. <<"smb">> # <<>> /\ \A i \in DOMAIN <<"smb">> : <<"smb">>[i] \in DOMAIN Lower
  BY <1>8
<1>11. Endpoint(uri) = [ok |-> TRUE, scheme |-> <<"smb">>, rest |-> text]
  BY <1>7, <1>9, <1>10 DEF Endpoint
<1>12. QED
  BY <1>11

LEMMA SmbIsRegistered == <<"smb">> \in DOMAIN Drivers /\ Drivers[<<"smb">>] = "smb"
  BY DEF Drivers, Register

\* A label is an endpoint without a domain, a user or a path.
LEMMA LabelRead ==
    ASSUME NEW w, IsPart(w.server), IsPart(w.share), w.server # <<>>, w.share # <<>>
    PROVE  ParsedEndpoint(Endpoint(Label(w)).rest) =
              [ok |-> TRUE, server |-> w.server, share |-> w.share,
               user |-> Absent, domain |-> Absent]
<1> DEFINE server == w.server
           share == w.share
           scheme == <<"smb", "://">>
           slash == <<"/">>
           text == server \o slash \o share
<1>1. IsPart(server) /\ IsPart(share) /\ server # <<>> /\ share # <<>>
  OBVIOUS
<1>2. Label(w) = scheme \o server \o slash \o share
  BY DEF Label
<1>3. slash \in Seq(Token)
  BY SlashIsToken, OneToken
<1>4. scheme \in Seq(Token)
  <2>1. "smb" \in Token /\ "://" \in Token
    BY DEF Token
  <2>2. QED
    BY <2>1
<1> HIDE DEF server, share, scheme, slash
<1>5. server \in Seq(Token) /\ share \in Seq(Token)
  BY <1>1 DEF IsPart
<1>6. server \o slash \in Seq(Token) /\ scheme \o server \in Seq(Token)
  BY <1>3, <1>4, <1>5, ConcatProperties
<1>7. text \in Seq(Token)
  BY <1>5, <1>6, ConcatProperties
<1>8. scheme \o server \o slash = scheme \o (server \o slash)
  BY <1>3, <1>4, <1>5, Associative
<1>9. scheme \o (server \o slash) \o share = scheme \o text
  BY <1>4, <1>5, <1>6, Associative
<1>10. Text(Absent, Absent, server, share, <<>>) = text
  <2>1. Text(Absent, Absent, server, share, <<>>) =
           <<>> \o <<>> \o server \o slash \o share \o <<>>
    BY DEF Text, Joined, Prefix, slash
  <2>2. <<>> \o <<>> = <<>>
    BY EmptySeq, ConcatEmptySeq
  <2>3. <<>> \o server = server
    BY <1>5, ConcatEmptySeq
  <2>4. text \o <<>> = text
    BY <1>7, ConcatEmptySeq
  <2>5. QED
    BY <2>1, <2>2, <2>3, <2>4
<1>11. ParsedEndpoint(text) = Reading(Absent, Absent, server, share)
  <2>1. <<>> \in Seq(Token)
    BY EmptySeq
  <2>2. ParsedEndpoint(Text(Absent, Absent, server, share, <<>>))
           = Reading(Absent, Absent, server, share)
    BY <1>1, <2>1, TextRead
  <2>3. QED
    BY <1>10, <2>2
<1> HIDE DEF text
<1>12. Label(w) = <<"smb", "://">> \o text
  BY <1>2, <1>8, <1>9 DEF scheme
<1>13. Endpoint(Label(w)).rest = text
  BY <1>7, <1>12, SchemeRead
<1>14. Reading(Absent, Absent, server, share) =
          [ok |-> TRUE, server |-> server, share |-> share, user |-> Absent, domain |-> Absent]
  BY <1>1 DEF Reading
<1>15. QED
  BY <1>11, <1>13, <1>14 DEF server, share

LEMMA RenderedRead ==
    ASSUME NEW w \in Written
    PROVE  /\ IsPart(w.server) /\ IsPart(w.share)
           /\ Rendered(w) \in Seq(Token)
           /\ ParsedEndpoint(Rendered(w)) = Reading(w.domain, w.user, w.server, w.share)
<1>1. /\ w.domain \in Seq(STRING) \cup {Absent} /\ w.user \in Seq(STRING) \cup {Absent}
      /\ w.server \in Seq(STRING) /\ w.share \in Seq(STRING) /\ w.path \in Seq(STRING)
      /\ w.path # <<>> => w.path[1] = "/"
  BY WrittenAssumption
<1>2. /\ \A sep \in Separators : Lacks(w.server, sep) /\ Lacks(w.share, sep)
      /\ w.domain # Absent => \A sep \in Separators : Lacks(w.domain, sep)
      /\ w.user # Absent => \A sep \in Separators : Lacks(w.user, sep)
  BY WrittenAssumption DEF Separators, Lacks
<1>3. /\ w.domain # Absent => IsPart(w.domain)
      /\ w.user # Absent => IsPart(w.user)
      /\ IsPart(w.server) /\ IsPart(w.share) /\ w.path \in Seq(Token)
  BY <1>1, <1>2, StringsAreTokens DEF IsPart
<1>4. /\ Text(w.domain, w.user, w.server, w.share, w.path) \in Seq(Token)
      /\ ParsedEndpoint(Text(w.domain, w.user, w.server, w.share, w.path))
            = Reading(w.domain, w.user, w.server, w.share)
  <2> DEFINE domain == w.domain
             user == w.user
             server == w.server
             share == w.share
             path == w.path
  <2> HIDE DEF domain, user, server, share, path
  <2>1. /\ domain # Absent => IsPart(domain)
        /\ user # Absent => IsPart(user)
        /\ IsPart(server) /\ IsPart(share) /\ path \in Seq(Token)
        /\ path # <<>> => path[1] = "/"
    BY <1>1, <1>3 DEF domain, user, server, share, path
  <2>2. /\ Text(domain, user, server, share, path) \in Seq(Token)
        /\ ParsedEndpoint(Text(domain, user, server, share, path))
              = Reading(domain, user, server, share)
    BY <2>1, TextRead
  <2>3. QED
    BY <2>2 DEF domain, user, server, share, path
<1>5. Rendered(w) = Text(w.domain, w.user, w.server, w.share, w.path)
  BY DEF Rendered, Text, Joined, Prefix
<1>6. QED
  BY <1>3, <1>4, <1>5

LEMMA OwnRequestReads == IInv => EndpointsReadAsWritten
<1> SUFFICES ASSUME IInv, phase # "idle", NEW w \in Written,
                    request.uri = <<"smb", "://">> \o Rendered(w)
             PROVE  /\ config # None <=> w.server # <<>> /\ w.share # <<>>
                    /\ config # None =>
                          /\ config.server = w.server /\ config.share = w.share
                          /\ config.user = OrElse(request.username,
                                                  IF w.user = <<>> THEN Absent ELSE w.user)
                          /\ config.domain = OrElse(request.domain,
                                                    IF w.domain = <<>> THEN Absent ELSE w.domain)
                          /\ ParsedEndpoint(Endpoint(Label(w)).rest) =
                                [ok |-> TRUE, server |-> w.server, share |-> w.share,
                                 user |-> Absent, domain |-> Absent]
  BY DEF EndpointsReadAsWritten
<1> DEFINE parsed == Reading(w.domain, w.user, w.server, w.share)
<1>1. /\ IsPart(w.server) /\ IsPart(w.share) /\ Rendered(w) \in Seq(Token)
      /\ ParsedEndpoint(Rendered(w)) = parsed
  BY RenderedRead
<1>2. /\ Endpoint(request.uri).ok /\ Endpoint(request.uri).rest = Rendered(w)
      /\ Endpoint(request.uri).scheme = <<"smb">>
  BY <1>1, SchemeRead
<1>3. Driver(request) = "smb" /\ Parsed(request) = parsed
  BY <1>1, <1>2, SmbIsRegistered DEF Driver, Parsed
<1>4. config = IF parsed.ok THEN Config(request, parsed) ELSE None
  BY <1>3 DEF IInv, OwnRequest
<1>5. parsed.ok <=> w.server # <<>> /\ w.share # <<>>
  BY DEF Reading
<1>6. config # None <=> parsed.ok
  BY <1>4, Configured
<1>7. ASSUME parsed.ok
      PROVE  /\ config.server = w.server /\ config.share = w.share
             /\ config.user = OrElse(request.username,
                                     IF w.user = <<>> THEN Absent ELSE w.user)
             /\ config.domain = OrElse(request.domain,
                                       IF w.domain = <<>> THEN Absent ELSE w.domain)
  <2>1. parsed = [ok |-> TRUE, server |-> w.server, share |-> w.share,
                  domain |-> IF w.domain = Absent THEN Absent ELSE Given(w.domain),
                  user |-> IF w.user = Absent THEN Absent ELSE Given(w.user)]
    BY <1>5, <1>7 DEF Reading
  <2>2. /\ parsed.server = w.server /\ parsed.share = w.share
        /\ parsed.user = IF w.user = <<>> THEN Absent ELSE w.user
        /\ parsed.domain = IF w.domain = <<>> THEN Absent ELSE w.domain
    BY <2>1 DEF Given
  <2> HIDE DEF parsed
  <2>3. config = Config(request, parsed)
    BY <1>4, <1>7
  <2>4. QED
    BY <2>2, <2>3 DEF Config
<1>8. QED
  BY <1>1, <1>5, <1>6, <1>7, LabelRead

\* An endpoint is read as it was written, whatever separators occur in its path and
\* whichever parts are missing or empty, for every text its parts can be.
THEOREM ReadAsWritten == Spec => []EndpointsReadAsWritten
<1>1. QED
  BY OwnRequestReads, InductiveInvariant, PTL
=============================================================================
