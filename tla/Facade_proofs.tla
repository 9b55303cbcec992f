---------------------------- MODULE Facade_proofs ----------------------------
(***************************************************************************)
(* Theorems about Facade, for every set of tasks and files, every length   *)
(* and both backends.                                                      *)
(***************************************************************************)
EXTENDS Facade, TLAPS

-----------------------------------------------------------------------------
(* The inductive invariant *)

OnFile == {"read", "write", "wrote", "set_len", "resized", "close"}
Resizes == {"set_len", "resized"}
Adds == {"write", "wrote"}

\* A call on a file has a file that was opened, and stays within the bound.
CallsFit ==
    \A t \in Task :
       /\ pc[t] \in OnFile => args[t].f \in File /\ handle[args[t].f] # "none"
       /\ pc[t] \notin OnFile => args[t].f = TheSession
       /\ args[t].off + args[t].n <= MaxLen

\* Each flag counts the one call that set it.
Counted ==
    /\ shutdowns = IF disconnected THEN 1 ELSE 0
    /\ \A f \in File : closes[f] = IF released[f] THEN 1 ELSE 0

\* What is settled is over: a handle is closed for good, and the session's end leaves none.
Settled ==
    backend = "smb" =>
       /\ gone => \A f \in File : handle[f] # "open"
       /\ TheSession \in settled => gone
       /\ \A f \in File : f \in settled => handle[f] = "closed"

Busy(t, f, at) == args[t].f = f /\ pc[t] \in at

\* A set_len is alone with the file.
Alone(f) ==
    \A t, u \in Task : t # u /\ Busy(t, f, Resizes) => ~Busy(u, f, Resizes \cup Adds)

\* What a call that has not returned yet made of the file is still so.
Pending(f) ==
    \A t \in Task :
       /\ Busy(t, f, {"resized"}) => size[f] = args[t].n
       /\ Busy(t, f, {"wrote"}) => args[t].off + args[t].got <= size[f]

\* The cached length is behind only by what such a call will add to it.
Behind(f) ==
    (\A t \in Task : ~Busy(t, f, {"resized"})) =>
       /\ len[f] <= size[f]
       /\ \/ len[f] = size[f]
          \/ \E t \in Task : Busy(t, f, {"wrote"}) /\ args[t].off + args[t].got = size[f]

\* How the lengths that the facade has every chance to know stand.
Lengths == \A f \in known : Alone(f) /\ Pending(f) /\ Behind(f)

\* A read has seen no less than the shortest the file has been.
Seen == \A t \in Task : pc[t] = "read" => args[t].least <= size[args[t].f]

IInv ==
    /\ TypeOK /\ CallsFit /\ Counted /\ Settled /\ Lengths /\ Seen /\ ShortMeansEnd

-----------------------------------------------------------------------------
(* The beginning and the end of a call *)

Phase == {"idle", "open", "read", "write", "wrote", "set_len", "resized", "close", "shutdown"}

\* What a call was called with, all that a step of another one leaves alone.
Same(u) ==
    /\ pc'[u] = pc[u] /\ args'[u].f = args[u].f /\ args'[u].off = args[u].off
    /\ args'[u].n = args[u].n /\ args'[u].got = args[u].got

LEMMA CallTypes ==
    /\ NoArgs \in Call /\ NoArgs.f = TheSession /\ NoArgs.off = 0 /\ NoArgs.n = 0
    /\ NoArgs.got = 0 /\ NoArgs.least = 0 /\ NoArgs.exact = FALSE
    /\ \A a \in Call : /\ a.f \in File \cup {TheSession} /\ a.exact \in BOOLEAN
                       /\ a.off \in 0..MaxLen /\ a.n \in 0..MaxLen
                       /\ a.got \in 0..MaxLen /\ a.least \in 0..MaxLen
  BY MaxLenAssumption DEF Call, NoArgs

LEMMA BeginFacts ==
    ASSUME TypeOK, NEW t \in Task, NEW at \in Phase, NEW a \in Call, a.got <= a.n, Begin(t, at, a)
    PROVE  /\ pc[t] = "idle" /\ pc'[t] = at /\ args'[t] = a /\ answer' = NoAnswer
           /\ pc' \in [Task -> Phase] /\ args' \in [Task -> Call] /\ answer' \in Call
           /\ answer'.got <= answer'.n /\ \A u \in Task : args'[u].got <= args'[u].n
           /\ \A u \in Task \ {t} : pc'[u] = pc[u] /\ args'[u] = args[u]
<1>1. /\ pc \in [Task -> Phase] /\ args \in [Task -> Call]
      /\ \A u \in Task : args[u].got <= args[u].n
  BY DEF TypeOK, Phase
<1>2. /\ pc[t] = "idle" /\ pc'[t] = at /\ args'[t] = a /\ answer' = NoAnswer
      /\ pc' \in [Task -> Phase] /\ args' \in [Task -> Call]
      /\ \A u \in Task \ {t} : pc'[u] = pc[u] /\ args'[u] = args[u]
  BY <1>1 DEF Begin
<1>3. NoAnswer \in Call /\ NoAnswer.got <= NoAnswer.n
  BY CallTypes DEF NoAnswer
<1>4. \A u \in Task : args'[u].got <= args'[u].n
  BY <1>1, <1>2
<1>5. QED
  BY <1>2, <1>3, <1>4

LEMMA ReturnsFacts ==
    ASSUME TypeOK, NEW t \in Task, Returns(t)
    PROVE  /\ pc'[t] = "idle" /\ args'[t] = NoArgs
           /\ pc' \in [Task -> Phase] /\ args' \in [Task -> Call]
           /\ \A u \in Task : args'[u].got <= args'[u].n
           /\ \A u \in Task \ {t} : pc'[u] = pc[u] /\ args'[u] = args[u]
<1>1. /\ pc \in [Task -> Phase] /\ args \in [Task -> Call]
      /\ \A u \in Task : args[u].got <= args[u].n
  BY DEF TypeOK, Phase
<1>2. "idle" \in Phase /\ NoArgs \in Call /\ NoArgs.got <= NoArgs.n
  BY CallTypes DEF Phase
<1>3. /\ pc'[t] = "idle" /\ args'[t] = NoArgs
      /\ pc' \in [Task -> Phase] /\ args' \in [Task -> Call]
      /\ \A u \in Task \ {t} : pc'[u] = pc[u] /\ args'[u] = args[u]
  BY <1>1, <1>2 DEF Returns
<1>4. \A u \in Task : args'[u].got <= args'[u].n
  BY <1>1, <1>2, <1>3
<1>5. QED
  BY <1>3, <1>4

LEMMA NoAnswerFacts ==
    ASSUME answer' = NoAnswer
    PROVE  answer' \in Call /\ answer'.got <= answer'.n /\ ShortMeansEnd'
<1>1. NoAnswer \in Call /\ NoAnswer.got = 0 /\ NoAnswer.n = 0
  BY CallTypes DEF NoAnswer
<1>2. answer' \in Call /\ answer'.got = 0 /\ answer'.n = 0
  BY <1>1
<1>3. QED
  BY <1>2 DEF ShortMeansEnd

-----------------------------------------------------------------------------
(* What leaves the parts of the invariant alone *)

\* No change to the length of f is begun or answered.
LEMMA ElsewhereKeeps ==
    ASSUME IInv, NEW f \in known, size'[f] = size[f], len'[f] = len[f],
           \A u \in Task : \/ Same(u)
                           \/ /\ ~Busy(u, f, {"resized", "wrote"})
                              /\ ~Busy(u, f, Resizes \cup Adds)'
    PROVE  Alone(f)' /\ Pending(f)' /\ Behind(f)'
<1>1. \A u \in Task :
         /\ Busy(u, f, Resizes)' => Busy(u, f, Resizes)
         /\ Busy(u, f, Resizes \cup Adds)' => Busy(u, f, Resizes \cup Adds)
         /\ Busy(u, f, {"resized"})' <=> Busy(u, f, {"resized"})
         /\ Busy(u, f, {"wrote"})' <=> Busy(u, f, {"wrote"})
  BY DEF Same, Busy, Resizes, Adds
<1>2. \A u \in Task :
         Busy(u, f, {"resized"}) \/ Busy(u, f, {"wrote"}) =>
            args'[u].n = args[u].n /\ args'[u].off = args[u].off /\ args'[u].got = args[u].got
  BY DEF Same, Busy, Resizes, Adds
<1>3. Alone(f) /\ Pending(f) /\ Behind(f)
  BY DEF IInv, Lengths
<1>4. Alone(f)'
  BY <1>1, <1>3 DEF Alone
<1>5. Pending(f)'
  BY <1>1, <1>2, <1>3 DEF Pending
<1>6. Behind(f)'
  <2>1. ASSUME \A t \in Task : ~Busy(t, f, {"resized"})'
        PROVE  /\ len[f] <= size[f]
               /\ \/ len[f] = size[f]
                  \/ \E t \in Task : Busy(t, f, {"wrote"})' /\ args'[t].off + args'[t].got = size[f]
    <3>1. \A t \in Task : ~Busy(t, f, {"resized"})
      BY <1>1, <2>1
    <3>2. /\ len[f] <= size[f]
          /\ \/ len[f] = size[f]
             \/ \E t \in Task : Busy(t, f, {"wrote"}) /\ args[t].off + args[t].got = size[f]
      BY <1>3, <3>1 DEF Behind
    <3>3. ASSUME NEW t \in Task, Busy(t, f, {"wrote"}), args[t].off + args[t].got = size[f]
          PROVE  Busy(t, f, {"wrote"})' /\ args'[t].off + args'[t].got = size[f]
      BY <1>1, <1>2, <3>3
    <3>4. QED
      BY <3>2, <3>3
  <2>2. QED
    BY <2>1 DEF Behind
<1>7. QED
  BY <1>4, <1>5, <1>6

\* Nor that of any file.
LEMMA QuietKeeps ==
    ASSUME IInv, size' = size, len' = len, known' \subseteq known,
           \A u \in Task : \/ Same(u)
                           \/ /\ pc[u] \notin {"wrote", "resized"}
                              /\ pc'[u] \notin Resizes \cup Adds
    PROVE  Lengths'
<1>1. SUFFICES ASSUME NEW f \in known' PROVE Alone(f)' /\ Pending(f)' /\ Behind(f)'
  BY DEF Lengths
<1>2. \A u \in Task : \/ Same(u)
                      \/ /\ ~Busy(u, f, {"resized", "wrote"})
                         /\ ~Busy(u, f, Resizes \cup Adds)'
  BY DEF Busy
<1>3. QED
  BY <1>2, ElsewhereKeeps

\* Files stay opened, and the calls under way keep their files.
LEMMA FitKeeps ==
    ASSUME IInv, \A f \in File : handle[f] # "none" => handle'[f] # "none",
           \A u \in Task : \/ Same(u)
                           \/ /\ pc'[u] \in OnFile => args'[u].f \in File /\ handle'[args'[u].f] # "none"
                              /\ pc'[u] \notin OnFile => args'[u].f = TheSession
                              /\ args'[u].off + args'[u].n <= MaxLen
    PROVE  CallsFit'
  BY DEF IInv, CallsFit, Same

LEMMA SeenKeeps ==
    ASSUME IInv, size' = size,
           \A u \in Task : pc'[u] = "read" => \/ pc[u] = "read" /\ args'[u] = args[u]
                                             \/ args'[u].least <= size[args'[u].f]
    PROVE  Seen'
  BY DEF IInv, Seen

\* A step of one task that leaves every length alone.
LEMMA QuietStep ==
    ASSUME IInv, NEW t \in Task, UNCHANGED lengths,
           \A f \in File : handle[f] # "none" => handle'[f] # "none",
           \A u \in Task \ {t} : pc'[u] = pc[u] /\ args'[u] = args[u],
           pc[t] \notin {"wrote", "resized"}, pc'[t] \notin Resizes \cup Adds,
           pc'[t] \in OnFile => args'[t].f \in File /\ handle'[args'[t].f] # "none",
           pc'[t] \notin OnFile => args'[t].f = TheSession,
           args'[t].off + args'[t].n <= MaxLen,
           pc'[t] = "read" => args'[t].least <= size[args'[t].f]
    PROVE  CallsFit' /\ Lengths' /\ Seen'
<1>1. \A u \in Task : u = t \/ Same(u)
  BY DEF Same
<1>2. CallsFit'
  BY <1>1, FitKeeps
<1>3. Lengths'
  BY <1>1, QuietKeeps DEF lengths
<1>4. Seen'
  BY SeenKeeps DEF lengths
<1>5. QED
  BY <1>2, <1>3, <1>4

LEMMA CountedKeeps ==
    ASSUME IInv, UNCHANGED <<disconnected, shutdowns, released, closes>>
    PROVE  Counted'
  BY DEF IInv, Counted

LEMMA SettledKeeps ==
    ASSUME IInv, UNCHANGED <<backend, gone, handle, settled>>
    PROVE  Settled'
  BY DEF IInv, Settled

-----------------------------------------------------------------------------
(* The initial states and the calls *)

LEMMA InitInvariant == Init => IInv
<1> SUFFICES ASSUME Init PROVE IInv
  OBVIOUS
<1>2. /\ NoAnswer \in Call /\ NoAnswer.got = 0 /\ NoAnswer.n = 0
      /\ 0 \in 0..MaxLen
  BY CallTypes, MaxLenAssumption DEF NoAnswer
<1>3. \A t \in Task : /\ pc[t] = "idle" /\ args[t] = NoArgs /\ args[t].f = TheSession
                      /\ args[t].off + args[t].n <= MaxLen /\ args[t].got <= args[t].n
  <2>1. \A t \in Task : pc[t] = "idle" /\ args[t] = NoArgs
    BY DEF Init
  <2>2. NoArgs.f = TheSession /\ NoArgs.off + NoArgs.n <= MaxLen /\ NoArgs.got <= NoArgs.n
    BY CallTypes, MaxLenAssumption
  <2>3. QED
    BY <2>1, <2>2
<1>4. TypeOK
  <2>1. args \in [Task -> Call] /\ answer \in Call /\ answer.got <= answer.n
    BY <1>2, CallTypes DEF Init
  <2>2. size \in [File -> 0..MaxLen] /\ len \in [File -> 0..MaxLen]
    BY <1>2 DEF Init
  <2>3. QED
    BY <1>3, <2>1, <2>2 DEF Init, TypeOK
<1>5. CallsFit
  BY <1>3 DEF CallsFit, OnFile
<1>6. Counted
  BY DEF Init, Counted
<1>7. Settled
  BY DEF Init, Settled
<1>8. Lengths
  <2>1. \A f \in known, t \in Task, at \in SUBSET (Resizes \cup Adds) : ~Busy(t, f, at)
    BY <1>3 DEF Busy, Resizes, Adds
  <2>2. \A f \in known : len[f] = size[f] /\ size[f] = 0
    BY DEF Init
  <2>3. \A f \in known, t \in Task :
           ~Busy(t, f, Resizes) /\ ~Busy(t, f, {"resized"}) /\ ~Busy(t, f, {"wrote"})
    BY <2>1 DEF Resizes, Adds
  <2>4. QED
    BY <2>2, <2>3 DEF Lengths, Alone, Pending, Behind
<1>9. Seen
  BY <1>3 DEF Seen
<1>10. ShortMeansEnd
  BY <1>2 DEF Init, ShortMeansEnd
<1>11. QED
  BY <1>4, <1>5, <1>6, <1>7, <1>8, <1>9, <1>10 DEF IInv

LEMMA RefusedAtOnceKeeps ==
    ASSUME IInv, NEW t \in Task, RefusedAtOnce(t)
    PROVE  IInv'
<1>1. /\ UNCHANGED <<session, files, lengths, pc, args, settled>> /\ answer' = NoAnswer
      /\ pc[t] = "idle"
  BY DEF RefusedAtOnce
<1>2. answer' \in Call /\ answer'.got <= answer'.n /\ ShortMeansEnd'
  BY <1>1, NoAnswerFacts
<1>3. TypeOK'
  BY <1>1, <1>2 DEF IInv, TypeOK, session, files, lengths
<1>4. Counted' /\ Settled'
  BY <1>1, CountedKeeps, SettledKeeps DEF session, files
<1>5. pc[t] \notin OnFile /\ args[t].f = TheSession /\ args[t].off + args[t].n <= MaxLen
  BY <1>1 DEF IInv, CallsFit, OnFile
<1>6. CallsFit' /\ Lengths' /\ Seen'
  BY <1>1, <1>5, QuietStep DEF files, OnFile, Resizes, Adds
<1>7. QED
  BY <1>2, <1>3, <1>4, <1>6 DEF IInv

LEMMA CallOpenKeeps ==
    ASSUME IInv, NEW t \in Task, CallOpen(t)
    PROVE  IInv'
<1>1. /\ UNCHANGED <<session, files, lengths, settled>> /\ Begin(t, "open", NoArgs)
  BY DEF CallOpen
<1>2. "open" \in Phase /\ NoArgs \in Call /\ NoArgs.got <= NoArgs.n
  BY CallTypes DEF Phase
<1>3. /\ pc[t] = "idle" /\ pc'[t] = "open" /\ args'[t] = NoArgs /\ answer' = NoAnswer
      /\ pc' \in [Task -> Phase] /\ args' \in [Task -> Call] /\ answer' \in Call
      /\ answer'.got <= answer'.n /\ \A u \in Task : args'[u].got <= args'[u].n
      /\ \A u \in Task \ {t} : pc'[u] = pc[u] /\ args'[u] = args[u]
  BY <1>1, <1>2, BeginFacts DEF IInv
<1>4. TypeOK'
  BY <1>1, <1>3 DEF IInv, TypeOK, Phase, session, files, lengths
<1>5. Counted' /\ Settled' /\ ShortMeansEnd'
  BY <1>1, <1>3, CountedKeeps, SettledKeeps, NoAnswerFacts DEF session, files
<1>6. args'[t].f = TheSession /\ args'[t].off + args'[t].n <= MaxLen
  BY <1>3, CallTypes, MaxLenAssumption
<1>7. CallsFit' /\ Lengths' /\ Seen'
  BY <1>1, <1>3, <1>6, QuietStep DEF files, OnFile, Resizes, Adds
<1>8. QED
  BY <1>4, <1>5, <1>7 DEF IInv

LEMMA DisconnectKeeps ==
    ASSUME IInv, NEW t \in Task, Disconnect(t)
    PROVE  IInv'
<1>1. /\ UNCHANGED <<backend, gone, files, lengths, settled>> /\ Begin(t, "shutdown", NoArgs)
      /\ ~disconnected /\ disconnected' = TRUE /\ shutdowns' = shutdowns + 1
  BY DEF Disconnect
<1>2. "shutdown" \in Phase /\ NoArgs \in Call /\ NoArgs.got <= NoArgs.n
  BY CallTypes DEF Phase
<1>3. /\ pc[t] = "idle" /\ pc'[t] = "shutdown" /\ args'[t] = NoArgs /\ answer' = NoAnswer
      /\ pc' \in [Task -> Phase] /\ args' \in [Task -> Call] /\ answer' \in Call
      /\ answer'.got <= answer'.n /\ \A u \in Task : args'[u].got <= args'[u].n
      /\ \A u \in Task \ {t} : pc'[u] = pc[u] /\ args'[u] = args[u]
  BY <1>1, <1>2, BeginFacts DEF IInv
<1>4. shutdowns' \in Nat
  BY <1>1 DEF IInv, TypeOK
<1>5. TypeOK'
  BY <1>1, <1>3, <1>4 DEF IInv, TypeOK, Phase, files, lengths
<1>6. Counted'
  <2>1. shutdowns = 0
    BY <1>1 DEF IInv, Counted
  <2>2. shutdowns' = 1
    BY <1>1, <2>1
  <2>3. QED
    BY <1>1, <2>2 DEF IInv, Counted, files
<1>7. Settled' /\ ShortMeansEnd'
  BY <1>1, <1>3, SettledKeeps, NoAnswerFacts DEF files
<1>8. args'[t].f = TheSession /\ args'[t].off + args'[t].n <= MaxLen
  BY <1>3, CallTypes, MaxLenAssumption
<1>9. CallsFit' /\ Lengths' /\ Seen'
  BY <1>1, <1>3, <1>8, QuietStep DEF files, OnFile, Resizes, Adds
<1>10. QED
  BY <1>5, <1>6, <1>7, <1>9 DEF IInv

LEMMA ReleaseKeeps ==
    ASSUME IInv, NEW t \in Task, NEW f \in File, Release(t, f)
    PROVE  IInv'
<1> DEFINE a == [NoArgs EXCEPT !.f = f]
<1>1. /\ UNCHANGED <<session, handle, lengths, settled>> /\ Begin(t, "close", a)
      /\ handle[f] # "none" /\ ~released[f]
      /\ released' = [released EXCEPT ![f] = TRUE] /\ closes' = [closes EXCEPT ![f] = @ + 1]
  BY DEF Release
<1>2. /\ "close" \in Phase /\ a \in Call /\ a.got <= a.n /\ a.f = f /\ a.off + a.n <= MaxLen
  <2>1. a \in Call /\ a.f = f /\ a.got = 0 /\ a.n = 0 /\ a.off = 0
    BY CallTypes DEF Call, NoArgs
  <2>2. QED
    BY <2>1, MaxLenAssumption DEF Phase
<1> HIDE DEF a
<1>3. /\ pc[t] = "idle" /\ pc'[t] = "close" /\ args'[t] = a /\ answer' = NoAnswer
      /\ pc' \in [Task -> Phase] /\ args' \in [Task -> Call] /\ answer' \in Call
      /\ answer'.got <= answer'.n /\ \A u \in Task : args'[u].got <= args'[u].n
      /\ \A u \in Task \ {t} : pc'[u] = pc[u] /\ args'[u] = args[u]
  BY <1>1, <1>2, BeginFacts DEF IInv
<1>4. closes' \in [File -> Nat] /\ released' \in [File -> BOOLEAN]
  BY <1>1 DEF IInv, TypeOK
<1>5. TypeOK'
  BY <1>1, <1>3, <1>4 DEF IInv, TypeOK, Phase, session, lengths
<1>6. Counted'
  <2>1. closes[f] = 0 /\ closes \in [File -> Nat] /\ released \in [File -> BOOLEAN]
    BY <1>1 DEF IInv, Counted, TypeOK
  <2>2. closes'[f] = 1 /\ released'[f] = TRUE
    BY <1>1, <2>1
  <2>3. \A g \in File \ {f} : closes'[g] = closes[g] /\ released'[g] = released[g]
    BY <1>1, <2>1
  <2>4. QED
    BY <1>1, <2>2, <2>3 DEF IInv, Counted, session
<1>7. Settled' /\ ShortMeansEnd'
  BY <1>1, <1>3, SettledKeeps, NoAnswerFacts DEF session
<1>8. CallsFit' /\ Lengths' /\ Seen'
  BY <1>1, <1>2, <1>3, QuietStep DEF OnFile, Resizes, Adds
<1>9. QED
  BY <1>5, <1>6, <1>7, <1>8 DEF IInv

LEMMA CallReadKeeps ==
    ASSUME IInv, NEW t \in Task, NEW f \in File, NEW r \in Requests, NEW exact \in BOOLEAN,
           CallRead(t, f, r[1], r[2], exact)
    PROVE  IInv'
<1> DEFINE a == [f |-> f, off |-> r[1], n |-> r[2], got |-> 0, least |-> size[f], exact |-> exact]
<1>1. /\ UNCHANGED <<session, files, lengths, settled>> /\ Begin(t, "read", a)
      /\ handle[f] # "none"
  BY DEF CallRead, CanUse
<1>2. /\ "read" \in Phase /\ a \in Call /\ a.got <= a.n /\ a.f = f
      /\ a.off + a.n <= MaxLen /\ a.least <= size[f]
  <2>1. r[1] \in 0..MaxLen /\ r[2] \in 0..MaxLen /\ r[1] + r[2] <= MaxLen /\ 0 \in 0..MaxLen
    BY MaxLenAssumption DEF Requests
  <2>2. size[f] \in 0..MaxLen
    BY DEF IInv, TypeOK
  <2>3. QED
    BY <2>1, <2>2, MaxLenAssumption DEF Call, Phase
<1> HIDE DEF a
<1>3. /\ pc[t] = "idle" /\ pc'[t] = "read" /\ args'[t] = a /\ answer' = NoAnswer
      /\ pc' \in [Task -> Phase] /\ args' \in [Task -> Call] /\ answer' \in Call
      /\ answer'.got <= answer'.n /\ \A u \in Task : args'[u].got <= args'[u].n
      /\ \A u \in Task \ {t} : pc'[u] = pc[u] /\ args'[u] = args[u]
  BY <1>1, <1>2, BeginFacts DEF IInv
<1>4. TypeOK'
  BY <1>1, <1>3 DEF IInv, TypeOK, Phase, session, files, lengths
<1>5. Counted' /\ Settled' /\ ShortMeansEnd'
  BY <1>1, <1>3, CountedKeeps, SettledKeeps, NoAnswerFacts DEF session, files
<1>6. CallsFit' /\ Lengths' /\ Seen'
  BY <1>1, <1>2, <1>3, QuietStep DEF files, OnFile, Resizes, Adds
<1>7. QED
  BY <1>4, <1>5, <1>6 DEF IInv

-----------------------------------------------------------------------------
(* The steps of a call that change no length *)

LEMMA ReturnQuietly ==
    ASSUME IInv, NEW t \in Task, Returns(t), pc[t] \notin {"wrote", "resized"},
           UNCHANGED lengths, \A f \in File : handle[f] # "none" => handle'[f] # "none"
    PROVE  CallsFit' /\ Lengths' /\ Seen'
<1>1. /\ pc'[t] = "idle" /\ args'[t] = NoArgs
      /\ \A u \in Task \ {t} : pc'[u] = pc[u] /\ args'[u] = args[u]
  BY ReturnsFacts DEF IInv
<1>2. args'[t].f = TheSession /\ args'[t].off + args'[t].n <= MaxLen
  BY <1>1, CallTypes, MaxLenAssumption
<1>3. QED
  BY <1>1, <1>2, QuietStep DEF OnFile, Resizes, Adds

LEMMA FailsKeeps ==
    ASSUME IInv, NEW t \in Task, Fails(t)
    PROVE  IInv'
<1>1. /\ UNCHANGED <<session, files, lengths, settled>> /\ Returns(t) /\ answer' = NoAnswer
      /\ pc[t] \notin {"wrote", "resized"}
  BY DEF Fails, Return
<1>2. /\ pc' \in [Task -> Phase] /\ args' \in [Task -> Call] /\ answer' \in Call
      /\ answer'.got <= answer'.n /\ \A u \in Task : args'[u].got <= args'[u].n
  BY <1>1, ReturnsFacts, NoAnswerFacts DEF IInv
<1>3. TypeOK'
  BY <1>1, <1>2 DEF IInv, TypeOK, Phase, session, files, lengths
<1>4. Counted' /\ Settled' /\ ShortMeansEnd'
  BY <1>1, CountedKeeps, SettledKeeps, NoAnswerFacts DEF session, files
<1>5. CallsFit' /\ Lengths' /\ Seen'
  BY <1>1, ReturnQuietly DEF files
<1>6. QED
  BY <1>3, <1>4, <1>5 DEF IInv

LEMMA ClosedKeeps ==
    ASSUME IInv, NEW t \in Task, Closed(t)
    PROVE  IInv'
<1> DEFINE f == args[t].f
<1>1. /\ UNCHANGED <<session, released, closes, lengths>> /\ pc[t] = "close"
      /\ handle' = (IF backend = "smb" THEN [handle EXCEPT ![f] = "closed"] ELSE handle)
      /\ settled' = settled \cup {f} /\ Returns(t) /\ answer' = NoAnswer
  BY DEF Closed, Return
<1>2. f \in File /\ handle[f] # "none"
  BY <1>1 DEF IInv, CallsFit, OnFile
<1> HIDE DEF f
<1>3. handle \in [File -> {"none", "open", "closed"}]
  BY DEF IInv, TypeOK
<1>4. handle' \in [File -> {"none", "open", "closed"}]
  BY <1>1, <1>3
<1>5. \A g \in File : handle'[g] = IF backend = "smb" /\ g = f THEN "closed" ELSE handle[g]
  BY <1>1, <1>3
<1>6. /\ pc' \in [Task -> Phase] /\ args' \in [Task -> Call] /\ answer' \in Call
      /\ answer'.got <= answer'.n /\ \A u \in Task : args'[u].got <= args'[u].n
  BY <1>1, ReturnsFacts, NoAnswerFacts DEF IInv
<1>7. TypeOK'
  <2>1. settled' \subseteq File \cup {TheSession}
    BY <1>1, <1>2 DEF IInv, TypeOK
  <2>2. QED
    BY <1>1, <1>4, <1>6, <2>1 DEF IInv, TypeOK, Phase, session, lengths
<1>8. Counted' /\ ShortMeansEnd'
  BY <1>1, CountedKeeps, NoAnswerFacts DEF session
<1>9. Settled'
  BY <1>1, <1>2, <1>5, FileAssumption DEF IInv, Settled, session
<1>10. CallsFit' /\ Lengths' /\ Seen'
  BY <1>1, <1>5, ReturnQuietly
<1>11. QED
  BY <1>7, <1>8, <1>9, <1>10 DEF IInv

\* The end of an SMB session.
LEMMA EndsFacts ==
    ASSUME IInv, Ends
    PROVE  /\ gone' = TRUE /\ handle' \in [File -> {"none", "open", "closed"}]
           /\ \A f \in File : /\ handle'[f] # "open"
                              /\ handle[f] # "none" => handle'[f] # "none"
                              /\ handle[f] = "closed" => handle'[f] = "closed"
<1>1. handle \in [File -> {"none", "open", "closed"}]
  BY DEF IInv, TypeOK
<1>2. QED
  BY <1>1 DEF Ends

LEMMA ShutDownKeeps ==
    ASSUME IInv, NEW t \in Task, ShutDown(t)
    PROVE  IInv'
<1>1. /\ pc[t] = "shutdown" /\ Returns(t) /\ answer' = NoAnswer
      /\ IF backend = "smb" THEN Ends ELSE UNCHANGED <<gone, handle>>
      /\ settled' = settled \cup {TheSession}
      /\ UNCHANGED <<backend, disconnected, shutdowns, released, closes, lengths>>
  BY DEF ShutDown, Return
<1>2. /\ gone' \in BOOLEAN /\ handle' \in [File -> {"none", "open", "closed"}]
      /\ \A f \in File : handle[f] # "none" => handle'[f] # "none"
      /\ backend = "smb" => /\ gone' = TRUE
                            /\ \A f \in File : /\ handle'[f] # "open"
                                               /\ handle[f] = "closed" => handle'[f] = "closed"
  BY <1>1, EndsFacts DEF IInv, TypeOK
<1>3. /\ pc' \in [Task -> Phase] /\ args' \in [Task -> Call] /\ answer' \in Call
      /\ answer'.got <= answer'.n /\ \A u \in Task : args'[u].got <= args'[u].n
  BY <1>1, ReturnsFacts, NoAnswerFacts DEF IInv
<1>4. TypeOK'
  BY <1>1, <1>2, <1>3 DEF IInv, TypeOK, Phase, lengths
<1>5. Counted' /\ ShortMeansEnd'
  BY <1>1, CountedKeeps, NoAnswerFacts
<1>6. Settled'
  BY <1>1, <1>2, FileAssumption DEF IInv, Settled
<1>7. CallsFit' /\ Lengths' /\ Seen'
  BY <1>1, <1>2, ReturnQuietly
<1>8. QED
  BY <1>4, <1>5, <1>6, <1>7 DEF IInv

LEMMA ConnectionLostKeeps ==
    ASSUME IInv, ConnectionLost
    PROVE  IInv'
<1>1. /\ backend = "smb" /\ Ends /\ answer' = NoAnswer
      /\ UNCHANGED <<backend, disconnected, shutdowns, released, closes, lengths, pc, args, settled>>
  BY DEF ConnectionLost
<1>2. /\ gone' = TRUE /\ handle' \in [File -> {"none", "open", "closed"}]
      /\ \A f \in File : /\ handle'[f] # "open"
                         /\ handle[f] # "none" => handle'[f] # "none"
                         /\ handle[f] = "closed" => handle'[f] = "closed"
  BY <1>1, EndsFacts
<1>3. answer' \in Call /\ answer'.got <= answer'.n /\ ShortMeansEnd'
  BY <1>1, NoAnswerFacts
<1>4. TypeOK'
  BY <1>1, <1>2, <1>3 DEF IInv, TypeOK, lengths
<1>5. Counted'
  BY <1>1, CountedKeeps
<1>6. Settled'
  BY <1>1, <1>2 DEF IInv, Settled
<1>7. \A u \in Task : Same(u)
  BY <1>1 DEF Same
<1>8. CallsFit' /\ Lengths' /\ Seen'
  BY <1>1, <1>2, <1>7, FitKeeps, QuietKeeps, SeenKeeps DEF lengths
<1>9. QED
  BY <1>3, <1>4, <1>5, <1>6, <1>8 DEF IInv

LEMMA ReadReturnsFacts ==
    ASSUME IInv, NEW t \in Task, pc[t] = "read", NEW got \in Int, got >= 0, got <= args[t].n,
           got < args[t].n => args[t].least <= args[t].off + got, ReadReturns(t, got)
    PROVE  answer' \in Call /\ answer'.got <= answer'.n /\ ShortMeansEnd'
<1> DEFINE a == args[t]
           b == [a EXCEPT !.got = got]
<1>1. a \in Call
  BY DEF IInv, TypeOK
<1>2. a.n \in 0..MaxLen /\ a.off \in Int /\ a.least \in Int
  BY <1>1, CallTypes
<1>3. /\ b \in Call /\ b.got = got /\ b.n = a.n /\ b.off = a.off /\ b.least = a.least
      /\ b.exact = a.exact
  <2>1. got \in 0..MaxLen
    BY <1>2, MaxLenAssumption
  <2>2. QED
    BY <1>1, <2>1 DEF Call
<1>4. answer' = IF got < a.n /\ a.exact THEN NoAnswer ELSE b
  BY DEF ReadReturns
<1> HIDE DEF a, b
<1>5. CASE got < a.n /\ a.exact
  BY <1>4, <1>5, NoAnswerFacts
<1>6. CASE ~(got < a.n /\ a.exact)
  <2>1. answer' = b
    BY <1>4, <1>6
  <2>2. b.got <= b.n
    BY <1>3 DEF a
  <2>3. b.got < b.n => ~b.exact
    BY <1>3, <1>6
  <2>4. b.got < b.n => b.least <= b.off + b.got
    BY <1>3 DEF a
  <2>5. QED
    BY <1>3, <2>1, <2>2, <2>3, <2>4 DEF ShortMeansEnd
<1>7. QED
  BY <1>5, <1>6

LEMMA ReadMoreKeeps ==
    ASSUME IInv, NEW t \in Task, ReadMore(t)
    PROVE  IInv'
<1> DEFINE a == args[t]
           left == size[a.f] - (a.off + a.got)
           Whole == ReadReturns(t, a.n)
           Ended == left <= 0 /\ ReadReturns(t, a.got)
           Further(k) == /\ args' = [args EXCEPT ![t].got = a.got + k]
                         /\ Goto(t, "read")
<1>1. /\ UNCHANGED <<session, files, lengths, settled>> /\ pc[t] = "read"
      /\ Whole \/ Ended \/ \E k \in 1..(a.n - a.got) : a.got + k # a.n /\ Further(k)
  BY DEF ReadMore
<1>2. Counted' /\ Settled'
  BY <1>1, CountedKeeps, SettledKeeps DEF session, files
<1>3. /\ a \in Call /\ a.f \in File /\ handle[a.f] # "none" /\ a.least <= size[a.f]
      /\ a.off + a.n <= MaxLen /\ a.got <= a.n
  BY <1>1 DEF IInv, TypeOK, CallsFit, OnFile, Seen
<1>4. /\ a.n \in 0..MaxLen /\ a.got \in 0..MaxLen /\ a.off \in 0..MaxLen /\ a.least \in 0..MaxLen
      /\ size[a.f] \in 0..MaxLen
  BY <1>3, CallTypes DEF IInv, TypeOK
<1>5. CASE Whole \/ Ended
  <2>1. Returns(t)
    BY <1>5 DEF ReadReturns
  <2>2. answer' \in Call /\ answer'.got <= answer'.n /\ ShortMeansEnd'
    <3>1. CASE Whole
      BY <1>1, <1>4, <3>1, ReadReturnsFacts
    <3>2. CASE Ended
      <4>1. a.least <= a.off + a.got
        BY <1>3, <1>4, <3>2, MaxLenAssumption
      <4>2. QED
        BY <1>1, <1>3, <1>4, <3>2, <4>1, ReadReturnsFacts
    <3>3. QED
      BY <1>5, <3>1, <3>2
  <2>3. /\ pc' \in [Task -> Phase] /\ args' \in [Task -> Call]
        /\ \A u \in Task : args'[u].got <= args'[u].n
    BY <2>1, ReturnsFacts DEF IInv
  <2>4. TypeOK'
    BY <1>1, <2>2, <2>3 DEF IInv, TypeOK, Phase, session, files, lengths
  <2>5. CallsFit' /\ Lengths' /\ Seen'
    BY <1>1, <2>1, ReturnQuietly DEF files
  <2>6. QED
    BY <1>2, <2>2, <2>4, <2>5 DEF IInv
<1>6. ASSUME NEW k \in 1..(a.n - a.got), Further(k)
      PROVE  IInv'
  <2> DEFINE b == [a EXCEPT !.got = a.got + k]
  <2>1. /\ args' = [args EXCEPT ![t] = b] /\ pc' = [pc EXCEPT ![t] = "read"]
        /\ answer' = NoAnswer
    BY <1>6 DEF Goto
  <2>2. a.got + k \in 0..MaxLen /\ a.got + k <= a.n
    BY <1>4, MaxLenAssumption
  <2>3. /\ b \in Call /\ b.got = a.got + k /\ b.n = a.n /\ b.off = a.off /\ b.least = a.least
        /\ b.f = a.f
    BY <1>3, <2>2 DEF Call
  <2> HIDE DEF b
  <2>4. /\ pc \in [Task -> Phase] /\ args \in [Task -> Call]
        /\ \A u \in Task : args[u].got <= args[u].n
    BY DEF IInv, TypeOK, Phase
  <2>5. /\ pc' \in [Task -> Phase] /\ args' \in [Task -> Call]
        /\ pc'[t] = "read" /\ args'[t] = b
        /\ \A u \in Task \ {t} : pc'[u] = pc[u] /\ args'[u] = args[u]
    BY <1>1, <2>1, <2>3, <2>4
  <2>6. b.got <= b.n
    BY <2>2, <2>3
  <2>7. \A u \in Task : args'[u].got <= args'[u].n
    BY <2>4, <2>5, <2>6
  <2>8. answer' \in Call /\ answer'.got <= answer'.n /\ ShortMeansEnd'
    BY <2>1, NoAnswerFacts
  <2>9. TypeOK'
    BY <1>1, <2>5, <2>7, <2>8 DEF IInv, TypeOK, Phase, session, files, lengths
  <2>10. b.f \in File /\ handle'[b.f] # "none" /\ b.off + b.n <= MaxLen /\ b.least <= size[b.f]
    BY <1>1, <1>3, <2>3 DEF files
  <2>11. CallsFit' /\ Lengths' /\ Seen'
    BY <1>1, <2>5, <2>10, QuietStep DEF files, OnFile, Resizes, Adds
  <2>12. QED
    BY <1>2, <2>8, <2>9, <2>11 DEF IInv
<1>7. QED
  BY <1>1, <1>5, <1>6

-----------------------------------------------------------------------------
(* Opening a file, and calling for a change of its length *)

LEMMA OpenedKeeps ==
    ASSUME IInv, NEW t \in Task, NEW f \in File, Opened(t, f)
    PROVE  IInv'
<1>1. PICK n \in 0..MaxLen :
         /\ size' = [size EXCEPT ![f] = n]
         /\ \/ len' = [len EXCEPT ![f] = n] /\ UNCHANGED known
            \/ backend = "smb" /\ len' = [len EXCEPT ![f] = 0] /\ known' = known \ {f}
  BY DEF Opened
<1>2. /\ UNCHANGED <<session, released, closes, settled>> /\ Returns(t) /\ answer' = NoAnswer
      /\ pc[t] = "open" /\ ~gone /\ handle[f] = "none"
      /\ handle' = [handle EXCEPT ![f] = "open"]
  BY DEF Opened, Return
<1>3. /\ pc'[t] = "idle" /\ args'[t] = NoArgs
      /\ pc' \in [Task -> Phase] /\ args' \in [Task -> Call]
      /\ \A u \in Task : args'[u].got <= args'[u].n
      /\ \A u \in Task \ {t} : pc'[u] = pc[u] /\ args'[u] = args[u]
      /\ answer' \in Call /\ answer'.got <= answer'.n /\ ShortMeansEnd'
  BY <1>2, ReturnsFacts, NoAnswerFacts DEF IInv
<1>4. /\ handle \in [File -> {"none", "open", "closed"}] /\ known \subseteq File
      /\ size \in [File -> 0..MaxLen] /\ len \in [File -> 0..MaxLen]
  BY DEF IInv, TypeOK
<1>5. /\ handle' \in [File -> {"none", "open", "closed"}] /\ handle'[f] = "open"
      /\ \A g \in File \ {f} : handle'[g] = handle[g]
  BY <1>2, <1>4
<1>6. /\ size' \in [File -> 0..MaxLen] /\ size'[f] = n
      /\ \A g \in File \ {f} : size'[g] = size[g]
  BY <1>1, <1>4
<1>7. /\ len' \in [File -> 0..MaxLen] /\ \A g \in File \ {f} : len'[g] = len[g]
      /\ known' \subseteq known /\ (f \in known' => len'[f] = n)
  BY <1>1, <1>4, MaxLenAssumption
<1>8. TypeOK'
  BY <1>2, <1>3, <1>4, <1>5, <1>6, <1>7 DEF IInv, TypeOK, Phase, session
<1>9. \A u \in Task : pc[u] \in OnFile => args[u].f \in File \ {f}
  BY <1>2 DEF IInv, CallsFit
<1>10. args'[t].f = TheSession /\ args'[t].off + args'[t].n <= MaxLen
  BY <1>3, CallTypes, MaxLenAssumption
<1>11. CallsFit'
  <2>1. \A u \in Task : u = t \/ Same(u)
    BY <1>3 DEF Same
  <2>2. pc'[t] \notin OnFile
    BY <1>3 DEF OnFile
  <2>3. QED
    BY <1>2, <1>5, <1>10, <2>1, <2>2, FitKeeps
<1>12. Counted'
  BY <1>2, CountedKeeps DEF session
<1>13. Settled'
  BY <1>2, <1>5 DEF IInv, Settled, session
<1>14. Lengths'
  <2>1. SUFFICES ASSUME NEW g \in known' PROVE Alone(g)' /\ Pending(g)' /\ Behind(g)'
    BY DEF Lengths
  <2>2. CASE g = f
    <3>1. \A u \in Task : pc'[u] \in Resizes \cup Adds => args'[u].f # f
      BY <1>3, <1>9 DEF OnFile, Resizes, Adds
    <3>2. \A u \in Task : /\ ~Busy(u, g, Resizes)' /\ ~Busy(u, g, {"resized"})'
                          /\ ~Busy(u, g, {"wrote"})'
      BY <2>2, <3>1 DEF Busy, Resizes, Adds
    <3>3. Alone(g)' /\ Pending(g)'
      BY <3>2 DEF Alone, Pending
    <3>4. len'[g] = size'[g] /\ size'[g] \in 0..MaxLen
      BY <1>6, <1>7, <2>2
    <3>5. Behind(g)'
      BY <3>4, MaxLenAssumption DEF Behind
    <3>6. QED
      BY <3>3, <3>5
  <2>3. CASE g # f
    <3>1. g \in known /\ g \in File \ {f}
      BY <1>4, <1>7, <2>3
    <3>2. \A u \in Task : \/ Same(u)
                          \/ /\ ~Busy(u, g, {"resized", "wrote"})
                             /\ ~Busy(u, g, Resizes \cup Adds)'
      BY <1>2, <1>3 DEF Same, Busy, Resizes, Adds
    <3>3. QED
      BY <1>6, <1>7, <3>1, <3>2, ElsewhereKeeps
  <2>4. QED
    BY <2>2, <2>3
<1>15. Seen'
  <2>1. \A u \in Task : pc'[u] = "read" => /\ pc[u] = "read" /\ args'[u] = args[u]
                                           /\ args[u].f \in File \ {f}
    BY <1>3, <1>9 DEF OnFile
  <2>2. QED
    BY <1>6, <2>1 DEF IInv, Seen
<1>16. QED
  BY <1>3, <1>8, <1>11, <1>12, <1>13, <1>14, <1>15 DEF IInv

\* What a call begins that will change the length of f, whose length is known from
\* now on only if no set_len overlaps the call.
LEMMA ResizerBegins ==
    ASSUME IInv, NEW t \in Task, NEW f \in File, NEW at \in {"write", "set_len"},
           NEW a \in Call, a.f = f, a.got <= a.n, a.off + a.n <= MaxLen,
           handle[f] # "none", Begin(t, at, a), known' \subseteq known,
           f \in known' => /\ Resizing(t, f) = {}
                           /\ at = "set_len" => Writing(t, f) = {},
           UNCHANGED <<session, files, size, len, settled>>
    PROVE  IInv'
<1>1. at \in Phase
  BY DEF Phase
<1>2. /\ pc[t] = "idle" /\ pc'[t] = at /\ args'[t] = a /\ answer' = NoAnswer
      /\ pc' \in [Task -> Phase] /\ args' \in [Task -> Call] /\ answer' \in Call
      /\ answer'.got <= answer'.n /\ \A u \in Task : args'[u].got <= args'[u].n
      /\ \A u \in Task \ {t} : pc'[u] = pc[u] /\ args'[u] = args[u]
  BY <1>1, BeginFacts DEF IInv
<1>3. TypeOK'
  BY <1>2 DEF IInv, TypeOK, Phase, session, files
<1>4. \A u \in Task : u = t \/ Same(u)
  BY <1>2 DEF Same
<1>5. CallsFit'
  BY <1>2, <1>4, FitKeeps DEF files, OnFile
<1>6. Counted' /\ Settled' /\ ShortMeansEnd'
  BY <1>2, CountedKeeps, SettledKeeps, NoAnswerFacts DEF session, files
<1>7. Seen'
  BY <1>2, SeenKeeps
<1>8. Lengths'
  <2>1. SUFFICES ASSUME NEW g \in known' PROVE Alone(g)' /\ Pending(g)' /\ Behind(g)'
    BY DEF Lengths
  <2>2. CASE g = f
    <3>1. Alone(g) /\ Pending(g) /\ Behind(g)
      BY DEF IInv, Lengths
    <3>2. \A u \in Task \ {t} : /\ ~Busy(u, g, Resizes)
                                /\ at = "set_len" => ~Busy(u, g, Resizes \cup Adds)
      BY <2>2 DEF Resizing, Writing, Busy, Resizes, Adds
    <3>3. \A u \in Task \ {t} : /\ Busy(u, g, Resizes)' <=> Busy(u, g, Resizes)
                                /\ Busy(u, g, Resizes \cup Adds)' <=> Busy(u, g, Resizes \cup Adds)
      BY <1>2 DEF Busy
    <3>4. at = "write" => ~Busy(t, g, Resizes)'
      BY <1>2 DEF Busy, Resizes
    <3>5. Alone(g)'
      BY <3>2, <3>3, <3>4 DEF Alone
    <3>6. /\ ~Busy(t, g, {"resized"}) /\ ~Busy(t, g, {"wrote"})
          /\ ~Busy(t, g, {"resized"})' /\ ~Busy(t, g, {"wrote"})'
      BY <1>2 DEF Busy
    <3>7. \A u \in Task \ {t} : /\ Busy(u, g, {"resized"})' <=> Busy(u, g, {"resized"})
                                /\ Busy(u, g, {"wrote"})' <=> Busy(u, g, {"wrote"})
      BY <1>2 DEF Busy
    <3>8. Pending(g)'
      BY <1>2, <3>1, <3>6, <3>7 DEF Pending
    <3>9. Behind(g)'
      <4>1. (\A u \in Task : ~Busy(u, g, {"resized"})') => \A u \in Task : ~Busy(u, g, {"resized"})
        BY <3>6, <3>7
      <4>2. (\E u \in Task : Busy(u, g, {"wrote"}) /\ args[u].off + args[u].got = size[g]) =>
               \E u \in Task : Busy(u, g, {"wrote"})' /\ args'[u].off + args'[u].got = size[g]
        BY <1>2, <3>6, <3>7
      <4>3. size' = size /\ len' = len
        OBVIOUS
      <4>4. QED
        BY <3>1, <4>1, <4>2, <4>3 DEF Behind
    <3>10. QED
      BY <3>5, <3>8, <3>9
  <2>3. CASE g # f
    <3>1. \A u \in Task : \/ Same(u)
                          \/ /\ ~Busy(u, g, {"resized", "wrote"})
                             /\ ~Busy(u, g, Resizes \cup Adds)'
      BY <1>2, <1>4, <2>3 DEF Busy
    <3>2. QED
      BY <3>1, ElsewhereKeeps
  <2>4. QED
    BY <2>2, <2>3
<1>9. QED
  BY <1>3, <1>5, <1>6, <1>7, <1>8 DEF IInv

LEMMA CallWriteKeeps ==
    ASSUME IInv, NEW t \in Task, NEW f \in File, NEW r \in Requests, CallWrite(t, f, r[1], r[2])
    PROVE  IInv'
<1> DEFINE a == [NoArgs EXCEPT !.f = f, !.off = r[1], !.n = r[2]]
<1>1. /\ handle[f] # "none" /\ Begin(t, "write", a)
      /\ known' = (IF Resizing(t, f) # {} THEN known \ {f} ELSE known)
      /\ UNCHANGED <<session, files, size, len, settled>>
  BY DEF CallWrite, CanUse
<1>2. r[1] \in 0..MaxLen /\ r[2] \in 0..MaxLen /\ r[1] + r[2] <= MaxLen
  BY DEF Requests
<1>3. a \in Call /\ a.f = f /\ a.got = 0 /\ a.n = r[2] /\ a.off = r[1]
  BY <1>2, CallTypes DEF Call, NoArgs
<1>4. a.got <= a.n /\ a.off + a.n <= MaxLen
  BY <1>2, <1>3
<1> HIDE DEF a
<1>5. known' \subseteq known /\ (f \in known' => Resizing(t, f) = {})
  BY <1>1
<1>6. QED
  BY <1>1, <1>3, <1>4, <1>5, ResizerBegins

LEMMA CallSetLenKeeps ==
    ASSUME IInv, NEW t \in Task, NEW f \in File, NEW n \in 0..MaxLen, CallSetLen(t, f, n)
    PROVE  IInv'
<1> DEFINE a == [NoArgs EXCEPT !.f = f, !.n = n]
<1>1. /\ handle[f] # "none" /\ Begin(t, "set_len", a)
      /\ known' = (IF Resizing(t, f) \cup Writing(t, f) # {} THEN known \ {f} ELSE known)
      /\ UNCHANGED <<session, files, size, len, settled>>
  BY DEF CallSetLen, CanUse
<1>2. a \in Call /\ a.f = f /\ a.got = 0 /\ a.n = n /\ a.off = 0
  BY CallTypes DEF Call, NoArgs
<1>3. a.got <= a.n /\ a.off + a.n <= MaxLen
  BY <1>2
<1> HIDE DEF a
<1>4. /\ known' \subseteq known
      /\ f \in known' => Resizing(t, f) = {} /\ Writing(t, f) = {}
  BY <1>1
<1>5. QED
  BY <1>1, <1>2, <1>3, <1>4, ResizerBegins

-----------------------------------------------------------------------------
(* Changing the length of a file, and the answer *)

LEMMA WriteKeeps ==
    ASSUME IInv, NEW t \in Task, Write(t)
    PROVE  IInv'
<1> DEFINE f == args[t].f
           off == args[t].off
<1>1. PICK k \in 0..args[t].n : Writes(t, k)
  BY DEF Write
<1>2. /\ pc[t] = "write" /\ pc' = [pc EXCEPT ![t] = "wrote"] /\ answer' = NoAnswer
      /\ args' = [args EXCEPT ![t].got = k]
      /\ known' = (IF args[t].n = 0 /\ off > size[f] THEN known \ {f} ELSE known)
      /\ UNCHANGED <<session, files, len, settled>>
      /\ \/ args[t].n = 0 /\ k = 0 /\ size' = size
         \/ k \in 1..args[t].n /\ size' = [size EXCEPT ![f] = Larger(size[f], off + k)]
  BY <1>1 DEF Write, Writes, Goto, Resize
<1>3. /\ args[t] \in Call /\ f \in File /\ handle[f] # "none" /\ off + args[t].n <= MaxLen
  BY <1>2 DEF IInv, TypeOK, CallsFit, OnFile
<1>4. /\ args[t].n \in 0..MaxLen /\ off \in 0..MaxLen
      /\ size \in [File -> 0..MaxLen] /\ len \in [File -> 0..MaxLen] /\ size[f] \in 0..MaxLen
      /\ known \subseteq File
  BY <1>3, CallTypes DEF IInv, TypeOK
<1> DEFINE b == [args[t] EXCEPT !.got = k]
<1>5. /\ b \in Call /\ b.f = f /\ b.off = off /\ b.n = args[t].n /\ b.got = k /\ b.got <= b.n
  <2>1. k \in 0..MaxLen /\ k <= args[t].n
    BY <1>4, MaxLenAssumption
  <2>2. QED
    BY <1>3, <2>1 DEF Call
<1>6. args' = [args EXCEPT ![t] = b]
  BY <1>2
<1> HIDE DEF b
<1>7. /\ pc \in [Task -> Phase] /\ args \in [Task -> Call]
      /\ \A u \in Task : args[u].got <= args[u].n
  BY DEF IInv, TypeOK, Phase
<1>8. /\ pc' \in [Task -> Phase] /\ args' \in [Task -> Call]
      /\ pc'[t] = "wrote" /\ args'[t] = b
      /\ \A u \in Task \ {t} : pc'[u] = pc[u] /\ args'[u] = args[u]
  BY <1>2, <1>5, <1>6, <1>7 DEF Phase
<1>9. \A u \in Task : args'[u].got <= args'[u].n
  BY <1>5, <1>7, <1>8
<1>10. answer' \in Call /\ answer'.got <= answer'.n /\ ShortMeansEnd'
  BY <1>2, NoAnswerFacts
<1> HIDE DEF f, off
<1>11. /\ size' \in [File -> 0..MaxLen] /\ size'[f] >= size[f]
       /\ \A g \in File \ {f} : size'[g] = size[g]
       /\ \/ k = 0 /\ args[t].n = 0 /\ size'[f] = size[f]
          \/ size'[f] = Larger(size[f], off + k)
  <2>1. CASE args[t].n = 0 /\ k = 0 /\ size' = size
    BY <1>4, <2>1
  <2>2. CASE k \in 1..args[t].n /\ size' = [size EXCEPT ![f] = Larger(size[f], off + k)]
    <3>1. /\ Larger(size[f], off + k) \in 0..MaxLen /\ Larger(size[f], off + k) >= size[f]
      BY <1>3, <1>4, <2>2, MaxLenAssumption DEF Larger
    <3>2. size'[f] = Larger(size[f], off + k)
      BY <1>3, <1>4, <2>2
    <3>3. size' \in [File -> 0..MaxLen] /\ \A g \in File \ {f} : size'[g] = size[g]
      BY <1>4, <2>2, <3>1
    <3>4. QED
      BY <3>1, <3>2, <3>3
  <2>3. QED
    BY <1>2, <2>1, <2>2
<1>12. known' \subseteq known
  BY <1>2
<1>13. TypeOK'
  BY <1>2, <1>4, <1>8, <1>9, <1>10, <1>11, <1>12 DEF IInv, TypeOK, Phase, session, files
<1>14. \A u \in Task : u = t \/ Same(u)
  BY <1>8 DEF Same
<1>15. CallsFit'
  BY <1>2, <1>3, <1>5, <1>8, <1>14, FitKeeps DEF files, OnFile
<1>16. Counted' /\ Settled'
  BY <1>2, CountedKeeps, SettledKeeps DEF session, files
<1>17. Seen'
  <2>1. \A u \in Task : pc'[u] = "read" => pc[u] = "read" /\ args'[u] = args[u]
    BY <1>8
  <2>2. \A g \in File : size[g] <= size'[g] /\ size[g] \in Int /\ size'[g] \in Int
    BY <1>4, <1>11
  <2>3. SUFFICES ASSUME NEW u \in Task, pc'[u] = "read" PROVE args'[u].least <= size'[args'[u].f]
    BY DEF Seen
  <2>4. pc[u] = "read" /\ args'[u] = args[u] /\ args[u].f \in File
    BY <2>1, <2>3 DEF IInv, CallsFit, OnFile
  <2>5. args[u].least <= size[args[u].f] /\ args[u].least \in 0..MaxLen
    BY <1>7, <2>4, CallTypes DEF IInv, Seen
  <2>6. size[args[u].f] <= size'[args[u].f] /\ size[args[u].f] \in Int /\ size'[args[u].f] \in Int
    BY <2>2, <2>4
  <2>7. QED
    BY <2>4, <2>5, <2>6
<1>18. Lengths'
  <2>1. SUFFICES ASSUME NEW g \in known' PROVE Alone(g)' /\ Pending(g)' /\ Behind(g)'
    BY DEF Lengths
  <2>2. CASE g = f
    <3>1. Alone(g) /\ Pending(g) /\ Behind(g) /\ g \in known
      BY <1>12 DEF IInv, Lengths
    <3>2. Busy(t, g, Adds) /\ Busy(t, g, Resizes \cup Adds)
      BY <1>2, <2>2 DEF Busy, Adds, f
    <3>3. \A u \in Task : ~Busy(u, g, Resizes)
      BY <1>2, <3>1, <3>2 DEF Alone, Busy, Resizes
    <3>4. \A u \in Task : ~Busy(u, g, Resizes)' /\ ~Busy(u, g, {"resized"})' /\ ~Busy(u, g, {"resized"})
      BY <1>8, <3>3 DEF Busy, Resizes
    <3>5. Alone(g)'
      BY <3>4 DEF Alone
    <3>6. off + k <= size'[g]
      <4>1. CASE k = 0 /\ args[t].n = 0 /\ size'[f] = size[f]
        <5>1. ~(off > size[f])
          BY <1>2, <2>2, <4>1
        <5>2. QED
          BY <1>4, <2>2, <4>1, <5>1
      <4>2. CASE size'[f] = Larger(size[f], off + k)
        BY <1>4, <2>2, <4>2 DEF Larger
      <4>3. QED
        BY <1>11, <4>1, <4>2
    <3>7. Busy(t, g, {"wrote"})' /\ args'[t].off + args'[t].got = off + k
      BY <1>5, <1>8, <2>2 DEF Busy
    <3>8. \A u \in Task \ {t} : /\ Busy(u, g, {"wrote"})' <=> Busy(u, g, {"wrote"})
                                /\ args'[u] = args[u]
      BY <1>8 DEF Busy
    <3>9. ~Busy(t, g, {"wrote"})
      BY <1>2 DEF Busy
    <3>10. size[g] <= size'[g] /\ size[g] \in Int /\ size'[g] \in Int /\ len[g] \in Int /\ len'[g] = len[g]
      BY <1>2, <1>3, <1>4, <1>11, <2>2
    <3>11. Pending(g)'
      <4>1. ASSUME NEW u \in Task, Busy(u, g, {"wrote"})'
            PROVE  args'[u].off + args'[u].got <= size'[g]
        <5>1. CASE u = t
          BY <3>6, <3>7, <5>1
        <5>2. CASE u # t
          <6>1. Busy(u, g, {"wrote"}) /\ args'[u] = args[u]
            BY <3>8, <4>1, <5>2
          <6>2. args[u].off + args[u].got <= size[g] /\ args[u].off \in 0..MaxLen /\ args[u].got \in 0..MaxLen
            BY <1>7, <3>1, <6>1, CallTypes DEF Pending
          <6>3. QED
            BY <3>10, <6>1, <6>2
        <5>3. QED
          BY <5>1, <5>2
      <4>2. QED
        BY <3>4, <4>1 DEF Pending
    <3>12. /\ len[g] <= size[g]
           /\ \/ len[g] = size[g]
              \/ \E u \in Task : Busy(u, g, {"wrote"}) /\ args[u].off + args[u].got = size[g]
      BY <3>1, <3>4 DEF Behind
    <3>13. /\ len'[g] <= size'[g]
           /\ \/ len'[g] = size'[g]
              \/ \E u \in Task : Busy(u, g, {"wrote"})' /\ args'[u].off + args'[u].got = size'[g]
      <4>1. len'[g] <= size'[g]
        BY <3>10, <3>12
      <4>2. CASE size'[g] = off + k
        BY <3>7, <4>1, <4>2
      <4>3. CASE size'[g] = size[g]
        <5>1. ASSUME NEW u \in Task, Busy(u, g, {"wrote"}), args[u].off + args[u].got = size[g]
              PROVE  Busy(u, g, {"wrote"})' /\ args'[u].off + args'[u].got = size'[g]
          BY <3>8, <3>9, <4>3, <5>1
        <5>2. QED
          BY <3>10, <3>12, <4>1, <4>3, <5>1
      <4>4. size'[g] = size[g] \/ size'[g] = off + k
        BY <1>11, <2>2 DEF Larger
      <4>5. QED
        BY <4>2, <4>3, <4>4
    <3>14. Behind(g)'
      BY <3>13 DEF Behind
    <3>15. QED
      BY <3>5, <3>11, <3>14
  <2>3. CASE g # f
    <3>1. \A u \in Task : \/ Same(u)
                          \/ /\ ~Busy(u, g, {"resized", "wrote"})
                             /\ ~Busy(u, g, Resizes \cup Adds)'
      BY <1>5, <1>8, <1>14, <2>3 DEF Busy, f
    <3>2. g \in known /\ g \in File \ {f}
      BY <1>4, <1>12, <2>3
    <3>3. QED
      BY <1>2, <1>11, <3>1, <3>2, ElsewhereKeeps
  <2>4. QED
    BY <2>2, <2>3
<1>19. QED
  BY <1>10, <1>13, <1>15, <1>16, <1>17, <1>18 DEF IInv

LEMMA WriteReturnsKeeps ==
    ASSUME IInv, NEW t \in Task, WriteReturns(t)
    PROVE  IInv'
<1> DEFINE f == args[t].f
           end == args[t].off + args[t].got
<1>1. /\ pc[t] = "wrote" /\ len' = [len EXCEPT ![f] = Larger(@, end)]
      /\ Returns(t) /\ answer' = NoAnswer
      /\ UNCHANGED <<session, files, size, known, settled>>
  BY DEF WriteReturns, Return
<1>2. /\ pc'[t] = "idle" /\ args'[t] = NoArgs
      /\ pc' \in [Task -> Phase] /\ args' \in [Task -> Call]
      /\ \A u \in Task : args'[u].got <= args'[u].n
      /\ \A u \in Task \ {t} : pc'[u] = pc[u] /\ args'[u] = args[u]
      /\ answer' \in Call /\ answer'.got <= answer'.n /\ ShortMeansEnd'
  BY <1>1, ReturnsFacts, NoAnswerFacts DEF IInv
<1>3. /\ args[t] \in Call /\ f \in File /\ args[t].off + args[t].n <= MaxLen
      /\ args[t].got <= args[t].n
  BY <1>1 DEF IInv, TypeOK, CallsFit, OnFile
<1>4. /\ args[t].n \in 0..MaxLen /\ args[t].off \in 0..MaxLen /\ args[t].got \in 0..MaxLen
      /\ size \in [File -> 0..MaxLen] /\ len \in [File -> 0..MaxLen]
      /\ size[f] \in 0..MaxLen /\ len[f] \in 0..MaxLen /\ known \subseteq File
  BY <1>3, CallTypes DEF IInv, TypeOK
<1>5. end \in 0..MaxLen
  BY <1>3, <1>4, MaxLenAssumption
<1> HIDE DEF f, end
<1>6. /\ len' \in [File -> 0..MaxLen] /\ len'[f] = Larger(len[f], end)
      /\ \A g \in File \ {f} : len'[g] = len[g]
  <2>1. Larger(len[f], end) \in 0..MaxLen
    BY <1>4, <1>5 DEF Larger
  <2>2. QED
    BY <1>1, <1>3, <1>4, <2>1
<1>7. TypeOK'
  BY <1>1, <1>2, <1>6 DEF IInv, TypeOK, Phase, session, files
<1>8. \A u \in Task : u = t \/ Same(u)
  BY <1>2 DEF Same
<1>9. args'[t].f = TheSession /\ args'[t].off + args'[t].n <= MaxLen
  BY <1>2, CallTypes, MaxLenAssumption
<1>10. CallsFit'
  BY <1>1, <1>2, <1>8, <1>9, FitKeeps DEF files, OnFile
<1>11. Counted' /\ Settled'
  BY <1>1, CountedKeeps, SettledKeeps DEF session, files
<1>12. Seen'
  BY <1>1, <1>2, SeenKeeps
<1>13. Lengths'
  <2>1. SUFFICES ASSUME NEW g \in known' PROVE Alone(g)' /\ Pending(g)' /\ Behind(g)'
    BY DEF Lengths
  <2>2. CASE g = f
    <3>1. Alone(g) /\ Pending(g) /\ Behind(g) /\ g \in known
      BY <1>1 DEF IInv, Lengths
    <3>2. /\ Busy(t, g, {"wrote"}) /\ Busy(t, g, Resizes \cup Adds)
          /\ ~Busy(t, g, {"resized"}) /\ ~Busy(t, g, Resizes)
      BY <1>1, <2>2 DEF Busy, Resizes, Adds, f
    <3>3. \A u \in Task : ~Busy(u, g, Resizes)
      BY <3>1, <3>2 DEF Alone
    <3>4. \A u \in Task : /\ ~Busy(u, g, Resizes)' /\ ~Busy(u, g, {"resized"})'
                          /\ ~Busy(u, g, {"resized"})
      BY <1>2, <3>3 DEF Busy, Resizes
    <3>5. Alone(g)'
      BY <3>4 DEF Alone
    <3>6. /\ ~Busy(t, g, {"wrote"})'
          /\ \A u \in Task \ {t} : /\ Busy(u, g, {"wrote"})' <=> Busy(u, g, {"wrote"})
                                   /\ args'[u] = args[u]
      BY <1>2 DEF Busy
    <3>7. size' = size
      BY <1>1
    <3>8. Pending(g)'
      BY <3>1, <3>4, <3>6, <3>7 DEF Pending
    <3>9. end <= size[g]
      BY <3>1, <3>2 DEF Pending, end
    <3>10. /\ len[g] <= size[g]
           /\ \/ len[g] = size[g]
              \/ \E u \in Task : Busy(u, g, {"wrote"}) /\ args[u].off + args[u].got = size[g]
      BY <3>1, <3>4 DEF Behind
    <3>11. len'[g] <= size[g] /\ (len[g] = size[g] \/ end = size[g] => len'[g] = size[g])
      BY <1>4, <1>5, <1>6, <2>2, <3>9, <3>10 DEF Larger
    <3>12. ASSUME NEW u \in Task, Busy(u, g, {"wrote"}), args[u].off + args[u].got = size[g]
           PROVE  \/ len'[g] = size'[g]
                  \/ \E v \in Task : Busy(v, g, {"wrote"})' /\ args'[v].off + args'[v].got = size'[g]
      <4>1. CASE u = t
        BY <3>7, <3>11, <3>12, <4>1 DEF end
      <4>2. CASE u # t
        BY <3>6, <3>7, <3>12, <4>2
      <4>3. QED
        BY <4>1, <4>2
    <3>13. /\ len'[g] <= size'[g]
           /\ \/ len'[g] = size'[g]
              \/ \E u \in Task : Busy(u, g, {"wrote"})' /\ args'[u].off + args'[u].got = size'[g]
      BY <3>7, <3>10, <3>11, <3>12
    <3>14. Behind(g)'
      BY <3>13 DEF Behind
    <3>15. QED
      BY <3>5, <3>8, <3>14
  <2>3. CASE g # f
    <3>1. \A u \in Task : \/ Same(u)
                          \/ /\ ~Busy(u, g, {"resized", "wrote"})
                             /\ ~Busy(u, g, Resizes \cup Adds)'
      BY <1>2, <1>8, <2>3 DEF Busy, f, Resizes, Adds
    <3>2. g \in known /\ g \in File \ {f}
      BY <1>1, <1>4, <2>3
    <3>3. QED
      BY <1>1, <1>6, <3>1, <3>2, ElsewhereKeeps
  <2>4. QED
    BY <2>2, <2>3
<1>14. QED
  BY <1>2, <1>7, <1>10, <1>11, <1>12, <1>13 DEF IInv

LEMMA SetLenReturnsKeeps ==
    ASSUME IInv, NEW t \in Task, SetLenReturns(t)
    PROVE  IInv'
<1> DEFINE f == args[t].f
           n == args[t].n
<1>1. /\ pc[t] = "resized" /\ len' = [len EXCEPT ![f] = n]
      /\ Returns(t) /\ answer' = NoAnswer
      /\ UNCHANGED <<session, files, size, known, settled>>
  BY DEF SetLenReturns, Return
<1>2. /\ pc'[t] = "idle" /\ args'[t] = NoArgs
      /\ pc' \in [Task -> Phase] /\ args' \in [Task -> Call]
      /\ \A u \in Task : args'[u].got <= args'[u].n
      /\ \A u \in Task \ {t} : pc'[u] = pc[u] /\ args'[u] = args[u]
      /\ answer' \in Call /\ answer'.got <= answer'.n /\ ShortMeansEnd'
  BY <1>1, ReturnsFacts, NoAnswerFacts DEF IInv
<1>3. args[t] \in Call /\ f \in File
  BY <1>1 DEF IInv, TypeOK, CallsFit, OnFile
<1>4. /\ n \in 0..MaxLen
      /\ size \in [File -> 0..MaxLen] /\ len \in [File -> 0..MaxLen] /\ known \subseteq File
  BY <1>3, CallTypes DEF IInv, TypeOK
<1> HIDE DEF f, n
<1>5. /\ len' \in [File -> 0..MaxLen] /\ len'[f] = n
      /\ \A g \in File \ {f} : len'[g] = len[g]
  BY <1>1, <1>3, <1>4
<1>6. TypeOK'
  BY <1>1, <1>2, <1>5 DEF IInv, TypeOK, Phase, session, files
<1>7. \A u \in Task : u = t \/ Same(u)
  BY <1>2 DEF Same
<1>8. args'[t].f = TheSession /\ args'[t].off + args'[t].n <= MaxLen
  BY <1>2, CallTypes, MaxLenAssumption
<1>9. CallsFit'
  BY <1>1, <1>2, <1>7, <1>8, FitKeeps DEF files, OnFile
<1>10. Counted' /\ Settled'
  BY <1>1, CountedKeeps, SettledKeeps DEF session, files
<1>11. Seen'
  BY <1>1, <1>2, SeenKeeps
<1>12. Lengths'
  <2>1. SUFFICES ASSUME NEW g \in known' PROVE Alone(g)' /\ Pending(g)' /\ Behind(g)'
    BY DEF Lengths
  <2>2. CASE g = f
    <3>1. Alone(g) /\ Pending(g)
      BY <1>1 DEF IInv, Lengths
    <3>2. Busy(t, g, {"resized"}) /\ Busy(t, g, Resizes)
      BY <1>1, <2>2 DEF Busy, Resizes, f
    <3>3. \A u \in Task \ {t} : ~Busy(u, g, Resizes \cup Adds)
      BY <3>1, <3>2 DEF Alone
    <3>4. \A u \in Task : /\ ~Busy(u, g, Resizes)' /\ ~Busy(u, g, {"resized"})'
                          /\ ~Busy(u, g, {"wrote"})'
      BY <1>2, <3>3 DEF Busy, Resizes, Adds
    <3>5. Alone(g)' /\ Pending(g)'
      BY <3>4 DEF Alone, Pending
    <3>6. len'[g] = size'[g] /\ size'[g] \in 0..MaxLen
      BY <1>1, <1>3, <1>4, <1>5, <2>2, <3>1, <3>2 DEF Pending, n
    <3>7. Behind(g)'
      BY <3>6, MaxLenAssumption DEF Behind
    <3>8. QED
      BY <3>5, <3>7
  <2>3. CASE g # f
    <3>1. \A u \in Task : \/ Same(u)
                          \/ /\ ~Busy(u, g, {"resized", "wrote"})
                             /\ ~Busy(u, g, Resizes \cup Adds)'
      BY <1>2, <1>7, <2>3 DEF Busy, f, Resizes, Adds
    <3>2. g \in known /\ g \in File \ {f}
      BY <1>1, <1>4, <2>3
    <3>3. QED
      BY <1>1, <1>5, <3>1, <3>2, ElsewhereKeeps
  <2>4. QED
    BY <2>2, <2>3
<1>13. QED
  BY <1>2, <1>6, <1>9, <1>10, <1>11, <1>12 DEF IInv

\* The reads under way see the file become shorter, and nothing else of a call changes.
LEMMA SeenByFacts ==
    ASSUME IInv, NEW f \in File, NEW n \in 0..MaxLen
    PROVE  /\ SeenBy(f, n) \in [Task -> Call]
           /\ \A u \in Task :
                 /\ SeenBy(f, n)[u].f = args[u].f /\ SeenBy(f, n)[u].off = args[u].off
                 /\ SeenBy(f, n)[u].n = args[u].n /\ SeenBy(f, n)[u].got = args[u].got
                 /\ pc[u] = "read" /\ args[u].f = f => SeenBy(f, n)[u].least <= n
                 /\ args[u].f # f => SeenBy(f, n)[u] = args[u]
<1>1. ASSUME NEW u \in Task
      PROVE  /\ SeenBy(f, n)[u] \in Call
             /\ SeenBy(f, n)[u].f = args[u].f /\ SeenBy(f, n)[u].off = args[u].off
             /\ SeenBy(f, n)[u].n = args[u].n /\ SeenBy(f, n)[u].got = args[u].got
             /\ pc[u] = "read" /\ args[u].f = f => SeenBy(f, n)[u].least <= n
             /\ args[u].f # f => SeenBy(f, n)[u] = args[u]
  <2> DEFINE a == args[u]
             b == [a EXCEPT !.least = n]
  <2>1. a \in Call /\ a.least \in 0..MaxLen
    BY CallTypes DEF IInv, TypeOK
  <2>2. /\ b \in Call /\ b.f = a.f /\ b.off = a.off /\ b.n = a.n /\ b.got = a.got /\ b.least = n
    BY <2>1 DEF Call
  <2>3. SeenBy(f, n)[u] = IF pc[u] = "read" /\ a.f = f /\ n < a.least THEN b ELSE a
    BY DEF SeenBy
  <2> HIDE DEF a, b
  <2>4. CASE pc[u] = "read" /\ a.f = f /\ n < a.least
    BY <2>1, <2>2, <2>3, <2>4, MaxLenAssumption DEF a
  <2>5. CASE ~(pc[u] = "read" /\ a.f = f /\ n < a.least)
    BY <2>1, <2>3, <2>5, MaxLenAssumption DEF a
  <2>6. QED
    BY <2>4, <2>5
<1>2. SeenBy(f, n) \in [Task -> Call]
  BY <1>1 DEF SeenBy
<1>3. QED
  BY <1>1, <1>2

LEMMA SetLenKeeps ==
    ASSUME IInv, NEW t \in Task, SetLen(t)
    PROVE  IInv'
<1> DEFINE f == args[t].f
           n == args[t].n
<1>1. /\ pc[t] = "set_len" /\ size' = [size EXCEPT ![f] = n] /\ args' = SeenBy(f, n)
      /\ pc' = [pc EXCEPT ![t] = "resized"] /\ answer' = NoAnswer
      /\ UNCHANGED <<session, files, len, known, settled>>
  BY DEF SetLen, Resize, Goto
<1>2. args[t] \in Call /\ f \in File
  BY <1>1 DEF IInv, TypeOK, CallsFit, OnFile
<1>3. /\ n \in 0..MaxLen /\ size \in [File -> 0..MaxLen] /\ known \subseteq File
      /\ pc \in [Task -> Phase] /\ \A u \in Task : args[u].got <= args[u].n
  BY <1>2, CallTypes DEF IInv, TypeOK, Phase
<1> HIDE DEF f, n
<1>4. /\ args' \in [Task -> Call]
      /\ \A u \in Task :
            /\ args'[u].f = args[u].f /\ args'[u].off = args[u].off
            /\ args'[u].n = args[u].n /\ args'[u].got = args[u].got
            /\ pc[u] = "read" /\ args[u].f = f => args'[u].least <= n
            /\ args[u].f # f => args'[u] = args[u]
  BY <1>1, <1>2, <1>3, SeenByFacts
<1>5. /\ pc' \in [Task -> Phase] /\ pc'[t] = "resized"
      /\ \A u \in Task \ {t} : pc'[u] = pc[u]
  BY <1>1, <1>3 DEF Phase
<1>6. \A u \in Task : args'[u].got <= args'[u].n
  BY <1>3, <1>4
<1>7. /\ size' \in [File -> 0..MaxLen] /\ size'[f] = n
      /\ \A g \in File \ {f} : size'[g] = size[g]
  BY <1>1, <1>2, <1>3
<1>8. answer' \in Call /\ answer'.got <= answer'.n /\ ShortMeansEnd'
  BY <1>1, NoAnswerFacts
<1>9. TypeOK'
  BY <1>1, <1>4, <1>5, <1>6, <1>7, <1>8 DEF IInv, TypeOK, Phase, session, files
<1>10. \A u \in Task : u = t \/ Same(u)
  BY <1>4, <1>5 DEF Same
<1>11. CallsFit'
  <2>1. \A u \in Task : pc'[u] \in OnFile <=> pc[u] \in OnFile
    BY <1>1, <1>5 DEF OnFile
  <2>2. QED
    BY <1>1, <1>4, <2>1 DEF IInv, CallsFit, files
<1>12. Counted' /\ Settled'
  BY <1>1, CountedKeeps, SettledKeeps DEF session, files
<1>13. Seen'
  <2>1. SUFFICES ASSUME NEW u \in Task, pc'[u] = "read" PROVE args'[u].least <= size'[args'[u].f]
    BY DEF Seen
  <2>2. pc[u] = "read" /\ args[u].f \in File
    BY <1>5, <2>1 DEF IInv, CallsFit, OnFile
  <2>3. CASE args[u].f = f
    BY <1>4, <1>7, <2>2, <2>3
  <2>4. CASE args[u].f # f
    BY <1>4, <1>7, <2>2, <2>4 DEF IInv, Seen
  <2>5. QED
    BY <2>3, <2>4
<1>14. Lengths'
  <2>1. SUFFICES ASSUME NEW g \in known' PROVE Alone(g)' /\ Pending(g)' /\ Behind(g)'
    BY DEF Lengths
  <2>2. CASE g = f
    <3>1. Alone(g)
      BY <1>1 DEF IInv, Lengths
    <3>2. Busy(t, g, Resizes)
      BY <1>1, <2>2 DEF Busy, Resizes, f
    <3>3. \A u \in Task \ {t} : ~Busy(u, g, Resizes \cup Adds)
      BY <3>1, <3>2 DEF Alone
    <3>4. \A u \in Task \ {t} : /\ ~Busy(u, g, Resizes \cup Adds)' /\ ~Busy(u, g, Resizes)'
                                /\ ~Busy(u, g, {"resized"})' /\ ~Busy(u, g, {"wrote"})'
      BY <1>4, <1>5, <3>3 DEF Busy, Resizes, Adds
    <3>5. Busy(t, g, {"resized"})' /\ ~Busy(t, g, {"wrote"})' /\ args'[t].n = n
      BY <1>4, <1>5, <2>2 DEF Busy, f, n
    <3>6. Alone(g)'
      BY <3>4 DEF Alone
    <3>7. Pending(g)'
      BY <1>7, <2>2, <3>4, <3>5 DEF Pending
    <3>8. Behind(g)'
      BY <3>5 DEF Behind
    <3>9. QED
      BY <3>6, <3>7, <3>8
  <2>3. CASE g # f
    <3>1. \A u \in Task : \/ Same(u)
                          \/ /\ ~Busy(u, g, {"resized", "wrote"})
                             /\ ~Busy(u, g, Resizes \cup Adds)'
      BY <1>4, <1>10, <2>3 DEF Busy, f, Resizes, Adds
    <3>2. g \in known /\ g \in File \ {f}
      BY <1>1, <1>3, <2>3
    <3>3. QED
      BY <1>1, <1>7, <3>1, <3>2, ElsewhereKeeps
  <2>4. QED
    BY <2>2, <2>3
<1>15. QED
  BY <1>8, <1>9, <1>11, <1>12, <1>13, <1>14 DEF IInv

LEMMA AnswerLostKeeps ==
    ASSUME IInv, NEW t \in Task, AnswerLost(t)
    PROVE  IInv'
<1> DEFINE f == args[t].f
           Wrote(k) == /\ size' = [size EXCEPT ![f] = Larger(size[f], args[t].off + k)]
                       /\ args' = [args EXCEPT ![t] = NoArgs]
           Cut == /\ size' = [size EXCEPT ![f] = args[t].n]
                  /\ args' = [SeenBy(f, args[t].n) EXCEPT ![t] = NoArgs]
<1>1. /\ pc[t] \in {"write", "set_len"} /\ known' = known \ {f}
      /\ pc' = [pc EXCEPT ![t] = "idle"] /\ answer' = NoAnswer
      /\ UNCHANGED <<session, files, len, settled>>
      /\ Cut \/ \E k \in 1..args[t].n : Wrote(k)
  BY DEF AnswerLost, Resize
<1>2. /\ args[t] \in Call /\ f \in File /\ args[t].off + args[t].n <= MaxLen
  BY <1>1 DEF IInv, TypeOK, CallsFit, OnFile
<1>3. /\ args[t].n \in 0..MaxLen /\ args[t].off \in 0..MaxLen /\ size[f] \in 0..MaxLen
      /\ size \in [File -> 0..MaxLen] /\ known \subseteq File
      /\ pc \in [Task -> Phase] /\ \A u \in Task : args[u].got <= args[u].n
      /\ args \in [Task -> Call]
  BY <1>2, CallTypes DEF IInv, TypeOK, Phase
<1>4. NoArgs \in Call /\ NoArgs.got <= NoArgs.n
  BY CallTypes
<1> HIDE DEF f
<1>5. /\ args' \in [Task -> Call] /\ args'[t] = NoArgs
      /\ size' \in [File -> 0..MaxLen] /\ \A g \in File \ {f} : size'[g] = size[g]
      /\ \A u \in Task \ {t} :
            /\ args'[u].f = args[u].f /\ args'[u].off = args[u].off
            /\ args'[u].n = args[u].n /\ args'[u].got = args[u].got
            /\ args[u].f # f => args'[u] = args[u]
            /\ pc[u] = "read" /\ args[u].f = f /\ args[u].least <= size[f] =>
                  args'[u].least <= size'[f]
  <2>1. CASE Cut
    <3>1. /\ SeenBy(f, args[t].n) \in [Task -> Call]
          /\ \A u \in Task :
              /\ SeenBy(f, args[t].n)[u].f = args[u].f /\ SeenBy(f, args[t].n)[u].off = args[u].off
              /\ SeenBy(f, args[t].n)[u].n = args[u].n /\ SeenBy(f, args[t].n)[u].got = args[u].got
              /\ pc[u] = "read" /\ args[u].f = f => SeenBy(f, args[t].n)[u].least <= args[t].n
              /\ args[u].f # f => SeenBy(f, args[t].n)[u] = args[u]
      BY <1>2, <1>3, SeenByFacts
    <3> DEFINE seen == SeenBy(f, args[t].n)
    <3>2. seen \in [Task -> Call] /\ args' = [seen EXCEPT ![t] = NoArgs]
      BY <2>1, <3>1
    <3> HIDE DEF seen
    <3>3. /\ args' \in [Task -> Call] /\ args'[t] = NoArgs
          /\ \A u \in Task \ {t} : args'[u] = seen[u]
      BY <1>4, <3>2
    <3>4. /\ size' \in [File -> 0..MaxLen] /\ size'[f] = args[t].n
          /\ \A g \in File \ {f} : size'[g] = size[g]
      BY <1>2, <1>3, <2>1
    <3>5. QED
      BY <3>1, <3>3, <3>4 DEF seen
  <2>2. ASSUME NEW k \in 1..args[t].n, Wrote(k)
        PROVE  /\ args' \in [Task -> Call] /\ args'[t] = NoArgs
               /\ \A u \in Task \ {t} : args'[u] = args[u]
               /\ size' \in [File -> 0..MaxLen] /\ \A g \in File \ {f} : size'[g] = size[g]
               /\ size[f] <= size'[f]
    <3>1. /\ Larger(size[f], args[t].off + k) \in 0..MaxLen
          /\ Larger(size[f], args[t].off + k) >= size[f]
      BY <1>2, <1>3, MaxLenAssumption DEF Larger
    <3>2. args' \in [Task -> Call] /\ args'[t] = NoArgs /\ \A u \in Task \ {t} : args'[u] = args[u]
      BY <1>3, <1>4, <2>2
    <3>3. /\ size' \in [File -> 0..MaxLen] /\ \A g \in File \ {f} : size'[g] = size[g]
          /\ size[f] <= size'[f]
      BY <1>2, <1>3, <2>2, <3>1
    <3>4. QED
      BY <3>2, <3>3
  <2>3. CASE \E k \in 1..args[t].n : Wrote(k)
    <3>1. /\ args' \in [Task -> Call] /\ args'[t] = NoArgs
          /\ \A u \in Task \ {t} : args'[u] = args[u]
          /\ size' \in [File -> 0..MaxLen] /\ \A g \in File \ {f} : size'[g] = size[g]
          /\ size[f] <= size'[f]
      BY <2>2, <2>3
    <3>2. /\ size'[f] \in 0..MaxLen /\ \A u \in Task : args[u].least \in 0..MaxLen
      BY <1>2, <1>3, <3>1, CallTypes
    <3>3. \A u \in Task \ {t} : args[u].least <= size[f] => args'[u].least <= size'[f]
      BY <1>3, <3>1, <3>2
    <3>4. QED
      BY <3>1, <3>3
  <2>4. QED
    BY <1>1, <2>1, <2>3
<1> HIDE DEF Wrote, Cut
<1>6. /\ pc' \in [Task -> Phase] /\ pc'[t] = "idle" /\ \A u \in Task \ {t} : pc'[u] = pc[u]
  BY <1>1, <1>3 DEF Phase
<1>7. \A u \in Task : args'[u].got <= args'[u].n
  BY <1>3, <1>4, <1>5
<1>8. answer' \in Call /\ answer'.got <= answer'.n /\ ShortMeansEnd'
  BY <1>1, NoAnswerFacts
<1>9. TypeOK'
  BY <1>1, <1>3, <1>5, <1>6, <1>7, <1>8 DEF IInv, TypeOK, Phase, session, files
<1>10. \A u \in Task : u = t \/ Same(u)
  BY <1>5, <1>6 DEF Same
<1>11. args'[t].f = TheSession /\ args'[t].off + args'[t].n <= MaxLen
  BY <1>5, CallTypes, MaxLenAssumption
<1>12. CallsFit'
  BY <1>1, <1>6, <1>10, <1>11, FitKeeps DEF files, OnFile
<1>13. Counted' /\ Settled'
  BY <1>1, CountedKeeps, SettledKeeps DEF session, files
<1>14. Seen'
  <2>1. SUFFICES ASSUME NEW u \in Task, pc'[u] = "read" PROVE args'[u].least <= size'[args'[u].f]
    BY DEF Seen
  <2>2. u # t /\ pc[u] = "read" /\ args[u].f \in File
    BY <1>6, <2>1 DEF IInv, CallsFit, OnFile
  <2>3. args[u].least <= size[args[u].f]
    BY <2>2 DEF IInv, Seen
  <2>4. CASE args[u].f = f
    BY <1>5, <2>2, <2>3, <2>4
  <2>5. CASE args[u].f # f
    BY <1>5, <2>2, <2>3, <2>5
  <2>6. QED
    BY <2>4, <2>5
<1>15. Lengths'
  <2>1. SUFFICES ASSUME NEW g \in known' PROVE Alone(g)' /\ Pending(g)' /\ Behind(g)'
    BY DEF Lengths
  <2>2. g \in known /\ g \in File \ {f}
    BY <1>1, <1>3
  <2>3. \A u \in Task : \/ Same(u)
                        \/ /\ ~Busy(u, g, {"resized", "wrote"})
                           /\ ~Busy(u, g, Resizes \cup Adds)'
    BY <1>1, <1>6, <1>10 DEF Busy, Resizes, Adds
  <2>4. QED
    BY <1>1, <1>5, <2>2, <2>3, ElsewhereKeeps
<1>16. QED
  BY <1>8, <1>9, <1>12, <1>13, <1>14, <1>15 DEF IInv

-----------------------------------------------------------------------------
(* Every step, and the theorems *)

LEMMA NextInvariant == IInv /\ [Next]_vars => IInv'
<1> SUFFICES ASSUME IInv, [Next]_vars PROVE IInv'
  OBVIOUS
<1>1. ASSUME NEW t \in Task, Calls(t) PROVE IInv'
  BY <1>1, RefusedAtOnceKeeps, CallOpenKeeps, DisconnectKeeps, ReleaseKeeps, CallWriteKeeps,
     CallSetLenKeeps, CallReadKeeps DEF Calls
<1>2. ASSUME NEW t \in Task, Proceed(t) PROVE IInv'
  BY <1>2, OpenedKeeps, ReadMoreKeeps, WriteKeeps, WriteReturnsKeeps, SetLenKeeps,
     SetLenReturnsKeeps, ClosedKeeps, ShutDownKeeps, FailsKeeps, AnswerLostKeeps DEF Proceed
<1>3. CASE ConnectionLost
  BY <1>3, ConnectionLostKeeps
<1>4. CASE UNCHANGED vars
  BY <1>4 DEF vars, session, files, lengths, IInv, TypeOK, CallsFit, Counted, Settled, Lengths,
     Alone, Pending, Behind, Busy, Seen, ShortMeansEnd
<1>5. QED
  BY <1>1, <1>2, <1>3, <1>4 DEF Next

\* The facade's invariant: whichever steps of whichever calls are interleaved, what is
\* asked, settled and cached stays as the parts above say.
THEOREM InductiveInvariant == Spec => []IInv
  BY InitInvariant, NextInvariant, PTL DEF Spec

\* Every variable keeps its type: a length or a request never leaves the bound.
THEOREM TypeCorrect == Spec => []TypeOK
<1>1. IInv => TypeOK
  BY DEF IInv
<1>2. QED
  BY <1>1, InductiveInvariant, PTL

\* RemoteFile.len is the file's size wherever the facade can know it: fetch_max by the
\* writes and the store by set_len suffice, in whichever order the calls answer.
THEOREM CachedLengthIsTrue == Spec => []LenIsTheSize
<1>1. IInv => LenIsTheSize
  <2> SUFFICES ASSUME IInv, NEW f \in known
               PROVE  /\ (\A t \in Task : ~Busy(t, f, {"wrote", "resized"})) => len[f] = size[f]
                      /\ (\A t \in Task : ~Busy(t, f, {"resized"})) => len[f] <= size[f]
    BY DEF LenIsTheSize, Busy
  <2>1. Behind(f)
    BY DEF IInv, Lengths
  <2>2. \A t \in Task : Busy(t, f, {"resized"}) \/ Busy(t, f, {"wrote"}) =>
           Busy(t, f, {"wrote", "resized"})
    BY DEF Busy
  <2>3. QED
    BY <2>1, <2>2 DEF Behind
<1>2. QED
  BY <1>1, InductiveInvariant, PTL

\* A short read_at met the file's end during the call, however many rounds it took and
\* whatever set_len did meanwhile; read_exact_at returns no short read.
THEOREM ShortReadsMetTheEnd == Spec => []ShortMeansEnd
<1>1. IInv => ShortMeansEnd
  BY DEF IInv
<1>2. QED
  BY <1>1, InductiveInvariant, PTL

\* The swap of the closed flag lets one caller of release or disconnect through.
THEOREM OneCallerGetsThrough == Spec => []AskedOnce
<1>1. IInv => AskedOnce
  BY DEF IInv, Counted, AskedOnce
<1>2. QED
  BY <1>1, InductiveInvariant, PTL

\* Once release or disconnect has done its work no SMB handle of it is open, an open
\* that was under way included.
THEOREM ReleasedIsClosed == Spec => []NothingStaysOpen
<1>1. IInv => NothingStaysOpen
  BY DEF IInv, Settled, NothingStaysOpen
<1>2. QED
  BY <1>1, InductiveInvariant, PTL
=============================================================================
