--------------------------- MODULE ReadAhead_proofs ---------------------------
(***************************************************************************)
(* Theorems about ReadAhead, for every window size, file, length reported  *)
(* by the handle and set of tasks.                                         *)
(***************************************************************************)
EXTENDS ReadAhead, SequenceTheorems, TLAPS

-----------------------------------------------------------------------------
(* The inductive invariant *)

Reads == {"miss", "fetch", "publish", "serve", "through", "fallback"}

\* What the call of t has so far fits where it is.
Fits(t) ==
    /\ pc[t] \in Reads => want[t] > 0
    /\ pc[t] \in {"miss", "fetch"} => WindowSize > 0
    /\ pc[t] \notin {"publish", "serve", "fallback"} => eof[t] = FALSE
    /\ pc[t] \notin {"fetch", "publish", "serve", "fallback"} => got[t] = <<>>
    /\ pc[t] = "fetch" => Len(got[t]) < FetchLen(start[t])
    /\ Len(got[t]) <= WindowSize

\* Bytes that carry the positions of a stretch that begins at `at`.
Placed(data, at) == \A i \in 1..Len(data) : data[i].at = at + i - 1

Places ==
    /\ Placed(content, 0) /\ Placed(window.data, window.start)
    /\ \A t \in Task : Placed(got[t], start[t])

\* data is what the file c holds from `at` on.
Holds(data, at, c) == \A i \in 1..Len(data) : at + i <= Len(c) /\ c[at + i] = data[i]

\* A window shows the file c: its bytes are there, and c ends where it says so.
Shows(w, c) == Holds(w.data, w.start, c) /\ (w.eof => Len(c) <= End(w))

Fetched(t) == [start |-> start[t], data |-> got[t], eof |-> eof[t]]

\* As long as no write has overlapped a fetch, what is fetched is the file as it is, and
\* the window shows a file that a read that begins now may see.
Truth ==
    \/ overlap
    \/ /\ \E c \in Visible : Shows(window, c)
       /\ \A t \in Task : pc[t] \in {"fetch", "publish"} => Shows(Fetched(t), content)

\* So may every read under way.
Seen == \A t \in Task : pc[t] \in Reads => Visible \subseteq past[t]

IInv ==
    /\ TypeOK /\ Places /\ Truth /\ Seen /\ RightPositions /\ CurrentUnlessOverlapped
    /\ \A t \in Task : Fits(t)

-----------------------------------------------------------------------------
(* Stretches of files *)

LEMMA ByteType ==
    /\ \A b \in Byte : b.at \in Nat /\ b.ver \in Nat
    /\ \A a, v \in Nat : Written(a, v) \in Byte /\ Written(a, v).at = a
  BY DEF Byte, Written

LEMMA Nothing ==
    /\ <<>> \in Contents /\ Len(<<>>) = 0
    /\ \A at : Placed(<<>>, at) /\ \A c : Holds(<<>>, at, c)
<1>1. <<>> \in Contents /\ Len(<<>>) = 0
  BY EmptySeq DEF Contents
<1>2. QED
  BY <1>1 DEF Placed, Holds

\* A piece of k bytes after the first o.
LEMMA Piece ==
    ASSUME NEW c \in Contents, NEW o \in Nat, NEW k \in Nat, o + k <= Len(c)
    PROVE  LET p == SubSeq(c, o + 1, o + k)
           IN  /\ p \in Contents /\ Len(p) = k
               /\ \A i \in 1..k : p[i] = c[o + i]
<1> DEFINE p == SubSeq(c, o + 1, o + k)
<1>1. c \in Seq(Byte) /\ Len(c) \in Nat
  BY LenProperties DEF Contents
<1>2. \A i \in (o + 1)..(o + k) : c[i] \in Byte
  BY <1>1, ElementOfSeq
<1>3. o + 1 \in Int /\ o + k \in Int
  OBVIOUS
<1>4. /\ p \in Seq(Byte)
      /\ Len(p) = IF o + 1 <= o + k THEN (o + k) - (o + 1) + 1 ELSE 0
      /\ \A i \in 1..((o + k) - (o + 1) + 1) : p[i] = c[(o + 1) + i - 1]
  BY <1>2, <1>3, SubSeqProperties
<1> HIDE DEF p
<1>5. Len(p) = k
  BY <1>4
<1>6. \A i \in 1..k : p[i] = c[o + i]
  BY <1>4
<1>7. p \in Contents
  BY <1>4 DEF Contents
<1>8. QED
  BY <1>5, <1>6, <1>7 DEF p

\* What was fetched and what follows it.
LEMMA Joined ==
    ASSUME NEW a \in Contents, NEW b \in Contents
    PROVE  /\ a \o b \in Contents /\ Len(a \o b) = Len(a) + Len(b)
           /\ \A i \in 1..Len(a) : (a \o b)[i] = a[i]
           /\ \A i \in 1..Len(b) : (a \o b)[Len(a) + i] = b[i]
<1> DEFINE s == a \o b
<1>1. a \in Seq(Byte) /\ b \in Seq(Byte)
  BY DEF Contents
<1>2. /\ s \in Seq(Byte) /\ Len(s) = Len(a) + Len(b)
      /\ \A i \in 1..(Len(a) + Len(b)) : s[i] = IF i <= Len(a) THEN a[i] ELSE b[i - Len(a)]
  BY <1>1, ConcatProperties
<1> HIDE DEF s
<1>3. Len(a) \in Nat /\ Len(b) \in Nat
  BY <1>1, LenProperties
<1>4. \A i \in 1..Len(a) : s[i] = a[i]
  BY <1>2, <1>3
<1>5. ASSUME NEW i \in 1..Len(b) PROVE s[Len(a) + i] = b[i]
  <2>1. /\ Len(a) + i \in 1..(Len(a) + Len(b)) /\ ~(Len(a) + i <= Len(a))
        /\ (Len(a) + i) - Len(a) = i
    BY <1>3
  <2>2. QED
    BY <1>2, <2>1
<1>6. s \in Contents
  BY <1>2 DEF Contents
<1>7. QED
  BY <1>2, <1>4, <1>5, <1>6 DEF s

LEMMA JoinedHolds ==
    ASSUME NEW a \in Contents, NEW b \in Contents, NEW at \in Nat, NEW c,
           Holds(a, at, c), Holds(b, at + Len(a), c)
    PROVE  Holds(a \o b, at, c)
<1> DEFINE s == a \o b
<1>1. /\ Len(s) = Len(a) + Len(b)
      /\ \A i \in 1..Len(a) : s[i] = a[i]
      /\ \A i \in 1..Len(b) : s[Len(a) + i] = b[i]
  BY Joined
<1> HIDE DEF s
<1>2. Len(a) \in Nat /\ Len(b) \in Nat
  BY LenProperties DEF Contents
<1>3. ASSUME NEW i \in 1..Len(s) PROVE at + i <= Len(c) /\ c[at + i] = s[i]
  <2>1. CASE i <= Len(a)
    BY <1>1, <1>2, <2>1 DEF Holds
  <2>2. CASE ~(i <= Len(a))
    <3> DEFINE j == i - Len(a)
    <3>1. j \in 1..Len(b) /\ Len(a) + j = i /\ (at + Len(a)) + j = at + i
      BY <1>1, <1>2, <2>2
    <3> HIDE DEF j
    <3>2. s[Len(a) + j] = b[j] /\ (at + Len(a)) + j <= Len(c) /\ c[(at + Len(a)) + j] = b[j]
      BY <1>1, <3>1 DEF Holds
    <3>3. QED
      BY <3>1, <3>2
  <2>3. QED
    BY <2>1, <2>2
<1>4. QED
  BY <1>3 DEF Holds, s

LEMMA JoinedPlaced ==
    ASSUME NEW a \in Contents, NEW b \in Contents, NEW at \in Nat,
           Placed(a, at), Placed(b, at + Len(a))
    PROVE  Placed(a \o b, at)
<1> DEFINE s == a \o b
<1>1. /\ Len(s) = Len(a) + Len(b)
      /\ \A i \in 1..Len(a) : s[i] = a[i]
      /\ \A i \in 1..Len(b) : s[Len(a) + i] = b[i]
  BY Joined
<1> HIDE DEF s
<1>2. Len(a) \in Nat /\ Len(b) \in Nat
  BY LenProperties DEF Contents
<1>3. ASSUME NEW i \in 1..Len(s) PROVE s[i].at = at + i - 1
  <2>1. CASE i <= Len(a)
    BY <1>1, <1>2, <2>1 DEF Placed
  <2>2. CASE ~(i <= Len(a))
    <3> DEFINE j == i - Len(a)
    <3>1. j \in 1..Len(b) /\ Len(a) + j = i /\ (at + Len(a)) + j - 1 = at + i - 1
      BY <1>1, <1>2, <2>2
    <3> HIDE DEF j
    <3>2. s[Len(a) + j] = b[j] /\ b[j].at = (at + Len(a)) + j - 1
      BY <1>1, <3>1 DEF Placed
    <3>3. QED
      BY <3>1, <3>2
  <2>3. QED
    BY <2>1, <2>2
<1>4. QED
  BY <1>3 DEF Placed, s

\* Bytes of a file whose bytes are in their places are in theirs.
LEMMA HeldIsPlaced ==
    ASSUME NEW data \in Contents, NEW c \in Contents, NEW at \in Nat, Holds(data, at, c), Placed(c, 0)
    PROVE  Placed(data, at)
<1>1. Len(data) \in Nat /\ Len(c) \in Nat
  BY LenProperties DEF Contents
<1>2. ASSUME NEW i \in 1..Len(data) PROVE data[i].at = at + i - 1
  <2>1. at + i <= Len(c) /\ c[at + i] = data[i]
    BY DEF Holds
  <2>2. at + i \in 1..Len(c)
    BY <1>1, <2>1
  <2>3. c[at + i].at = 0 + (at + i) - 1
    BY <2>2 DEF Placed
  <2>4. QED
    BY <2>1, <2>3
<1>3. QED
  BY <1>2 DEF Placed

\* The wrapped handle returns no more than was asked for, of the file as it is, and
\* nothing only at or past its end.
LEMMA InnerReadsFacts ==
    ASSUME TypeOK, NEW o \in Nat, NEW n \in Nat, NEW data \in InnerReads(o, n)
    PROVE  /\ data \in Contents /\ Len(data) <= n /\ Holds(data, o, content)
           /\ data = <<>> /\ n > 0 => Len(content) <= o
<1> DEFINE avail == IF o < Len(content) THEN Least(Len(content) - o, n) ELSE 0
<1>1. content \in Contents /\ Len(content) \in Nat
  BY LenProperties DEF TypeOK, Contents
<1>2. /\ avail \in Nat /\ avail <= n /\ (avail > 0 => o + avail <= Len(content))
      /\ (avail = 0 /\ n > 0 => Len(content) <= o)
  BY <1>1 DEF Least
<1>3. CASE avail = 0
  <2>1. data = <<>>
    BY <1>3 DEF InnerReads
  <2>2. QED
    BY <1>2, <1>3, <2>1, Nothing
<1>4. CASE avail # 0
  <2>1. PICK k \in 1..avail : data = SubSeq(content, o + 1, o + k)
    BY <1>4 DEF InnerReads
  <2> HIDE DEF avail
  <2>2. k \in Nat /\ k > 0 /\ o + k <= Len(content) /\ k <= n
    BY <1>1, <1>2, <2>1
  <2>3. data \in Contents /\ Len(data) = k /\ \A i \in 1..k : data[i] = content[o + i]
    BY <1>1, <2>1, <2>2, Piece
  <2>4. data # <<>>
    BY <2>2, <2>3, Nothing
  <2>5. \A i \in 1..Len(data) : o + i <= Len(content) /\ content[o + i] = data[i]
    BY <1>1, <2>2, <2>3
  <2>6. QED
    BY <2>2, <2>3, <2>4, <2>5 DEF Holds
<1>5. QED
  BY <1>3, <1>4

\* So does a window that covers the request, of every file it shows.
LEMMA CopyOutFacts ==
    ASSUME NEW w \in [start : Nat, data : Contents, eof : BOOLEAN], NEW o \in Nat,
           NEW n \in Nat \ {0}, Covers(w, o, n)
    PROVE  LET data == CopyOut(w, o, n)
           IN  /\ data \in Contents
               /\ Placed(w.data, w.start) => Placed(data, o)
               /\ \A c \in Contents :
                     Shows(w, c) => Holds(data, o, c) /\ (data = <<>> => Len(c) <= o)
<1> DEFINE d == w.data
           at == w.start
           m == Len(d)
           from == Least(o - at, m)
           k == Least(m - from, n)
           data == CopyOut(w, o, n)
<1>1. d \in Contents /\ at \in Nat /\ m \in Nat /\ w.eof \in BOOLEAN
  BY LenProperties DEF Contents
<1>2. o >= at /\ (o + n <= at + m \/ w.eof)
  BY DEF Covers, End
<1>3. /\ from \in Nat /\ k \in Nat /\ from + k <= m
      /\ k = 0 => from = m
      /\ from = o - at \/ (from = m /\ k = 0 /\ o > at + m)
  <2> HIDE DEF d, at, m
  <2>1. from = (IF o - at <= m THEN o - at ELSE m) /\ k = (IF m - from <= n THEN m - from ELSE n)
    BY DEF Least
  <2> HIDE DEF from, k
  <2>2. from \in Nat /\ from <= m
    BY <1>1, <1>2, <2>1
  <2>3. k \in Nat /\ from + k <= m /\ (k = 0 => from = m)
    BY <1>1, <2>1, <2>2
  <2>4. from = o - at \/ (from = m /\ k = 0 /\ o > at + m)
    <3>1. m - m <= n
      BY <1>1
    <3>2. CASE o - at <= m
      BY <2>1, <3>2
    <3>3. CASE ~(o - at <= m)
      <4>1. from = m
        BY <2>1, <3>3
      <4>2. k = 0
        BY <1>1, <2>1, <3>1, <4>1
      <4>3. o > at + m
        BY <1>1, <1>2, <3>3
      <4>4. QED
        BY <4>1, <4>2, <4>3
    <3>4. QED
      BY <3>2, <3>3
  <2>5. QED
    BY <2>2, <2>3, <2>4
<1>4. data = SubSeq(d, from + 1, from + k)
  BY DEF CopyOut
<1> HIDE DEF data, from, k, m, d, at
<1>5. /\ data \in Contents /\ Len(data) = k
      /\ \A i \in 1..k : data[i] = d[from + i]
  <2>1. d \in Contents /\ from \in Nat /\ k \in Nat
    BY <1>1, <1>3
  <2>2. from + k <= Len(d)
    BY <1>3 DEF m
  <2> DEFINE piece == SubSeq(d, from + 1, from + k)
  <2>3. piece \in Contents
    BY <2>1, <2>2, Piece
  <2>4. Len(piece) = k
    BY <2>1, <2>2, Piece
  <2>5. \A i \in 1..k : piece[i] = d[from + i]
    BY <2>1, <2>2, Piece
  <2>6. data = piece
    BY <1>4
  <2> HIDE DEF piece
  <2>7. QED
    BY <2>3, <2>4, <2>5, <2>6
<1>6. \A i \in 1..k : at + from + i = o + i /\ from + i \in 1..m
  BY <1>1, <1>2, <1>3
<1>7. Placed(d, at) => Placed(data, o)
  <2>1. SUFFICES ASSUME Placed(d, at), NEW i \in 1..k PROVE data[i].at = o + i - 1
    BY <1>5 DEF Placed
  <2>2. d[from + i].at = at + (from + i) - 1
    BY <1>6, <2>1 DEF Placed, m
  <2>3. data[i] = d[from + i]
    BY <1>5
  <2>4. i \in Nat /\ at + (from + i) - 1 = o + i - 1
    BY <1>1, <1>3, <1>6
  <2>5. QED
    BY <2>2, <2>3, <2>4
<1>8. ASSUME NEW c \in Contents, Shows(w, c)
      PROVE  Holds(data, o, c) /\ (data = <<>> => Len(c) <= o)
  <2>1. Len(c) \in Nat
    BY LenProperties DEF Contents
  <2>2. /\ \A i \in 1..m : at + i <= Len(c) /\ c[at + i] = d[i]
        /\ w.eof => Len(c) <= at + m
    BY <1>8 DEF Shows, Holds, End, m, d, at
  <2>3. ASSUME NEW i \in 1..k PROVE o + i <= Len(c) /\ c[o + i] = data[i]
    <3>1. from + i \in 1..m /\ at + (from + i) = o + i
      BY <1>1, <1>2, <1>3, <1>6
    <3>2. at + (from + i) <= Len(c) /\ c[at + (from + i)] = d[from + i]
      BY <2>2, <3>1
    <3>3. QED
      BY <1>5, <3>1, <3>2
  <2>4. ASSUME data = <<>> PROVE Len(c) <= o
    <3>1. k = 0
      BY <1>5, <2>4, Nothing
    <3>2. o >= at + m
      BY <1>1, <1>2, <1>3, <3>1
    <3>3. w.eof
      BY <1>1, <1>2, <3>2
    <3>4. QED
      BY <1>1, <2>1, <2>2, <3>2, <3>3
  <2>5. QED
    BY <1>5, <2>3, <2>4 DEF Holds
<1>9. QED
  BY <1>5, <1>7, <1>8 DEF data, d, at

\* A fetch asks for something, and for no more than a window.
LEMMA FetchLenFacts ==
    ASSUME TypeOK, NEW from \in Nat, WindowSize > 0
    PROVE  FetchLen(from) \in Nat /\ FetchLen(from) > 0 /\ FetchLen(from) <= WindowSize
<1>1. len \in Nat /\ WindowSize \in Nat
  BY BoundsAssumption DEF TypeOK
<1>2. QED
  BY <1>1 DEF FetchLen, Least

LEMMA AlignedType ==
    ASSUME NEW o \in Nat, WindowSize > 0
    PROVE  Aligned(o) \in Nat
<1>1. WindowSize \in Nat \ {0}
  BY BoundsAssumption
<1>2. o \div WindowSize \in Nat
  BY <1>1
<1> DEFINE q == o \div WindowSize
<1>3. q \in Nat
  BY <1>2
<1> HIDE DEF q
<1>4. q * WindowSize \in Nat
  BY <1>1, <1>3
<1>5. QED
  BY <1>4 DEF Aligned, q

-----------------------------------------------------------------------------
(* The end of a read, and what a step of one task leaves alone *)

Phase == {"idle", "miss", "fetch", "publish", "serve", "through", "fallback", "invalidate", "close"}

LEMMA PhaseType == TypeOK => pc \in [Task -> Phase]
  BY DEF TypeOK, Phase

Result == [st : {"none", "ok", "err"}, off : Nat, want : Nat, data : Contents,
           past : SUBSET Contents]

LEMMA NoResultFacts ==
    ASSUME result' = NoResult
    PROVE  result' \in Result /\ RightPositions' /\ CurrentUnlessOverlapped'
<1>1. /\ NoResult \in Result /\ NoResult.st = "none" /\ NoResult.data = <<>>
  BY Nothing DEF NoResult, Result
<1>2. RightPositions'
  BY <1>1, Nothing DEF RightPositions
<1>3. CurrentUnlessOverlapped'
  BY <1>1 DEF CurrentUnlessOverlapped, ReadsAreCurrent
<1>4. QED
  BY <1>1, <1>2, <1>3

LEMMA VisibleType == TypeOK => Visible \in SUBSET Contents
  BY DEF TypeOK, Visible

\* Nothing that a read which begins may see is new or forgotten.
LEMMA VisibleSame ==
    ASSUME content' = content,
           \A u \in Task : /\ pc[u] = "invalidate" <=> pc'[u] = "invalidate"
                           /\ pc[u] = "invalidate" => past'[u] = past[u]
    PROVE  Visible' = Visible
<1>1. {u \in Task : pc'[u] = "invalidate"} = {u \in Task : pc[u] = "invalidate"}
  OBVIOUS
<1>2. \A x : (\E u \in Task : pc[u] = "invalidate" /\ x \in past[u]) <=>
             (\E u \in Task : pc'[u] = "invalidate" /\ x \in past'[u])
  OBVIOUS
<1>3. QED
  BY <1>1, <1>2 DEF Visible

\* What a read that ends in one task changes.
LEMMA DoneFacts ==
    ASSUME TypeOK, NEW t \in Task, NEW st \in {"ok", "err"}, NEW data \in Contents,
           NEW o \in Nat, NEW n \in Nat, NEW seen \in SUBSET Contents,
           Done(t, st, data, o, n, seen)
    PROVE  /\ result' = [st |-> st, off |-> o, want |-> n, data |-> data, past |-> seen]
           /\ result' \in Result
           /\ past' \in [Task -> SUBSET Contents] /\ off' \in [Task -> Nat]
           /\ want' \in [Task -> Nat] /\ start' \in [Task -> Nat]
           /\ got' \in [Task -> Contents] /\ eof' \in [Task -> BOOLEAN]
           /\ pc' \in [Task -> Phase]
           /\ pc'[t] = "idle" /\ got'[t] = <<>> /\ eof'[t] = FALSE
           /\ \A u \in Task \ {t} :
                 /\ pc'[u] = pc[u] /\ past'[u] = past[u] /\ got'[u] = got[u]
                 /\ start'[u] = start[u] /\ want'[u] = want[u] /\ eof'[u] = eof[u]
<1>1. /\ past \in [Task -> SUBSET Contents] /\ off \in [Task -> Nat]
      /\ want \in [Task -> Nat] /\ start \in [Task -> Nat]
      /\ got \in [Task -> Contents] /\ eof \in [Task -> BOOLEAN]
      /\ pc \in [Task -> Phase]
  BY PhaseType DEF TypeOK
<1>2. result' = [st |-> st, off |-> o, want |-> n, data |-> data, past |-> seen]
  BY DEF Done
<1>3. result' \in Result
  BY <1>2 DEF Result
<1>4. /\ past' \in [Task -> SUBSET Contents]
      /\ \A u \in Task \ {t} : past'[u] = past[u]
  BY <1>1 DEF Done
<1>5. /\ off' \in [Task -> Nat] /\ want' \in [Task -> Nat] /\ start' \in [Task -> Nat]
      /\ \A u \in Task \ {t} : want'[u] = want[u] /\ start'[u] = start[u]
  BY <1>1 DEF Done
<1>6. /\ got' \in [Task -> Contents] /\ got'[t] = <<>>
      /\ \A u \in Task \ {t} : got'[u] = got[u]
  BY <1>1, Nothing DEF Done
<1>7. /\ eof' \in [Task -> BOOLEAN] /\ eof'[t] = FALSE /\ \A u \in Task \ {t} : eof'[u] = eof[u]
  BY <1>1 DEF Done
<1>8. /\ pc' \in [Task -> Phase] /\ pc'[t] = "idle"
      /\ \A u \in Task \ {t} : pc'[u] = pc[u]
  BY <1>1 DEF Done, Goto, Phase
<1>9. QED
  BY <1>2, <1>3, <1>4, <1>5, <1>6, <1>7, <1>8

\* A step of one task that does not change the file.
LEMMA StepKeeps ==
    ASSUME IInv, TypeOK', NEW t \in Task, UNCHANGED <<content, len, overlap>>,
           \A u \in Task \ {t} :
              /\ pc'[u] = pc[u] /\ past'[u] = past[u] /\ got'[u] = got[u]
              /\ start'[u] = start[u] /\ want'[u] = want[u] /\ eof'[u] = eof[u],
           Fits(t)', Placed(got'[t], start'[t]), Placed(window'.data, window'.start),
           Visible' \subseteq Visible, overlap \/ \E c \in Visible' : Shows(window', c),
           pc'[t] \in Reads => Visible \subseteq past'[t],
           pc'[t] \in {"fetch", "publish"} => overlap \/ Shows(Fetched(t)', content),
           RightPositions', CurrentUnlessOverlapped'
    PROVE  IInv'
<1>1. Places'
  BY DEF IInv, Places
<1>2. \A u \in Task : Fits(u)'
  <2>1. ASSUME NEW u \in Task \ {t} PROVE Fits(u)'
    BY DEF IInv, Fits, FetchLen
  <2>2. QED
    BY <2>1
<1>3. Seen'
  BY DEF IInv, Seen
<1>4. Truth'
  <2>1. CASE overlap
    BY <2>1 DEF Truth
  <2>2. CASE ~overlap
    <3>1. (\E c \in Visible : Shows(window, c))'
      BY <2>2
    <3>2. ASSUME NEW u \in Task, pc'[u] \in {"fetch", "publish"} PROVE Shows(Fetched(u)', content')
      <4>1. CASE u = t
        BY <2>2, <3>2, <4>1
      <4>2. CASE u # t
        <5>1. Fetched(u)' = Fetched(u) /\ pc[u] \in {"fetch", "publish"} /\ content' = content
          BY <3>2, <4>2 DEF Fetched
        <5>2. QED
          BY <2>2, <5>1 DEF IInv, Truth
      <4>3. QED
        BY <4>1, <4>2
    <3>3. QED
      BY <3>1, <3>2 DEF Truth
  <2>3. QED
    BY <2>1, <2>2
<1>5. QED
  BY <1>1, <1>2, <1>3, <1>4 DEF IInv

\* A step of a read, which changes neither the file nor the window.
LEMMA QuietKeeps ==
    ASSUME IInv, TypeOK', NEW t \in Task, UNCHANGED <<handle, window, overlap>>,
           \A u \in Task \ {t} :
              /\ pc'[u] = pc[u] /\ past'[u] = past[u] /\ got'[u] = got[u]
              /\ start'[u] = start[u] /\ want'[u] = want[u] /\ eof'[u] = eof[u],
           pc[t] # "invalidate", pc'[t] # "invalidate",
           Fits(t)', Placed(got'[t], start'[t]),
           pc'[t] \in Reads => Visible \subseteq past'[t],
           pc'[t] \in {"fetch", "publish"} => overlap \/ Shows(Fetched(t)', content),
           RightPositions', CurrentUnlessOverlapped'
    PROVE  IInv'
<1>1. Visible' = Visible
  BY VisibleSame DEF handle
<1>2. Placed(window'.data, window'.start)
  BY DEF IInv, Places
<1>3. overlap \/ \E c \in Visible' : Shows(window', c)
  BY <1>1 DEF IInv, Truth
<1>4. QED
  BY <1>1, <1>2, <1>3, StepKeeps DEF handle

\* What was there of the file while the read ran.
Current(data, o, seen) ==
    /\ \A i \in 1..Len(data) : \E c \in seen : o + i <= Len(c) /\ c[o + i] = data[i]
    /\ data = <<>> => \E c \in seen : Len(c) <= o

LEMMA HeldIsCurrent ==
    ASSUME NEW data \in Contents, NEW o \in Nat, NEW seen, NEW c \in seen,
           Holds(data, o, c), data = <<>> => Len(c) <= o
    PROVE  Current(data, o, seen)
  BY DEF Holds, Current

LEMMA ReadEnds ==
    ASSUME IInv, NEW t \in Task, NEW st \in {"ok", "err"}, NEW data \in Contents,
           NEW o \in Nat, NEW n \in Nat, NEW seen \in SUBSET Contents,
           Done(t, st, data, o, n, seen), UNCHANGED <<handle, window, overlap>>,
           pc[t] # "invalidate", Placed(data, o),
           st = "ok" => overlap \/ Current(data, o, seen)
    PROVE  IInv'
<1>1. /\ result' = [st |-> st, off |-> o, want |-> n, data |-> data, past |-> seen]
      /\ result' \in Result
      /\ past' \in [Task -> SUBSET Contents] /\ off' \in [Task -> Nat]
      /\ want' \in [Task -> Nat] /\ start' \in [Task -> Nat]
      /\ got' \in [Task -> Contents] /\ eof' \in [Task -> BOOLEAN]
      /\ pc' \in [Task -> Phase]
      /\ pc'[t] = "idle" /\ got'[t] = <<>> /\ eof'[t] = FALSE
      /\ \A u \in Task \ {t} :
            /\ pc'[u] = pc[u] /\ past'[u] = past[u] /\ got'[u] = got[u]
            /\ start'[u] = start[u] /\ want'[u] = want[u] /\ eof'[u] = eof[u]
  BY DoneFacts DEF IInv
<1>2. TypeOK'
  BY <1>1 DEF IInv, TypeOK, Phase, Result, handle
<1>3. Fits(t)'
  BY <1>1, Nothing, BoundsAssumption DEF Fits, Reads
<1>4. Placed(got'[t], start'[t])
  BY <1>1, Nothing
<1>5. RightPositions'
  BY <1>1 DEF RightPositions, Placed
<1>6. CurrentUnlessOverlapped'
  BY <1>1 DEF CurrentUnlessOverlapped, ReadsAreCurrent, Current
<1>7. QED
  BY <1>1, <1>2, <1>3, <1>4, <1>5, <1>6, QuietKeeps DEF Reads

-----------------------------------------------------------------------------
(* The steps of a read *)

LEMMA InitInvariant == Init => IInv
<1> SUFFICES ASSUME Init PROVE IInv
  OBVIOUS
<1>1. PICK n \in 0..MaxLen : content = [i \in 1..n |-> Written(i - 1, 0)]
  BY DEF Init
<1>2. \A i \in 1..n : Written(i - 1, 0) \in Byte /\ Written(i - 1, 0).at = 0 + i - 1
  BY ByteType
<1>3. n \in Nat
  BY BoundsAssumption
<1>4. content \in Contents /\ Len(content) = n
  BY <1>1, <1>2, <1>3 DEF Contents
<1>5. Placed(content, 0)
  BY <1>1, <1>2, <1>4 DEF Placed
<1>6. window \in [start : Nat, data : Contents, eof : BOOLEAN] /\ Len(window.data) <= WindowSize
  BY Nothing, BoundsAssumption DEF Init, Empty
<1>7. result \in Result /\ RightPositions /\ CurrentUnlessOverlapped
  <2>1. /\ NoResult \in Result /\ NoResult.st = "none" /\ NoResult.data = <<>>
    BY Nothing DEF NoResult, Result
  <2>2. QED
    BY <2>1, Nothing DEF Init, RightPositions, CurrentUnlessOverlapped, ReadsAreCurrent
<1>8. got \in [Task -> Contents] /\ past \in [Task -> SUBSET Contents]
  BY Nothing DEF Init
<1>9. TypeOK
  <2>1. /\ len \in Nat /\ writes \in 0..MaxWrites
    BY BoundsAssumption DEF Init
  <2>2. QED
    BY <1>4, <1>6, <1>7, <1>8, <2>1 DEF Init, TypeOK, Result
<1>10. Places
  BY <1>5, Nothing DEF Init, Empty, Places
<1>11. Truth
  <2>1. Shows(window, content)
    BY Nothing DEF Init, Empty, Shows
  <2>2. QED
    BY <2>1 DEF Init, Truth, Visible
<1>12. Seen
  BY DEF Init, Seen, Reads
<1>13. \A t \in Task : Fits(t)
  <2>1. \A t \in Task : pc[t] = "idle" /\ eof[t] = FALSE /\ got[t] = <<>>
    BY DEF Init
  <2>2. \A t \in Task : Len(got[t]) = 0
    BY <2>1, Nothing
  <2>3. 0 <= WindowSize
    BY BoundsAssumption
  <2>4. QED
    BY <2>1, <2>2, <2>3 DEF Fits, Reads
<1>14. QED
  BY <1>7, <1>9, <1>10, <1>11, <1>12, <1>13 DEF IInv

LEMMA BeginReadKeeps ==
    ASSUME IInv, NEW t \in Task, NEW o \in 0..MaxLen, NEW n \in 1..MaxWant, BeginRead(t, o, n)
    PROVE  IInv'
<1>1. /\ pc[t] = "idle" /\ UNCHANGED <<handle, window, overlap>>
      /\ o \in Nat /\ n \in Nat \ {0} /\ WindowSize \in Nat
  BY BoundsAssumption DEF BeginRead
<1>2. /\ Visible \in SUBSET Contents /\ TypeOK
      /\ window \in [start : Nat, data : Contents, eof : BOOLEAN]
  BY VisibleType DEF IInv, TypeOK
<1>3. CASE WindowSize > 0 /\ Covers(window, o, n)
  <2> DEFINE data == CopyOut(window, o, n)
  <2>1. Done(t, "ok", data, o, n, Visible)
    BY <1>3 DEF BeginRead
  <2>2. /\ data \in Contents
        /\ Placed(window.data, window.start) => Placed(data, o)
        /\ \A c \in Contents :
              Shows(window, c) => Holds(data, o, c) /\ (data = <<>> => Len(c) <= o)
    BY <1>1, <1>2, <1>3, CopyOutFacts
  <2> HIDE DEF data
  <2>3. Placed(data, o)
    BY <2>2 DEF IInv, Places
  <2>4. overlap \/ Current(data, o, Visible)
    <3>1. CASE ~overlap
      <4>1. PICK c \in Visible : Shows(window, c)
        BY <3>1 DEF IInv, Truth
      <4>2. Holds(data, o, c) /\ (data = <<>> => Len(c) <= o)
        BY <1>2, <2>2, <4>1
      <4>3. QED
        BY <1>1, <2>2, <4>2, HeldIsCurrent
    <3>2. QED
      BY <3>1
  <2>5. n \in Nat /\ "ok" \in {"ok", "err"} /\ pc[t] # "invalidate"
    BY <1>1
  <2>6. QED
    BY <1>1, <1>2, <2>1, <2>2, <2>3, <2>4, <2>5, ReadEnds
<1>4. CASE ~(WindowSize > 0 /\ Covers(window, o, n))
  <2> DEFINE at == IF n > WindowSize THEN "through" ELSE "miss"
  <2>1. /\ pc' = [pc EXCEPT ![t] = at] /\ want' = [want EXCEPT ![t] = n]
        /\ off' = [off EXCEPT ![t] = o] /\ past' = [past EXCEPT ![t] = Visible]
        /\ result' = NoResult /\ UNCHANGED <<start, got, eof>>
    BY <1>4 DEF BeginRead, Goto
  <2>2. at \in {"through", "miss"} /\ (at = "miss" => WindowSize > 0)
    BY <1>1
  <2> HIDE DEF at
  <2>3. /\ pc \in [Task -> Phase] /\ want \in [Task -> Nat] /\ off \in [Task -> Nat]
        /\ past \in [Task -> SUBSET Contents]
    BY PhaseType DEF IInv, TypeOK
  <2>4. /\ pc' \in [Task -> Phase] /\ want' \in [Task -> Nat] /\ off' \in [Task -> Nat]
        /\ past' \in [Task -> SUBSET Contents]
    BY <1>1, <1>2, <2>1, <2>2, <2>3 DEF Phase
  <2>5. /\ pc'[t] = at /\ want'[t] = n /\ past'[t] = Visible
        /\ \A u \in Task \ {t} : pc'[u] = pc[u] /\ want'[u] = want[u] /\ past'[u] = past[u]
    BY <2>1, <2>3
  <2>6. result' \in Result /\ RightPositions' /\ CurrentUnlessOverlapped'
    BY <2>1, NoResultFacts
  <2>7. TypeOK'
    BY <1>1, <2>1, <2>4, <2>6 DEF IInv, TypeOK, Phase, Result, handle
  <2>8. Fits(t)'
    BY <1>1, <2>1, <2>2, <2>5 DEF IInv, Fits, Reads
  <2>9. Placed(got'[t], start'[t])
    BY <2>1 DEF IInv, Places
  <2>10. QED
    BY <1>1, <2>1, <2>2, <2>5, <2>6, <2>7, <2>8, <2>9, QuietKeeps
<1>5. QED
  BY <1>3, <1>4

LEMMA DecideFetchKeeps ==
    ASSUME IInv, NEW t \in Task, DecideFetch(t)
    PROVE  IInv'
<1>1. /\ pc[t] = "miss" /\ result' = NoResult
      /\ UNCHANGED <<handle, window, off, want, got, eof, overlap, past>>
  BY DEF DecideFetch
<1>2. /\ want[t] > 0 /\ WindowSize > 0 /\ eof[t] = FALSE /\ got[t] = <<>>
      /\ Len(got[t]) <= WindowSize /\ Visible \subseteq past[t]
  BY <1>1 DEF IInv, Fits, Reads, Seen
<1>3. /\ pc \in [Task -> Phase] /\ start \in [Task -> Nat] /\ off[t] \in Nat /\ TypeOK
  BY PhaseType DEF IInv, TypeOK
<1>4. result' \in Result /\ RightPositions' /\ CurrentUnlessOverlapped'
  BY <1>1, NoResultFacts
<1>5. CASE window.eof /\ off[t] >= End(window)
  <2>1. pc' = [pc EXCEPT ![t] = "through"] /\ start' = start
    BY <1>5 DEF DecideFetch, Goto
  <2>2. /\ pc' \in [Task -> Phase] /\ pc'[t] = "through"
        /\ \A u \in Task \ {t} : pc'[u] = pc[u]
    BY <1>3, <2>1 DEF Phase
  <2>3. TypeOK'
    BY <1>1, <1>4, <2>1, <2>2 DEF IInv, TypeOK, Phase, Result, handle
  <2>4. Fits(t)' /\ Placed(got'[t], start'[t])
    BY <1>1, <1>2, <2>2, Nothing DEF Fits, Reads
  <2>5. QED
    BY <1>1, <1>2, <1>4, <2>1, <2>2, <2>3, <2>4, QuietKeeps
<1>6. CASE ~(window.eof /\ off[t] >= End(window))
  <2>1. pc' = [pc EXCEPT ![t] = "fetch"] /\ start' = [start EXCEPT ![t] = Aligned(off[t])]
    BY <1>6 DEF DecideFetch, Goto
  <2>2. Aligned(off[t]) \in Nat
    BY <1>2, <1>3, AlignedType
  <2>3. /\ pc' \in [Task -> Phase] /\ pc'[t] = "fetch"
        /\ \A u \in Task \ {t} : pc'[u] = pc[u]
    BY <1>3, <2>1 DEF Phase
  <2>4. /\ start' \in [Task -> Nat] /\ start'[t] = Aligned(off[t])
        /\ \A u \in Task \ {t} : start'[u] = start[u]
    BY <1>3, <2>1, <2>2
  <2>5. TypeOK'
    BY <1>1, <1>4, <2>3, <2>4 DEF IInv, TypeOK, Phase, Result, handle
  <2>6. FetchLen(start[t])' > 0
    <3>1. FetchLen(Aligned(off[t])) > 0
      BY <1>2, <1>3, <2>2, FetchLenFacts
    <3>2. len' = len
      BY <1>1 DEF handle
    <3>3. FetchLen(start[t])' = FetchLen(start'[t])
      BY <3>2 DEF FetchLen, Least
    <3>4. QED
      BY <2>4, <3>1, <3>3
  <2>7. Fits(t)' /\ Placed(got'[t], start'[t])
    <3>1. Len(got'[t]) = 0 /\ got'[t] = <<>>
      BY <1>1, <1>2, Nothing
    <3>2. Len(got'[t]) < FetchLen(start[t])'
      BY <2>6, <3>1
    <3>3. Fits(t)'
      BY <1>1, <1>2, <2>3, <3>2 DEF Fits, Reads
    <3>4. QED
      BY <3>1, <3>3, Nothing
  <2>8. Shows(Fetched(t)', content)
    BY <1>1, <1>2, Nothing DEF Shows, Fetched
  <2>9. QED
    BY <1>1, <1>2, <1>4, <2>3, <2>4, <2>5, <2>7, <2>8, QuietKeeps
<1>7. QED
  BY <1>5, <1>6

LEMMA FetchMoreKeeps ==
    ASSUME IInv, NEW t \in Task, FetchMore(t)
    PROVE  IInv'
<1> DEFINE from == start[t] + Len(got[t])
           more == FetchLen(start[t]) - Len(got[t])
<1>1. PICK data \in InnerReads(from, more) :
         /\ got' = [got EXCEPT ![t] = @ \o data]
         /\ eof' = [eof EXCEPT ![t] = data = <<>>]
         /\ pc' = [pc EXCEPT ![t] = IF data = <<>> \/ Len(data) = more THEN "publish" ELSE "fetch"]
  BY DEF FetchMore, Goto
<1>2. /\ pc[t] = "fetch" /\ result' = NoResult
      /\ UNCHANGED <<handle, window, off, want, start, overlap, past>>
  BY DEF FetchMore
<1>3. /\ want[t] > 0 /\ WindowSize > 0 /\ eof[t] = FALSE /\ Len(got[t]) < FetchLen(start[t])
      /\ Visible \subseteq past[t] /\ Placed(got[t], start[t])
  BY <1>2 DEF IInv, Fits, Reads, Seen, Places
<1>4. /\ pc \in [Task -> Phase] /\ start[t] \in Nat /\ got \in [Task -> Contents]
      /\ eof \in [Task -> BOOLEAN] /\ TypeOK /\ content \in Contents
  BY PhaseType DEF IInv, TypeOK
<1> DEFINE g == got[t]
           f == g \o data
           n == Len(g)
           full == FetchLen(start[t])
<1>5. /\ g \in Contents /\ n \in Nat /\ full \in Nat /\ full <= WindowSize /\ n < full
  <2>1. g \in Contents /\ full \in Nat /\ full <= WindowSize /\ n < full
    BY <1>3, <1>4, FetchLenFacts
  <2>2. n \in Nat
    BY <2>1, LenProperties DEF Contents
  <2>3. QED
    BY <2>1, <2>2
<1>6. from \in Nat /\ more \in Nat /\ more > 0
  BY <1>4, <1>5
<1>7. /\ data \in Contents /\ Len(data) <= more /\ Holds(data, from, content)
      /\ data = <<>> => Len(content) <= from
  BY <1>4, <1>6, InnerReadsFacts
<1>8. Len(data) \in Nat /\ (data = <<>> <=> Len(data) = 0)
  BY <1>7, EmptySeq, LenProperties DEF Contents
<1>9. f \in Contents /\ Len(f) = n + Len(data)
  BY <1>5, <1>7, Joined
<1>10. Placed(f, start[t])
  <2>1. Placed(data, from)
    BY <1>4, <1>6, <1>7, HeldIsPlaced DEF IInv, Places
  <2>2. QED
    BY <1>3, <1>4, <1>5, <1>7, <2>1, JoinedPlaced
<1>11. overlap \/ Holds(f, start[t], content)
  <2>1. CASE ~overlap
    <3>1. Holds(g, start[t], content)
      BY <1>2, <2>1 DEF IInv, Truth, Shows, Fetched
    <3>2. QED
      BY <1>4, <1>5, <1>7, <3>1, JoinedHolds
  <2>2. QED
    BY <2>1
<1>12. full = n + more
  BY <1>5
<1> DEFINE at == IF data = <<>> \/ Len(data) = more THEN "publish" ELSE "fetch"
<1>13. /\ Len(f) <= full /\ (at = "fetch" => Len(f) < full /\ data # <<>>)
       /\ (data = <<>> => Len(f) = n)
       /\ at \in {"publish", "fetch"}
  BY <1>5, <1>6, <1>7, <1>8, <1>9, <1>12
<1>14. /\ pc' = [pc EXCEPT ![t] = at] /\ got' = [got EXCEPT ![t] = f]
       /\ eof' = [eof EXCEPT ![t] = data = <<>>]
  BY <1>1
<1> HIDE DEF f, at, from, more
<1>15. /\ pc' \in [Task -> Phase] /\ pc'[t] = at
       /\ \A u \in Task \ {t} : pc'[u] = pc[u]
  BY <1>4, <1>13, <1>14 DEF Phase
<1>16. /\ got' \in [Task -> Contents] /\ got'[t] = f
       /\ \A u \in Task \ {t} : got'[u] = got[u]
  BY <1>4, <1>9, <1>14
<1>17. /\ eof' \in [Task -> BOOLEAN] /\ eof'[t] = (data = <<>>)
       /\ \A u \in Task \ {t} : eof'[u] = eof[u]
  BY <1>4, <1>14
<1>18. result' \in Result /\ RightPositions' /\ CurrentUnlessOverlapped'
  BY <1>2, NoResultFacts
<1>19. TypeOK'
  BY <1>2, <1>15, <1>16, <1>17, <1>18 DEF IInv, TypeOK, Phase, Result, handle
<1>20. Fits(t)'
  <2>1. FetchLen(start[t])' = full /\ start' = start /\ want' = want
    BY <1>2 DEF FetchLen, handle
  <2>2. Len(f) <= WindowSize
    <3>1. Len(f) \in Nat /\ WindowSize \in Nat
      BY <1>5, <1>8, <1>9, BoundsAssumption
    <3>2. QED
      BY <1>5, <1>13, <3>1
  <2> HIDE DEF full
  <2>3. QED
    BY <1>3, <1>13, <1>15, <1>16, <1>17, <2>1, <2>2 DEF Fits, Reads
<1>21. overlap \/ Shows(Fetched(t)', content)
  <2>1. CASE ~overlap
    <3>1. /\ Fetched(t)'.data = f /\ Fetched(t)'.start = start[t]
          /\ Fetched(t)'.eof = (data = <<>>)
      BY <1>2, <1>16, <1>17 DEF Fetched
    <3>2. data = <<>> => Len(content) <= start[t] + Len(f)
      BY <1>7, <1>13 DEF from
    <3>3. QED
      BY <1>11, <2>1, <3>1, <3>2 DEF Shows, End
  <2>2. QED
    BY <2>1
<1>22. Placed(got'[t], start'[t])
  BY <1>2, <1>10, <1>16
<1>23. QED
  BY <1>2, <1>3, <1>13, <1>15, <1>16, <1>17, <1>18, <1>19, <1>20, <1>21, <1>22, QuietKeeps

LEMMA PublishKeeps ==
    ASSUME IInv, NEW t \in Task, Publish(t)
    PROVE  IInv'
<1>1. /\ pc[t] = "publish" /\ window' = Fetched(t) /\ pc' = [pc EXCEPT ![t] = "serve"]
      /\ result' = NoResult /\ UNCHANGED <<handle, call, overlap, past>>
  BY DEF Publish, Goto, Fetched
<1>2. /\ want[t] > 0 /\ Len(got[t]) <= WindowSize
      /\ Visible \subseteq past[t] /\ Placed(got[t], start[t])
  BY <1>1 DEF IInv, Fits, Reads, Seen, Places
<1>3. /\ pc \in [Task -> Phase] /\ start[t] \in Nat /\ got[t] \in Contents /\ eof[t] \in BOOLEAN
  BY PhaseType DEF IInv, TypeOK
<1>4. /\ pc' \in [Task -> Phase] /\ pc'[t] = "serve"
      /\ \A u \in Task \ {t} : pc'[u] = pc[u]
  BY <1>1, <1>3 DEF Phase
<1>5. /\ window' \in [start : Nat, data : Contents, eof : BOOLEAN]
      /\ window'.data = got[t] /\ window'.start = start[t]
  BY <1>1, <1>3 DEF Fetched
<1>6. result' \in Result /\ RightPositions' /\ CurrentUnlessOverlapped'
  BY <1>1, NoResultFacts
<1>7. TypeOK'
  BY <1>1, <1>2, <1>4, <1>5, <1>6 DEF IInv, TypeOK, Phase, Result, handle, call
<1>8. Visible' = Visible
  BY <1>1, <1>4, VisibleSame DEF handle
<1>9. overlap \/ \E c \in Visible' : Shows(window', c)
  <2>1. ~overlap => Shows(Fetched(t), content)
    BY <1>1 DEF IInv, Truth
  <2>2. content \in Visible
    BY DEF Visible
  <2>3. QED
    BY <1>1, <1>8, <2>1, <2>2
<1>10. Fits(t)'
  BY <1>1, <1>2, <1>4 DEF Fits, call
<1>11. Placed(got'[t], start'[t]) /\ Placed(window'.data, window'.start)
  BY <1>1, <1>2, <1>5 DEF call
<1>12. QED
  BY <1>1, <1>2, <1>4, <1>6, <1>7, <1>8, <1>9, <1>10, <1>11, StepKeeps DEF handle, call

\* What a read under way may return: what it is given from the window or the handle.
LEMMA ReturnKeeps ==
    ASSUME IInv, NEW t \in Task, pc[t] \in Reads, NEW data \in Contents, Return(t, data),
           UNCHANGED <<handle, window, overlap>>, Placed(data, off[t]),
           overlap \/ \E c \in Visible : Holds(data, off[t], c) /\ (data = <<>> => Len(c) <= off[t])
    PROVE  IInv'
<1>1. /\ off[t] \in Nat /\ want[t] \in Nat /\ past[t] \in SUBSET Contents
      /\ Visible \subseteq past[t] /\ pc[t] # "invalidate"
  BY DEF IInv, TypeOK, Seen, Reads
<1>2. overlap \/ Current(data, off[t], past[t])
  BY <1>1, HeldIsCurrent
<1>3. Done(t, "ok", data, off[t], want[t], past[t]) /\ "ok" \in {"ok", "err"}
  BY DEF Return
<1>4. QED
  BY <1>1, <1>2, <1>3, ReadEnds

LEMMA ServeKeeps ==
    ASSUME IInv, NEW t \in Task, Serve(t)
    PROVE  IInv'
<1>1. pc[t] = "serve" /\ UNCHANGED <<handle, window, overlap>>
  BY DEF Serve
<1>2. /\ off[t] \in Nat /\ want[t] \in Nat \ {0} /\ Visible \subseteq past[t]
      /\ window \in [start : Nat, data : Contents, eof : BOOLEAN]
      /\ Visible \in SUBSET Contents /\ Len(got[t]) <= WindowSize
  BY <1>1, VisibleType DEF IInv, TypeOK, Fits, Reads, Seen
<1>3. CASE Covers(window, off[t], want[t])
  <2> DEFINE data == CopyOut(window, off[t], want[t])
  <2>1. Return(t, data)
    BY <1>3 DEF Serve
  <2>2. /\ data \in Contents
        /\ Placed(window.data, window.start) => Placed(data, off[t])
        /\ \A c \in Contents :
              Shows(window, c) => Holds(data, off[t], c) /\ (data = <<>> => Len(c) <= off[t])
    BY <1>2, <1>3, CopyOutFacts
  <2> HIDE DEF data
  <2>3. overlap \/ \E c \in Visible : Holds(data, off[t], c) /\ (data = <<>> => Len(c) <= off[t])
    BY <1>2, <2>2 DEF IInv, Truth
  <2>4. Placed(data, off[t])
    BY <2>2 DEF IInv, Places
  <2>5. QED
    BY <1>1, <2>1, <2>2, <2>3, <2>4, ReturnKeeps DEF Reads
<1>4. CASE ~Covers(window, off[t], want[t])
  <2>1. /\ pc' = [pc EXCEPT ![t] = "fallback"] /\ result' = NoResult /\ UNCHANGED <<call, past>>
    BY <1>4 DEF Serve, Goto
  <2>2. /\ pc' \in [Task -> Phase] /\ pc'[t] = "fallback"
        /\ \A u \in Task \ {t} : pc'[u] = pc[u]
    BY <2>1, PhaseType DEF IInv, Phase
  <2>3. result' \in Result /\ RightPositions' /\ CurrentUnlessOverlapped'
    BY <2>1, NoResultFacts
  <2>4. TypeOK'
    BY <1>1, <2>1, <2>2, <2>3 DEF IInv, TypeOK, Phase, Result, handle, call
  <2>5. Fits(t)' /\ Placed(got'[t], start'[t])
    BY <1>2, <2>1, <2>2 DEF IInv, Places, Fits, call
  <2>6. QED
    BY <1>1, <1>2, <2>1, <2>2, <2>3, <2>4, <2>5, QuietKeeps DEF call
<1>5. QED
  BY <1>3, <1>4

\* read_through and the direct read at the end.
LEMMA HandleReadKeeps ==
    ASSUME IInv, NEW t \in Task, pc[t] \in Reads, NEW data \in InnerReads(off[t], want[t]),
           Return(t, data), UNCHANGED <<handle, window, overlap>>
    PROVE  IInv'
<1>1. off[t] \in Nat /\ want[t] \in Nat /\ want[t] > 0 /\ TypeOK /\ content \in Contents
  BY DEF IInv, TypeOK, Fits
<1>2. /\ data \in Contents /\ Holds(data, off[t], content)
      /\ data = <<>> => Len(content) <= off[t]
  BY <1>1, InnerReadsFacts
<1>3. Placed(data, off[t])
  BY <1>1, <1>2, HeldIsPlaced DEF IInv, Places
<1>4. content \in Visible
  BY DEF Visible
<1>5. QED
  BY <1>2, <1>3, <1>4, ReturnKeeps

LEMMA ReadFailsKeeps ==
    ASSUME IInv, NEW t \in Task, ReadFails(t)
    PROVE  IInv'
<1>1. /\ UNCHANGED <<handle, window, overlap>> /\ pc[t] # "invalidate"
      /\ Done(t, "err", <<>>, off[t], want[t], past[t])
  BY DEF ReadFails, Fail
<1>2. off[t] \in Nat /\ want[t] \in Nat /\ past[t] \in SUBSET Contents
  BY DEF IInv, TypeOK
<1>3. <<>> \in Contents /\ Placed(<<>>, off[t]) /\ "err" \in {"ok", "err"} /\ "err" # "ok"
  BY Nothing
<1>4. QED
  BY <1>1, <1>2, <1>3, ReadEnds

-----------------------------------------------------------------------------
(* Writing and closing *)

\* The window is emptied, or the handle closed.
LEMMA EmptiedKeeps ==
    ASSUME IInv, NEW t \in Task, NEW at \in {"idle", "close"}, pc[t] \in {"idle", "invalidate", "close"},
           pc' = [pc EXCEPT ![t] = at], window' = Empty \/ (window' = window /\ pc[t] = "close"),
           past' \in [Task -> SUBSET Contents], \A u \in Task \ {t} : past'[u] = past[u],
           closed' \in BOOLEAN, result' = NoResult,
           UNCHANGED <<content, len, writes, call, overlap>>
    PROVE  IInv'
<1>1. /\ pc' \in [Task -> Phase] /\ pc'[t] = at
      /\ \A u \in Task \ {t} : pc'[u] = pc[u]
  BY PhaseType DEF IInv, Phase
<1>2. /\ Empty \in [start : Nat, data : Contents, eof : BOOLEAN]
      /\ Empty.data = <<>> /\ Len(Empty.data) = 0 /\ Empty.eof = FALSE
  BY Nothing DEF Empty
<1>3. result' \in Result /\ RightPositions' /\ CurrentUnlessOverlapped'
  BY NoResultFacts
<1>4. /\ window' \in [start : Nat, data : Contents, eof : BOOLEAN]
      /\ Len(window'.data) <= WindowSize
  BY <1>2, BoundsAssumption DEF IInv, TypeOK
<1>5. TypeOK'
  BY <1>1, <1>3, <1>4 DEF IInv, TypeOK, Phase, Result, call
<1>6. Fits(t)' /\ Placed(got'[t], start'[t])
  BY <1>1 DEF IInv, Places, Fits, Reads, call
<1>7. Placed(window'.data, window'.start)
  BY <1>2, Nothing DEF IInv, Places
<1>8. Visible' \subseteq Visible
  BY <1>1 DEF Visible
<1>9. overlap \/ \E c \in Visible' : Shows(window', c)
  <2>1. CASE window' = Empty
    <3>1. content \in Visible'
      BY DEF Visible
    <3>2. Shows(Empty, content)
      <4>1. Empty.data = <<>> /\ Empty.eof = FALSE
        BY <1>2
      <4>2. Holds(Empty.data, Empty.start, content)
        BY <4>1, Nothing
      <4>3. QED
        BY <4>1, <4>2 DEF Shows
    <3>3. QED
      BY <2>1, <3>1, <3>2
  <2>2. CASE window' = window /\ pc[t] = "close"
    <3>1. \A u \in Task : pc[u] = "invalidate" => pc'[u] = "invalidate" /\ past'[u] = past[u]
      BY <1>1, <2>2
    <3>2. Visible \subseteq Visible'
      BY <3>1 DEF Visible
    <3>3. QED
      BY <2>2, <3>2 DEF IInv, Truth
  <2>3. QED
    BY <2>1, <2>2
<1>10. QED
  BY <1>1, <1>3, <1>5, <1>6, <1>7, <1>8, <1>9, StepKeeps DEF Reads, call

LEMMA InvalidateKeeps ==
    ASSUME IInv, NEW t \in Task, Invalidate(t)
    PROVE  IInv'
<1>1. past \in [Task -> SUBSET Contents] /\ closed \in BOOLEAN
  BY DEF IInv, TypeOK
<1>2. /\ past' \in [Task -> SUBSET Contents] /\ \A u \in Task \ {t} : past'[u] = past[u]
  BY <1>1 DEF Invalidate
<1>3. QED
  BY <1>1, <1>2, EmptiedKeeps DEF Invalidate, Goto, handle

LEMMA BeginCloseKeeps ==
    ASSUME IInv, NEW t \in Task, BeginClose(t)
    PROVE  IInv'
<1>1. past \in [Task -> SUBSET Contents] /\ closed \in BOOLEAN
  BY DEF IInv, TypeOK
<1>2. QED
  BY <1>1, EmptiedKeeps DEF BeginClose, Goto, handle

LEMMA CloseKeeps ==
    ASSUME IInv, NEW t \in Task, Close(t)
    PROVE  IInv'
<1>1. past \in [Task -> SUBSET Contents]
  BY DEF IInv, TypeOK
<1>2. QED
  BY <1>1, EmptiedKeeps DEF Close, Goto

\* Every byte of a file that was written or resized is in its place.
LEMMA ModifiedFacts ==
    ASSUME IInv, NEW c \in Modified
    PROVE  c \in Contents /\ Placed(c, 0)
<1>1. content \in Contents /\ Len(content) \in Nat /\ writes \in Nat
  BY LenProperties, BoundsAssumption DEF IInv, TypeOK, Contents
<1>2. \A i \in 1..Len(content) : content[i] \in Byte /\ content[i].at = 0 + i - 1
  BY <1>1, ElementOfSeq DEF IInv, Places, Placed, Contents
<1>3. ASSUME NEW m \in Nat, NEW e, e = [i \in 1..m |-> e[i]], \A i \in 1..m : e[i] \in Byte /\ e[i].at = 0 + i - 1
      PROVE  e \in Contents /\ Placed(e, 0)
  <2>1. e \in Seq(Byte) /\ Len(e) = m
    BY <1>3
  <2>2. QED
    BY <1>3, <2>1 DEF Contents, Placed
<1>4. \A i \in Nat \ {0} : /\ Written(i - 1, writes + 1) \in Byte
                           /\ Written(i - 1, writes + 1).at = 0 + i - 1
  BY <1>1, ByteType
<1>5. ASSUME NEW o \in 0..(MaxLen - 1), NEW n \in 1..2, c = AfterWrite(o, n)
      PROVE  c \in Contents /\ Placed(c, 0)
  <2> DEFINE m == IF Len(content) > o + n THEN Len(content) ELSE o + n
  <2>1. m \in Nat
    BY <1>1, BoundsAssumption
  <2>2. c = [i \in 1..m |-> IF i \in (o + 1)..(o + n) \/ i > Len(content)
                            THEN Written(i - 1, writes + 1) ELSE content[i]]
    BY <1>5 DEF AfterWrite
  <2> HIDE DEF m
  <2>3. ASSUME NEW i \in 1..m PROVE c[i] \in Byte /\ c[i].at = 0 + i - 1
    <3>1. c[i] = IF i \in (o + 1)..(o + n) \/ i > Len(content)
                 THEN Written(i - 1, writes + 1) ELSE content[i]
      BY <2>2
    <3>2. i \in Nat \ {0} /\ (~(i > Len(content)) => i \in 1..Len(content))
      BY <1>1, <2>1
    <3>3. QED
      BY <1>2, <1>4, <3>1, <3>2
  <2>4. c = [i \in 1..m |-> c[i]]
    BY <2>2
  <2>5. QED
    BY <1>3, <2>1, <2>3, <2>4
<1>6. ASSUME NEW m \in 0..MaxLen, c = AfterSetLen(m)
      PROVE  c \in Contents /\ Placed(c, 0)
  <2>1. m \in Nat
    BY BoundsAssumption
  <2>2. c = [i \in 1..m |-> IF i <= Len(content) THEN content[i] ELSE Written(i - 1, writes + 1)]
    BY <1>6 DEF AfterSetLen
  <2>3. ASSUME NEW i \in 1..m PROVE c[i] \in Byte /\ c[i].at = 0 + i - 1
    <3>1. c[i] = IF i <= Len(content) THEN content[i] ELSE Written(i - 1, writes + 1)
      BY <2>2
    <3>2. i \in Nat \ {0} /\ (i <= Len(content) => i \in 1..Len(content))
      BY <1>1, <2>1
    <3>3. QED
      BY <1>2, <1>4, <3>1, <3>2
  <2>4. c = [i \in 1..m |-> c[i]]
    BY <2>2
  <2>5. QED
    BY <1>3, <2>1, <2>3, <2>4
<1>7. QED
  BY <1>5, <1>6 DEF Modified

\* The reads under way may see the new file, and the call that changed it the old one too.
LEMMA ChangeFacts ==
    ASSUME IInv, NEW t \in Task, NEW c \in Modified, NEW goesOn \in BOOLEAN,
           pc[t] = "idle", writes < MaxWrites, Change(t, c, goesOn),
           \A u \in Task \ {t} : pc'[u] = pc[u],
           pc'[t] = IF goesOn THEN "invalidate" ELSE "idle"
    PROVE  /\ content' \in Contents /\ Placed(content', 0) /\ writes' \in 0..MaxWrites
           /\ past' \in [Task -> SUBSET Contents] /\ UNCHANGED <<len, closed>>
           /\ Seen'
           /\ goesOn => Visible \subseteq Visible'
<1>1. /\ content' = c /\ writes' = writes + 1 /\ UNCHANGED <<len, closed>>
      /\ past' = [u \in Task |-> IF u = t THEN (IF goesOn THEN {content, c} ELSE {})
                                 ELSE IF past[u] = {} THEN {} ELSE past[u] \cup {c}]
  BY DEF Change
<1>2. c \in Contents /\ Placed(c, 0)
  BY ModifiedFacts
<1>3. writes' \in 0..MaxWrites
  BY <1>1, BoundsAssumption DEF IInv, TypeOK
<1>4. content \in Contents /\ past \in [Task -> SUBSET Contents]
  BY DEF IInv, TypeOK
<1>5. past' \in [Task -> SUBSET Contents]
  BY <1>1, <1>2, <1>4
<1>6. \A u \in Task \ {t} : past'[u] = IF past[u] = {} THEN {} ELSE past[u] \cup {c}
  BY <1>1
<1>7. past'[t] = IF goesOn THEN {content, c} ELSE {}
  BY <1>1
<1>8. Visible' \subseteq Visible \cup {c}
  <2>1. ASSUME NEW u \in Task, pc'[u] = "invalidate" PROVE past'[u] \subseteq Visible \cup {c}
    <3>1. CASE u = t
      BY <1>7, <3>1 DEF Visible
    <3>2. CASE u # t
      BY <1>6, <2>1, <3>2 DEF Visible
    <3>3. QED
      BY <3>1, <3>2
  <2>2. QED
    BY <1>1, <2>1 DEF Visible
<1>9. Seen'
  <2>1. SUFFICES ASSUME NEW u \in Task, pc'[u] \in Reads PROVE Visible' \subseteq past'[u]
    BY DEF Seen
  <2>2. u # t
    BY <2>1 DEF Reads
  <2>3. Visible \subseteq past[u] /\ content \in Visible
    BY <2>1, <2>2 DEF IInv, Seen, Visible
  <2>4. past'[u] = past[u] \cup {c}
    BY <1>6, <2>2, <2>3
  <2>5. QED
    BY <1>8, <2>3, <2>4
<1>10. ASSUME goesOn PROVE Visible \subseteq Visible'
  <2>1. pc'[t] = "invalidate" /\ content \in past'[t]
    BY <1>7, <1>10
  <2>2. \A u \in Task : pc[u] = "invalidate" => pc'[u] = "invalidate" /\ past[u] \subseteq past'[u]
    BY <1>6
  <2>3. content \in Visible'
    BY <2>1 DEF Visible
  <2>4. QED
    BY <2>2, <2>3 DEF Visible
<1>11. QED
  BY <1>1, <1>2, <1>3, <1>5, <1>9, <1>10

LEMMA WriteKeeps ==
    ASSUME IInv, NEW t \in Task, Write(t)
    PROVE  IInv'
<1>1. PICK c \in Modified : Len(c) <= MaxLen /\ Change(t, c, TRUE)
  BY DEF Write
<1>2. /\ pc[t] = "idle" /\ writes < MaxWrites /\ pc' = [pc EXCEPT ![t] = "invalidate"]
      /\ overlap' = (overlap \/ Fetching) /\ result' = NoResult /\ UNCHANGED <<window, call>>
  BY DEF Write, Goto
<1>3. /\ pc' \in [Task -> Phase] /\ pc'[t] = "invalidate"
      /\ \A u \in Task \ {t} : pc'[u] = pc[u]
  BY <1>2, PhaseType DEF IInv, Phase
<1>4. /\ content' \in Contents /\ Placed(content', 0) /\ writes' \in 0..MaxWrites
      /\ past' \in [Task -> SUBSET Contents] /\ UNCHANGED <<len, closed>>
      /\ Seen' /\ Visible \subseteq Visible'
  BY <1>1, <1>2, <1>3, ChangeFacts
<1>5. result' \in Result /\ RightPositions' /\ CurrentUnlessOverlapped'
  BY <1>2, NoResultFacts
<1>6. overlap' \in BOOLEAN
  BY <1>2 DEF IInv, TypeOK, Fetching
<1>7. TypeOK'
  BY <1>2, <1>3, <1>4, <1>5, <1>6 DEF IInv, TypeOK, Phase, Result, call
<1>8. Places'
  BY <1>2, <1>4 DEF IInv, Places, call
<1>9. \A u \in Task : Fits(u)'
  BY <1>2, <1>3, <1>4 DEF IInv, Fits, FetchLen, Reads, call
<1>10. Truth'
  <2>1. CASE overlap'
    BY <2>1 DEF Truth
  <2>2. CASE ~overlap'
    <3>1. ~overlap /\ \A u \in Task : pc[u] \notin {"fetch", "publish"}
      BY <1>2, <2>2 DEF Fetching
    <3>2. \A u \in Task : pc'[u] \notin {"fetch", "publish"}
      BY <1>3, <3>1
    <3>3. (\E d \in Visible : Shows(window, d))'
      BY <1>2, <1>4, <3>1 DEF IInv, Truth
    <3>4. QED
      BY <3>2, <3>3 DEF Truth
  <2>3. QED
    BY <2>1, <2>2
<1>11. QED
  BY <1>4, <1>5, <1>7, <1>8, <1>9, <1>10 DEF IInv

LEMMA WriteFailsKeeps ==
    ASSUME IInv, NEW t \in Task, WriteFails(t)
    PROVE  IInv'
<1>1. PICK c \in Modified : Len(c) <= MaxLen /\ Change(t, c, FALSE)
  BY DEF WriteFails
<1>2. /\ pc[t] = "idle" /\ writes < MaxWrites /\ overlap' = TRUE /\ result' = NoResult
      /\ UNCHANGED <<window, pc, call>>
  BY DEF WriteFails
<1>3. /\ content' \in Contents /\ Placed(content', 0) /\ writes' \in 0..MaxWrites
      /\ past' \in [Task -> SUBSET Contents] /\ UNCHANGED <<len, closed>> /\ Seen'
  <2>1. pc'[t] = "idle" /\ \A u \in Task \ {t} : pc'[u] = pc[u]
    BY <1>2
  <2>2. QED
    BY <1>1, <1>2, <2>1, ChangeFacts
<1>4. result' \in Result /\ RightPositions' /\ CurrentUnlessOverlapped'
  BY <1>2, NoResultFacts
<1>5. TypeOK'
  BY <1>2, <1>3, <1>4 DEF IInv, TypeOK, Result, call
<1>6. Places'
  BY <1>2, <1>3 DEF IInv, Places, call
<1>7. \A u \in Task : Fits(u)'
  BY <1>2, <1>3 DEF IInv, Fits, FetchLen, Reads, call
<1>8. Truth'
  BY <1>2 DEF Truth
<1>9. QED
  BY <1>3, <1>4, <1>5, <1>6, <1>7, <1>8 DEF IInv

-----------------------------------------------------------------------------
(* Every step, and the theorems *)

LEMMA NextInvariant == IInv /\ [Next]_vars => IInv'
<1> SUFFICES ASSUME IInv, [Next]_vars PROVE IInv'
  OBVIOUS
<1>1. ASSUME NEW t \in Task, Proceed(t) PROVE IInv'
  <2>1. CASE ReadThrough(t) \/ Fallback(t)
    BY <2>1, HandleReadKeeps DEF ReadThrough, Fallback, Reads
  <2>2. QED
    BY <1>1, <2>1, DecideFetchKeeps, FetchMoreKeeps, PublishKeeps, ServeKeeps, ReadFailsKeeps,
       InvalidateKeeps, CloseKeeps DEF Proceed
<1>2. CASE UNCHANGED vars
  BY <1>2 DEF vars, handle, call, IInv, TypeOK, Places, Truth, Seen, RightPositions,
     CurrentUnlessOverlapped, ReadsAreCurrent, Fits, FetchLen, Visible, Fetched
<1>3. QED
  BY <1>1, <1>2, BeginReadKeeps, WriteKeeps, WriteFailsKeeps, BeginCloseKeeps DEF Next

\* The window's invariant: what it shows, and what is fetched for it, is the file as a
\* read that begins now may see it, unless a write has overlapped a fetch or failed.
THEOREM InductiveInvariant == Spec => []IInv
  BY InitInvariant, NextInvariant, PTL DEF Spec

\* Every variable keeps its type, and no window outgrows window_size.
THEOREM TypeCorrect == Spec => []TypeOK
<1>1. IInv => TypeOK
  BY DEF IInv
<1>2. QED
  BY <1>1, InductiveInvariant, PTL

\* No read returns a byte of another position: the arithmetic of covers, copy_out and
\* fill agrees whichever window is there when a read looks.
THEOREM BytesAreInPlace == Spec => []RightPositions
<1>1. IInv => RightPositions
  BY DEF IInv
<1>2. QED
  BY <1>1, InductiveInvariant, PTL

\* Readers that replace each other's windows, short reads, a wrong length and writes
\* that meet no fetch never make a read return what the file did not hold meanwhile.
THEOREM OnlyOverlapsAreStale == Spec => []CurrentUnlessOverlapped
<1>1. IInv => CurrentUnlessOverlapped
  BY DEF IInv
<1>2. QED
  BY <1>1, InductiveInvariant, PTL

-----------------------------------------------------------------------------
(* How long a call takes *)

\* The steps a call can still make, of its own.
CallLeft(t) ==
    IF pc[t] = "miss" THEN 5 + WindowSize
    ELSE IF pc[t] = "fetch" THEN 4 + (WindowSize - Len(got[t]))
    ELSE IF pc[t] = "publish" THEN 3
    ELSE IF pc[t] = "serve" THEN 2
    ELSE IF pc[t] = "idle" THEN 0
    ELSE 1

\* A window that is being fetched is not full yet.
LEMMA CallLeftRange ==
    ASSUME IInv, NEW t \in Task
    PROVE  /\ CallLeft(t) \in 0..(WindowSize + 5)
           /\ pc[t] # "idle" => CallLeft(t) > 0
           /\ pc[t] = "fetch" => CallLeft(t) > 3
<1>1. /\ WindowSize \in Nat /\ got[t] \in Contents /\ Len(got[t]) <= WindowSize
  BY BoundsAssumption DEF IInv, TypeOK, Fits
<1>2. Len(got[t]) \in Nat
  BY <1>1, LenProperties DEF Contents
<1>3. CASE pc[t] = "fetch"
  <2>1. CallLeft(t) = 4 + (WindowSize - Len(got[t]))
    BY <1>3 DEF CallLeft
  <2> DEFINE n == Len(got[t])
  <2>2. n \in Nat /\ n <= WindowSize /\ WindowSize \in Nat
    BY <1>1, <1>2
  <2> HIDE DEF n
  <2>3. 4 + (WindowSize - n) \in 0..(WindowSize + 5) /\ 4 + (WindowSize - n) > 3
    BY <2>2
  <2>4. CallLeft(t) \in 0..(WindowSize + 5) /\ CallLeft(t) > 3 /\ CallLeft(t) > 0
    BY <2>1, <2>3 DEF n
  <2>5. QED
    BY <2>4
<1>4. CASE pc[t] # "fetch"
  <2>1. CallLeft(t) \in {5 + WindowSize, 3, 2, 1} \/ (CallLeft(t) = 0 /\ pc[t] = "idle")
    BY <1>4 DEF CallLeft
  <2>2. QED
    BY <1>1, <1>4, <2>1
<1>5. QED
  BY <1>3, <1>4

\* A round of fill that does not end it makes the window fuller.
LEMMA FetchGoesOn ==
    ASSUME IInv, NEW t \in Task, FetchMore(t)
    PROVE  CallLeft(t)' < CallLeft(t)
<1> DEFINE g == got[t]
           n == Len(g)
           full == FetchLen(start[t])
           more == full - n
<1>1. PICK data \in InnerReads(start[t] + n, more) :
         /\ got' = [got EXCEPT ![t] = @ \o data]
         /\ pc' = [pc EXCEPT ![t] = IF data = <<>> \/ Len(data) = more THEN "publish" ELSE "fetch"]
  BY DEF FetchMore, Goto
<1>2. /\ pc[t] = "fetch" /\ TypeOK /\ pc \in [Task -> Phase] /\ got \in [Task -> Contents]
      /\ start[t] \in Nat /\ WindowSize \in Nat /\ WindowSize > 0 /\ n < full
  BY PhaseType, BoundsAssumption DEF IInv, FetchMore, TypeOK, Fits
<1>3. g \in Contents /\ full \in Nat /\ full <= WindowSize
  BY <1>2, FetchLenFacts
<1>4. n \in Nat
  BY <1>3, LenProperties DEF Contents
<1>5. start[t] + n \in Nat /\ more \in Nat
  BY <1>2, <1>3, <1>4
<1>6. data \in Contents /\ Len(data) <= more
  BY <1>2, <1>5, InnerReadsFacts
<1>7. Len(data) \in Nat /\ (data = <<>> <=> Len(data) = 0)
  BY <1>6, EmptySeq, LenProperties DEF Contents
<1>8. CallLeft(t) = 4 + (WindowSize - n)
  BY <1>2 DEF CallLeft
<1>9. CASE data = <<>> \/ Len(data) = more
  <2>1. CallLeft(t)' = 3
    BY <1>1, <1>2, <1>9 DEF CallLeft
  <2>2. CallLeft(t) \in Int /\ CallLeft(t) > 3
    BY <1>2, <1>3, <1>4, <1>8
  <2>3. QED
    BY <2>1, <2>2
<1>10. CASE ~(data = <<>> \/ Len(data) = more)
  <2>1. pc'[t] = "fetch" /\ got'[t] = g \o data
    BY <1>1, <1>2, <1>10
  <2>2. Len(g \o data) = n + Len(data)
    BY <1>3, <1>6, Joined
  <2>3. CallLeft(t)' = 4 + (WindowSize - (n + Len(data)))
    BY <2>1, <2>2 DEF CallLeft
  <2>4. Len(data) > 0
    BY <1>7, <1>10
  <2> HIDE DEF n
  <2>5. QED
    BY <1>2, <1>4, <1>7, <1>8, <2>3, <2>4
<1>11. QED
  BY <1>9, <1>10

\* A call that ends has nothing left.
LEMMA EndGoesOn ==
    ASSUME IInv, NEW t \in Task, pc[t] # "idle", pc' = [pc EXCEPT ![t] = "idle"]
    PROVE  CallLeft(t)' < CallLeft(t)
<1>1. pc'[t] = "idle"
  BY PhaseType DEF IInv
<1>2. CallLeft(t)' = 0
  BY <1>1 DEF CallLeft
<1>3. CallLeft(t) \in Int /\ CallLeft(t) > 0
  BY CallLeftRange, BoundsAssumption
<1>4. QED
  BY <1>2, <1>3

\* Whatever a task does in its call, less is left of it.
LEMMA ProceedGoesOn ==
    ASSUME IInv, NEW t \in Task, Proceed(t)
    PROVE  CallLeft(t)' < CallLeft(t)
<1>1. pc \in [Task -> Phase] /\ WindowSize \in Nat /\ got[t] \in Contents
  BY PhaseType, BoundsAssumption DEF IInv, TypeOK
<1>2. Len(got[t]) \in Nat
  BY <1>1, LenProperties DEF Contents
<1>3. CASE DecideFetch(t)
  <2>1. pc[t] = "miss" /\ pc'[t] \in {"through", "fetch"} /\ got' = got
    BY <1>1, <1>3 DEF DecideFetch, Goto
  <2>2. CallLeft(t) = 5 + WindowSize
    BY <2>1 DEF CallLeft
  <2>3. CallLeft(t)' \in {1, 4 + (WindowSize - Len(got[t]))}
    BY <2>1 DEF CallLeft
  <2> DEFINE n == Len(got[t])
  <2>4. n \in Nat /\ WindowSize \in Nat
    BY <1>1, <1>2
  <2>5. CallLeft(t)' \in {1, 4 + (WindowSize - n)}
    BY <2>3
  <2> HIDE DEF n
  <2>6. \A left \in {1, 4 + (WindowSize - n)} : left < 5 + WindowSize
    BY <2>4
  <2>7. QED
    BY <2>2, <2>5, <2>6
<1>4. CASE FetchMore(t)
  BY <1>4, FetchGoesOn
<1>5. CASE Publish(t)
  <2>1. pc[t] = "publish" /\ pc'[t] = "serve"
    BY <1>1, <1>5 DEF Publish, Goto
  <2>2. CallLeft(t) = 3 /\ CallLeft(t)' = 2
    BY <2>1 DEF CallLeft
  <2>3. QED
    BY <2>2
<1>6. CASE Serve(t) /\ pc' = [pc EXCEPT ![t] = "fallback"]
  <2>1. pc[t] = "serve" /\ pc'[t] = "fallback"
    BY <1>1, <1>6 DEF Serve
  <2>2. CallLeft(t) = 2 /\ CallLeft(t)' = 1
    BY <2>1 DEF CallLeft
  <2>3. QED
    BY <2>2
<1>7. CASE Serve(t) /\ pc' = [pc EXCEPT ![t] = "idle"]
  <2>1. pc[t] # "idle"
    BY <1>7 DEF Serve
  <2>2. QED
    BY <1>7, <2>1, EndGoesOn
<1>8. CASE ReadThrough(t) \/ Fallback(t) \/ ReadFails(t)
  <2>1. pc[t] # "idle" /\ pc' = [pc EXCEPT ![t] = "idle"]
    BY <1>8 DEF ReadThrough, Fallback, ReadFails, Return, Fail, Done, Goto
  <2>2. QED
    BY <2>1, EndGoesOn
<1>9. CASE Invalidate(t) \/ Close(t)
  <2>1. pc[t] # "idle" /\ pc' = [pc EXCEPT ![t] = "idle"]
    BY <1>9 DEF Invalidate, Close, Goto
  <2>2. QED
    BY <2>1, EndGoesOn
<1>10. QED
  <2>1. Serve(t) => pc' = [pc EXCEPT ![t] = "fallback"] \/ pc' = [pc EXCEPT ![t] = "idle"]
    BY DEF Serve, Return, Done, Goto
  <2>2. QED
    BY <1>3, <1>4, <1>5, <1>6, <1>7, <1>8, <1>9, <2>1 DEF Proceed

\* What one task does is nothing to the call of another.
LEMMA OthersAreApart ==
    ASSUME IInv, NEW t \in Task, NEW u \in Task, t # u,
           \/ Proceed(u) \/ Write(u) \/ WriteFails(u) \/ BeginClose(u)
           \/ \E o \in 0..MaxLen, n \in 1..MaxWant : BeginRead(u, o, n)
    PROVE  CallLeft(t)' = CallLeft(t)
<1>1. pc \in [Task -> Phase] /\ got \in [Task -> Contents]
  BY PhaseType DEF IInv, TypeOK
<1>2. pc'[t] = pc[t] /\ got'[t] = got[t]
  <2>1. CASE \E o \in 0..MaxLen, n \in 1..MaxWant : BeginRead(u, o, n)
    BY <1>1, <2>1 DEF BeginRead, Done, Goto
  <2>2. CASE Write(u) \/ WriteFails(u) \/ BeginClose(u) \/ Invalidate(u) \/ Close(u)
    BY <1>1, <2>2 DEF Write, WriteFails, BeginClose, Invalidate, Close, Goto, call
  <2>3. CASE DecideFetch(u) \/ Publish(u)
    BY <1>1, <2>3 DEF DecideFetch, Publish, Goto, call
  <2>4. CASE FetchMore(u)
    BY <1>1, <2>4 DEF FetchMore, Goto
  <2>5. CASE Serve(u)
    BY <1>1, <2>5 DEF Serve, Return, Done, Goto, call
  <2>6. CASE ReadThrough(u) \/ Fallback(u) \/ ReadFails(u)
    BY <1>1, <2>6 DEF ReadThrough, Fallback, ReadFails, Return, Fail, Done, Goto
  <2>7. QED
    BY <2>1, <2>2, <2>3, <2>4, <2>5, <2>6 DEF Proceed
<1>3. QED
  BY <1>2 DEF CallLeft

\* Every call ends after at most window_size + 5 steps of its own, however short the reads
\* and however wrong the reported length: each brings its end nearer, and nothing that
\* other tasks do to the window or the file takes it further away.
THEOREM CallsAreFinite ==
    Spec => /\ [](\A t \in Task : CallLeft(t) \in 0..(WindowSize + 5))
            /\ [][\A t \in Task : pc[t] # "idle" =>
                     IF Proceed(t) THEN CallLeft(t)' < CallLeft(t) ELSE CallLeft(t)' = CallLeft(t)]_vars
<1> DEFINE Nearer == \A t \in Task : pc[t] # "idle" =>
                        IF Proceed(t) THEN CallLeft(t)' < CallLeft(t) ELSE CallLeft(t)' = CallLeft(t)
<1>1. IInv => \A t \in Task : CallLeft(t) \in 0..(WindowSize + 5)
  BY CallLeftRange
<1>2. IInv /\ [Next]_vars => [Nearer]_vars
  <2> SUFFICES ASSUME IInv, Next PROVE Nearer
    OBVIOUS
  <2> SUFFICES ASSUME NEW t \in Task, pc[t] # "idle"
               PROVE  IF Proceed(t) THEN CallLeft(t)' < CallLeft(t) ELSE CallLeft(t)' = CallLeft(t)
    OBVIOUS
  <2>1. CASE Proceed(t)
    BY <2>1, ProceedGoesOn
  <2>2. CASE ~Proceed(t)
    <3>1. PICK u \in Task :
             \/ Proceed(u) \/ Write(u) \/ WriteFails(u) \/ BeginClose(u)
             \/ \E o \in 0..MaxLen, n \in 1..MaxWant : BeginRead(u, o, n)
      BY DEF Next
    <3>2. u # t
      BY <2>2, <3>1 DEF Write, WriteFails, BeginClose, BeginRead
    <3>3. CallLeft(t)' = CallLeft(t)
      BY <3>1, <3>2, OthersAreApart
    <3>4. QED
      BY <2>2, <3>3
  <2>3. QED
    BY <2>1, <2>2
<1>3. Spec => [](\A t \in Task : CallLeft(t) \in 0..(WindowSize + 5))
  BY <1>1, InductiveInvariant, PTL
<1> HIDE DEF Nearer
<1>4. Spec => [][Nearer]_vars
  BY <1>2, InductiveInvariant, PTL DEF Spec
<1>5. QED
  BY <1>3, <1>4 DEF Nearer
=============================================================================
