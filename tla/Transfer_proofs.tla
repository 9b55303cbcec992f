--------------------------- MODULE Transfer_proofs ---------------------------
(* Theorems about Transfer, for every buffer, every source and every path. *)
EXTENDS Transfer, SequenceTheorems, FiniteSetTheorems, TLAPS

-----------------------------------------------------------------------------
(* The inductive invariant *)

\* Until the first read nothing is buffered, and the destination is what it was or empty.
NothingMoved == buf = <<>> /\ cursor = 0 /\ offset = 0 /\ dest \in {<<>>, Old}

\* Between the calls of the loops the destination holds what was written, the buffer what
\* comes next, and put's own file has been read as far as the end of the buffer.
Moving ==
    /\ dest = Positions(0, offset)
    /\ buf = Positions(offset, Len(buf))
    /\ offset + Len(buf) <= MaxLen
    /\ cursor = IF job = "put" THEN offset + Len(buf) ELSE 0
    /\ ~disturbed => offset + Len(buf) <= source

\* How far the block has come, and what it has opened by then.
Progress ==
    /\ pc \in {"call", "print", "source", "open"} => NothingMoved /\ handle = "none"
    /\ pc \in {"call", "print"} => job \in {"ask", "change"}
    /\ pc \in {"source", "open", "create", "read", "write", "flush", "close"} => job \in {"get", "put"}
    /\ pc = "open" /\ job = "put" => input
    /\ pc = "create" => job = "get" /\ NothingMoved
    /\ pc \in {"create", "read", "write", "flush", "close"} => input /\ handle = "open"
    /\ pc \in {"read", "write", "flush", "close"} => Moving
    /\ pc = "read" /\ job = "get" => buf = <<>>
    /\ pc = "write" => buf # <<>>
    /\ pc \in {"flush", "close"} => buf = <<>> /\ (~disturbed => offset = source)

\* The block ends with an outcome, and finish makes its own of it.
Ending ==
    /\ work = "none" <=> pc \notin {"drop", "shutdown", "done"}
    /\ work = "ok" /\ job \in {"get", "put"} /\ ~disturbed => dest = Positions(0, source)
    /\ pc \in {"shutdown", "done"} => handle # "open"
    /\ IF pc = "done"
       THEN session = "down" /\ (outcome = "ok" => work = "ok")
       ELSE session = "up" /\ outcome = "none"

IInv == TypeOK /\ EachByteInPlace /\ Progress /\ Ending

-----------------------------------------------------------------------------
(* Stretches of the source *)

\* A stretch of the source is a sequence of positions that follow each other.
LEMMA PositionsType ==
    ASSUME NEW from \in Nat, NEW n \in Nat
    PROVE  /\ Positions(from, n) \in Seq(Nat)
           /\ Len(Positions(from, n)) = n
           /\ \A i \in 1..n : Positions(from, n)[i] = from + i
           /\ \A m \in Nat : from + n <= m => Positions(from, n) \in Seq(1..m)
  BY DEF Positions

\* Nothing moved is a stretch of no length.
LEMMA StartsEmpty == \A from \in Nat : Positions(from, 0) = <<>>
<1>1. ASSUME NEW from \in Nat PROVE Positions(from, 0) = <<>>
  <2>1. Positions(from, 0) \in Seq(Nat) /\ Len(Positions(from, 0)) = 0
    BY PositionsType
  <2>2. QED
    BY <2>1
<1>2. QED
  BY <1>1

\* What is read next continues what has been read.
LEMMA PositionsJoin ==
    ASSUME NEW from \in Nat, NEW m \in Nat, NEW n \in Nat
    PROVE  Positions(from, m) \o Positions(from + m, n) = Positions(from, m + n)
<1> DEFINE left == Positions(from, m)
           right == Positions(from + m, n)
           all == Positions(from, m + n)
<1>1. from + m \in Nat /\ m + n \in Nat
  OBVIOUS
<1>2. left \in Seq(Nat) /\ Len(left) = m /\ \A i \in 1..m : left[i] = from + i
  BY PositionsType
<1>3. right \in Seq(Nat) /\ Len(right) = n /\ \A i \in 1..n : right[i] = (from + m) + i
  BY <1>1, PositionsType
<1>4. all \in Seq(Nat) /\ Len(all) = m + n /\ \A i \in 1..(m + n) : all[i] = from + i
  BY <1>1, PositionsType
<1> HIDE DEF left, right, all
<1> DEFINE both == left \o right
<1> HIDE DEF both
<1>5. /\ both \in Seq(Nat) /\ Len(both) = m + n
      /\ \A i \in 1..(m + n) : both[i] = IF i <= m THEN left[i] ELSE right[i - m]
  BY <1>2, <1>3, ConcatProperties DEF both
<1>6. ASSUME NEW i \in 1..(m + n) PROVE both[i] = all[i]
  <2>1. CASE i <= m
    BY <1>2, <1>4, <1>5, <2>1
  <2>2. CASE i > m
    <3>1. i - m \in 1..n /\ ~(i <= m)
      BY <2>2
    <3>2. right[i - m] = (from + m) + (i - m)
      BY <1>3, <3>1
    <3>3. both[i] = right[i - m]
      BY <1>5, <3>1
    <3>4. all[i] = from + i
      BY <1>4
    <3>5. i \in Int /\ (from + m) + (i - m) = from + i
      BY <1>2
    <3>6. QED
      BY <3>2, <3>3, <3>4, <3>5
  <2>3. QED
    BY <2>1, <2>2
<1>7. both = all
  BY <1>4, <1>5, <1>6, SeqEqual
<1>8. QED
  BY <1>7 DEF both, left, right, all

\* A write of the first k bytes of the buffer leaves the stretch that follows them.
LEMMA PositionsCut ==
    ASSUME NEW from \in Nat, NEW n \in Nat, NEW k \in 0..n
    PROVE  /\ SubSeq(Positions(from, n), 1, k) = Positions(from, k)
           /\ SubSeq(Positions(from, n), k + 1, n) = Positions(from + k, n - k)
<1> DEFINE all == Positions(from, n)
           first == SubSeq(all, 1, k)
           rest == SubSeq(all, k + 1, n)
<1>1. all \in Seq(Nat) /\ Len(all) = n /\ \A i \in 1..n : all[i] = from + i
  BY PositionsType
<1> HIDE DEF all
<1>2. /\ first \in Seq(Nat) /\ Len(first) = k /\ \A i \in 1..k : first[i] = all[i]
      /\ rest \in Seq(Nat) /\ Len(rest) = n - k /\ \A i \in 1..(n - k) : rest[i] = all[k + i]
  BY <1>1
<1>a. k \in Nat /\ from + k \in Nat /\ n - k \in Nat
  OBVIOUS
<1>3. /\ Positions(from, k) \in Seq(Nat) /\ Len(Positions(from, k)) = k
      /\ \A i \in 1..k : Positions(from, k)[i] = from + i
      /\ Positions(from + k, n - k) \in Seq(Nat) /\ Len(Positions(from + k, n - k)) = n - k
      /\ \A i \in 1..(n - k) : Positions(from + k, n - k)[i] = (from + k) + i
  BY <1>a, PositionsType
<1>4. first = Positions(from, k)
  <2>1. \A i \in 1..k : first[i] = Positions(from, k)[i]
    BY <1>1, <1>2, <1>3
  <2>2. QED
    BY <1>2, <1>3, <2>1
<1>5. rest = Positions(from + k, n - k)
  <2>1. \A i \in 1..(n - k) : rest[i] = Positions(from + k, n - k)[i]
    BY <1>1, <1>2, <1>3
  <2>2. QED
    BY <1>2, <1>3, <2>1
<1>6. QED
  BY <1>4, <1>5 DEF all

\* A write at the end of the destination puts its bytes after those that are there.
LEMMA PlacedAtTheEnd ==
    ASSUME NEW k \in Nat, offset \in Nat, dest = Positions(0, offset)
    PROVE  Placed(Positions(offset, k), offset) = Positions(0, offset + k)
<1> DEFINE data == Positions(offset, k)
<1>1. Len(dest) = offset /\ \A i \in 1..offset : dest[i] = i
  <2>1. Len(Positions(0, offset)) = offset /\ \A i \in 1..offset : Positions(0, offset)[i] = 0 + i
    BY PositionsType
  <2>2. QED
    BY <2>1
<1>a. Len(data) = k /\ \A i \in 1..k : data[i] = offset + i
  BY PositionsType
<1> HIDE DEF data
<1>2. Placed(data, offset) =
        [i \in 1..(offset + k) |-> IF i > offset /\ i <= offset + k THEN data[i - offset]
                                  ELSE IF i <= offset THEN dest[i] ELSE 0]
  <2>1. (IF offset > offset + k THEN offset ELSE offset + k) = offset + k
    OBVIOUS
  <2>2. QED
    BY <1>1, <1>a, <2>1 DEF Placed
<1>3. ASSUME NEW i \in 1..(offset + k)
      PROVE  (IF i > offset /\ i <= offset + k THEN data[i - offset]
              ELSE IF i <= offset THEN dest[i] ELSE 0) = 0 + i
  <2>1. CASE i > offset
    <3>1. i - offset \in 1..k
      BY <2>1
    <3>2. data[i - offset] = offset + (i - offset)
      BY <1>a, <3>1
    <3>3. QED
      BY <2>1, <3>1, <3>2
  <2>2. CASE ~(i > offset)
    BY <1>1, <2>2
  <2>3. QED
    BY <2>1, <2>2
<1>4. Placed(data, offset) = Positions(0, offset + k)
  BY <1>2, <1>3 DEF Positions
<1>5. QED
  BY <1>4 DEF data

-----------------------------------------------------------------------------
(* The invariant holds *)

\* It holds before the first call.
LEMMA InitInvariant == Init => IInv
<1> SUFFICES ASSUME Init PROVE IInv
  OBVIOUS
<1>1. TypeOK
  <2>1. 0 \in 0..MaxLen /\ <<>> \in Seq(1..MaxLen) /\ Len(<<>>) <= BufLen
    BY BufLenAssumption
  <2>2. <<>> \in Seq(0..MaxLen) /\ Old \in Seq(0..MaxLen)
    BY <2>1 DEF Old
  <2>3. dest \in Seq(0..MaxLen) /\ source \in 0..MaxLen
    BY <2>1, <2>2 DEF Init
  <2>4. /\ asked \subseteq {Place.segments} /\ {disturbed, input} \subseteq BOOLEAN
        /\ buf \in Seq(1..MaxLen) /\ Len(buf) <= BufLen
        /\ cursor \in 0..MaxLen /\ offset \in 0..MaxLen
    BY <2>1 DEF Init
  <2>5. QED
    BY <2>3, <2>4 DEF Init, TypeOK
<1>2. EachByteInPlace /\ Progress /\ Ending
  BY DEF Init, EachByteInPlace, Progress, Ending, NothingMoved
<1>3. QED
  BY <1>1, <1>2 DEF IInv

\* The numbers and the buffer of the type invariant, as the arithmetic needs them.
LEMMA NumbersType ==
    TypeOK => /\ BufLen \in Nat \ {0} /\ MaxLen \in Nat
              /\ offset \in Nat /\ offset <= MaxLen /\ cursor \in Nat /\ cursor <= MaxLen
              /\ source \in 0..MaxLen
              /\ buf \in Seq(1..MaxLen) /\ Len(buf) \in Nat /\ Len(buf) <= BufLen
<1> SUFFICES ASSUME TypeOK
             PROVE  /\ BufLen \in Nat \ {0} /\ MaxLen \in Nat
                    /\ offset \in Nat /\ offset <= MaxLen /\ cursor \in Nat /\ cursor <= MaxLen
                    /\ source \in 0..MaxLen
                    /\ buf \in Seq(1..MaxLen) /\ Len(buf) \in Nat /\ Len(buf) <= BufLen
  OBVIOUS
<1>1. /\ buf \in Seq(1..MaxLen) /\ Len(buf) <= BufLen
      /\ offset \in 0..MaxLen /\ cursor \in 0..MaxLen /\ source \in 0..MaxLen
  BY DEF TypeOK
<1>2. offset \in Nat /\ offset <= MaxLen /\ cursor \in Nat /\ cursor <= MaxLen
  BY <1>1, BufLenAssumption
<1>3. Len(buf) \in Nat
  BY <1>1, LenProperties
<1>4. QED
  BY <1>1, <1>2, <1>3, BufLenAssumption

\* A read brings the stretch of the source that follows what is buffered, or tells that
\* there is no more.
LEMMA ReadKeepsInvariant == IInv /\ ReadSome => IInv'
<1> SUFFICES ASSUME IInv, ReadSome PROVE IInv'
  OBVIOUS
<1>a. /\ BufLen \in Nat \ {0} /\ MaxLen \in Nat /\ offset \in Nat /\ cursor \in Nat
      /\ source \in 0..MaxLen /\ buf \in Seq(1..MaxLen) /\ Len(buf) \in Nat /\ Len(buf) <= BufLen
  BY NumbersType DEF IInv
<1>b. /\ pc = "read" /\ job \in {"get", "put"} /\ input /\ handle = "open" /\ Moving
      /\ job = "get" => buf = <<>>
  BY DEF IInv, Progress, ReadSome
<1>c. At = offset + Len(buf)
  BY <1>a, <1>b DEF At, Moving
<1>1. CASE source <= At \/ Len(buf) = BufLen
  <2>1. pc' = (IF buf = <<>> THEN "flush" ELSE "write") /\ UNCHANGED <<buf, cursor>>
    BY <1>1 DEF ReadSome
  <2>2. TypeOK'
    BY <2>1 DEF IInv, TypeOK, ReadSome, Place, command, world
  <2>3. Moving'
    BY <1>a, <1>b, <1>c, <2>1 DEF Moving, ReadSome, Positions, command, world
  <2>4. Progress'
    BY <1>a, <1>b, <1>c, <1>1, <2>1, <2>3 DEF Progress, Moving, ReadSome, command, world
  <2>5. EachByteInPlace' /\ Ending'
    BY <2>1 DEF IInv, EachByteInPlace, Ending, ReadSome, Positions, command, world
  <2>6. QED
    BY <2>2, <2>4, <2>5 DEF IInv
<1>2. CASE ~(source <= At \/ Len(buf) = BufLen)
  <2>1. PICK k \in 1..Least(source - At, BufLen - Len(buf)) :
           /\ buf' = buf \o Positions(At, k)
           /\ cursor' = IF job = "put" THEN cursor + k ELSE cursor
           /\ pc' = IF job = "get" THEN "write" ELSE "read"
    BY <1>2 DEF ReadSome
  <2>2. k \in Nat \ {0} /\ At \in Nat /\ At + k <= source /\ Len(buf) + k <= BufLen
    BY <1>a, <1>b, <1>c, <1>2 DEF Least
  <2>3. Positions(At, k) \in Seq(1..MaxLen) /\ Len(Positions(At, k)) = k
    <3>1. At + k <= MaxLen
      BY <1>a, <1>b, <1>c, <2>2
    <3>2. QED
      BY <1>a, <1>b, <1>c, <2>2, <3>1, PositionsType
  <2>4. buf' \in Seq(1..MaxLen) /\ Len(buf') = Len(buf) + k
    <3> DEFINE more == Positions(At, k)
    <3>1. more \in Seq(1..MaxLen) /\ Len(more) = k /\ buf' = buf \o more
      BY <2>1, <2>3
    <3> HIDE DEF more
    <3>2. QED
      BY <1>a, <3>1, ConcatProperties
  <2>5. buf' = Positions(offset, Len(buf'))
    <3>1. buf' = Positions(offset, Len(buf)) \o Positions(offset + Len(buf), k)
      BY <1>a, <1>b, <1>c, <2>1 DEF Moving
    <3>2. Positions(offset, Len(buf)) \o Positions(offset + Len(buf), k)
            = Positions(offset, Len(buf) + k)
      BY <1>a, <2>2, PositionsJoin
    <3>3. QED
      BY <2>4, <3>1, <3>2
  <2>6. cursor' \in 0..MaxLen /\ cursor' = IF job = "put" THEN offset + Len(buf') ELSE 0
    <3>1. CASE job = "get"
      BY <1>a, <1>b, <2>1, <3>1 DEF Moving
    <3>2. CASE job = "put"
      <4>1. cursor = offset + Len(buf) /\ cursor' = cursor + k
        BY <1>b, <2>1, <3>2 DEF Moving
      <4>2. At + k <= MaxLen
        BY <1>a, <2>2
      <4>3. QED
        BY <1>a, <1>c, <2>2, <2>4, <3>2, <4>1, <4>2
    <3>3. QED
      BY <1>b, <3>1, <3>2
  <2>7. TypeOK'
    BY <1>a, <1>b, <1>c, <2>1, <2>2, <2>4, <2>6 DEF IInv, TypeOK, ReadSome, Place, command, world
  <2>8. UNCHANGED <<job, dest, offset, source, disturbed>>
    BY DEF ReadSome, command, world
  <2>9. Moving'
    <3>1. offset + Len(buf') <= source
      BY <1>a, <1>b, <1>c, <2>2, <2>4
    <3>2. dest' = Positions(0, offset')
      BY <1>a, <1>b, <1>c, <2>8 DEF Moving
    <3>3. QED
      BY <1>a, <1>b, <1>c, <2>5, <2>6, <2>8, <3>1, <3>2 DEF Moving
  <2>10. Progress'
    <3>1. buf' # <<>>
      BY <2>2, <2>4, <1>a, <1>b
    <3>2. QED
      BY <1>a, <1>b, <1>c, <2>1, <2>8, <2>9, <3>1 DEF Progress, ReadSome
  <2>11. EachByteInPlace' /\ Ending'
    BY <2>1 DEF IInv, EachByteInPlace, Ending, ReadSome, Positions, command, world
  <2>12. QED
    BY <2>7, <2>10, <2>11 DEF IInv
<1>3. QED
  BY <1>1, <1>2

\* Whatever part of the buffer is written, the destination is the source's bytes so far.
LEMMA WrittenInPlace ==
    ASSUME TypeOK, Moving, NEW k \in 0..Len(buf), dest' = Placed(SubSeq(buf, 1, k), offset)
    PROVE  dest' = Positions(0, offset + k) /\ dest' \in Seq(0..MaxLen) /\ Len(dest') = offset + k
<1>1. MaxLen \in Nat /\ offset \in Nat /\ Len(buf) \in Nat /\ k \in Nat
  BY NumbersType
<1>2. SubSeq(buf, 1, k) = Positions(offset, k)
  <2>1. SubSeq(Positions(offset, Len(buf)), 1, k) = Positions(offset, k)
    BY <1>1, PositionsCut
  <2>2. QED
    BY <2>1 DEF Moving
<1>3. dest' = Positions(0, offset + k)
  <2>1. Placed(Positions(offset, k), offset) = Positions(0, offset + k)
    BY <1>1, PlacedAtTheEnd DEF Moving
  <2>2. QED
    BY <1>2, <2>1
<1>4. 0 + (offset + k) <= MaxLen /\ offset + k \in Nat
  BY <1>1 DEF Moving
<1>5. Positions(0, offset + k) \in Seq(1..MaxLen) /\ Len(Positions(0, offset + k)) = offset + k
  BY <1>1, <1>4, PositionsType
<1>6. Positions(0, offset + k) \in Seq(0..MaxLen)
  <2>1. 1..MaxLen \subseteq 0..MaxLen
    BY <1>1
  <2>2. QED
    BY <1>5, <2>1, SeqMonotonic
<1>7. QED
  BY <1>3, <1>5, <1>6

\* A write moves the buffer's first bytes, and the rest still follows them.
LEMMA WriteKeepsInvariant == IInv /\ WriteSome => IInv'
<1> SUFFICES ASSUME IInv, WriteSome PROVE IInv'
  OBVIOUS
<1>1. /\ TypeOK /\ Moving /\ Ending /\ EachByteInPlace
      /\ pc = "write" /\ job \in {"get", "put"} /\ input /\ handle = "open"
  BY DEF IInv, Progress, WriteSome
<1>2. PICK k \in 1..Len(buf) :
         /\ job = "get" => k = Len(buf)
         /\ dest' = Placed(SubSeq(buf, 1, k), offset)
         /\ buf' = SubSeq(buf, k + 1, Len(buf))
         /\ offset' = offset + k
         /\ pc' = IF k = Len(buf) THEN "read" ELSE "write"
  BY DEF WriteSome
<1>3. /\ MaxLen \in Nat /\ offset \in Nat /\ Len(buf) \in Nat /\ Len(buf) <= BufLen /\ BufLen \in Nat
      /\ k \in 1..Len(buf) /\ k \in 0..Len(buf) /\ k \in Nat /\ source \in 0..MaxLen
      /\ offset + k \in Nat /\ Len(buf) - k \in Nat
  BY <1>1, NumbersType
<1>4. dest' = Positions(0, offset') /\ dest' \in Seq(0..MaxLen) /\ Len(dest') = offset'
  BY <1>1, <1>2, <1>3, WrittenInPlace
<1>5. buf' = Positions(offset', Len(buf) - k)
  <2>1. SubSeq(Positions(offset, Len(buf)), k + 1, Len(buf)) = Positions(offset + k, Len(buf) - k)
    BY <1>3, PositionsCut
  <2>2. QED
    BY <1>1, <1>2, <2>1 DEF Moving
<1>6. Len(buf') = Len(buf) - k /\ buf' \in Seq(1..MaxLen)
  <2> DEFINE rest == Len(buf) - k
  <2>1. rest \in Nat /\ offset' \in Nat /\ offset' + rest <= MaxLen
    BY <1>1, <1>2, <1>3 DEF Moving
  <2>2. buf' = Positions(offset', rest)
    BY <1>5
  <2> HIDE DEF rest
  <2>3. Positions(offset', rest) \in Seq(1..MaxLen) /\ Len(Positions(offset', rest)) = rest
    BY <1>3, <2>1, PositionsType
  <2>4. Len(buf') = rest /\ buf' \in Seq(1..MaxLen)
    BY <2>2, <2>3
  <2>5. QED
    BY <2>4 DEF rest
<1>7. UNCHANGED <<job, arg, asked, source, disturbed, input, handle, session, cursor, work, outcome>>
  BY DEF WriteSome, command, world
<1>8. offset' + Len(buf') = offset + Len(buf) /\ offset' \in 0..MaxLen /\ Len(buf') <= BufLen
  <2>1. offset + Len(buf) <= MaxLen
    BY <1>1 DEF Moving
  <2>2. offset' = offset + k /\ Len(buf') = Len(buf) - k
    BY <1>2, <1>6
  <2>3. QED
    BY <1>3, <2>1, <2>2
<1>9. TypeOK'
  BY <1>1, <1>2, <1>4, <1>6, <1>7, <1>8 DEF TypeOK, Place
<1>10. Moving'
  BY <1>1, <1>4, <1>5, <1>6, <1>7, <1>8 DEF Moving
<1>11. Progress'
  <2>1. k = Len(buf) => buf' = <<>>
    BY <1>3, <1>6
  <2>2. k # Len(buf) => buf' # <<>> /\ job = "put"
    <3>1. k # Len(buf) => Len(buf') # 0
      BY <1>3, <1>6
    <3>2. k # Len(buf) => job = "put"
      BY <1>1, <1>2
    <3>3. QED
      BY <3>1, <3>2
  <2>3. QED
    BY <1>1, <1>2, <1>7, <1>10, <2>1, <2>2 DEF Progress
<1>12. EachByteInPlace' /\ Ending'
  BY <1>1, <1>2, <1>4, <1>7 DEF EachByteInPlace, Ending
<1>13. QED
  BY <1>9, <1>11, <1>12 DEF IInv

\* A call that fails leaves the destination with the bytes that reached it.
LEMMA FailKeepsInvariant == IInv /\ Fail => IInv'
<1> SUFFICES ASSUME IInv, Fail PROVE IInv'
  OBVIOUS
<1>1. /\ TypeOK /\ Progress /\ Ending /\ EachByteInPlace
      /\ handle' = (IF pc = "close" THEN "closed" ELSE handle) /\ work' = "failed" /\ pc' = "drop"
      /\ UNCHANGED <<job, arg, asked, source, disturbed, input, session, buf, cursor, offset, outcome>>
      /\ session = "up" /\ outcome = "none"
  BY DEF IInv, Fail, command, world, loop, Ending
<1>2. dest' \in Seq(0..MaxLen) /\ EachByteInPlace'
  <2>1. CASE pc = "write" /\ \E k \in 0..Len(buf) : dest' = Placed(SubSeq(buf, 1, k), offset)
    <3>1. Moving
      BY <1>1, <2>1 DEF Progress
    <3>2. PICK k \in 0..Len(buf) : dest' = Placed(SubSeq(buf, 1, k), offset)
      BY <2>1
    <3>3. dest' = Positions(0, offset + k) /\ dest' \in Seq(0..MaxLen) /\ Len(dest') = offset + k
      BY <1>1, <3>1, <3>2, WrittenInPlace
    <3>4. QED
      BY <3>3 DEF EachByteInPlace
  <2>2. CASE dest' = <<>>
    BY <2>2 DEF EachByteInPlace
  <2>3. CASE UNCHANGED dest
    BY <1>1, <2>3 DEF TypeOK, EachByteInPlace
  <2>4. QED
    BY <2>1, <2>2, <2>3 DEF Fail
<1>3. TypeOK'
  BY <1>1, <1>2 DEF TypeOK, Place
<1>4. Progress' /\ Ending'
  BY <1>1 DEF Progress, Ending
<1>5. QED
  BY <1>2, <1>3, <1>4 DEF IInv

\* The loop begins with nothing moved into an empty destination.
LEMMA LoopBegins ==
    ASSUME TypeOK, NothingMoved, dest' = <<>>, UNCHANGED <<job, source, disturbed, buf, cursor, offset>>
    PROVE  Moving' /\ dest' \in Seq(0..MaxLen)
<1>1. buf' = <<>> /\ Len(buf') = 0 /\ cursor' = 0 /\ offset' = 0
  BY DEF NothingMoved
<1>2. dest' = Positions(0, offset') /\ buf' = Positions(offset', Len(buf'))
  BY <1>1, StartsEmpty
<1>3. source' \in Nat /\ MaxLen \in Nat
  BY NumbersType
<1>4. QED
  BY <1>1, <1>2, <1>3 DEF Moving

\* Every step keeps it.
LEMMA NextInvariant == IInv /\ [Next]_vars => IInv'
<1> SUFFICES ASSUME IInv, [Next]_vars PROVE IInv'
  OBVIOUS
<1>0. TypeOK /\ EachByteInPlace /\ Progress /\ Ending
  BY DEF IInv
<1> USE <1>0 DEF IInv, command, world, loop
<1>1. CASE Refused
  <2>1. TypeOK'
    BY <1>1 DEF Refused, TypeOK, Place
  <2>2. Progress' /\ Ending' /\ EachByteInPlace'
    BY <1>1 DEF Refused, Progress, Ending, EachByteInPlace
  <2>3. QED
    BY <2>1, <2>2
<1>2. CASE Change
  <2>1. TypeOK'
    BY <1>2 DEF Change, TypeOK, Place
  <2>2. Progress' /\ Ending' /\ EachByteInPlace'
    BY <1>2 DEF Change, Progress, Ending, EachByteInPlace
  <2>3. QED
    BY <2>1, <2>2
<1>3. CASE Ask
  <2>1. TypeOK'
    BY <1>3 DEF Ask, TypeOK, Place
  <2>2. Progress' /\ Ending' /\ EachByteInPlace'
    BY <1>3 DEF Ask, Progress, Ending, EachByteInPlace, NothingMoved
  <2>3. QED
    BY <2>1, <2>2
<1>4. CASE Show
  <2>1. TypeOK'
    BY <1>4 DEF Show, TypeOK, Place
  <2>2. Progress' /\ Ending' /\ EachByteInPlace'
    BY <1>4 DEF Show, Progress, Ending, EachByteInPlace
  <2>3. QED
    BY <2>1, <2>2
<1>5. CASE CheckSource
  <2>1. TypeOK'
    BY <1>5 DEF CheckSource, TypeOK, Place
  <2>2. Progress'
    BY <1>5 DEF CheckSource, Progress, NothingMoved
  <2>3. Ending' /\ EachByteInPlace'
    BY <1>5 DEF CheckSource, Ending, EachByteInPlace
  <2>4. QED
    BY <2>1, <2>2, <2>3
<1>6. CASE OpenHandle
  <2>1. dest' \in {<<>>, dest} /\ dest \in {<<>>, Old}
    BY <1>6 DEF OpenHandle, Progress, NothingMoved
  <2>2. TypeOK'
    <3>1. dest' \in Seq(0..MaxLen)
      <4>1. dest \in Seq(0..MaxLen)
        BY DEF TypeOK
      <4>2. <<>> \in Seq(0..MaxLen)
        BY EmptySeq
      <4>3. QED
        BY <2>1, <4>1, <4>2
    <3>2. QED
      BY <1>6, <3>1 DEF OpenHandle, TypeOK, Place
  <2>3. Progress'
    <3>1. job = "put" => Moving'
      BY <1>6, LoopBegins DEF OpenHandle, Progress
    <3>2. QED
      BY <1>6, <3>1 DEF OpenHandle, Progress, NothingMoved
  <2>4. Ending' /\ EachByteInPlace'
    BY <1>6, <2>1 DEF OpenHandle, Ending, EachByteInPlace
  <2>5. QED
    BY <2>2, <2>3, <2>4
<1>7. CASE CreateDest
  <2>1. TypeOK'
    BY <1>7, LoopBegins DEF Progress, CreateDest, TypeOK, Place
  <2>2. Progress'
    <3>1. Moving'
      BY <1>7, LoopBegins DEF CreateDest, Progress
    <3>2. QED
      BY <1>7, <3>1 DEF CreateDest, Progress, NothingMoved
  <2>3. Ending' /\ EachByteInPlace'
    BY <1>7 DEF CreateDest, Ending, EachByteInPlace
  <2>4. QED
    BY <2>1, <2>2, <2>3
<1>8. CASE ReadSome
  BY <1>8, ReadKeepsInvariant
<1>9. CASE WriteSome
  BY <1>9, WriteKeepsInvariant
<1>10. CASE Flush
  <2>1. TypeOK'
    BY <1>10 DEF Flush, TypeOK, Place
  <2>2. Progress' /\ Ending' /\ EachByteInPlace'
    BY <1>10 DEF Flush, Progress, Ending, EachByteInPlace, Moving
  <2>3. QED
    BY <2>1, <2>2
<1>11. CASE Close
  <2>1. TypeOK'
    BY <1>11 DEF Close, TypeOK, Place
  <2>2. Progress' /\ Ending' /\ EachByteInPlace'
    BY <1>11 DEF Close, Progress, Ending, EachByteInPlace, Moving
  <2>3. QED
    BY <2>1, <2>2
<1>12. CASE Fail
  BY <1>12, FailKeepsInvariant
<1>13. CASE DropHandle
  <2>1. TypeOK'
    BY <1>13 DEF DropHandle, TypeOK, Place
  <2>2. Progress' /\ Ending' /\ EachByteInPlace'
    BY <1>13 DEF DropHandle, Progress, Ending, EachByteInPlace
  <2>3. QED
    BY <2>1, <2>2
<1>14. CASE Finish
  <2>1. TypeOK'
    BY <1>14 DEF Finish, TypeOK, Place
  <2>2. Progress' /\ Ending' /\ EachByteInPlace'
    BY <1>14 DEF Finish, TypeOK, Progress, Ending, EachByteInPlace
  <2>3. QED
    BY <2>1, <2>2
<1>15. CASE Disturb
  <2>1. TypeOK'
    BY <1>15 DEF Disturb, TypeOK, Place
  <2>2. Progress'
    BY <1>15 DEF Disturb, Progress, Moving, NothingMoved
  <2>3. Ending' /\ EachByteInPlace'
    BY <1>15 DEF Disturb, Ending, EachByteInPlace
  <2>4. QED
    BY <2>1, <2>2, <2>3
<1>16. CASE UNCHANGED vars
  <2>1. TypeOK'
    <3>1. Place' = Place
      BY <1>16 DEF vars, command, Place
    <3>2. QED
      BY <1>16, <3>1 DEF vars, TypeOK
  <2>2. Progress'
    BY <1>16 DEF vars, Progress, Moving, NothingMoved
  <2>3. Ending' /\ EachByteInPlace'
    BY <1>16 DEF vars, Ending, EachByteInPlace
  <2>4. QED
    BY <2>1, <2>2, <2>3
<1>17. QED
  BY <1>1, <1>2, <1>3, <1>4, <1>5, <1>6, <1>7, <1>8, <1>9, <1>10, <1>11, <1>12, <1>13, <1>14,
     <1>15, <1>16 DEF Next, Work, Finished

-----------------------------------------------------------------------------
(* The theorems *)

\* The loops' invariant: at every moment the destination, the buffer and the place of the
\* next read are stretches of the source that follow each other, and only an ended block
\* has an outcome.
THEOREM InductiveInvariant == Spec => []IInv
<1>1. Init => IInv
  BY InitInvariant
<1>2. IInv /\ [Next]_vars => IInv'
  BY NextInvariant
<1>3. QED
  BY <1>1, <1>2, PTL DEF Spec

\* The variables of every transfer keep their types: no buffer is ever longer than
\* --chunk, and nothing is read or written past the longest source.
THEOREM TypeCorrect == Spec => []TypeOK
<1>1. IInv => TypeOK
  BY DEF IInv
<1>2. QED
  BY <1>1, InductiveInvariant, PTL

\* However get and put end, also over a source that changes while it is read, the
\* destination is what it was or a beginning of the source, each byte in its place.
THEOREM BytesStayInPlace == Spec => []EachByteInPlace
<1>1. IInv => EachByteInPlace
  BY DEF IInv
<1>2. QED
  BY <1>1, InductiveInvariant, PTL

\* A get or put that reports success, of a source nobody changed, has moved all of it.
THEOREM SuccessIsComplete == Spec => []SuccessIsWhole
<1>1. IInv => SuccessIsWhole
  BY DEF IInv, Ending, SuccessIsWhole
<1>2. QED
  BY <1>1, InductiveInvariant, PTL

\* finish leaves neither a session nor a handle, whatever call failed before.
THEOREM EverythingIsClosed == Spec => []NothingLeftOpen
<1>1. IInv => NothingLeftOpen
  BY DEF IInv, Ending, NothingLeftOpen
<1>2. QED
  BY <1>1, InductiveInvariant, PTL

\* No step of get or put touches the destination before its source is open.
THEOREM DestinationWaits == Spec => SourceBeforeDest
<1>1. IInv /\ [Next]_vars => [dest' # dest => input']_vars
  <2> SUFFICES ASSUME IInv, Next, dest' # dest PROVE input'
    BY DEF vars
  <2>1. CASE OpenHandle
    BY <2>1 DEF OpenHandle
  <2>2. CASE CreateDest \/ WriteSome
    BY <2>2 DEF IInv, Progress, CreateDest, WriteSome
  <2>3. CASE Fail
    BY <2>3 DEF IInv, Progress, Fail
  <2>4. dest' = dest \/ OpenHandle \/ CreateDest \/ WriteSome \/ Fail
    BY DEF Next, Work, Finished, Refused, Change, Ask, Show, CheckSource, ReadSome, Flush, Close,
           DropHandle, Finish, Disturb, vars
  <2>5. QED
    BY <2>1, <2>2, <2>3, <2>4
<1>2. QED
  BY <1>1, InductiveInvariant, PTL DEF Spec, SourceBeforeDest

-----------------------------------------------------------------------------
(* Induction.  A statement about every number is proved of the set of the numbers it is    *)
(* true of, which needs no more than that a set of numbers has a least element.            *)

Less == {pair \in Nat \X Nat : pair[1] < pair[2]}

\* A set of numbers has a least element.
LEMMA LeastNumber ==
    ASSUME NEW T \in SUBSET Nat, T # {}
    PROVE  \E x \in T : \A y \in T : x <= y
<1>1. IsWellFoundedOn(Less, Nat)
  BY NatLessThanWellFounded DEF OpToRel, Less
<1>2. \E x \in T : \A y \in T : <<y, x>> \notin Less
  BY <1>1, WFMin
<1>3. PICK x \in T : \A y \in T : <<y, x>> \notin Less
  BY <1>2
<1>4. ASSUME NEW y \in T PROVE x <= y
  <2>1. x \in Nat /\ y \in Nat /\ <<y, x>> \notin Less
    BY <1>3
  <2>2. ~(y < x)
    BY <2>1 DEF Less
  <2>3. QED
    BY <2>1, <2>2
<1>5. QED
  BY <1>4

\* What holds of 0 and, with a number, of the next holds of all.
LEMMA Induction ==
    ASSUME NEW S, 0 \in S, \A n \in Nat : n \in S => n + 1 \in S
    PROVE  \A n \in Nat : n \in S
<1>1. SUFFICES ASSUME Nat \ S # {} PROVE FALSE
  OBVIOUS
<1>2. PICK x \in Nat \ S : \A y \in Nat \ S : x <= y
  BY <1>1, LeastNumber
<1>3. x - 1 \in Nat /\ ~(x <= x - 1)
  BY <1>2
<1>4. x - 1 \in S
  BY <1>2, <1>3
<1>5. QED
  BY <1>2, <1>3, <1>4

-----------------------------------------------------------------------------
(* The ends of sequences *)

\* A sequence less its last element.
LEMMA ShorterSeq ==
    ASSUME NEW S, NEW seq \in Seq(S), Len(seq) # 0
    PROVE  /\ SubSeq(seq, 1, Len(seq) - 1) \in Seq(S)
           /\ Len(SubSeq(seq, 1, Len(seq) - 1)) = Len(seq) - 1
           /\ \A i \in 1..(Len(seq) - 1) : SubSeq(seq, 1, Len(seq) - 1)[i] = seq[i]
<1> DEFINE n == Len(seq) - 1
           short == SubSeq(seq, 1, n)
<1>1. n \in Nat /\ Len(seq) = n + 1
  BY LenProperties
<1> HIDE DEF n
<1>2. \A i \in 1..n : i \in 1..Len(seq)
  BY <1>1
<1>3. \A i \in 1..n : seq[i] \in S
  BY <1>2, ElementOfSeq
<1>4. 1 \in Int /\ n \in Int
  BY <1>1
<1>5. /\ short \in Seq(S) /\ Len(short) = IF 1 <= n THEN n - 1 + 1 ELSE 0
      /\ \A i \in 1..(n - 1 + 1) : short[i] = seq[1 + i - 1]
  BY <1>3, <1>4, SubSeqProperties
<1>6. (IF 1 <= n THEN n - 1 + 1 ELSE 0) = n /\ n - 1 + 1 = n
  BY <1>1
<1>7. \A i \in 1..n : 1 + i - 1 = i
  OBVIOUS
<1>8. short \in Seq(S) /\ Len(short) = n /\ \A i \in 1..n : short[i] = seq[i]
  BY <1>5, <1>6, <1>7
<1>9. QED
  BY <1>8 DEF n

\* A sequence that is not empty is a shorter one with an element more.
LEMMA SeqSplitsOff ==
    ASSUME NEW S, NEW seq \in Seq(S), NEW n \in Nat, Len(seq) = n + 1
    PROVE  \E most \in Seq(S), s \in S : seq = Append(most, s) /\ Len(most) = n
<1> DEFINE most == SubSeq(seq, 1, n)
<1>1. Len(seq) # 0 /\ Len(seq) - 1 = n
  OBVIOUS
<1>2. most \in Seq(S) /\ Len(most) = n /\ \A i \in 1..n : most[i] = seq[i]
  BY <1>1, ShorterSeq
<1>3. seq[n + 1] \in S
  BY ElementOfSeq
<1> HIDE DEF most
<1> DEFINE whole == Append(most, seq[n + 1])
<1>4. whole \in Seq(S) /\ Len(whole) = n + 1
  BY <1>2, <1>3, AppendProperties
<1>5. \A i \in 1..n : whole[i] = most[i]
  BY <1>2, <1>3, AppendProperties
<1>6. whole[n + 1] = seq[n + 1]
  BY <1>2, <1>3, AppendProperties
<1> HIDE DEF whole
<1>7. \A i \in 1..(n + 1) : i \in 1..n \/ i = n + 1
  OBVIOUS
<1>8. \A i \in 1..(n + 1) : whole[i] = seq[i]
  BY <1>2, <1>5, <1>6, <1>7
<1>9. whole = seq
  BY <1>4, <1>8, SeqEqual
<1>10. QED
  BY <1>2, <1>3, <1>9 DEF whole

\* An element is appended to both or to the second.
LEMMA AppendOfConcat ==
    ASSUME NEW S, NEW a \in Seq(S), NEW b \in Seq(S), NEW s \in S
    PROVE  a \o Append(b, s) = Append(a \o b, s)
<1>1. <<s>> \in Seq(S)
  OBVIOUS
<1>2. Append(b, s) = b \o <<s>>
  BY AppendIsConcat
<1>3. a \o b \in Seq(S)
  BY ConcatProperties
<1>4. Append(a \o b, s) = (a \o b) \o <<s>>
  BY <1>3, AppendIsConcat
<1>5. (a \o b) \o <<s>> = a \o (b \o <<s>>)
  BY <1>1, ConcatAssociative
<1>6. QED
  BY <1>2, <1>4, <1>5

\* What was before the last element.
LEMMA FrontOfMore ==
    ASSUME NEW S, NEW seq \in Seq(S), NEW s \in S
    PROVE  Append(seq, s) # <<>> /\ Front(Append(seq, s)) = seq
<1> DEFINE more == Append(seq, s)
<1>1. more \in Seq(S) /\ Len(more) = Len(seq) + 1 /\ more # <<>>
  BY AppendProperties
<1>2. \A i \in 1..Len(seq) : more[i] = seq[i]
  BY AppendProperties
<1>3. Len(seq) \in Nat /\ Len(more) # 0 /\ Len(more) - 1 = Len(seq)
  BY <1>1, LenProperties
<1> HIDE DEF more
<1>4. /\ SubSeq(more, 1, Len(more) - 1) \in Seq(S)
      /\ Len(SubSeq(more, 1, Len(more) - 1)) = Len(seq)
      /\ \A i \in 1..Len(seq) : SubSeq(more, 1, Len(more) - 1)[i] = seq[i]
  BY <1>1, <1>2, <1>3, ShorterSeq
<1>5. SubSeq(more, 1, Len(more) - 1) = seq
  BY <1>4, SeqEqual
<1>6. QED
  BY <1>1, <1>5 DEF more, Front

-----------------------------------------------------------------------------
(* The loop of VfsPath::new *)

\* One round for each of the first n segments
IsLoop(raw, n, rounds) ==
    rounds = [s \in SUBSET (1..n) |->
              IF s = {} THEN Path(Root)
              ELSE LET x == Max(s) IN NextSegment(rounds[s \ {x}], raw[x])]

\* The last of a stretch of segments that begins with the first.
LEMMA LastOfAll == ASSUME NEW n \in Nat PROVE Max(1..(n + 1)) = n + 1
<1>1. \A x \in 1..(n + 1) : (\A y \in 1..(n + 1) : x >= y) <=> x = n + 1
  OBVIOUS
<1>2. QED
  BY <1>1 DEF Max

\* There is such a loop for any number of rounds.
LEMMA LoopExists == ASSUME NEW raw PROVE \A n \in Nat : \E rounds : IsLoop(raw, n, rounds)
<1> DEFINE S == {n \in Nat : \E rounds : IsLoop(raw, n, rounds)}
<1>1. 0 \in S
  <2> DEFINE rounds == [s \in SUBSET (1..0) |-> Path(Root)]
  <2>1. \A s \in SUBSET (1..0) : s = {}
    OBVIOUS
  <2>2. IsLoop(raw, 0, rounds)
    BY <2>1 DEF IsLoop
  <2>3. QED
    BY <2>2
<1>2. ASSUME NEW n \in Nat, n \in S PROVE n + 1 \in S
  <2>1. PICK some : IsLoop(raw, n, some)
    BY <1>2
  <2> DEFINE rounds == [s \in SUBSET (1..(n + 1)) |->
                        IF s \in SUBSET (1..n) THEN some[s]
                        ELSE NextSegment(some[s \ {n + 1}], raw[n + 1])]
  <2>2. ASSUME NEW s \in SUBSET (1..(n + 1))
        PROVE  rounds[s] = IF s = {} THEN Path(Root)
                         ELSE LET x == Max(s) IN NextSegment(rounds[s \ {x}], raw[x])
    <3>1. CASE s \in SUBSET (1..n)
      <4>1. rounds[s] = some[s]
        BY <3>1
      <4>2. s \ {Max(s)} \in SUBSET (1..n) /\ s \ {Max(s)} \in SUBSET (1..(n + 1))
        BY <3>1
      <4>3. rounds[s \ {Max(s)}] = some[s \ {Max(s)}]
        BY <4>2
      <4>4. some[s] = IF s = {} THEN Path(Root) ELSE NextSegment(some[s \ {Max(s)}], raw[Max(s)])
        BY <2>1, <3>1 DEF IsLoop
      <4>5. QED
        BY <4>1, <4>3, <4>4
    <3>2. CASE s \notin SUBSET (1..n)
      <4>1. n + 1 \in s
        BY <3>2
      <4>2. \A x \in s : (\A y \in s : x >= y) <=> x = n + 1
        BY <4>1
      <4>3. Max(s) = n + 1
        BY <4>1, <4>2 DEF Max
      <4>4. s \ {n + 1} \in SUBSET (1..n) /\ s \ {n + 1} \in SUBSET (1..(n + 1))
        OBVIOUS
      <4>5. rounds[s \ {n + 1}] = some[s \ {n + 1}]
        BY <4>4
      <4>6. QED
        BY <3>2, <4>1, <4>3, <4>5
    <3>3. QED
      BY <3>1, <3>2
  <2>3. IsLoop(raw, n + 1, rounds)
    BY <2>2 DEF IsLoop
  <2>4. QED
    BY <2>3
<1> HIDE DEF S
<1>3. \A n \in Nat : n \in S
  BY <1>1, <1>2, Induction
<1>4. QED
  BY <1>3 DEF S

\* Normalise runs it over all segments.
LEMMA NormaliseLoops ==
    ASSUME NEW raw \in Seq(STRING)
    PROVE  \E rounds : IsLoop(raw, Len(raw), rounds) /\ Normalise(raw) = rounds[1..Len(raw)]
<1> DEFINE rounds == CHOOSE f : IsLoop(raw, Len(raw), f)
<1>1. DOMAIN raw = 1..Len(raw) /\ Len(raw) \in Nat
  OBVIOUS
<1>2. IsLoop(raw, Len(raw), rounds)
  BY <1>1, LoopExists
<1>3. Normalise(raw) = rounds[1..Len(raw)]
  BY <1>1 DEF Normalise, FoldLeft, MapThenFoldSet, IsLoop
<1>4. QED
  BY <1>2, <1>3

\* The round after the first j is about segment j + 1.
LEMMA LoopRound ==
    ASSUME NEW raw, NEW n \in Nat, NEW rounds, IsLoop(raw, n, rounds)
    PROVE  /\ rounds[1..0] = Path(Root)
           /\ \A j \in 0..(n - 1) : rounds[1..(j + 1)] = NextSegment(rounds[1..j], raw[j + 1])
<1>1. 1..0 = {} /\ 1..0 \in SUBSET (1..n)
  OBVIOUS
<1>2. rounds[1..0] = Path(Root)
  BY <1>1 DEF IsLoop
<1>3. ASSUME NEW j \in 0..(n - 1)
      PROVE  rounds[1..(j + 1)] = NextSegment(rounds[1..j], raw[j + 1])
  <2>1. j \in Nat /\ 1..(j + 1) \subseteq 1..n /\ 1 \in 1..(j + 1)
    OBVIOUS
  <2>2. Max(1..(j + 1)) = j + 1
    BY <2>1, LastOfAll
  <2>3. (1..(j + 1)) \ {j + 1} = 1..j
    BY <2>1
  <2>4. rounds[1..(j + 1)] = NextSegment(rounds[(1..(j + 1)) \ {j + 1}], raw[j + 1])
    <3>1. 1..(j + 1) \in SUBSET (1..n) /\ 1..(j + 1) # {}
      BY <2>1
    <3>2. QED
      BY <3>1, <2>2 DEF IsLoop
  <2>5. QED
    BY <2>3, <2>4
<1>4. QED
  BY <1>2, <1>3

\* No segments are the root.
LEMMA NormaliseNothing == Normalise(<<>>) = Path(Root)
<1>1. <<>> \in Seq(STRING) /\ Len(<<>>) = 0
  OBVIOUS
<1>2. PICK rounds : IsLoop(<<>>, 0, rounds) /\ Normalise(<<>>) = rounds[1..0]
  BY <1>1, NormaliseLoops
<1>3. QED
  BY <1>2, LoopRound

\* One segment more is one round more.
LEMMA NormaliseMore ==
    ASSUME NEW raw \in Seq(STRING), NEW s \in STRING
    PROVE  Normalise(Append(raw, s)) = NextSegment(Normalise(raw), s)
<1> DEFINE n == Len(raw)
           more == Append(raw, s)
<1>1. /\ n \in Nat /\ more \in Seq(STRING) /\ Len(more) = n + 1
      /\ more[n + 1] = s /\ \A i \in 1..n : more[i] = raw[i]
  <2>1. n \in Nat
    BY LenProperties
  <2>2. more \in Seq(STRING) /\ Len(more) = n + 1
    BY AppendProperties
  <2>3. more[n + 1] = s
    BY AppendProperties
  <2>4. \A i \in 1..n : more[i] = raw[i]
    BY AppendProperties
  <2>5. QED
    BY <2>1, <2>2, <2>3, <2>4
<1>2. PICK short : IsLoop(raw, n, short) /\ Normalise(raw) = short[1..n]
  BY NormaliseLoops
<1>3. PICK long : IsLoop(more, n + 1, long) /\ Normalise(more) = long[1..(n + 1)]
  BY <1>1, NormaliseLoops
<1> HIDE DEF n, more
<1>4. /\ short[1..0] = Path(Root)
      /\ \A j \in 0..(n - 1) : short[1..(j + 1)] = NextSegment(short[1..j], raw[j + 1])
  BY <1>1, <1>2, LoopRound
<1>5. /\ long[1..0] = Path(Root)
      /\ \A j \in 0..n : long[1..(j + 1)] = NextSegment(long[1..j], more[j + 1])
  <2>1. n + 1 \in Nat /\ (n + 1) - 1 = n
    BY <1>1
  <2>2. /\ long[1..0] = Path(Root)
        /\ \A j \in 0..((n + 1) - 1) : long[1..(j + 1)] = NextSegment(long[1..j], more[j + 1])
    BY <1>3, <2>1, LoopRound
  <2>3. QED
    BY <2>1, <2>2
<1> DEFINE S == {j \in Nat : j <= n => long[1..j] = short[1..j]}
<1>6. 0 \in S
  BY <1>4, <1>5
<1>7. ASSUME NEW j \in Nat, j \in S PROVE j + 1 \in S
  <2>1. SUFFICES ASSUME j + 1 <= n PROVE long[1..(j + 1)] = short[1..(j + 1)]
    OBVIOUS
  <2>2. j \in 0..(n - 1) /\ j \in 0..n /\ j + 1 \in 1..n /\ long[1..j] = short[1..j]
    BY <1>1, <1>7, <2>1
  <2>3. more[j + 1] = raw[j + 1]
    BY <1>1, <2>2
  <2>4. QED
    BY <1>4, <1>5, <2>2, <2>3
<1> HIDE DEF S
<1>8. n \in S
  BY <1>1, <1>6, <1>7, Induction
<1>9. long[1..n] = short[1..n]
  BY <1>1, <1>8 DEF S
<1>10. long[1..(n + 1)] = NextSegment(long[1..n], more[n + 1])
  <2>1. n \in 0..n
    BY <1>1
  <2>2. QED
    BY <1>5, <2>1
<1>11. QED
  BY <1>1, <1>2, <1>3, <1>9, <1>10 DEF n, more
-----------------------------------------------------------------------------
(* How far a stretch of segments leads down *)

Name == STRING \ {"", ".", ".."}

\* What one segment adds
Weight(s) == IF s = ".." THEN -1 ELSE IF s \in {"", "."} THEN 0 ELSE 1

\* The next segment adds its weight.
LEMMA RiseNext ==
    ASSUME NEW raw, NEW i \in Nat, NEW j \in Nat, i <= j + 1
    PROVE  /\ Rise(raw, i, j) \in Int
           /\ Rise(raw, i, j + 1) = Rise(raw, i, j) + Weight(raw[j + 1])
<1> DEFINE Down(m) == {k \in i..m : raw[k] \notin {"", ".", ".."}}
           Up(m) == {k \in i..m : raw[k] = ".."}
<1>1. IsFiniteSet(i..j)
  BY FS_Interval
<1>2. Down(j) \in SUBSET (i..j) /\ Up(j) \in SUBSET (i..j)
  OBVIOUS
<1>3. IsFiniteSet(Down(j)) /\ IsFiniteSet(Up(j))
  BY <1>1, <1>2, FS_Subset
<1>4. Cardinality(Down(j)) \in Nat /\ Cardinality(Up(j)) \in Nat
  BY <1>3, FS_CardinalityType
<1>5. j + 1 \notin Down(j) /\ j + 1 \notin Up(j)
  <2>1. j + 1 \notin i..j
    OBVIOUS
  <2>2. QED
    BY <1>2, <2>1
<1>6. /\ Down(j + 1) = IF raw[j + 1] \notin {"", ".", ".."} THEN Down(j) \cup {j + 1} ELSE Down(j)
      /\ Up(j + 1) = IF raw[j + 1] = ".." THEN Up(j) \cup {j + 1} ELSE Up(j)
  <2>1. \A k : k \in i..(j + 1) <=> k \in i..j \/ k = j + 1
    OBVIOUS
  <2>2. QED
    BY <2>1
<1>7. /\ Rise(raw, i, j) = Cardinality(Down(j)) - Cardinality(Up(j))
      /\ Rise(raw, i, j + 1) = Cardinality(Down(j + 1)) - Cardinality(Up(j + 1))
  BY DEF Rise
<1> HIDE DEF Down, Up
<1>8. /\ Cardinality(Down(j) \cup {j + 1}) = Cardinality(Down(j)) + 1
      /\ Cardinality(Up(j) \cup {j + 1}) = Cardinality(Up(j)) + 1
  BY <1>3, <1>5, FS_AddElement
<1>9. Rise(raw, i, j) \in Int
  BY <1>4, <1>7
<1>10. Rise(raw, i, j + 1) = Rise(raw, i, j) + Weight(raw[j + 1])
  <2>1. CASE raw[j + 1] = ".."
    <3>1. Down(j + 1) = Down(j) /\ Up(j + 1) = Up(j) \cup {j + 1} /\ Weight(raw[j + 1]) = -1
      BY <1>6, <2>1 DEF Weight
    <3>2. Cardinality(Up(j + 1)) = Cardinality(Up(j)) + 1 /\ Cardinality(Down(j + 1)) = Cardinality(Down(j))
      BY <1>8, <3>1, Zenon
    <3>3. QED
      BY <1>4, <1>7, <3>1, <3>2
  <2>2. CASE raw[j + 1] \in {"", "."}
    <3>1. Down(j + 1) = Down(j) /\ Up(j + 1) = Up(j) /\ Weight(raw[j + 1]) = 0
      BY <1>6, <2>2 DEF Weight
    <3>2. QED
      BY <1>4, <1>7, <3>1
  <2>3. CASE raw[j + 1] \notin {"", ".", ".."}
    <3>1. Down(j + 1) = Down(j) \cup {j + 1} /\ Up(j + 1) = Up(j) /\ Weight(raw[j + 1]) = 1
      BY <1>6, <2>3 DEF Weight
    <3>2. Cardinality(Down(j + 1)) = Cardinality(Down(j)) + 1 /\ Cardinality(Up(j + 1)) = Cardinality(Up(j))
      BY <1>8, <3>1, Zenon
    <3>3. QED
      BY <1>4, <1>7, <3>1, <3>2
  <2>4. QED
    BY <2>1, <2>2, <2>3
<1>11. QED
  BY <1>9, <1>10

\* No segments lead nowhere.
LEMMA RiseNothing == ASSUME NEW raw, NEW i \in Nat, NEW j \in Int, j < i PROVE Rise(raw, i, j) = 0
<1>1. i..j = {}
  OBVIOUS
<1>2. /\ {k \in i..j : raw[k] \notin {"", ".", ".."}} = {}
      /\ {k \in i..j : raw[k] = ".."} = {}
  BY <1>1
<1>3. Rise(raw, i, j) = Cardinality({}) - Cardinality({})
  BY <1>2, Zenon DEF Rise
<1>4. QED
  BY <1>3, FS_EmptySet

\* A stretch does not depend on what follows it.
LEMMA RiseIsLocal ==
    ASSUME NEW raw \in Seq(STRING), NEW s \in STRING,
           NEW i \in Nat \ {0}, NEW j \in 0..Len(raw)
    PROVE  Rise(Append(raw, s), i, j) = Rise(raw, i, j)
<1>1. \A k \in i..j : k \in 1..Len(raw)
  OBVIOUS
<1>2. \A k \in 1..Len(raw) : Append(raw, s)[k] = raw[k]
  BY AppendProperties
<1>3. QED
  BY <1>1, <1>2 DEF Rise

-----------------------------------------------------------------------------
(* Where the walk of a path has come *)

\* What remains of the segments are those at the places at, in their order; the walk stands
\* as deep below each of them as there are remaining ones from there on.
AreThoseThatStay(raw, at) ==
    /\ at \in Seq(1..Len(raw))
    /\ \A k, m \in 1..Len(at) : k < m => at[k] < at[m]
    /\ \A i \in 1..Len(raw) : Stays(raw, i) <=> \E k \in 1..Len(at) : at[k] = i
    /\ \A k \in 1..Len(at) : Rise(raw, at[k], Len(raw)) = Len(at) - k + 1

\* They are what the loop has kept.
AreKept(raw, at) ==
    /\ Normalise(raw) = Path(Normalise(raw).segments)
    /\ Normalise(raw).segments \in Seq(Name) /\ Len(Normalise(raw).segments) = Len(at)
    /\ \A k \in 1..Len(at) : Normalise(raw).segments[k] = raw[at[k]]

StandsAt(raw, at) ==
    AreThoseThatStay(raw, at) /\ Rise(raw, 1, Len(raw)) = Len(at) /\ AreKept(raw, at)

Walked(raw) ==
    IF Escapes(raw) THEN Normalise(raw) = InvalidPath ELSE \E at : StandsAt(raw, at)

\* A walk of no segments stands at the root.
LEMMA WalkBegins == Walked(<<>>)
<1>1. <<>> \in Seq(STRING) /\ Len(<<>>) = 0 /\ DOMAIN <<>> = {}
  OBVIOUS
<1>2. ~Escapes(<<>>)
  BY <1>1 DEF Escapes
<1>3. Rise(<<>>, 1, 0) = 0
  BY RiseNothing
<1>4. <<>> \in Seq(Name) /\ <<>> \in Seq(1..0)
  BY EmptySeq
<1>5. Normalise(<<>>) = Path(<<>>) /\ Normalise(<<>>).segments = <<>>
  BY NormaliseNothing DEF Path, Root
<1>6. StandsAt(<<>>, <<>>)
  <2>1. \A k : k \notin 1..Len(<<>>)
    BY <1>1
  <2>2. <<>> \in Seq(1..Len(<<>>)) /\ Rise(<<>>, 1, Len(<<>>)) = Len(<<>>)
    BY <1>1, <1>3, <1>4
  <2>3. /\ Normalise(<<>>).segments \in Seq(Name)
        /\ Len(Normalise(<<>>).segments) = Len(<<>>)
    BY <1>4, <1>5
  <2>4. QED
    BY <1>5, <2>1, <2>2, <2>3, Zenon DEF StandsAt, AreThoseThatStay, AreKept
<1>7. QED
  BY <1>2, <1>6 DEF Walked

\* The weights of the three kinds of segments.
LEMMA Weights ==
    ASSUME NEW s \in STRING
    PROVE  /\ s \in {"", "."} => Weight(s) = 0 /\ s \notin Name
           /\ s = ".." => Weight(s) = -1 /\ s \notin Name
           /\ s \notin {"", ".", ".."} => Weight(s) = 1 /\ s \in Name
           /\ Weight(s) \in Int /\ (s \in Name => Weight(s) > 0)
<1>1. CASE s = ""
  <2>1. s # ".." /\ s \in {"", "."}
    BY <1>1
  <2>2. Weight(s) = 0
    BY <2>1 DEF Weight
  <2>3. s \notin Name
    BY <2>1 DEF Name
  <2>4. 0 \in Int
    OBVIOUS
  <2>5. QED
    BY <2>1, <2>2, <2>3, <2>4, Zenon
<1>2. CASE s = "."
  BY <1>2 DEF Weight, Name
<1>3. CASE s = ".."
  BY <1>3 DEF Weight, Name
<1>4. CASE s \notin {"", ".", ".."}
  <2>1. Weight(s) = 1 /\ s \in Name
    BY <1>4 DEF Weight, Name
  <2>2. Weight(s) \in Int /\ Weight(s) > 0
    BY <2>1
  <2>3. s \notin {"", "."} /\ s # ".."
    BY <1>4
  <2>4. QED
    BY <2>1, <2>2, <2>3, Zenon
<1>5. QED
  BY <1>1, <1>2, <1>3, <1>4

\* One segment more, and the ones before it.
LEMMA OneMore ==
    ASSUME NEW raw \in Seq(STRING), NEW s \in STRING
    PROVE  /\ Len(raw) \in Nat
           /\ Append(raw, s) \in Seq(STRING)
           /\ Len(Append(raw, s)) = Len(raw) + 1
           /\ Append(raw, s)[Len(raw) + 1] = s
           /\ \A i \in 1..Len(raw) : Append(raw, s)[i] = raw[i]
<1>1. Len(raw) \in Nat
  BY LenProperties
<1>2. Append(raw, s) \in Seq(STRING) /\ Len(Append(raw, s)) = Len(raw) + 1
  BY AppendProperties
<1>3. Append(raw, s)[Len(raw) + 1] = s
  BY AppendProperties
<1>4. \A i \in 1..Len(raw) : Append(raw, s)[i] = raw[i]
  BY AppendProperties
<1>5. QED
  BY <1>1, <1>2, <1>3, <1>4

\* It adds its weight to every stretch that reaches it.
LEMMA RiseOfMore ==
    ASSUME NEW raw \in Seq(STRING), NEW s \in STRING, NEW i \in 1..(Len(raw) + 1)
    PROVE  /\ Rise(raw, i, Len(raw)) \in Int
           /\ Rise(Append(raw, s), i, Len(raw) + 1) = Rise(raw, i, Len(raw)) + Weight(s)
<1> DEFINE n == Len(raw)
           more == Append(raw, s)
<1>1. n \in Nat /\ more[n + 1] = s
  BY OneMore
<1>2. i \in Nat \ {0} /\ i \in Nat /\ i <= n + 1 /\ n \in 0..n
  BY <1>1
<1>3. Rise(more, i, n) = Rise(raw, i, n)
  BY <1>2, RiseIsLocal
<1> HIDE DEF n, more
<1>4. Rise(more, i, n) \in Int /\ Rise(more, i, n + 1) = Rise(more, i, n) + Weight(more[n + 1])
  BY <1>1, <1>2, RiseNext
<1>5. Rise(raw, i, n) \in Int /\ Rise(more, i, n + 1) = Rise(raw, i, n) + Weight(s)
  BY <1>1, <1>3, <1>4
<1>6. QED
  BY <1>5 DEF n, more

\* The walk leaves the root with it, or had before.
LEMMA EscapesOfMore ==
    ASSUME NEW raw \in Seq(STRING), NEW s \in STRING
    PROVE  Escapes(Append(raw, s)) <=> Escapes(raw) \/ Rise(raw, 1, Len(raw)) + Weight(s) < 0
<1> DEFINE n == Len(raw)
           more == Append(raw, s)
<1>1. n \in Nat /\ Len(more) = n + 1 /\ more \in Seq(STRING)
  BY OneMore
<1>2. 1 \in Nat \ {0} /\ 1 \in 1..(n + 1) /\ \A j \in 1..n : j \in 0..n
  BY <1>1
<1>3. \A j \in 1..n : Rise(more, 1, j) = Rise(raw, 1, j)
  BY <1>2, RiseIsLocal
<1>4. Rise(more, 1, n + 1) = Rise(raw, 1, n) + Weight(s)
  BY <1>2, RiseOfMore
<1>5. DOMAIN more = 1..(n + 1) /\ DOMAIN raw = 1..n
  BY <1>1, LenProperties
<1> HIDE DEF n, more
<1>6. \A j : j \in 1..(n + 1) <=> j \in 1..n \/ j = n + 1
  BY <1>1
<1>7. Escapes(more) <=> Escapes(raw) \/ Rise(raw, 1, n) + Weight(s) < 0
  BY <1>3, <1>4, <1>5, <1>6 DEF Escapes
<1>8. QED
  BY <1>7 DEF n, more

\* A name before it stays if the walk does not climb past it now; it stays itself if it
\* is a name.
LEMMA StaysOfMore ==
    ASSUME NEW raw \in Seq(STRING), NEW s \in STRING
    PROVE  /\ \A i \in 1..Len(raw) : Stays(Append(raw, s), i) <=>
                 Stays(raw, i) /\ Rise(raw, i, Len(raw)) + Weight(s) > 0
           /\ Stays(Append(raw, s), Len(raw) + 1) <=> s \in Name
<1> DEFINE n == Len(raw)
           more == Append(raw, s)
<1>1. n \in Nat /\ Len(more) = n + 1
  BY OneMore
<1>2. more[n + 1] = s /\ \A i \in 1..n : more[i] = raw[i]
  BY OneMore
<1>3. \A i \in 1..(n + 1) : Rise(more, i, n + 1) = Rise(raw, i, n) + Weight(s)
  BY RiseOfMore
<1>4. \A i \in Nat \ {0}, j \in 0..n : Rise(more, i, j) = Rise(raw, i, j)
  BY RiseIsLocal
<1> HIDE DEF n, more
<1>5. ASSUME NEW i \in 1..n
      PROVE  Stays(more, i) <=> Stays(raw, i) /\ Rise(raw, i, n) + Weight(s) > 0
  <2>1. i \in Nat \ {0} /\ i \in 1..(n + 1) /\ \A j \in i..n : j \in 0..n
    BY <1>1
  <2>2. \A j \in i..n : Rise(more, i, j) = Rise(raw, i, j)
    BY <1>4, <2>1
  <2>3. Rise(more, i, n + 1) = Rise(raw, i, n) + Weight(s)
    BY <1>3, <2>1
  <2>4. \A j : j \in i..(n + 1) <=> j \in i..n \/ j = n + 1
    BY <1>1
  <2>5. more[i] = raw[i]
    BY <1>2
  <2>6. Stays(more, i) <=> /\ raw[i] \notin {"", ".", ".."}
                           /\ \A j \in i..(n + 1) : Rise(more, i, j) > 0
    BY <1>1, <2>5 DEF Stays
  <2>7. Stays(raw, i) <=> /\ raw[i] \notin {"", ".", ".."}
                          /\ \A j \in i..n : Rise(raw, i, j) > 0
    BY DEF Stays, n
  <2>8. QED
    BY <2>2, <2>3, <2>4, <2>6, <2>7
<1>6. Stays(more, n + 1) <=> s \in Name
  <2>1. n + 1 \in Nat /\ n < n + 1 /\ n \in Int /\ n + 1 \in 1..(n + 1)
    BY <1>1
  <2>2. Rise(raw, n + 1, n) = 0
    BY <2>1, RiseNothing
  <2>3. Rise(more, n + 1, n + 1) = 0 + Weight(s)
    BY <1>3, <2>1, <2>2
  <2>4. \A j : j \in (n + 1)..(n + 1) <=> j = n + 1
    BY <1>1
  <2>5. Stays(more, n + 1) <=> s \notin {"", ".", ".."} /\ Weight(s) > 0
    <3>1. Weight(s) \in Int
      BY Weights
    <3>2. Rise(more, n + 1, n + 1) = Weight(s)
      <4>1. \A x \in Int : 0 + x = x
        OBVIOUS
      <4>2. QED
        BY <2>3, <3>1, <4>1, Zenon
    <3>3. \A j \in (n + 1)..(n + 1) : j = n + 1
      BY <2>4
    <3>4. n + 1 \in (n + 1)..(n + 1)
      BY <2>4
    <3>5. Stays(more, n + 1) <=> /\ s \notin {"", ".", ".."}
                                 /\ \A j \in (n + 1)..(n + 1) : Rise(more, n + 1, j) > 0
      BY <1>1, <1>2 DEF Stays
    <3>6. QED
      BY <3>2, <3>3, <3>4, <3>5, Zenon
  <2>6. QED
    BY <2>5, Weights
<1>7. QED
  BY <1>5, <1>6 DEF n, more

\* What one more segment of no weight, of a name, or of ".." does to the places where the
\* remaining names stand.
PlacesAfter(at, n, w) ==
    IF w = 0 THEN at ELSE IF w = 1 THEN Append(at, n + 1) ELSE SubSeq(at, 1, Len(at) - 1)

\* They still are in order, are those that stay, and are as deep below as they should.
LEMMA PlacesFollow ==
    ASSUME NEW raw \in Seq(STRING), NEW s \in STRING, NEW at, StandsAt(raw, at),
           Len(at) + Weight(s) >= 0,
           NEW next, next = PlacesAfter(at, Len(raw), Weight(s))
    PROVE  AreThoseThatStay(Append(raw, s), next) /\ Len(next) = Len(at) + Weight(s)
<1> DEFINE n == Len(raw)
           more == Append(raw, s)
           d == Len(at)
           w == Weight(s)
           isName == s \in Name
<1>1. n \in Nat
  BY OneMore
<1>2. w \in {-1, 0, 1}
  BY DEF Weight
<1>3. isName <=> w = 1
  <2>1. s \in {"", "."} \/ s = ".." \/ s \notin {"", ".", ".."}
    OBVIOUS
  <2>2. 0 # 1 /\ -1 # 1
    OBVIOUS
  <2>3. QED
    BY <2>1, <2>2, Weights, Zenon
<1>4. at \in Seq(1..n) /\ d \in Nat
  BY LenProperties DEF StandsAt, AreThoseThatStay, AreKept
<1>5. \A k, m \in 1..d : k < m => at[k] < at[m]
  BY DEF StandsAt, AreThoseThatStay, AreKept
<1>6. \A i \in 1..n : Stays(raw, i) <=> \E k \in 1..d : at[k] = i
  BY DEF StandsAt, AreThoseThatStay, AreKept
<1>7. \A k \in 1..d : Rise(raw, at[k], n) = d - k + 1
  BY DEF StandsAt, AreThoseThatStay, AreKept
<1>8. \A i \in 1..n : Stays(more, i) <=> Stays(raw, i) /\ Rise(raw, i, n) + w > 0
  BY StaysOfMore
<1>9. Stays(more, n + 1) <=> isName
  BY StaysOfMore
<1>10. \A i \in 1..(n + 1) : Rise(more, i, n + 1) = Rise(raw, i, n) + w
  BY RiseOfMore
<1>11. next = IF w = 0 THEN at ELSE IF w = 1 THEN Append(at, n + 1) ELSE SubSeq(at, 1, d - 1)
  BY DEF PlacesAfter
<1>12. Rise(raw, n + 1, n) = 0
  <2>1. n + 1 \in Nat /\ n < n + 1 /\ n \in Int
    BY <1>1
  <2>2. QED
    BY <2>1, RiseNothing
<1>13. d + w >= 0
  OBVIOUS
<1> HIDE DEF n, more, d, w, isName
<1>14. \A k \in 1..d : at[k] \in 1..n
  BY <1>4, ElementOfSeq DEF d
<1>15. at \in Seq(1..(n + 1))
  <2>1. 1..n \subseteq 1..(n + 1)
    BY <1>1
  <2>2. QED
    BY <1>4, <2>1, SeqMonotonic
<1> DEFINE Follows == /\ next \in Seq(1..(n + 1)) /\ Len(next) = d + w
                      /\ \A k, m \in 1..(d + w) : k < m => next[k] < next[m]
                      /\ \A i \in 1..(n + 1) : Stays(more, i) <=> \E k \in 1..(d + w) : next[k] = i
                      /\ \A k \in 1..(d + w) : Rise(more, next[k], n + 1) = (d + w) - k + 1
<1>16. \A i \in 1..(n + 1) : i \in 1..n \/ i = n + 1
  BY <1>1
<1>17. \A i \in 1..n : i \in 1..(n + 1) /\ i # n + 1 /\ i < n + 1
  BY <1>1
<1>18. ASSUME w = 0 PROVE Follows
  <2>1. next = at /\ d + w = d
    BY <1>4, <1>11, <1>18
  <2>2. \A i \in 1..(n + 1) : Stays(more, i) <=> \E k \in 1..d : at[k] = i
    <3>1. \A i \in 1..n : Stays(more, i) <=> \E k \in 1..d : at[k] = i
      <4>1. \A k \in 1..d : Rise(raw, at[k], n) + w > 0
        BY <1>4, <1>7, <1>18
      <4>2. QED
        BY <1>6, <1>8, <4>1
    <3>2. ~Stays(more, n + 1)
      BY <1>3, <1>9, <1>18
    <3>3. \A k \in 1..d : at[k] # n + 1
      BY <1>14, <1>17
    <3>4. QED
      BY <1>16, <3>1, <3>2, <3>3
  <2>3. \A k \in 1..d : Rise(more, at[k], n + 1) = d - k + 1
    BY <1>4, <1>7, <1>10, <1>14, <1>17, <1>18
  <2>4. QED
    BY <1>5, <1>15, <2>1, <2>2, <2>3 DEF d
<1>19. ASSUME w = 1 PROVE Follows
  <2>1. n + 1 \in 1..(n + 1)
    BY <1>1
  <2>2. next = Append(at, n + 1)
    BY <1>11, <1>19
  <2>3. /\ next \in Seq(1..(n + 1)) /\ Len(next) = d + 1
        /\ \A k \in 1..d : next[k] = at[k]
        /\ next[d + 1] = n + 1
    <3>1. next \in Seq(1..(n + 1)) /\ Len(next) = d + 1
      BY <1>15, <2>1, <2>2, AppendProperties DEF d
    <3>2. \A k \in 1..d : next[k] = at[k]
      BY <1>15, <2>1, <2>2, AppendProperties DEF d
    <3>3. next[d + 1] = n + 1
      BY <1>15, <2>1, <2>2, AppendProperties DEF d
    <3>4. QED
      BY <3>1, <3>2, <3>3
  <2>4. \A k \in 1..(d + 1) : k \in 1..d \/ k = d + 1
    BY <1>4
  <2>5. d + 1 \in 1..(d + 1) /\ \A k \in 1..d : k \in 1..(d + 1)
    BY <1>4
  <2>6. \A k, m \in 1..(d + 1) : k < m => next[k] < next[m]
    <3>1. SUFFICES ASSUME NEW k \in 1..(d + 1), NEW m \in 1..(d + 1), k < m
                   PROVE  next[k] < next[m]
      OBVIOUS
    <3>2. k \in 1..d
      BY <1>4, <3>1
    <3>3. CASE m \in 1..d
      BY <1>5, <2>3, <3>1, <3>2, <3>3
    <3>4. CASE m = d + 1
      BY <1>14, <1>17, <2>3, <3>2, <3>4
    <3>5. QED
      BY <2>4, <3>3, <3>4
  <2>7. \A i \in 1..(n + 1) : Stays(more, i) <=> \E k \in 1..(d + 1) : next[k] = i
    <3>1. \A i \in 1..n : Stays(more, i) <=> \E k \in 1..d : at[k] = i
      <4>1. \A k \in 1..d : Rise(raw, at[k], n) + w > 0
        BY <1>4, <1>7, <1>19
      <4>2. QED
        BY <1>6, <1>8, <4>1
    <3>2. Stays(more, n + 1)
      BY <1>3, <1>9, <1>19
    <3>3. \A i \in 1..n : i # n + 1
      BY <1>17
    <3>4. QED
      BY <1>16, <2>3, <2>4, <2>5, <3>1, <3>2, <3>3
  <2>8. \A k \in 1..(d + 1) : Rise(more, next[k], n + 1) = (d + 1) - k + 1
    <3>1. ASSUME NEW k \in 1..d PROVE Rise(more, next[k], n + 1) = (d + 1) - k + 1
      <4>1. next[k] = at[k] /\ at[k] \in 1..(n + 1)
        BY <1>14, <1>17, <2>3
      <4>2. Rise(more, next[k], n + 1) = (d - k + 1) + 1
        BY <1>7, <1>10, <1>19, <4>1
      <4>3. (d - k + 1) + 1 = (d + 1) - k + 1
        BY <1>4
      <4>4. QED
        BY <4>2, <4>3
    <3>2. Rise(more, next[d + 1], n + 1) = 1
      BY <1>10, <1>12, <1>19, <2>1, <2>3
    <3>3. (d + 1) - (d + 1) + 1 = 1
      BY <1>4
    <3>4. QED
      BY <2>4, <3>1, <3>2, <3>3
  <2>9. QED
    BY <1>19, <2>3, <2>6, <2>7, <2>8
<1>20. ASSUME w = -1 PROVE Follows
  <2>1. d \in Nat \ {0} /\ d + w = d - 1
    BY <1>4, <1>13, <1>20
  <2>2. next = SubSeq(at, 1, d - 1)
    BY <1>11, <1>20
  <2>3. /\ next \in Seq(1..(n + 1)) /\ Len(next) = d - 1
        /\ \A k \in 1..(d - 1) : next[k] = at[k]
    BY <1>15, <2>1, <2>2, ShorterSeq DEF d
  <2>4. \A k \in 1..(d - 1) : k \in 1..d
    BY <2>1
  <2>5. \A k, m \in 1..(d - 1) : k < m => next[k] < next[m]
    BY <1>5, <2>3, <2>4
  <2>6. \A k \in 1..d : Rise(raw, at[k], n) + w > 0 <=> k \in 1..(d - 1)
    BY <1>7, <1>20, <2>1
  <2>7. \A i \in 1..(n + 1) : Stays(more, i) <=> \E k \in 1..(d - 1) : next[k] = i
    <3>1. \A i \in 1..n : Stays(more, i) <=> \E k \in 1..(d - 1) : next[k] = i
      BY <1>6, <1>8, <2>3, <2>4, <2>6
    <3>2. ~Stays(more, n + 1)
      BY <1>3, <1>9, <1>20
    <3>3. \A k \in 1..(d - 1) : next[k] # n + 1
      BY <1>14, <1>17, <2>3, <2>4
    <3>4. QED
      BY <1>16, <3>1, <3>2, <3>3
  <2>8. \A k \in 1..(d - 1) : Rise(more, next[k], n + 1) = (d - 1) - k + 1
    <3>1. TAKE k \in 1..(d - 1)
    <3>2. next[k] = at[k] /\ at[k] \in 1..(n + 1) /\ k \in 1..d
      BY <1>14, <1>17, <2>3, <2>4
    <3>3. Rise(more, next[k], n + 1) = (d - k + 1) + (-1)
      BY <1>7, <1>10, <1>20, <3>2
    <3>4. (d - k + 1) + (-1) = (d - 1) - k + 1
      BY <2>1
    <3>5. QED
      BY <3>3, <3>4
  <2>9. QED
    BY <2>1, <2>3, <2>5, <2>7, <2>8
<1>21. Follows
  BY <1>2, <1>18, <1>19, <1>20
<1>22. Len(more) = n + 1
  BY OneMore DEF n, more
<1>23. AreThoseThatStay(more, next) /\ Len(next) = d + w
  BY <1>21, <1>22 DEF AreThoseThatStay
<1>24. QED
  BY <1>23 DEF more, d, w

\* A path that is refused stays refused.
LEMMA RefusedForGood ==
    ASSUME NEW raw \in Seq(STRING), NEW s \in STRING, Escapes(raw), Walked(raw)
    PROVE  Walked(Append(raw, s))
<1>1. Escapes(Append(raw, s))
  BY EscapesOfMore
<1>2. Normalise(raw) = InvalidPath
  BY DEF Walked
<1>3. Normalise(Append(raw, s)) = NextSegment(InvalidPath, s)
  BY <1>2, NormaliseMore
<1>4. NextSegment(InvalidPath, s) = InvalidPath
  BY DEF NextSegment, InvalidPath
<1>5. QED
  BY <1>1, <1>3, <1>4 DEF Walked

\* The walk would leave the root: it stands there, and climbs.
LEMMA RefusedNow ==
    ASSUME NEW raw \in Seq(STRING), NEW s \in STRING, NEW at, StandsAt(raw, at),
           Len(at) + Weight(s) < 0
    PROVE  Walked(Append(raw, s))
<1>1. Len(at) \in Nat /\ Rise(raw, 1, Len(raw)) = Len(at)
  BY LenProperties DEF StandsAt, AreThoseThatStay, AreKept
<1>2. Escapes(Append(raw, s))
  BY <1>1, EscapesOfMore
<1>3. s = ".." /\ Len(at) = 0
  <2> DEFINE d == Len(at)
             w == Weight(s)
  <2>1. s \in {"", "."} \/ s = ".." \/ s \notin {"", ".", ".."}
    OBVIOUS
  <2>2. w = 0 \/ (w = -1 /\ s = "..") \/ w = 1
    BY <2>1, Weights, Zenon
  <2>3. d \in Nat /\ d + w < 0
    BY <1>1
  <2> HIDE DEF d, w
  <2>4. w = -1 /\ d = 0
    BY <2>2, <2>3
  <2>5. w # 0 /\ w # 1
    BY <2>4
  <2>6. QED
    BY <2>2, <2>4, <2>5, Zenon DEF d
<1>4. Normalise(raw).segments = <<>>
  BY <1>3, EmptySeq DEF StandsAt, AreThoseThatStay, AreKept
<1>5. Normalise(raw).ok
  BY DEF StandsAt, AreKept, Path
<1>6. Normalise(Append(raw, s)) = InvalidPath
  <2>1. Normalise(Append(raw, s)) = NextSegment(Normalise(raw), s)
    BY NormaliseMore
  <2>2. s \notin {"", "."}
    BY <1>3
  <2>3. NextSegment(Normalise(raw), s) = InvalidPath
    BY <1>3, <1>4, <1>5, <2>2 DEF NextSegment
  <2>4. QED
    BY <2>1, <2>3
<1>7. QED
  BY <1>2, <1>6 DEF Walked

\* What the loop keeps of the path is what stands at those places.
LEMMA SegmentsFollow ==
    ASSUME NEW raw \in Seq(STRING), NEW s \in STRING, NEW at, StandsAt(raw, at),
           Len(at) + Weight(s) >= 0,
           NEW next, next = PlacesAfter(at, Len(raw), Weight(s)), Len(next) = Len(at) + Weight(s)
    PROVE  AreKept(Append(raw, s), next)
<1> DEFINE n == Len(raw)
           more == Append(raw, s)
           after == Normalise(more)
           d == Len(at)
           before == Normalise(raw)
           old == before.segments
<1>1. n \in Nat /\ more[n + 1] = s
  BY OneMore
<1>2. \A i \in 1..n : more[i] = raw[i]
  BY OneMore
<1>3. at \in Seq(1..n) /\ d \in Nat
  BY LenProperties DEF StandsAt, AreThoseThatStay, AreKept
<1>4. before = Path(old) /\ old \in Seq(Name) /\ Len(old) = d
  BY DEF StandsAt, AreKept
<1>b. before.ok
  BY <1>4 DEF Path
<1>5. \A k \in 1..d : old[k] = raw[at[k]]
  BY DEF StandsAt, AreThoseThatStay, AreKept
<1>6. after = NextSegment(before, s)
  BY NormaliseMore
<1>a. Len(next) = d + Weight(s)
  OBVIOUS
<1>7. \A k \in 1..d : at[k] \in 1..n
  BY <1>3, ElementOfSeq
<1> HIDE DEF n, more, d, before, after
<1>8. \A k \in 1..d : old[k] = more[at[k]]
  BY <1>2, <1>5, <1>7
<1> DEFINE w == Weight(s)
           Kept == /\ after = Path(after.segments)
                   /\ after.segments \in Seq(Name) /\ Len(after.segments) = d + w
                   /\ \A k \in 1..(d + w) : after.segments[k] = more[next[k]]
<1>9. ASSUME s \in {"", "."} PROVE Kept
  <2>1. w = 0
    BY <1>9, Weights
  <2>2. after = before
    BY <1>6, <1>9 DEF NextSegment
  <2>3. next = at
    BY <2>1 DEF PlacesAfter
  <2> HIDE DEF w, old
  <2>4. d + w = d
    BY <1>3, <2>1
  <2>5. after.segments = old
    BY <2>2 DEF old
  <2>6. QED
    BY <1>4, <1>8, <2>2, <2>3, <2>4, <2>5
<1>10. ASSUME s \notin {"", ".", ".."} PROVE Kept
  <2>1. w = 1 /\ s \in Name
    BY <1>10, Weights
  <2>2. after = Path(Append(old, s))
    <3>1. s \notin {"", "."} /\ s # ".."
      BY <1>10
    <3>2. QED
      BY <1>b, <1>6, <3>1 DEF NextSegment
  <2>3. next = Append(at, n + 1)
    BY <2>1 DEF PlacesAfter, n
  <2>4. after = Path(after.segments) /\ after.segments = Append(old, s)
    BY <2>2 DEF Path
  <2>5. after.segments \in Seq(Name) /\ Len(after.segments) = d + 1
    BY <1>4, <2>1, <2>4, AppendProperties
  <2>6. \A k \in 1..d : after.segments[k] = old[k]
    BY <1>4, <2>1, <2>4, AppendProperties
  <2>7. after.segments[d + 1] = s
    BY <1>4, <2>1, <2>4, AppendProperties
  <2>8. (\A k \in 1..d : next[k] = at[k]) /\ next[d + 1] = n + 1
    <3>1. at \in Seq(Nat) /\ n + 1 \in Nat
      <4>1. 1..n \subseteq Nat
        OBVIOUS
      <4>2. QED
        BY <1>1, <1>3, <4>1, SeqMonotonic
    <3>2. \A k \in 1..d : next[k] = at[k]
      BY <2>3, <3>1, AppendProperties DEF d
    <3>3. next[d + 1] = n + 1
      BY <2>3, <3>1, AppendProperties DEF d
    <3>4. QED
      BY <3>2, <3>3
  <2>9. \A k \in 1..(d + 1) : k \in 1..d \/ k = d + 1
    BY <1>3
  <2> HIDE DEF w, old
  <2>10. \A k \in 1..(d + 1) : after.segments[k] = more[next[k]]
    <3>1. \A k \in 1..d : after.segments[k] = more[next[k]]
      BY <1>8, <2>6, <2>8
    <3>2. after.segments[d + 1] = more[next[d + 1]]
      BY <1>1, <2>7, <2>8
    <3>3. QED
      BY <2>9, <3>1, <3>2
  <2>11. QED
    BY <2>1, <2>4, <2>5, <2>10
<1>11. ASSUME s = ".." PROVE Kept
  <2>1. w = -1
    BY <1>11, Weights
  <2>2. d \in Nat \ {0}
    <3>1. d + w >= 0
      BY DEF d
    <3> HIDE DEF w
    <3>2. QED
      BY <1>3, <2>1, <3>1
  <2>3. old # <<>>
    <3>1. Len(<<>>) = 0
      BY EmptySeq
    <3>2. QED
      BY <1>4, <2>2, <3>1
  <2>4. after = Path(Front(old))
    <3>1. s \notin {"", "."}
      BY <1>11
    <3>2. QED
      BY <1>b, <1>6, <1>11, <2>3, <3>1 DEF NextSegment
  <2>5. after = Path(after.segments) /\ after.segments = SubSeq(old, 1, d - 1)
    BY <1>4, <2>4 DEF Path, Front
  <2>6. next = SubSeq(at, 1, d - 1)
    BY <2>1 DEF PlacesAfter, d
  <2>7. after.segments \in Seq(Name) /\ Len(after.segments) = d - 1
    BY <1>4, <2>2, <2>5, ShorterSeq
  <2>8. \A k \in 1..(d - 1) : after.segments[k] = old[k]
    BY <1>4, <2>2, <2>5, ShorterSeq
  <2>9. \A k \in 1..(d - 1) : next[k] = at[k]
    BY <1>3, <2>2, <2>6, ShorterSeq DEF d
  <2>10. \A k \in 1..(d - 1) : k \in 1..d
    BY <2>2
  <2> HIDE DEF w, old
  <2>11. d + w = d - 1
    BY <2>1, <2>2
  <2>12. \A k \in 1..(d - 1) : after.segments[k] = more[next[k]]
    BY <1>8, <2>8, <2>9, <2>10
  <2>13. QED
    BY <2>5, <2>7, <2>11, <2>12
<1>12. Kept
  <2>1. s \in {"", "."} \/ s = ".." \/ s \notin {"", ".", ".."}
    OBVIOUS
  <2>2. QED
    BY <1>9, <1>10, <1>11, <2>1, Zenon
<1>13. AreKept(more, next)
  BY <1>12, <1>a DEF AreKept, after
<1>14. QED
  BY <1>13 DEF more

\* So the walk goes on from where it stands.
LEMMA WalkGoesOn ==
    ASSUME NEW raw \in Seq(STRING), NEW s \in STRING, Walked(raw)
    PROVE  Walked(Append(raw, s))
<1>1. CASE Escapes(raw)
  BY <1>1, RefusedForGood
<1>2. CASE ~Escapes(raw)
  <2>1. PICK at : StandsAt(raw, at)
    BY <1>2 DEF Walked
  <2>2. Len(at) \in Nat /\ Weight(s) \in Int /\ Rise(raw, 1, Len(raw)) = Len(at)
    BY <2>1, LenProperties, Weights DEF StandsAt, AreThoseThatStay, AreKept
  <2>6. Len(at) + Weight(s) >= 0 <=> ~(Len(at) + Weight(s) < 0)
    <3>1. \A d, w \in Int : d + w >= 0 <=> ~(d + w < 0)
      OBVIOUS
    <3>2. Len(at) \in Int
      BY <2>2
    <3>3. QED
      BY <2>2, <3>1, <3>2, Zenon
  <2>3. CASE Len(at) + Weight(s) < 0
    BY <2>1, <2>3, RefusedNow
  <2>4. CASE Len(at) + Weight(s) >= 0
    <3> DEFINE more == Append(raw, s)
    <3>1. PICK next : next = PlacesAfter(at, Len(raw), Weight(s))
      OBVIOUS
    <3>2. AreThoseThatStay(more, next) /\ Len(next) = Len(at) + Weight(s)
      BY <2>1, <2>4, <3>1, PlacesFollow
    <3>3. AreKept(more, next)
      BY <2>1, <2>4, <3>1, <3>2, SegmentsFollow
    <3>a. Len(more) = Len(raw) + 1
      BY OneMore
    <3>4. Rise(more, 1, Len(raw) + 1) = Len(at) + Weight(s)
      <4>1. 1 \in 1..(Len(raw) + 1)
        BY LenProperties
      <4>2. QED
        BY <2>2, <4>1, RiseOfMore
    <3>5. ~Escapes(more)
      <4>1. ~(Len(at) + Weight(s) < 0)
        BY <2>4, <2>6
      <4>2. QED
        BY <1>2, <2>2, <4>1, EscapesOfMore
    <3> HIDE DEF more
    <3>6. StandsAt(more, next)
      BY <3>2, <3>3, <3>a, <3>4 DEF StandsAt
    <3>7. QED
      BY <3>5, <3>6 DEF Walked, more
  <2>5. QED
    BY <2>3, <2>4, <2>6, Zenon
<1>3. QED
  BY <1>1, <1>2

\* Every path is walked to its end.
LEMMA EveryPathIsWalked == \A raw \in Seq(STRING) : Walked(raw)
<1> DEFINE S == {n \in Nat : \A raw \in Seq(STRING) : Len(raw) = n => Walked(raw)}
<1>1. 0 \in S
  <2>1. \A raw \in Seq(STRING) : Len(raw) = 0 => raw = <<>>
    BY EmptySeq
  <2>2. QED
    BY <2>1, WalkBegins
<1>2. ASSUME NEW n \in Nat, n \in S PROVE n + 1 \in S
  <2>1. SUFFICES ASSUME NEW raw \in Seq(STRING), Len(raw) = n + 1 PROVE Walked(raw)
    OBVIOUS
  <2>2. PICK most \in Seq(STRING), s \in STRING : raw = Append(most, s) /\ Len(most) = n
    BY <2>1, SeqSplitsOff
  <2>3. Walked(most)
    BY <1>2, <2>2
  <2>4. QED
    BY <2>2, <2>3, WalkGoesOn
<1> HIDE DEF S
<1>3. \A n \in Nat : n \in S
  BY <1>1, <1>2, Induction
<1>4. QED
  BY <1>3, LenProperties DEF S

-----------------------------------------------------------------------------
(* What a path comes to *)

\* The places up to one of them are as many as its number says.
LEMMA CountedByOrder ==
    ASSUME NEW at \in Seq(Nat), \A k, m \in 1..Len(at) : k < m => at[k] < at[m],
           NEW k \in 0..Len(at)
    PROVE  Cardinality({at[m] : m \in 1..k}) = k
<1> DEFINE T == {at[m] : m \in 1..k}
           f == [m \in 1..k |-> at[m]]
<1>1. k \in Nat /\ \A m \in 1..k : m \in 1..Len(at)
  OBVIOUS
<1>2. \A m \in 1..Len(at) : at[m] \in Nat
  BY ElementOfSeq
<1>3. ASSUME NEW a \in 1..k, NEW b \in 1..k, at[a] = at[b] PROVE a = b
  <2>1. ~(a < b) /\ ~(b < a)
    BY <1>1, <1>2, <1>3
  <2>2. QED
    BY <2>1
<1>4. f \in [1..k -> T]
  OBVIOUS
<1>5. f \in Injection(1..k, T)
  BY <1>3, <1>4 DEF Injection, IsInjective
<1>6. f \in Surjection(1..k, T)
  BY <1>4 DEF Surjection
<1>7. ExistsBijection(1..k, T)
  BY <1>5, <1>6 DEF ExistsBijection, Bijection
<1> HIDE DEF T
<1>8. Cardinality(T) = k
  BY <1>1, <1>7, FS_CountingElements
<1>9. QED
  BY <1>8 DEF T

\* The path a walk has kept is what remains of the segments.
LEMMA KeptIsRemaining ==
    ASSUME NEW raw \in Seq(STRING), NEW at, StandsAt(raw, at)
    PROVE  Normalise(raw) = Path(Remaining(raw))
<1> DEFINE n == Len(raw)
           d == Len(at)
           kept == Normalise(raw).segments
           T == Staying(raw)
<1>1. n \in Nat /\ DOMAIN raw = 1..n
  BY LenProperties
<1>2. at \in Seq(1..n) /\ d \in Nat
  BY LenProperties DEF StandsAt, AreThoseThatStay
<1>3. \A k, m \in 1..d : k < m => at[k] < at[m]
  BY DEF StandsAt, AreThoseThatStay
<1>4. \A i \in 1..n : Stays(raw, i) <=> \E k \in 1..d : at[k] = i
  BY DEF StandsAt, AreThoseThatStay
<1>5. Normalise(raw) = Path(kept) /\ kept \in Seq(Name) /\ Len(kept) = d
  BY DEF StandsAt, AreKept
<1>6. \A k \in 1..d : kept[k] = raw[at[k]]
  BY DEF StandsAt, AreKept
<1>7. \A k \in 1..d : at[k] \in 1..n
  BY <1>2, ElementOfSeq
<1>8. at \in Seq(Nat)
  <2>1. 1..n \subseteq Nat
    OBVIOUS
  <2>2. QED
    BY <1>2, <2>1, SeqMonotonic
<1>9. T = {i \in 1..n : Stays(raw, i)}
  BY <1>1 DEF Staying
<1>10. T = {at[m] : m \in 1..d}
  BY <1>4, <1>7, <1>9
<1>11. \A k \in 0..d : Cardinality({at[m] : m \in 1..k}) = k
  BY <1>3, <1>8, CountedByOrder
<1> HIDE DEF n, d, T, kept
<1>12. Cardinality(T) = d
  <2>1. d \in 0..d
    BY <1>2
  <2>2. Cardinality({at[m] : m \in 1..d}) = d
    BY <1>11, <2>1
  <2>3. QED
    BY <1>10, <2>2
<1>13. ASSUME NEW k \in 1..d PROVE Rank(raw, at[k]) = k
  <2>1. {j \in T : j <= at[k]} = {at[m] : m \in 1..k}
    <3>1. ASSUME NEW m \in 1..d PROVE at[m] <= at[k] <=> m \in 1..k
      <4>1. at[m] \in Nat /\ at[k] \in Nat
        BY <1>1, <1>7
      <4>2. CASE m < k
        BY <1>3, <4>1, <4>2
      <4>3. CASE m = k
        BY <4>1, <4>3
      <4>4. CASE k < m
        BY <1>3, <4>1, <4>4
      <4>5. QED
        BY <4>2, <4>3, <4>4
    <3>2. \A m \in 1..k : m \in 1..d
      BY <1>2
    <3>3. QED
      BY <1>10, <3>1, <3>2
  <2>2. k \in 0..d
    BY <1>2
  <2>3. QED
    BY <1>11, <2>1, <2>2 DEF Rank, T
<1>14. ASSUME NEW k \in 1..d PROVE (CHOOSE i \in T : Rank(raw, i) = k) = at[k]
  <2>1. at[k] \in T /\ Rank(raw, at[k]) = k
    BY <1>10, <1>13
  <2>2. ASSUME NEW i \in T, Rank(raw, i) = k PROVE i = at[k]
    <3>1. PICK m \in 1..d : i = at[m]
      BY <1>10
    <3>2. m = k
      BY <1>13, <2>2, <3>1
    <3>3. QED
      BY <3>1, <3>2
  <2>3. QED
    BY <2>1, <2>2
<1>15. Remaining(raw) = [k \in 1..d |-> raw[at[k]]]
  <2> DEFINE place(k) == CHOOSE i \in T : Rank(raw, i) = k
  <2>1. Remaining(raw) = [k \in 1..d |-> raw[place(k)]]
    BY <1>12, Zenon DEF Remaining, T
  <2>2. \A k \in 1..d : place(k) = at[k]
    BY <1>14
  <2> HIDE DEF place
  <2>3. QED
    BY <2>1, <2>2
<1>16. kept = [k \in 1..d |-> raw[at[k]]]
  <2>1. kept \in [1..d -> Name]
    BY <1>5, LenProperties
  <2>2. QED
    BY <1>6, <2>1
<1>17. QED
  BY <1>5, <1>15, <1>16

\* A path leads where a walk of its segments would, and is refused exactly if that walk
\* leaves the root: of any segments whatever.
LEMMA PathsAreTrue == ASSUME NEW raw \in Seq(STRING) PROVE LeadsWhereItSays(raw)
<1>1. Walked(raw)
  BY EveryPathIsWalked
<1>2. CASE Escapes(raw)
  BY <1>1, <1>2 DEF Walked, LeadsWhereItSays
<1>3. CASE ~Escapes(raw)
  BY <1>1, <1>3, KeptIsRemaining DEF Walked, LeadsWhereItSays
<1>4. QED
  BY <1>2, <1>3

\* What comes out is a sequence of names.
LEMMA OnlyNames ==
    ASSUME NEW raw \in Seq(STRING)
    PROVE  Normalise(raw).segments \in Seq(Name) /\ Normalise(raw).ok \in BOOLEAN
           /\ (Normalise(raw).ok => Normalise(raw) = Path(Normalise(raw).segments))
<1>1. Walked(raw)
  BY EveryPathIsWalked
<1>2. CASE Escapes(raw)
  <2>1. Normalise(raw) = InvalidPath
    BY <1>1, <1>2 DEF Walked
  <2>2. QED
    BY <2>1, EmptySeq DEF InvalidPath
<1>3. CASE ~Escapes(raw)
  <2>1. PICK at : StandsAt(raw, at)
    BY <1>1, <1>3 DEF Walked
  <2>2. Normalise(raw) = Path(Normalise(raw).segments) /\ Normalise(raw).segments \in Seq(Name)
    BY <2>1 DEF StandsAt, AreKept
  <2>3. Normalise(raw).ok = TRUE
    BY <2>2 DEF Path
  <2>4. QED
    BY <2>2, <2>3
<1>4. QED
  BY <1>2, <1>3

\* Names and nothings after a path are added to it, name by name.
Extends(p, name) ==
    \E q \in Seq(Name) : /\ Normalise(p \o name) = Path(p \o q)
                         /\ Len(q) <= Len(name)

LEMMA NamesAreStrings == \A p \in Seq(Name) : p \in Seq(STRING)
<1>1. Name \subseteq STRING
  BY DEF Name
<1>2. QED
  BY <1>1, SeqMonotonic

LEMMA NamesAreAdded ==
    \A name \in Seq(STRING \ {".."}) : \A p \in Seq(Name) : Normalise(p) = Path(p) => Extends(p, name)
<1> DEFINE Flat == STRING \ {".."}
           S == {n \in Nat : \A name \in Seq(Flat) : Len(name) = n =>
                    \A p \in Seq(Name) : Normalise(p) = Path(p) => Extends(p, name)}
<1> HIDE DEF Flat
<1>1. 0 \in S
  <2>1. SUFFICES ASSUME NEW name \in Seq(Flat), Len(name) = 0, NEW p \in Seq(Name), Normalise(p) = Path(p)
                 PROVE  Extends(p, name)
    OBVIOUS
  <2>2. name = <<>>
    BY <2>1, EmptySeq
  <2>3. p \o name = p /\ <<>> \in Seq(Name) /\ p \o <<>> = p
    BY <2>2, ConcatEmptySeq, EmptySeq
  <2>4. Normalise(p \o name) = Path(p \o <<>>) /\ Len(<<>>) <= Len(name)
    BY <2>1, <2>2, <2>3, EmptySeq
  <2>5. QED
    BY <2>3, <2>4 DEF Extends
<1>2. ASSUME NEW n \in Nat, n \in S PROVE n + 1 \in S
  <2>1. SUFFICES ASSUME NEW name \in Seq(Flat), Len(name) = n + 1, NEW p \in Seq(Name), Normalise(p) = Path(p)
                 PROVE  Extends(p, name)
    OBVIOUS
  <2>2. PICK most \in Seq(Flat), s \in Flat : name = Append(most, s) /\ Len(most) = n
    BY <2>1, SeqSplitsOff
  <2>3. Extends(p, most)
    BY <1>2, <2>1, <2>2
  <2>4. PICK q \in Seq(Name) : Normalise(p \o most) = Path(p \o q) /\ Len(q) <= n
    BY <2>2, <2>3 DEF Extends
  <2>5. p \in Seq(STRING) /\ most \in Seq(STRING) /\ s \in STRING /\ s # ".."
    <3>1. Flat \subseteq STRING /\ s # ".."
      BY DEF Flat
    <3>2. QED
      BY <3>1, NamesAreStrings, SeqMonotonic
  <2>6. p \o most \in Seq(STRING) /\ p \o name = Append(p \o most, s)
    BY <2>2, <2>5, ConcatProperties, AppendOfConcat
  <2>7. Normalise(p \o name) = NextSegment(Path(p \o q), s)
    BY <2>4, <2>5, <2>6, NormaliseMore
  <2>8. CASE s \in {"", "."}
    <3>1. NextSegment(Path(p \o q), s) = Path(p \o q)
      BY <2>8 DEF NextSegment
    <3>2. Len(q) <= Len(name)
      BY <2>1, <2>4, LenProperties
    <3>3. QED
      BY <2>7, <3>1, <3>2 DEF Extends
  <2>9. CASE s \notin {"", "."}
    <3>1. s \in Name /\ s \notin {"", "."} /\ s # ".."
      BY <2>5, <2>9 DEF Name
    <3>2. NextSegment(Path(p \o q), s) = Path(Append(p \o q, s))
      BY <3>1 DEF NextSegment, Path
    <3>3. Append(p \o q, s) = p \o Append(q, s)
      <4>1. \A x \in Name : p \o Append(q, x) = Append(p \o q, x)
        BY AppendOfConcat
      <4>2. QED
        BY <3>1, <4>1
    <3>4. Append(q, s) \in Seq(Name) /\ Len(Append(q, s)) = Len(q) + 1
      BY <3>1, AppendProperties
    <3>5. Len(Append(q, s)) <= Len(name)
      BY <2>1, <2>4, <3>4, LenProperties
    <3>6. QED
      BY <2>7, <3>2, <3>3, <3>4, <3>5 DEF Extends
  <2>10. QED
    BY <2>8, <2>9
<1> HIDE DEF S
<1>3. \A n \in Nat : n \in S
  BY <1>1, <1>2, Induction
<1>4. ASSUME NEW name \in Seq(Flat), NEW p \in Seq(Name), Normalise(p) = Path(p)
      PROVE  Extends(p, name)
  <2>1. Len(name) \in Nat
    BY LenProperties
  <2>2. Len(name) \in S
    BY <1>3, <2>1
  <2>3. QED
    BY <1>4, <2>2 DEF S
<1>5. QED
  BY <1>4 DEF Flat

\* A sequence of names is a path as it is.
LEMMA NamesStay == \A p \in Seq(Name) : Normalise(p) = Path(p)
<1>1. SUFFICES ASSUME NEW p \in Seq(Name) PROVE Normalise(p) = Path(p)
  OBVIOUS
<1> DEFINE S == {n \in Nat : \A q \in Seq(Name) : Len(q) = n => Normalise(q) = Path(q)}
<1>2. 0 \in S
  <2>1. \A q \in Seq(Name) : Len(q) = 0 => q = <<>>
    BY EmptySeq
  <2>2. QED
    BY <2>1, NormaliseNothing DEF Root
<1>3. ASSUME NEW n \in Nat, n \in S PROVE n + 1 \in S
  <2>1. SUFFICES ASSUME NEW q \in Seq(Name), Len(q) = n + 1 PROVE Normalise(q) = Path(q)
    OBVIOUS
  <2>2. PICK most \in Seq(Name), s \in Name : q = Append(most, s) /\ Len(most) = n
    BY <2>1, SeqSplitsOff
  <2>3. Normalise(most) = Path(most)
    BY <1>3, <2>2
  <2>4. most \in Seq(STRING) /\ s \in STRING /\ s \notin {"", "."} /\ s # ".."
    BY NamesAreStrings DEF Name
  <2>5. Normalise(q) = NextSegment(Path(most), s)
    BY <2>2, <2>3, <2>4, NormaliseMore
  <2>6. QED
    BY <2>2, <2>4, <2>5 DEF NextSegment, Path
<1> HIDE DEF S
<1>4. \A n \in Nat : n \in S
  BY <1>2, <1>3, Induction
<1>5. QED
  BY <1>4, LenProperties DEF S

\* Joining goes down: whatever is joined, to whatever path.
LEMMA JoinsGoDown ==
    ASSUME NEW p \in Seq(Name), NEW name \in Seq(STRING)
    PROVE  JoinGoesDown(p, name)
<1> DEFINE joined == Normalise(p \o name)
<1>1. SUFFICES ASSUME Join(p, name).ok
               PROVE  /\ IsStrictPrefix(p, Join(p, name).segments)
                      /\ Normalise(Join(p, name).segments) = Join(p, name)
                      /\ Len(name) = 1 => Parent(Join(p, name).segments) = p
  BY DEF JoinGoesDown
<1>2. ".." \notin Range(name) /\ joined # Path(p) /\ Join(p, name) = joined
  BY <1>1 DEF Join, InvalidPath
<1>3. name \in Seq(STRING \ {".."})
  <2>1. \A i \in 1..Len(name) : name[i] \in STRING /\ name[i] # ".."
    <3>1. \A i \in 1..Len(name) : name[i] \in STRING
      BY ElementOfSeq
    <3>2. DOMAIN name = 1..Len(name)
      BY LenProperties
    <3>3. \A i \in 1..Len(name) : name[i] # ".."
      BY <1>2, <3>2 DEF Range
    <3>4. QED
      BY <3>1, <3>3
  <2>2. name \in [1..Len(name) -> STRING \ {".."}] /\ Len(name) \in Nat
    BY <2>1, LenProperties
  <2>3. QED
    BY <2>2
<1>4. Normalise(p) = Path(p)
  BY NamesStay
<1>5. PICK q \in Seq(Name) : joined = Path(p \o q) /\ Len(q) <= Len(name)
  BY <1>3, <1>4, NamesAreAdded DEF Extends
<1>6. q # <<>>
  BY <1>2, <1>5, ConcatEmptySeq
<1>7. joined.segments = p \o q /\ p \o q \in Seq(Name)
  BY <1>5, ConcatProperties DEF Path
<1>8. IsStrictPrefix(p, p \o q)
  <2>1. Len(p) \in Nat /\ Len(q) \in Nat /\ Len(p \o q) = Len(p) + Len(q)
    BY ConcatProperties, LenProperties
  <2>2. p # p \o q
    BY <1>6, ConcatEqualIffEmpty
  <2>3. SubSeq(p \o q, 1, Len(p)) = SubSeq(p, 1, Len(p))
    <3>1. CASE p = <<>>
      <4>1. Len(p) = 0
        BY <3>1, EmptySeq
      <4>2. QED
        BY <4>1, SubSeqEmpty
    <3>2. CASE p # <<>>
      <4>1. 1 \in 1..Len(p) /\ Len(p) \in 1..Len(p)
        BY <3>2, EmptySeq
      <4>2. QED
        BY <4>1, SubSeqOfConcat1
    <3>3. QED
      BY <3>1, <3>2
  <2>4. QED
    BY <2>1, <2>2, <2>3 DEF IsStrictPrefix, IsPrefix
<1>9. Normalise(p \o q) = joined
  BY <1>5, <1>7, NamesStay
<1>10. ASSUME Len(name) = 1 PROVE Parent(p \o q) = p
  <2>1. Len(q) = 1
    <3>1. Len(q) \in Nat \ {0}
      BY <1>6, EmptySeq
    <3>2. QED
      BY <1>5, <1>10, <3>1
  <2>2. PICK none \in Seq(Name), s \in Name : q = Append(none, s) /\ Len(none) = 0
    <3>1. 0 \in Nat /\ Len(q) = 0 + 1
      BY <2>1
    <3>2. QED
      BY <3>1, SeqSplitsOff
  <2>3. none = <<>>
    BY <2>2, EmptySeq
  <2>4. p \o q = Append(p, s)
    <3>1. p \o q = Append(p \o none, s)
      BY <2>2, AppendOfConcat
    <3>2. QED
      BY <2>3, <3>1, ConcatEmptySeq
  <2>5. Append(p, s) # <<>> /\ Front(Append(p, s)) = p
    BY FrontOfMore
  <2>6. QED
    BY <2>4, <2>5 DEF Parent, Root
<1>11. QED
  BY <1>2, <1>7, <1>8, <1>9, <1>10

-----------------------------------------------------------------------------
(* The paths of the commands *)

\* What the backend is called about has been parsed.
Parsed == pc = "open" \/ asked # {} => Place.ok

LEMMA ParsedIsInvariant == Spec => []Parsed
<1>1. Init => Parsed
  BY DEF Init, Parsed
<1>2. Parsed /\ [Next]_vars => Parsed'
  <2> SUFFICES ASSUME Parsed, [Next]_vars PROVE Parsed'
    OBVIOUS
  <2>1. Place' = Place
    BY DEF Next, Work, Finished, Refused, Change, Ask, Show, CheckSource, OpenHandle, CreateDest, ReadSome,
           WriteSome, Flush, Close, Fail, DropHandle, Finish, Disturb, vars, command, Place
  <2> HIDE DEF Place
  <2>2. CASE Refused
    BY <2>1, <2>2 DEF Refused, Parsed
  <2>3. CASE Change \/ Ask \/ CheckSource
    BY <2>1, <2>3 DEF Change, Ask, CheckSource, Parsed
  <2>4. CASE OpenHandle
    BY <2>1, <2>4 DEF OpenHandle, Parsed
  <2>5. CASE Show \/ CreateDest \/ WriteSome \/ Flush \/ Close \/ Fail \/ DropHandle \/ Finish
    BY <2>1, <2>5 DEF Show, CreateDest, WriteSome, Flush, Close, Fail, DropHandle, Finish, Parsed
  <2>6. CASE ReadSome
    <3>1. pc' # "open" /\ asked' = asked
      BY <2>6 DEF ReadSome
    <3>2. QED
      BY <2>1, <3>1 DEF Parsed
  <2>7. CASE Disturb
    BY <2>1, <2>7 DEF Disturb, Parsed
  <2>8. CASE UNCHANGED vars
    BY <2>1, <2>8 DEF vars, Parsed
  <2>9. QED
    BY <2>2, <2>3, <2>4, <2>5, <2>6, <2>7, <2>8 DEF Next, Work, Finished
<1>3. QED
  BY <1>1, <1>2, PTL DEF Spec

\* Any text typed for a path, of any length, leads the backend where a walk of its segments
\* leads, is refused if that walk leaves the root, and goes down if it is joined to another.
THEOREM PathsAreRight == Spec => []PathsLeadWhereTheySay
<1>1. TypeOK /\ Parsed => PathsLeadWhereTheySay
  <2> SUFFICES ASSUME TypeOK, Parsed PROVE PathsLeadWhereTheySay
    OBVIOUS
  <2>1. arg \in Seq(STRING) /\ asked \subseteq {Place.segments}
    BY ArgsAssumption DEF TypeOK
  <2>2. LeadsWhereItSays(arg)
    BY <2>1, PathsAreTrue
  <2>3. ASSUME asked # {} PROVE asked = {Remaining(arg)} /\ ~Escapes(arg)
    <3>1. Place.ok /\ asked = {Place.segments}
      BY <2>1, <2>3 DEF Parsed
    <3>2. Place = IF Escapes(arg) THEN InvalidPath ELSE Path(Remaining(arg))
      BY <2>2 DEF LeadsWhereItSays, Place
    <3>3. ~Escapes(arg)
      BY <3>1, <3>2 DEF InvalidPath
    <3>4. QED
      BY <3>1, <3>2, <3>3 DEF Path
  <2>4. ASSUME NEW k \in 0..Len(arg), Normalise(SubSeq(arg, 1, k)).ok
        PROVE  JoinGoesDown(Normalise(SubSeq(arg, 1, k)).segments, SubSeq(arg, k + 1, Len(arg)))
    <3> DEFINE base == SubSeq(arg, 1, k)
               name == SubSeq(arg, k + 1, Len(arg))
    <3>1. \A i \in 1..Len(arg) : arg[i] \in STRING
      BY <2>1, ElementOfSeq
    <3>2. Len(arg) \in Nat /\ 1 \in Int /\ k \in Int /\ k + 1 \in Int
      BY <2>1, LenProperties
    <3>3. (\A i \in 1..k : arg[i] \in STRING) /\ (\A i \in (k + 1)..Len(arg) : arg[i] \in STRING)
      BY <3>1, <3>2
    <3>4. base \in Seq(STRING) /\ name \in Seq(STRING)
      BY <3>2, <3>3, SubSeqProperties
    <3> HIDE DEF base, name
    <3>5. Normalise(base).segments \in Seq(Name)
      BY <3>4, OnlyNames
    <3>6. JoinGoesDown(Normalise(base).segments, name)
      BY <3>4, <3>5, JoinsGoDown
    <3>7. QED
      BY <3>6 DEF base, name
  <2>5. QED
    BY <2>2, <2>3, <2>4 DEF PathsLeadWhereTheySay
<1>2. QED
  BY <1>1, TypeCorrect, ParsedIsInvariant, PTL

-----------------------------------------------------------------------------
(* How long a command takes *)

\* What the loops have left to do: each byte is read and written, and a round looks first
\* whether there is more.
LoopLeft ==
    2 * (MaxLen - offset - Len(buf)) + 2 * (MaxLen - offset) + IF pc = "read" THEN 1 ELSE 0

\* The steps the command itself can still make.
WorkLeft ==
    IF pc = "source" THEN 9 + 4 * MaxLen
    ELSE IF pc = "open" THEN 8 + 4 * MaxLen
    ELSE IF pc = "create" THEN 7 + 4 * MaxLen
    ELSE IF pc \in {"read", "write"} THEN 5 + LoopLeft
    ELSE IF pc \in {"call", "flush"} THEN 4
    ELSE IF pc \in {"print", "close"} THEN 3
    ELSE IF pc = "drop" THEN 2
    ELSE IF pc = "shutdown" THEN 1
    ELSE 0

\* With the one change somebody else may make of the source.
StepsLeft == WorkLeft + IF disturbed THEN 0 ELSE 1

\* In the loops, there are the bytes behind the offset to move and those of the buffer.
LEMMA LoopLeftRange ==
    ASSUME IInv, pc \in {"read", "write"}
    PROVE  LoopLeft \in 0..(4 * MaxLen + 1)
<1>1. /\ MaxLen \in Nat /\ offset \in Nat /\ Len(buf) \in Nat
      /\ offset + Len(buf) <= MaxLen
  BY NumbersType DEF IInv, Progress, Moving
<1> DEFINE n == Len(buf)
<1>2. n \in Nat /\ offset + n <= MaxLen
  BY <1>1
<1> HIDE DEF n
<1>3. 2 * (MaxLen - offset - n) + 2 * (MaxLen - offset) \in 0..(4 * MaxLen)
  BY <1>1, <1>2
<1>4. QED
  BY <1>1, <1>3 DEF LoopLeft, n

\* What is left is a number of steps, and as long as the block runs it is more than its end
\* takes.
LEMMA WorkLeftRange ==
    ASSUME IInv
    PROVE  /\ WorkLeft \in 0..(9 + 4 * MaxLen)
           /\ work = "none" => WorkLeft > 2
           /\ pc \in {"read", "write"} => WorkLeft > 4
<1>1. MaxLen \in Nat /\ 4 * MaxLen \in Nat
  BY BufLenAssumption
<1>2. CASE pc \in {"read", "write"}
  <2>1. LoopLeft \in 0..(4 * MaxLen + 1)
    BY <1>2, LoopLeftRange
  <2>2. WorkLeft = 5 + LoopLeft
    BY <1>2 DEF WorkLeft
  <2>3. QED
    BY <1>1, <2>1, <2>2
<1>3. CASE pc \notin {"read", "write"}
  <2>1. pc \in {"call", "print", "source", "open", "create", "flush", "close", "drop", "shutdown", "done"}
    BY <1>3 DEF IInv, TypeOK
  <2>2. work = "none" => pc \notin {"drop", "shutdown", "done"}
    BY DEF IInv, Ending
  <2>3. QED
    BY <1>1, <1>3, <2>1, <2>2 DEF WorkLeft
<1>4. QED
  BY <1>2, <1>3

\* A read that brings something takes two steps from every byte it brings, and one that
\* brings nothing ends the loop or begins to write.
LEMMA ReadGoesOn == IInv /\ ReadSome => WorkLeft' < WorkLeft
<1> SUFFICES ASSUME IInv, ReadSome PROVE WorkLeft' < WorkLeft
  OBVIOUS
<1>1. /\ BufLen \in Nat \ {0} /\ MaxLen \in Nat /\ offset \in Nat /\ cursor \in Nat
      /\ source \in 0..MaxLen /\ buf \in Seq(1..MaxLen) /\ Len(buf) \in Nat /\ Len(buf) <= BufLen
  BY NumbersType DEF IInv
<1>2. /\ pc = "read" /\ pc' \in {"read", "write", "flush"} /\ offset' = offset
  BY DEF ReadSome
<1>3. WorkLeft = 5 + LoopLeft /\ LoopLeft \in 0..(4 * MaxLen + 1)
  BY <1>2, LoopLeftRange DEF WorkLeft
<1>4. CASE source <= At \/ Len(buf) = BufLen
  <2>1. pc' = (IF buf = <<>> THEN "flush" ELSE "write") /\ buf' = buf
    BY <1>4 DEF ReadSome
  <2>2. CASE pc' = "flush"
    <3>1. WorkLeft' = 4
      BY <2>2 DEF WorkLeft
    <3>2. QED
      BY <1>1, <1>3, <3>1
  <2>3. CASE pc' = "write"
    <3>1. WorkLeft' = 5 + LoopLeft'
      BY <2>3 DEF WorkLeft
    <3>2. LoopLeft' = LoopLeft - 1
      <4> DEFINE n == Len(buf)
      <4>1. Len(buf') = n /\ n \in Nat
        BY <1>1, <2>1
      <4> HIDE DEF n
      <4>2. LoopLeft = 2 * (MaxLen - offset - n) + 2 * (MaxLen - offset) + 1
        BY <1>2 DEF LoopLeft, n
      <4>3. LoopLeft' = 2 * (MaxLen - offset - n) + 2 * (MaxLen - offset) + 0
        BY <1>2, <2>3, <4>1 DEF LoopLeft
      <4>4. QED
        BY <1>1, <4>1, <4>2, <4>3
    <3>3. QED
      BY <1>3, <1>1, <3>1, <3>2
  <2>4. QED
    BY <2>1, <2>2, <2>3
<1>5. CASE ~(source <= At \/ Len(buf) = BufLen)
  <2>1. PICK k \in 1..Least(source - At, BufLen - Len(buf)) :
           /\ buf' = buf \o Positions(At, k)
           /\ pc' = IF job = "get" THEN "write" ELSE "read"
    BY <1>5 DEF ReadSome
  <2>2. At \in Nat
    BY <1>1 DEF At
  <2>3. k \in Nat \ {0} /\ At + k <= MaxLen
    BY <1>1, <2>1, <2>2, <1>5 DEF Least
  <2> DEFINE more == Positions(At, k)
  <2>4. more \in Seq(1..MaxLen) /\ Len(more) = k
    BY <1>1, <2>2, <2>3, PositionsType
  <2>5. buf' = buf \o more
    BY <2>1
  <2> HIDE DEF more
  <2>6. Len(buf') = Len(buf) + k
    BY <1>1, <2>4, <2>5, ConcatProperties
  <2>7. WorkLeft' = 5 + LoopLeft'
    BY <2>1 DEF WorkLeft
  <2> DEFINE n == Len(buf)
             flag == IF pc' = "read" THEN 1 ELSE 0
  <2>8. n \in Nat /\ Len(buf') = n + k /\ flag \in 0..1
    BY <1>1, <2>6
  <2>9. LoopLeft = 2 * (MaxLen - offset - n) + 2 * (MaxLen - offset) + 1
    BY <1>2 DEF LoopLeft
  <2>10. LoopLeft' = 2 * (MaxLen - offset - (n + k)) + 2 * (MaxLen - offset) + flag
    BY <1>2, <2>8 DEF LoopLeft
  <2> HIDE DEF n, flag
  <2>11. QED
    BY <1>1, <1>3, <2>3, <2>7, <2>8, <2>9, <2>10
<1>6. QED
  BY <1>4, <1>5

\* A write takes two steps from every byte it moves, and adds the round that looks for more.
LEMMA WriteGoesOn == IInv /\ WriteSome => WorkLeft' < WorkLeft
<1> SUFFICES ASSUME IInv, WriteSome PROVE WorkLeft' < WorkLeft
  OBVIOUS
<1>1. MaxLen \in Nat /\ offset \in Nat /\ buf \in Seq(1..MaxLen) /\ Len(buf) \in Nat
  BY NumbersType DEF IInv
<1>2. PICK k \in 1..Len(buf) :
         /\ buf' = SubSeq(buf, k + 1, Len(buf))
         /\ offset' = offset + k
         /\ pc' = IF k = Len(buf) THEN "read" ELSE "write"
  BY DEF WriteSome
<1>3. pc = "write"
  BY DEF WriteSome
<1> DEFINE n == Len(buf)
           flag == IF pc' = "read" THEN 1 ELSE 0
<1>4. Len(buf') = n - k
  <2>1. \A i \in (k + 1)..Len(buf) : buf[i] \in 1..MaxLen
    <3>1. \A i \in 1..Len(buf) : buf[i] \in 1..MaxLen
      BY <1>1, ElementOfSeq
    <3>2. QED
      BY <1>1, <1>2, <3>1
  <2>2. Len(SubSeq(buf, k + 1, Len(buf))) = IF k + 1 <= Len(buf) THEN Len(buf) - (k + 1) + 1 ELSE 0
    BY <1>1, <1>2, <2>1, SubSeqProperties
  <2>3. QED
    BY <1>1, <1>2, <2>2
<1>5. WorkLeft = 5 + LoopLeft /\ WorkLeft' = 5 + LoopLeft'
  BY <1>2, <1>3 DEF WorkLeft
<1>6. LoopLeft = 2 * (MaxLen - offset - n) + 2 * (MaxLen - offset) + 0
  BY <1>3 DEF LoopLeft
<1>7. LoopLeft' = 2 * (MaxLen - (offset + k) - (n - k)) + 2 * (MaxLen - (offset + k)) + flag
  BY <1>2, <1>4 DEF LoopLeft
<1>8. n \in Nat /\ k \in Nat \ {0} /\ flag \in 0..1
  BY <1>1, <1>2
<1> HIDE DEF n, flag
<1>9. QED
  BY <1>1, <1>5, <1>6, <1>7, <1>8

\* Before anything is moved, the loops have every byte to read and to write.
LEMMA LoopsAtFirst ==
    ASSUME IInv, pc \in {"open", "create"}, pc' = "read", offset' = offset, buf' = buf
    PROVE  WorkLeft' = 6 + 4 * MaxLen
<1>1. MaxLen \in Nat /\ offset = 0 /\ Len(buf) = 0
  BY BufLenAssumption DEF IInv, Progress, NothingMoved
<1>2. LoopLeft' = 2 * (MaxLen - 0 - 0) + 2 * (MaxLen - 0) + 1
  BY <1>1 DEF LoopLeft
<1>3. WorkLeft' = 5 + LoopLeft'
  BY DEF WorkLeft
<1>4. QED
  BY <1>1, <1>2, <1>3

\* A call that fails leaves the block, which is nearer to the end than the loops are.
LEMMA EndIsNearer == IInv /\ (Refused \/ Fail) => WorkLeft' < WorkLeft
<1> SUFFICES ASSUME IInv, Refused \/ Fail PROVE WorkLeft' < WorkLeft
  OBVIOUS
<1>1. pc' = "drop" /\ (pc \in {"call", "source"} \/ work = "none")
  BY DEF Refused, Fail
<1>2. work = "none"
  BY <1>1 DEF IInv, Ending
<1>3. WorkLeft' = 2
  BY <1>1 DEF WorkLeft
<1>4. WorkLeft \in Nat /\ WorkLeft > 2
  BY <1>2, WorkLeftRange, BufLenAssumption
<1>5. QED
  BY <1>3, <1>4

\* So does every other call, whatever it has brought.
LEMMA WorkGoesOn == IInv /\ (Work \/ Fail) => WorkLeft' < WorkLeft
<1> SUFFICES ASSUME IInv, Work \/ Fail PROVE WorkLeft' < WorkLeft
  OBVIOUS
<1>1. MaxLen \in Nat /\ 4 * MaxLen \in Nat
  BY BufLenAssumption
<1>2. CASE Refused \/ Fail
  BY <1>2, EndIsNearer
<1>3. CASE Change \/ Ask \/ Show \/ Flush \/ Close \/ DropHandle \/ Finish
  <2>1. \/ pc \in {"call", "flush"} /\ pc' \in {"drop", "print", "close"}
        \/ pc \in {"print", "close"} /\ pc' = "drop"
        \/ pc = "drop" /\ pc' = "shutdown"
        \/ pc = "shutdown" /\ pc' = "done"
    BY <1>3 DEF Change, Ask, Show, Flush, Close, DropHandle, Finish
  <2>2. CASE pc \in {"call", "flush"} /\ pc' \in {"drop", "print", "close"}
    <3>1. WorkLeft = 4 /\ WorkLeft' \in {2, 3}
      BY <2>2 DEF WorkLeft
    <3>2. QED
      BY <3>1
  <2>3. CASE pc \in {"print", "close"} /\ pc' = "drop"
    <3>1. WorkLeft = 3 /\ WorkLeft' = 2
      BY <2>3 DEF WorkLeft
    <3>2. QED
      BY <3>1
  <2>4. CASE pc = "drop" /\ pc' = "shutdown"
    <3>1. WorkLeft = 2 /\ WorkLeft' = 1
      BY <2>4 DEF WorkLeft
    <3>2. QED
      BY <3>1
  <2>5. CASE pc = "shutdown" /\ pc' = "done"
    <3>1. WorkLeft = 1 /\ WorkLeft' = 0
      BY <2>5 DEF WorkLeft
    <3>2. QED
      BY <3>1
  <2>6. QED
    BY <2>1, <2>2, <2>3, <2>4, <2>5
<1>4. CASE CheckSource
  BY <1>1, <1>4 DEF CheckSource, WorkLeft
<1>5. CASE OpenHandle
  <2>1. WorkLeft = 8 + 4 * MaxLen
    BY <1>5 DEF OpenHandle, WorkLeft
  <2>2. CASE pc' = "create"
    BY <1>1, <2>1, <2>2 DEF WorkLeft
  <2>3. CASE pc' = "read"
    <3>1. pc = "open" /\ offset' = offset /\ buf' = buf
      BY <1>5 DEF OpenHandle, loop
    <3>2. WorkLeft' = 6 + 4 * MaxLen
      BY <2>3, <3>1, LoopsAtFirst
    <3>3. QED
      BY <1>1, <2>1, <3>2
  <2>4. QED
    BY <1>5, <2>2, <2>3 DEF OpenHandle
<1>6. CASE CreateDest
  <2>1. pc = "create" /\ pc' = "read" /\ offset' = offset /\ buf' = buf
    BY <1>6 DEF CreateDest, loop
  <2>2. WorkLeft' = 6 + 4 * MaxLen
    BY <2>1, LoopsAtFirst
  <2>3. WorkLeft = 7 + 4 * MaxLen
    BY <2>1 DEF WorkLeft
  <2>4. QED
    BY <1>1, <2>2, <2>3
<1>7. CASE ReadSome
  BY <1>7, ReadGoesOn
<1>8. CASE WriteSome
  BY <1>8, WriteGoesOn
<1>9. QED
  BY <1>2, <1>3, <1>4, <1>5, <1>6, <1>7, <1>8 DEF Work

\* What is left can be counted.
Counted == WorkLeft \in Nat

\* Whatever the reads and writes bring, whichever call fails and whoever changes the source,
\* every step brings the end nearer.  A command makes at most 4 * MaxLen + 10 of them: no
\* transfer runs on, however long the source and whatever becomes of it.
THEOREM CommandsAreFinite ==
    Spec => /\ [](StepsLeft \in 0..(4 * MaxLen + 10))
            /\ [][StepsLeft' < StepsLeft]_vars
<1>1. IInv => Counted /\ StepsLeft \in 0..(4 * MaxLen + 10)
  <2> SUFFICES ASSUME IInv PROVE WorkLeft \in Nat /\ StepsLeft \in 0..(4 * MaxLen + 10)
    BY DEF Counted
  <2>1. MaxLen \in Nat /\ 4 * MaxLen \in Nat /\ WorkLeft \in 0..(9 + 4 * MaxLen)
    BY WorkLeftRange, BufLenAssumption
  <2>2. QED
    BY <2>1 DEF StepsLeft
<1>2. IInv /\ Counted /\ Counted' /\ [Next]_vars => [StepsLeft' < StepsLeft]_vars
  <2> SUFFICES ASSUME IInv, Counted, Counted', [Next]_vars
               PROVE  [StepsLeft' < StepsLeft]_vars
    OBVIOUS
  <2>1. WorkLeft \in Nat /\ WorkLeft' \in Nat
    BY DEF Counted
  <2>2. CASE Work \/ Fail
    <3>1. WorkLeft' < WorkLeft
      BY <2>2, WorkGoesOn
    <3>2. disturbed' = disturbed
      BY <2>2 DEF Work, Fail, Refused, Change, Ask, Show, CheckSource, OpenHandle, CreateDest, ReadSome,
                  WriteSome, Flush, Close, DropHandle, Finish, world
    <3> DEFINE others == IF disturbed THEN 0 ELSE 1
    <3>3. StepsLeft = WorkLeft + others /\ StepsLeft' = WorkLeft' + others /\ others \in Nat
      BY <3>2 DEF StepsLeft
    <3> HIDE DEF others
    <3>4. StepsLeft' < StepsLeft
      <4>1. \A a, b, c \in Nat : a < b => a + c < b + c
        OBVIOUS
      <4>2. WorkLeft' + others < WorkLeft + others
        BY <2>1, <3>1, <3>3, <4>1
      <4>3. QED
        BY <3>3, <4>2
    <3>5. QED
      BY <3>4
  <2>3. CASE Disturb
    <3>1. pc' = pc /\ offset' = offset /\ buf' = buf /\ ~disturbed /\ disturbed'
      BY <2>3 DEF Disturb, loop
    <3>2. WorkLeft' = WorkLeft
      BY <3>1 DEF WorkLeft, LoopLeft
    <3>3. QED
      BY <2>1, <3>1, <3>2 DEF StepsLeft
  <2>4. CASE UNCHANGED vars
    BY <2>4
  <2>5. QED
    BY <2>2, <2>3, <2>4 DEF Next, Finished
<1>3. Spec => []Counted
  BY <1>1, InductiveInvariant, PTL
<1>4. Spec => [](StepsLeft \in 0..(4 * MaxLen + 10))
  BY <1>1, InductiveInvariant, PTL
<1>5. Spec => [][StepsLeft' < StepsLeft]_vars
  BY <1>2, <1>3, InductiveInvariant, PTL DEF Spec
<1>6. QED
  BY <1>4, <1>5
=============================================================================
