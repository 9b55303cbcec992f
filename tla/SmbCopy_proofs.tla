---------------------------- MODULE SmbCopy_proofs ----------------------------
(***************************************************************************)
(* Theorems about SmbCopy, for every chunk and every source: it implements *)
(* the contract of a copy.                                                 *)
(***************************************************************************)
EXTENDS SmbCopy, SequenceTheorems, TLAPS

-----------------------------------------------------------------------------
(* The inductive invariant *)

\* The blocks that follow block `from` of the source.
Follow(blocks, from) == \A i \in 1..Len(blocks) : blocks[i] = from + i

\* Both files are beginnings of what the source was, and the copy is the shorter one as
\* long as nobody truncates the source.
Blocks ==
    /\ Follow(source, 0) /\ Follow(dest, 0)
    /\ Len(source) <= MaxLen /\ Len(dest) <= MaxLen
    /\ "others" \notin faults => Len(dest) <= Len(source)

\* Before the destination is made there is nothing of the copy, and its size is the
\* source's once it was asked, unless that failed or the source has changed since.
Beginnings ==
    /\ pc \in {"open", "stat", "create"} => dest = <<>> /\ offset = 0 /\ name # "ours"
    /\ pc \notin {"open", "stat", "done"} /\ "stat" \notin faults /\ "others" \notin faults => size = Len(source)

\* The destination is open from its creation to the way out, and its name is the copy's.
Holding ==
    /\ dstOpen <=> pc \in {"key", "chunk", "read", "write", "drop"} \/ (pc = "leave" /\ outcome.st = "ok")
    /\ dstOpen => name = "ours"

\* Neither loop leaves a gap: all before the offset is written.  What is in the buffer
\* comes next.
Loops ==
    /\ pc \in {"key", "chunk", "read", "write"} => offset <= Len(dest)
    /\ pc = "write" =>
          /\ Follow(read, offset) /\ offset + Len(read) <= size
          /\ "others" \notin faults => offset + Len(read) <= Len(source)

\* A failure has removed what it made, unless the unlink failed or others meddled; a
\* success counts what is there.
Telling ==
    /\ outcome.st = "none" <=> pc \notin {"drop", "unlink", "leave", "done"}
    /\ outcome.st = "err" => outcome = Failed
    /\ outcome.st = "none" => outcome = Running
    /\ pc \in {"drop", "unlink"} => outcome = Failed
    /\ pc = "unlink" /\ name = "theirs" => "others" \in faults
    /\ pc = "leave" /\ outcome.st = "err" /\ "unlink" \notin faults => name # "ours"
    /\ pc = "leave" /\ outcome.st = "ok" =>
          /\ outcome.copied <= Len(dest)
          /\ "stat" \notin faults /\ "others" \notin faults =>
                Len(dest) = Len(source) /\ outcome.copied = Len(source)

IInv == TypeOK /\ Blocks /\ Beginnings /\ Holding /\ Loops /\ Telling

-----------------------------------------------------------------------------
(* Blocks that follow each other *)

\* The numbers and files of the type invariant, as the arithmetic needs them.
LEMMA NumbersType ==
    TypeOK => /\ ChunkBytes \in Nat \ {0} /\ MaxLen \in Nat
              /\ size \in Nat /\ size <= MaxLen /\ offset \in Nat /\ offset <= size
              /\ chunk \in Nat \ {0} /\ chunk <= ChunkBytes
              /\ source \in Seq(Nat) /\ Len(source) \in Nat
              /\ dest \in Seq(Nat) /\ Len(dest) \in Nat
              /\ read \in Seq(Nat) /\ Len(read) \in Nat /\ Len(read) <= ChunkBytes
<1> SUFFICES ASSUME TypeOK
             PROVE  /\ ChunkBytes \in Nat \ {0} /\ MaxLen \in Nat
                    /\ size \in Nat /\ size <= MaxLen /\ offset \in Nat /\ offset <= size
                    /\ chunk \in Nat \ {0} /\ chunk <= ChunkBytes
                    /\ source \in Seq(Nat) /\ Len(source) \in Nat
                    /\ dest \in Seq(Nat) /\ Len(dest) \in Nat
                    /\ read \in Seq(Nat) /\ Len(read) \in Nat /\ Len(read) <= ChunkBytes
  OBVIOUS
<1>1. /\ size \in 0..MaxLen /\ offset \in 0..size /\ chunk \in 1..ChunkBytes
      /\ source \in Seq(Nat) /\ dest \in Seq(Nat) /\ read \in Seq(Nat) /\ Len(read) <= ChunkBytes
  BY DEF TypeOK
<1>2. /\ size \in Nat /\ size <= MaxLen /\ offset \in Nat /\ offset <= size
      /\ chunk \in Nat \ {0} /\ chunk <= ChunkBytes
  BY <1>1, SizesAssumption
<1>3. Len(source) \in Nat /\ Len(dest) \in Nat /\ Len(read) \in Nat
  BY <1>1, LenProperties
<1>4. QED
  BY <1>1, <1>2, <1>3, SizesAssumption

\* A file whose blocks are the numbers of their places is a beginning of the source.
LEMMA FollowIsBeginning ==
    ASSUME NEW s \in Seq(Nat), Follow(s, 0)
    PROVE  s = Contract!Beginning(Len(s))
<1>1. Len(s) \in Nat /\ s = [i \in 1..Len(s) |-> s[i]]
  BY LenProperties
<1>2. \A i \in 1..Len(s) : s[i] = i
  BY DEF Follow
<1>3. QED
  BY <1>1, <1>2 DEF Contract!Beginning

\* A file is written where each of its m blocks belongs.
LEMMA InPlace ==
    ASSUME NEW m \in Nat, NEW e, DOMAIN e = 1..m, e = [i \in 1..m |-> e[i]], \A i \in 1..m : e[i] = i
    PROVE  e \in Seq(Nat) /\ Len(e) = m /\ Follow(e, 0)
<1>1. e = [i \in 1..m |-> i]
  OBVIOUS
<1>2. e \in Seq(Nat) /\ Len(e) = m
  BY <1>1
<1>3. QED
  BY <1>2 DEF Follow

\* The server's copy of a stretch of the source, and a write of the buffer's beginning,
\* put blocks in their places if nothing before the offset is missing.
LEMMA MovedInPlace ==
    ASSUME NEW n \in Nat, NEW k \in Nat, k = (IF offset + n > Len(dest) THEN offset + n ELSE Len(dest)),
           TypeOK, Blocks, offset <= Len(dest), offset + n <= Len(source)
    PROVE  LET d == Moved(offset, n) IN d \in Seq(Nat) /\ Len(d) = k /\ Follow(d, 0)
<1> DEFINE e == Moved(offset, n)
<1>1. e = [i \in 1..k |-> IF i > offset /\ i <= offset + n THEN source[i] ELSE dest[i]]
  BY DEF Moved
<1>2. ASSUME NEW i \in 1..k PROVE e[i] = i
  <2>0. /\ offset \in Nat /\ Len(dest) \in Nat /\ Len(source) \in Nat
        /\ \A j \in 1..Len(source) : source[j] = 0 + j
        /\ \A j \in 1..Len(dest) : dest[j] = 0 + j
    <3>1. offset \in Nat /\ Len(dest) \in Nat /\ Len(source) \in Nat
      BY NumbersType
    <3>2. \A j \in 1..Len(source) : source[j] = 0 + j
      BY DEF Blocks, Follow
    <3>3. \A j \in 1..Len(dest) : dest[j] = 0 + j
      BY DEF Blocks, Follow
    <3>4. QED
      BY <3>1, <3>2, <3>3
  <2>1. CASE i > offset /\ i <= offset + n
    BY <1>1, <2>0, <2>1
  <2>2. CASE ~(i > offset /\ i <= offset + n)
    <3>1. i \in 1..Len(dest)
      BY <2>0, <2>2
    <3>2. e[i] = dest[i] /\ dest[i] = 0 + i
      BY <1>1, <2>0, <2>2, <3>1
    <3>3. QED
      BY <3>1, <3>2
  <2>3. QED
    BY <2>1, <2>2
<1>3. DOMAIN e = 1..k /\ e = [i \in 1..k |-> e[i]]
  BY <1>1
<1> HIDE DEF e
<1>4. e \in Seq(Nat) /\ Len(e) = k /\ Follow(e, 0)
  BY <1>2, <1>3, InPlace
<1>5. QED
  BY <1>4 DEF e

LEMMA WrittenInPlace ==
    ASSUME NEW n \in 1..Len(read), NEW k \in Nat,
           k = (IF offset + n > Len(dest) THEN offset + n ELSE Len(dest)),
           TypeOK, Blocks, offset <= Len(dest), Follow(read, offset),
           dest' = [i \in 1..(IF offset + n > Len(dest) THEN offset + n ELSE Len(dest)) |->
                      IF i > offset /\ i <= offset + n THEN read[i - offset] ELSE dest[i]]
    PROVE  dest' \in Seq(Nat) /\ Len(dest') = k /\ Follow(dest', 0)
<1> DEFINE e == [i \in 1..k |-> IF i > offset /\ i <= offset + n THEN read[i - offset] ELSE dest[i]]
<1>1. dest' = e
  OBVIOUS
<1>2. ASSUME NEW i \in 1..k PROVE e[i] = i
  <2>0. /\ offset \in Nat /\ Len(dest) \in Nat /\ Len(read) \in Nat /\ n \in Nat
        /\ \A j \in 1..Len(read) : read[j] = offset + j
        /\ \A j \in 1..Len(dest) : dest[j] = 0 + j
    <3>1. offset \in Nat /\ Len(dest) \in Nat /\ Len(read) \in Nat
      BY NumbersType
    <3>2. \A j \in 1..Len(read) : read[j] = offset + j
      BY DEF Follow
    <3>3. \A j \in 1..Len(dest) : dest[j] = 0 + j
      BY DEF Blocks, Follow
    <3>4. n \in Nat
      BY <3>1
    <3>5. QED
      BY <3>1, <3>2, <3>3, <3>4
  <2>1. CASE i > offset /\ i <= offset + n
    <3>1. i - offset \in 1..Len(read)
      BY <2>0, <2>1
    <3>2. read[i - offset] = offset + (i - offset)
      BY <2>0, <3>1
    <3>3. e[i] = read[i - offset]
      BY <2>1
    <3>4. i \in Int /\ offset + (i - offset) = i
      BY <2>0
    <3>5. QED
      BY <3>2, <3>3, <3>4
  <2>2. CASE ~(i > offset /\ i <= offset + n)
    <3>1. i \in 1..Len(dest)
      BY <2>0, <2>2
    <3>2. e[i] = dest[i] /\ dest[i] = 0 + i
      BY <2>0, <2>2, <3>1
    <3>3. QED
      BY <3>1, <3>2
  <2>3. QED
    BY <2>1, <2>2
<1>3. DOMAIN e = 1..k /\ e = [i \in 1..k |-> e[i]]
  OBVIOUS
<1> HIDE DEF e
<1>4. e \in Seq(Nat) /\ Len(e) = k /\ Follow(e, 0)
  BY <1>2, <1>3, InPlace
<1>5. QED
  BY <1>1, <1>4

-----------------------------------------------------------------------------
(* The invariant holds *)

\* It holds before the first round-trip.
LEMMA InitInvariant == Init => IInv
<1> SUFFICES ASSUME Init PROVE IInv
  OBVIOUS
<1>1. PICK n \in 0..MaxLen : source = [i \in 1..n |-> i]
  BY DEF Init
<1>2. n \in Nat /\ MaxLen \in Nat /\ ChunkBytes \in Nat \ {0} /\ n <= MaxLen
  BY SizesAssumption
<1>3. source \in Seq(Nat) /\ Len(source) = n /\ Follow(source, 0)
  BY <1>1, <1>2 DEF Follow
<1>4. dest = <<>> /\ read = <<>> /\ <<>> \in Seq(Nat) /\ Len(<<>>) = 0
  BY DEF Init
<1>5. TypeOK
  <2>1. dest \in Seq(Nat) /\ read \in Seq(Nat) /\ Len(read) <= ChunkBytes
    BY <1>2, <1>4
  <2>2. size \in 0..MaxLen /\ offset \in 0..size /\ chunk \in 1..ChunkBytes
    BY <1>2 DEF Init
  <2>3. outcome \in Outcomes /\ faults \subseteq Faults
    BY DEF Init, Running, Outcomes
  <2>4. QED
    BY <1>3, <2>1, <2>2, <2>3 DEF Init, TypeOK
<1>6. Blocks
  BY <1>2, <1>3, <1>4 DEF Blocks, Follow
<1>7. Beginnings /\ Holding /\ Loops /\ Telling
  BY <1>4 DEF Init, Beginnings, Holding, Loops, Telling, Running
<1>8. QED
  BY <1>5, <1>6, <1>7 DEF IInv

\* COPYCHUNK moves blocks to where they belong; at the end all of them are there.
LEMMA ChunkKeepsInvariant == IInv /\ ChunkMoved => IInv'
<1> SUFFICES ASSUME IInv, ChunkMoved PROVE IInv'
  OBVIOUS
<1>1. /\ TypeOK /\ Blocks /\ Beginnings /\ Holding /\ Loops /\ Telling
      /\ pc = "chunk" /\ offset <= Len(dest) /\ dstOpen /\ outcome = Running
  BY DEF IInv, ChunkMoved, Loops, Holding, Telling
<1>2. PICK n \in 1..Least(chunk, size - offset) :
         /\ offset + n <= Len(source)
         /\ dest' = Moved(offset, n)
         /\ offset' = offset + n
         /\ IF offset' = size THEN outcome' = Copied(offset') /\ pc' = "leave"
                              ELSE UNCHANGED <<pc, outcome>>
  BY DEF ChunkMoved
<1>3. /\ n \in Nat /\ offset + n <= size /\ offset \in Nat /\ size \in Nat /\ size <= MaxLen /\ MaxLen \in Nat
      /\ Len(dest) \in Nat /\ Len(source) \in Nat
  BY <1>1, NumbersType DEF Least
<1>4. UNCHANGED <<source, name, faults, size, chunk, read, srcOpen, dstOpen>>
  BY DEF ChunkMoved, guards
<1>5. PICK k \in Nat : k = (IF offset + n > Len(dest) THEN offset + n ELSE Len(dest))
  BY <1>3
<1>6. dest' \in Seq(Nat) /\ Len(dest') = k /\ Follow(dest', 0)
  BY <1>1, <1>2, <1>3, <1>5, MovedInPlace
<1>7. offset' \in Nat /\ offset' <= size' /\ offset' \in 0..size' /\ offset' <= Len(dest')
  BY <1>2, <1>3, <1>4, <1>5, <1>6
<1>8. outcome' \in Outcomes /\ pc' \in {"chunk", "leave"}
  BY <1>1, <1>2, <1>7 DEF Copied, Outcomes, Running
<1>9. TypeOK'
  BY <1>1, <1>4, <1>6, <1>7, <1>8 DEF TypeOK
<1>10. Blocks'
  <2>1. k <= MaxLen /\ ("others" \notin faults => k <= Len(source))
    BY <1>1, <1>2, <1>3, <1>5 DEF Blocks
  <2>2. QED
    BY <1>1, <1>4, <1>6, <2>1 DEF Blocks, Follow
<1>11. Beginnings'
  BY <1>1, <1>4, <1>8 DEF Beginnings
<1>12. Holding'
  BY <1>1, <1>2, <1>4 DEF Holding, Copied
<1>13. Loops'
  BY <1>7, <1>8 DEF Loops
<1>14. Telling'
  <2>1. CASE offset' = size
    <3>1. outcome' = [st |-> "ok", copied |-> offset'] /\ pc' = "leave"
      BY <1>2, <2>1 DEF Copied
    <3>2. "stat" \notin faults /\ "others" \notin faults =>
             Len(dest') = Len(source') /\ offset' = Len(source')
      <4>1. "stat" \notin faults /\ "others" \notin faults => size = Len(source) /\ Len(dest) <= Len(source)
        BY <1>1 DEF Beginnings, Blocks
      <4>2. QED
        BY <1>2, <1>3, <1>4, <1>5, <1>6, <2>1, <4>1
    <3>3. QED
      BY <1>4, <1>7, <3>1, <3>2 DEF Telling
  <2>2. CASE offset' # size
    BY <1>1, <1>2, <1>4, <2>2 DEF Telling, Running
  <2>3. QED
    BY <2>1, <2>2
<1>15. QED
  BY <1>9, <1>10, <1>11, <1>12, <1>13, <1>14 DEF IInv

\* The buffer gets the blocks that follow the offset; a source with nothing more to give
\* ends the copy with what is there.
LEMMA ReadKeepsInvariant == IInv /\ ReadHere => IInv'
<1> SUFFICES ASSUME IInv, ReadHere PROVE IInv'
  OBVIOUS
<1> DEFINE most == Least(Least(ChunkBytes, size - offset),
                         IF offset < Len(source) THEN Len(source) - offset ELSE 0)
<1>1. /\ TypeOK /\ Blocks /\ Beginnings /\ Holding /\ Loops /\ Telling
      /\ pc = "read" /\ offset <= Len(dest) /\ dstOpen /\ outcome = Running
  BY DEF IInv, ReadHere, Loops, Holding, Telling
<1>2. /\ ChunkBytes \in Nat \ {0} /\ offset \in Nat /\ offset <= size /\ size \in Nat /\ size <= MaxLen
      /\ MaxLen \in Nat /\ Len(dest) \in Nat /\ Len(source) \in Nat /\ source \in Seq(Nat)
  BY <1>1, NumbersType
<1>3. UNCHANGED <<source, dest, name, faults, size, offset, chunk, srcOpen, dstOpen>>
  BY DEF ReadHere, guards, server
<1>4. CASE most = 0
  <2>1. outcome' = [st |-> "ok", copied |-> offset] /\ pc' = "leave" /\ UNCHANGED read
    BY <1>4 DEF ReadHere, Copied
  <2>2. outcome' \in Outcomes
    BY <1>2, <2>1 DEF Outcomes
  <2>3. TypeOK'
    BY <1>1, <1>3, <2>1, <2>2 DEF TypeOK
  <2>4. "stat" \notin faults /\ "others" \notin faults => Len(dest) = Len(source) /\ offset = Len(source)
    <3>1. size - offset <= 0 \/ Len(source) <= offset
      BY <1>2, <1>4 DEF Least
    <3>2. "stat" \notin faults /\ "others" \notin faults => size = Len(source) /\ Len(dest) <= Len(source)
      BY <1>1 DEF Beginnings, Blocks
    <3>3. QED
      BY <1>1, <1>2, <3>1, <3>2
  <2>5. Telling'
    BY <1>1, <1>3, <2>1, <2>4 DEF Telling
  <2>6. Blocks' /\ Beginnings' /\ Holding' /\ Loops'
    BY <1>1, <1>3, <2>1 DEF Blocks, Beginnings, Holding, Loops, Follow
  <2>7. QED
    BY <2>3, <2>5, <2>6 DEF IInv
<1>5. CASE most # 0
  <2>1. PICK n \in 1..most : read' = SubSeq(source, offset + 1, offset + n)
    BY <1>5 DEF ReadHere
  <2>2. pc' = "write" /\ UNCHANGED outcome
    BY <1>5 DEF ReadHere
  <2>3. n \in Nat \ {0} /\ n <= ChunkBytes /\ offset + n <= size /\ offset + n <= Len(source)
    BY <1>2 DEF Least
  <2>4. /\ read' \in Seq(Nat) /\ Len(read') = n
        /\ \A i \in 1..n : read'[i] = source[offset + i]
    <3>1. SubSeq(source, offset + 1, offset + n) \in Seq(Nat)
      BY <1>2, <2>1, <2>3
    <3>2. Len(SubSeq(source, offset + 1, offset + n)) = n
      BY <1>2, <2>3
    <3>3. \A i \in 1..n : SubSeq(source, offset + 1, offset + n)[i] = source[offset + i]
      BY <1>2, <2>3
    <3>4. QED
      BY <2>1, <3>1, <3>2, <3>3
  <2>5. Follow(read', offset)
    <3>1. ASSUME NEW i \in 1..n PROVE read'[i] = offset + i
      <4>1. offset + i \in 1..Len(source)
        BY <1>2, <2>3
      <4>2. source[offset + i] = 0 + (offset + i)
        BY <1>1, <4>1 DEF Blocks, Follow
      <4>3. QED
        BY <1>2, <2>4, <4>2
    <3>2. QED
      BY <2>4, <3>1 DEF Follow
  <2>6. TypeOK'
    BY <1>1, <1>3, <2>2, <2>3, <2>4 DEF TypeOK
  <2>7. Loops'
    <3>1. offset + Len(read') <= size /\ offset + Len(read') <= Len(source)
      BY <2>3, <2>4
    <3>2. Follow(read, offset)'
      BY <1>3, <2>5 DEF Follow
    <3>3. QED
      BY <1>1, <1>3, <2>2, <3>1, <3>2 DEF Loops
  <2>8. Telling'
    BY <1>1, <1>3, <2>2 DEF Telling, Running
  <2>9. Blocks' /\ Beginnings' /\ Holding'
    BY <1>1, <1>3, <2>2 DEF Blocks, Beginnings, Holding, Follow
  <2>10. QED
    BY <2>6, <2>7, <2>8, <2>9 DEF IInv
<1>6. QED
  BY <1>4, <1>5

\* A write takes the beginning of the buffer, and what is left of it comes next.
LEMMA WriteKeepsInvariant == IInv /\ WriteHere => IInv'
<1> SUFFICES ASSUME IInv, WriteHere PROVE IInv'
  OBVIOUS
<1>1. /\ TypeOK /\ Blocks /\ Beginnings /\ Holding /\ Loops /\ Telling
      /\ pc = "write" /\ offset <= Len(dest) /\ dstOpen /\ outcome = Running
      /\ Follow(read, offset) /\ offset + Len(read) <= size
      /\ "others" \notin faults => offset + Len(read) <= Len(source)
  BY DEF IInv, WriteHere, Loops, Holding, Telling
<1>2. PICK n \in 1..Len(read) :
         /\ dest' = [i \in 1..(IF offset + n > Len(dest) THEN offset + n ELSE Len(dest)) |->
                        IF i > offset /\ i <= offset + n THEN read[i - offset] ELSE dest[i]]
         /\ offset' = offset + n
         /\ read' = SubSeq(read, n + 1, Len(read))
  BY DEF WriteHere
<1>3. /\ n \in Nat \ {0} /\ n <= Len(read) /\ offset \in Nat /\ size \in Nat /\ size <= MaxLen
      /\ MaxLen \in Nat /\ Len(dest) \in Nat /\ Len(source) \in Nat /\ Len(read) \in Nat
      /\ Len(read) <= ChunkBytes /\ ChunkBytes \in Nat /\ read \in Seq(Nat)
  BY <1>1, NumbersType
<1>4. UNCHANGED <<source, name, faults, size, chunk, srcOpen, dstOpen>>
  BY DEF WriteHere, guards
<1>5. PICK k \in Nat : k = (IF offset + n > Len(dest) THEN offset + n ELSE Len(dest))
  BY <1>3
<1>6. dest' \in Seq(Nat) /\ Len(dest') = k /\ Follow(dest', 0)
  BY <1>1, <1>2, <1>5, WrittenInPlace
<1>7. /\ read' \in Seq(Nat) /\ Len(read') = Len(read) - n
      /\ \A i \in 1..(Len(read) - n) : read'[i] = read[n + i]
  <2> DEFINE rest == SubSeq(read, n + 1, Len(read))
  <2>1. \A i \in (n + 1)..Len(read) : read[i] \in Nat
    BY <1>3
  <2>2. rest \in Seq(Nat) /\ Len(rest) = Len(read) - n
    BY <1>3
  <2>3. \A i \in 1..(Len(read) - n) : rest[i] = read[n + i]
    BY <1>3
  <2>4. QED
    BY <1>2, <2>2, <2>3
<1>8. Follow(read', offset')
  <2>1. ASSUME NEW i \in 1..(Len(read) - n) PROVE read'[i] = offset' + i
    <3>1. n + i \in 1..Len(read)
      BY <1>3
    <3>2. read[n + i] = offset + (n + i)
      BY <1>1, <3>1 DEF Follow
    <3>3. QED
      BY <1>2, <1>3, <1>7, <3>2
  <2>2. QED
    BY <1>7, <2>1 DEF Follow
<1>9. /\ offset' \in Nat /\ offset' <= size' /\ offset' \in 0..size' /\ offset' <= Len(dest')
      /\ offset' + Len(read') = offset + Len(read) /\ Len(read') <= ChunkBytes
  <2>1. offset' = offset + n /\ Len(read') = Len(read) - n /\ Len(dest') = k /\ size' = size
    BY <1>2, <1>4, <1>6, <1>7
  <2>2. offset + n <= size
    BY <1>1, <1>3
  <2>3. QED
    BY <1>3, <1>5, <2>1, <2>2
<1>10. /\ pc' \in {"write", "read", "leave"} /\ outcome' \in Outcomes
       /\ pc' = "leave" => offset' = size /\ outcome' = [st |-> "ok", copied |-> offset']
       /\ pc' # "leave" => outcome' = Running
  BY <1>1, <1>9 DEF WriteHere, Copied, Running, Outcomes
<1>11. TypeOK'
  BY <1>1, <1>4, <1>6, <1>7, <1>9, <1>10 DEF TypeOK
<1>12. Blocks'
  <2>1. k <= MaxLen /\ ("others" \notin faults => k <= Len(source))
    BY <1>1, <1>2, <1>3, <1>5 DEF Blocks
  <2>2. QED
    BY <1>1, <1>4, <1>6, <2>1 DEF Blocks, Follow
<1>13. Beginnings'
  BY <1>1, <1>4, <1>10 DEF Beginnings
<1>14. Holding'
  BY <1>1, <1>4, <1>10 DEF Holding, Running
<1>15. Loops'
  <2>1. offset' + Len(read') <= size' /\ ("others" \notin faults' => offset' + Len(read') <= Len(source'))
    BY <1>1, <1>4, <1>9
  <2>2. QED
    BY <1>8, <1>9, <1>10, <2>1 DEF Loops, Follow
<1>16. Telling'
  <2>1. CASE pc' = "leave"
    <3>1. "stat" \notin faults /\ "others" \notin faults =>
             Len(dest') = Len(source') /\ offset' = Len(source')
      <4>1. "stat" \notin faults /\ "others" \notin faults => size = Len(source) /\ Len(dest) <= Len(source)
        BY <1>1 DEF Beginnings, Blocks
      <4>2. QED
        BY <1>2, <1>3, <1>4, <1>5, <1>6, <1>10, <2>1, <4>1
    <3>2. QED
      BY <1>4, <1>9, <1>10, <2>1, <3>1 DEF Telling
  <2>2. CASE pc' # "leave"
    BY <1>1, <1>4, <1>10, <2>2 DEF Telling, Running
  <2>3. QED
    BY <2>1, <2>2
<1>17. QED
  BY <1>11, <1>12, <1>13, <1>14, <1>15, <1>16 DEF IInv

\* Other clients shorten the source, which leaves its first blocks where they are.
LEMMA TruncateKeepsInvariant == IInv /\ TruncateSource => IInv'
<1> SUFFICES ASSUME IInv, TruncateSource PROVE IInv'
  OBVIOUS
<1>1. TypeOK /\ Blocks /\ Beginnings /\ Holding /\ Loops /\ Telling /\ "others" \in faults
  BY DEF IInv, TruncateSource
<1>2. PICK n \in 0..Len(source) : source' = SubSeq(source, 1, n)
  BY DEF TruncateSource
<1>3. UNCHANGED <<pc, dest, name, faults, size, offset, chunk, read, srcOpen, dstOpen, outcome>>
  BY DEF TruncateSource, local, guards
<1>4. n \in Nat /\ n <= Len(source) /\ source \in Seq(Nat) /\ Len(source) \in Nat /\ MaxLen \in Nat
  BY <1>1, NumbersType
<1>5. source' \in Seq(Nat) /\ Len(source') = n /\ \A i \in 1..n : source'[i] = source[i]
  <2>1. SubSeq(source, 1, n) \in Seq(Nat) /\ Len(SubSeq(source, 1, n)) = n
    BY <1>4
  <2>2. \A i \in 1..n : SubSeq(source, 1, n)[i] = source[i]
    BY <1>4
  <2>3. QED
    BY <1>2, <2>1, <2>2
<1>6. Follow(source', 0)
  BY <1>1, <1>4, <1>5 DEF Blocks, Follow
<1>7. TypeOK'
  BY <1>1, <1>3, <1>5 DEF TypeOK
<1>8. Blocks'
  <2>1. Follow(dest', 0) /\ Len(dest') <= MaxLen /\ Len(source') <= MaxLen
    BY <1>1, <1>3, <1>4, <1>5 DEF Blocks, Follow
  <2>2. QED
    BY <1>1, <1>3, <1>6, <2>1 DEF Blocks, Follow
<1>9. Beginnings' /\ Holding' /\ Loops' /\ Telling'
  BY <1>1, <1>3 DEF Beginnings, Holding, Loops, Telling, Follow
<1>10. QED
  BY <1>7, <1>8, <1>9 DEF IInv

\* Every step keeps it.
LEMMA NextInvariant == IInv /\ [Next]_vars => IInv'
<1> SUFFICES ASSUME IInv, [Next]_vars PROVE IInv'
  OBVIOUS
<1>0. TypeOK /\ Blocks /\ Beginnings /\ Holding /\ Loops /\ Telling
  BY DEF IInv
<1>n. /\ size \in Nat /\ offset \in Nat /\ Len(source) \in Nat /\ Len(dest) \in Nat
      /\ Len(source) <= MaxLen /\ MaxLen \in Nat
  BY <1>0, NumbersType DEF Blocks
<1> USE <1>0 DEF IInv, server, local, guards
<1>1. CASE OpenSource
  <2>1. TypeOK'
    <3>1. outcome' \in Outcomes
      BY <1>1 DEF OpenSource, TypeOK, Failed, Outcomes
    <3>2. srcOpen' \in BOOLEAN /\ pc' \in {"stat", "done"}
      BY <1>1 DEF OpenSource, TypeOK
    <3>3. QED
      BY <1>1, <3>1, <3>2 DEF OpenSource, TypeOK
  <2>2. Blocks' /\ Beginnings' /\ Holding' /\ Loops' /\ Telling'
    BY <1>1 DEF OpenSource, Failed, Blocks, Beginnings, Holding, Loops, Telling, Follow
  <2>3. QED
    BY <2>1, <2>2
<1>2. CASE StatSource
  <2>1. offset = 0 /\ size' \in 0..MaxLen /\ ("stat" \notin faults => size' = Len(source))
    BY <1>2, <1>n DEF StatSource, Beginnings
  <2>2. TypeOK'
    BY <1>2, <2>1 DEF StatSource, TypeOK
  <2>3. Blocks' /\ Beginnings' /\ Holding' /\ Loops' /\ Telling'
    BY <1>2, <2>1 DEF StatSource, Blocks, Beginnings, Holding, Loops, Telling, Follow
  <2>4. QED
    BY <2>2, <2>3
<1>3. CASE CreateDest
  <2>1. TypeOK'
    <3>1. outcome' \in Outcomes
      BY <1>3 DEF CreateDest, TypeOK, Failed, Copied, Outcomes
    <3>2. dstOpen' \in BOOLEAN /\ name' \in {"free", "ours", "theirs"} /\ pc' \in {"leave", "key"}
      BY <1>3 DEF CreateDest, TypeOK
    <3>3. QED
      BY <1>3, <3>1, <3>2 DEF CreateDest, TypeOK
  <2>2. Blocks' /\ Beginnings' /\ Holding' /\ Loops'
    <3>1. offset <= Len(dest)
      BY <1>3, <1>n DEF CreateDest, Beginnings
    <3>2. QED
      BY <1>3, <3>1 DEF CreateDest, Failed, Copied, Blocks, Beginnings, Holding, Loops, Telling, Follow
  <2>3. Telling'
    <3>1. dest = <<>> /\ Len(dest) = 0 /\ name # "ours" /\ outcome = Running
      BY <1>3 DEF CreateDest, Beginnings, Telling
    <3>2. CASE outcome' = Failed /\ pc' = "leave" /\ UNCHANGED name
      BY <3>1, <3>2 DEF Telling, Failed
    <3>3. CASE size = 0 /\ outcome' = Copied(0) /\ pc' = "leave"
      <4>1. "stat" \notin faults /\ "others" \notin faults => Len(source) = 0
        BY <1>3, <3>3 DEF CreateDest, Beginnings
      <4>2. UNCHANGED <<source, dest, faults>>
        BY <1>3 DEF CreateDest
      <4>3. QED
        BY <3>1, <3>3, <4>1, <4>2 DEF Telling, Copied
    <3>4. CASE pc' = "key" /\ UNCHANGED outcome
      BY <3>1, <3>4 DEF Telling, Running
    <3>5. QED
      BY <1>3, <3>2, <3>3, <3>4 DEF CreateDest
  <2>4. QED
    BY <2>1, <2>2, <2>3
<1>4. ASSUME pc \in {"key", "chunk"}, ServerSideFails \/ (pc' = "chunk" /\ UNCHANGED <<offset, outcome>>),
             chunk' \in 1..ChunkBytes, UNCHANGED <<server, size, read, guards>>
      PROVE  IInv'
  <2>1. offset' \in 0..size /\ offset' <= Len(dest)
    BY <1>4, <1>n DEF ServerSideFails, TypeOK, Loops
  <2>2. TypeOK'
    BY <1>4, <2>1 DEF ServerSideFails, TypeOK, Failed, Outcomes
  <2>3. Blocks' /\ Beginnings' /\ Holding' /\ Loops' /\ Telling'
    BY <1>4, <2>1 DEF ServerSideFails, Failed, Running, Blocks, Beginnings, Holding, Loops, Telling, Follow
  <2>4. QED
    BY <2>2, <2>3
<1>5. CASE ResumeKey
  BY <1>4, <1>5 DEF ResumeKey, TypeOK
<1>6. CASE ChunkMoved
  BY <1>6, ChunkKeepsInvariant
<1>7. CASE ChunkRefused
  <2>1. chunk' \in 1..ChunkBytes
    BY <1>7, NumbersType DEF ChunkRefused
  <2>2. ServerSideFails \/ (pc' = "chunk" /\ UNCHANGED <<offset, outcome>>)
    BY <1>7 DEF ChunkRefused
  <2>3. QED
    BY <1>4, <1>7, <2>1, <2>2 DEF ChunkRefused
<1>8. CASE ChunkOfNothing \/ HereFails
  <2>1. TypeOK'
    BY <1>8 DEF ChunkOfNothing, HereFails, TypeOK, Failed, Outcomes
  <2>2. Blocks' /\ Beginnings' /\ Holding' /\ Loops' /\ Telling'
    BY <1>8 DEF ChunkOfNothing, HereFails, Failed, Blocks, Beginnings, Holding, Loops, Telling, Follow
  <2>3. QED
    BY <2>1, <2>2
<1>9. CASE ReadHere
  BY <1>9, ReadKeepsInvariant
<1>10. CASE WriteHere
  BY <1>10, WriteKeepsInvariant
<1>11. CASE DropDest
  <2>1. TypeOK'
    BY <1>11 DEF DropDest, TypeOK
  <2>2. Blocks' /\ Beginnings' /\ Holding' /\ Loops' /\ Telling'
    BY <1>11 DEF DropDest, Failed, Blocks, Beginnings, Holding, Loops, Telling, Follow
  <2>3. QED
    BY <2>1, <2>2
<1>12. CASE Unlink
  <2>1. TypeOK'
    BY <1>12 DEF Unlink, TypeOK
  <2>2. Blocks' /\ Beginnings' /\ Holding' /\ Loops' /\ Telling'
    BY <1>12 DEF Unlink, Failed, Blocks, Beginnings, Holding, Loops, Telling, Follow
  <2>3. QED
    BY <2>1, <2>2
<1>13. CASE Leave
  <2>1. TypeOK'
    BY <1>13 DEF Leave, TypeOK
  <2>2. Blocks' /\ Beginnings' /\ Holding' /\ Loops' /\ Telling'
    BY <1>13 DEF Leave, Blocks, Beginnings, Holding, Loops, Telling, Follow
  <2>3. QED
    BY <2>1, <2>2
<1>14. CASE TruncateSource
  BY <1>14, TruncateKeepsInvariant
<1>15. CASE UseName
  <2>1. TypeOK'
    BY <1>15 DEF UseName, TypeOK
  <2>2. Blocks' /\ Beginnings' /\ Holding' /\ Loops' /\ Telling'
    BY <1>15 DEF UseName, Blocks, Beginnings, Holding, Loops, Telling, Follow
  <2>3. QED
    BY <2>1, <2>2
<1>16. CASE UNCHANGED vars
  <2>1. TypeOK'
    BY <1>16 DEF vars, TypeOK
  <2>2. Blocks' /\ Beginnings' /\ Holding' /\ Loops' /\ Telling'
    BY <1>16 DEF vars, Blocks, Beginnings, Holding, Loops, Telling, Follow
  <2>3. QED
    BY <2>1, <2>2
<1>17. QED
  BY <1>1, <1>2, <1>3, <1>5, <1>6, <1>7, <1>8, <1>9, <1>10, <1>11, <1>12, <1>13, <1>14, <1>15, <1>16
     DEF Next, CopyNext, Finished

\* Every block is in its place, the way out is told as it is, and a file is held open
\* exactly as long as the copy may still write it.
THEOREM InductiveInvariant == Spec => []IInv
<1>1. Init => IInv
  BY InitInvariant
<1>2. IInv /\ [Next]_vars => IInv'
  BY NextInvariant
<1>3. QED
  BY <1>1, <1>2, PTL DEF Spec

\* The variables of every copy keep their types: no chunk ever exceeds COPY_CHUNK_BYTES or
\* becomes empty, and no offset passes the size.
THEOREM TypeCorrect == Spec => []TypeOK
<1>1. IInv => TypeOK
  BY DEF IInv
<1>2. QED
  BY <1>1, InductiveInvariant, PTL

-----------------------------------------------------------------------------
(* The copy implements its contract *)

\* What the contract calls told.
Told == IF pc = "done" THEN outcome ELSE Running

\* A copy begins as the contract does.
LEMMA InitRefines == Init => Contract!Init
  BY DEF Init, Contract!Init, Contract!Beginning, Faults, Running

\* The destination is created once, where nothing was.
LEMMA CreateRefines == IInv /\ CreateDest => Contract!Create \/ UNCHANGED Contract!vars
<1> SUFFICES ASSUME IInv, CreateDest PROVE Contract!Create \/ UNCHANGED Contract!vars
  OBVIOUS
<1>1. /\ pc = "create" /\ pc' # "done" /\ ~dstOpen
      /\ UNCHANGED <<faults, source, dest>>
  BY DEF IInv, Holding, CreateDest
<1>2. Told = Running /\ Told' = Running
  BY <1>1 DEF Told
<1>3. CASE name = "free" /\ name' = "ours" /\ dstOpen' = TRUE
  BY <1>1, <1>2, <1>3 DEF Contract!Create, Contract!Copying, Told, Running
<1>4. CASE UNCHANGED <<name, dstOpen>>
  BY <1>1, <1>2, <1>4 DEF Contract!vars, Told
<1>5. QED
  BY <1>3, <1>4 DEF CreateDest

\* A write of either loop lets the copy grow, or changes nothing where the bytes were
\* there already.
LEMMA WriteRefines ==
    IInv /\ IInv' /\ (ChunkMoved \/ WriteHere) => Contract!Grow \/ UNCHANGED Contract!vars
<1> SUFFICES ASSUME IInv, IInv', ChunkMoved \/ WriteHere
             PROVE  Contract!Grow \/ UNCHANGED Contract!vars
  OBVIOUS
<1>1. /\ pc # "done" /\ pc' # "done" /\ dstOpen /\ dstOpen' = dstOpen
      /\ UNCHANGED <<faults, source, name>>
  BY DEF IInv, Holding, ChunkMoved, WriteHere, guards
<1>2. Told = Running /\ Told' = Running
  BY <1>1 DEF Told
<1>3. /\ dest \in Seq(Nat) /\ dest = Contract!Beginning(Len(dest)) /\ Len(dest) \in Nat
      /\ dest' \in Seq(Nat) /\ dest' = Contract!Beginning(Len(dest')) /\ Len(dest') \in Nat
      /\ Len(dest') <= MaxLen /\ ("others" \notin faults => Len(dest') <= Len(source)) /\ MaxLen \in Nat
  <2>1. /\ TypeOK /\ dest \in Seq(Nat) /\ Follow(dest, 0)
        /\ dest' \in Seq(Nat) /\ Follow(dest', 0)
        /\ Len(dest') <= MaxLen /\ ("others" \notin faults => Len(dest') <= Len(source))
    BY <1>1 DEF IInv, TypeOK, Blocks, Follow
  <2>2. dest = Contract!Beginning(Len(dest)) /\ dest' = Contract!Beginning(Len(dest'))
    BY <2>1, FollowIsBeginning
  <2>3. QED
    BY <2>1, <2>2, LenProperties, SizesAssumption
<1>4. Len(dest') >= Len(dest)
  <2>0. /\ TypeOK /\ Blocks /\ Loops
        /\ offset \in Nat /\ Len(read) \in Nat /\ size \in Nat /\ chunk \in Nat
    BY NumbersType DEF IInv
  <2>1. CASE ChunkMoved
    <3>1. PICK n \in 1..Least(chunk, size - offset) : dest' = Moved(offset, n) /\ offset + n <= Len(source)
      BY <2>1 DEF ChunkMoved
    <3>2. n \in Nat /\ offset <= Len(dest)
      BY <2>0, <2>1, <3>1 DEF ChunkMoved, Loops, Least
    <3>3. PICK k \in Nat : k = (IF offset + n > Len(dest) THEN offset + n ELSE Len(dest))
      BY <1>3, <2>0, <3>2
    <3>4. Len(dest') = k
      BY <2>0, <3>1, <3>2, <3>3, MovedInPlace
    <3>5. QED
      BY <1>3, <2>0, <3>2, <3>3, <3>4
  <2>2. CASE WriteHere
    <3>1. PICK n \in 1..Len(read) :
             dest' = [i \in 1..(IF offset + n > Len(dest) THEN offset + n ELSE Len(dest)) |->
                        IF i > offset /\ i <= offset + n THEN read[i - offset] ELSE dest[i]]
      BY <2>2 DEF WriteHere
    <3>2. n \in Nat /\ offset <= Len(dest) /\ Follow(read, offset)
      BY <2>0, <2>2, <3>1 DEF WriteHere, Loops
    <3>3. PICK k \in Nat : k = (IF offset + n > Len(dest) THEN offset + n ELSE Len(dest))
      BY <1>3, <2>0, <3>2
    <3>4. Len(dest') = k
      BY <2>0, <3>1, <3>2, <3>3, WrittenInPlace
    <3>5. QED
      BY <1>3, <2>0, <3>2, <3>3, <3>4
  <2>3. QED
    BY <2>1, <2>2
<1>5. CASE Len(dest') = Len(dest)
  BY <1>1, <1>2, <1>3, <1>5 DEF Contract!vars, Told
<1>6. CASE Len(dest') # Len(dest)
  <2>1. Len(dest') \in (Len(dest) + 1)..MaxLen
    BY <1>3, <1>4, <1>6
  <2>2. QED
    BY <1>1, <1>2, <1>3, <2>1 DEF Contract!Grow, Told
<1>7. QED
  BY <1>5, <1>6

\* The guards close, and the caller is told: of a success what is there, of a failure
\* when what there was is gone.
LEMMA LeaveRefines == IInv /\ Leave => Contract!Succeed \/ Contract!Fail
<1> SUFFICES ASSUME IInv, Leave PROVE Contract!Succeed \/ Contract!Fail
  OBVIOUS
<1>1. /\ pc = "leave" /\ pc' = "done" /\ dstOpen' = FALSE
      /\ UNCHANGED <<faults, source, name, dest, outcome>>
      /\ outcome \in Outcomes /\ dest \in Seq(Nat) /\ source \in Seq(Nat)
  BY DEF IInv, Leave, server, TypeOK
<1>2. Told = Running /\ Told' = outcome
  BY <1>1 DEF Told
<1>3. CASE outcome.st = "ok"
  <2>1. dstOpen /\ outcome.copied \in 0..Len(dest)
    <3>1. dstOpen /\ outcome.copied <= Len(dest) /\ outcome.copied \in Nat /\ Len(dest) \in Nat
      BY <1>1, <1>3 DEF IInv, Holding, Telling, Outcomes
    <3>2. QED
      BY <3>1
  <2>2. outcome = [st |-> "ok", copied |-> outcome.copied]
    BY <1>1, <1>3 DEF Outcomes
  <2>3. faults \cap {"stat", "others"} = {} => dest = source /\ outcome.copied = Len(source)
    <3>1. SUFFICES ASSUME faults \cap {"stat", "others"} = {}
                   PROVE  dest = source /\ outcome.copied = Len(source)
      OBVIOUS
    <3>2. Len(dest) = Len(source) /\ outcome.copied = Len(source)
      BY <1>1, <1>3, <3>1 DEF IInv, Telling
    <3>3. dest = Contract!Beginning(Len(dest)) /\ source = Contract!Beginning(Len(source))
      BY <1>1, FollowIsBeginning DEF IInv, Blocks
    <3>4. QED
      BY <3>2, <3>3
  <2>4. QED
    BY <1>1, <1>2, <2>1, <2>2, <2>3 DEF Contract!Succeed, Told
<1>4. CASE outcome.st = "err"
  <2>1. /\ ~dstOpen /\ dstOpen' = dstOpen
        /\ outcome = Failed /\ ("unlink" \notin faults => name # "ours")
    BY <1>1, <1>4 DEF IInv, TypeOK, Holding, Telling
  <2>2. QED
    BY <1>1, <1>2, <2>1 DEF Contract!Fail, Contract!Copying, Told, Running, Failed
<1>5. QED
  BY <1>1, <1>3, <1>4 DEF IInv, Telling, Outcomes

\* A source that cannot be opened is a failure before anything was made.
LEMMA OpenRefines == IInv /\ OpenSource => Contract!Fail \/ UNCHANGED Contract!vars
<1> SUFFICES ASSUME IInv, OpenSource PROVE Contract!Fail \/ UNCHANGED Contract!vars
  OBVIOUS
<1>1. /\ pc = "open" /\ ~dstOpen /\ name # "ours"
      /\ UNCHANGED <<faults, source, name, dest, dstOpen>>
  BY DEF IInv, OpenSource, Holding, Beginnings, server
<1>2. CASE pc' = "stat"
  BY <1>1, <1>2 DEF Contract!vars
<1>3. CASE outcome' = Failed /\ pc' = "done"
  BY <1>1, <1>3 DEF Contract!Fail, Contract!Copying, Running, Failed
<1>4. QED
  BY <1>2, <1>3 DEF OpenSource

\* The unlink removes the copy, or what others put in its place.
LEMMA UnlinkRefines ==
    IInv /\ Unlink => Contract!Remove \/ Contract!Others \/ UNCHANGED Contract!vars
<1> SUFFICES ASSUME IInv, Unlink
             PROVE  Contract!Remove \/ Contract!Others \/ UNCHANGED Contract!vars
  OBVIOUS
<1>1. /\ pc = "unlink" /\ pc' = "leave" /\ ~dstOpen /\ name \in {"free", "ours", "theirs"}
      /\ UNCHANGED <<faults, source, dest, dstOpen>>
      /\ name = "theirs" => "others" \in faults
  BY DEF IInv, Unlink, Holding, Telling, guards, TypeOK
<1>2. CASE name' = name
  BY <1>1, <1>2 DEF Contract!vars
<1>3. CASE name = "ours" /\ name' = "free"
  BY <1>1, <1>3 DEF Contract!Remove, Contract!Copying, Running
<1>4. CASE name = "theirs" /\ name' = "free"
  BY <1>1, <1>4 DEF Contract!Others
<1>5. QED
  BY <1>1, <1>2, <1>3, <1>4 DEF Unlink

\* Every round-trip is a step of the contract, or one of those it leaves open.
LEMMA NextRefines == IInv /\ IInv' /\ [Next]_vars => [Contract!Next]_(Contract!vars)
<1> SUFFICES ASSUME IInv, IInv', [Next]_vars PROVE Contract!Next \/ UNCHANGED Contract!vars
  OBVIOUS
<1>1. CASE OpenSource
  BY <1>1, OpenRefines DEF Contract!Next
<1>2. CASE CreateDest
  BY <1>2, CreateRefines DEF Contract!Next
<1>3. CASE ChunkMoved \/ WriteHere
  BY <1>3, WriteRefines DEF Contract!Next
<1>4. CASE Leave
  BY <1>4, LeaveRefines DEF Contract!Next
<1>5. CASE Unlink
  BY <1>5, UnlinkRefines DEF Contract!Next
<1>6. CASE DropDest
  BY <1>6 DEF DropDest, IInv, Holding, server, Contract!Next, Contract!GiveUp
<1>7. CASE TruncateSource
  BY <1>7 DEF TruncateSource, guards, Contract!Next, Contract!Others
<1>8. CASE UseName
  BY <1>8 DEF UseName, guards, Contract!Next, Contract!Others
<1>9. CASE StatSource \/ ResumeKey \/ ChunkOfNothing \/ ChunkRefused \/ ReadHere \/ HereFails
  <2>1. pc # "done" /\ pc' # "done" /\ UNCHANGED <<server, dstOpen>>
    BY <1>9 DEF StatSource, ResumeKey, ChunkOfNothing, ChunkRefused, ReadHere, HereFails,
                ServerSideFails, guards, server
  <2>2. QED
    BY <2>1 DEF server, Contract!vars
<1>10. CASE UNCHANGED vars
  BY <1>10 DEF vars, server, guards, Contract!vars
<1>11. QED
  BY <1>1, <1>2, <1>3, <1>4, <1>5, <1>6, <1>7, <1>8, <1>9, <1>10 DEF Next, CopyNext, Finished

\* A copy on a share is what StorageBackend::copy promises, for every chunk, every limit a
\* server may ask for and every source.
THEOREM CopyRefines == Spec => KeepsContract
<1>1. Init => Contract!Init
  BY InitRefines
<1>2. IInv /\ IInv' /\ [Next]_vars => [Contract!Next]_(Contract!vars)
  BY NextRefines
<1>3. QED
  BY <1>1, <1>2, InductiveInvariant, PTL DEF Spec, KeepsContract, Contract!Spec

-----------------------------------------------------------------------------
(* How long a copy takes *)

\* The round-trips a copy can still make.  On the server, each moves a block or asks for
\* less, and the second attempt begins anew; here, each block is read and written.
CopyLeft ==
    IF pc = "open" THEN 10 + 3 * MaxLen + ChunkBytes
    ELSE IF pc = "stat" THEN 9 + 3 * MaxLen + ChunkBytes
    ELSE IF pc = "create" THEN 8 + 3 * MaxLen + ChunkBytes
    ELSE IF pc = "key" THEN 7 + 3 * size + ChunkBytes
    ELSE IF pc = "chunk" THEN 6 + 2 * size + (size - offset) + chunk
    ELSE IF pc = "read" THEN 5 + 2 * (size - offset)
    ELSE IF pc = "write" THEN 4 + 2 * (size - offset)
    ELSE IF pc = "drop" THEN 3
    ELSE IF pc = "unlink" THEN 2
    ELSE IF pc = "leave" THEN 1
    ELSE 0

\* What is left can be counted, and leaving takes least.
LEMMA CopyLeftRange ==
    ASSUME IInv
    PROVE  /\ CopyLeft \in 0..(10 + 3 * MaxLen + ChunkBytes)
           /\ pc \in {"key", "chunk", "read", "write"} => CopyLeft > 3
           /\ pc \in {"key", "chunk"} => CopyLeft > 5 + 2 * size
<1>1. /\ ChunkBytes \in Nat \ {0} /\ MaxLen \in Nat
      /\ size \in Nat /\ size <= MaxLen /\ offset \in Nat /\ offset <= size
      /\ chunk \in Nat \ {0} /\ chunk <= ChunkBytes
  BY NumbersType DEF IInv
<1>2. CASE pc \in {"open", "stat", "create"}
  <2>1. CopyLeft \in {10 + 3 * MaxLen + ChunkBytes, 9 + 3 * MaxLen + ChunkBytes, 8 + 3 * MaxLen + ChunkBytes}
    BY <1>2 DEF CopyLeft
  <2>2. CopyLeft \in 0..(10 + 3 * MaxLen + ChunkBytes)
    BY <1>1, <2>1
  <2>3. QED
    BY <1>2, <2>2
<1>3. CASE pc = "key"
  <2>1. CopyLeft = 7 + 3 * size + ChunkBytes
    BY <1>3 DEF CopyLeft
  <2>2. QED
    BY <1>1, <2>1
<1>4. CASE pc = "chunk"
  <2>1. CopyLeft = 6 + 2 * size + (size - offset) + chunk
    BY <1>4 DEF CopyLeft
  <2>2. QED
    BY <1>1, <2>1
<1>5. CASE pc \in {"read", "write"}
  <2>1. CopyLeft \in {5 + 2 * (size - offset), 4 + 2 * (size - offset)}
    BY <1>5 DEF CopyLeft
  <2>2. CopyLeft \in 0..(10 + 3 * MaxLen + ChunkBytes) /\ CopyLeft > 3
    BY <1>1, <2>1
  <2>3. QED
    BY <1>5, <2>2
<1>6. CASE pc \in {"drop", "unlink", "leave", "done"}
  <2>1. CopyLeft \in {0, 1, 2, 3}
    BY <1>6 DEF CopyLeft
  <2>2. CopyLeft \in 0..(10 + 3 * MaxLen + ChunkBytes)
    BY <1>1, <2>1
  <2>3. QED
    BY <1>6, <2>2
<1>7. QED
  BY <1>2, <1>3, <1>4, <1>5, <1>6 DEF IInv, TypeOK

\* The second attempt is nearer to the end than the first one, wherever that was.
LEMMA FallbackGoesOn ==
    ASSUME IInv, pc \in {"key", "chunk"}, ServerSideFails, size' = size
    PROVE  CopyLeft' < CopyLeft
<1>1. size \in Nat /\ ChunkBytes \in Nat /\ MaxLen \in Nat
  BY NumbersType DEF IInv
<1>2. CopyLeft \in Int /\ CopyLeft > 3 /\ CopyLeft > 5 + 2 * size
  BY <1>1, CopyLeftRange
<1>3. CASE pc' = "read" /\ offset' = 0
  <2>1. CopyLeft' = 5 + 2 * (size - 0)
    BY <1>3 DEF CopyLeft
  <2>2. QED
    BY <1>1, <1>2, <2>1
<1>4. CASE pc' = "drop"
  <2>1. CopyLeft' = 3
    BY <1>4 DEF CopyLeft
  <2>2. QED
    BY <1>2, <2>1
<1>5. QED
  BY <1>3, <1>4 DEF ServerSideFails

\* A chunk that is moved is one the server need not move again.
LEMMA ChunkGoesOn == IInv /\ ChunkMoved => CopyLeft' < CopyLeft
<1> SUFFICES ASSUME IInv, ChunkMoved PROVE CopyLeft' < CopyLeft
  OBVIOUS
<1>1. size \in Nat /\ offset \in Nat /\ offset <= size /\ chunk \in Nat \ {0}
  BY NumbersType DEF IInv
<1>2. PICK n \in 1..Least(chunk, size - offset) : offset' = offset + n
  BY DEF ChunkMoved
<1>3. n \in Nat \ {0} /\ offset + n <= size
  BY <1>1, <1>2 DEF Least
<1>4. pc = "chunk" /\ pc' \in {"chunk", "leave"} /\ size' = size /\ chunk' = chunk
  BY DEF ChunkMoved
<1>5. CopyLeft = 6 + 2 * size + (size - offset) + chunk
  BY <1>4 DEF CopyLeft
<1>6. CASE pc' = "chunk"
  <2>1. CopyLeft' = 6 + 2 * size + (size - (offset + n)) + chunk
    BY <1>2, <1>4, <1>6 DEF CopyLeft
  <2>2. QED
    BY <1>1, <1>3, <1>5, <2>1
<1>7. CASE pc' = "leave"
  <2>1. CopyLeft' = 1
    BY <1>7 DEF CopyLeft
  <2>2. QED
    BY <1>1, <1>5, <2>1
<1>8. QED
  BY <1>4, <1>6, <1>7

\* A limit that is adopted is smaller than the chunk tried.
LEMMA LimitGoesOn == IInv /\ ChunkRefused => CopyLeft' < CopyLeft
<1> SUFFICES ASSUME IInv, ChunkRefused PROVE CopyLeft' < CopyLeft
  OBVIOUS
<1>1. size \in Nat /\ offset \in Nat /\ offset <= size /\ chunk \in Nat \ {0} /\ ChunkBytes \in Nat
  BY NumbersType DEF IInv
<1>2. pc = "chunk" /\ size' = size
  BY DEF ChunkRefused
<1>3. PICK limit \in 0..(ChunkBytes + 1) :
         IF limit > 0 /\ limit < chunk
         THEN chunk' = limit /\ UNCHANGED <<pc, offset, outcome>>
         ELSE ServerSideFails /\ UNCHANGED chunk
  BY DEF ChunkRefused
<1>4. CASE limit > 0 /\ limit < chunk
  <2>1. pc' = "chunk" /\ offset' = offset /\ chunk' = limit
    BY <1>2, <1>3, <1>4
  <2>2. CopyLeft = 6 + 2 * size + (size - offset) + chunk
    BY <1>2 DEF CopyLeft
  <2>3. CopyLeft' = 6 + 2 * size + (size - offset) + limit
    BY <1>2, <2>1 DEF CopyLeft
  <2>4. limit \in Nat
    BY <1>1, <1>3
  <2>5. QED
    BY <1>1, <1>4, <2>2, <2>3, <2>4
<1>5. CASE ~(limit > 0 /\ limit < chunk)
  BY <1>2, <1>3, <1>5, FallbackGoesOn
<1>6. QED
  BY <1>4, <1>5

\* What is read is written next, and then it is moved for good.
LEMMA HereGoesOn == IInv /\ (ReadHere \/ WriteHere \/ HereFails) => CopyLeft' < CopyLeft
<1> SUFFICES ASSUME IInv, ReadHere \/ WriteHere \/ HereFails PROVE CopyLeft' < CopyLeft
  OBVIOUS
<1>1. /\ size \in Nat /\ offset \in Nat /\ offset <= size /\ MaxLen \in Nat /\ ChunkBytes \in Nat
      /\ read \in Seq(Nat) /\ Len(read) \in Nat
  BY NumbersType DEF IInv
<1>2. pc \in {"read", "write"} /\ size' = size
  BY DEF ReadHere, WriteHere, HereFails, local
<1>3. CopyLeft \in Int /\ CopyLeft > 3
  BY <1>1, <1>2, CopyLeftRange
<1>4. CASE pc' \in {"drop", "leave"}
  <2>1. CopyLeft' \in {1, 3}
    BY <1>4 DEF CopyLeft
  <2>2. QED
    BY <1>3, <2>1
<1>5. CASE ReadHere /\ pc' = "write"
  <2>1. pc = "read" /\ offset' = offset
    BY <1>5 DEF ReadHere
  <2>2. CopyLeft = 5 + 2 * (size - offset) /\ CopyLeft' = 4 + 2 * (size - offset)
    BY <1>2, <1>5, <2>1 DEF CopyLeft
  <2>3. QED
    BY <1>1, <2>2
<1>6. CASE WriteHere /\ pc' \in {"read", "write"}
  <2>1. PICK n \in 1..Len(read) : offset' = offset + n
    BY <1>6 DEF WriteHere
  <2>2. CopyLeft = 4 + 2 * (size - offset)
    BY <1>6 DEF WriteHere, CopyLeft
  <2>3. CopyLeft' \in {5 + 2 * (size - (offset + n)), 4 + 2 * (size - (offset + n))}
    BY <1>2, <1>6, <2>1 DEF CopyLeft
  <2>4. QED
    BY <1>1, <2>1, <2>2, <2>3
<1>7. QED
  <2>1. ReadHere => pc' \in {"write", "leave"}
    BY DEF ReadHere
  <2>2. WriteHere => pc' \in {"read", "write", "leave"}
    BY DEF WriteHere
  <2>3. HereFails => pc' = "drop"
    BY DEF HereFails
  <2>4. QED
    BY <1>4, <1>5, <1>6, <2>1, <2>2, <2>3

\* Every round-trip brings the end nearer.
LEMMA CopyGoesOn == IInv /\ CopyNext => CopyLeft' < CopyLeft
<1> SUFFICES ASSUME IInv, CopyNext PROVE CopyLeft' < CopyLeft
  OBVIOUS
<1>1. /\ ChunkBytes \in Nat \ {0} /\ MaxLen \in Nat /\ size \in Nat /\ size <= MaxLen
      /\ offset \in Nat /\ offset <= size /\ chunk \in Nat /\ chunk <= ChunkBytes
  BY NumbersType DEF IInv
<1>2. CASE OpenSource
  <2>1. CopyLeft = 10 + 3 * MaxLen + ChunkBytes
    BY <1>2 DEF OpenSource, CopyLeft
  <2>2. CopyLeft' \in {9 + 3 * MaxLen + ChunkBytes, 0}
    BY <1>2 DEF OpenSource, CopyLeft
  <2>3. QED
    BY <1>1, <2>1, <2>2
<1>3. CASE StatSource
  <2>1. CopyLeft = 9 + 3 * MaxLen + ChunkBytes /\ CopyLeft' = 8 + 3 * MaxLen + ChunkBytes
    BY <1>3 DEF StatSource, CopyLeft
  <2>2. QED
    BY <1>1, <2>1
<1>4. CASE CreateDest
  <2>1. pc = "create" /\ pc' \in {"key", "leave"} /\ size' = size
    BY <1>4 DEF CreateDest, local
  <2>2. CopyLeft = 8 + 3 * MaxLen + ChunkBytes
    BY <2>1 DEF CopyLeft
  <2>3. CopyLeft' \in {7 + 3 * size + ChunkBytes, 1}
    BY <2>1 DEF CopyLeft
  <2>4. QED
    BY <1>1, <2>2, <2>3
<1>5. CASE ResumeKey
  <2>1. pc = "key" /\ size' = size /\ chunk' = chunk
    BY <1>5 DEF ResumeKey
  <2>2. CASE pc' = "chunk" /\ offset' = offset
    <3>1. CopyLeft = 7 + 3 * size + ChunkBytes
      BY <2>1 DEF CopyLeft
    <3>2. CopyLeft' = 6 + 2 * size + (size - offset) + chunk
      BY <2>1, <2>2 DEF CopyLeft
    <3>3. QED
      BY <1>1, <3>1, <3>2
  <2>3. CASE ServerSideFails
    BY <2>1, <2>3, FallbackGoesOn
  <2>4. QED
    BY <1>5, <2>2, <2>3 DEF ResumeKey
<1>6. CASE ChunkOfNothing
  <2>1. pc = "chunk" /\ pc' = "drop"
    BY <1>6 DEF ChunkOfNothing
  <2>2. CopyLeft \in Int /\ CopyLeft > 3
    BY <1>1, <2>1, CopyLeftRange
  <2>3. CopyLeft' = 3
    BY <2>1 DEF CopyLeft
  <2>4. QED
    BY <2>2, <2>3
<1>7. CASE DropDest \/ Unlink \/ Leave
  <2>1. \/ pc = "drop" /\ pc' = "unlink"
        \/ pc = "unlink" /\ pc' = "leave"
        \/ pc = "leave" /\ pc' = "done"
    BY <1>7 DEF DropDest, Unlink, Leave
  <2>2. \/ CopyLeft = 3 /\ CopyLeft' = 2
        \/ CopyLeft = 2 /\ CopyLeft' = 1
        \/ CopyLeft = 1 /\ CopyLeft' = 0
    BY <2>1 DEF CopyLeft
  <2>3. QED
    BY <2>2
<1>8. QED
  BY <1>2, <1>3, <1>4, <1>5, <1>6, <1>7, ChunkGoesOn, LimitGoesOn, HereGoesOn DEF CopyNext

\* A copy makes at most 10 + 3 * MaxLen + ChunkBytes round-trips, whatever limits the server
\* tells and however little it moves at a time: every one brings the end nearer, a second
\* attempt as well, and nothing the other clients do takes it further away.
THEOREM CopyIsFinite ==
    Spec => /\ [](CopyLeft \in 0..(10 + 3 * MaxLen + ChunkBytes))
            /\ [][IF CopyNext THEN CopyLeft' < CopyLeft ELSE CopyLeft' = CopyLeft]_vars
<1>1. IInv => CopyLeft \in 0..(10 + 3 * MaxLen + ChunkBytes)
  BY CopyLeftRange
<1>2. IInv /\ [Next]_vars => [IF CopyNext THEN CopyLeft' < CopyLeft ELSE CopyLeft' = CopyLeft]_vars
  <2> SUFFICES ASSUME IInv, [Next]_vars
               PROVE  [IF CopyNext THEN CopyLeft' < CopyLeft ELSE CopyLeft' = CopyLeft]_vars
    OBVIOUS
  <2>1. CASE CopyNext
    BY <2>1, CopyGoesOn
  <2>2. CASE ~CopyNext /\ (TruncateSource \/ UseName)
    <3>1. UNCHANGED <<pc, size, offset, chunk>>
      BY <2>2 DEF TruncateSource, UseName, local
    <3>2. CopyLeft' = CopyLeft
      BY <3>1 DEF CopyLeft
    <3>3. QED
      BY <2>2, <3>2
  <2>3. CASE UNCHANGED vars
    BY <2>3
  <2>4. QED
    BY <2>1, <2>2, <2>3 DEF Next, Finished
<1>3. Spec => [](CopyLeft \in 0..(10 + 3 * MaxLen + ChunkBytes))
  BY <1>1, InductiveInvariant, PTL
<1>4. Spec => [][IF CopyNext THEN CopyLeft' < CopyLeft ELSE CopyLeft' = CopyLeft]_vars
  BY <1>2, InductiveInvariant, PTL DEF Spec
<1>5. QED
  BY <1>3, <1>4
=============================================================================
