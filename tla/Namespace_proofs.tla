-------------------------- MODULE Namespace_proofs --------------------------
(* Theorems about Namespace, for every set of paths, files and tasks. *)
EXTENDS Namespace, SequenceTheorems, TLAPS

-----------------------------------------------------------------------------
(* The inductive invariant *)

\* What stands above something is a directory, all the way up to the root.
Rooted(T, I) ==
    \A q \in DOMAIN T : \A p \in Location :
       IsStrictPrefix(p, q) => p \in DOMAIN T /\ I[T[p]].kind = "dir"

\* A tree of paths T, whose files and directories are in I.
Tree(T, I) ==
    /\ DOMAIN I \subseteq Inode /\ I \in [DOMAIN I -> Node]
    /\ DOMAIN T \subseteq Location /\ T \in [DOMAIN T -> DOMAIN I]
    /\ \A p, q \in DOMAIN T : T[p] = T[q] => p = q
    /\ Rooted(T, I)

\* A copy holds its source, and its destination from the moment it made it; a local one
\* never unlinks, and a share's listing has no second step.
Holds(c, I) ==
    /\ c \in Call
    /\ c.src \in DOMAIN I \cup {None} /\ c.dst \in DOMAIN I \cup {None}
    /\ c.at \in {"create", "move", "unlink", "failed"} => c.src # None
    /\ c.at = "move" => c.dst # None
    /\ backend = "smb" => c.at # "next"
    /\ backend = "local" => c.at # "unlink"

\* While nobody else uses the share, the name a copy would unlink is that of the file it
\* made, and once it has unlinked it that file is nowhere.
Aims(c, T) ==
    backend = "smb" /\ ~others =>
       /\ c.at \in {"move", "unlink"} => c.to \in DOMAIN T /\ T[c.to] = c.dst
       /\ c.at = "failed" => \A p \in DOMAIN T : T[p] # c.dst

OneKindEach(out) == \A e, f \in out : e.name = f.name => e = f

\* A listing has said nothing that was not so, and what was there throughout it has said
\* or still has to look at.
Lists(c) ==
    /\ c.at = "next" =>
          /\ c.out \subseteq c.seen
          /\ c.always \subseteq Names(c.out) \cup c.todo
          /\ Names(c.out) \cap c.todo = {}
          /\ OneKindEach(c.out)
    /\ c.at = "listed" =>
          /\ c.out \subseteq c.seen
          /\ c.always \subseteq Names(c.out)
          /\ OneKindEach(c.out)

\* It has seen what is there now.
Sees(c, T, I) ==
    c.at = "next" =>
       /\ Entries(T, I, c.from) \subseteq c.seen
       /\ c.always \subseteq Names(Entries(T, I, c.from))

\* The session thread is in one call at most.
OneAtATime(C) ==
    backend = "smb" =>
       \A t, u \in Task : C[t].at # "idle" /\ C[u].at # "idle" => t = u

IInv ==
    /\ TypeOK
    /\ Rooted(tree, inode)
    /\ \A t \in Task : Holds(call[t], inode) /\ Aims(call[t], tree)
                       /\ Lists(call[t]) /\ Sees(call[t], tree, inode)
    /\ OneAtATime(call)

-----------------------------------------------------------------------------
(* Paths *)

Segments == Seq(STRING)

\* What every path of the tree is made of.
LEMMA PathFacts ==
    ASSUME NEW p \in Location
    PROVE  /\ p \in Segments /\ Len(p) \in Nat /\ DOMAIN p = 1..Len(p)
           /\ \A i \in 1..Len(p) : p[i] \in STRING /\ p[i] \notin {"", ".", ".."}
           /\ Parent(p) \in Location
<1>1. p \in Seq(STRING)
  BY LocationAssumption
<1>2. Len(p) \in Nat /\ DOMAIN p = 1..Len(p)
  BY <1>1, LenProperties
<1>3. \A i \in 1..Len(p) : p[i] \in STRING
  BY <1>1, ElementOfSeq
<1>4. Parent(p) \in Location
  <2>1. CASE p = Root
    BY <2>1 DEF Parent
  <2>2. CASE p # Root
    <3>1. Len(p) - 1 \in 0..Len(p)
      BY <1>1, <1>2, <2>2, EmptySeq DEF Root
    <3>2. Parent(p) = SubSeq(p, 1, Len(p) - 1)
      BY <2>2 DEF Parent, Front
    <3> QED BY <3>1, <3>2, LocationAssumption
  <2> QED BY <2>1, <2>2
<1> QED BY <1>1, <1>2, <1>3, <1>4, LocationAssumption DEF Segments

\* A path is a prefix of another if it agrees with it as far as it goes.
LEMMA PrefixFacts ==
    ASSUME NEW p \in Segments, NEW q \in Segments
    PROVE  IsPrefix(p, q) <=> Len(p) <= Len(q) /\ \A i \in 1..Len(p) : p[i] = q[i]
<1> DEFINE m == Len(p)
           n == Len(q)
<1>1. m \in Nat /\ n \in Nat
      /\ (\A i \in 1..m : p[i] \in STRING) /\ (\A i \in 1..n : q[i] \in STRING)
  BY LenProperties, ElementOfSeq DEF Segments
<1>2. ASSUME m <= n
      PROVE  SubSeq(p, 1, m) = SubSeq(q, 1, m) <=> \A i \in 1..m : p[i] = q[i]
  <2> DEFINE a == SubSeq(p, 1, m)
             b == SubSeq(q, 1, m)
  <2>1. a \in Segments /\ (\A i \in 1..m : a[i] = p[i]) /\ Len(a) = m
    <3>1. \A i \in 1..m : p[i] \in STRING
      BY <1>1
    <3> HIDE DEF m
    <3> QED BY <3>1, <1>1, SubSeqProperties DEF Segments
  <2>2. b \in Segments /\ (\A i \in 1..m : b[i] = q[i]) /\ Len(b) = m
    <3>1. \A i \in 1..m : q[i] \in STRING
      BY <1>1, <1>2
    <3> HIDE DEF m
    <3> QED BY <3>1, <1>1, SubSeqProperties DEF Segments
  <2> HIDE DEF a, b
  <2>3. (\A i \in 1..m : a[i] = b[i]) => a = b
    BY <2>1, <2>2, SeqEqual DEF Segments
  <2>4. a = b <=> \A i \in 1..m : p[i] = q[i]
    BY <2>1, <2>2, <2>3
  <2> QED BY <2>4 DEF a, b
<1> QED BY <1>1, <1>2 DEF IsPrefix

\* A strict prefix is shorter.
LEMMA StrictPrefixFacts ==
    ASSUME NEW p \in Segments, NEW q \in Segments
    PROVE  IsStrictPrefix(p, q) <=> Len(p) < Len(q) /\ \A i \in 1..Len(p) : p[i] = q[i]
<1>1. Len(p) \in Nat /\ Len(q) \in Nat
  BY LenProperties DEF Segments
<1>2. Len(p) = Len(q) /\ (\A i \in 1..Len(p) : p[i] = q[i]) => p = q
  BY SeqEqual DEF Segments
<1> QED BY <1>1, <1>2, PrefixFacts DEF IsStrictPrefix

\* The parent of a path is above it, and so is what is above the parent; nothing else is.
LEMMA Parents ==
    ASSUME NEW p \in Location, p # Root
    PROVE  /\ Parent(p) \in Location
           /\ IsStrictPrefix(Parent(p), p)
           /\ \A q \in Location : IsStrictPrefix(q, p) <=> IsPrefix(q, Parent(p))
<1>1. p \in Segments /\ Len(p) \in Nat \ {0} /\ \A i \in 1..Len(p) : p[i] \in STRING
  BY PathFacts, EmptySeq DEF Root, Segments
<1> DEFINE n == Len(p) - 1
           a == SubSeq(p, 1, n)
<1>2. Parent(p) = a
  BY DEF Parent, Front
<1>3. n \in Nat /\ n < Len(p)
  BY <1>1
<1>4. \A i \in 1..n : p[i] \in STRING
  BY <1>1
<1> HIDE DEF n
<1>5. a \in Segments /\ (\A i \in 1..n : a[i] = p[i]) /\ Len(a) = n
  BY <1>3, <1>4, SubSeqProperties DEF Segments
<1> HIDE DEF a
<1>6. IsStrictPrefix(a, p)
  BY <1>1, <1>3, <1>5, StrictPrefixFacts
<1>7. ASSUME NEW q \in Location PROVE IsStrictPrefix(q, p) <=> IsPrefix(q, a)
  <2>1. q \in Segments /\ Len(q) \in Nat
    BY PathFacts
  <2>2. Len(q) < Len(p) <=> Len(q) <= n
    BY <2>1, <1>1 DEF n
  <2> QED BY <2>1, <2>2, <1>1, <1>3, <1>5, StrictPrefixFacts, PrefixFacts
<1> QED BY <1>2, <1>6, <1>7, PathFacts

\* A name appended to a path.
LEMMA Appended ==
    ASSUME NEW p \in Segments, NEW name \in STRING
    PROVE  /\ Append(p, name) \in Segments /\ Len(Append(p, name)) = Len(p) + 1
           /\ Append(p, name)[Len(p) + 1] = name
           /\ \A i \in 1..Len(p) : Append(p, name)[i] = p[i]
<1>1. p \in Seq(STRING)
  BY DEF Segments
<1>2. Append(p, name) \in Seq(STRING) /\ Len(Append(p, name)) = Len(p) + 1
  BY <1>1, AppendProperties
<1>3. Append(p, name)[Len(p) + 1] = name
  BY <1>1, AppendProperties
<1>4. \A i \in 1..Len(p) : Append(p, name)[i] = p[i]
  BY <1>1, AppendProperties
<1> QED BY <1>2, <1>3, <1>4 DEF Segments

\* A child's path is its parent's with a name appended.
LEMMA Childhood ==
    ASSUME NEW p \in Location, NEW q \in Location,
           IsStrictPrefix(p, q), Len(q) = Len(p) + 1
    PROVE  /\ q = Append(p, FileName(q))
           /\ FileName(q) \in STRING /\ FileName(q) \notin {"", ".", ".."}
<1>1. p \in Segments /\ q \in Segments /\ Len(p) \in Nat /\ Len(q) \in Nat
  BY PathFacts
<1>2. FileName(q) = q[Len(q)] /\ Len(q) \in 1..Len(q)
  BY <1>1 DEF FileName, Last
<1>3. FileName(q) \in STRING /\ FileName(q) \notin {"", ".", ".."}
  BY <1>2, PathFacts
<1> DEFINE a == Append(p, FileName(q))
<1>4. a \in Segments /\ Len(a) = Len(p) + 1 /\ a[Len(p) + 1] = FileName(q)
      /\ \A i \in 1..Len(p) : a[i] = p[i]
  BY <1>1, <1>3, Appended
<1> HIDE DEF a
<1>5. \A i \in 1..Len(p) : p[i] = q[i]
  BY <1>1, StrictPrefixFacts
<1>6. \A i \in 1..Len(q) : a[i] = q[i]
  BY <1>1, <1>2, <1>4, <1>5
<1>7. a = q
  BY <1>1, <1>4, <1>6, SeqEqual DEF Segments
<1> QED BY <1>3, <1>7 DEF a

\* And a path with a name appended is a child's, of that name.
LEMMA Naming ==
    ASSUME NEW p \in Location, NEW name \in STRING
    PROVE  LET q == Append(p, name)
           IN  IsStrictPrefix(p, q) /\ Len(q) = Len(p) + 1 /\ FileName(q) = name
<1> DEFINE q == Append(p, name)
<1>1. p \in Segments /\ Len(p) \in Nat
  BY PathFacts
<1>2. /\ q \in Segments /\ Len(q) = Len(p) + 1
      /\ q[Len(p) + 1] = name /\ \A i \in 1..Len(p) : q[i] = p[i]
  BY <1>1, Appended
<1> HIDE DEF q
<1>3. IsStrictPrefix(p, q)
  BY <1>1, <1>2, StrictPrefixFacts
<1>4. FileName(q) = name
  BY <1>1, <1>2 DEF FileName, Last
<1> QED BY <1>2, <1>3, <1>4 DEF q

\* How prefixes of prefixes, and two prefixes of one path, are related.
LEMMA PrefixOrder ==
    ASSUME NEW p \in Segments, NEW q \in Segments, NEW r \in Segments
    PROVE  /\ IsPrefix(p, q) <=> p = q \/ IsStrictPrefix(p, q)
           /\ IsPrefix(p, q) /\ IsStrictPrefix(q, r) => IsStrictPrefix(p, r)
           /\ IsStrictPrefix(p, q) /\ IsPrefix(q, r) => IsStrictPrefix(p, r)
           /\ IsPrefix(p, r) /\ IsPrefix(q, r) => IsPrefix(p, q) \/ IsStrictPrefix(q, p)
<1>1. Len(p) \in Nat /\ Len(q) \in Nat /\ Len(r) \in Nat
  BY LenProperties DEF Segments
<1>2. IsPrefix(p, p)
  BY <1>1, PrefixFacts
<1>3. IsPrefix(p, q) <=> p = q \/ IsStrictPrefix(p, q)
  BY <1>2 DEF IsStrictPrefix
<1>4. ASSUME IsPrefix(p, q), IsStrictPrefix(q, r) PROVE IsStrictPrefix(p, r)
  <2>1. Len(p) <= Len(q) /\ \A i \in 1..Len(p) : p[i] = q[i]
    BY <1>4, PrefixFacts
  <2>2. Len(q) < Len(r) /\ \A i \in 1..Len(q) : q[i] = r[i]
    BY <1>4, StrictPrefixFacts
  <2>3. Len(p) < Len(r) /\ \A i \in 1..Len(p) : p[i] = r[i]
    BY <1>1, <2>1, <2>2
  <2> QED BY <2>3, StrictPrefixFacts
<1>5. ASSUME IsStrictPrefix(p, q), IsPrefix(q, r) PROVE IsStrictPrefix(p, r)
  <2>1. Len(p) < Len(q) /\ \A i \in 1..Len(p) : p[i] = q[i]
    BY <1>5, StrictPrefixFacts
  <2>2. Len(q) <= Len(r) /\ \A i \in 1..Len(q) : q[i] = r[i]
    BY <1>5, PrefixFacts
  <2>3. Len(p) < Len(r) /\ \A i \in 1..Len(p) : p[i] = r[i]
    BY <1>1, <2>1, <2>2
  <2> QED BY <2>3, StrictPrefixFacts
<1>6. ASSUME IsPrefix(p, r), IsPrefix(q, r) PROVE IsPrefix(p, q) \/ IsStrictPrefix(q, p)
  <2>1. /\ Len(p) <= Len(r) /\ \A i \in 1..Len(p) : p[i] = r[i]
        /\ Len(q) <= Len(r) /\ \A i \in 1..Len(q) : q[i] = r[i]
    BY <1>6, PrefixFacts
  <2>2. CASE Len(p) <= Len(q)
    <3>1. \A i \in 1..Len(p) : p[i] = q[i]
      BY <1>1, <2>1, <2>2
    <3> QED BY <2>2, <3>1, PrefixFacts
  <2>3. CASE Len(q) < Len(p)
    <3>1. \A i \in 1..Len(q) : q[i] = p[i]
      BY <1>1, <2>1, <2>3
    <3> QED BY <2>3, <3>1, StrictPrefixFacts
  <2> QED BY <1>1, <2>2, <2>3
<1> QED BY <1>3, <1>4, <1>5, <1>6

-----------------------------------------------------------------------------
(* Trees *)

\* Something new, in a directory, leaves a tree.
LEMMA GrownTree ==
    ASSUME NEW T0, NEW I0, Tree(T0, I0),
           NEW p \in Location, p \notin DOMAIN T0,
           p = Root \/ (Parent(p) \in DOMAIN T0 /\ I0[T0[Parent(p)]].kind = "dir"),
           NEW x \in Inode, x \notin DOMAIN I0, NEW node \in Node
    PROVE  Tree(With(T0, p, x), With(I0, x, node))
<1> DEFINE T == With(T0, p, x)
           I == With(I0, x, node)
<1>1. p \notin DOMAIN T0 /\ x \in Inode /\ x \notin DOMAIN I0
  OBVIOUS
<1>2. /\ DOMAIN T = DOMAIN T0 \cup {p} /\ T[p] = x
      /\ \A q \in DOMAIN T0 : T[q] = T0[q]
  BY <1>1 DEF With
<1>3. /\ DOMAIN I = DOMAIN I0 \cup {x} /\ I[x] = node
      /\ \A y \in DOMAIN I0 : I[y] = I0[y]
  BY <1>1 DEF With
<1>4. I \in [DOMAIN I -> Node]
  <2>1. \A y \in DOMAIN I : I[y] \in Node
    BY <1>3 DEF Tree
  <2>2. I = [y \in DOMAIN I |-> I[y]]
    BY DEF With
  <2> HIDE DEF I
  <2> QED BY <2>1, <2>2
<1>5. T \in [DOMAIN T -> DOMAIN I]
  <2>1. \A q \in DOMAIN T : T[q] \in DOMAIN I
    BY <1>2, <1>3 DEF Tree
  <2>2. T = [q \in DOMAIN T |-> T[q]]
    BY DEF With
  <2> HIDE DEF I, T
  <2> QED BY <2>1, <2>2
<1> HIDE DEF T, I
<1>6. \A q, r \in DOMAIN T : T[q] = T[r] => q = r
  BY <1>1, <1>2 DEF Tree
<1>7. ASSUME NEW q \in DOMAIN T, NEW r \in Location, IsStrictPrefix(r, q)
      PROVE  r \in DOMAIN T0 /\ I0[T0[r]].kind = "dir"
  <2>1. CASE q \in DOMAIN T0
    BY <1>7, <2>1 DEF Tree, Rooted
  <2>2. CASE q = p
    <3>1. r \in Segments /\ Len(r) \in Nat /\ q \in Segments
      BY <2>2, PathFacts
    <3>2. p # Root
      BY <1>7, <2>2, <3>1, StrictPrefixFacts, EmptySeq DEF Root
    <3>3. Parent(p) \in DOMAIN T0 /\ I0[T0[Parent(p)]].kind = "dir"
      BY <3>2
    <3>4. Parent(p) \in Location /\ IsPrefix(r, Parent(p))
      BY <1>7, <2>2, <3>2, Parents
    <3>5. Parent(p) \in Segments
      BY <3>4, PathFacts
    <3>6. r = Parent(p) \/ IsStrictPrefix(r, Parent(p))
      BY <3>1, <3>4, <3>5, PrefixOrder
    <3> QED BY <3>3, <3>6 DEF Tree, Rooted
  <2> QED BY <1>2, <2>1, <2>2
<1>8. Rooted(T, I)
  <2>1. \A r \in DOMAIN T0 : r \in DOMAIN T /\ T[r] = T0[r] /\ I[T0[r]] = I0[T0[r]]
    BY <1>2, <1>3 DEF Tree
  <2> QED BY <1>7, <2>1 DEF Rooted
<1>9. DOMAIN T \subseteq Location /\ DOMAIN I \subseteq Inode
  BY <1>1, <1>2, <1>3 DEF Tree
<1> QED BY <1>4, <1>5, <1>6, <1>8, <1>9 DEF T, I, Tree

LEMMA MadeTree ==
    ASSUME Tree(tree, inode), NEW p \in Location, MayBeMade(p),
           NEW x \in Fresh, NEW node \in Node
    PROVE  Tree(With(tree, p, x), With(inode, x, node))
<1>1. p \notin DOMAIN tree
      /\ (p = Root \/ (Parent(p) \in DOMAIN tree /\ inode[tree[Parent(p)]].kind = "dir"))
  BY DEF MayBeMade, Exists, IsKind, At
<1>2. x \in Inode /\ x \notin DOMAIN inode
  BY DEF Fresh
<1> QED BY <1>1, <1>2, GrownTree

\* What is not a directory has nothing below it.
LEMMA NothingBelow ==
    ASSUME Tree(tree, inode), NEW p \in Location, Exists(p), ~IsKind(p, "dir")
    PROVE  Below(tree, p) = {}
  BY DEF Tree, Rooted, Below, Exists, IsKind, At

\* A tree without something that has nothing below it is a tree.
LEMMA CutTree ==
    ASSUME Tree(tree, inode), NEW p \in Location, Below(tree, p) = {}
    PROVE  Tree(Without(tree, {p}), inode)
<1> DEFINE T == Without(tree, {p})
<1>1. DOMAIN T = DOMAIN tree \ {p} /\ \A q \in DOMAIN T : T[q] = tree[q]
  BY DEF Without
<1>2. T \in [DOMAIN T -> DOMAIN inode]
  BY DEF Without, Tree
<1> HIDE DEF T
<1>3. \A q, r \in DOMAIN T : T[q] = T[r] => q = r
  BY <1>1 DEF Tree
<1>4. ASSUME NEW q \in DOMAIN T, NEW r \in Location, IsStrictPrefix(r, q)
      PROVE  r \in DOMAIN T /\ inode[T[r]].kind = "dir"
  <2>1. r \in DOMAIN tree /\ inode[tree[r]].kind = "dir"
    BY <1>1, <1>4 DEF Tree, Rooted
  <2>2. r # p
    BY <1>1, <1>4 DEF Below
  <2> QED BY <1>1, <2>1, <2>2
<1> QED BY <1>1, <1>2, <1>3, <1>4 DEF T, Tree, Rooted

\* Nor does it matter how long a file is.
LEMMA ResizedTree ==
    ASSUME Tree(tree, inode), NEW x \in DOMAIN inode, NEW n \in 0..MaxLen
    PROVE  Tree(tree, [inode EXCEPT ![x].len = n])
<1> DEFINE I == [inode EXCEPT ![x].len = n]
<1>1. DOMAIN I = DOMAIN inode
  OBVIOUS
<1>2. \A y \in DOMAIN inode : inode[y] \in Node
  BY DEF Tree
<1>3. \A y \in DOMAIN inode : I[y] \in Node /\ I[y].kind = inode[y].kind
  BY <1>2 DEF Node
<1>4. I \in [DOMAIN I -> Node]
  <2>1. I = [y \in DOMAIN I |-> I[y]]
    OBVIOUS
  <2> HIDE DEF I
  <2> QED BY <1>1, <1>3, <2>1
<1> HIDE DEF I
<1> QED BY <1>1, <1>3, <1>4 DEF I, Tree, Rooted

-----------------------------------------------------------------------------
(* What a rename makes of the tree *)

Target(p, q, x) == q \o SubSeq(x, Len(p) + 1, Len(x))
Taken(p) == {p} \cup Below(tree, p)
Targets(p, q) == {Target(p, q, x) : x \in Taken(p)}
Rest(p, q) == Without(tree, Taken(p) \cup {q})

Renamed(p, q) ==
    [y \in DOMAIN Rest(p, q) \cup Targets(p, q) |->
       IF y \in DOMAIN Rest(p, q) THEN Rest(p, q)[y]
       ELSE tree[CHOOSE x \in Taken(p) : Target(p, q, x) = y]]

MayMove(p, q) ==
    /\ Exists(p) /\ p # q /\ ~IsPrefix(p, q)
    /\ \/ MayBeMade(q)
       \/ Exists(q) /\ (IsKind(p, "dir") <=> IsKind(q, "dir")) /\ Below(tree, q) = {}
    /\ Targets(p, q) \subseteq Location

LEMMA MoveRenames ==
    ASSUME NEW p, NEW q, Move(p, q)
    PROVE  MayMove(p, q) /\ Become(Renamed(p, q), inode, call)
  BY DEF Move, MayMove, Renamed, Rest, Targets, Target, Taken

\* Where a path below the one that is renamed comes to be.
LEMMA TargetFacts ==
    ASSUME NEW p \in Segments, NEW q \in Segments, NEW x \in Segments, IsPrefix(p, x)
    PROVE  LET y == Target(p, q, x) IN
           /\ y \in Segments /\ Len(y) = Len(q) + (Len(x) - Len(p))
           /\ \A i \in 1..Len(q) : y[i] = q[i]
           /\ \A j \in 1..(Len(x) - Len(p)) : y[Len(q) + j] = x[Len(p) + j]
           /\ IsPrefix(q, y)
<1> DEFINE l == Len(p)
           m == Len(q)
           n == Len(x)
           s == SubSeq(x, l + 1, n)
           y == q \o s
<1>1. l \in Nat /\ m \in Nat /\ n \in Nat /\ l <= n
  BY LenProperties, PrefixFacts DEF Segments
<1>2. \A i \in (l + 1)..n : x[i] \in STRING
  BY <1>1, ElementOfSeq DEF Segments
<1>3. l + 1 \in Int /\ n \in Int /\ (n - (l + 1)) + 1 = n - l
  BY <1>1
<1> HIDE DEF l, n
<1>4. /\ s \in Seq(STRING)
      /\ Len(s) = IF l + 1 <= n THEN n - (l + 1) + 1 ELSE 0
      /\ \A i \in 1..(n - (l + 1) + 1) : s[i] = x[(l + 1) + i - 1]
  BY <1>2, <1>3, SubSeqProperties
<1> HIDE DEF s, m
<1>5. Len(s) = n - l
  BY <1>1, <1>3, <1>4
<1>6. \A j \in 1..(n - l) : s[j] = x[l + j]
  <2> TAKE j \in 1..(n - l)
  <2>1. (l + 1) + j - 1 = l + j /\ j \in 1..(n - (l + 1) + 1)
    BY <1>1
  <2> QED BY <1>4, <2>1
<1>7. /\ y \in Seq(STRING) /\ Len(y) = m + Len(s)
      /\ \A i \in 1..(m + Len(s)) : y[i] = IF i <= m THEN q[i] ELSE s[i - m]
  BY <1>4, ConcatProperties DEF m, Segments
<1> HIDE DEF y
<1>8. \A i \in 1..m : y[i] = q[i]
  BY <1>1, <1>5, <1>7
<1>9. \A j \in 1..(n - l) : y[m + j] = x[l + j]
  <2> TAKE j \in 1..(n - l)
  <2>1. m + j \in 1..(m + Len(s)) /\ ~(m + j <= m) /\ (m + j) - m = j
    BY <1>1, <1>5
  <2>2. y[m + j] = s[j]
    BY <1>7, <2>1
  <2> QED BY <1>6, <2>2
<1>10. Len(y) = m + (n - l)
  BY <1>5, <1>7
<1>11. IsPrefix(q, y)
  <2>1. y \in Segments
    BY <1>7 DEF Segments
  <2>2. Len(q) <= Len(y) /\ \A i \in 1..Len(q) : q[i] = y[i]
    BY <1>1, <1>8, <1>10 DEF m
  <2> QED BY <2>1, <2>2, PrefixFacts
<1>12. y = Target(p, q, x)
  BY DEF y, s, l, n, Target
<1> QED BY <1>7, <1>8, <1>9, <1>10, <1>11, <1>12 DEF Segments, l, m, n

\* No two paths come to be at one.
LEMMA TargetsDiffer ==
    ASSUME NEW p \in Segments, NEW q \in Segments, NEW x \in Segments, NEW z \in Segments,
           IsPrefix(p, x), IsPrefix(p, z), Target(p, q, x) = Target(p, q, z)
    PROVE  x = z
<1>1. Len(p) \in Nat /\ Len(q) \in Nat /\ Len(x) \in Nat /\ Len(z) \in Nat
  BY LenProperties DEF Segments
<1> DEFINE a == Target(p, q, x)
           b == Target(p, q, z)
<1>2. /\ Len(a) = Len(q) + (Len(x) - Len(p))
      /\ \A j \in 1..(Len(x) - Len(p)) : a[Len(q) + j] = x[Len(p) + j]
  BY TargetFacts
<1>3. /\ Len(b) = Len(q) + (Len(z) - Len(p))
      /\ \A j \in 1..(Len(z) - Len(p)) : b[Len(q) + j] = z[Len(p) + j]
  BY TargetFacts
<1>4. a = b
  OBVIOUS
<1> HIDE DEF a, b
<1>5. Len(x) = Len(z)
  BY <1>1, <1>2, <1>3, <1>4
<1>6. /\ Len(p) <= Len(x) /\ \A i \in 1..Len(p) : p[i] = x[i]
      /\ \A i \in 1..Len(p) : p[i] = z[i]
  BY PrefixFacts
<1>7. ASSUME NEW i \in 1..Len(x) PROVE x[i] = z[i]
  <2>1. CASE i <= Len(p)
    BY <1>1, <1>6, <2>1
  <2>2. CASE i > Len(p)
    <3>1. i - Len(p) \in 1..(Len(x) - Len(p)) /\ Len(p) + (i - Len(p)) = i
      BY <1>1, <2>2
    <3>2. a[Len(q) + (i - Len(p))] = x[i] /\ b[Len(q) + (i - Len(p))] = z[i]
      BY <1>2, <1>3, <1>5, <3>1
    <3> QED BY <1>4, <3>2
  <2> QED BY <1>1, <2>1, <2>2
<1> QED BY <1>5, <1>7, SeqEqual DEF Segments

\* What is above a path that was taken along, and not above where it went, was taken along.
LEMMA AboveTarget ==
    ASSUME NEW p \in Location, NEW q \in Location, NEW x \in Location, NEW r \in Location,
           IsPrefix(p, x), IsPrefix(q, r), IsStrictPrefix(r, Target(p, q, x))
    PROVE  \E z \in Location : IsPrefix(p, z) /\ IsStrictPrefix(z, x) /\ Target(p, q, z) = r
<1>1. /\ p \in Segments /\ q \in Segments /\ x \in Segments /\ r \in Segments
      /\ Len(p) \in Nat /\ Len(q) \in Nat /\ Len(x) \in Nat /\ Len(r) \in Nat
  BY PathFacts
<1> DEFINE y == Target(p, q, x)
           k == Len(p) + (Len(r) - Len(q))
           z == SubSeq(x, 1, k)
<1>2. /\ y \in Segments /\ Len(y) = Len(q) + (Len(x) - Len(p))
      /\ \A j \in 1..(Len(x) - Len(p)) : y[Len(q) + j] = x[Len(p) + j]
  BY <1>1, TargetFacts
<1>3. /\ Len(q) <= Len(r) /\ (\A i \in 1..Len(q) : q[i] = r[i])
      /\ Len(p) <= Len(x) /\ (\A i \in 1..Len(p) : p[i] = x[i])
  BY <1>1, PrefixFacts
<1>4. Len(r) < Len(y) /\ \A i \in 1..Len(r) : r[i] = y[i]
  BY <1>1, <1>2, StrictPrefixFacts
<1> HIDE DEF y
<1>5. k \in Nat /\ Len(p) <= k /\ k < Len(x) /\ k - Len(p) = Len(r) - Len(q)
  BY <1>1, <1>2, <1>3, <1>4
<1> HIDE DEF k
<1>6. z \in Location
  <2>1. k \in 0..Len(x)
    BY <1>1, <1>5
  <2> QED BY <2>1, LocationAssumption
<1>7. Len(z) = k /\ \A i \in 1..k : z[i] = x[i]
  <2>0. \A i \in 1..k : i \in 1..Len(x)
    BY <1>1, <1>5
  <2>1. \A i \in 1..k : x[i] \in STRING
    BY <2>0, PathFacts
  <2>2. 1 \in Int /\ k \in Int
    BY <1>5
  <2>3. /\ Len(z) = IF 1 <= k THEN k - 1 + 1 ELSE 0
        /\ \A i \in 1..(k - 1 + 1) : z[i] = x[1 + i - 1]
    BY <2>1, <2>2, SubSeqProperties
  <2> HIDE DEF z
  <2> QED BY <1>5, <2>3
<1> HIDE DEF z
<1>8. z \in Segments
  BY <1>6, PathFacts
<1>9. IsStrictPrefix(z, x)
  BY <1>1, <1>5, <1>7, <1>8, StrictPrefixFacts
<1>10. IsPrefix(p, z)
  <2>1. \A i \in 1..Len(p) : p[i] = z[i]
    BY <1>1, <1>3, <1>5, <1>7
  <2>2. Len(p) <= Len(z) /\ p \in Segments
    BY <1>1, <1>5, <1>7
  <2> QED BY <1>8, <2>1, <2>2, PrefixFacts
<1> DEFINE w == Target(p, q, z)
<1>11. /\ w \in Segments /\ Len(w) = Len(q) + (Len(z) - Len(p))
       /\ \A i \in 1..Len(q) : w[i] = q[i]
       /\ \A j \in 1..(Len(z) - Len(p)) : w[Len(q) + j] = z[Len(p) + j]
  <2>1. p \in Segments /\ q \in Segments /\ z \in Segments /\ IsPrefix(p, z)
    BY <1>1, <1>8, <1>10
  <2> QED BY ONLY <2>1, TargetFacts, Zenon
<1> HIDE DEF w
<1>12. Len(w) = Len(r)
  BY <1>1, <1>5, <1>7, <1>11
<1>13. ASSUME NEW i \in 1..Len(r) PROVE w[i] = r[i]
  <2>1. CASE i <= Len(q)
    BY <1>1, <1>3, <1>11, <2>1
  <2>2. CASE i > Len(q)
    <3> DEFINE j == i - Len(q)
    <3>1. /\ j \in Nat /\ 1 <= j /\ j <= k - Len(p) /\ k - Len(p) <= Len(x) - Len(p)
          /\ Len(q) + j = i
      BY <1>1, <1>5, <2>2
    <3>2. /\ j \in 1..(Len(x) - Len(p)) /\ j \in 1..(Len(z) - Len(p))
          /\ Len(p) + j \in 1..k
      BY <1>1, <1>5, <1>7, <3>1
    <3> HIDE DEF j
    <3>3. w[i] = z[Len(p) + j]
      BY <1>11, <3>1, <3>2
    <3>4. z[Len(p) + j] = x[Len(p) + j]
      BY <1>7, <3>2
    <3>5. y[i] = x[Len(p) + j]
      BY <1>2, <3>1, <3>2
    <3>6. r[i] = y[i]
      BY <1>4
    <3> QED BY <3>3, <3>4, <3>5, <3>6
  <2> QED BY <1>1, <2>1, <2>2
<1>14. w = r
  BY <1>1, <1>11, <1>12, <1>13, SeqEqual DEF Segments
<1> QED BY <1>6, <1>9, <1>10, <1>14 DEF w

\* Whatever is renamed is taken along as it is, nothing else but what it replaces goes,
\* and the rest of the tree is where it was.
LEMMA RenamedIs ==
    ASSUME Tree(tree, inode), NEW p \in Location, NEW q \in Location, MayMove(p, q)
    PROVE  /\ DOMAIN Renamed(p, q) = DOMAIN Rest(p, q) \cup Targets(p, q)
           /\ \A y \in DOMAIN Rest(p, q) :
                 Renamed(p, q)[y] = tree[y] /\ y \in DOMAIN tree /\ y # q /\ y \notin Taken(p)
           /\ \A x \in Taken(p) :
                 /\ x \in DOMAIN tree /\ x # q
                 /\ Target(p, q, x) \notin DOMAIN Rest(p, q)
                 /\ Renamed(p, q)[Target(p, q, x)] = tree[x]
           /\ Below(tree, q) = {}
<1>1. Exists(p) /\ p # q /\ ~IsPrefix(p, q) /\ Targets(p, q) \subseteq Location
  BY DEF MayMove
<1>2. /\ DOMAIN Rest(p, q) = DOMAIN tree \ (Taken(p) \cup {q})
      /\ \A y \in DOMAIN Rest(p, q) : Rest(p, q)[y] = tree[y]
  BY DEF Rest, Without
<1>3. DOMAIN Renamed(p, q) = DOMAIN Rest(p, q) \cup Targets(p, q)
  BY DEF Renamed
<1>4. p \in Segments /\ q \in Segments
  BY PathFacts
<1>5. ASSUME NEW x \in Taken(p) PROVE x \in DOMAIN tree /\ x \in Location /\ x \in Segments /\ IsPrefix(p, x)
  <2>1. x \in DOMAIN tree /\ (x = p \/ IsStrictPrefix(p, x))
    BY <1>1 DEF Taken, Below, Exists
  <2>2. x \in Location /\ x \in Segments
    BY <2>1, PathFacts DEF Tree
  <2> QED BY <1>4, <2>1, <2>2, PrefixOrder
<1>6. Below(tree, q) = {}
  <2>1. CASE MayBeMade(q)
    BY <2>1 DEF MayBeMade, Exists, Tree, Rooted, Below
  <2>2. CASE ~MayBeMade(q)
    BY <2>2 DEF MayMove
  <2> QED BY <2>1, <2>2
<1>7. ASSUME NEW x \in Taken(p) PROVE Target(p, q, x) \notin DOMAIN Rest(p, q)
  <2> DEFINE y == Target(p, q, x)
  <2>1. IsPrefix(q, y) /\ y \in Segments
    BY <1>4, <1>5, TargetFacts
  <2> HIDE DEF y
  <2>2. y = q \/ IsStrictPrefix(q, y)
    BY <1>4, <2>1, PrefixOrder
  <2>3. y \notin DOMAIN Rest(p, q)
    BY <1>2, <1>6, <2>2 DEF Below
  <2> QED BY <2>3 DEF y
<1>8. ASSUME NEW x \in Taken(p) PROVE Renamed(p, q)[Target(p, q, x)] = tree[x]
  <2> DEFINE y == Target(p, q, x)
  <2>1. y \in Targets(p, q) /\ y \notin DOMAIN Rest(p, q)
    BY <1>7 DEF Targets
  <2>2. \A z \in Taken(p) : Target(p, q, z) = y => z = x
    BY <1>4, <1>5, TargetsDiffer
  <2>3. (CHOOSE z \in Taken(p) : Target(p, q, z) = y) = x
    BY <2>2
  <2>4. Renamed(p, q)[y] = tree[CHOOSE z \in Taken(p) : Target(p, q, z) = y]
    <3> HIDE DEF y
    <3> QED BY <2>1 DEF Renamed
  <2> QED BY <2>3, <2>4
<1>9. \A y \in DOMAIN Rest(p, q) :
         Renamed(p, q)[y] = tree[y] /\ y \in DOMAIN tree /\ y # q /\ y \notin Taken(p)
  BY <1>2 DEF Renamed
<1>10. \A x \in Taken(p) : x # q
  BY <1>1, <1>5
<1> QED BY <1>3, <1>5, <1>6, <1>7, <1>8, <1>9, <1>10

LEMMA RenamedTree ==
    ASSUME Tree(tree, inode), NEW p \in Location, NEW q \in Location, MayMove(p, q)
    PROVE  Tree(Renamed(p, q), inode)
<1> DEFINE T == Renamed(p, q)
           R == DOMAIN Rest(p, q)
<1>1. /\ DOMAIN T = R \cup Targets(p, q)
      /\ \A y \in R : T[y] = tree[y] /\ y \in DOMAIN tree /\ y # q /\ y \notin Taken(p)
      /\ \A x \in Taken(p) : /\ x \in DOMAIN tree /\ x # q
                             /\ Target(p, q, x) \notin R /\ T[Target(p, q, x)] = tree[x]
      /\ Below(tree, q) = {}
  BY RenamedIs
<1>2. \A y \in DOMAIN tree : y \in R \/ y \in Taken(p) \/ y = q
  BY DEF Rest, Without
<1>3. T = [y \in DOMAIN T |-> T[y]]
  BY DEF Renamed
<1> HIDE DEF T, R
<1>4. \A y \in Targets(p, q) : \E x \in Taken(p) : y = Target(p, q, x)
  BY DEF Targets
<1>5. \A y \in DOMAIN T : \E x \in DOMAIN tree : T[y] = tree[x]
  BY <1>1, <1>4
<1>6. T \in [DOMAIN T -> DOMAIN inode]
  BY <1>3, <1>5 DEF Tree
<1>7. DOMAIN T \subseteq Location
  BY <1>1 DEF MayMove, Tree
<1>8. ASSUME NEW y \in DOMAIN T, NEW z \in DOMAIN T, T[y] = T[z] PROVE y = z
  <2>1. \A a, b \in DOMAIN tree : tree[a] = tree[b] => a = b
    BY DEF Tree
  <2>2. CASE y \in R /\ z \in R
    BY <1>1, <1>8, <2>1, <2>2
  <2>3. CASE y \in R /\ z \in Targets(p, q)
    <3>1. PICK x \in Taken(p) : z = Target(p, q, x)
      BY <1>4, <2>3
    <3>2. tree[y] = tree[x] /\ x \in DOMAIN tree /\ y \in DOMAIN tree
      BY <1>1, <1>8, <2>3, <3>1
    <3> QED BY <1>1, <2>1, <2>3, <3>2
  <2>4. CASE y \in Targets(p, q) /\ z \in R
    <3>1. PICK x \in Taken(p) : y = Target(p, q, x)
      BY <1>4, <2>4
    <3>2. tree[z] = tree[x] /\ x \in DOMAIN tree /\ z \in DOMAIN tree
      BY <1>1, <1>8, <2>4, <3>1
    <3> QED BY <1>1, <2>1, <2>4, <3>2
  <2>5. CASE y \in Targets(p, q) /\ z \in Targets(p, q)
    <3>1. PICK a \in Taken(p) : y = Target(p, q, a)
      BY <1>4, <2>5
    <3>2. PICK b \in Taken(p) : z = Target(p, q, b)
      BY <1>4, <2>5
    <3>3. tree[a] = tree[b] /\ a \in DOMAIN tree /\ b \in DOMAIN tree
      BY <1>1, <1>8, <3>1, <3>2
    <3> QED BY <2>1, <3>1, <3>2, <3>3
  <2> QED BY <1>1, <2>2, <2>3, <2>4, <2>5
<1>9. ~IsPrefix(p, q) /\ p \in Segments /\ q \in Segments
  BY PathFacts DEF MayMove
<1>10. ASSUME NEW r \in Location, r \in DOMAIN tree, inode[tree[r]].kind = "dir", r # q, ~IsPrefix(p, r)
       PROVE  r \in DOMAIN T /\ inode[T[r]].kind = "dir"
  <2>1. r \notin Taken(p)
    <3>1. r \in Segments
      BY PathFacts
    <3> QED BY <1>9, <1>10, <3>1, PrefixOrder DEF Taken, Below
  <2> QED BY <1>1, <1>2, <1>10, <2>1
<1>11. ASSUME NEW y \in DOMAIN T, NEW r \in Location, IsStrictPrefix(r, y)
       PROVE  r \in DOMAIN T /\ inode[T[r]].kind = "dir"
  <2>1. y \in Segments /\ r \in Segments
    BY <1>7, PathFacts
  <2>2. CASE y \in R
    <3>1. y \in DOMAIN tree /\ y \notin Taken(p)
      BY <1>1, <2>2
    <3>2. r \in DOMAIN tree /\ inode[tree[r]].kind = "dir"
      BY <1>11, <3>1 DEF Tree, Rooted
    <3>3. r # q
      BY <1>1, <1>11, <3>1 DEF Below
    <3>4. ~IsPrefix(p, r)
      BY <1>9, <1>11, <2>1, <3>1, PrefixOrder DEF Taken, Below
    <3> QED BY <1>10, <3>2, <3>3, <3>4
  <2>3. CASE y \in Targets(p, q)
    <3>1. PICK x \in Taken(p) : y = Target(p, q, x)
      BY <1>4, <2>3
    <3>2. x \in DOMAIN tree /\ x \in Location /\ x \in Segments
      BY <1>1, PathFacts DEF Tree
    <3>3. x = p \/ IsStrictPrefix(p, x)
      BY DEF Taken, Below
    <3>4. IsPrefix(p, x)
      BY <1>9, <3>2, <3>3, PrefixOrder
    <3>5. IsPrefix(q, y)
      BY <1>9, <3>1, <3>2, <3>4, TargetFacts
    <3>6. IsPrefix(r, y)
      BY <1>11, <2>1, PrefixOrder
    <3>7. CASE IsPrefix(q, r)
      <4>1. PICK z \in Location : IsPrefix(p, z) /\ IsStrictPrefix(z, x) /\ Target(p, q, z) = r
        BY <1>11, <3>1, <3>2, <3>4, <3>7, AboveTarget
      <4>2. z \in DOMAIN tree /\ inode[tree[z]].kind = "dir"
        BY <3>2, <4>1 DEF Tree, Rooted
      <4>3. z \in Taken(p)
        <5>1. z \in Segments
          BY PathFacts
        <5> QED BY <1>9, <4>1, <4>2, <5>1, PrefixOrder DEF Taken, Below
      <4>4. r \in Targets(p, q)
        BY <4>1, <4>3 DEF Targets
      <4> QED BY <1>1, <4>1, <4>2, <4>3, <4>4
    <3>8. CASE IsStrictPrefix(r, q)
      <4>1. r \in DOMAIN tree /\ inode[tree[r]].kind = "dir"
        <5>1. CASE Exists(q)
          BY <3>8, <5>1 DEF Exists, Tree, Rooted
        <5>2. CASE ~Exists(q)
          <6>1. MayBeMade(q)
            BY <5>2 DEF MayMove
          <6>2. q # Root
            <7>1. Len(r) \in Nat /\ Len(r) < Len(q)
              BY <1>9, <2>1, <3>8, StrictPrefixFacts, PathFacts
            <7> QED BY <7>1, EmptySeq DEF Root
          <6>3. Parent(q) \in DOMAIN tree /\ inode[tree[Parent(q)]].kind = "dir"
            BY <6>1, <6>2 DEF MayBeMade, IsKind, Exists, At
          <6>4. Parent(q) \in Location /\ IsPrefix(r, Parent(q))
            BY <3>8, <6>2, Parents
          <6>5. r = Parent(q) \/ IsStrictPrefix(r, Parent(q))
            <7>1. Parent(q) \in Segments
              BY <6>4, PathFacts
            <7> QED BY <2>1, <6>4, <7>1, PrefixOrder
          <6> QED BY <6>3, <6>5 DEF Tree, Rooted
        <5> QED BY <5>1, <5>2
      <4>2. r # q
        BY <3>8 DEF IsStrictPrefix
      <4>3. ~IsPrefix(p, r)
        <5>1. IsPrefix(p, r) => IsStrictPrefix(p, q)
          BY <1>9, <2>1, <3>8, PrefixOrder
        <5> QED BY <1>9, <5>1, PrefixOrder
      <4> QED BY <1>10, <4>1, <4>2, <4>3
    <3> QED BY <1>9, <2>1, <3>5, <3>6, <3>7, <3>8, PrefixOrder
  <2> QED BY <1>1, <2>2, <2>3
<1>12. Rooted(T, inode)
  BY <1>11 DEF Rooted
<1>13. DOMAIN inode \subseteq Inode /\ inode \in [DOMAIN inode -> Node]
  BY DEF Tree
<1> QED BY <1>6, <1>7, <1>8, <1>12, <1>13 DEF T, Tree

-----------------------------------------------------------------------------
(* What a listing is measured by *)

\* The entries of a directory: a name that is there is one of them, with its kind, and
\* each name is there once.
LEMMA EntriesFacts ==
    ASSUME NEW T, NEW I, Tree(T, I), NEW p \in Location
    PROVE  /\ Entries(T, I, p) \subseteq [name : STRING, kind : Kind]
           /\ Names(Entries(T, I, p)) \cap {".", ".."} = {}
           /\ OneKindEach(Entries(T, I, p))
           /\ \A name \in STRING :
                 /\ name \in Names(Entries(T, I, p)) => Append(p, name) \in DOMAIN T
                 /\ Append(p, name) \in DOMAIN T =>
                       Entry(name, I[T[Append(p, name)]].kind) \in Entries(T, I, p)
<1> DEFINE es == Entries(T, I, p)
<1>1. \A q \in Children(T, p) : q \in DOMAIN T /\ q \in Location /\ IsStrictPrefix(p, q) /\ Len(q) = Len(p) + 1
  BY DEF Children, Below, Tree
<1>2. \A q \in Children(T, p) :
         q = Append(p, FileName(q)) /\ FileName(q) \in STRING /\ FileName(q) \notin {"", ".", ".."}
  BY <1>1, Childhood
<1>3. \A e \in es : \E q \in Children(T, p) : e = Entry(FileName(q), I[T[q]].kind)
  BY DEF Entries
<1>4. \A q \in Children(T, p) : I[T[q]].kind \in Kind
  BY <1>1 DEF Tree, Node
<1>5. ASSUME NEW e \in es
      PROVE  /\ e \in [name : STRING, kind : Kind] /\ e.name \notin {".", ".."}
             /\ Append(p, e.name) \in DOMAIN T /\ e = Entry(e.name, I[T[Append(p, e.name)]].kind)
  <2>1. PICK q \in Children(T, p) : e = Entry(FileName(q), I[T[q]].kind)
    BY <1>3
  <2>2. e.name = FileName(q)
    BY <2>1 DEF Entry
  <2>3. Append(p, e.name) = q
    BY <1>2, <2>2
  <2>4. e \in [name : STRING, kind : Kind] /\ e.name \notin {".", ".."}
    BY <1>2, <1>4, <2>1, <2>2 DEF Entry
  <2> QED BY <1>1, <2>1, <2>2, <2>3, <2>4
<1>6. ASSUME NEW name \in STRING, Append(p, name) \in DOMAIN T
      PROVE  Entry(name, I[T[Append(p, name)]].kind) \in es
  <2> DEFINE q == Append(p, name)
  <2>1. IsStrictPrefix(p, q) /\ Len(q) = Len(p) + 1 /\ FileName(q) = name
    BY Naming
  <2>2. q \in Children(T, p)
    BY <1>6, <2>1 DEF Children, Below
  <2> HIDE DEF q
  <2>3. Entry(FileName(q), I[T[q]].kind) \in es
    BY <2>2 DEF Entries
  <2> QED BY <2>1, <2>3 DEF q
<1> HIDE DEF es
<1>7. Names(es) \cap {".", ".."} = {}
  BY <1>5 DEF Names
<1>8. OneKindEach(es)
  BY <1>5 DEF OneKindEach
<1>9. \A name \in STRING : name \in Names(es) => Append(p, name) \in DOMAIN T
  BY <1>5 DEF Names
<1> QED BY <1>5, <1>6, <1>7, <1>8, <1>9 DEF es

-----------------------------------------------------------------------------
(* What every step does *)

\* The calls c are as the tree T of inodes I allows.
Fits(C, T, I) ==
    /\ C \in [Task -> Call]
    /\ OneAtATime(C)
    /\ \A u \in Task : Holds(C[u], I) /\ Aims(C[u], T) /\ Lists(C[u])

LEMMA ObservedFacts ==
    ASSUME NEW T, NEW I, Tree(T, I), NEW c \in Call
    PROVE  LET d == Observed(c, T, I)
               now == Entries(T, I, c.from) IN
           /\ d \in Call
           /\ d.at = c.at /\ d.from = c.from /\ d.to = c.to /\ d.src = c.src /\ d.dst = c.dst
           /\ d.out = c.out /\ d.todo = c.todo
           /\ c.at = "next" => d.seen = c.seen \cup now /\ d.always = c.always \cap Names(now)
           /\ c.at # "next" => d = c
<1> DEFINE now == Entries(T, I, c.from)
<1>1. now \subseteq [name : STRING, kind : Kind]
  BY EntriesFacts DEF Call
<1> HIDE DEF now
<1>2. CASE c.at = "next"
  <2>1. Observed(c, T, I) = [c EXCEPT !.seen = @ \cup now, !.always = @ \cap Names(now)]
    BY <1>2 DEF Observed, now
  <2> QED BY <1>1, <1>2, <2>1 DEF Call, now
<1>3. CASE c.at # "next"
  BY <1>3 DEF Observed
<1> QED BY <1>2, <1>3

\* A step that makes a tree of calls that fit it keeps the invariant.
LEMMA BecomeKeeps ==
    ASSUME backend \in {"local", "smb"}, others \in BOOLEAN,
           NEW T, NEW I, NEW C, Tree(T, I), Fits(C, T, I), Become(T, I, C)
    PROVE  IInv'
<1> DEFINE held == (UNION {{C[u].src, C[u].dst} : u \in Task}) \ {None}
           live == {T[p] : p \in DOMAIN T} \cup held
           J == [x \in live |-> I[x]]
           D == [u \in Task |-> Observed(C[u], T, I)]
<1>1. tree' = T /\ inode' = J /\ call' = D /\ backend' = backend /\ others' = others
  BY DEF Become
<1>2. \A u \in Task : C[u] \in Call /\ Holds(C[u], I) /\ Aims(C[u], T) /\ Lists(C[u])
  BY DEF Fits
<1>3. \A p \in DOMAIN T : T[p] \in live
  OBVIOUS
<1>4. \A u \in Task : /\ C[u].src # None => C[u].src \in live
                      /\ C[u].dst # None => C[u].dst \in live
  OBVIOUS
<1>5. live \subseteq DOMAIN I
  <2>1. held \subseteq DOMAIN I
    BY <1>2 DEF Holds
  <2>2. \A p \in DOMAIN T : T[p] \in DOMAIN I
    BY DEF Tree
  <2> HIDE DEF held
  <2> QED BY <2>1, <2>2
<1>6. DOMAIN J = live /\ \A x \in live : J[x] = I[x]
  OBVIOUS
<1>7. J \in [DOMAIN J -> Node] /\ DOMAIN J \subseteq Inode
  <2>1. \A x \in live : I[x] \in Node /\ x \in Inode
    BY <1>5 DEF Tree
  <2> HIDE DEF live
  <2> QED BY <2>1
<1>8. \A u \in Task : D[u] = Observed(C[u], T, I)
  OBVIOUS
<1>9. D \in [Task -> Call]
  BY <1>2, ObservedFacts
<1> HIDE DEF held, live, J, D
<1>10. T \in [DOMAIN T -> DOMAIN J]
  BY <1>3, <1>6 DEF Tree
<1>11. Rooted(T, J)
  BY <1>3, <1>6 DEF Tree, Rooted
<1>12. Tree(T, J)
  BY <1>7, <1>10, <1>11 DEF Tree
<1>13. \A p : Entries(T, J, p) = Entries(T, I, p)
  <2>1. \A p : \A q \in Children(T, p) : J[T[q]] = I[T[q]]
    BY <1>3, <1>6 DEF Children, Below
  <2> QED BY <2>1 DEF Entries
<1>14. ASSUME NEW u \in Task
       PROVE  Holds(D[u], J) /\ Aims(D[u], T) /\ Lists(D[u]) /\ Sees(D[u], T, J)
  <2> DEFINE c == C[u]
             d == D[u]
             now == Entries(T, I, c.from)
  <2>1. c \in Call /\ Holds(c, I) /\ Aims(c, T) /\ Lists(c)
    BY <1>2
  <2>2. /\ d \in Call
        /\ d.at = c.at /\ d.from = c.from /\ d.to = c.to /\ d.src = c.src /\ d.dst = c.dst
        /\ d.out = c.out /\ d.todo = c.todo
        /\ c.at = "next" => d.seen = c.seen \cup now /\ d.always = c.always \cap Names(now)
        /\ c.at # "next" => d = c
    BY <1>8, <2>1, ObservedFacts
  <2>3. c.src \in DOMAIN J \cup {None} /\ c.dst \in DOMAIN J \cup {None}
    BY <1>4, <1>6
  <2>4. Sees(d, T, J)
    <3>1. Entries(T, J, d.from) = now
      BY <1>13, <2>2
    <3> HIDE DEF c, d, now
    <3> QED BY <2>2, <3>1 DEF Sees
  <2> HIDE DEF c, d, now
  <2>5. Holds(d, J)
    BY <2>1, <2>2, <2>3 DEF Holds
  <2>6. Aims(d, T)
    BY <2>1, <2>2 DEF Aims
  <2>7. Lists(d)
    <3>1. CASE c.at = "next"
      BY <2>1, <2>2, <3>1 DEF Lists
    <3>2. CASE c.at # "next"
      BY <2>1, <2>2, <3>2
    <3> QED BY <3>1, <3>2
  <2> QED BY <2>4, <2>5, <2>6, <2>7 DEF d
<1>15. OneAtATime(D)
  <2>1. \A u \in Task : D[u].at = C[u].at
    BY <1>2, <1>8, ObservedFacts
  <2> QED BY <2>1 DEF Fits, OneAtATime
<1>16. \A p \in DOMAIN T \ {Root} : Parent(p) \in DOMAIN T /\ J[T[Parent(p)]].kind = "dir"
  BY <1>12, Parents DEF Tree, Rooted
<1>17. TypeOK'
  <2>1. \A p \in DOMAIN T \ {Root} : IsKind(Parent(p), "dir")'
    BY <1>1, <1>16 DEF IsKind, Exists, At
  <2> QED BY <1>1, <1>9, <1>12, <2>1 DEF TypeOK, Tree
<1>18. Rooted(tree, inode)'
  BY <1>1, <1>11 DEF Rooted
<1>19. ASSUME NEW u \in Task
       PROVE  (Holds(call[u], inode) /\ Aims(call[u], tree) /\ Lists(call[u]) /\ Sees(call[u], tree, inode))'
  <2>1. Holds(call[u], inode)'
    BY <1>1, <1>14 DEF Holds
  <2>2. Aims(call[u], tree)'
    BY <1>1, <1>14 DEF Aims
  <2>3. Lists(call[u])'
    BY <1>1, <1>14 DEF Lists
  <2>4. Sees(call[u], tree, inode)'
    BY <1>1, <1>14 DEF Sees
  <2> QED BY <2>1, <2>2, <2>3, <2>4
<1>20. OneAtATime(call)'
  BY <1>1, <1>15 DEF OneAtATime
<1> QED BY <1>17, <1>18, <1>19, <1>20 DEF IInv

LEMMA Now == IInv => /\ Tree(tree, inode) /\ Fits(call, tree, inode)
                     /\ backend \in {"local", "smb"} /\ others \in BOOLEAN
  BY DEF IInv, TypeOK, Tree, Fits

\* No task, the session thread included, is between two steps of a copy that others could
\* not disturb.
Undisturbed == others \/ (backend = "smb" => \A u \in Task : call[u] = Idle)

LEMMA TurnUndisturbed == \A t \in Task : Turn(t) => Undisturbed
  BY DEF Turn, Undisturbed

LEMMA Start == 0 \in 0..MaxLen /\ Root \in Location
<1>1. 0 \in 0..MaxLen
  BY MaxLenAssumption
<1>2. Root \in Location
  BY LocationAssumption
<1> QED BY <1>1, <1>2

LEMMA IdleFacts ==
    /\ Idle \in Call /\ Idle.at = "idle"
    /\ \A I, T : Holds(Idle, I) /\ Aims(Idle, T) /\ Lists(Idle)
<1>1. Idle \in Call /\ Idle.at = "idle" /\ Idle.src = None /\ Idle.dst = None
  <2>1. 0 \in 0..MaxLen /\ Root \in Location
    BY Start
  <2> QED BY <2>1 DEF Idle, Call
<1> QED BY <1>1 DEF Holds, Aims, Lists

\* A step on the tree alone leaves the calls as they were.
LEMMA TreeStepKeeps ==
    ASSUME IInv, Undisturbed, NEW T, NEW I, Tree(T, I), DOMAIN inode \subseteq DOMAIN I,
           Become(T, I, call)
    PROVE  IInv'
<1>1. \A u \in Task : Holds(call[u], inode) /\ Lists(call[u])
  BY DEF IInv
<1>2. \A u \in Task : Holds(call[u], I)
  BY <1>1 DEF Holds
<1>3. \A u \in Task : Aims(call[u], T)
  BY IdleFacts DEF Undisturbed, Aims
<1>4. Fits(call, T, I)
  BY <1>1, <1>2, <1>3, Now DEF Fits
<1> QED BY <1>4, Now, BecomeKeeps

\* A step of one call, which the session thread takes in its turn, leaves the others.
Alone(t) == backend = "smb" => \A u \in Task \ {t} : call[u].at = "idle"

LEMMA CallStepKeeps ==
    ASSUME IInv, NEW t \in Task, Alone(t), NEW c \in Call,
           NEW T, NEW I, Tree(T, I), DOMAIN inode \subseteq DOMAIN I,
           Holds(c, I), Aims(c, T), Lists(c), Become(T, I, Goes(t, c))
    PROVE  IInv'
<1> DEFINE C == Goes(t, c)
<1>1. C \in [Task -> Call] /\ C[t] = c /\ \A u \in Task \ {t} : C[u] = call[u]
  BY DEF Goes, IInv, TypeOK
<1> HIDE DEF C
<1>2. \A u \in Task \ {t} : Holds(call[u], inode) /\ Lists(call[u])
  BY DEF IInv
<1>3. \A u \in Task \ {t} : Holds(call[u], I)
  BY <1>2 DEF Holds
<1>4. \A u \in Task \ {t} : Aims(call[u], T)
  BY DEF Alone, Aims
<1>5. OneAtATime(C)
  BY <1>1 DEF Alone, OneAtATime
<1>6. Fits(C, T, I)
  BY <1>1, <1>2, <1>3, <1>4, <1>5 DEF Fits
<1>7. Become(T, I, C)
  BY DEF C
<1> QED BY <1>6, <1>7, Now, BecomeKeeps

LEMMA TurnAlone ==
    ASSUME NEW t \in Task
    PROVE  /\ Turn(t) => Alone(t)
           /\ IInv /\ call[t].at # "idle" => Alone(t)
<1>1. Turn(t) => Alone(t)
  BY IdleFacts DEF Turn, Alone
<1>2. IInv /\ call[t].at # "idle" => Alone(t)
  BY DEF IInv, OneAtATime, Alone
<1> QED BY <1>1, <1>2

LEMMA OneCall ==
    ASSUME IInv, NEW t \in Task
    PROVE  call[t] \in Call /\ Holds(call[t], inode) /\ Aims(call[t], tree)
           /\ Lists(call[t]) /\ Sees(call[t], tree, inode)
  BY DEF IInv, TypeOK

-----------------------------------------------------------------------------
(* Calls of one step *)

LEMMA NodesAre == Dir \in Node /\ File(0) \in Node /\ File(MaxLen) \in Node /\ Link \in Node
  BY MaxLenAssumption DEF Dir, File, Link, Node, Kind

LEMMA WithGrows == ASSUME NEW g, NEW x, NEW y PROVE DOMAIN g \subseteq DOMAIN With(g, x, y)
  BY DEF With

LEMMA MakeKeeps ==
    ASSUME IInv, Undisturbed, NEW p \in Location, NEW node \in Node, MakeAt(p, node)
    PROVE  IInv'
<1>1. PICK x \in Fresh : Become(With(tree, p, x), With(inode, x, node), call)
  BY DEF MakeAt
<1>2. Tree(With(tree, p, x), With(inode, x, node))
  BY Now, MadeTree DEF MakeAt
<1> QED BY <1>1, <1>2, WithGrows, TreeStepKeeps

LEMMA UnlinkFileKeeps ==
    ASSUME IInv, Undisturbed, NEW p \in Location, UnlinkFile(p)
    PROVE  IInv'
<1>1. Tree(Without(tree, {p}), inode)
  BY Now, NothingBelow, CutTree DEF UnlinkFile
<1> QED BY <1>1, TreeStepKeeps DEF UnlinkFile

LEMMA UnlinkDirKeeps ==
    ASSUME IInv, Undisturbed, NEW p \in Location, UnlinkDir(p)
    PROVE  IInv'
<1>1. Tree(Without(tree, {p}), inode)
  BY Now, CutTree DEF UnlinkDir
<1> QED BY <1>1, TreeStepKeeps DEF UnlinkDir

LEMMA MoveKeeps ==
    ASSUME IInv, Undisturbed, NEW p \in Location, NEW q \in Location, Move(p, q)
    PROVE  IInv'
<1>1. MayMove(p, q) /\ Become(Renamed(p, q), inode, call)
  BY MoveRenames
<1>2. Tree(Renamed(p, q), inode)
  BY <1>1, Now, RenamedTree
<1> QED BY <1>1, <1>2, TreeStepKeeps

LEMMA OpenKeeps ==
    ASSUME IInv, NEW t \in Task, NEW p \in Location, NEW f, Open(t, p, f)
    PROVE  IInv'
<1>1. Undisturbed
  BY TurnUndisturbed DEF Open
<1>2. CASE MakeAt(p, File(0))
  BY <1>1, <1>2, MakeKeeps, NodesAre
<1>3. CASE IsKind(p, "file") /\ Become(tree, [inode EXCEPT ![tree[p]].len = 0], call)
  <2>1. tree[p] \in DOMAIN inode
    BY <1>3, Now DEF IsKind, Exists, Tree
  <2>2. 0 \in 0..MaxLen
    BY MaxLenAssumption
  <2>3. Tree(tree, [inode EXCEPT ![tree[p]].len = 0])
    BY <2>1, <2>2, Now, ResizedTree
  <2> QED BY <1>1, <1>3, <2>3, TreeStepKeeps
<1> QED BY <1>2, <1>3 DEF Open

-----------------------------------------------------------------------------
(* Copies *)

LEMMA CopyOpensSourceKeeps ==
    ASSUME IInv, NEW t \in Task, NEW p \in Location, NEW q \in Location, CopyOpensSource(t, p, q)
    PROVE  IInv'
<1> DEFINE c == [Idle EXCEPT !.at = "create", !.to = q, !.src = tree[p]]
<1>1. Become(tree, inode, Goes(t, c)) /\ Alone(t) /\ p \in DOMAIN tree
  BY TurnAlone DEF CopyOpensSource, Exists
<1>2. Tree(tree, inode)
  BY Now
<1>3. tree[p] \in DOMAIN inode /\ tree[p] \in Inode
  BY <1>1, <1>2 DEF Tree
<1>4. c \in Call /\ c.at = "create" /\ c.src = tree[p] /\ c.dst = None
  BY <1>3, IdleFacts DEF Idle, Call
<1> HIDE DEF c
<1>5. Holds(c, inode) /\ Aims(c, tree) /\ Lists(c)
  BY <1>3, <1>4, NoneAssumption DEF Holds, Aims, Lists
<1> QED BY <1>1, <1>2, <1>4, <1>5, CallStepKeeps

\* A call that ends as its task wants it to.
LEMMA EndsKeep ==
    ASSUME IInv, NEW t \in Task, call[t].at # "idle", Become(tree, inode, Goes(t, Idle))
    PROVE  IInv'
  BY Now, IdleFacts, TurnAlone, CallStepKeeps

LEMMA CopyMakesDestKeeps ==
    ASSUME IInv, NEW t \in Task, CopyMakesDest(t)
    PROVE  IInv'
<1>1. call[t].at = "create" /\ Alone(t) /\ call[t] \in Call /\ Holds(call[t], inode)
  BY TurnAlone, OneCall DEF CopyMakesDest
<1>2. CASE Become(tree, inode, Goes(t, Idle))
  BY <1>1, <1>2, EndsKeep
<1>3. ASSUME MayBeMade(call[t].to), NEW x \in Fresh,
             Become(With(tree, call[t].to, x), With(inode, x, File(0)),
                    Goes(t, [call[t] EXCEPT !.at = "move", !.dst = x]))
      PROVE  IInv'
  <2> DEFINE p == call[t].to
             T == With(tree, p, x)
             I == With(inode, x, File(0))
             c == [call[t] EXCEPT !.at = "move", !.dst = x]
  <2>1. p \in Location /\ x \in Inode
    BY <1>1 DEF Call, Fresh
  <2>2. Tree(T, I)
    BY <1>3, <2>1, Now, MadeTree, NodesAre
  <2>3. x \in DOMAIN I /\ DOMAIN inode \subseteq DOMAIN I /\ p \in DOMAIN T /\ T[p] = x
    BY DEF With
  <2>4. c \in Call /\ c.at = "move" /\ c.to = p /\ c.src = call[t].src /\ c.dst = x
    BY <1>1, <2>1 DEF Call
  <2>5. Become(T, I, Goes(t, c))
    BY <1>3
  <2> HIDE DEF p, T, I, c
  <2>6. Holds(c, I)
    BY <1>1, <2>1, <2>3, <2>4, NoneAssumption DEF Holds
  <2>7. Aims(c, T) /\ Lists(c)
    BY <2>3, <2>4 DEF Aims, Lists
  <2> QED BY <1>1, <2>2, <2>3, <2>4, <2>5, <2>6, <2>7, CallStepKeeps
<1> QED BY <1>2, <1>3 DEF CopyMakesDest

LEMMA CopyMovesKeeps ==
    ASSUME IInv, NEW t \in Task, CopyMoves(t)
    PROVE  IInv'
<1> DEFINE c == call[t]
           d == [c EXCEPT !.done = @ + 1]
           n == IF inode[c.dst].len > c.done THEN inode[c.dst].len ELSE c.done + 1
           I == [inode EXCEPT ![c.dst].len = n]
<1>1. /\ c.at = "move" /\ c.done < inode[c.src].len
      /\ c \in Call /\ Holds(c, inode) /\ Aims(c, tree) /\ Lists(c) /\ Alone(t)
  BY TurnAlone, OneCall DEF CopyMoves
<1>2. Become(tree, I, Goes(t, d))
  BY DEF CopyMoves
<1>3. /\ c.src \in DOMAIN inode /\ c.dst \in DOMAIN inode
      /\ inode[c.src].len \in 0..MaxLen /\ inode[c.dst].len \in 0..MaxLen
  <2>1. c.src \in DOMAIN inode /\ c.dst \in DOMAIN inode
    BY <1>1 DEF Holds
  <2> QED BY <2>1, Now DEF Tree, Node
<1>4. c.done \in 0..MaxLen
  BY <1>1 DEF Call
<1>5. c.done + 1 \in 0..MaxLen /\ n \in 0..MaxLen
  BY <1>1, <1>3, <1>4, MaxLenAssumption
<1>6. Tree(tree, I)
  <2> HIDE DEF n
  <2> QED BY <1>3, <1>5, Now, ResizedTree
<1>7. DOMAIN I = DOMAIN inode
  OBVIOUS
<1>8. d \in Call /\ d.at = "move" /\ d.to = c.to /\ d.src = c.src /\ d.dst = c.dst
  BY <1>1, <1>5 DEF Call
<1> HIDE DEF c, d, I, n
<1>9. Holds(d, I) /\ Aims(d, tree) /\ Lists(d)
  BY <1>1, <1>7, <1>8 DEF Holds, Aims, Lists
<1> QED BY <1>1, <1>2, <1>6, <1>7, <1>8, <1>9, CallStepKeeps

LEMMA CopySucceedsKeeps ==
    ASSUME IInv, NEW t \in Task, CopySucceeds(t)
    PROVE  IInv'
<1> DEFINE c == call[t]
           d == [c EXCEPT !.at = "copied", !.to = Root, !.done = 0]
<1>1. c.at = "move" /\ c \in Call /\ Holds(c, inode) /\ Alone(t)
  BY TurnAlone, OneCall DEF CopySucceeds
<1>2. Become(tree, inode, Goes(t, d))
  BY DEF CopySucceeds
<1>3. d \in Call /\ d.at = "copied" /\ d.src = c.src /\ d.dst = c.dst
  <2>1. 0 \in 0..MaxLen /\ Root \in Location
    BY Start
  <2> QED BY <1>1, <2>1 DEF Call
<1> HIDE DEF c, d
<1>4. Holds(d, inode) /\ Aims(d, tree) /\ Lists(d)
  BY <1>1, <1>3 DEF Holds, Aims, Lists
<1> QED BY <1>1, <1>2, <1>3, <1>4, Now, CallStepKeeps

LEMMA CopyFailsKeeps ==
    ASSUME IInv, NEW t \in Task, CopyFails(t)
    PROVE  IInv'
<1> DEFINE c == call[t]
           d == [c EXCEPT !.at = IF backend = "smb" THEN "unlink" ELSE "failed", !.done = 0]
<1>1. c.at = "move" /\ c \in Call /\ Holds(c, inode) /\ Aims(c, tree) /\ Alone(t)
  BY TurnAlone, OneCall DEF CopyFails
<1>2. Become(tree, inode, Goes(t, d))
  BY DEF CopyFails
<1>3. /\ d \in Call /\ d.to = c.to /\ d.src = c.src /\ d.dst = c.dst
      /\ d.at = IF backend = "smb" THEN "unlink" ELSE "failed"
  <2>1. 0 \in 0..MaxLen
    BY MaxLenAssumption
  <2> QED BY <1>1, <2>1 DEF Call
<1> HIDE DEF c, d
<1>4. Holds(d, inode)
  BY <1>1, <1>3, Now DEF Holds
<1>5. Aims(d, tree) /\ Lists(d)
  BY <1>1, <1>3 DEF Aims, Lists
<1> QED BY <1>1, <1>2, <1>3, <1>4, <1>5, Now, CallStepKeeps

LEMMA CopyUnlinksKeeps ==
    ASSUME IInv, NEW t \in Task, CopyUnlinks(t)
    PROVE  IInv'
<1> DEFINE c == call[t]
           gone == Without(tree, {c.to})
           d == [c EXCEPT !.at = "failed"]
           e == [c EXCEPT !.at = "stuck"]
<1>1. /\ c.at = "unlink" /\ c \in Call /\ c.to \in Location
      /\ Holds(c, inode) /\ Aims(c, tree) /\ Alone(t)
  BY TurnAlone, OneCall DEF CopyUnlinks, Call
<1>2. \/ Exists(c.to) /\ ~IsKind(c.to, "dir") /\ Become(gone, inode, Goes(t, d))
      \/ Become(tree, inode, Goes(t, e))
  BY DEF CopyUnlinks
<1>3. /\ d \in Call /\ d.at = "failed" /\ d.src = c.src /\ d.dst = c.dst
      /\ e \in Call /\ e.at = "stuck" /\ e.src = c.src /\ e.dst = c.dst
  BY <1>1 DEF Call
<1>4. \A p \in DOMAIN gone : p \in DOMAIN tree /\ p # c.to /\ gone[p] = tree[p]
  BY DEF Without
<1> HIDE DEF c, gone, d, e
<1>5. Holds(d, inode) /\ Holds(e, inode)
  BY <1>1, <1>3 DEF Holds
<1>6. Lists(d) /\ Lists(e) /\ Aims(e, tree)
  BY <1>3 DEF Lists, Aims
<1>7. Aims(d, gone)
  <2>1. ASSUME backend = "smb", ~others PROVE \A p \in DOMAIN gone : gone[p] # c.dst
    BY <1>1, <1>4, <2>1, Now DEF Aims, Tree
  <2> QED BY <1>3, <2>1 DEF Aims
<1>8. CASE Exists(c.to) /\ ~IsKind(c.to, "dir") /\ Become(gone, inode, Goes(t, d))
  <2>1. Tree(gone, inode)
    BY <1>1, <1>8, Now, NothingBelow, CutTree DEF gone
  <2> QED BY <1>1, <1>3, <1>5, <1>6, <1>7, <1>8, <2>1, CallStepKeeps
<1>9. CASE Become(tree, inode, Goes(t, e))
  BY <1>1, <1>3, <1>5, <1>6, <1>9, Now, CallStepKeeps
<1> QED BY <1>2, <1>8, <1>9

-----------------------------------------------------------------------------
(* Listings *)

LEMMA ListOpensKeeps ==
    ASSUME IInv, NEW t \in Task, NEW p \in Location, ListOpens(t, p)
    PROVE  IInv'
<1> DEFINE now == Entries(tree, inode, p)
           answer == now \cup {Entry(".", "dir"), Entry("..", "dir")}
           c == [Idle EXCEPT !.from = p, !.seen = now, !.always = Names(now)]
           local == [c EXCEPT !.at = IF now = {} THEN "listed" ELSE "next", !.todo = Names(now)]
           share == [c EXCEPT !.at = "listed", !.out = {e \in answer : e.name \notin {".", ".."}}]
           d == IF backend = "local" THEN local ELSE share
<1>1. Become(tree, inode, Goes(t, d)) /\ Alone(t)
  BY TurnAlone DEF ListOpens
<1>2. /\ now \subseteq [name : STRING, kind : Kind] /\ OneKindEach(now)
      /\ Names(now) \cap {".", ".."} = {}
  BY Now, EntriesFacts
<1>3. Names(now) \subseteq STRING /\ \A e \in now : e.name \in Names(now)
  BY <1>2 DEF Names
<1>4. {e \in answer : e.name \notin {".", ".."}} = now
  <2>1. Entry(".", "dir").name = "." /\ Entry("..", "dir").name = ".."
    BY DEF Entry
  <2> HIDE DEF now
  <2> QED BY <1>2, <1>3, <2>1
<1>5. Idle \in Call /\ Idle.src = None /\ Idle.dst = None /\ Idle.out = {}
  BY IdleFacts DEF Idle
<1> HIDE DEF now, answer
<1>6. /\ c \in Call /\ c.from = p /\ c.seen = now /\ c.always = Names(now)
      /\ c.src = None /\ c.dst = None /\ c.out = {}
  BY <1>2, <1>3, <1>5 DEF Call
<1> HIDE DEF c
<1>7. /\ local \in Call /\ local.at = (IF now = {} THEN "listed" ELSE "next")
      /\ local.src = None /\ local.dst = None
      /\ local.out = {} /\ local.todo = Names(now) /\ local.seen = now /\ local.always = Names(now)
  BY <1>3, <1>6 DEF Call
<1>8. /\ share \in Call /\ share.at = "listed" /\ share.src = None /\ share.dst = None
      /\ share.out = now /\ share.seen = now /\ share.always = Names(now)
  BY <1>2, <1>4, <1>6 DEF Call
<1> HIDE DEF local, share
<1>9. Holds(local, inode) \/ backend # "local"
  BY <1>7 DEF Holds
<1>10. Holds(share, inode) \/ backend = "local"
  BY <1>8, Now DEF Holds
<1>11. Aims(local, tree) /\ Aims(share, tree)
  BY <1>7, <1>8 DEF Aims
<1>12. Lists(local)
  <2>1. Names({}) = {} /\ OneKindEach({})
    BY DEF Names, OneKindEach
  <2>2. CASE now = {}
    BY <1>7, <2>1, <2>2 DEF Lists
  <2>3. CASE now # {}
    BY <1>7, <2>1, <2>3 DEF Lists
  <2> QED BY <2>2, <2>3
<1>13. Lists(share)
  BY <1>2, <1>8 DEF Lists
<1>14. d \in Call /\ Holds(d, inode) /\ Aims(d, tree) /\ Lists(d)
  BY <1>7, <1>8, <1>9, <1>10, <1>11, <1>12, <1>13
<1> HIDE DEF d
<1> QED BY <1>1, <1>14, Now, CallStepKeeps

LEMMA ListLooksKeeps ==
    ASSUME IInv, NEW t \in Task, ListLooks(t)
    PROVE  IInv'
<1> DEFINE c == call[t]
<1>1. /\ c.at = "next" /\ c \in Call /\ Holds(c, inode) /\ Lists(c) /\ Sees(c, tree, inode)
      /\ Alone(t)
  BY TurnAlone, OneCall DEF ListLooks
<1>2. PICK name \in c.todo :
         LET p == Append(c.from, name) IN
         Become(tree, inode, Goes(t,
            [c EXCEPT !.todo = @ \ {name},
                      !.out = IF Exists(p) THEN @ \cup {Entry(name, At(p).kind)} ELSE @,
                      !.at = IF c.todo = {name} THEN "listed" ELSE "next"]))
  BY DEF ListLooks
<1> DEFINE p == Append(c.from, name)
           new == IF Exists(p) THEN {Entry(name, At(p).kind)} ELSE {}
           d == [c EXCEPT !.todo = @ \ {name},
                          !.out = IF Exists(p) THEN @ \cup {Entry(name, At(p).kind)} ELSE @,
                          !.at = IF c.todo = {name} THEN "listed" ELSE "next"]
           now == Entries(tree, inode, c.from)
<1>3. Become(tree, inode, Goes(t, d))
  BY <1>2
<1>4. c.from \in Location /\ name \in STRING
  BY <1>1 DEF Call
<1>5. /\ now \subseteq [name : STRING, kind : Kind]
      /\ name \in Names(now) => Exists(p)
      /\ Exists(p) => Entry(name, At(p).kind) \in now
  BY <1>4, Now, EntriesFacts DEF Exists, At
<1>6. /\ now \subseteq c.seen /\ c.always \subseteq Names(now)
      /\ c.out \subseteq c.seen
      /\ c.always \subseteq Names(c.out) \cup c.todo
      /\ Names(c.out) \cap c.todo = {}
      /\ OneKindEach(c.out)
  BY <1>1 DEF Sees, Lists
<1> HIDE DEF now
<1>7. /\ new \subseteq now
      /\ \A e \in new : e.name = name
      /\ \A e, f \in new : e = f
      /\ name \in Names(now) => name \in Names(new)
  <2>1. \A k : Entry(name, k).name = name
    BY DEF Entry
  <2>2. CASE Exists(p)
    <3>1. new = {Entry(name, At(p).kind)}
      BY <2>2
    <3> QED BY <1>5, <2>1, <2>2, <3>1 DEF Names
  <2>3. CASE ~Exists(p)
    BY <1>5, <2>3
  <2> QED BY <2>2, <2>3
<1>8. /\ d.out = c.out \cup new /\ d.todo = c.todo \ {name}
      /\ d.at = IF c.todo = {name} THEN "listed" ELSE "next"
      /\ d.from = c.from /\ d.src = c.src /\ d.dst = c.dst
      /\ d.seen = c.seen /\ d.always = c.always
  BY <1>1 DEF Call
<1>9. d \in Call
  <2>1. c.out \cup new \subseteq [name : STRING, kind : Kind]
    BY <1>1, <1>5, <1>7 DEF Call
  <2>2. d = [c EXCEPT !.todo = c.todo \ {name}, !.out = c.out \cup new,
                      !.at = IF c.todo = {name} THEN "listed" ELSE "next"]
    OBVIOUS
  <2>3. c.todo \ {name} \in SUBSET STRING
    BY <1>1 DEF Call
  <2> HIDE DEF d, new, c
  <2> QED BY <1>1, <2>1, <2>2, <2>3 DEF Call
<1> HIDE DEF c, d, new, p
<1>10. Holds(d, inode)
  BY <1>1, <1>8, <1>9 DEF Holds
<1>11. Aims(d, tree)
  BY <1>8 DEF Aims
<1>12. Names(d.out) = Names(c.out) \cup Names(new)
  BY <1>8 DEF Names
<1>13. Names(new) \subseteq {name}
  BY <1>7 DEF Names
<1>14. d.out \subseteq d.seen
  BY <1>6, <1>7, <1>8
<1>15. d.always \subseteq Names(d.out) \cup d.todo
  BY <1>6, <1>7, <1>8, <1>12
<1>16. Names(d.out) \cap d.todo = {}
  BY <1>6, <1>8, <1>12, <1>13
<1>17. OneKindEach(d.out)
  <2>1. \A e \in c.out : e.name # name
    BY <1>2, <1>6 DEF Names
  <2> QED BY <1>6, <1>7, <1>8, <2>1 DEF OneKindEach
<1>18. d.at = "listed" => d.todo = {}
  BY <1>8
<1>19. Lists(d)
  BY <1>14, <1>15, <1>16, <1>17, <1>18 DEF Lists
<1> QED BY <1>1, <1>3, <1>9, <1>10, <1>11, <1>19, Now, CallStepKeeps

-----------------------------------------------------------------------------
(* The invariant *)

LEMMA OthersKeep == IInv /\ Others => IInv'
<1> SUFFICES ASSUME IInv, Others PROVE IInv'
  OBVIOUS
<1>1. Undisturbed
  BY DEF Others, Undisturbed
<1>2. PICK p \in Location :
         \/ MakeAt(p, File(MaxLen)) \/ MakeAt(p, Link) \/ UnlinkFile(p)
         \/ \E q \in Location : Move(p, q)
  BY DEF Others
<1> QED BY <1>1, <1>2, MakeKeeps, UnlinkFileKeeps, MoveKeeps, NodesAre

LEMMA ProceedKeeps == ASSUME IInv, NEW t \in Task, Proceed(t) PROVE IInv'
<1>1. CASE Returns(t)
  <2>1. call[t].at # "idle" /\ Become(tree, inode, Goes(t, Idle))
    BY <1>1 DEF Returns
  <2> QED BY <2>1, EndsKeep
<1> QED BY <1>1, CopyMakesDestKeeps, CopyMovesKeeps, CopySucceedsKeeps, CopyFailsKeeps,
           CopyUnlinksKeeps, ListLooksKeeps DEF Proceed

\* What a task asks for begins.
Begins(t, p) ==
    \/ Mkdir(t, p) \/ RemoveFile(t, p) \/ RemoveDir(t, p) \/ ListOpens(t, p)
    \/ \E f \in Requests : Open(t, p, f)
    \/ \E q \in Asked : Rename(t, p, q) \/ CopyOpensSource(t, p, q)

LEMMA AskedIs == Asked \subseteq Location
  BY DEF Asked

LEMMA BeginsKeeps ==
    ASSUME IInv, NEW t \in Task, NEW p \in Asked, Begins(t, p)
    PROVE  IInv'
<1>1. p \in Location
  BY AskedIs
<1>2. CASE Mkdir(t, p)
  <2>1. Undisturbed /\ MakeAt(p, Dir)
    BY <1>2, TurnUndisturbed DEF Mkdir, MakeDir
  <2> QED BY <1>1, <2>1, MakeKeeps, NodesAre
<1>3. CASE RemoveFile(t, p)
  BY <1>1, <1>3, TurnUndisturbed, UnlinkFileKeeps DEF RemoveFile
<1>4. CASE RemoveDir(t, p)
  BY <1>1, <1>4, TurnUndisturbed, UnlinkDirKeeps DEF RemoveDir
<1>5. CASE ListOpens(t, p)
  BY <1>1, <1>5, ListOpensKeeps
<1>6. CASE \E f \in Requests : Open(t, p, f)
  BY <1>1, <1>6, OpenKeeps
<1>7. CASE \E q \in Asked : Rename(t, p, q)
  BY <1>1, <1>7, AskedIs, TurnUndisturbed, MoveKeeps DEF Rename
<1>8. CASE \E q \in Asked : CopyOpensSource(t, p, q)
  BY <1>1, <1>8, AskedIs, CopyOpensSourceKeeps
<1> QED BY <1>2, <1>3, <1>4, <1>5, <1>6, <1>7, <1>8 DEF Begins

LEMMA NextIs == Next <=> \/ \E t \in Task : (\E p \in Asked : Begins(t, p)) \/ Proceed(t)
                         \/ Others
  BY DEF Next, Begins

LEMMA StutterKeeps == IInv /\ UNCHANGED vars => IInv'
<1> SUFFICES ASSUME IInv, UNCHANGED vars PROVE IInv'
  OBVIOUS
<1>1. tree' = tree /\ inode' = inode /\ call' = call /\ backend' = backend /\ others' = others
  BY DEF vars
<1>2. TypeOK'
  BY <1>1 DEF IInv, TypeOK, IsKind, Exists, At
<1>3. Rooted(tree, inode)' /\ OneAtATime(call)'
  BY <1>1 DEF IInv, Rooted, OneAtATime
<1>4. ASSUME NEW u \in Task
      PROVE  (Holds(call[u], inode) /\ Aims(call[u], tree) /\ Lists(call[u]) /\ Sees(call[u], tree, inode))'
  BY <1>1 DEF IInv, Holds, Aims, Lists, Sees
<1> QED BY <1>2, <1>3, <1>4 DEF IInv

LEMMA InitInvariant == Init => IInv
<1> SUFFICES ASSUME Init PROVE IInv
  OBVIOUS
<1>1. PICK x \in Inode : \E y \in Inode, p \in Location \ {Root}, node \in {File(MaxLen), Link} :
         /\ x # y /\ Parent(p) = Root
         /\ tree = With([q \in {Root} |-> x], p, y)
         /\ inode = With([z \in {x} |-> Dir], y, node)
  BY DEF Init
<1>2. PICK y \in Inode : \E p \in Location \ {Root}, node \in {File(MaxLen), Link} :
         /\ x # y /\ Parent(p) = Root
         /\ tree = With([q \in {Root} |-> x], p, y)
         /\ inode = With([z \in {x} |-> Dir], y, node)
  BY <1>1
<1>3. PICK p \in Location \ {Root} : \E node \in {File(MaxLen), Link} :
         /\ x # y /\ Parent(p) = Root
         /\ tree = With([q \in {Root} |-> x], p, y)
         /\ inode = With([z \in {x} |-> Dir], y, node)
  BY <1>2
<1>4. PICK node \in {File(MaxLen), Link} :
         /\ x # y /\ Parent(p) = Root
         /\ tree = With([q \in {Root} |-> x], p, y)
         /\ inode = With([z \in {x} |-> Dir], y, node)
  BY <1>3
<1> DEFINE T == [q \in {Root} |-> x]
           I == [z \in {x} |-> Dir]
<1>5. Tree(T, I)
  <2>1. DOMAIN T = {Root} /\ T[Root] = x /\ DOMAIN I = {x} /\ I[x] = Dir
    OBVIOUS
  <2>2. T \in [DOMAIN T -> DOMAIN I] /\ I \in [DOMAIN I -> Node]
    BY NodesAre
  <2>3. \A q \in Location : ~IsStrictPrefix(q, Root)
    <3> SUFFICES ASSUME NEW q \in Location, IsStrictPrefix(q, Root) PROVE FALSE
      OBVIOUS
    <3>1. Root \in Segments /\ Len(Root) = 0
      BY EmptySeq DEF Root, Segments
    <3>2. q \in Segments /\ Len(q) \in Nat
      BY PathFacts
    <3>3. Len(q) < Len(Root)
      BY <3>1, <3>2, StrictPrefixFacts
    <3> QED BY <3>1, <3>2, <3>3
  <2> HIDE DEF T, I
  <2> QED BY <2>1, <2>2, <2>3, Start DEF Tree, Rooted
<1>6. /\ p \in Location /\ p \notin DOMAIN T /\ y \in Inode /\ y \notin DOMAIN I /\ node \in Node
      /\ Parent(p) \in DOMAIN T /\ I[T[Parent(p)]].kind = "dir"
  BY <1>4, NodesAre DEF Dir
<1>7. Tree(tree, inode)
  <2>1. tree = With(T, p, y) /\ inode = With(I, y, node)
    BY <1>4
  <2> HIDE DEF T, I
  <2>2. Tree(With(T, p, y), With(I, y, node))
    BY <1>5, <1>6, GrownTree
  <2> QED BY <2>1, <2>2
<1>8. backend \in {"local", "smb"} /\ others \in BOOLEAN /\ call = [t \in Task |-> Idle]
  BY DEF Init
<1>9. call \in [Task -> Call] /\ \A t \in Task : call[t] = Idle
  BY <1>8, IdleFacts
<1>10. \A q \in DOMAIN tree \ {Root} : IsKind(Parent(q), "dir")
  BY <1>7, Parents DEF Tree, Rooted, IsKind, Exists, At
<1>11. TypeOK
  BY <1>7, <1>8, <1>9, <1>10 DEF TypeOK, Tree
<1>12. \A t \in Task : Sees(call[t], tree, inode)
  BY <1>9, IdleFacts DEF Sees
<1>13. OneAtATime(call)
  BY <1>9, IdleFacts DEF OneAtATime
<1> QED BY <1>7, <1>9, <1>11, <1>12, <1>13, IdleFacts DEF IInv, Tree

LEMMA NextInvariant == IInv /\ [Next]_vars => IInv'
  BY NextIs, BeginsKeeps, ProceedKeeps, OthersKeep, StutterKeeps

\* The conjunction the other theorems rest on holds in every state, for every set of paths
\* and tasks, and whoever else uses the share.
THEOREM InductiveInvariant == Spec => []IInv
  BY InitInvariant, NextInvariant, PTL DEF Spec

\* The tree stays one, rooted and without a file of two names, and every call is one of
\* those the code makes.
THEOREM TypeCorrect == Spec => []TypeOK
<1>1. IInv => TypeOK
  BY DEF IInv
<1> QED BY <1>1, InductiveInvariant, PTL

\* A failed copy leaves a file behind only on a local backend, or beside other clients:
\* on a share of one's own the session thread unlinks the file it made, and no other.
THEOREM OnlyLocalCopiesLeaveFiles == Spec => []OnlyLocalCopiesLeave
<1>1. IInv => OnlyLocalCopiesLeave
  <2> SUFFICES ASSUME IInv, NEW t \in Task, LeftBehind(t)
               PROVE  (backend = "local" \/ others) /\ call[t].src # None
    BY DEF OnlyLocalCopiesLeave
  <2>1. call[t].at = "failed" /\ \E p \in DOMAIN tree : tree[p] = call[t].dst
    BY DEF LeftBehind
  <2>2. Holds(call[t], inode) /\ Aims(call[t], tree)
    BY OneCall
  <2> QED BY <2>1, <2>2, Now DEF Holds, Aims
<1> QED BY <1>1, InductiveInvariant, PTL

\* A listing says nothing that was not so during the call, misses nothing that stood there
\* throughout, and names nothing twice, whatever is done between its steps.
THEOREM ListingsAreTrue == Spec => []ListingIsTrue
<1>1. IInv => ListingIsTrue
  BY OneCall DEF ListingIsTrue, Lists, OneKindEach
<1> QED BY <1>1, InductiveInvariant, PTL

-----------------------------------------------------------------------------
(* What is lost *)

\* A step that makes the tree T of the inodes I loses only what it takes out of the tree or
\* makes shorter.
LEMMA BecomeLoses ==
    ASSUME IInv, NEW T, NEW I, NEW C, Become(T, I, C), NEW x \in DOMAIN inode, Loses(x)
    PROVE  /\ inode[x].kind = "file" /\ inode[x].len \in Nat
           /\ \E p \in DOMAIN tree : tree[p] = x
           /\ (\A p \in DOMAIN T : T[p] # x) \/ I[x].len < inode[x].len
<1> DEFINE live == {T[p] : p \in DOMAIN T} \cup ((UNION {{C[u].src, C[u].dst} : u \in Task}) \ {None})
<1>1. tree' = T /\ inode' = [z \in live |-> I[z]]
  BY DEF Become
<1>2. \A p \in DOMAIN T : T[p] \in live
  OBVIOUS
<1> HIDE DEF live
<1>3. (\A p \in DOMAIN T : T[p] # x) \/ inode'[x] = I[x]
  BY <1>1, <1>2
<1>4. inode[x].len \in Nat
  BY Now, MaxLenAssumption DEF Tree, Node
<1> QED BY <1>1, <1>3, <1>4 DEF Loses

\* A step that leaves everything in its place, and no file shorter, loses nothing.
LEMMA NothingLost ==
    ASSUME IInv, NEW T, NEW I, NEW C, Become(T, I, C), NEW x \in DOMAIN inode,
           \A p \in DOMAIN tree : p \in DOMAIN T /\ T[p] = tree[p],
           I[x].len >= inode[x].len, I[x].len \in Nat
    PROVE  ~Loses(x)
<1> SUFFICES ASSUME Loses(x) PROVE FALSE
  OBVIOUS
<1>1. /\ \E p \in DOMAIN tree : tree[p] = x
      /\ (\A p \in DOMAIN T : T[p] # x) \/ I[x].len < inode[x].len
      /\ inode[x].len \in Nat
  BY BecomeLoses
<1> QED BY <1>1

LEMMA Lengths == IInv => \A x \in DOMAIN inode : inode[x].len \in Nat
<1>1. IInv => \A x \in DOMAIN inode : inode[x].len \in 0..MaxLen
  BY Now DEF Tree, Node
<1> QED BY <1>1, MaxLenAssumption

LEMMA SameLosesNothing ==
    ASSUME IInv, NEW C, Become(tree, inode, C), NEW x \in DOMAIN inode
    PROVE  ~Loses(x)
<1>1. inode[x].len \in Nat /\ inode[x].len >= inode[x].len
  BY Lengths
<1> QED BY <1>1, NothingLost

LEMMA MakingLosesNothing ==
    ASSUME IInv, NEW p, p \notin DOMAIN tree, NEW z \in Fresh, NEW node, NEW C,
           Become(With(tree, p, z), With(inode, z, node), C), NEW x \in DOMAIN inode
    PROVE  ~Loses(x)
<1> DEFINE T == With(tree, p, z)
           I == With(inode, z, node)
<1>1. \A q \in DOMAIN tree : q \in DOMAIN T /\ T[q] = tree[q]
  BY DEF With
<1>2. I[x] = inode[x]
  BY DEF With, Fresh
<1>3. I[x].len \in Nat /\ I[x].len >= inode[x].len
  BY <1>2, Lengths
<1> HIDE DEF T, I
<1>4. Become(T, I, C)
  BY DEF T, I
<1> QED BY <1>1, <1>3, <1>4, NothingLost

LEMMA MakeLosesNothing ==
    ASSUME IInv, NEW p, NEW node, MakeAt(p, node), NEW x \in DOMAIN inode
    PROVE  ~Loses(x)
  BY MakingLosesNothing DEF MakeAt, MayBeMade, Exists

\* What a step takes out of the tree is at the path it names.
LEMMA UnlinkLoses ==
    ASSUME IInv, NEW p, NEW C, Become(Without(tree, {p}), inode, C),
           NEW x \in DOMAIN inode, Loses(x)
    PROVE  p \in DOMAIN tree /\ tree[p] = x /\ inode[x].kind = "file"
<1> DEFINE T == Without(tree, {p})
<1>1. \A q \in DOMAIN tree : q # p => q \in DOMAIN T /\ T[q] = tree[q]
  BY DEF Without
<1> HIDE DEF T
<1>2. /\ inode[x].kind = "file" /\ inode[x].len \in Nat
      /\ \E q \in DOMAIN tree : tree[q] = x
      /\ (\A q \in DOMAIN T : T[q] # x) \/ inode[x].len < inode[x].len
  BY BecomeLoses DEF T
<1> QED BY <1>1, <1>2

LEMMA MoveLoses ==
    ASSUME IInv, NEW p \in Location, NEW q \in Location, Move(p, q),
           NEW x \in DOMAIN inode, Loses(x)
    PROVE  q \in DOMAIN tree /\ tree[q] = x
<1> DEFINE T == Renamed(p, q)
<1>1. MayMove(p, q) /\ Become(T, inode, call)
  BY MoveRenames
<1>2. /\ DOMAIN T = DOMAIN Rest(p, q) \cup Targets(p, q)
      /\ \A y \in DOMAIN Rest(p, q) : T[y] = tree[y]
      /\ \A y \in Taken(p) : T[Target(p, q, y)] = tree[y]
  <2>1. Tree(tree, inode) /\ MayMove(p, q)
    BY <1>1, Now
  <2> QED BY <2>1, RenamedIs
<1> HIDE DEF T
<1>3. /\ inode[x].len \in Nat
      /\ \E y \in DOMAIN tree : tree[y] = x
      /\ (\A y \in DOMAIN T : T[y] # x) \/ inode[x].len < inode[x].len
  BY <1>1, BecomeLoses
<1>4. PICK y \in DOMAIN tree : tree[y] = x
  BY <1>3
<1>5. \A z \in DOMAIN T : T[z] # x
  BY <1>3
<1>6. y \notin DOMAIN Rest(p, q)
  BY <1>2, <1>4, <1>5
<1>7. y \notin Taken(p)
  BY <1>2, <1>4, <1>5 DEF Targets
<1>8. y = q
  BY <1>6, <1>7 DEF Rest, Without
<1> QED BY <1>4, <1>8

LEMMA OpenLoses ==
    ASSUME IInv, NEW t \in Task, NEW p \in Location, NEW f, Open(t, p, f),
           NEW x \in DOMAIN inode, Loses(x)
    PROVE  f.truncate /\ ~f.create_new /\ p \in DOMAIN tree /\ tree[p] = x
<1> DEFINE m == ModeOf(f)
           I == [inode EXCEPT ![tree[p]].len = 0]
<1>1. IsKind(p, "file") /\ ~m.create_new /\ m.truncate /\ Become(tree, I, call)
  BY MakeLosesNothing DEF Open
<1>2. m.truncate = f.truncate
  BY DEF ModeOf, Mode
<1>3. ~f.create_new
  <2> SUFFICES ASSUME f.create_new PROVE FALSE
    OBVIOUS
  <2>1. m = [Mode(FALSE, TRUE, TRUE) EXCEPT !.truncate = f.truncate]
    BY DEF ModeOf
  <2>2. m.create_new = TRUE
    BY <2>1 DEF Mode
  <2> QED BY <1>1, <2>2
<1>4. p \in DOMAIN tree
  BY <1>1 DEF IsKind, Exists
<1>5. /\ \E q \in DOMAIN tree : tree[q] = x
      /\ (\A q \in DOMAIN tree : tree[q] # x) \/ I[x].len < inode[x].len
      /\ inode[x].len \in Nat
  <2> HIDE DEF I
  <2> QED BY <1>1, BecomeLoses
<1>6. tree[p] = x
  <2>1. CASE tree[p] # x
    <3>1. I[x] = inode[x]
      BY <2>1
    <3> HIDE DEF I
    <3> QED BY <1>5, <3>1
  <2> QED BY <2>1
<1> HIDE DEF m
<1> QED BY <1>1, <1>2, <1>3, <1>4, <1>6

LEMMA BeginsLoses ==
    ASSUME IInv, NEW t \in Task, NEW p \in Asked, Begins(t, p), NEW x \in DOMAIN inode, Loses(x)
    PROVE  AskedFor(x)
<1>1. p \in Location
  BY AskedIs
<1>2. CASE Mkdir(t, p)
  BY <1>2, MakeLosesNothing DEF Mkdir, MakeDir
<1>3. CASE RemoveFile(t, p)
  <2>1. p \in DOMAIN tree /\ tree[p] = x
    BY <1>3, UnlinkLoses DEF RemoveFile, UnlinkFile
  <2> QED BY <1>3, <2>1 DEF AskedFor
<1>4. CASE RemoveDir(t, p)
  <2>1. tree[p] = x /\ inode[x].kind = "file"
    BY <1>4, UnlinkLoses DEF RemoveDir, UnlinkDir
  <2> QED BY <1>4, <2>1 DEF RemoveDir, UnlinkDir, IsKind, At
<1>5. CASE ListOpens(t, p)
  BY <1>5, SameLosesNothing DEF ListOpens
<1>6. ASSUME NEW f \in Requests, Open(t, p, f) PROVE AskedFor(x)
  <2>1. f.truncate /\ ~f.create_new /\ p \in DOMAIN tree /\ tree[p] = x
    BY <1>1, <1>6, OpenLoses
  <2> QED BY <1>6, <2>1 DEF AskedFor
<1>7. ASSUME NEW q \in Asked, Rename(t, p, q) PROVE AskedFor(x)
  <2>1. q \in Location
    BY AskedIs
  <2>2. q \in DOMAIN tree /\ tree[q] = x
    BY <1>1, <1>7, <2>1, MoveLoses DEF Rename
  <2> QED BY <1>1, <1>7, <2>2 DEF AskedFor
<1>8. ASSUME NEW q \in Asked, CopyOpensSource(t, p, q) PROVE AskedFor(x)
  BY <1>8, SameLosesNothing DEF CopyOpensSource
<1> QED BY <1>2, <1>3, <1>4, <1>5, <1>6, <1>7, <1>8 DEF Begins

LEMMA CopyMovesLoses ==
    ASSUME IInv, NEW t \in Task, CopyMoves(t), NEW x \in DOMAIN inode
    PROVE  ~Loses(x)
<1> DEFINE c == call[t]
           n == IF inode[c.dst].len > c.done THEN inode[c.dst].len ELSE c.done + 1
           I == [inode EXCEPT ![c.dst].len = n]
           C == Goes(t, [c EXCEPT !.done = @ + 1])
<1>1. Become(tree, I, C)
  BY DEF CopyMoves
<1>2. c.at = "move" /\ c \in Call /\ Holds(c, inode)
  BY OneCall DEF CopyMoves
<1>3. c.dst \in DOMAIN inode /\ c.done \in Nat
  <2>1. c.done \in 0..MaxLen
    BY <1>2 DEF Call
  <2> QED BY <1>2, <2>1, MaxLenAssumption DEF Holds
<1>4. inode[c.dst].len \in Nat /\ inode[x].len \in Nat
  BY <1>3, Lengths
<1>5. n \in Nat /\ n >= inode[c.dst].len
  BY <1>3, <1>4
<1>6. I[x].len = IF x = c.dst THEN n ELSE inode[x].len
  <2>1. inode[x] \in Node
    BY Now DEF Tree
  <2> HIDE DEF n, c
  <2> QED BY <2>1 DEF Node
<1> HIDE DEF c, n, I, C
<1>7. I[x].len \in Nat /\ I[x].len >= inode[x].len
  BY <1>4, <1>5, <1>6
<1> QED BY <1>1, <1>7, NothingLost

LEMMA ProceedLoses ==
    ASSUME IInv, NEW t \in Task, Proceed(t), NEW x \in DOMAIN inode, Loses(x)
    PROVE  AskedFor(x)
<1>1. CASE CopyMakesDest(t)
  <2>1. CASE Become(tree, inode, Goes(t, Idle))
    BY <2>1, SameLosesNothing
  <2>2. ASSUME MayBeMade(call[t].to), NEW z \in Fresh,
               Become(With(tree, call[t].to, z), With(inode, z, File(0)),
                      Goes(t, [call[t] EXCEPT !.at = "move", !.dst = z]))
        PROVE  FALSE
    BY <2>2, MakingLosesNothing DEF MayBeMade, Exists
  <2> QED BY <1>1, <2>1, <2>2 DEF CopyMakesDest
<1>2. CASE CopyMoves(t)
  BY <1>2, CopyMovesLoses
<1>3. CASE CopySucceeds(t)
  BY <1>3, SameLosesNothing DEF CopySucceeds
<1>4. CASE CopyFails(t)
  BY <1>4, SameLosesNothing DEF CopyFails
<1>5. CASE CopyUnlinks(t)
  <2> DEFINE p == call[t].to
  <2>1. ~Become(tree, inode, Goes(t, [call[t] EXCEPT !.at = "stuck"]))
    BY SameLosesNothing
  <2>2. Become(Without(tree, {p}), inode, Goes(t, [call[t] EXCEPT !.at = "failed"]))
    BY <1>5, <2>1 DEF CopyUnlinks
  <2>3. p \in DOMAIN tree /\ tree[p] = x
    BY <2>2, UnlinkLoses
  <2>4. call[t].at = "unlink" /\ Holds(call[t], inode) /\ Aims(call[t], tree)
    BY <1>5, OneCall DEF CopyUnlinks
  <2>5. backend = "smb"
    BY <2>4, Now DEF Holds
  <2>6. call[t].dst = x \/ others
    BY <2>3, <2>4, <2>5 DEF Aims
  <2> QED BY <1>5, <2>3, <2>6 DEF AskedFor
<1>6. CASE ListLooks(t)
  BY <1>6, SameLosesNothing DEF ListLooks
<1>7. CASE Returns(t)
  BY <1>7, SameLosesNothing DEF Returns
<1> QED BY <1>1, <1>2, <1>3, <1>4, <1>5, <1>6, <1>7 DEF Proceed

LEMMA OthersLoses == ASSUME Others, NEW x \in DOMAIN inode, Loses(x) PROVE AskedFor(x)
  BY DEF Loses, AskedFor

\* No step loses a file with bytes in it, unless it was asked to, by naming that file: no
\* copy, no exclusive open, no mkdir and no listing does, in any interleaving.
THEOREM NothingIsLostUnasked == Spec => NothingLostUnasked
<1>1. IInv /\ [Next]_vars => [\A x \in DOMAIN inode : Loses(x) => AskedFor(x)]_vars
  BY NextIs, BeginsLoses, ProceedLoses, OthersLoses
<1> QED BY <1>1, InductiveInvariant, PTL DEF Spec, NothingLostUnasked
=============================================================================
