----------------------------- MODULE Namespace -----------------------------
(***************************************************************************)
(* The tree of files behind a session, and the calls of StorageBackend     *)
(* that change or list it, over either backend: krystallos-local           *)
(* (backend.rs), whose calls run at once on whatever threads poll them,    *)
(* and krystallos-smb (actor.rs), whose session thread runs one at a time. *)
(* Other clients of the share use the same tree.                           *)
(*                                                                         *)
(* A step is what the filesystem or the server does at one instant.  A call*)
(* of one such step is one action here; copies and local listings have     *)
(* many.  A call that fails without having changed anything is not a step. *)
(* Contents are lengths.                                                   *)
(***************************************************************************)
EXTENDS Paths

CONSTANTS
    Location,  \* bound: the paths there may be something at
    Inode,     \* bound: the files and directories there may be at once
    Task,      \* the callers
    MaxLen,    \* bound: the longest file
    Requests,  \* bound: the OpenFlags asked for
    Raws,      \* bound: the segments paths are made of
    None

\* They are paths as VfsPath has them, with all that is above them.
ASSUME LocationAssumption ==
    /\ Root \in Location
    /\ \A p \in Location :
          /\ p \in Seq(STRING) /\ \A i \in DOMAIN p : p[i] \notin {"", ".", ".."}
          /\ \A n \in 0..Len(p) : SubSeq(p, 1, n) \in Location
ASSUME NoneAssumption == None \notin Inode
ASSUME MaxLenAssumption == MaxLen \in Nat

VARIABLES
    backend,  \* "local" or "smb"
    others,   \* whether other clients use the share meanwhile
    tree,     \* which file or directory each path leads to
    inode,    \* those that are in the tree or held open by a call
    call      \* the call of many steps each task has under way

vars == <<backend, others, tree, inode, call>>

-----------------------------------------------------------------------------
(* The tree *)

Kind == {"dir", "file", "link"}
Node == [kind : Kind, len : 0..MaxLen]

Dir == [kind |-> "dir", len |-> 0]
File(n) == [kind |-> "file", len |-> n]
Link == [kind |-> "link", len |-> 0]   \* a symbolic link that leads out of the tree

Exists(p) == p \in DOMAIN tree
At(p) == inode[tree[p]]
IsKind(p, k) == Exists(p) /\ At(p).kind = k

\* The root of a local backend has a parent, which is none of this tree.
MayBeMade(p) == ~Exists(p) /\ (p = Root \/ IsKind(Parent(p), "dir"))

Below(t, p) == {q \in DOMAIN t : IsStrictPrefix(p, q)}
Children(t, p) == {q \in Below(t, p) : Len(q) = Len(p) + 1}

Fresh == Inode \ DOMAIN inode

Without(t, ps) == [p \in DOMAIN t \ ps |-> t[p]]
With(f, x, y) == [z \in DOMAIN f \cup {x} |-> IF z = x THEN y ELSE f[z]]

-----------------------------------------------------------------------------
(* Calls of many steps *)

\* seen and always are what a listing is measured by: all that stood in the
\* directory at some moment of the call, and the names that stood there throughout.
Idle == [at |-> "idle", from |-> Root, to |-> Root,
         src |-> None, dst |-> None, done |-> 0,
         todo |-> {}, out |-> {}, seen |-> {}, always |-> {}]

Entry(name, kind) == [name |-> name, kind |-> kind]

Entries(t, i, p) == {Entry(FileName(q), i[t[q]].kind) : q \in Children(t, p)}
Names(es) == {e.name : e \in es}

Observed(c, t, i) ==
    IF c.at # "next" THEN c
    ELSE LET now == Entries(t, i, c.from)
         IN  [c EXCEPT !.seen = @ \cup now, !.always = @ \cap Names(now)]

\* The tree is now t, of the inodes i, and the calls are c.
Become(t, i, c) ==
    LET held == (UNION {{c[u].src, c[u].dst} : u \in Task}) \ {None}
        live == {t[p] : p \in DOMAIN t} \cup held
    IN  /\ tree' = t
        /\ inode' = [x \in live |-> i[x]]
        /\ call' = [u \in Task |-> Observed(c[u], t, i)]
        /\ UNCHANGED <<backend, others>>

\* The session thread takes no other call while it is in one; the local backend's
\* calls are their tasks' own.
Turn(t) ==
    /\ call[t] = Idle
    /\ backend = "smb" => \A u \in Task : call[u] = Idle

Goes(t, c) == [call EXCEPT ![t] = c]

-----------------------------------------------------------------------------
(* Calls of one step *)

MakeAt(p, node) ==
    /\ MayBeMade(p)
    /\ \E x \in Fresh : Become(With(tree, p, x), With(inode, x, node), call)

MakeDir(p) == MakeAt(p, Dir)

UnlinkFile(p) ==
    /\ Exists(p) /\ ~IsKind(p, "dir")
    /\ Become(Without(tree, {p}), inode, call)

UnlinkDir_Any(p) ==
    /\ IsKind(p, "dir") /\ p # Root
    /\ Become(Without(tree, {p}), inode, call)

UnlinkDir(p) ==
    /\ IsKind(p, "dir") /\ Below(tree, p) = {}
    /\ Become(Without(tree, {p}), inode, call)

\* rename(2): what is at q is replaced, if it is of the same kind and empty.  A share
\* may do so or refuse.  A directory takes what is below it along.
Move(p, q) ==
    LET moved == {p} \cup Below(tree, p)
        To(x) == q \o SubSeq(x, Len(p) + 1, Len(x))
    IN  /\ Exists(p) /\ p # q /\ ~IsPrefix(p, q)
        /\ \/ MayBeMade(q)
           \/ Exists(q) /\ (IsKind(p, "dir") <=> IsKind(q, "dir")) /\ Below(tree, q) = {}
        /\ {To(x) : x \in moved} \subseteq Location
        /\ LET rest == Without(tree, moved \cup {q})
           IN  Become([y \in DOMAIN rest \cup {To(x) : x \in moved} |->
                          IF y \in DOMAIN rest THEN rest[y]
                          ELSE tree[CHOOSE x \in moved : To(x) = y]], inode, call)

Mkdir(t, p) == Turn(t) /\ MakeDir(p)
RemoveFile(t, p) == Turn(t) /\ UnlinkFile(p)

\* A local root is a directory like any other; a share's cannot be removed.
RemoveDir(t, p) ==
    /\ Turn(t) /\ UnlinkDir(p)
    /\ backend = "smb" => p # Root

Rename(t, p, q) == Turn(t) /\ Move(p, q)

-----------------------------------------------------------------------------
(* open *)

OpenFlags == [read : BOOLEAN, write : BOOLEAN, create : BOOLEAN,
              create_new : BOOLEAN, truncate : BOOLEAN]

\* OpenMode's constructors; each but the first creates what is not there.
Mode(r, w, new) ==
    [read |-> r, write |-> w, create |-> w, create_new |-> new, truncate |-> FALSE]

\* From<OpenFlags> for OpenMode: create is not looked at, and create_new is write-only.
ModeOf(f) ==
    [IF f.create_new THEN Mode(FALSE, TRUE, TRUE) ELSE Mode(f.read \/ ~f.write, f.write, FALSE)
        EXCEPT !.truncate = f.truncate]

\* What is at p when the open is done.  Locally, truncating asks for write access; a
\* share may go either way.  Nothing here changes when a link leads elsewhere.
Open(t, p, f) ==
    LET m == ModeOf(f) IN
    /\ Turn(t)
    /\ backend = "local" /\ m.truncate => m.write
    /\ \/ m.create /\ MakeAt(p, File(0))
       \/ /\ IsKind(p, "file") /\ ~m.create_new
          /\ m.truncate
          /\ Become(tree, [inode EXCEPT ![tree[p]].len = 0], call)

-----------------------------------------------------------------------------
(* copy *)

\* The source is opened first; a directory opens too.
CopyOpensSource(t, p, q) ==
    /\ Turn(t)
    /\ Exists(p) /\ ~IsKind(p, "link")
    /\ Become(tree, inode, Goes(t, [Idle EXCEPT !.at = "create", !.to = q, !.src = tree[p]]))

CopyMakesDest_Overwriting(t) ==
    /\ call[t].at = "create"
    /\ \/ /\ MayBeMade(call[t].to)
          /\ \E x \in Fresh :
                Become(With(tree, call[t].to, x), With(inode, x, File(0)),
                       Goes(t, [call[t] EXCEPT !.at = "move", !.dst = x]))
       \/ /\ IsKind(call[t].to, "file")
          /\ LET x == tree[call[t].to]
             IN  Become(tree, [inode EXCEPT ![x] = File(0)],
                        Goes(t, [call[t] EXCEPT !.at = "move", !.dst = x]))
       \/ Become(tree, inode, Goes(t, Idle))

\* create_new, or O_CREAT | O_EXCL: a name that is taken ends the copy, and so does
\* any other failure.
CopyMakesDest(t) ==
    /\ call[t].at = "create"
    /\ \/ /\ MayBeMade(call[t].to)
          /\ \E x \in Fresh :
                Become(With(tree, call[t].to, x), With(inode, x, File(0)),
                       Goes(t, [call[t] EXCEPT !.at = "move", !.dst = x]))
       \/ Become(tree, inode, Goes(t, Idle))

\* Some of the bytes, to where the handles are, whatever their paths lead to by now.
CopyMoves(t) ==
    LET c == call[t] IN
    /\ c.at = "move"
    /\ inode[c.src].kind = "file" /\ c.done < inode[c.src].len
    /\ Become(tree, [inode EXCEPT ![c.dst].len = IF @ > c.done THEN @ ELSE c.done + 1],
              Goes(t, [c EXCEPT !.done = @ + 1]))

CopySucceeds(t) ==
    LET c == call[t] IN
    /\ c.at = "move"
    /\ inode[c.src].kind = "file" /\ c.done >= inode[c.src].len
    /\ Become(tree, inode, Goes(t, [c EXCEPT !.at = "copied", !.to = Root, !.done = 0]))

CopyFails_KeepsPartial(t) ==
    /\ call[t].at = "move"
    /\ Become(tree, inode, Goes(t, [call[t] EXCEPT !.at = "failed"]))

\* At any byte, and always when the source is a directory.  The local backend leaves
\* it at that.
CopyFails(t) ==
    /\ call[t].at = "move"
    /\ Become(tree, inode,
              Goes(t, [call[t] EXCEPT !.at = IF backend = "smb" THEN "unlink" ELSE "failed",
                                       !.done = 0]))

\* smb2_unlink of the name, whatever file has it.  Nobody looks whether it failed.
CopyUnlinks(t) ==
    /\ call[t].at = "unlink"
    /\ \/ /\ Exists(call[t].to) /\ ~IsKind(call[t].to, "dir")
          /\ Become(Without(tree, {call[t].to}), inode,
                    Goes(t, [call[t] EXCEPT !.at = "failed"]))
       \/ Become(tree, inode, Goes(t, [call[t] EXCEPT !.at = "stuck"]))

-----------------------------------------------------------------------------
(* list *)

\* A share answers with the entries and their metadata, "." and ".." among them.
\* Locally read_dir has the names.
ListOpens(t, p) ==
    /\ Turn(t) /\ IsKind(p, "dir")
    /\ LET now == Entries(tree, inode, p)
           answer == now \cup {Entry(".", "dir"), Entry("..", "dir")}
           c == [Idle EXCEPT !.from = p, !.seen = now, !.always = Names(now)]
       IN  Become(tree, inode, Goes(t,
              IF backend = "local"
              THEN [c EXCEPT !.at = IF now = {} THEN "listed" ELSE "next", !.todo = Names(now)]
              ELSE [c EXCEPT !.at = "listed",
                             !.out = {e \in answer : e.name \notin {".", ".."}}]))

ListLooks_Stops(t) ==
    LET c == call[t] IN
    /\ c.at = "next"
    /\ \E name \in c.todo :
          LET p == Append(c.from, name) IN
          Become(tree, inode, Goes(t,
             IF Exists(p)
             THEN [c EXCEPT !.todo = @ \ {name}, !.out = @ \cup {Entry(name, At(p).kind)},
                            !.at = IF c.todo = {name} THEN "listed" ELSE "next"]
             ELSE [c EXCEPT !.todo = {}, !.at = "listed"]))

\* symlink_metadata of the next one, by its path; one that is gone is left out.
ListLooks(t) ==
    LET c == call[t] IN
    /\ c.at = "next"
    /\ \E name \in c.todo :
          LET p == Append(c.from, name) IN
          Become(tree, inode, Goes(t,
             [c EXCEPT !.todo = @ \ {name},
                       !.out = IF Exists(p) THEN @ \cup {Entry(name, At(p).kind)} ELSE @,
                       !.at = IF c.todo = {name} THEN "listed" ELSE "next"]))

-----------------------------------------------------------------------------

Returns(t) ==
    /\ call[t].at \in {"copied", "failed", "stuck", "listed"}
    /\ Become(tree, inode, Goes(t, Idle))

Proceed(t) ==
    \/ CopyMakesDest(t) \/ CopyMoves(t) \/ CopySucceeds(t) \/ CopyFails(t) \/ CopyUnlinks(t)
    \/ ListLooks(t) \/ Returns(t)

\* Another client of the share.  (Another process that uses the tree of a local
\* backend does nothing that another task does not.)
Others ==
    /\ others
    /\ \E p \in Location :
          \/ MakeAt(p, File(MaxLen)) \/ MakeAt(p, Link) \/ UnlinkFile(p)
          \/ \E q \in Location : Move(p, q)

Init ==
    /\ backend \in {"local", "smb"}
    /\ others \in {FALSE, backend = "smb"}
    /\ \E x, y \in Inode, p \in Location \ {Root}, node \in {File(MaxLen), Link} :
          /\ x # y /\ Parent(p) = Root
          /\ tree = With([q \in {Root} |-> x], p, y)
          /\ inode = With([z \in {x} |-> Dir], y, node)
    /\ call = [t \in Task |-> Idle]

\* What callers name paths by is normalised first; text that leads out of the tree is
\* refused, and is no step.
Asked == {p \in Location : \E raw \in Raws : Normalise(raw) = Path(p)}

Next ==
    \/ \E t \in Task :
          \/ \E p \in Asked :
                \/ Mkdir(t, p) \/ RemoveFile(t, p) \/ RemoveDir(t, p) \/ ListOpens(t, p)
                \/ \E f \in Requests : Open(t, p, f)
                \/ \E q \in Asked : Rename(t, p, q) \/ CopyOpensSource(t, p, q)
          \/ Proceed(t)
    \/ Others

Spec == Init /\ [][Next]_vars

-----------------------------------------------------------------------------

Call == [at : {"idle", "create", "move", "copied", "unlink", "failed", "stuck", "next", "listed"},
         from : Location, to : Location, src : Inode \cup {None}, dst : Inode \cup {None},
         done : 0..MaxLen, todo : SUBSET STRING, always : SUBSET STRING,
         out : SUBSET [name : STRING, kind : Kind], seen : SUBSET [name : STRING, kind : Kind]]

\* Everything is in a directory, and every inode has one name at most.
TypeOK ==
    /\ backend \in {"local", "smb"} /\ others \in BOOLEAN
    /\ DOMAIN inode \subseteq Inode /\ inode \in [DOMAIN inode -> Node]
    /\ DOMAIN tree \subseteq Location /\ tree \in [DOMAIN tree -> DOMAIN inode]
    /\ \A p, q \in DOMAIN tree : tree[p] = tree[q] => p = q
    /\ \A p \in DOMAIN tree \ {Root} : IsKind(Parent(p), "dir")
    /\ call \in [Task -> Call]

\* The copy has failed and what it made is still there, under whatever name.
LeftBehind(t) ==
    /\ call[t].at = "failed"
    /\ \E p \in DOMAIN tree : tree[p] = call[t].dst

\* What the contract of copy, "the same behaviour either way", and the test of a copy
\* of a directory say: a copy that fails leaves nothing behind.
FailedCopyLeavesNothing == \A t \in Task : ~LeftBehind(t)

\* It holds of a share, unless the unlink fails or another client moves the file away;
\* and of both whenever the source could not be opened.
OnlyLocalCopiesLeave ==
    \A t \in Task : LeftBehind(t) =>
       (backend = "local" \/ others) /\ call[t].src # None

\* A listing says nothing that was not so at some moment of the call, for each name
\* once, and misses no name that was there all the time: whatever is made, removed and
\* renamed between the names and the metadata.
ListingIsTrue ==
    \A t \in Task : call[t].at = "listed" =>
       /\ call[t].out \subseteq call[t].seen
       /\ call[t].always \subseteq Names(call[t].out)
       /\ \A e, f \in call[t].out : e.name = f.name => e = f

\* A file with bytes in it ceases to be in the tree or loses bytes.
Loses(x) ==
    /\ inode[x].kind = "file" /\ inode[x].len > 0
    /\ \E p \in DOMAIN tree : tree[p] = x
    /\ \/ \A p \in DOMAIN tree' : tree'[p] # x
       \/ inode'[x].len < inode[x].len

\* It was asked for: the call that did it names the file, and says so.
AskedFor(x) ==
    \E p \in DOMAIN tree :
       /\ tree[p] = x
       /\ \/ Others
          \/ \E t \in Task :
                \/ RemoveFile(t, p)
                \/ \E q \in Location : Rename(t, q, p)
                \/ \E f \in Requests : f.truncate /\ ~f.create_new /\ Open(t, p, f)
                \/ CopyUnlinks(t) /\ (call[t].dst = x \/ others)

\* No file is lost by a copy, an exclusive open, a mkdir or a listing, however the
\* calls of tasks and of others interleave.  (On a share the unlink by name of a failed
\* copy may take a file that another client put there.)
NothingLostUnasked == [][\A x \in DOMAIN inode : Loses(x) => AskedFor(x)]_vars
=============================================================================
