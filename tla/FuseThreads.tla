---------------------------- MODULE FuseThreads -----------------------------
(***************************************************************************)
(* BlockFuse as fuse_main runs it: several threads inside its operations   *)
(* at once, over a block manager in the network.                           *)
(*                                                                         *)
(* No lock guards root_block_ (the FIXMEs of block_fuse.cc ask for one).   *)
(* An operation reads it when it resolves a path, more than once if it     *)
(* resolves several, works on the blocks it found, which never change, and *)
(* a change ends by assigning a new root and freeing what it replaced.     *)
(* Between those steps the other threads take theirs.                      *)
(*                                                                         *)
(* Blocks are kept for ever in made, the set freed says which of them the  *)
(* manager was told to drop.  BlockStore promises nothing about a freed    *)
(* block: a thread that fetches one may get it, while it still circulates, *)
(* or wait for ever.  So fetches at several moments of one walk can be one *)
(* step: all that another moment changes is whether the thread may hang.   *)
(*                                                                         *)
(* A file has one leaf, and a write replaces all of it.                    *)
(***************************************************************************)
EXTENDS Integers, FiniteSets, SequencesExt

CONSTANTS Threads,    \* threads of libfuse
          Names,      \* names of files and directories
          Values,     \* what a write may carry
          DirName,    \* the directory and the file, with contents, that are
          FileName,   \*   in / when the threads start
          MaxDepth,   \* bound: names in a path
          MaxCalls    \* bound: calls

ASSUME ThreadBounds == MaxDepth \in Nat \ {0} /\ MaxCalls \in Nat
ASSUME StartAssumption ==
  {DirName, FileName} \subseteq Names /\ DirName # FileName

VARIABLES made,         \* the blocks created, by id; their data
          freed,        \* ids passed to free_block
          root_block_,  \* id of the root block
          th,           \* what each thread is doing
          crashed,      \* the process died
          calls,        \* calls so far
          stale,        \* a root was replaced that was not the one the new
                        \*   one was built from: an update was lost
          beside        \* the threads next to which, some time in their
                        \*   present call, another was making a change

vars == <<made, freed, root_block_, th, crashed, calls, stale, beside>>

Paths == BoundedSeq(Names, MaxDepth)

Changes == {"mkdir", "create", "rmdir", "write"}
Reads == {"getattr", "readdir", "read"}

-----------------------------------------------------------------------------
(* Blocks *)

Entry(kind, name, kids) ==
  [kind |-> kind, name |-> name, kids |-> kids, data |-> <<>>]
Contents(value) ==
  [kind |-> "contents", name |-> "", kids |-> {}, data |-> <<value>>]

\* get_path_part: the entries with a name among the children of the last block
\* found so far.  The manager returns blocks in the order they arrive, so any
\* of them may be the first.
get_path_part(blocks, name) ==
  {Append(blocks, kid) : kid \in
     {k \in made[Last(blocks)].kids :
        made[k].kind # "contents" /\ made[k].name = name}}

\* get_path: the blocks from root along path, as far as there are any.
get_path(root, path) ==
  LET walk[n \in 0 .. Len(path)] ==
        IF n = 0 THEN {<<root>>}
        ELSE UNION {IF Len(blocks) < n \/ get_path_part(blocks, path[n]) = {}
                    THEN {blocks}
                    ELSE get_path_part(blocks, path[n]) : blocks \in walk[n - 1]}
  IN walk[Len(path)]

Complete(blocks, path) == Len(blocks) = Len(path) + 1

\* What the walk fetched: all children of every block but the last.
Fetched(blocks, path) ==
  UNION {made[blocks[i]].kids : i \in DOMAIN blocks \cap 1 .. Len(path)}

\* A fetch of these blocks may never return.
MayHang(ids) == ids \cap freed # {}

\* The new child's id is taken one too high.
replace_chain_off(blocks, remove, add, base) ==
  LET n == Len(blocks)
      copy(i) == IF i = n
        THEN [made[blocks[i]] EXCEPT !.kids = (@ \ remove) \cup add]
        ELSE [made[blocks[i]] EXCEPT
                !.kids = (@ \ {blocks[i + 1]}) \cup {base + n - i}]
  IN [j \in 1 .. n |-> copy(n + 1 - j)]

\* replace_chain: the blocks of a path anew, from the last to the first, with
\* ids from base on; the last loses the children remove and gets add, each
\* other one its new child for the old.
replace_chain(blocks, remove, add, base) ==
  LET n == Len(blocks)
      copy(i) == IF i = n
        THEN [made[blocks[i]] EXCEPT !.kids = (@ \ remove) \cup add]
        ELSE [made[blocks[i]] EXCEPT
                !.kids = (@ \ {blocks[i + 1]}) \cup {base + n - i - 1}]
  IN [j \in 1 .. n |-> copy(n + 1 - j)]

-----------------------------------------------------------------------------
(* Calls *)

Idle == [pc |-> "idle", op |-> "none", path |-> <<>>, value |-> <<>>,
         resolve |-> <<>>, root |-> 0, blocks |-> <<>>, new |-> 0,
         sweep |-> {}]

\* External: the kernel's VFS holds the lock of the directory in which an entry
\* is made, removed or listed, of the directory removed and of the file
\* written, as long as the file system works on it.
Locks(op, path) ==
  CASE op \in {"mkdir", "create"} -> {Front(path)}
    [] op = "rmdir" -> {Front(path), path}
    [] op \in {"write", "readdir"} -> {path}
    [] op \in {"getattr", "read"} -> {}

\* External: the VFS looked the parent up before it passes on a call that adds
\* an entry, and found a directory.
Passes(op, path) ==
  op \in {"mkdir", "create"} =>
    \E blocks \in get_path(root_block_, Front(path)) :
      Complete(blocks, Front(path)) /\ made[Last(blocks)].kind = "dir"

\* mkdir does not ask whether the path is there.
ResolvesUnchecked(op) ==
  CASE op = "mkdir" -> <<"parent">>
    [] op = "create" -> <<"absent", "absent", "parent">>
    [] OTHER -> <<"present">>

\* The paths an operation resolves, in order, and what it needs of them:
\* mkdir_valid asks getattr for the path, then resolves the parent; create
\* looks for the path itself, create_file_block again.
Resolves(op) ==
  CASE op = "mkdir" -> <<"absent", "parent">>
    [] op = "create" -> <<"absent", "absent", "parent">>
    [] OTHER -> <<"present">>

Target(r) == IF Head(r.resolve) = "parent" THEN Front(r.path) ELSE r.path

\* A call of FuseWrapper's static functions arrives at a free thread.  unlink
\* is rmdir.
Call(t) ==
  /\ calls < MaxCalls
  /\ th[t].pc = "idle"
  /\ \E op \in Changes \cup Reads, path \in Paths, value \in Values :
       /\ op \in Changes => path # <<>> /\ Passes(op, path)
       /\ op # "write" => value = CHOOSE v \in Values : TRUE
       /\ \A u \in Threads \ {t} :
            th[u].pc # "idle" => Locks(op, path) \cap Locks(th[u].op, th[u].path) = {}
       /\ th' = [th EXCEPT ![t] =
            [Idle EXCEPT !.pc = "root", !.op = op, !.path = path,
                         !.value = <<value>>, !.resolve = Resolves(op)]]
  /\ calls' = calls + 1
  /\ UNCHANGED <<made, freed, root_block_, crashed, stale>>

Return(t) == th' = [th EXCEPT ![t] = Idle]

Hang(t) ==
  /\ th' = [th EXCEPT ![t].pc = "hung"]
  /\ UNCHANGED <<made, freed>>

\* The threads in the middle of an assignment to root_block_.
Assigning(t) == {u \in Threads \ {t} : th[u].pc = "switching"}

\* get_path starts by copying root_block_.
Root(t) ==
  /\ th[t].pc = "root"
  /\ th' = [th EXCEPT ![t].pc = "walk", ![t].root = root_block_]
  /\ UNCHANGED <<made, freed, root_block_, crashed, calls, stale>>

\* root_block_ is a shared_ptr: a copy or an assignment next to another
\* assignment can miscount the references of the old root and use it when it
\* is deleted.
RaceCrash(t) ==
  /\ th[t].pc \in {"root", "switch"}
  /\ Assigning(t) # {}
  /\ crashed' = TRUE
  /\ UNCHANGED <<made, freed, root_block_, th, calls, stale>>

\* What an operation does with the blocks of a path it found.
Found(r, blocks) ==
  CASE Head(r.resolve) = "absent" -> Idle
    [] Head(r.resolve) = "again" -> Idle
    [] Head(r.resolve) = "parent" -> [r EXCEPT !.pc = "build", !.blocks = blocks]
    [] r.op = "getattr" -> Idle
    [] r.op = "rmdir" -> [r EXCEPT !.pc = "build", !.blocks = blocks]
    [] r.op = "readdir" -> [r EXCEPT !.pc = "fetch", !.blocks = blocks]
    [] r.op \in {"read", "write"} ->
         IF made[Last(blocks)].kind = "dir" THEN Idle
         ELSE [r EXCEPT !.pc = "fetch", !.blocks = blocks]

\* And with a path it did not find.  create asserts that its file is there.
Missing(r) ==
  CASE Head(r.resolve) = "absent" -> [r EXCEPT !.pc = "root", !.resolve = Tail(@)]
    [] Head(r.resolve) = "again" -> [r EXCEPT !.pc = "aborted"]
    [] OTHER -> Idle

\* The rest of get_path.
Walk(t) ==
  LET r == th[t] IN
  /\ r.pc = "walk"
  /\ \E blocks \in get_path(r.root, Target(r)) :
       \/ /\ MayHang(Fetched(blocks, Target(r)))
          /\ Hang(t)
          /\ UNCHANGED crashed
       \/ /\ th' = [th EXCEPT ![t] = IF Complete(blocks, Target(r))
                                     THEN Found(r, blocks) ELSE Missing(r)]
          /\ crashed' = (th'[t].pc = "aborted")
          /\ UNCHANGED <<made, freed>>
  /\ UNCHANGED <<root_block_, calls, stale>>

\* write frees the contents as soon as it has read them.
FetchFreeing(t) ==
  LET r == th[t] IN
  /\ r.pc = "fetch"
  /\ \/ MayHang(made[Last(r.blocks)].kids) /\ Hang(t)
     \/ /\ IF r.op = "write"
           THEN /\ th' = [th EXCEPT ![t].pc = "sweep", ![t].sweep = {Last(r.blocks)}]
                /\ freed' = freed \cup made[Last(r.blocks)].kids
           ELSE Return(t) /\ UNCHANGED freed
        /\ UNCHANGED made
  /\ UNCHANGED <<root_block_, crashed, calls, stale>>

\* readdir's entries, or the contents read and write begin with.  write frees
\* the old contents before there are new ones.
Fetch(t) ==
  LET r == th[t] IN
  /\ r.pc = "fetch"
  /\ \/ MayHang(made[Last(r.blocks)].kids) /\ Hang(t)
     \/ /\ IF r.op = "write"
           THEN th' = [th EXCEPT ![t].pc = "sweep", ![t].sweep = {Last(r.blocks)}]
           ELSE Return(t)
        /\ UNCHANGED <<made, freed>>
  /\ UNCHANGED <<root_block_, crashed, calls, stale>>

\* The new blocks of a change, created bottom up; the last is the new root.
NewBlocks(r) ==
  LET id == Len(made) + 1
      under(leaf, remove) ==
        <<leaf>> \o replace_chain(r.blocks, remove, {id}, id + 1)
  IN CASE r.op = "mkdir" -> under(Entry("dir", Last(r.path), {}), {})
       [] r.op = "create" -> under(Entry("file", Last(r.path), {}), {})
       [] r.op = "write" ->
            under(Contents(r.value[1]), made[Last(r.blocks)].kids)
       [] r.op = "rmdir" ->
            replace_chain(Front(r.blocks), {Last(r.blocks)}, {}, id)

\* No other thread can name these blocks before the switch.
Build(t) ==
  LET blocks == NewBlocks(th[t]) IN
  /\ th[t].pc = "build"
  /\ made' = made \o blocks
  /\ th' = [th EXCEPT ![t].pc = "switch", ![t].new = Len(made) + Len(blocks)]
  /\ UNCHANGED <<freed, root_block_, crashed, calls, stale>>

\* The path is freed before the root is switched.
BeginSwitchFreeing(t) ==
  /\ th[t].pc = "switch"
  /\ th' = [th EXCEPT ![t].pc = "switching"]
  /\ freed' = freed \cup ToSet(th[t].blocks)
  /\ UNCHANGED <<made, root_block_, crashed, calls, stale>>

\* set_root_block, in two steps: the assignment begins; the pointer is stored.
BeginSwitch(t) ==
  /\ th[t].pc = "switch"
  /\ th' = [th EXCEPT ![t].pc = "switching"]
  /\ UNCHANGED <<made, freed, root_block_, crashed, calls, stale>>

EndSwitch(t) ==
  /\ th[t].pc = "switching"
  /\ root_block_' = th[t].new
  /\ stale' = (stale \/ root_block_ # th[t].root)
  /\ th' = [th EXCEPT ![t].pc = "free"]
  /\ UNCHANGED <<made, freed, crashed, calls>>

\* The old root is not freed.
FreePathLeaking(t) ==
  LET r == th[t] IN
  /\ r.pc = "free"
  /\ freed' = freed \cup ToSet(Tail(r.blocks))
  /\ th' = [th EXCEPT ![t] =
       CASE r.op = "create" -> [r EXCEPT !.pc = "root", !.resolve = <<"again">>]
         [] r.op = "rmdir" -> [r EXCEPT !.pc = "sweep", !.sweep = {Last(r.blocks)}]
         [] r.op \in {"mkdir", "write"} -> Idle]
  /\ UNCHANGED <<made, root_block_, crashed, calls, stale>>

\* The old blocks of the path.  Then create resolves its path once more, and
\* rmdir frees what is below the entry it removed.
FreePath(t) ==
  LET r == th[t] IN
  /\ r.pc = "free"
  /\ freed' = freed \cup ToSet(r.blocks)
  /\ th' = [th EXCEPT ![t] =
       CASE r.op = "create" -> [r EXCEPT !.pc = "root", !.resolve = <<"again">>]
         [] r.op = "rmdir" -> [r EXCEPT !.pc = "sweep", !.sweep = {Last(r.blocks)}]
         [] r.op \in {"mkdir", "write"} -> Idle]
  /\ UNCHANGED <<made, root_block_, crashed, calls, stale>>

\* A block whose children were freed is looked at again.
SweepAgain(t) ==
  LET r == th[t] IN
  /\ r.pc = "sweep"
  /\ \E id \in r.sweep :
       LET kids == made[id].kids IN
       /\ freed' = freed \cup kids
       /\ th' = [th EXCEPT ![t].sweep = @ \cup kids]
  /\ UNCHANGED <<made, root_block_, crashed, calls, stale>>

\* recursive_free_children_blocks: a block's children are fetched and freed,
\* then theirs, in any order.  A write goes on with the new blocks.
Sweep(t) ==
  LET r == th[t] IN
  /\ r.pc = "sweep"
  /\ \E id \in r.sweep :
       LET kids == made[id].kids
           left == (r.sweep \ {id}) \cup kids
       IN \/ MayHang(kids) /\ Hang(t)
          \/ /\ freed' = freed \cup kids
             /\ th' = [th EXCEPT ![t] =
                  IF left # {} THEN [r EXCEPT !.sweep = left]
                  ELSE IF r.op = "write" THEN [r EXCEPT !.pc = "build", !.sweep = {}]
                  ELSE Idle]
             /\ UNCHANGED made
  /\ UNCHANGED <<root_block_, crashed, calls, stale>>

-----------------------------------------------------------------------------

\* A tree with an empty directory and a file with contents, as mkdir, create and
\* write leave it.
Init ==
  /\ made = <<Contents("old"),
              Entry("file", FileName, {1}),
              Entry("dir", DirName, {}),
              Entry("dir", "/", {2, 3})>>
  /\ root_block_ = 4
  /\ freed = {}
  /\ th = [t \in Threads |-> Idle]
  /\ crashed = FALSE
  /\ calls = 0
  /\ stale = FALSE
  /\ beside = {}

Work(t) ==
  \/ Root(t) \/ Walk(t) \/ Fetch(t) \/ Sweep(t) \/ Build(t)
  \/ BeginSwitch(t) \/ EndSwitch(t) \/ FreePath(t)

Step(t) == Call(t) \/ RaceCrash(t) \/ Work(t)

Changing(t) == th[t].pc # "idle" /\ th[t].op \in Changes

\* History: who is, or has been since its call began, next to a change.
Watch ==
  beside' = {t \in Threads :
    /\ th'[t].pc # "idle"
    /\ t \in beside \/ \E u \in Threads \ {t} : Changing(u)'}

Next == ~ crashed /\ (\E t \in Threads : Step(t)) /\ Watch

\* A thread that can go on does: the operating system schedules it, and
\* BlockStore's fetches of live blocks end.
Fairness == \A t \in Threads : WF_vars(~ crashed /\ Work(t) /\ Watch)

Spec == Init /\ [][Next]_vars /\ Fairness

-----------------------------------------------------------------------------
(* The trees roots stand for *)

\* A block and what is below it.
Below(root) ==
  LET below[id \in DOMAIN made] ==
        {id} \cup UNION {below[kid] : kid \in made[id].kids}
  IN below[root]

\* The contents of a file, <<>> without a leaf.
FileData(id) ==
  IF made[id].kids = {} THEN <<>>
  ELSE made[CHOOSE kid \in made[id].kids : TRUE].data

View ==
  LET blocks(path) == CHOOSE b \in get_path(root_block_, path) : TRUE
  IN [path \in {p \in Paths : Complete(blocks(p), p)} |->
        LET id == Last(blocks(path)) IN
        IF made[id].kind = "dir" THEN [kind |-> "dir", data |-> <<>>]
        ELSE [kind |-> "file", data |-> FileData(id)]]

\* A write that frees old contents, and has not put new ones in place; it may
\* wait for ever before it does.
Scraps(r) ==
  /\ r.op = "write"
  /\ \/ r.pc \in {"sweep", "build", "switch", "switching"}
     \/ r.pc = "hung" /\ r.sweep # {}

Scrapped ==
  UNION {Below(Last(th[t].blocks)) \ {Last(th[t].blocks)} : t \in
    {u \in Threads : Scraps(th[u])}}

-----------------------------------------------------------------------------
(* Properties *)

PCs == {"idle", "root", "walk", "fetch", "build", "switch",
        "switching", "free", "sweep", "hung", "aborted"}

\* Blocks name only older blocks, so that no walk runs in a circle; a thread
\* holds only blocks that were made, and its path starts at its root.
TypeOK ==
  /\ \A id \in DOMAIN made :
       /\ made[id].kind \in {"dir", "file", "contents"}
       /\ \A kid \in made[id].kids : kid \in 1 .. id - 1
  /\ freed \subseteq DOMAIN made
  /\ root_block_ \in DOMAIN made
  /\ \A t \in Threads :
       LET r == th[t] IN
       /\ r.pc \in PCs
       /\ {r.root, r.new} \subseteq {0} \cup DOMAIN made
       /\ ToSet(r.blocks) \cup r.sweep \subseteq DOMAIN made
       /\ r.blocks # <<>> => Head(r.blocks) = r.root \/ r.op = "create"
  /\ crashed \in BOOLEAN /\ stale \in BOOLEAN
  /\ calls \in 0 .. MaxCalls
  /\ beside \subseteq Threads

\* As long as every new root replaced the root it was built from, the tree is
\* whole: no block below root_block_ was freed, but for the contents a write
\* is just replacing, or was when it came to wait for ever.  (Once an update is
\* lost this ends: the path it copied leads to blocks the other thread freed.)
IntactUnlessStale ==
  ~ stale => Below(root_block_) \cap freed \subseteq Scrapped

\* And nothing leaks: when no call is under way, the blocks not freed are the
\* blocks of the tree.
ExactWhenQuiet ==
  (~ stale /\ \A t \in Threads : th[t].pc = "idle") =>
    DOMAIN made \ freed = Below(root_block_)

\* A call waits for ever, or create's assertion fails, only if another thread
\* made a change during the call or an update was lost before: threads that
\* only read, and one that changes alone, never do.
StuckOnlyBesideChange ==
  \A t \in Threads :
    th[t].pc \in {"hung", "aborted"} => stale \/ t \in beside

Files == INSTANCE FileSystem WITH
  tree <- View, Buffers <- {<<v>> : v \in Values}, Limit <- 1

\* Below files of the tree there is nothing but contents.
NoEntryInFile ==
  \A id \in Below(root_block_) : made[id].kind = "file" =>
    \A kid \in made[id].kids : made[kid].kind = "contents"

\* mkdir and create make entries in directories only (mkdir_valid: "The parent
\* isn't a directory. Can't call mkdir on a file."), even if the kernel's
\* lookup of the parent is out of date when they resolve it, and even without
\* a lost update.
ParentsAreDirs == ~ stale => NoEntryInFile

\* As long as no update is lost and no entry is in a file, every switch of the
\* root is one operation of FileSystem on the tree before it, although mkdir
\* and create looked at one tree to see that the path is free and at a later
\* one to find the parent.
AtomicOnDirs ==
  [][root_block_' # root_block_ /\ ~ stale' /\ NoEntryInFile /\ NoEntryInFile'
       => Files!Next]_vars

\* Every call returns, unless it waits for a freed block or the process dies.
CallsEnd ==
  \A t \in Threads :
    th[t].pc # "idle" ~> th[t].pc \in {"idle", "hung"} \/ crashed

=============================================================================
