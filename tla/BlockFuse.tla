----------------------------- MODULE BlockFuse ------------------------------
(***************************************************************************)
(* BlockFuse over a MemoryBlockManager, called by one thread: the file     *)
(* system as a tree of immutable blocks below root_block_.  Every change   *)
(* creates the blocks of the changed path anew, switches root_block_ to    *)
(* the new root and frees the blocks no longer in use.                     *)
(*                                                                         *)
(* A path is the sequence of names below the separator that FsUtil's       *)
(* separate_path yields.  Operations that fail leave the state alone and   *)
(* are not actions; what they answer is checked by Answers.                *)
(***************************************************************************)
EXTENDS BlockUtil, FiniteSets

CONSTANTS Names,      \* names of files and directories
          Bytes,      \* values of a byte
          MaxDepth,   \* bound: names in a path
          MaxBuffer,  \* bound: bytes in one write
          MaxSize,    \* bound: bytes in a file
          MaxId       \* bound: block ids handed out

ASSUME FuseBounds == {MaxDepth, MaxBuffer, MaxSize, MaxId} \subseteq Nat

VARIABLES store,        \* block_manager_ (see BlockUtil)
          root_block_,  \* id of the root block
          checkpoint_requested_   \* RevertibleBlockFuse's: FALSE until it
                                  \* takes a checkpoint, so FALSE here

vars == <<store, root_block_, checkpoint_requested_>>

Paths == BoundedSeq(Names, MaxDepth)
Buffers == BoundedSeq(Bytes, MaxBuffer)

-----------------------------------------------------------------------------
(* Path resolution *)

\* The children of the links among ids, the next level of the search.
LinkChildren(ids) ==
  LET kids(id) ==
        IF IsLink(store.map[id]) THEN store.map[id].children ELSE <<>>
  IN FlattenSeq([i \in DOMAIN ids |-> kids(ids[i])])

\* get_path_part: breadth first from the children of a block, through links
\* only, to the first entry with the name.  <<>> if there is none.  Entries
\* are never below links (TreeShape), so the path to the entry found, which
\* find_path rebuilds, is the entry alone.
RECURSIVE get_path_part(_, _)
get_path_part(name, ids) ==
  LET hit(id) == IsDirFile(store.map[id]) /\ store.map[id].name = name
  IN IF ids = <<>> THEN <<>>
     ELSE IF \E i \in DOMAIN ids : hit(ids[i])
     THEN <<Fetch(store, Head(SelectSeq(ids, hit)))>>
     ELSE get_path_part(name, LinkChildren(ids))

\* get_path: the blocks from the root to the last name, <<>> if one is missing.
get_path(path) ==
  LET step(blocks, name) ==
        IF blocks = <<>> THEN <<>>
        ELSE LET part == get_path_part(name, get_children(Last(blocks).data))
             IN IF part = <<>> THEN <<>> ELSE blocks \o part
  IN FoldLeft(step, <<Fetch(store, root_block_)>>, path)

-----------------------------------------------------------------------------
(* Operations that only read *)

getattr(path) ==
  LET blocks == get_path(path) IN
  IF blocks = <<>> THEN [ret |-> "ENOENT"]
  ELSE [ret |-> "ok", kind |-> Last(blocks).data.kind,
        size |-> Last(blocks).data.size]

\* get_dir_files_from_dir: the entries below ids, through links.
RECURSIVE get_dir_files(_)
get_dir_files(ids) ==
  IF ids = <<>> THEN <<>>
  ELSE SelectSeq(ids, LAMBDA id : IsDirFile(store.map[id]))
       \o get_dir_files(LinkChildren(ids))

readdir(path) ==
  LET blocks == get_path(path) IN
  IF blocks = <<>> THEN [ret |-> "ENOENT"]
  ELSE LET ids == get_dir_files(Last(blocks).data.children)
       IN [ret |-> "ok",
           names |-> [i \in DOMAIN ids |-> store.map[ids[i]].name]]

\* read: a directory is an error, an offset past the end reads nothing, and
\* the size is cut to what is there.
read(path, size, offset) ==
  LET blocks == get_path(path) IN
  IF blocks = <<>> THEN [ret |-> "ENOENT"]
  ELSE IF Last(blocks).data.kind = "dir" THEN [ret |-> "error"]
  ELSE LET contents == read_file_contents(store, Last(blocks).data)
           actual_size == IF offset + size <= Len(contents) THEN size
                          ELSE Len(contents) - offset
       IN [ret |-> "ok",
           data |-> IF offset > Len(contents) THEN <<>>
                    ELSE substr(contents, offset, actual_size)]

-----------------------------------------------------------------------------
(* Operations that change the tree *)

\* The loop over the blocks of a path after a switch of the root.  It calls
\* free_block, which is virtual: a RevertibleBlockFuse frees none of them once
\* a checkpoint was requested, by an earlier call or by this one.
free_path(S, path_blocks) ==
  IF checkpoint_requested_' THEN S
  ELSE free_blocks(S, [i \in DOMAIN path_blocks |-> path_blocks[i].id])

\* A switch after which the old root is not freed.
SwitchRootLeaking(S, path_blocks) ==
  /\ S.next <= MaxId + 1
  /\ root_block_' = S.next - 1
  /\ store' = free_path(S, Tail(path_blocks))

\* The new root is the last block replace_chain created; the old blocks of the
\* path are freed after the switch.
SwitchRoot(S, path_blocks) ==
  /\ S.next <= MaxId + 1
  /\ root_block_' = S.next - 1
  /\ store' = free_path(S, path_blocks)

\* External: the kernel's VFS looks up the parent of a new entry and passes the
\* call on only if it is a directory.
ParentIsDir(path) ==
  LET blocks == get_path(Front(path))
  IN blocks # <<>> /\ Last(blocks).data.kind = "dir"

\* mkdir_valid without the test for an existing entry.
mkdir_valid_unchecked(path) == path # <<>> /\ get_path(Front(path)) # <<>>

\* mkdir_valid: not /, not there yet, and the parent resolves to an entry,
\* directory or file.
mkdir_valid(path) ==
  /\ path # <<>>
  /\ getattr(path).ret # "ok"
  /\ get_path(Front(path)) # <<>>

\* A new entry: its block is created and hung under its parent's path.
AddEntry(path, data) ==
  LET blocks == get_path(Front(path))
      S == create_block(store, data)
  IN SwitchRoot(replace_chain(S, blocks, {}, <<store.next>>), blocks)

mkdir(path) ==
  /\ ParentIsDir(path)
  /\ mkdir_valid(path)
  /\ AddEntry(path, DirData(Last(path), 1))

\* create fails if the path exists, then create_file_block if the parent
\* does not.
create_valid(path) == get_path(path) = <<>> /\ get_path(Front(path)) # <<>>

create(path) ==
  /\ path # <<>>
  /\ ParentIsDir(path)
  /\ create_valid(path)
  /\ AddEntry(path, FileData(Last(path), 0))

\* rmdir, and unlink, which calls it: the path to the parent is replaced, the
\* path including the entry is freed, then all that is below the entry.
rmdir(path) ==
  LET blocks == get_path(path)
      S == replace_chain(store, Front(blocks), {Last(blocks).id}, <<>>)
  IN /\ Len(blocks) > 1
     /\ S.next <= MaxId + 1
     /\ root_block_' = S.next - 1
     /\ store' = recursive_free_children_blocks(
                   free_path(S, blocks), Last(blocks).data)

\* The tail of the file is cut off by an overwrite.
ReplaceBytesCut(s, buf, offset) == SubSeq(s, 1, offset) \o buf

\* std::string::replace(offset, size, buffer, size)
ReplaceBytes(s, buf, offset) ==
  SubSeq(s, 1, offset) \o buf \o SubSeq(s, offset + Len(buf) + 1, Len(s))

\* write_file_starting_at_node: new leaves and links, then the path with the
\* file's size updated and its old children exchanged for the new ones.
write_file_starting_at_node(S, blocks, contents) ==
  LET new == IF contents = <<>> THEN [S |-> S, ids |-> <<>>]
             ELSE replace_blocks_for_contents(S, contents)
      file == [Last(blocks) EXCEPT !.data.size = Len(contents)]
  IN SwitchRoot(replace_chain(new.S, Append(Front(blocks), file),
                              ToSet(file.data.children), new.ids),
                blocks)

\* write: the old contents are read and freed before the new are stored.
write(path, buf, offset) ==
  LET blocks == get_path(path) IN
  /\ blocks # <<>>
  /\ Last(blocks).data.kind # "dir"
  /\ LET old == read_file_contents(store, Last(blocks).data)
         new == ReplaceBytes(old, buf, offset)
     IN /\ offset <= Len(old)
        /\ Len(new) <= MaxSize
        /\ write_file_starting_at_node(
             recursive_free_children_blocks(store, Last(blocks).data),
             blocks, new)

-----------------------------------------------------------------------------

\* The constructor creates the root block.  The separator "/" is its name; no
\* other entry can have it, so a value outside Names stands for it.
Init ==
  /\ store = create_block([map |-> <<>>, next |-> 1, fault |-> FALSE],
                          DirData("/", 0))
  /\ root_block_ = 1
  /\ checkpoint_requested_ = FALSE

Next ==
  /\ UNCHANGED checkpoint_requested_
  /\ \E path \in Paths :
       \/ mkdir(path)
       \/ create(path)
       \/ rmdir(path)
       \/ \E buf \in Buffers, offset \in 0 .. MaxSize :
            write(path, buf, offset)

Spec == Init /\ [][Next]_vars

-----------------------------------------------------------------------------
(* The tree the blocks stand for, defined without get_path *)

Children(id) == ToSet(get_children(store.map[id]))

\* The blocks a path names.
RECURSIVE Named(_)
Named(path) ==
  IF path = <<>> THEN {root_block_}
  ELSE {id \in UNION {Children(p) : p \in Named(Front(path))} :
          IsDirFile(store.map[id]) /\ store.map[id].name = Last(path)}

RECURSIVE Below(_)
Below(id) == {id} \cup UNION {Below(kid) : kid \in Children(id)}

Reachable == Below(root_block_)

View ==
  [path \in {p \in Paths : Named(p) # {}} |->
     LET data == store.map[CHOOSE id \in Named(path) : TRUE] IN
     IF data.kind = "dir" THEN [kind |-> "dir", data |-> <<>>]
     ELSE IF data.size <= BytesPerBlock
     THEN [kind |-> "file", data |-> read_file_contents(store, data)]
     ELSE [kind |-> "large", data |-> <<>>]]

-----------------------------------------------------------------------------
(* Properties *)

\* Stored blocks have ids already handed out, and a data record of a kind
\* block_data.proto knows; the root is a directory.
TypeOK ==
  /\ store.next \in 2 .. MaxId + 1
  /\ \A id \in DOMAIN store.map :
       /\ id \in 1 .. store.next - 1
       /\ store.map[id].kind \in {"dir", "file", "link", "contents"}
  /\ root_block_ \in DOMAIN store.map
  /\ store.map[root_block_].kind = "dir"
  /\ checkpoint_requested_ \in BOOLEAN

\* Nothing leaks and nothing dangles: after every operation the manager holds
\* exactly the blocks reachable from the root (what the tests of BlockFuse
\* count with num_blocks).
NoLeak == Reachable = DOMAIN store.map

\* No assertion of block_util fails, no block is freed twice and none is
\* fetched after it was freed: what PingStore expects of its clients.
NoFault == ~ store.fault

\* The blocks form a tree: one parent each, older than the parent, so that no
\* walk can run in a circle; directories hold entries, a file at most one
\* leaf or link, links between one and BranchingFactor links or leaves.
TreeShape ==
  /\ \A id \in Reachable \ {root_block_} :
       Cardinality({p \in Reachable : id \in Children(p)}) = 1
  /\ \A id \in Reachable :
       LET data == store.map[id]
           kids == {store.map[kid] : kid \in Children(id)}
       IN /\ \A kid \in Children(id) : kid < id
          /\ IsInjective(get_children(data))
          /\ data.kind = "dir" => \A kid \in kids : IsDirFile(kid)
          /\ data.kind = "file" =>
               /\ Cardinality(Children(id)) = (IF data.size = 0 THEN 0 ELSE 1)
               /\ \A kid \in kids : ~ IsDirFile(kid)
          /\ IsLink(data) =>
               /\ Cardinality(Children(id)) \in 1 .. BranchingFactor
               /\ \A kid \in kids : ~ IsDirFile(kid)

\* Every operation answers what the tree says, for every path: a path names at
\* most one entry and get_path finds it; getattr, readdir and read report
\* it; mkdir and create are refused exactly for existing paths and for
\* missing parents.
Answers ==
  \A path \in Paths :
    LET there == Named(path) # {}
        id == CHOOSE x \in Named(path) : TRUE
        free == ~ there /\ Named(Front(path)) # {}
        node == View[path]
    IN /\ Cardinality(Named(path)) <= 1
       /\ there <=> get_path(path) # <<>>
       /\ mkdir_valid(path) <=> free
       /\ create_valid(path) <=> free
       /\ there =>
            /\ Last(get_path(path)).id = id
            /\ getattr(path).kind = store.map[id].kind
            /\ LET names == readdir(path).names IN
               /\ IsInjective(names)
               /\ ToSet(names) = {n \in Names : Named(Append(path, n)) # {}}
            /\ node.kind = "file" =>
                 /\ getattr(path).size = Len(node.data)
                 /\ \A offset \in 0 .. MaxSize, size \in 0 .. MaxSize :
                      read(path, size, offset).data =
                        SubSeq(node.data, offset + 1,
                               Min({offset + size, Len(node.data)}))

\* An operation on one path keeps the very blocks of every path that does not
\* run through it: copying stops at the path.
SharesSiblings ==
  [][\E path \in Paths \ {<<>>} : \A other \in Paths :
       IsPrefix(other, path) \/ IsPrefix(path, other)
         \/ Named(other)' = Named(other)]_vars

Files == INSTANCE FileSystem WITH
  tree <- View, Limit <- BytesPerBlock

\* Every operation changes the tree of names and contents as FileSystem says,
\* for files that fit into one block.
ImplementsFileSystem == Files!Spec

\* No leaf holds more than a block's share of the file ("Split file_contents
\* into leaf blocks based on the maximum number of bytes a block can hold").
LeavesFit ==
  \A id \in DOMAIN store.map :
    store.map[id].kind = "contents" =>
      Len(store.map[id].data) <= BytesPerBlock

=============================================================================
