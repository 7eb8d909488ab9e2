----------------------------- MODULE BlockUtil ------------------------------
(***************************************************************************)
(* block_util and MemoryBlockManager as operators on a store.              *)
(*                                                                         *)
(* A store is a record: map is MemoryBlockManager's map_ (block id -> block*)
(* data), next the id CounterSupplier gives next, fault becomes TRUE if an *)
(* assertion of block_util would fail, or a block is fetched or freed that *)
(* is not in the map.  Block data are records with a kind; a directory     *)
(* entry is a "dir" or a "file" (DirFileBlockData), a "link" groups        *)
(* children (LinkBlockData), "contents" holds bytes.  A block pointer is a *)
(* record of an id and the data it had when it was fetched.                *)
(***************************************************************************)
EXTENDS Integers, SequencesExt

CONSTANTS BytesPerBlock, BranchingFactor

ASSUME BlockSizeAssumption == BytesPerBlock \in Nat \ {0}
ASSUME BranchingAssumption == BranchingFactor \in Nat \ {0, 1}

DirData(name, size) ==
  [kind |-> "dir", name |-> name, size |-> size, children |-> <<>>]
FileData(name, size) ==
  [kind |-> "file", name |-> name, size |-> size, children |-> <<>>]
LinkData(children) == [kind |-> "link", children |-> children]
ContentsData(bytes) == [kind |-> "contents", data |-> bytes]

IsDirFile(data) == data.kind \in {"dir", "file"}
IsLink(data) == data.kind = "link"

\* get_children fails only for contents, which then count as childless.
get_children(data) == IF data.kind = "contents" THEN <<>> ELSE data.children

-----------------------------------------------------------------------------
(* MemoryBlockManager *)

\* create_block on an id supplier that does not advance.
create_block_same_id(S, data) ==
  [S EXCEPT !.map = (S.next :> data) @@ @]

\* create_block; the id of the new block is S.next.
create_block(S, data) ==
  [S EXCEPT !.map = @ @@ (S.next :> data), !.next = @ + 1]

free_block(S, id) ==
  IF id \in DOMAIN S.map
  THEN [S EXCEPT !.map = Restrict(@, DOMAIN @ \ {id})]
  ELSE [S EXCEPT !.fault = TRUE]

free_blocks(S, ids) == FoldLeft(free_block, S, ids)

\* get_blocks: the request's order; every id must be in the map.
Fetch(S, id) == [id |-> id, data |-> S.map[id]]
AllStored(S, ids) == ToSet(ids) \subseteq DOMAIN S.map

-----------------------------------------------------------------------------
(* Reading *)

\* get_file_contents: depth first, in the order of the children; anything
\* that is neither contents nor a link is passed over.
RECURSIVE get_file_contents(_, _)
get_file_contents(S, ids) ==
  LET bytes(id) ==
        LET data == S.map[id] IN
        IF data.kind = "contents" THEN data.data
        ELSE IF IsLink(data) THEN get_file_contents(S, data.children)
        ELSE <<>>
  IN FlattenSeq([i \in DOMAIN ids |-> bytes(ids[i])])

read_file_contents(S, file) == get_file_contents(S, file.children)

-----------------------------------------------------------------------------
(* Replacing the blocks of a path.  Blocks never change: the last block of  *)
(* the path is created anew with other children, then its parent with the   *)
(* new block in place of the old, and so on up to a new root.               *)

\* remove_ids keeps the order of what stays.
remove_ids(from, ids) == SelectSeq(from, LAMBDA id : id \notin ids)

\* The new parent forgets its other children.
replace_block_dropping(acc, block) ==
  [S |-> create_block(acc.S, [block.data EXCEPT !.children = acc.add]),
   remove |-> {block.id},
   add |-> <<acc.S.next>>]

replace_block(acc, block) ==
  LET old == get_children(block.data)
      new == remove_ids(old, acc.remove) \o acc.add
      S == create_block(acc.S, [block.data EXCEPT !.children = new])
  IN [S |-> IF acc.remove \subseteq ToSet(old) THEN S
            ELSE [S EXCEPT !.fault = TRUE],     \* the assertion in remove_ids
      remove |-> {block.id},
      add |-> <<acc.S.next>>]

\* replace_chain walks from the last block of path to the first; the new
\* first block has the id S.next - 1 of the store it returns.
replace_chain(S, path, remove, add) ==
  FoldLeft(replace_block, [S |-> S, remove |-> remove, add |-> add],
           Reverse(path)).S

\* The children of children are fetched and freed after a second free.
free_children_twice(S, data) ==
  free_blocks(free_blocks(S, get_children(data)), get_children(data))

\* recursive_free_children_blocks fetches the children, frees them, and then
\* does the same for what it fetched.
RECURSIVE recursive_free_children_blocks(_, _)
recursive_free_children_blocks(S, data) ==
  LET ids == get_children(data) IN
  IF ~ AllStored(S, ids) THEN [S EXCEPT !.fault = TRUE]
  ELSE FoldLeft(recursive_free_children_blocks, free_blocks(S, ids),
                [i \in DOMAIN ids |-> S.map[ids[i]]])

-----------------------------------------------------------------------------
(* Writing contents *)

\* std::string::substr(pos, count)
substr(s, pos, count) == SubSeq(s, pos + 1, Min({pos + count, Len(s)}))

CeilDiv(m, n) == (m + n - 1) \div n

\* The bytes of leaf i (from 0).  The code takes the larger of the leaf's end
\* and the file's end, and passes it to substr as a count: leaf i holds
\* everything from its start to the end of the file.
LeafBytes(contents, i) ==
  LET end == Max({(i + 1) * BytesPerBlock, Len(contents)})
  IN substr(contents, i * BytesPerBlock, end)

\* A layer of links too few.
LinkDepthShort(n) == IF n = 1 THEN 0 ELSE
  CHOOSE d \in 0 .. n :
    BranchingFactor ^ (d + 1) >= n
    /\ \A e \in 0 .. d - 1 : BranchingFactor ^ (e + 1) < n

\* ceil(log(n) / log(branching_factor))
LinkDepth(n) == CHOOSE d \in 0 .. n :
  BranchingFactor ^ d >= n /\ \A e \in 0 .. d - 1 : BranchingFactor ^ e < n

\* A store and the ids of the blocks created in it last, in order.
CreateAll(S, datas) ==
  [S |-> FoldLeft(create_block, S, datas),
   ids |-> [i \in DOMAIN datas |-> S.next + i - 1]]

\* add_link_layer: links over consecutive groups of BranchingFactor blocks.
add_link_layer(acc) ==
  LET group(i) == SubSeq(acc.ids, (i - 1) * BranchingFactor + 1,
                         Min({i * BranchingFactor, Len(acc.ids)}))
  IN CreateAll(acc.S, [i \in 1 .. CeilDiv(Len(acc.ids), BranchingFactor) |->
                         LinkData(group(i))])

\* replace_blocks_for_contents: leaves, then layers of links over them.
replace_blocks_for_contents(S, contents) ==
  LET num_leaves == CeilDiv(Len(contents), BytesPerBlock)
      leaves == [i \in 1 .. num_leaves |->
                   ContentsData(LeafBytes(contents, i - 1))]
      layer(acc, i) == add_link_layer(acc)
  IN FoldLeft(layer, CreateAll(S, leaves),
              [i \in 1 .. LinkDepth(num_leaves) |-> i])

=============================================================================
