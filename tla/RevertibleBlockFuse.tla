------------------------ MODULE RevertibleBlockFuse -------------------------
(***************************************************************************)
(* RevertibleBlockFuse: a BlockFuse that keeps its root when a directory   *)
(* whose name starts with the sentinel "__checkpoint_" is made, and goes   *)
(* back to it when that directory is removed.                              *)
(*                                                                         *)
(* The blocks of a checkpointed tree must stay.  From the first checkpoint *)
(* on free_block, which BlockFuse calls for the blocks of a replaced path, *)
(* does nothing; what block_util frees goes to the block manager directly  *)
(* and does not ask.                                                       *)
(***************************************************************************)
EXTENDS BlockFuse

CONSTANT Sentinels    \* the names, among Names, that start with the sentinel

VARIABLE checkpoints_   \* path of a checkpoint -> id of the root at the time

rvars == <<vars, checkpoints_>>

\* The sentinel starts with the separator and is compared with the beginning
\* of the whole path: every path below a directory with such a name counts.
StartsWithSentinel(path) == path # <<>> /\ Head(path) \in Sentinels

\* mkdir.  The checkpoint is taken, and one of the same path overwritten,
\* before it is known whether BlockFuse::mkdir makes the directory or refuses.
CheckpointMkdir(path) ==
  /\ StartsWithSentinel(path)
  /\ checkpoints_' = (path :> root_block_) @@ checkpoints_
  /\ checkpoint_requested_' = TRUE
  /\ \/ mkdir(path)
     \/ /\ ParentIsDir(path)
        /\ ~ mkdir_valid(path)
        /\ UNCHANGED <<store, root_block_>>

\* rmdir of a checkpoint's path sets the root back; the directory goes with
\* the tree it is in.  The code then returns no value.
Revert(path) ==
  /\ path \in DOMAIN checkpoints_
  /\ root_block_' = checkpoints_[path]
  /\ checkpoints_' = Restrict(checkpoints_, DOMAIN checkpoints_ \ {path})
  /\ UNCHANGED <<store, checkpoint_requested_>>

\* What BlockFuse does.
Unreverted(path) ==
  /\ UNCHANGED <<checkpoint_requested_, checkpoints_>>
  /\ \/ ~ StartsWithSentinel(path) /\ mkdir(path)
     \/ path \notin DOMAIN checkpoints_ /\ rmdir(path)
     \/ create(path)
     \/ \E buf \in Buffers, offset \in 0 .. MaxSize : write(path, buf, offset)

RInit == Init /\ checkpoints_ = <<>>

RNext ==
  \E path \in Paths : CheckpointMkdir(path) \/ Revert(path) \/ Unreverted(path)

RSpec == RInit /\ [][RNext]_rvars

-----------------------------------------------------------------------------

\* A block and all that is below it is stored.
RECURSIVE Stored(_)
Stored(id) ==
  id \in DOMAIN store.map /\ \A kid \in Children(id) : Stored(kid)

\* Every tree that can be reverted to is still stored ("If true, then do not
\* free any block ids. This is an overly-conservative approach. However, it
\* guarantees that we can always recover checkpointed state.").
Recoverable ==
  \A path \in DOMAIN checkpoints_ : Stored(checkpoints_[path])

=============================================================================
