# A TLA+ model of pingfs

pingfs is a file system whose blocks are stored nowhere: each block travels in
ICMP echo requests to a host that echoes them, and is sent out again whenever it
comes back. This directory models the layers that make it work, the packets, the
block managers, the file system built on them and its revertible and distributed
variants, checks the models with TLC, and proves the safety of the block
managers, the receive path, the codecs, the distributed nodes and the file system
under several threads with TLAPS.

Source paths below are relative to the repository.

## The system

| Part | State | Operations | Interacts with |
|---|---|---|---|
| `CounterSupplier` | `next_id_` | `next_id`, `free_id` (empty) | block managers |
| `PingBlockManager`, `DuplicatePingBlockManager` | none of their own | `create_block`, `free_block`, `delayed_send` (detached thread) | called by fuse threads; calls `PingBlockService` |
| `AsyncBlockManager`, `AsyncResponse` | `waiting_`; `waiting_on_`, `blocks_`, `promise_` | `get_blocks`, `process`, `update` | called by fuse threads and, as a subscriber, by the io threads |
| `PingBlockService`, `TrackFreedService` | `fs_id_`, `id_`; `freed_ids_` | `register_block`, `process`, `free_block`, `should_recycle` | subscriber of `Ping`, publisher to the manager |
| `Ping`, `DataBuffer` | receive buffer, byte queue | `ping`, `handle_receive`, `check_notify` | ten io threads, the network |
| `MemoryBlockManager` | `map_` | `create_block`, `free_block`, `get_blocks` | in-memory substitute for the ping managers |
| `BlockFuse`, `block_util` | `root_block_`, tree of immutable blocks | `getattr`, `readdir`, `read`, `mkdir`, `create`, `write`, `rmdir`, `unlink` | called by fuse threads; calls the block manager |
| `RevertibleBlockFuse` | `checkpoints_` | checkpoint on `mkdir`, revert on `rmdir` | overrides `BlockFuse` |
| `DistributedBlockFuse`, `DistributedFreedService`, `UpdatingIdSupplier` | high bits of ids | exchange of root blocks | other nodes, by spoofed pings |
| `RateQueue` | queue, `stopped_` | `add`, `stop`, `service` | its own thread; used by a test only |
| codecs: `Mode`, `Stat`, ICMP and IP headers, protobuf | none | conversions | |

What is hard here, and hard to test: fuse threads, io threads and detached
threads interleave inside one round trip of a packet; a block exists only as long
as exactly the right code keeps sending it; packets are reordered, lost, doubled
and mixed with other people's; a reader waits without a timeout; a change to the
tree copies a path and frees the old blocks one by one. `PROJECT.json` lists the
hazards with their lines and the properties aimed at them.

What makes each part correct:

* block managers: no copy of a block appears or disappears except by
  `create_block`, `free_block` and the network; a response is complete once,
  with each block once; readers are served; a freed block leaves; ids are never
  reused;
* file system: after each call the stored blocks are exactly those of one tree;
  names are unique; each call answers what the tree says and changes only its
  path; contents read back as written; and this with several fuse threads;
* checkpoints: the tree of every checkpoint stays stored until it is reverted to;
* distributed nodes: ids never collide, a later root has the higher id, blocks
  arrive as they were made, and nodes come to share a root;
* codecs: a mode comes back with its type and permissions; a packet has the
  checksum its receiver expects.

## Modules

| Module | Models | Proved about |
|---|---|---|
| `BlockStore` | what the interface `BlockManager` promises (abstract) | as a refinement target |
| `PingStore` | the ping block managers over a network | `PingStoreProofs` |
| `BlockUtil` | `block_util` and `MemoryBlockManager` as operators on a store | no (recursive operators) |
| `FileSystem` | what the file system promises (abstract) | |
| `BlockFuse` | the eight operations of `BlockFuse`, one caller | no (recursive operators) |
| `FuseThreads` | the same with several fuse threads inside, block trees simplified | `FuseThreadsProofs`, `FusePathsProofs` |
| `RevertibleBlockFuse` | checkpoints and reverts on top of `BlockFuse` | no (recursive operators) |
| `Mode` | `Mode` from and to `mode_t` and protobuf, as operators | `CodecProofs` |
| `Echo` | `EchoRequest`, `EchoResponse`, the checksum, as operators | `CodecProofs` |
| `Distributed` | nodes of the distributed file system; extends `Mode` and `Echo` | `DistributedProofs` |
| `PingReceive` | the receive path of `Ping` on several io threads | `PingReceiveProofs` |
| `RateQueue` | `RateQueue` | `RateQueueProofs` |
| `DataProofs` | facts about sequences and numbers that the proofs share | |
| `MCPingStore`, `MCBlockFuse`, `MCPingReceive`, `MCRateQueue`, `MCDistributed` | instances for TLC | |
| `MCFuseThreads` | `FuseThreads` for TLC: few calls of any kind, or more of them on one branch of the tree | |

### PingStore

A call is split where the code releases a mutex or sends a packet. `create_block`
takes an id (under the supplier's mutex), `register_block` sends the packet and
returns. `PingBlockService::process` has four steps: `process_receive` (the
filter on identifier and sequence number), `process_notify` (the whole of
`AsyncBlockManager::process`, under `map_mutex_`), `should_recycle` (under
`ids_mutex_`) and `process_resend`. There is one packet in `process` at a time,
although ten io threads run: `Ping` is a `Publisher` and holds
`subscriber_mutex_` while it notifies. `get_blocks` registers the response for
all its ids in one step, under `map_mutex_`; building the response before the
lock touches nothing shared. `get_return` is the future becoming ready.

`in_flight` counts the copies of a block under way, in no order, so packets
overtake each other freely; `lose` drops one, at most `MaxLost` per block.
`Foreign` packets are those of other identifiers or sequence numbers and may name
any id. `freed` and `lost` are history variables.

`BlockStore` has two ways to hand a block out, `Serve` for a block that was not
freed and `ServeFreed` for one that was and is not gone. The second is what the
code does and the comment on `PingBlockService::free_block` excludes; the run
`ping_freed` is about it. Users of the store (`FuseThreads`) may rely on `Serve`
only.

Clients name only blocks whose creation has returned, and free a block once.
That is what `BlockFuse` does when one thread calls it: `NoFault` in `BlockFuse`
says so. A request names no block twice, since it lists the children of blocks
in a tree (`TreeShape`). After a lost update fuse threads do free a block twice
(`FuseThreads`); what that leaves in `freed_ids_` is not modelled.

### BlockFuse and BlockUtil

A store is a record of the map of blocks, the next id and a flag `fault`, which
is set when an assertion of `block_util` would fail or a missing block is fetched
or freed; in the code the latter is a null pointer with `MemoryBlockManager` and
an endless wait with pings. A path is the sequence of names that
`FsUtil::separate_path` gives below `/`. Failed calls change nothing; what makes
them fail is checked by `Answers`. Blocks carry name, kind, size, children or
bytes; times, owners and permissions are left out. `unlink` calls `rmdir` in the
code and is the same action.

External: calls come through the kernel, which passes on `mkdir` and `create` only
when it has found the parent to be a directory (`ParentIsDir`).

`LinkDepth` is the exact ceiling of the logarithm; the code divides two doubles.

The frees of a replaced path go through the virtual `free_block`
(`free_path`); `checkpoint_requested_` is constantly false in `BlockFuse` itself.

### RevertibleBlockFuse

Adds `checkpoints_`, from paths to roots. The sentinel `/__checkpoint_` is
compared with the beginning of the whole path, so a path counts when its first
name has it. `CheckpointMkdir` is the overridden `mkdir` (the checkpoint is taken
even when the directory is then refused), `Revert` the overridden `rmdir` of a
checkpoint, `Unreverted` everything else.

### FuseThreads

`fuse_main` runs the operations on several threads, and nothing guards
`root_block_` (the FIXMEs of `block_fuse.cc` at lines 173, 528 and 630). A call is
split where another thread can see or change something: `Root` copies
`root_block_`, `Walk` is the rest of `get_path`, `Fetch` reads a file's or a
directory's children, `Build` makes the new blocks, `BeginSwitch` and `EndSwitch`
are `set_root_block`, `FreePath` frees the old path. `Sweep` is one step of
`recursive_free_children_blocks`: `write` calls it on the file before it builds
anything, `rmdir` on the removed entry after the switch. `mkdir` resolves two paths and `create` four, each
from a root read anew (`Resolves`).

Blocks never change, so `made` keeps all of them and `freed` says which the block
manager was told to drop. A fetch of a freed block may return it, if it still
circulates, or never return (`Hang`), as `BlockStore` allows. Therefore several
fetches of one walk can be a single step. `root_block_` is a `shared_ptr`: a copy
or an assignment next to another assignment is a data race, whose outcomes are
the old pointer, the new one, or the death of the process (`RaceCrash`).

External: the kernel holds the lock of the directory in which an entry is made,
removed or listed and of the file written (`Locks`), and has looked up the parent
(`Passes`). Without these locks two `mkdir`s of one path could already
collide; with them, what remains is what the code itself must answer for. A file
has at most one leaf, and a write replaces it; a write past the end, which
changes nothing, is left out. Trees with links are the subject of `BlockFuse`.

`stale` records that a root was replaced which was not the one the new root was
built from: a lost update. The run reaches such states, and states in which
freed blocks are then part of the tree, in which a thread hangs on them, and in
which `create`'s assertion fails. The properties say that nothing else causes
them.

### Mode and Echo

`Mode` takes a `mode_t` as the set of its bits, so that the overlapping tests of
`user_mode_from_mode_t` and its siblings are tests of inclusion, and has the enum
numbers of `block_data.proto`. `Echo` computes real checksums over real bytes.
`checksum` adds the carries once; RFC 1071 requires this until none is left.

### Distributed

Each node has a supplier (`high_order_bits_`), a `DistributedFreedService`
(`freed_ids_`) and a root, and a bag of echoes under way to it. What
`BlockFuse` does is here the sequence of its calls: blocks are created, a file's
block is rewritten with another size, roots are set, blocks freed. A block is
serialised field by field, given a checksum, accepted or dropped by the echoing
host, parsed and sent on. Spoofed packets reach any subset of the other nodes,
because `SpoofedIpV4` leaves the fragment offset of its header uninitialised.
A node's own packets are not lost here; `PingStore` models that.

`Subscribed` is the set of nodes whose `DistributedBlockFuse` is subscribed to
its service. `app/distributed_fs.cc` subscribes none: `process` is never called
there, and neither ids nor roots are exchanged. The run has one node of each
kind. Only the path from `set_root_block` and `process` is in question; what
`get_blocks` does is in `PingStore`. `Start` and `Crash` end and begin a process;
what circulates survives, but for what arrives while no process runs and is then
gone (`Unheard`).

`is_root_block` is in the model as it is in the code. Its comment says "Return
true if {@code block} is the root of an entire filesystem"
(`src/lib/src/fs/distributed_block_fuse.cc:24-25`), but the test of the cast at line
30 is inverted: it returns false for every directory, and dereferences a null
pointer for any other block. So a subscribed node never takes a root it is
notified of, and dies of a block of contents (`process`). This is a defect of the
code; no property presents it as correct, and no run is needed to see it, since one
call shows it. `IdsFollow` is about what the comparison of ids would need if roots
were recognised.

Ids are two bytes here, one for the node and one that counts; in the code the
counter has 56 bits. The program reads `node_id` as a `uint8_t`, for which
`boost::lexical_cast` takes one character; the model takes any two different
bytes.

### PingReceive

A packet is a record of its size and whether it is an echo reply, a byte a packet
and a position in it, so that `data_buffer_` is a real sequence of bytes that can
lose its framing. `receive` is asio completing `async_receive`; `handle_receive`
is split into the copy out of `reply_buffer_`, the new `async_receive`, the
append and the post, because other threads run in between; `check_notify` into
the copy (`peek`) and the cut (`discard`), because a handler may append between
them. `loop` is the read of `size()` outside `data_buffer_read_mutex_`. A packet
longer than `reply_buffer_` is cut by `receive`; the run has none, and with one
the framing of all later packets is lost.

### RateQueue

The three critical sections of `queue_mutex_` are actions; the read of `stopped_`
outside the mutex, the call of the function and the sleep are steps of their
own. `caller` records who joins (the first `stop`) and who returns at once.

## What the runs show

| Run | Result |
|---|---|
| `ping_single` | One copy per block, no loss, two clients, two blocks, requests of up to two blocks. All invariants; every reader is served unless its block is freed; a freed block leaves the network for good; `BlockStore` is implemented, with liveness, its `ServeFreed` included. |
| `ping_duplicate` | Two copies per block, up to two losses per block. Custody, survival of one loss, exact responses although blocks arrive twice, readers served unless their block was freed or lost entirely. |
| `ping_order` (violation) | A response lists blocks in order of arrival. Since a file is the concatenation of its leaves in that order, a multi-block file can come back with its parts exchanged. |
| `ping_freed` (violation) | The comment on `PingBlockService::free_block` says that a freed block is discarded when it is received, without a notification and without being sent again. With two copies per block both are untrue at once: `process` notifies before it asks `should_recycle`, so the first copy is handed to a reader who asked after the free; `should_recycle` forgets the id with that copy, so the second circulates for ever. `FreedDiscarded` asks that one of the two be true. (With one copy a freed block leaves, as `ping_single` shows, but is handed out all the same.) |
| `fuse_tree` | All operations, paths of up to two of two names, buffers of up to three of two byte values (none included), files of up to five bytes in blocks of two with branching factor two, so that up to three leaves and two layers of links occur. |
| `fuse_split` (violation) | Leaves are not cut at the block size, so a file larger than a block is stored and read back too long. |
| `ping_receive` | Three io threads and three packets, two of them echo replies, of different sizes. Every echo reply is published once and whole, there is always exactly one handler, and no packet is left in the buffer with nobody to look at it. |
| `rate_queue` | Three callers, four functions, which may add functions themselves. Each function runs once and in order, none runs after the joining `stop` has returned, that `stop` does return, and what was added runs unless stopped. |
| `fuse_threads` | About 540,000 states. Two threads, a tree with a directory and a file to begin with. Either three calls of any kind on paths of up to two of two names, or five calls, out of six on one branch of three names. As long as no update is lost: no block of the tree is freed (but for contents a write is replacing, or was before it came to wait for ever), nothing leaks, and every switch of the root is one operation of `FileSystem`, unless there is an entry in a file before or after it (`fuse_parent`). A call hangs or `create`'s assertion fails only next to a change or after a lost update. Calls end unless they hang on a freed block or the process dies. |
| `fuse_parent` (violation) | `mkdir_valid` does not reject a file as a parent, as its comment says it does, and the kernel's lookup does not make up for it. While `mkdir /a/b/a` is under way the kernel holds the lock of `/a/b` alone, so `/a` can be removed and made again with a *file* `b`; `mkdir` finds `/a/b`, does not ask what it is, and makes a directory in a file, although no update was lost. With two names this cannot happen: the parent is the root or an entry of it, and whoever removes that entry needs its lock. |
| `fuse_revert` (violation) | `recursive_free_children_blocks` frees past the overridden `free_block`: after a checkpoint, removing a directory (or writing a file) frees blocks of the checkpointed tree. |
| `distributed` | About 1,650,000 states. Two nodes, one subscribed, two starts each, four blocks. Ids collide only between two starts of one node. A subscribed node's next id is above all it has seen, except for a tie in the high bits. Exactly the blocks whose checksum needs a second carry are lost. What arrives was created, with the type and permissions asked for. |

Bounds. `IdSpace` 3 gives two blocks and lets the counter wrap and run out. Two
clients are enough for two readers of one block and for a reader racing a
freeing thread. `MaxId` 15 in the file system allows about five changes in
sequence, and is why its runs stop (`CHECK_DEADLOCK FALSE`). Names and bytes are
symmetric. Files larger than one block are in the model, but `FileSystem`
promises their contents only up to `BytesPerBlock`, because of `fuse_split`.

In the wide half of `fuse_threads` two threads and three calls let two changes
overlap, a lost update happen, and a third call meet the damage; two names per
path are a directory and an entry in it. The deep half of it (`way` in
`MCFuseThreads`), and `fuse_parent`, have three names and the five calls that it
takes to exchange a parent for a file, at the price of fewer kinds of calls
(`DeepCalls`). In `distributed` four blocks are two roots, one block more on
each side or a file and its rewriting, or a restart and a reused id; one of the
two contents has a sum of 2^17 - 1 under the first id node 0 uses after its
root, so that the second carry happens, and not under others. The mode has
different permissions for each class and a bit that is not kept. Both runs stop
when their calls or ids are used up (`CHECK_DEADLOCK FALSE`).

Fairness. `register_block`, `get_return`, `delayed_send` and the steps of
`process` are steps of threads that have something to do and wait for nobody:
weak fairness. `process_receive(Own, b)` is strongly fair: the service is busy
with other packets in between, but the socket serves its queue in order, so a
packet that keeps coming back is received in the end. Nothing is assumed of
clients starting calls or of the network losing packets. Liveness therefore
assumes that a packet that is not lost returns. In `PingReceive` every io thread
keeps running, and gets the mutex it waits for in the end although others take
it in between (strong fairness of `peek`). In `RateQueue` the service thread
runs, functions end, and a thread that can join does. In `FuseThreads` each
thread inside a call goes on (weak fairness of `Work`): it waits for no other
thread, and for blocks only as `BlockStore` promises them; a call need not
begin. The runs of `PingReceive` and `RateQueue` stop when
all packets are delivered or all callers are done (`CHECK_DEADLOCK FALSE`).

## What is proved

Eight modules hold theorems. `PROJECT.json` lists them with the properties they
state; all are `Spec => []P` unless said otherwise.

### The block managers (`PingStoreProofs`)

For every set of clients, every size of the id space, every bound on requests and
losses, with and without duplication (assumptions: `IdSpace > 1`, `Duplicate`
Boolean, bounds natural numbers):

* `TypeCorrect`, `CustodyHolds`, `SurvivalHolds`, `WaitersMatchHolds`,
  `ResponseExactHolds`, the invariants of the same names;
* `RefinesBlockStore`: without duplication, `Spec => Store!Safety`.

`Custody` is not inductive alone. `CustodyInv` adds `HandsApart` (two clients
never hold the same unsent id, or `register_block` would publish one twice),
`FreedKnown` (every id in `freed_ids_` was freed by a client, so that the copy
`should_recycle` drops is counted once) and the types. `Survival` follows from
`Custody` by arithmetic. `ResponseInv` adds to `WaitersMatch` and
`ResponseExact` that idle clients have the empty response; the two invariants
need each other, since an exact update requires that the registered client
still lacks the block. The refinement adds `FreedPublished`; its one delicate
step is `process_notify`, where `Custody` excludes that a block that is gone
reaches a reader (`HeldIsStored`).

### The file system under several threads (`FuseThreadsProofs`, `FusePathsProofs`)

For any threads, names, values, depth of paths and number of calls (assumptions:
`ThreadBounds`, the bounds are natural numbers, `MaxDepth` positive;
`StartAssumption`, the two entries of the first tree have different names):

* `FuseTypes`: `TypeOK`;
* `TreeStaysIntact`: `IntactUnlessStale`;
* `QuietTreeIsExact`: `ExactWhenQuiet`;
* `OnlyChangesStick`: `StuckOnlyBesideChange`.

The argument is about graphs. `Kids` gives the children of each block, which are
older than it, and `Reach(K, id)` is the least set with `id` that has the children
of its blocks; `BelowReach` shows that it is the recursive `Below` of the
properties. `Tree(K, root)` says that no block below `root` has two parents there.
`Rebuilt` is what `replace_chain` and the leaf before it add to the blocks. About
it the `Rebuilt` lemmas show: below the new root are the new blocks and blocks of
the old tree; nothing of the path or of what was cut off (`RebuiltWithout`, which
needs that the old root is a tree); everything else of the old tree
(`RebuiltKeeps`); and it is a tree again (`RebuiltTree`).

The inductive invariant of the first three has three parts. `Types` says that a thread's blocks are a
path (`Chain`) from the root it read, at each place of its program, and that a
sweep stays below the last block of the path. `Separate` holds whether or not an
update was lost: the blocks a thread has made and not put in place (`Fresh`) are
its own, nobody's tree contains them and nobody has freed them; its new root is
the tree it read without the path and what is gone (`Prepared`); and a write has
freed all old contents when it comes to build. `Sound` holds while no update is
lost: the root is a tree; a freed block in it is below the file of a write that is
replacing it; what threads have still to free (`Pending`) is not in it; and,
unless a thread waits for ever, every other block is freed, fresh or pending.
`EndSwitch` is where they meet: that the root replaced is the one the thread read
(`~ stale`) makes `Prepared` a statement about the tree.

The proof corrected the model and the property. `write` used to free old contents
in one step, although `recursive_free_children_blocks` goes down level by level
and can wait for ever on the way. And a write that waits for ever has freed part
of what it was to replace, so that `IntactUnlessStale` must count it (`Scraps`).
This takes a file with something deep below it, as the run `fuse_parent` makes
one.

`OnlyChangesStick` (`FusePathsProofs`) is about names as well as blocks, and about
two things that could go wrong for a thread left alone: it fetches a block
somebody freed, or `create` does not find the file it has just put in place. Four
more parts make the invariant. `Traced`: the blocks a thread holds are those of the
path of its call (`Leads`). `Locked`: two calls under way have no kernel lock in
common. `NamesKept`: while no update is lost, entries of one directory have
different names (`Unique`), so that a walk finds what is there and nothing else
(`WalkIs`, `MissedIsNot`); a path `mkdir` or `create` has found absent is absent
still, although the tree was switched in between (`Looked`), because every call
that could add it needs the same lock; and the tree of a new root has the paths of
the old and the added one (`Renamed`). `Alone`: a thread next to which nobody made a
change works on the present root; what it still has to sweep is freed by nobody,
and it comes to each block by one way (`Clear`, by `SiblingsApart`: siblings in a
tree have nothing below them in common); and `create`'s file is in the tree. With
`Sound`, the tree it walks has no freed block. `Alone` holds for any number of
threads that read beside it, since they change nothing (`QuietStep`).

### The distributed nodes (`DistributedProofs`)

For any nodes numbered by one byte, modes, contents, and bounds (`DataAssumption`:
permission bits are the twelve lower bits of a `mode_t`, contents are bytes and
fit an IP packet; `NodesAssumption`; `DistributedBounds`): `DistributedTypes`,
`IdsStayDistinct`, `IdsFollowSeen`, `BlocksKept`, `BlocksArrive`.

`IInv` says of each block made which node made it in which start, that its low
order byte is the node's and that the counter of that start has passed its high
order bits (`Made`); that the counter is not behind what was seen (`Ahead`); that
each packet under way is the echo of a block that was made and that the host
accepts (`Circulates`), and that a running node's own accepted blocks are under
way until freed (`Kept`); and that a running node's root is its own (`Rooted`).
`IdsDistinct` alone is not inductive: without `Made` nothing keeps a new id from
being an old one. `BlocksKept` and `BlocksArrive` rest on the codecs.

### The codecs (`CodecProofs`)

* `AcceptedUnlessSecondCarry`: for every 16-bit identifier and sequence number and
  every body up to the size of an IP packet, the echoing host accepts an
  `EchoRequest` exactly if adding the carries to its sum does not carry. The sum
  of such a body fits 32 bits (`SumFits`), by the least-number principle.
* `ModeReported`: for every set of bits, `to_mode_t(from_proto(gen_proto(ModeOf(
  mode))))` is the type and the nine permissions of the mode.

### The receive path (`PingReceiveProofs`)

For any number of io threads and any packets: `HandlerStaysOne`. If no packet is
longer than `reply_buffer_` (hypothesis `Fits` of the theorems; with a longer one
they are false, since `receive` cuts it): `BufferStaysFramed`, `PublishedOnceEach`.

`Handler` says that the completion handler is set, queued or about to be set, in
exactly one place, so that `reply_buffer_` still holds the packet when it is
copied. `Whole` says that what handlers carry is the bytes of one packet, that a
check about to cut holds the mutex and the buffer still begins with its copy
(`Cutting`, for handlers may have appended since), and that around each byte of
the buffer is all of its packet (`Around`, an inductive form of `Framed`, which
says it of a partition). `Unique` says that each packet is in exactly one place
between the network and the subscribers.

### RateQueue (`RateQueueProofs`)

For any callers: `RunsInOrder` and `StopsQuietly`. The invariant numbers what was
executed, is held by the service thread and is queued, without a gap, and has the
thread end only after `stopped_`.

### Only model-checked

* Liveness (`ReadersServed`, `FreedLeavesNetwork`, `Delivery`, `StopReturns`,
  `WorkRuns`, `CallsEnd`, the fairness of `BlockStore`): the prover has no rule
  for it.
* `BlockFuse`, `BlockUtil` and `RevertibleBlockFuse`: their walks over trees are
  recursive operators, in whose presence the prover loses its SMT backend.
  `FuseThreads` has the same tree operations in a form that can be proved about.
* `AtomicOnDirs` of `FuseThreads`, a refinement of `FileSystem` through the paths
  of a tree.

## Not modelled

* `Log` and the other output; `to_string`, `==` and the getters of the data
  classes.
* Command lines, and the programs `single_ping`, `multi_ping` and `spoofed_ping`,
  which send packets by hand.
* The string functions of `FsUtil`: paths are sequences of names.
* The wire format of protobuf (generated code), link blocks in packets (their
  children are copied like the bytes of contents), times, owners, and the bytes
  of the IP header apart from what its uninitialised field does.
* Destructors: every object lives as long as the process. Errors of the socket
  raise exceptions that end the process.
* A datagram longer than `reply_buffer_`: `receive` models the cut, but no run
  has one.
* Several fuse threads inside `RevertibleBlockFuse` or `DistributedBlockFuse`.
  Their own state is as unguarded as `root_block_`, and `FuseThreads` already
  shows what that leads to.

## Plan

Done: the modules, runs and proofs above.

Left, in this order:

1. `AtomicOnDirs`: what `View` is below the root that `Rebuilt` gives.
2. `PingStore` and `BlockStore`: action properties that the refinement implies,
   stated on their own where a reader wants them.
