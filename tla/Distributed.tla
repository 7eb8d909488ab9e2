---------------------------- MODULE Distributed -----------------------------
(***************************************************************************)
(* The distributed file system: nodes that each run a DistributedBlockFuse *)
(* over a PingBlockManager, an UpdatingIdSupplier and a                    *)
(* DistributedFreedService.  A node keeps every block circulating between  *)
(* itself and an echoing host, and sends the same request under the        *)
(* address of each other node, so that the echo goes there.  All nodes use *)
(* one file system id and one sequence number, so each takes the packets   *)
(* for its own and sends them on.                                          *)
(*                                                                         *)
(* A node may crash and start again; nothing is stored but what circulates.*)
(*                                                                         *)
(* What BlockFuse does on a node is here the calls it makes: blocks are    *)
(* created, some of them rewritten with another size, roots set, blocks    *)
(* freed.  The tree they form is the subject of BlockFuse; children, times *)
(* and owners are left out.                                                *)
(***************************************************************************)
EXTENDS Mode, Echo, Bags, FiniteSets

CONSTANTS Nodes,       \* the low order bits of each node's block ids
          Subscribed,  \* the nodes whose fuse is subscribed to their service
                       \*   (distributed_fs.cc subscribes none)
          ModeBits,    \* permission bits calls may ask for
          Contents,    \* contents of files
          MaxHigh,     \* bound: high order bits
          MaxBlocks,   \* bound: blocks created
          MaxStarts    \* bound: starts of one node

\* A mode_t has the nine permission bits, set-user-id, set-group-id and sticky
\* below its type; a block fits the IP packet it travels in.
ASSUME DataAssumption ==
  /\ ModeBits \subseteq SUBSET (0 .. 11)
  /\ \A bytes \in Contents : bytes \in Seq(Byte) /\ Len(bytes) <= 65000
ASSUME NodesAssumption == Nodes \subseteq 0 .. 255 /\ Subscribed \subseteq Nodes
ASSUME DistributedBounds ==
  MaxHigh \in 1 .. 255 /\ MaxBlocks \in Nat /\ MaxStarts \in Nat

VARIABLES up,                 \* the nodes that run
          starts,             \* how often each node started
          high_order_bits_,   \* each node's UpdatingIdSupplier
          freed_ids_,         \* each node's TrackFreedService
          root_block_,        \* each node's root
          net,                \* the echoes on their way to each node, a bag
          created,            \* history: every block ever created
          seen,               \* history: the highest id each node's fuse was
                              \*   notified of
          let_go              \* history: ids each node freed since its start

vars == <<up, starts, high_order_bits_, freed_ids_, root_block_, net, created,
          seen, let_go>>

FS_ID == 55
SEQUENCE == 0    \* id_ of the only service in a process

-----------------------------------------------------------------------------
(* Blocks *)

SEPARATOR == 47
NAME == 97

NoStat == [mode |-> "none", size |-> 0]

Stat(mode, size) == [mode |-> mode, size |-> size]
DirFile(name, stat) ==
  [kind |-> "dir_file", name |-> name, stat |-> stat, data |-> <<>>]
FileContents(bytes) ==
  [kind |-> "file_contents", name |-> 0, stat |-> NoStat, data |-> bytes]

is_dir(data) == data.stat.mode.type = "DIR"

\* The constructor of Stat that takes all but the size from another.
Resized(stat, size) == [stat EXCEPT !.size = size]

\* Stat::update_stat, what getattr reports.
update_stat(stat) ==
  [st_mode |-> to_mode_t(stat.mode), st_size |-> stat.size]

\* make_root_block_data
RootMode == [user |-> "READ_WRITE_EXECUTE", group |-> "READ_EXECUTE",
             other |-> "EXECUTE", type |-> "DIR"]
RootData == DirFile(SEPARATOR, Stat(RootMode, 0))

\* The gen_proto of Stat, DirFileBlockData, FileContentsBlockData and Block.
\* The encoding of protobuf itself is external: the fields in their order,
\* after the number of the oneof's case.
StatProto(stat) == gen_proto(stat.mode) \o <<stat.size>>
DirFileProto(data) == <<1, data.name>> \o StatProto(data.stat)
FileContentsProto(data) == <<3>> \o data.data
Serialize(block) ==
  <<block.id \div 256, block.id % 256>> \o
    (IF block.data.kind = "dir_file" THEN DirFileProto(block.data)
     ELSE FileContentsProto(block.data))

\* The constructors from protobuf, and BlockDataFactory::generate.
StatOf(proto) == Stat(from_proto(SubSeq(proto, 1, 4)), proto[5])
DirFileOf(proto) == DirFile(proto[2], StatOf(SubSeq(proto, 3, 7)))
FileContentsOf(proto) == FileContents(Tail(proto))
generate(proto) ==
  IF proto[1] = 1 THEN DirFileOf(proto) ELSE FileContentsOf(proto)
Parse(body) ==
  [id |-> body[1] * 256 + body[2], data |-> generate(SubSeq(body, 3, Len(body)))]

\* PassThroughTranslator::to_request
translate(block) == EchoRequest(FS_ID, SEQUENCE, Serialize(block))

-----------------------------------------------------------------------------
(* Sending *)

\* A request comes back as an echo, if the host accepts it.
Echoed(request) ==
  IF Accepts(request) THEN SetToBag({EchoResponse(request)}) ELSE EmptyBag

\* Echoes under way, once a request with these nodes' addresses has been sent.
SendTo(echoes, nodes, request) ==
  [m \in Nodes |->
     IF m \in nodes THEN echoes[m] (+) Echoed(request) ELSE echoes[m]]

\* The others that get a spoofed request's echo.  SpoofedIpV4 does not set the
\* fragment offset of its header: it is whatever the stack held, and the packet
\* may be dropped as a fragment of nothing.
Reached(n) == SUBSET (Nodes \ {n})

\* send_to_additional_endpts, which register_root is too.
send_to_additional_endpts(echoes, others, block) ==
  SendTo(echoes, others, Spoofed(translate(block)))

-----------------------------------------------------------------------------
(* Ids *)

\* The low order bits are not added.
next_id_high_only(n, high) == high * 256

\* next_id: the high order bits are incremented afterwards.
next_id(n, high) == high * 256 + n

\* Ids from nodes behind this one are followed.
follow_lower(high, block_id) ==
  LET just_high_order == block_id \div 256
  IN IF just_high_order < high THEN just_high_order + 1 ELSE high

\* update_if_less_than: an equal number is not followed.
update_if_less_than(high, block_id) ==
  LET just_high_order == block_id \div 256
  IN IF just_high_order > high THEN just_high_order + 1 ELSE high

-----------------------------------------------------------------------------
(* Actions *)

\* create_block and DistributedFreedService::register_block: to the own
\* endpoint, then under the address of every other node.
Register(n, high, data, asked, echoes) ==
  LET block == [id |-> next_id(n, high), data |-> data] IN
  /\ Cardinality(created) < MaxBlocks
  /\ high < MaxHigh
  /\ high_order_bits_' = [high_order_bits_ EXCEPT ![n] = high + 1]
  /\ created' = created \cup
       {[block |-> block, node |-> n, start |-> starts'[n], asked |-> asked]}
  /\ \E others \in Reached(n) :
       net' = send_to_additional_endpts(
                SendTo(echoes, {n}, translate(block)), others, block)

\* The process starts: the constructor of BlockFuse creates a root.  It is not
\* announced, set_root_block is not called.
Start(n) ==
  /\ n \notin up
  /\ starts[n] < MaxStarts
  /\ up' = up \cup {n}
  /\ starts' = [starts EXCEPT ![n] = @ + 1]
  /\ Register(n, 1, RootData, to_mode_t(RootMode), net)
  /\ root_block_' = [root_block_ EXCEPT ![n] =
                       [id |-> next_id(n, 1), data |-> RootData]]
  /\ freed_ids_' = [freed_ids_ EXCEPT ![n] = {}]
  /\ seen' = [seen EXCEPT ![n] = 0]
  /\ let_go' = [let_go EXCEPT ![n] = {}]

Crash(n) ==
  /\ n \in up
  /\ up' = up \ {n}
  /\ UNCHANGED <<starts, high_order_bits_, freed_ids_, root_block_, net,
                 created, seen, let_go>>

\* An echo arrives at a node that does not run, and is gone.
Unheard(n) ==
  /\ n \notin up
  /\ \E response \in DOMAIN net[n] :
       net' = [net EXCEPT ![n] = @ (-) SetToBag({response})]
  /\ UNCHANGED <<up, starts, high_order_bits_, freed_ids_, root_block_, created,
                 seen, let_go>>

\* The data of a new block, and the mode_t its creator was called with: mkdir
\* adds the type itself, create gets it from the kernel.
NewData ==
  {[data |-> DirFile(NAME, Stat(ModeOf(bits \cup {S_IFDIR}), 1)),
    asked |-> bits \cup {S_IFDIR}] : bits \in ModeBits}
  \cup {[data |-> DirFile(NAME, Stat(ModeOf(bits \cup {S_IFREG}), 0)),
         asked |-> bits \cup {S_IFREG}] : bits \in ModeBits}
  \cup {[data |-> FileContents(bytes), asked |-> {}] : bytes \in Contents}
  \cup {[data |-> RootData, asked |-> to_mode_t(RootMode)]}

create_block(n) ==
  /\ n \in up
  /\ UNCHANGED <<up, starts, freed_ids_, root_block_, seen, let_go>>
  /\ \E new \in NewData :
       Register(n, high_order_bits_[n], new.data, new.asked, net)

\* This start's blocks of a node.
Own(n) == {c \in created : c.node = n /\ c.start = starts[n]}

\* write_file_starting_at_node: a file's block, as it came back from the network,
\* again with another size and the rest of its Stat.  (What came back under the
\* id may be a block of an earlier start.)
write(n) ==
  /\ n \in up
  /\ UNCHANGED <<up, starts, freed_ids_, root_block_, seen, let_go>>
  /\ \E c \in Own(n), d \in created, response \in DOMAIN net[n] :
       LET file == Parse(response.data_) IN
       /\ c.block.id = file.id /\ file.id \notin let_go[n]
       /\ d.block = file
       /\ file.data.kind = "dir_file" /\ ~ is_dir(file.data)
       /\ file.data.stat.size = 0
       /\ Register(n, high_order_bits_[n],
                   [file.data EXCEPT !.stat = Resized(@, 1)], d.asked, net)

\* DistributedBlockFuse::set_root_block, with a root just created: announced to
\* the others only.
set_root_block(n) ==
  /\ n \in up
  /\ \E c \in Own(n), others \in Reached(n) :
       /\ c.block.data.name = SEPARATOR
       /\ c.block.id > root_block_[n].id /\ c.block.id \notin let_go[n]
       /\ root_block_' = [root_block_ EXCEPT ![n] = c.block]
       /\ net' = send_to_additional_endpts(net, others, c.block)
  /\ UNCHANGED <<up, starts, high_order_bits_, freed_ids_, created, seen, let_go>>

\* TrackFreedService::free_block
free_block(n) ==
  /\ n \in up
  /\ \E c \in Own(n) :
       LET id == c.block.id IN
       /\ id # root_block_[n].id /\ id \notin let_go[n]
       /\ freed_ids_' = [freed_ids_ EXCEPT ![n] = @ \cup {id}]
       /\ let_go' = [let_go EXCEPT ![n] = @ \cup {id}]
  /\ UNCHANGED <<up, starts, high_order_bits_, root_block_, net, created, seen>>

\* is_root_block: an entry of a directory is none, and for anything else the
\* null pointer of the failed cast is dereferenced.
is_root_block(data) == IF data.kind = "dir_file" THEN "no" ELSE "fault"

\* Every block that arrives is taken as the root.
RootAfterAny(root, block) == block

\* DistributedBlockFuse::process: what it leaves as the root.
RootAfter(root, block) ==
  IF is_root_block(block.data) = "yes" /\ root.id < block.id THEN block ELSE root

\* PingBlockService::process: the packet is for this file system and service;
\* the block goes to the subscribers; then it is sent on or, if freed, dropped.
\* A node whose fuse is not subscribed only waits for blocks (PingStore).
process(n) ==
  /\ n \in up
  /\ \E response \in DOMAIN net[n] :
       LET block == Parse(response.data_)
           rest == net[n] (-) SetToBag({response})
           fuse == n \in Subscribed
           dies == fuse /\ is_root_block(block.data) = "fault"
           drop == block.id \in freed_ids_[n]
       IN /\ response.identifier_ = FS_ID
          /\ response.sequence_number_ = SEQUENCE
          /\ high_order_bits_' = [high_order_bits_ EXCEPT ![n] =
               IF fuse THEN update_if_less_than(@, block.id) ELSE @]
          /\ high_order_bits_'[n] <= MaxHigh
          /\ root_block_' = [root_block_ EXCEPT ![n] =
               IF fuse THEN RootAfter(@, block) ELSE @]
          /\ seen' = [seen EXCEPT ![n] =
               IF fuse THEN Max({@, block.id}) ELSE @]
          /\ up' = IF dies THEN up \ {n} ELSE up
          /\ freed_ids_' = [freed_ids_ EXCEPT ![n] =
               IF dies THEN @ ELSE @ \ {block.id}]
          /\ net' = [net EXCEPT ![n] =
               IF dies \/ drop THEN rest ELSE rest (+) Echoed(Resend(response))]
  /\ UNCHANGED <<starts, created, let_go>>

-----------------------------------------------------------------------------

NoBlock == [id |-> 0, data |-> RootData]

Init ==
  /\ up = {}
  /\ starts = [n \in Nodes |-> 0]
  /\ high_order_bits_ = [n \in Nodes |-> 1]
  /\ freed_ids_ = [n \in Nodes |-> {}]
  /\ root_block_ = [n \in Nodes |-> NoBlock]
  /\ net = [n \in Nodes |-> EmptyBag]
  /\ created = {}
  /\ seen = [n \in Nodes |-> 0]
  /\ let_go = [n \in Nodes |-> {}]

Next ==
  \E n \in Nodes :
    \/ Start(n) \/ Crash(n) \/ Unheard(n)
    \/ create_block(n) \/ write(n) \/ set_root_block(n) \/ free_block(n)
    \/ process(n)

Spec == Init /\ [][Next]_vars

-----------------------------------------------------------------------------
(* Properties *)

\* Only nodes that have started run; a running node has a root, ids are below
\* their bounds, and what is freed but still circulating was freed since the
\* start.
TypeOK ==
  /\ up \subseteq {n \in Nodes : starts[n] > 0}
  /\ \A n \in Nodes :
       /\ high_order_bits_[n] \in 1 .. MaxHigh
       /\ freed_ids_[n] \subseteq let_go[n]
       /\ n \in up => root_block_[n] # NoBlock /\ root_block_[n].id \notin let_go[n]
       /\ IsABag(net[n])

\* Two blocks have one id only if one node made them in two starts: the nodes
\* never meet in an id, whatever they learn from each other, but a restarted
\* node counts from 1 again although its old blocks may still circulate.
IdsDistinct ==
  \A c, d \in created :
    c.block.id = d.block.id =>
      c = d \/ (c.node = d.node /\ c.start # d.start)

\* A subscribed node gives a block made after it saw another a higher id than
\* that one, except when the high order bits are equal and its own low order
\* bits are smaller: of two roots so made, the later one loses.
IdsFollow ==
  \A n \in Subscribed \cap up :
    LET next == next_id(n, high_order_bits_[n])
    IN \/ next > seen[n]
       \/ next \div 256 = seen[n] \div 256 /\ n <= seen[n] % 256

\* A running node keeps what it made and did not free: an echo is under way to
\* it.  Lost are exactly the blocks whose checksum needs a second carry, which
\* the echoing host never sends back.
KeepsBlocks ==
  \A n \in up : \A c \in Own(n) :
    c.block.id \notin let_go[n] =>
      (EchoResponse(translate(c.block)) \in DOMAIN net[n]
         <=> ~ SecondCarry(Sum(FS_ID, SEQUENCE, Serialize(c.block))))

\* However often it went round and was rewritten, a block that arrives is one
\* that was created, and an entry reports the type and permissions that its
\* creator was asked for.
ArrivesAsMade ==
  \A n \in Nodes : \A response \in DOMAIN net[n] :
    LET block == Parse(response.data_) IN
    \E c \in created :
      /\ c.block = block
      /\ block.data.kind = "dir_file" =>
           update_stat(block.data.stat).st_mode = Reported(c.asked)

=============================================================================
