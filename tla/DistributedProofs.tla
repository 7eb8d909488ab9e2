------------------------- MODULE DistributedProofs --------------------------
(***************************************************************************)
(* Proofs about Distributed for any set of nodes, any modes and contents,  *)
(* any number of blocks, crashes and starts.                               *)
(***************************************************************************)
EXTENDS Distributed, CodecProofs

-----------------------------------------------------------------------------
(* Blocks and bytes *)

Stats == [mode : Modes, size : {0, 1}]
DirFiles == [kind : {"dir_file"}, name : {SEPARATOR, NAME}, stat : Stats,
             data : {<<>>}]
FileContentses == [kind : {"file_contents"}, name : {0}, stat : {NoStat},
                   data : Contents]
Blocks == [id : Nat, data : DirFiles \cup FileContentses]

\* The ids that fit the two bytes they are written in.
Short(block) == block.id < 65536

\* What was put together is found again.
LEMMA Glued ==
  ASSUME NEW S, NEW s \in Seq(S), NEW t \in Seq(S)
  PROVE  /\ s \o t \in Seq(S) /\ Len(s \o t) = Len(s) + Len(t)
         /\ \A i \in 1 .. Len(s) : (s \o t)[i] = s[i]
         /\ \A i \in 1 .. Len(t) : (s \o t)[Len(s) + i] = t[i]
OBVIOUS

LEMMA Cut ==
  ASSUME NEW S, NEW s \in Seq(S), NEW m \in Nat, NEW n \in Nat,
         1 <= m, m <= n, n <= Len(s)
  PROVE  /\ SubSeq(s, m, n) \in Seq(S) /\ Len(SubSeq(s, m, n)) = n - m + 1
         /\ \A i \in 1 .. n - m + 1 : SubSeq(s, m, n)[i] = s[m + i - 1]
OBVIOUS

\* The seven numbers of a directory entry.
LEMMA DirFileBytes ==
  ASSUME NEW S, NEW a \in S, NEW b \in S, NEW u \in S, NEW g \in S, NEW o \in S,
         NEW t \in S, NEW z \in S
  PROVE  LET p == <<a, b>> \o (<<u, g, o, t>> \o <<z>>) IN
         /\ p \in Seq(S) /\ Len(p) = 7
         /\ p[1] = a /\ p[2] = b /\ p[3] = u /\ p[4] = g /\ p[5] = o /\ p[6] = t
         /\ p[7] = z
<1> DEFINE p1 == <<a, b>>  p2 == <<u, g, o, t>>  p3 == <<z>>
<1>1. p1 \in Seq(S) /\ Len(p1) = 2 /\ p1[1] = a /\ p1[2] = b
  OBVIOUS
<1>2. /\ p2 \in Seq(S) /\ Len(p2) = 4
      /\ p2[1] = u /\ p2[2] = g /\ p2[3] = o /\ p2[4] = t
  OBVIOUS
<1>3. p3 \in Seq(S) /\ Len(p3) = 1 /\ p3[1] = z
  OBVIOUS
<1> HIDE DEF p1, p2, p3
<1> DEFINE p4 == p2 \o p3
<1>4. /\ p4 \in Seq(S) /\ Len(p4) = 5
      /\ p4[1] = u /\ p4[2] = g /\ p4[3] = o /\ p4[4] = t /\ p4[5] = z
  <2>1. /\ p4 \in Seq(S) /\ Len(p4) = Len(p2) + Len(p3)
        /\ \A i \in 1 .. Len(p2) : p4[i] = p2[i]
        /\ \A i \in 1 .. Len(p3) : p4[Len(p2) + i] = p3[i]
    <3>1. p2 \in Seq(S) /\ p3 \in Seq(S)
      BY <1>2, <1>3
    <3> QED BY <3>1, Glued
  <2> HIDE DEF p4
  <2>2. p4[4 + 1] = p3[1]
    BY <1>2, <1>3, <2>1
  <2> QED BY <1>2, <1>3, <2>1, <2>2
<1> HIDE DEF p4
<1> DEFINE p == p1 \o p4
<1>5. /\ p \in Seq(S) /\ Len(p) = Len(p1) + Len(p4)
      /\ \A i \in 1 .. Len(p1) : p[i] = p1[i]
      /\ \A i \in 1 .. Len(p4) : p[Len(p1) + i] = p4[i]
  <2>1. p1 \in Seq(S) /\ p4 \in Seq(S)
    BY <1>1, <1>4
  <2> QED BY <2>1, Glued
<1> HIDE DEF p
<1>6. /\ p[2 + 1] = p4[1] /\ p[2 + 2] = p4[2] /\ p[2 + 3] = p4[3]
      /\ p[2 + 4] = p4[4] /\ p[2 + 5] = p4[5]
  BY <1>1, <1>4, <1>5
<1>7. /\ p \in Seq(S) /\ Len(p) = 7
      /\ p[1] = a /\ p[2] = b /\ p[3] = u /\ p[4] = g /\ p[5] = o /\ p[6] = t
      /\ p[7] = z
  BY <1>1, <1>4, <1>5, <1>6
<1> QED BY <1>7 DEF p, p1, p2, p3, p4

\* A Stat is read from the third number on.
LEMMA StatRead ==
  ASSUME NEW p \in Seq(Byte), Len(p) = 7
  PROVE  StatOf(SubSeq(p, 3, 7)) =
           Stat([user |-> EnumOf(RweProto, p[3]), group |-> EnumOf(RweProto, p[4]),
                 other |-> EnumOf(RweProto, p[5]), type |-> EnumOf(TypeProto, p[6])],
                p[7])
<1> DEFINE q == SubSeq(p, 3, 7)
<1>1. /\ q \in Seq(Byte) /\ Len(q) = 7 - 3 + 1
      /\ \A i \in 1 .. 7 - 3 + 1 : q[i] = p[3 + i - 1]
  <2>1. 3 \in Nat /\ 7 \in Nat /\ 1 <= 3 /\ 3 <= 7 /\ 7 <= Len(p)
    OBVIOUS
  <2> QED BY <2>1, Cut, Zenon
<1> HIDE DEF q
<1>2. q[1] = p[3] /\ q[2] = p[4] /\ q[3] = p[5] /\ q[4] = p[6] /\ q[5] = p[7]
  BY <1>1
<1> DEFINE r == SubSeq(q, 1, 4)
<1>3. \A i \in 1 .. 4 - 1 + 1 : r[i] = q[1 + i - 1]
  <2>1. q \in Seq(Byte) /\ 4 <= Len(q)
    BY <1>1
  <2> QED BY <2>1, PartAt, SMT
<1> HIDE DEF r
<1>4. r[1] = q[1] /\ r[2] = q[2] /\ r[3] = q[3] /\ r[4] = q[4]
  BY <1>3
<1>5. StatOf(q) = Stat(from_proto(r), q[5])
  BY DEF StatOf, r
<1> QED BY <1>2, <1>4, <1>5 DEF q, from_proto

\* A directory entry comes back from protobuf as it went.
LEMMA DirFileRead ==
  ASSUME NEW data \in DirFiles
  PROVE  LET p == DirFileProto(data) IN
         p \in Seq(Byte) /\ Len(p) = 7 /\ generate(p) = data
<1>1. PICK mode \in Modes, size \in {0, 1}, name \in {SEPARATOR, NAME} :
        data = [kind |-> "dir_file", name |-> name,
                stat |-> [mode |-> mode, size |-> size], data |-> <<>>]
  BY DEF DirFiles, Stats
<1> DEFINE u == RweProto[mode.user]
           g == RweProto[mode.group]
           o == RweProto[mode.other]
           t == TypeProto[mode.type]
           p == DirFileProto(data)
<1>2. u \in Byte /\ g \in Byte /\ o \in Byte /\ t \in Byte
  BY RweRead, TypeRead DEF Modes
<1>3. 1 \in Byte /\ name \in Byte /\ size \in Byte
  BY DEF Byte, SEPARATOR, NAME
<1>4. p = <<1, name>> \o (<<u, g, o, t>> \o <<size>>)
  BY <1>1 DEF DirFileProto, StatProto, gen_proto
<1> HIDE DEF u, g, o, t, p
<1>5. /\ p \in Seq(Byte) /\ Len(p) = 7
      /\ p[1] = 1 /\ p[2] = name /\ p[3] = u /\ p[4] = g /\ p[5] = o /\ p[6] = t
      /\ p[7] = size
  BY <1>2, <1>3, <1>4, DirFileBytes
<1>6. StatOf(SubSeq(p, 3, 7)) = Stat(mode, size)
  <2>1. /\ EnumOf(RweProto, u) = mode.user
        /\ EnumOf(RweProto, g) = mode.group
        /\ EnumOf(RweProto, o) = mode.other
        /\ EnumOf(TypeProto, t) = mode.type
    BY RweRead, TypeRead DEF Modes, u, g, o, t
  <2>2. mode = [user |-> mode.user, group |-> mode.group,
                other |-> mode.other, type |-> mode.type]
    BY DEF Modes
  <2>3. StatOf(SubSeq(p, 3, 7)) =
          Stat([user |-> EnumOf(RweProto, u), group |-> EnumOf(RweProto, g),
                other |-> EnumOf(RweProto, o), type |-> EnumOf(TypeProto, t)], size)
    BY <1>5, StatRead
  <2> QED BY <2>1, <2>2, <2>3
<1>7. generate(p) = data
  <2>1. generate(p) = DirFile(name, Stat(mode, size))
    BY <1>5, <1>6 DEF generate, DirFileOf
  <2> QED BY <1>1, <2>1 DEF DirFile, Stat
<1> QED BY <1>5, <1>7 DEF p

\* So do the contents of a file.
LEMMA FileContentsRead ==
  ASSUME NEW data \in FileContentses
  PROVE  LET p == FileContentsProto(data) IN
         /\ p \in Seq(Byte) /\ Len(p) >= 1 /\ Len(p) <= 65001
         /\ generate(p) = data
<1>1. PICK bytes \in Contents :
        data = [kind |-> "file_contents", name |-> 0, stat |-> NoStat,
                data |-> bytes]
  BY DEF FileContentses
<1>2. bytes \in Seq(Byte) /\ Len(bytes) <= 65000
  BY DataAssumption
<1>3. 3 \in Byte
  BY DEF Byte
<1>4. FileContentsProto(data) = <<3>> \o bytes
  BY <1>1 DEF FileContentsProto
<1>5. /\ <<3>> \o bytes \in Seq(Byte) /\ Len(<<3>> \o bytes) = 1 + Len(bytes)
      /\ (<<3>> \o bytes)[1] = 3 /\ Tail(<<3>> \o bytes) = bytes
      /\ Len(bytes) \in Nat
  BY <1>2, <1>3
<1>6. generate(<<3>> \o bytes) = data
  BY <1>1, <1>5 DEF generate, FileContentsOf, FileContents
<1> QED BY <1>2, <1>4, <1>5, <1>6

\* The two bytes of an id.
LEMMA IdBytes ==
  ASSUME NEW id \in Nat, id < 65536
  PROVE  /\ id \div 256 \in Byte /\ id % 256 \in Byte
         /\ (id \div 256) * 256 + (id % 256) = id
BY SMT DEF Byte

\* The two bytes of the id are cut off again.
LEMMA CutOff ==
  ASSUME NEW S, NEW a \in S, NEW b \in S, NEW p \in Seq(S), Len(p) >= 1
  PROVE  LET s == <<a, b>> \o p IN
         /\ s \in Seq(S) /\ Len(s) = 2 + Len(p) /\ s[1] = a /\ s[2] = b
         /\ SubSeq(s, 3, Len(s)) = p
<1> DEFINE i == <<a, b>>
           s == i \o p
           q == SubSeq(s, 3, Len(s))
<1>1. i \in Seq(S) /\ Len(i) = 2 /\ i[1] = a /\ i[2] = b
  OBVIOUS
<1> HIDE DEF i
<1>2. /\ s \in Seq(S) /\ Len(s) = Len(i) + Len(p)
      /\ \A k \in 1 .. Len(i) : s[k] = i[k]
      /\ \A k \in 1 .. Len(p) : s[Len(i) + k] = p[k]
  <2>1. i \in Seq(S)
    BY <1>1
  <2> QED BY <2>1, Glued
<1> HIDE DEF s
<1>3. Len(p) \in Nat
  OBVIOUS
<1>4. q \in Seq(S) /\ Len(q) = Len(p) /\ \A k \in 1 .. Len(p) : q[k] = s[3 + k - 1]
  <2>1. 3 \in Nat /\ Len(s) \in Nat /\ 1 <= 3 /\ 3 <= Len(s) /\ Len(s) <= Len(s)
    BY <1>1, <1>2, <1>3
  <2>2. /\ q \in Seq(S) /\ Len(q) = Len(s) - 3 + 1
        /\ \A k \in 1 .. Len(s) - 3 + 1 : q[k] = s[3 + k - 1]
    <3>1. s \in Seq(S)
      BY <1>2
    <3> QED BY <2>1, <3>1, Cut, Zenon
  <2> HIDE DEF q
  <2> QED BY <1>1, <1>2, <1>3, <2>2
<1> HIDE DEF q
<1>5. \A k \in 1 .. Len(p) : q[k] = p[k]
  BY <1>1, <1>2, <1>3, <1>4
<1>6. q = p
  BY <1>4, <1>5
<1> QED BY <1>1, <1>2, <1>6 DEF i, s, q

\* A block is bytes that fit a packet, and is read as it was written.
LEMMA BlockRead ==
  ASSUME NEW block \in Blocks, Short(block)
  PROVE  /\ Serialize(block) \in Seq(Byte)
         /\ Len(Serialize(block)) <= 65100
         /\ Parse(Serialize(block)) = block
<1> DEFINE proto == IF block.data.kind = "dir_file" THEN DirFileProto(block.data)
                    ELSE FileContentsProto(block.data)
<1>1. /\ proto \in Seq(Byte) /\ Len(proto) >= 1 /\ Len(proto) <= 65001
      /\ generate(proto) = block.data
  <2>1. CASE block.data \in DirFiles
    <3>1. block.data.kind = "dir_file"
      BY <2>1 DEF DirFiles
    <3>2. proto = DirFileProto(block.data)
      BY <3>1
    <3>3. proto \in Seq(Byte) /\ Len(proto) = 7 /\ generate(proto) = block.data
      BY <2>1, <3>2, DirFileRead, Zenon
    <3> HIDE DEF proto
    <3> QED BY <3>3
  <2>2. CASE block.data \in FileContentses
    <3>1. block.data.kind = "file_contents"
      BY <2>2 DEF FileContentses
    <3> QED BY <2>2, <3>1, FileContentsRead
  <2> QED BY <2>1, <2>2 DEF Blocks
<1>2. Serialize(block) = <<block.id \div 256, block.id % 256>> \o proto
  BY DEF Serialize
<1> HIDE DEF proto
<1>3. /\ block.id \div 256 \in Byte /\ block.id % 256 \in Byte
      /\ (block.id \div 256) * 256 + (block.id % 256) = block.id
  BY IdBytes DEF Short, Blocks
<1>4. /\ Serialize(block) \in Seq(Byte)
      /\ Len(Serialize(block)) = 2 + Len(proto)
      /\ Serialize(block)[1] = block.id \div 256
      /\ Serialize(block)[2] = block.id % 256
      /\ SubSeq(Serialize(block), 3, Len(Serialize(block))) = proto
  BY <1>1, <1>2, <1>3, CutOff
<1>5. Parse(Serialize(block)) = [id |-> block.id, data |-> block.data]
  <2>1. Parse(Serialize(block)) =
          [id |-> Serialize(block)[1] * 256 + Serialize(block)[2],
           data |-> generate(SubSeq(Serialize(block), 3, Len(Serialize(block))))]
    BY DEF Parse
  <2> DEFINE s == Serialize(block)
  <2>2. s[1] * 256 + s[2] = block.id
    BY <1>3, <1>4, Zenon
  <2>3. generate(SubSeq(s, 3, Len(s))) = block.data
    <3>1. generate(proto) = block.data
      BY <1>1
    <3> QED BY <1>4, <3>1, Zenon
  <2> QED BY <2>1, <2>2, <2>3, Zenon
<1>6. [id |-> block.id, data |-> block.data] = block
  BY DEF Blocks
<1> QED BY <1>1, <1>4, <1>5, <1>6

-----------------------------------------------------------------------------
(* Packets *)

\* The echo of a block, and whether the echoing host answers its request.
EchoOf(block) == EchoResponse(translate(block))
Answered(block) == Accepts(translate(block))

\* A block is answered exactly if its checksum needs no second carry.
LEMMA AnsweredUnlessCarry ==
  ASSUME NEW block \in Blocks, Short(block)
  PROVE  Answered(block) <=> ~ SecondCarry(Sum(FS_ID, SEQUENCE, Serialize(block)))
<1>1. FS_ID \in Nat /\ FS_ID < 65536 /\ SEQUENCE \in Nat /\ SEQUENCE < 65536
  BY DEF FS_ID, SEQUENCE
<1>2. Serialize(block) \in Seq(Byte) /\ Len(Serialize(block)) <= 65100
  BY BlockRead
<1> QED BY <1>1, <1>2, AcceptedUnlessSecondCarry DEF Answered, translate

\* The fields of an echo; it is read as the block, goes round as the same
\* request, and a spoofed request is the same too.
LEMMA EchoFields ==
  ASSUME NEW block \in Blocks, Short(block)
  PROVE  /\ EchoOf(block).identifier_ = FS_ID
         /\ EchoOf(block).sequence_number_ = SEQUENCE
         /\ EchoOf(block).data_ = Serialize(block)
         /\ Parse(EchoOf(block).data_) = block
         /\ Resend(EchoOf(block)) = translate(block)
         /\ Spoofed(translate(block)) = translate(block)
<1>1. EchoOf(block).data_ = Serialize(block)
  BY DEF EchoOf, EchoResponse, translate, EchoRequest
<1>2. Parse(EchoOf(block).data_) = block
  BY <1>1, BlockRead
<1> QED BY <1>1, <1>2
        DEF EchoOf, EchoResponse, translate, EchoRequest, Resend, Spoofed

-----------------------------------------------------------------------------
(* Bags *)

\* One more packet under way.
LEMMA BagAdd ==
  ASSUME NEW A, NEW B, IsABag(A), IsABag(B)
  PROVE  IsABag(A (+) B) /\ DOMAIN (A (+) B) = DOMAIN A \cup DOMAIN B
BY DEF IsABag, (+)

\* One less: the others are still under way.
LEMMA BagRemove ==
  ASSUME NEW A, IsABag(A), NEW e
  PROVE  LET rest == A (-) SetToBag({e}) IN
         /\ IsABag(rest) /\ DOMAIN rest \subseteq DOMAIN A
         /\ DOMAIN A \ {e} \subseteq DOMAIN rest
BY DEF IsABag, (-), SetToBag

\* The echo of a request, if there is one.
LEMMA EchoedBag ==
  ASSUME NEW request
  PROVE  /\ IsABag(Echoed(request))
         /\ DOMAIN Echoed(request) =
              IF Accepts(request) THEN {EchoResponse(request)} ELSE {}
BY DEF IsABag, Echoed, EmptyBag, SetToBag

\* Nothing under way.
LEMMA NothingSent == IsABag(EmptyBag) /\ DOMAIN EmptyBag = {}
BY DEF IsABag, EmptyBag, SetToBag

\* A block sent to some nodes.
LEMMA Sent ==
  ASSUME NEW echoes, \A m \in Nodes : IsABag(echoes[m]), NEW nodes, NEW request
  PROVE  LET after == SendTo(echoes, nodes, request) IN
         /\ DOMAIN after = Nodes
         /\ \A m \in Nodes :
              /\ IsABag(after[m]) /\ DOMAIN echoes[m] \subseteq DOMAIN after[m]
              /\ DOMAIN after[m] \subseteq DOMAIN echoes[m] \cup {EchoResponse(request)}
              /\ ~ Accepts(request) => DOMAIN after[m] = DOMAIN echoes[m]
              /\ m \in nodes /\ Accepts(request) => EchoResponse(request) \in DOMAIN after[m]
<1> DEFINE after == SendTo(echoes, nodes, request)
<1>1. after = [m \in Nodes |->
                 IF m \in nodes THEN echoes[m] (+) Echoed(request) ELSE echoes[m]]
  BY DEF SendTo
<1>2. ASSUME NEW m \in Nodes, m \in nodes
      PROVE  /\ IsABag(after[m])
             /\ DOMAIN after[m] = DOMAIN echoes[m] \cup DOMAIN Echoed(request)
  <2>1. after[m] = echoes[m] (+) Echoed(request)
    BY <1>1, <1>2
  <2>2. IsABag(echoes[m]) /\ IsABag(Echoed(request))
    BY EchoedBag
  <2> HIDE DEF after
  <2> QED BY <2>1, <2>2, BagAdd
<1>3. ASSUME NEW m \in Nodes, m \notin nodes PROVE after[m] = echoes[m]
  BY <1>1, <1>3
<1> HIDE DEF after
<1>4. DOMAIN after = Nodes
  BY <1>1
<1>5. ASSUME NEW m \in Nodes
      PROVE  /\ IsABag(after[m]) /\ DOMAIN echoes[m] \subseteq DOMAIN after[m]
             /\ DOMAIN after[m] \subseteq DOMAIN echoes[m] \cup {EchoResponse(request)}
             /\ ~ Accepts(request) => DOMAIN after[m] = DOMAIN echoes[m]
             /\ m \in nodes /\ Accepts(request) => EchoResponse(request) \in DOMAIN after[m]
  BY <1>2, <1>3, EchoedBag
<1> QED BY <1>4, <1>5 DEF after

-----------------------------------------------------------------------------
(* The inductive invariant *)

\* The types of the variables.
Types ==
  /\ up \subseteq Nodes
  /\ starts \in [Nodes -> Nat]
  /\ high_order_bits_ \in [Nodes -> Nat]
  /\ freed_ids_ \in [Nodes -> SUBSET Nat]
  /\ let_go \in [Nodes -> SUBSET Nat]
  /\ seen \in [Nodes -> Nat]
  /\ DOMAIN root_block_ = Nodes
  /\ DOMAIN net = Nodes
  /\ \A n \in Nodes : IsABag(net[n])

\* The high and the low order bits of a block's id.
High(block) == block.id \div 256
Low(block) == block.id % 256

\* A block was made by a node in one of its starts, with that node's low order
\* bits, and by the current one with high order bits that it has left behind.
Made(c) ==
  /\ c.block \in Blocks
  /\ c.node \in Nodes
  /\ c.start \in Nat
  /\ c.start <= starts[c.node]
  /\ Low(c.block) = c.node
  /\ 1 <= High(c.block) /\ High(c.block) < MaxHigh
  /\ c.start = starts[c.node] => High(c.block) < high_order_bits_[c.node]
  /\ c.block.data.kind = "dir_file" =>
       to_mode_t(c.block.data.stat.mode) = Reported(c.asked)

\* The high order bits have not fallen behind what was seen.
Ahead ==
  \A n \in Nodes :
    /\ 1 <= high_order_bits_[n] /\ high_order_bits_[n] <= MaxHigh
    /\ seen[n] \div 256 <= high_order_bits_[n]

\* A packet under way is the echo of a block that was made and is answered.
Circulates ==
  \A n \in Nodes : \A response \in DOMAIN net[n] :
    \E c \in created : response = EchoOf(c.block) /\ Answered(c.block)

\* A running node's own blocks that are answered and not freed are under way.
Kept ==
  \A n \in up : \A c \in Own(n) :
    c.block.id \notin let_go[n] /\ Answered(c.block) => EchoOf(c.block) \in DOMAIN net[n]

\* A running node has started, and its root is a block of its own, not freed.
Rooted ==
  \A n \in up :
    /\ starts[n] > 0
    /\ root_block_[n].id \notin let_go[n]
    /\ \E c \in Own(n) : c.block = root_block_[n]

IInv ==
  /\ Types
  /\ \A c \in created : Made(c)
  /\ IdsDistinct
  /\ Ahead
  /\ Circulates
  /\ Kept
  /\ Rooted
  /\ \A n \in Nodes : freed_ids_[n] \subseteq let_go[n]

-----------------------------------------------------------------------------
(* Ids *)

\* A node's number fits the low order byte.
LEMMA NodeNumber ==
  ASSUME NEW n \in Nodes
  PROVE  n \in Nat /\ n < 256
BY NodesAssumption

\* The bits next_id puts together are found again.
LEMMA IdParts ==
  ASSUME NEW n \in Nodes, NEW high \in Nat
  PROVE  /\ next_id(n, high) \in Nat
         /\ next_id(n, high) \div 256 = high
         /\ next_id(n, high) % 256 = n
<1>1. n \in Nat /\ n < 256
  BY NodeNumber
<1> QED BY <1>1, SMT DEF next_id

\* An id is its high and low order bits.
LEMMA IdFromParts ==
  ASSUME NEW id \in Nat
  PROVE  /\ id = (id \div 256) * 256 + (id % 256)
         /\ id \div 256 \in Nat /\ id % 256 \in Nat /\ id % 256 < 256
BY SMT

\* The id of a block that was made fits two bytes.
LEMMA MadeShort ==
  ASSUME NEW c, Made(c)
  PROVE  /\ c.block \in Blocks /\ Short(c.block) /\ c.block.id \in Nat
         /\ High(c.block) \in Nat /\ c.block.id > 0
<1>1. c.block \in Blocks /\ c.block.id \in Nat
  BY DEF Made, Blocks
<1>2. /\ c.block.id = (c.block.id \div 256) * 256 + (c.block.id % 256)
      /\ c.block.id \div 256 \in Nat
      /\ c.block.id % 256 \in Nat /\ c.block.id % 256 < 256
  BY <1>1, IdFromParts
<1>3. c.block.id \div 256 < 255 /\ 1 <= c.block.id \div 256
  BY <1>2, DistributedBounds DEF Made, High
<1> QED BY <1>1, <1>2, <1>3 DEF Short, High

\* Equal ids have equal parts.
LEMMA SameId ==
  ASSUME NEW a, NEW b, a.id = b.id
  PROVE  High(a) = High(b) /\ Low(a) = Low(b)
BY DEF High, Low

-----------------------------------------------------------------------------
(* The actions *)

\* create_block and register_block: the new block is made as all are, it is
\* sent to the node itself and perhaps to others, and no packet is lost.
LEMMA RegisterMakes ==
  ASSUME IInv, NEW n \in Nodes, NEW high \in Nat, 1 <= high,
         NEW data \in DirFiles \cup FileContentses, NEW asked,
         data.kind = "dir_file" => to_mode_t(data.stat.mode) = Reported(asked),
         Register(n, high, data, asked, net),
         starts' \in [Nodes -> Nat], starts[n] <= starts'[n],
         \A m \in Nodes : m # n => starts'[m] = starts[m],
         \A c \in created :
           c.node = n /\ c.start = starts'[n] => High(c.block) < high,
         NEW b, b = [id |-> next_id(n, high), data |-> data],
         NEW new, new = [block |-> b, node |-> n, start |-> starts'[n], asked |-> asked]
  PROVE  /\ created' = created \cup {new}
         /\ \A c \in created' : Made(c)'
         /\ IdsDistinct'
         /\ high_order_bits_' = [high_order_bits_ EXCEPT ![n] = high + 1]
         /\ high + 1 <= MaxHigh
         /\ DOMAIN net' = Nodes
         /\ \A m \in Nodes : IsABag(net'[m]) /\ DOMAIN net[m] \subseteq DOMAIN net'[m]
         /\ Circulates'
         /\ Answered(b) => EchoOf(b) \in DOMAIN net'[n]
<1>1. /\ high < MaxHigh
      /\ high_order_bits_' = [high_order_bits_ EXCEPT ![n] = high + 1]
      /\ created' = created \cup {new}
  BY DEF Register
<1>2. MaxHigh \in Nat /\ MaxHigh <= 255
  BY DistributedBounds
<1>3. new.block = b /\ new.node = n /\ new.start = starts'[n] /\ new.asked = asked
  OBVIOUS
<1>4. b \in Blocks /\ High(b) = high /\ Low(b) = n /\ b.data = data
  BY IdParts DEF Blocks, High, Low
<1>5. Made(new)'
  <2>1. high_order_bits_'[n] = high + 1
    BY <1>1 DEF IInv, Types
  <2>2. new.block.data.kind = "dir_file" =>
          to_mode_t(new.block.data.stat.mode) = Reported(new.asked)
    BY <1>3, <1>4
  <2>3. starts'[n] \in Nat
    OBVIOUS
  <2> QED BY <1>1, <1>2, <1>3, <1>4, <2>1, <2>2, <2>3 DEF Made
<1>6. ASSUME NEW c \in created PROVE Made(c)'
  <2>1. Made(c)
    BY DEF IInv
  <2>2. High(c.block) \in Nat
    BY <2>1, MadeShort
  <2>3. c.start <= starts'[c.node]
    BY <2>1 DEF Made, IInv, Types
  <2>4. c.start = starts'[c.node] => High(c.block) < high_order_bits_'[c.node]
    <3>1. CASE c.node = n
      BY <1>1, <2>2, <3>1 DEF IInv, Types
    <3>2. CASE c.node # n
      BY <1>1, <2>1, <3>2 DEF IInv, Types, Made
    <3> QED BY <3>1, <3>2
  <2> QED BY <2>1, <2>3, <2>4 DEF Made
<1>7. \A c \in created' : Made(c)'
  BY <1>1, <1>5, <1>6
<1>8. IdsDistinct'
  <2>1. ASSUME NEW c \in created, c.block.id = b.id
        PROVE  c.node = n /\ c.start # starts'[n]
    <3>1. Made(c) /\ High(c.block) \in Nat
      BY MadeShort DEF IInv
    <3>2. High(c.block) = high /\ Low(c.block) = n
      BY <1>4, <2>1, SameId
    <3>3. c.node = n
      BY <3>1, <3>2 DEF Made
    <3>4. ~ (High(c.block) < high)
      BY <3>2
    <3> QED BY <3>3, <3>4
  <2>2. ASSUME NEW c \in created', NEW d \in created', c.block.id = d.block.id
        PROVE  c = d \/ (c.node = d.node /\ c.start # d.start)
    <3>1. CASE c = new /\ d = new
      BY <3>1
    <3>2. CASE c = new /\ d \in created
      BY <1>3, <2>1, <2>2, <3>2
    <3>3. CASE c \in created /\ d = new
      BY <1>3, <2>1, <2>2, <3>3
    <3>4. CASE c \in created /\ d \in created
      BY <2>2, <3>4 DEF IInv, IdsDistinct
    <3> QED BY <1>1, <3>1, <3>2, <3>3, <3>4
  <2> QED BY <2>2 DEF IdsDistinct
<1>9. PICK others \in Reached(n) :
        net' = SendTo(SendTo(net, {n}, translate(b)), others, Spoofed(translate(b)))
  BY DEF Register, send_to_additional_endpts
<1>10. b \in Blocks /\ Short(b)
  <2>1. High(new.block) < 255
    BY <1>2, <1>3, <1>4, <1>1
  <2>2. b.id \in Nat
    BY <1>4 DEF Blocks
  <2>3. /\ b.id = (b.id \div 256) * 256 + (b.id % 256)
        /\ b.id \div 256 \in Nat /\ b.id % 256 \in Nat /\ b.id % 256 < 256
    BY <2>2, IdFromParts
  <2> QED BY <1>3, <1>4, <2>1, <2>3 DEF Short, High
<1>11. Spoofed(translate(b)) = translate(b)
  BY <1>10, EchoFields
<1> DEFINE mid == SendTo(net, {n}, translate(b))
<1>12. /\ DOMAIN mid = Nodes
       /\ \A m \in Nodes :
            /\ IsABag(mid[m]) /\ DOMAIN net[m] \subseteq DOMAIN mid[m]
            /\ DOMAIN mid[m] \subseteq DOMAIN net[m] \cup {EchoOf(b)}
            /\ ~ Answered(b) => DOMAIN mid[m] = DOMAIN net[m]
            /\ m \in {n} /\ Answered(b) => EchoOf(b) \in DOMAIN mid[m]
  BY Sent DEF IInv, Types, EchoOf, Answered
<1> HIDE DEF mid
<1>13. /\ DOMAIN net' = Nodes
       /\ \A m \in Nodes :
            /\ IsABag(net'[m]) /\ DOMAIN mid[m] \subseteq DOMAIN net'[m]
            /\ DOMAIN net'[m] \subseteq DOMAIN mid[m] \cup {EchoOf(b)}
            /\ ~ Answered(b) => DOMAIN net'[m] = DOMAIN mid[m]
  <2>1. net' = SendTo(mid, others, translate(b))
    BY <1>9, <1>11 DEF mid
  <2> QED BY <1>12, <2>1, Sent DEF EchoOf, Answered
<1>14. \A m \in Nodes :
         /\ DOMAIN net[m] \subseteq DOMAIN net'[m]
         /\ DOMAIN net'[m] \subseteq DOMAIN net[m] \cup {EchoOf(b)}
         /\ ~ Answered(b) => DOMAIN net'[m] = DOMAIN net[m]
  BY <1>12, <1>13
<1>15. Answered(b) => EchoOf(b) \in DOMAIN net'[n]
  BY <1>12, <1>13
<1>16. Circulates'
  <2>1. ASSUME NEW m \in Nodes, NEW response \in DOMAIN net'[m]
        PROVE  \E c \in created' : response = EchoOf(c.block) /\ Answered(c.block)
    <3>1. CASE response \in DOMAIN net[m]
      BY <1>1, <3>1 DEF IInv, Circulates
    <3>2. CASE response \notin DOMAIN net[m]
      BY <1>1, <1>3, <1>14, <3>2
    <3> QED BY <3>1, <3>2
  <2> QED BY <2>1 DEF Circulates, EchoOf, Answered
<1> QED BY <1>1, <1>2, <1>7, <1>8, <1>13, <1>14, <1>15, <1>16

\* A running node makes a block: create_block, and the last part of a write.
LEMMA RegisterKeeps ==
  ASSUME IInv, NEW n \in up, NEW data \in DirFiles \cup FileContentses, NEW asked,
         data.kind = "dir_file" => to_mode_t(data.stat.mode) = Reported(asked),
         Register(n, high_order_bits_[n], data, asked, net),
         UNCHANGED <<up, starts, freed_ids_, root_block_, seen, let_go>>
  PROVE  IInv'
<1> DEFINE high == high_order_bits_[n]
           b == [id |-> next_id(n, high), data |-> data]
           new == [block |-> b, node |-> n, start |-> starts'[n], asked |-> asked]
<1>1. /\ n \in Nodes /\ high \in Nat /\ 1 <= high /\ MaxHigh \in Nat
      /\ starts' = starts /\ starts \in [Nodes -> Nat] /\ starts[n] \in Nat
  BY DistributedBounds DEF IInv, Types, Ahead
<1>2. \A c \in created : c.node = n /\ c.start = starts'[n] => High(c.block) < high
  BY <1>1 DEF IInv, Made
<1>3. /\ created' = created \cup {new}
      /\ \A c \in created' : Made(c)'
      /\ IdsDistinct'
      /\ high_order_bits_' = [high_order_bits_ EXCEPT ![n] = high + 1]
      /\ high + 1 <= MaxHigh
      /\ DOMAIN net' = Nodes
      /\ \A m \in Nodes : IsABag(net'[m]) /\ DOMAIN net[m] \subseteq DOMAIN net'[m]
      /\ Circulates'
      /\ Answered(b) => EchoOf(b) \in DOMAIN net'[n]
  <2>1. starts' \in [Nodes -> Nat] /\ starts[n] <= starts'[n]
        /\ \A m \in Nodes : m # n => starts'[m] = starts[m]
    BY <1>1
  <2> QED BY <1>1, <1>2, <2>1, RegisterMakes
<1>4. new.block = b
  OBVIOUS
<1> HIDE DEF high, b, new
<1>5. Types'
  BY <1>1, <1>3 DEF IInv, Types
<1>6. Ahead'
  <2>1. ASSUME NEW m \in Nodes
        PROVE  /\ 1 <= high_order_bits_'[m] /\ high_order_bits_'[m] <= MaxHigh
               /\ seen'[m] \div 256 <= high_order_bits_'[m]
    <3>1. /\ seen' = seen /\ seen[m] \div 256 \in Nat
          /\ 1 <= high_order_bits_[m] /\ high_order_bits_[m] <= MaxHigh
          /\ seen[m] \div 256 <= high_order_bits_[m]
      BY IdFromParts DEF IInv, Types, Ahead
    <3>2. CASE m = n
      BY <1>1, <1>3, <3>1, <3>2 DEF IInv, Types, high
    <3>3. CASE m # n
      BY <1>3, <3>1, <3>3 DEF IInv, Types
    <3> QED BY <3>2, <3>3
  <2> QED BY <2>1 DEF Ahead
<1>7. \A m \in Nodes : Own(m) \subseteq Own(m)' /\ Own(m)' \subseteq Own(m) \cup {new}
  BY <1>1, <1>3 DEF Own
<1>8. Kept'
  <2>1. ASSUME NEW m \in up', NEW c \in Own(m)', c.block.id \notin let_go'[m],
               Answered(c.block)
        PROVE  EchoOf(c.block) \in DOMAIN net'[m]
    <3>1. m \in up /\ m \in Nodes /\ let_go' = let_go
      BY DEF IInv, Types
    <3>2. CASE c \in Own(m)
      BY <1>3, <2>1, <3>1, <3>2 DEF IInv, Kept
    <3>3. CASE c = new
      <4>1. m = n
        BY <2>1, <3>3 DEF Own, new
      <4> QED BY <1>3, <1>4, <2>1, <3>3, <4>1
    <3> QED BY <1>7, <3>1, <3>2, <3>3
  <2> QED BY <2>1 DEF Kept, EchoOf, Answered
<1>9. Rooted'
  BY <1>1, <1>7 DEF IInv, Types, Rooted
<1> QED BY <1>3, <1>5, <1>6, <1>8, <1>9 DEF IInv

\* The mode of a root made by make_root_block_data is reported as it is.
LEMMA RootModeReported ==
  /\ RootMode \in Modes
  /\ to_mode_t(RootMode) = Reported(to_mode_t(RootMode))
<1>1. RootMode \in Modes
  BY DEF RootMode, Modes, Rwe
<1>2. to_mode_t(RootMode) = {14, 8, 7, 6, 5, 3, 0}
  BY DEF to_mode_t, RootMode, type_to_mode, rwe_to_mode_t, S_IFDIR, R, W, X,
         User, Group, Other
<1>3. {14, 8, 7, 6, 5, 3, 0} \cap PermissionBits = {8, 7, 6, 5, 3, 0}
  BY DEF PermissionBits
<1>4. Reported({14, 8, 7, 6, 5, 3, 0}) = {14} \cup {8, 7, 6, 5, 3, 0}
  BY <1>3 DEF Reported, type_from_mode_t, type_to_mode, S_IFDIR
<1> QED BY <1>1, <1>2, <1>4

\* What create_block is given has the mode its caller asked for.
LEMMA NewDataReported ==
  ASSUME NEW new \in NewData
  PROVE  /\ new.data \in DirFiles \cup FileContentses
         /\ new.data.kind = "dir_file" =>
              to_mode_t(new.data.stat.mode) = Reported(new.asked)
<1>1. ASSUME NEW bits
      PROVE  /\ ModeOf(bits) \in Modes
             /\ to_mode_t(ModeOf(bits)) = Reported(bits)
  <2>1. ModeOf(bits) \in Modes
    BY ModeOfType
  <2> QED BY <2>1, ModeRead, ModeReported
<1>2. ASSUME NEW mode \in Modes, NEW size \in {0, 1}, NEW name \in {SEPARATOR, NAME}
      PROVE  /\ DirFile(name, Stat(mode, size)) \in DirFiles
             /\ DirFile(name, Stat(mode, size)).stat.mode = mode
  BY DEF DirFile, Stat, DirFiles, Stats
<1>3. CASE \E bits \in ModeBits :
             new = [data |-> DirFile(NAME, Stat(ModeOf(bits \cup {S_IFDIR}), 1)),
                    asked |-> bits \cup {S_IFDIR}]
  BY <1>1, <1>2, <1>3
<1>4. CASE \E bits \in ModeBits :
             new = [data |-> DirFile(NAME, Stat(ModeOf(bits \cup {S_IFREG}), 0)),
                    asked |-> bits \cup {S_IFREG}]
  BY <1>1, <1>2, <1>4
<1>5. CASE \E bytes \in Contents : new = [data |-> FileContents(bytes), asked |-> {}]
  BY <1>5 DEF FileContents, FileContentses
<1>6. CASE new = [data |-> RootData, asked |-> to_mode_t(RootMode)]
  BY <1>2, <1>6, RootModeReported DEF RootData
<1> QED BY <1>3, <1>4, <1>5, <1>6 DEF NewData

\* create_block by a running node.
LEMMA CreateKeeps ==
  ASSUME IInv, NEW n \in Nodes, create_block(n)
  PROVE  IInv'
<1>1. PICK new \in NewData : Register(n, high_order_bits_[n], new.data, new.asked, net)
  BY DEF create_block
<1>2. n \in up /\ UNCHANGED <<up, starts, freed_ids_, root_block_, seen, let_go>>
  BY DEF create_block
<1> QED BY <1>1, <1>2, NewDataReported, RegisterKeeps

\* write_file_starting_at_node: only the size changes.
LEMMA WriteKeeps ==
  ASSUME IInv, NEW n \in Nodes, write(n)
  PROVE  IInv'
<1>1. PICK d \in created :
        /\ d.block.data.kind = "dir_file"
        /\ Register(n, high_order_bits_[n],
                    [d.block.data EXCEPT !.stat = Resized(@, 1)], d.asked, net)
  BY DEF write
<1>2. n \in up /\ UNCHANGED <<up, starts, freed_ids_, root_block_, seen, let_go>>
  BY DEF write
<1> DEFINE data == [d.block.data EXCEPT !.stat = Resized(@, 1)]
<1>3. /\ d.block.data \in DirFiles
      /\ to_mode_t(d.block.data.stat.mode) = Reported(d.asked)
  BY <1>1 DEF IInv, Made, Blocks, FileContentses
<1>4. data \in DirFiles /\ data.stat.mode = d.block.data.stat.mode
  BY <1>3 DEF DirFiles, Stats, Resized
<1> HIDE DEF data
<1>5. Register(n, high_order_bits_[n], data, d.asked, net)
  BY <1>1 DEF data
<1> QED BY <1>2, <1>3, <1>4, <1>5, RegisterKeeps

\* A process starts: its only block is the root, whose id may be one of an
\* earlier start.
LEMMA StartKeeps ==
  ASSUME IInv, NEW n \in Nodes, Start(n)
  PROVE  IInv'
<1> DEFINE asked == to_mode_t(RootMode)
           b == [id |-> next_id(n, 1), data |-> RootData]
           new == [block |-> b, node |-> n, start |-> starts'[n], asked |-> asked]
<1>1. /\ starts \in [Nodes -> Nat] /\ starts' = [starts EXCEPT ![n] = @ + 1]
      /\ Register(n, 1, RootData, asked, net)
      /\ up' = up \cup {n} /\ n \notin up
      /\ root_block_' = [root_block_ EXCEPT ![n] = b]
      /\ freed_ids_' = [freed_ids_ EXCEPT ![n] = {}]
      /\ seen' = [seen EXCEPT ![n] = 0]
      /\ let_go' = [let_go EXCEPT ![n] = {}]
  BY DEF IInv, Types, Start
<1>2. /\ starts' \in [Nodes -> Nat] /\ starts[n] <= starts'[n]
      /\ \A m \in Nodes : m # n => starts'[m] = starts[m]
      /\ starts'[n] = starts[n] + 1
  BY <1>1
<1>3. \A c \in created : ~ (c.node = n /\ c.start = starts'[n])
  BY <1>2 DEF IInv, Made, Types
<1>4. /\ RootData \in DirFiles \cup FileContentses
      /\ RootData.kind = "dir_file" => to_mode_t(RootData.stat.mode) = Reported(asked)
  BY RootModeReported DEF RootData, DirFile, Stat, DirFiles, Stats
<1>5. /\ created' = created \cup {new}
      /\ \A c \in created' : Made(c)'
      /\ IdsDistinct'
      /\ high_order_bits_' = [high_order_bits_ EXCEPT ![n] = 1 + 1]
      /\ 1 + 1 <= MaxHigh
      /\ DOMAIN net' = Nodes
      /\ \A m \in Nodes : IsABag(net'[m]) /\ DOMAIN net[m] \subseteq DOMAIN net'[m]
      /\ Circulates'
      /\ Answered(b) => EchoOf(b) \in DOMAIN net'[n]
  <2> HIDE DEF asked
  <2>1. 1 \in Nat /\ 1 <= 1
    OBVIOUS
  <2> QED BY <1>1, <1>2, <1>3, <1>4, <2>1, RegisterMakes
<1>6. new.block = b /\ new.node = n /\ new.start = starts'[n]
  OBVIOUS
<1> HIDE DEF asked, b, new
<1>7. Types'
  BY <1>1, <1>2, <1>5 DEF IInv, Types
<1>8. Ahead'
  <2>1. ASSUME NEW m \in Nodes
        PROVE  /\ 1 <= high_order_bits_'[m] /\ high_order_bits_'[m] <= MaxHigh
               /\ seen'[m] \div 256 <= high_order_bits_'[m]
    <3>1. CASE m = n
      <4>1. high_order_bits_'[m] = 2 /\ seen'[m] = 0
        BY <1>1, <1>5, <3>1 DEF IInv, Types
      <4> QED BY <1>5, <4>1
    <3>2. CASE m # n
      BY <1>1, <1>5, <3>2 DEF IInv, Types, Ahead
    <3> QED BY <3>1, <3>2
  <2> QED BY <2>1 DEF Ahead
<1>9. Own(n)' = {new}
  BY <1>3, <1>5, <1>6 DEF Own
<1>10. \A m \in Nodes : m # n => Own(m)' = Own(m)
  BY <1>2, <1>5, <1>6 DEF Own
<1>11. Kept'
  <2>1. ASSUME NEW m \in up', NEW c \in Own(m)', c.block.id \notin let_go'[m],
               Answered(c.block)
        PROVE  EchoOf(c.block) \in DOMAIN net'[m]
    <3>1. CASE m = n
      BY <1>5, <1>6, <1>9, <2>1, <3>1
    <3>2. CASE m # n
      <4>1. m \in up /\ m \in Nodes /\ let_go'[m] = let_go[m]
        BY <1>1, <3>2 DEF IInv, Types
      <4> QED BY <1>5, <1>10, <2>1, <3>2, <4>1 DEF IInv, Kept
    <3> QED BY <3>1, <3>2
  <2> QED BY <2>1 DEF Kept, EchoOf, Answered
<1>12. Rooted'
  <2>1. ASSUME NEW m \in up'
        PROVE  /\ starts'[m] > 0
               /\ root_block_'[m].id \notin let_go'[m]
               /\ \E c \in Own(m)' : c.block = root_block_'[m]
    <3>1. CASE m = n
      BY <1>1, <1>2, <1>6, <1>9, <3>1 DEF IInv, Types
    <3>2. CASE m # n
      <4>1. m \in up /\ m \in Nodes /\ let_go'[m] = let_go[m]
            /\ root_block_'[m] = root_block_[m]
        BY <1>1, <3>2 DEF IInv, Types
      <4> QED BY <1>2, <1>10, <3>2, <4>1 DEF IInv, Rooted
    <3> QED BY <3>1, <3>2
  <2> QED BY <2>1 DEF Rooted
<1>13. \A m \in Nodes : freed_ids_'[m] \subseteq let_go'[m]
  BY <1>1 DEF IInv, Types
<1> QED BY <1>5, <1>7, <1>8, <1>11, <1>12, <1>13 DEF IInv

\* A crash leaves what circulates.
LEMMA CrashKeeps ==
  ASSUME IInv, NEW n \in Nodes, Crash(n)
  PROVE  IInv'
<1>1. up' \subseteq up
  BY DEF Crash
<1>2. UNCHANGED <<starts, high_order_bits_, freed_ids_, root_block_, net, created,
                  seen, let_go>>
  BY DEF Crash
<1>3. Kept' /\ Rooted'
  BY <1>1, <1>2 DEF IInv, Kept, Rooted, Own
<1>4. Types' /\ IdsDistinct' /\ Ahead' /\ Circulates'
  BY <1>1, <1>2 DEF IInv, Types, IdsDistinct, Ahead, Circulates
<1>5. (\A c \in created : Made(c))'
  BY <1>2 DEF IInv, Made
<1> QED BY <1>2, <1>3, <1>4, <1>5 DEF IInv

\* An echo is lost at a node that does not run.
LEMMA UnheardKeeps ==
  ASSUME IInv, NEW n \in Nodes, Unheard(n)
  PROVE  IInv'
<1>1. PICK response \in DOMAIN net[n] :
        net' = [net EXCEPT ![n] = @ (-) SetToBag({response})]
  BY DEF Unheard
<1>2. n \notin up /\ UNCHANGED <<up, starts, high_order_bits_, freed_ids_,
                                 root_block_, created, seen, let_go>>
  BY DEF Unheard
<1>3. /\ DOMAIN net' = Nodes
      /\ \A m \in Nodes : m # n => net'[m] = net[m]
      /\ net'[n] = net[n] (-) SetToBag({response})
  BY <1>1 DEF IInv, Types
<1>4. IsABag(net'[n]) /\ DOMAIN net'[n] \subseteq DOMAIN net[n]
  BY <1>3, BagRemove DEF IInv, Types
<1>5. Types'
  BY <1>2, <1>3, <1>4 DEF IInv, Types
<1>6. Circulates'
  BY <1>2, <1>3, <1>4 DEF IInv, Circulates
<1>7. Kept'
  BY <1>2, <1>3 DEF IInv, Types, Kept, Own
<1>8. Rooted' /\ IdsDistinct' /\ Ahead'
  BY <1>2 DEF IInv, Rooted, Own, IdsDistinct, Ahead
<1>9. (\A c \in created : Made(c))'
  BY <1>2 DEF IInv, Made
<1> QED BY <1>2, <1>5, <1>6, <1>7, <1>8, <1>9 DEF IInv

\* set_root_block: the new root is a block of the node, and its announcement is
\* one more echo of it.
LEMMA SetRootKeeps ==
  ASSUME IInv, NEW n \in Nodes, set_root_block(n)
  PROVE  IInv'
<1>1. PICK c \in Own(n), others \in Reached(n) :
        /\ c.block.id \notin let_go[n]
        /\ root_block_' = [root_block_ EXCEPT ![n] = c.block]
        /\ net' = SendTo(net, others, Spoofed(translate(c.block)))
  BY DEF set_root_block, send_to_additional_endpts
<1>2. UNCHANGED <<up, starts, high_order_bits_, freed_ids_, created, seen, let_go>>
  BY DEF set_root_block
<1>3. c \in created /\ c.block \in Blocks /\ Short(c.block)
  BY MadeShort DEF IInv, Own
<1>4. net' = SendTo(net, others, translate(c.block))
  BY <1>1, <1>3, EchoFields
<1>5. /\ DOMAIN net' = Nodes
      /\ \A m \in Nodes :
           /\ IsABag(net'[m]) /\ DOMAIN net[m] \subseteq DOMAIN net'[m]
           /\ DOMAIN net'[m] \subseteq DOMAIN net[m] \cup {EchoOf(c.block)}
           /\ ~ Answered(c.block) => DOMAIN net'[m] = DOMAIN net[m]
  BY <1>4, Sent DEF IInv, Types, EchoOf, Answered
<1>6. Types'
  BY <1>1, <1>2, <1>5 DEF IInv, Types
<1>7. Circulates'
  <2>1. ASSUME NEW m \in Nodes, NEW response \in DOMAIN net'[m]
        PROVE  \E d \in created' : response = EchoOf(d.block) /\ Answered(d.block)
    <3>1. CASE response \in DOMAIN net[m]
      BY <1>2, <3>1 DEF IInv, Circulates
    <3>2. CASE response \notin DOMAIN net[m]
      BY <1>2, <1>3, <1>5, <3>2
    <3> QED BY <3>1, <3>2
  <2> QED BY <2>1 DEF Circulates, EchoOf, Answered
<1>8. \A m : Own(m)' = Own(m)
  BY <1>2 DEF Own
<1>9. Kept'
  <2>1. ASSUME NEW m \in up', NEW d \in Own(m)', d.block.id \notin let_go'[m],
               Answered(d.block)
        PROVE  EchoOf(d.block) \in DOMAIN net'[m]
    BY <1>2, <1>5, <1>8, <2>1 DEF IInv, Types, Kept
  <2> QED BY <2>1 DEF Kept, EchoOf, Answered
<1>10. Rooted'
  BY <1>1, <1>2, <1>8 DEF IInv, Types, Rooted
<1>11. IdsDistinct' /\ Ahead'
  BY <1>2 DEF IInv, IdsDistinct, Ahead
<1>12. (\A d \in created : Made(d))'
  BY <1>2 DEF IInv, Made
<1> QED BY <1>2, <1>6, <1>7, <1>9, <1>10, <1>11, <1>12 DEF IInv

\* free_block lets go of a block that is not the root.
LEMMA FreeKeeps ==
  ASSUME IInv, NEW n \in Nodes, free_block(n)
  PROVE  IInv'
<1>1. PICK c \in Own(n) :
        /\ c.block.id # root_block_[n].id
        /\ freed_ids_' = [freed_ids_ EXCEPT ![n] = @ \cup {c.block.id}]
        /\ let_go' = [let_go EXCEPT ![n] = @ \cup {c.block.id}]
  BY DEF free_block
<1>2. UNCHANGED <<up, starts, high_order_bits_, root_block_, net, created, seen>>
  BY DEF free_block
<1>3. c.block.id \in Nat
  BY MadeShort DEF IInv, Own
<1>4. Types'
  BY <1>1, <1>2, <1>3 DEF IInv, Types
<1>5. \A m : Own(m)' = Own(m)
  BY <1>2 DEF Own
<1>6. \A m \in Nodes : let_go[m] \subseteq let_go'[m]
  BY <1>1 DEF IInv, Types
<1>7. Kept'
  <2>1. ASSUME NEW m \in up', NEW d \in Own(m)', d.block.id \notin let_go'[m],
               Answered(d.block)
        PROVE  EchoOf(d.block) \in DOMAIN net'[m]
    <3>1. m \in up /\ m \in Nodes /\ d \in Own(m) /\ d.block.id \notin let_go[m]
      BY <1>2, <1>5, <1>6, <2>1 DEF IInv, Types
    <3> QED BY <1>2, <2>1, <3>1 DEF IInv, Kept
  <2> QED BY <2>1 DEF Kept, EchoOf, Answered
<1>8. Rooted'
  BY <1>1, <1>2, <1>5 DEF IInv, Types, Rooted
<1>9. \A m \in Nodes : freed_ids_'[m] \subseteq let_go'[m]
  BY <1>1 DEF IInv, Types
<1>10. IdsDistinct' /\ Ahead' /\ Circulates'
  BY <1>2 DEF IInv, IdsDistinct, Ahead, Circulates
<1>11. (\A d \in created : Made(d))'
  BY <1>2 DEF IInv, Made
<1> QED BY <1>4, <1>7, <1>8, <1>9, <1>10, <1>11 DEF IInv

\* No block that arrives becomes the root.
LEMMA RootStays ==
  ASSUME NEW root, NEW block
  PROVE  RootAfter(root, block) = root
BY DEF RootAfter, is_root_block

\* The high order bits after update_if_less_than.
LEMMA Followed ==
  ASSUME NEW high \in Nat, NEW last \in Nat, NEW id \in Nat, last \div 256 <= high
  PROVE  LET after == update_if_less_than(high, id) IN
         /\ after \in Nat /\ high <= after
         /\ Max({last, id}) \in Nat /\ Max({last, id}) \div 256 <= after
<1>1. Max({last, id}) = IF last >= id THEN last ELSE id
  BY DEF Max
<1>2. id \div 256 \in Nat
  BY IdFromParts
<1>3. /\ update_if_less_than(high, id) \in Nat
      /\ high <= update_if_less_than(high, id)
      /\ id \div 256 <= update_if_less_than(high, id)
  BY <1>2 DEF update_if_less_than
<1>4. last \div 256 \in Nat
  BY IdFromParts
<1> QED BY <1>1, <1>2, <1>3, <1>4

\* A packet arrives and is sent on, dropped, or the death of its receiver.
LEMMA ProcessKeeps ==
  ASSUME IInv, NEW n \in Nodes, process(n)
  PROVE  IInv'
<1> DEFINE Dies(b) == n \in Subscribed /\ is_root_block(b.data) = "fault"
<1>1. PICK response \in DOMAIN net[n] :
        LET b == Parse(response.data_)
            rest == net[n] (-) SetToBag({response})
        IN /\ high_order_bits_' = [high_order_bits_ EXCEPT ![n] =
                IF n \in Subscribed THEN update_if_less_than(@, b.id) ELSE @]
           /\ high_order_bits_'[n] <= MaxHigh
           /\ root_block_' = [root_block_ EXCEPT ![n] =
                IF n \in Subscribed THEN RootAfter(@, b) ELSE @]
           /\ seen' = [seen EXCEPT ![n] =
                IF n \in Subscribed THEN Max({@, b.id}) ELSE @]
           /\ up' = IF Dies(b) THEN up \ {n} ELSE up
           /\ freed_ids_' = [freed_ids_ EXCEPT ![n] =
                IF Dies(b) THEN @ ELSE @ \ {b.id}]
           /\ net' = [net EXCEPT ![n] =
                IF Dies(b) \/ b.id \in freed_ids_[n] THEN rest
                ELSE rest (+) Echoed(Resend(response))]
  BY Zenon DEF process
<1>2. UNCHANGED <<starts, created, let_go>>
  BY DEF process
<1>3. PICK c \in created : response = EchoOf(c.block) /\ Answered(c.block)
  BY DEF IInv, Circulates
<1> DEFINE b == c.block
           rest == net[n] (-) SetToBag({response})
<1>4. /\ b \in Blocks /\ Short(b) /\ b.id \in Nat
      /\ Parse(response.data_) = b /\ Resend(response) = translate(b)
  BY <1>3, MadeShort, EchoFields DEF IInv
<1> HIDE DEF b, Dies
<1>5. /\ high_order_bits_' = [high_order_bits_ EXCEPT ![n] =
           IF n \in Subscribed THEN update_if_less_than(@, b.id) ELSE @]
      /\ high_order_bits_'[n] <= MaxHigh
      /\ seen' = [seen EXCEPT ![n] =
           IF n \in Subscribed THEN Max({@, b.id}) ELSE @]
  BY <1>1, <1>4, Zenon
<1>6. DOMAIN root_block_' = Nodes /\ \A m \in Nodes : root_block_'[m] = root_block_[m]
  BY <1>1, RootStays DEF IInv, Types
<1>7. /\ up' = IF Dies(b) THEN up \ {n} ELSE up
      /\ freed_ids_' = [freed_ids_ EXCEPT ![n] = IF Dies(b) THEN @ ELSE @ \ {b.id}]
      /\ net' = [net EXCEPT ![n] = IF Dies(b) \/ b.id \in freed_ids_[n] THEN rest
                                   ELSE rest (+) Echoed(translate(b))]
  BY <1>1, <1>4, Zenon
<1>8. /\ IsABag(rest) /\ DOMAIN rest \subseteq DOMAIN net[n]
      /\ DOMAIN net[n] \ {response} \subseteq DOMAIN rest
  BY BagRemove DEF IInv, Types
<1> HIDE DEF rest
<1>9. /\ IsABag(rest (+) Echoed(translate(b)))
      /\ DOMAIN (rest (+) Echoed(translate(b))) = DOMAIN rest \cup {response}
  <2>1. IsABag(Echoed(translate(b))) /\ DOMAIN Echoed(translate(b)) = {response}
    BY <1>3, EchoedBag DEF Answered, EchoOf, b
  <2> QED BY <1>8, <2>1, BagAdd
<1>10. /\ DOMAIN net' = Nodes /\ IsABag(net'[n])
       /\ \A m \in Nodes : m # n => net'[m] = net[m]
       /\ DOMAIN net'[n] \subseteq DOMAIN net[n]
       /\ DOMAIN net[n] \ {response} \subseteq DOMAIN net'[n]
       /\ ~ Dies(b) /\ b.id \notin freed_ids_[n] => response \in DOMAIN net'[n]
  <2>1. net'[n] = IF Dies(b) \/ b.id \in freed_ids_[n] THEN rest
                  ELSE rest (+) Echoed(translate(b))
    BY <1>7 DEF IInv, Types
  <2>2. DOMAIN net' = Nodes /\ \A m \in Nodes : m # n => net'[m] = net[m]
    BY <1>7 DEF IInv, Types
  <2> QED BY <1>8, <1>9, <2>1, <2>2
<1>11. \A m \in Nodes : /\ high_order_bits_'[m] \in Nat
                        /\ high_order_bits_[m] <= high_order_bits_'[m]
                        /\ high_order_bits_'[m] <= MaxHigh
                        /\ seen'[m] \in Nat
                        /\ seen'[m] \div 256 <= high_order_bits_'[m]
  <2>1. ASSUME NEW m \in Nodes
        PROVE  /\ high_order_bits_[m] \in Nat /\ seen[m] \in Nat
               /\ high_order_bits_[m] <= MaxHigh
               /\ seen[m] \div 256 <= high_order_bits_[m]
    BY DEF IInv, Types, Ahead
  <2>2. CASE n \in Subscribed
    <3>1. /\ high_order_bits_'[n] = update_if_less_than(high_order_bits_[n], b.id)
          /\ seen'[n] = Max({seen[n], b.id})
          /\ \A m \in Nodes : m # n => /\ high_order_bits_'[m] = high_order_bits_[m]
                                       /\ seen'[m] = seen[m]
      BY <1>5, <2>2 DEF IInv, Types
    <3>2. /\ update_if_less_than(high_order_bits_[n], b.id) \in Nat
          /\ high_order_bits_[n] <= update_if_less_than(high_order_bits_[n], b.id)
          /\ Max({seen[n], b.id}) \in Nat
          /\ Max({seen[n], b.id}) \div 256
               <= update_if_less_than(high_order_bits_[n], b.id)
      <4>1. /\ high_order_bits_[n] \in Nat /\ seen[n] \in Nat /\ b.id \in Nat
            /\ seen[n] \div 256 <= high_order_bits_[n]
        BY <1>4, <2>1
      <4> QED BY <4>1, Followed, Zenon
    <3>3. ASSUME NEW m \in Nodes
          PROVE  /\ high_order_bits_'[m] \in Nat
                 /\ high_order_bits_[m] <= high_order_bits_'[m]
                 /\ high_order_bits_'[m] <= MaxHigh
                 /\ seen'[m] \in Nat
                 /\ seen'[m] \div 256 <= high_order_bits_'[m]
      <4>1. CASE m = n
        <5>1. high_order_bits_'[m] <= MaxHigh
          BY <1>5, <4>1
        <5> QED BY <3>1, <3>2, <4>1, <5>1, Zenon
      <4>2. CASE m # n
        <5>1. high_order_bits_'[m] = high_order_bits_[m] /\ seen'[m] = seen[m]
          BY <3>1, <4>2
        <5>2. /\ high_order_bits_[m] \in Nat /\ seen[m] \in Nat
              /\ high_order_bits_[m] <= MaxHigh
              /\ seen[m] \div 256 <= high_order_bits_[m]
          BY <2>1
        <5>3. high_order_bits_[m] <= high_order_bits_[m]
          BY <5>2
        <5> QED BY <5>1, <5>2, <5>3, Zenon
      <4> QED BY <4>1, <4>2
    <3> QED BY <3>3, Zenon
  <2>3. CASE n \notin Subscribed
    <3>1. high_order_bits_' = high_order_bits_ /\ seen' = seen
      BY <1>5, <2>3 DEF IInv, Types
    <3> QED BY <2>1, <3>1
  <2> QED BY <2>2, <2>3
<1>12. DOMAIN high_order_bits_' = Nodes /\ DOMAIN seen' = Nodes
  BY <1>5 DEF IInv, Types
<1>13. Types'
  <2>1. /\ high_order_bits_' = [m \in Nodes |-> high_order_bits_'[m]]
        /\ seen' = [m \in Nodes |-> seen'[m]]
    BY <1>5, <1>12 DEF IInv, Types
  <2>2. high_order_bits_' \in [Nodes -> Nat] /\ seen' \in [Nodes -> Nat]
    BY <1>11, <2>1
  <2>3. up' \subseteq Nodes /\ freed_ids_' \in [Nodes -> SUBSET Nat]
    BY <1>7 DEF IInv, Types
  <2> QED BY <1>2, <1>6, <1>10, <2>2, <2>3 DEF IInv, Types
<1>14. Ahead'
  BY <1>11 DEF IInv, Types, Ahead
<1>15. (\A d \in created : Made(d))'
  <2>1. ASSUME NEW d \in created PROVE Made(d)'
    <3>1. Made(d) /\ High(d.block) \in Nat
      BY MadeShort DEF IInv
    <3>2. d.start = starts[d.node] => High(d.block) < high_order_bits_'[d.node]
      BY <1>11, <3>1 DEF Made, IInv, Types
    <3> QED BY <1>2, <3>1, <3>2 DEF Made
  <2> QED BY <1>2, <2>1
<1>16. IdsDistinct'
  BY <1>2 DEF IInv, IdsDistinct
<1>17. Circulates'
  BY <1>2, <1>10 DEF IInv, Circulates
<1>18. \A m : Own(m)' = Own(m)
  BY <1>2 DEF Own
<1>19. Kept'
  <2>1. ASSUME NEW m \in up', NEW d \in Own(m)', d.block.id \notin let_go'[m],
               Answered(d.block)
        PROVE  EchoOf(d.block) \in DOMAIN net'[m]
    <3>1. m \in up /\ m \in Nodes /\ d \in Own(m) /\ d.block.id \notin let_go[m]
      BY <1>2, <1>7, <1>18, <2>1 DEF IInv, Types
    <3>2. EchoOf(d.block) \in DOMAIN net[m]
      BY <2>1, <3>1 DEF IInv, Kept
    <3>3. CASE m # n \/ EchoOf(d.block) # response
      BY <1>10, <3>1, <3>2, <3>3
    <3>4. CASE m = n /\ EchoOf(d.block) = response
      <4>1. d.block = b
        <5>1. d \in created /\ d.block \in Blocks /\ Short(d.block)
          BY <3>1, MadeShort DEF IInv, Own
        <5> QED BY <1>4, <3>4, <5>1, EchoFields
      <4>2. ~ Dies(b)
        BY <1>7, <3>4, <2>1
      <4>3. b.id \notin freed_ids_[n]
        BY <3>1, <3>4, <4>1 DEF IInv
      <4> QED BY <1>10, <3>4, <4>2, <4>3
    <3> QED BY <3>3, <3>4
  <2> QED BY <2>1 DEF Kept, EchoOf, Answered
<1>20. Rooted'
  BY <1>2, <1>6, <1>7, <1>18 DEF IInv, Types, Rooted
<1>21. \A m \in Nodes : freed_ids_'[m] \subseteq let_go'[m]
  BY <1>2, <1>7 DEF IInv, Types
<1> QED BY <1>13, <1>14, <1>15, <1>16, <1>17, <1>19, <1>20, <1>21 DEF IInv

-----------------------------------------------------------------------------
(* The theorems *)

\* Nothing runs and nothing is under way.
LEMMA InvInit == Init => IInv
<1> SUFFICES ASSUME Init PROVE IInv
  OBVIOUS
<1>1. IsABag(EmptyBag) /\ DOMAIN EmptyBag = {}
  BY NothingSent
<1>2. Types
  BY <1>1 DEF Init, Types
<1>3. Ahead
  BY DistributedBounds DEF Init, Ahead
<1>4. Circulates /\ Kept /\ Rooted /\ IdsDistinct
  BY <1>1 DEF Init, Circulates, Kept, Rooted, IdsDistinct
<1> QED BY <1>2, <1>3, <1>4 DEF Init, IInv

\* Every step of every node keeps the invariant.
LEMMA InvNext == IInv /\ [Next]_vars => IInv'
<1> SUFFICES ASSUME IInv, [Next]_vars PROVE IInv'
  OBVIOUS
<1>1. ASSUME NEW n \in Nodes, Start(n) PROVE IInv'
  BY <1>1, StartKeeps
<1>2. ASSUME NEW n \in Nodes, Crash(n) PROVE IInv'
  BY <1>2, CrashKeeps
<1>3. ASSUME NEW n \in Nodes, Unheard(n) PROVE IInv'
  BY <1>3, UnheardKeeps
<1>4. ASSUME NEW n \in Nodes, create_block(n) PROVE IInv'
  BY <1>4, CreateKeeps
<1>5. ASSUME NEW n \in Nodes, write(n) PROVE IInv'
  BY <1>5, WriteKeeps
<1>6. ASSUME NEW n \in Nodes, set_root_block(n) PROVE IInv'
  BY <1>6, SetRootKeeps
<1>7. ASSUME NEW n \in Nodes, free_block(n) PROVE IInv'
  BY <1>7, FreeKeeps
<1>8. ASSUME NEW n \in Nodes, process(n) PROVE IInv'
  BY <1>8, ProcessKeeps
<1>9. CASE UNCHANGED vars
  <2>1. Types' /\ IdsDistinct' /\ Ahead' /\ Circulates'
    BY <1>9 DEF vars, IInv, Types, IdsDistinct, Ahead, Circulates
  <2>2. Kept' /\ Rooted'
    BY <1>9 DEF vars, IInv, Kept, Rooted, Own
  <2>3. (\A c \in created : Made(c))'
    BY <1>9 DEF vars, IInv, Made
  <2> QED BY <1>9, <2>1, <2>2, <2>3 DEF vars, IInv
<1> QED BY <1>1, <1>2, <1>3, <1>4, <1>5, <1>6, <1>7, <1>8, <1>9 DEF Next

\* The bounds of ids, and what a running node has.
THEOREM DistributedTypes == Spec => []TypeOK
<1>1. IInv => TypeOK
  <2> SUFFICES ASSUME IInv PROVE TypeOK
    OBVIOUS
  <2>1. up \subseteq {n \in Nodes : starts[n] > 0}
    BY DEF IInv, Types, Rooted
  <2>2. ASSUME NEW n \in Nodes
        PROVE  /\ high_order_bits_[n] \in 1 .. MaxHigh
               /\ freed_ids_[n] \subseteq let_go[n]
               /\ IsABag(net[n])
    BY DistributedBounds DEF IInv, Types, Ahead
  <2>3. ASSUME NEW n \in Nodes, n \in up
        PROVE  root_block_[n] # NoBlock /\ root_block_[n].id \notin let_go[n]
    <3>1. PICK c \in Own(n) : c.block = root_block_[n]
      BY <2>3 DEF IInv, Rooted
    <3>2. c.block.id > 0
      BY MadeShort DEF IInv, Own
    <3> QED BY <2>3, <3>1, <3>2 DEF IInv, Rooted, NoBlock
  <2> QED BY <2>1, <2>2, <2>3 DEF TypeOK
<1> QED BY <1>1, InvInit, InvNext, PTL DEF Spec

\* However often nodes start, crash and learn ids from each other, two blocks
\* have one id only if one node made them in two of its starts.
THEOREM IdsStayDistinct == Spec => []IdsDistinct
<1>1. IInv => IdsDistinct
  BY DEF IInv
<1> QED BY <1>1, InvInit, InvNext, PTL DEF Spec

\* UpdatingIdSupplier follows the ids a subscribed node has seen, but for those
\* with its own high order bits and higher low order ones.
THEOREM IdsFollowSeen == Spec => []IdsFollow
<1>1. IInv => IdsFollow
  <2> SUFFICES ASSUME IInv, NEW n \in Subscribed \cap up
               PROVE  \/ next_id(n, high_order_bits_[n]) > seen[n]
                      \/ /\ next_id(n, high_order_bits_[n]) \div 256 = seen[n] \div 256
                         /\ n <= seen[n] % 256
    BY DEF IdsFollow
  <2>1. /\ n \in Nodes /\ high_order_bits_[n] \in Nat /\ seen[n] \in Nat
        /\ seen[n] \div 256 <= high_order_bits_[n]
    BY DEF IInv, Types, Ahead
  <2>2. n \in Nat /\ n < 256
    BY <2>1, NodeNumber
  <2>3. /\ seen[n] = (seen[n] \div 256) * 256 + (seen[n] % 256)
        /\ seen[n] \div 256 \in Nat /\ seen[n] % 256 \in Nat /\ seen[n] % 256 < 256
    BY <2>1, IdFromParts
  <2>4. next_id(n, high_order_bits_[n]) \div 256 = high_order_bits_[n]
    BY <2>1, IdParts
  <2>5. next_id(n, high_order_bits_[n]) = high_order_bits_[n] * 256 + n
    BY DEF next_id
  <2> QED BY <2>1, <2>2, <2>3, <2>4, <2>5
<1> QED BY <1>1, InvInit, InvNext, PTL DEF Spec

\* A running node keeps what it made and did not free, but for the blocks whose
\* checksum needs a second carry: those are never answered.
THEOREM BlocksKept == Spec => []KeepsBlocks
<1>1. IInv => KeepsBlocks
  <2> SUFFICES ASSUME IInv, NEW n \in up, NEW c \in Own(n), c.block.id \notin let_go[n]
               PROVE  EchoResponse(translate(c.block)) \in DOMAIN net[n]
                        <=> ~ SecondCarry(Sum(FS_ID, SEQUENCE, Serialize(c.block)))
    BY DEF KeepsBlocks
  <2>1. n \in Nodes /\ c \in created /\ c.block \in Blocks /\ Short(c.block)
    BY MadeShort DEF IInv, Types, Own
  <2>2. Answered(c.block) => EchoOf(c.block) \in DOMAIN net[n]
    BY DEF IInv, Kept
  <2>3. ASSUME EchoOf(c.block) \in DOMAIN net[n] PROVE Answered(c.block)
    <3>1. PICK d \in created : EchoOf(c.block) = EchoOf(d.block) /\ Answered(d.block)
      BY <2>1, <2>3 DEF IInv, Circulates
    <3>2. d.block \in Blocks /\ Short(d.block)
      BY MadeShort DEF IInv
    <3>3. c.block = d.block
      BY <2>1, <3>1, <3>2, EchoFields
    <3> QED BY <3>1, <3>3
  <2> QED BY <2>1, <2>2, <2>3, AnsweredUnlessCarry DEF EchoOf
<1> QED BY <1>1, InvInit, InvNext, PTL DEF Spec

\* What arrives at a node is a block that was made, and an entry reports the
\* type and permissions its creator was asked for.
THEOREM BlocksArrive == Spec => []ArrivesAsMade
<1>1. IInv => ArrivesAsMade
  <2> SUFFICES ASSUME IInv, NEW n \in Nodes, NEW response \in DOMAIN net[n]
               PROVE  \E c \in created :
                        /\ c.block = Parse(response.data_)
                        /\ Parse(response.data_).data.kind = "dir_file" =>
                             update_stat(Parse(response.data_).data.stat).st_mode
                               = Reported(c.asked)
    BY DEF ArrivesAsMade
  <2>1. PICK c \in created : response = EchoOf(c.block)
    BY DEF IInv, Circulates
  <2>2. Made(c) /\ c.block \in Blocks /\ Short(c.block)
    BY MadeShort DEF IInv
  <2>3. Parse(response.data_) = c.block
    BY <2>1, <2>2, EchoFields
  <2> QED BY <2>2, <2>3 DEF Made, update_stat
<1> QED BY <1>1, InvInit, InvNext, PTL DEF Spec

=============================================================================
