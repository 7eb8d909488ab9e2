------------------------- MODULE PingReceiveProofs --------------------------
(***************************************************************************)
(* Proofs about PingReceive for any number of threads and any packets.     *)
(***************************************************************************)
EXTENDS PingReceive, DataProofs

-----------------------------------------------------------------------------
(* Types *)

Bytes == [packet : Packets, pos : Nat]
Jobs == [job : {"receive", "check", "notify"}, data : Seq(Bytes)]
States == [pc : {"idle", "rearm", "append", "post", "peek", "discard", "again"},
           data : Seq(Bytes)]

\* The types of the variables; a check goes on only with a packet that is all
\* there.
Types ==
  /\ arriving \subseteq Packets
  /\ armed \in BOOLEAN
  /\ reply_buffer_ \in Seq(Bytes)
  /\ data_buffer_ \in Seq(Bytes)
  /\ work \in Seq(Jobs)
  /\ thread \in [Threads -> States]
  /\ delivered \in Seq(Seq(Bytes))
  /\ \A t \in Threads : thread[t].pc = "discard" => Complete(thread[t].data)

\* The bytes of a packet.
LEMMA BytesOfPacket ==
  ASSUME NEW p \in Packets
  PROVE  /\ BytesOf(p) \in Seq(Bytes)
         /\ Len(BytesOf(p)) = p.size /\ p.size \in Nat /\ p.size >= 1
         /\ DOMAIN BytesOf(p) = 1 .. p.size
         /\ \A i \in 1 .. p.size : BytesOf(p)[i] = [packet |-> p, pos |-> i]
         /\ BytesOf(p) # <<>> /\ Head(BytesOf(p)) = [packet |-> p, pos |-> 1]
<1>1. p.size \in Nat /\ p.size >= 1
  BY PacketsAssumption, MinSizeAssumption
<1>2. BytesOf(p) \in [1 .. p.size -> Bytes]
  BY <1>1 DEF BytesOf, Bytes
<1>3. BytesOf(p) \in Seq(Bytes) /\ Len(BytesOf(p)) = p.size
  BY <1>1, <1>2
<1>4. \A i \in 1 .. p.size : BytesOf(p)[i] = [packet |-> p, pos |-> i]
  BY DEF BytesOf
<1>5. DOMAIN BytesOf(p) = 1 .. p.size
  BY DEF BytesOf
<1>6. BytesOf(p) # <<>> /\ Head(BytesOf(p)) = BytesOf(p)[1]
  BY <1>1, <1>3
<1>7. BytesOf(p)[1] = [packet |-> p, pos |-> 1]
  BY <1>1, <1>4
<1> QED BY <1>1, <1>3, <1>4, <1>5, <1>6, <1>7

\* A complete packet starts with a byte, whose packet has a size.
LEMMA CompleteLength ==
  ASSUME NEW copy \in Seq(Bytes), Complete(copy)
  PROVE  /\ get_length(copy) \in Nat /\ get_length(copy) >= 1
         /\ get_length(copy) <= Len(copy)
         /\ copy # <<>> /\ Head(copy) = copy[1] /\ copy[1] \in Bytes
         /\ get_length(copy) = copy[1].packet.size
<1>1. Len(copy) \in Nat /\ Len(copy) >= 1
  BY MinSizeAssumption DEF Complete
<1>2. copy # <<>> /\ Head(copy) = copy[1] /\ copy[1] \in Bytes
  BY <1>1
<1>3. copy[1].packet \in Packets
  BY <1>2 DEF Bytes
<1>4. copy[1].packet.size \in Nat /\ copy[1].packet.size >= 1
  BY <1>3, PacketsAssumption, MinSizeAssumption
<1> QED BY <1>1, <1>2, <1>4 DEF Complete, get_length

\* The packet that a check cuts off.
LEMMA CutPacket ==
  ASSUME NEW copy \in Seq(Bytes), Complete(copy)
  PROVE  LET packet == SubSeq(copy, 1, get_length(copy)) IN
         /\ packet \in Seq(Bytes) /\ Len(packet) = get_length(copy)
         /\ packet # <<>> /\ Head(packet) = copy[1]
         /\ \A i \in 1 .. get_length(copy) : packet[i] = copy[i]
<1> DEFINE n == get_length(copy)
           packet == SubSeq(copy, 1, n)
<1>1. n \in Nat /\ n >= 1 /\ n <= Len(copy)
  BY CompleteLength
<1> HIDE DEF n
<1>2. /\ packet \in Seq(Bytes) /\ Len(packet) = n
      /\ \A i \in 1 .. n : packet[i] = copy[i]
  <2>1. 1 \in Nat /\ 1 <= 1
    OBVIOUS
  <2>2. /\ packet \in Seq(Bytes) /\ Len(packet) = n - 1 + 1
        /\ \A i \in 1 .. n - 1 + 1 : packet[i] = copy[1 + i - 1]
    BY <1>1, <2>1, PartAt
  <2> HIDE DEF packet
  <2> QED BY <1>1, <2>2
<1> HIDE DEF packet
<1>3. packet # <<>> /\ Head(packet) = packet[1]
  BY <1>1, <1>2
<1>4. packet[1] = copy[1]
  BY <1>1, <1>2
<1> QED BY <1>2, <1>3, <1>4 DEF packet, n

-----------------------------------------------------------------------------
(* One handler *)

\* At most one handler is set, queued or running, and one is.
Handler ==
  /\ armed => /\ \A i \in DOMAIN work : work[i].job # "receive"
              /\ \A t \in Threads : thread[t].pc # "rearm"
  /\ \A i, j \in DOMAIN work :
       work[i].job = "receive" /\ work[j].job = "receive" => i = j
  /\ \A t, u \in Threads : thread[t].pc = "rearm" /\ thread[u].pc = "rearm" => t = u
  /\ \A i \in DOMAIN work, t \in Threads :
       ~ (work[i].job = "receive" /\ thread[t].pc = "rearm")
  /\ \/ armed
     \/ \E i \in DOMAIN work : work[i].job = "receive"
     \/ \E t \in Threads : thread[t].pc = "rearm"

\* A function other than the completion handler is posted.
LEMMA PostHandler ==
  ASSUME Types, Handler, NEW j \in Jobs, j.job # "receive",
         work' = Append(work, j), armed' = armed,
         \A t \in Threads : thread'[t].pc = "rearm" <=> thread[t].pc = "rearm"
  PROVE  work' \in Seq(Jobs) /\ Handler'
<1>1. /\ work' \in Seq(Jobs) /\ Len(work) \in Nat
      /\ DOMAIN work = 1 .. Len(work) /\ DOMAIN work' = 1 .. Len(work) + 1
      /\ \A i \in 1 .. Len(work) : work'[i] = work[i]
      /\ work'[Len(work) + 1] = j
  BY AppendAt DEF Types
<1>2. \A i \in DOMAIN work' :
        work'[i].job = "receive" => i \in DOMAIN work /\ work[i].job = "receive"
  BY <1>1
<1>3. \A i \in DOMAIN work : i \in DOMAIN work' /\ work'[i] = work[i]
  BY <1>1
<1> QED BY <1>1, <1>2, <1>3 DEF Handler

\* A function other than the completion handler is taken from the queue.
LEMMA TakeHandler ==
  ASSUME Types, Handler, work # <<>>, Head(work).job # "receive",
         work' = Tail(work), armed' = armed,
         \A t \in Threads : thread'[t].pc = "rearm" <=> thread[t].pc = "rearm"
  PROVE  work' \in Seq(Jobs) /\ Handler'
<1>1. /\ work' \in Seq(Jobs) /\ Len(work) \in Nat /\ Len(work) >= 1
      /\ DOMAIN work = 1 .. Len(work) /\ DOMAIN work' = 1 .. Len(work) - 1
      /\ \A i \in 1 .. Len(work) - 1 : work'[i] = work[i + 1]
      /\ Head(work) = work[1]
  BY TailAt DEF Types
<1>2. \A i \in DOMAIN work' :
        i + 1 \in DOMAIN work /\ work'[i] = work[i + 1] /\ i \in Int
  BY <1>1
<1>3. \A i \in DOMAIN work :
        work[i].job = "receive" =>
          i - 1 \in DOMAIN work' /\ work'[i - 1].job = "receive"
  BY <1>1
<1>4. ASSUME NEW i \in DOMAIN work', NEW k \in DOMAIN work',
             work'[i].job = "receive", work'[k].job = "receive"
      PROVE  i = k
  <2>1. i + 1 = k + 1
    BY <1>2, <1>4 DEF Handler
  <2> QED BY <1>2, <2>1
<1>5. armed' => /\ \A i \in DOMAIN work' : work'[i].job # "receive"
                /\ \A t \in Threads : thread'[t].pc # "rearm"
  BY <1>2 DEF Handler
<1>6. \A i \in DOMAIN work', t \in Threads :
        ~ (work'[i].job = "receive" /\ thread'[t].pc = "rearm")
  BY <1>2 DEF Handler
<1>7. \/ armed'
      \/ \E i \in DOMAIN work' : work'[i].job = "receive"
      \/ \E t \in Threads : thread'[t].pc = "rearm"
  BY <1>3 DEF Handler
<1> QED BY <1>1, <1>4, <1>5, <1>6, <1>7 DEF Handler

\* Nothing about handlers changes.
LEMMA SameHandler ==
  ASSUME Handler, work' = work, armed' = armed,
         \A t \in Threads : thread'[t].pc = "rearm" <=> thread[t].pc = "rearm"
  PROVE  Handler'
BY DEF Handler

\* asio completes async_receive.
LEMMA ReceiveHandler ==
  ASSUME Types, Handler, NEW p \in Packets, receive(p)
  PROVE  Types' /\ Handler'
<1>1. Job("receive", <<>>) \in Jobs /\ Job("receive", <<>>).job = "receive"
  BY DEF Job, Jobs
<1>2. /\ work' \in Seq(Jobs) /\ Len(work) \in Nat
      /\ DOMAIN work = 1 .. Len(work) /\ DOMAIN work' = 1 .. Len(work) + 1
      /\ \A i \in 1 .. Len(work) : work'[i] = work[i]
      /\ work'[Len(work) + 1] = Job("receive", <<>>)
  BY <1>1, AppendAt DEF Types, receive
<1>3. reply_buffer_' \in Seq(Bytes)
  <2>1. Min({p.size, BufferSize}) \in Nat /\ Min({p.size, BufferSize}) <= p.size
    BY BytesOfPacket, MinSizeAssumption DEF Min
  <2>2. 1 \in Nat /\ 1 <= 1
    OBVIOUS
  <2> QED BY <2>1, <2>2, BytesOfPacket, PartAt DEF receive
<1>4. Types'
  BY <1>2, <1>3 DEF Types, receive
<1>5. Handler'
  BY <1>1, <1>2 DEF Handler, receive
<1> QED BY <1>4, <1>5

\* The completion handler copies the bytes.
LEMMA HandleHandler ==
  ASSUME Types, Handler, NEW t \in Threads, handle_receive(t)
  PROVE  Types' /\ Handler'
<1>1. /\ work' \in Seq(Jobs) /\ Len(work) \in Nat /\ Len(work) >= 1
      /\ DOMAIN work = 1 .. Len(work) /\ DOMAIN work' = 1 .. Len(work) - 1
      /\ \A i \in 1 .. Len(work) - 1 : work'[i] = work[i + 1]
      /\ work[1].job = "receive"
  BY TailAt DEF Types, handle_receive, Run
<1>2. thread' = [thread EXCEPT ![t] = At("rearm", reply_buffer_)]
      /\ thread' \in [Threads -> States]
      /\ \A u \in Threads : thread'[u] = IF u = t THEN At("rearm", reply_buffer_)
                                         ELSE thread[u]
  BY DEF handle_receive, Types, At, States
<1>3. Types'
  BY <1>1, <1>2 DEF Types, handle_receive, At
<1>4. \A u \in Threads : thread'[u].pc = "rearm" <=> u = t
  BY <1>1, <1>2 DEF Handler, At
<1>5. \A i \in DOMAIN work' : work'[i].job # "receive"
  <2>1. ASSUME NEW i \in DOMAIN work', work'[i].job = "receive" PROVE FALSE
    <3>1. i + 1 \in DOMAIN work /\ work[i + 1].job = "receive" /\ i \in Int /\ i >= 1
      BY <1>1, <2>1
    <3>2. i + 1 = 1
      BY <1>1, <3>1 DEF Handler
    <3> QED BY <3>1, <3>2
  <2> QED BY <2>1
<1>6. ~ armed'
  BY <1>1 DEF Handler, handle_receive
<1> QED BY <1>3, <1>4, <1>5, <1>6 DEF Handler

\* The next async_receive is started.
LEMMA SetHandler ==
  ASSUME Types, Handler, NEW t \in Threads, set_handler(t)
  PROVE  Types' /\ Handler'
<1>1. /\ thread' \in [Threads -> States]
      /\ \A u \in Threads : u # t => thread'[u] = thread[u]
      /\ thread'[t].pc = "append" /\ thread[t].pc = "rearm"
  BY DEF Types, set_handler, States
<1>2. Types'
  BY <1>1 DEF Types, set_handler
<1>3. armed' /\ work' = work
  BY DEF set_handler
<1> QED BY <1>1, <1>2, <1>3 DEF Handler

\* A step of a thread that leaves the queue and the handlers alone.
LEMMA ThreadHandler ==
  ASSUME Types, Handler, NEW t \in Threads, NEW s \in States,
         thread' = [thread EXCEPT ![t] = s],
         thread[t].pc # "rearm", s.pc # "rearm",
         s.pc = "discard" => Complete(s.data)
  PROVE  /\ thread' \in [Threads -> States]
         /\ \A u \in Threads : thread'[u].pc = "rearm" <=> thread[u].pc = "rearm"
         /\ \A u \in Threads : thread'[u].pc = "discard" => Complete(thread'[u].data)
<1>1. /\ thread' \in [Threads -> States]
      /\ \A u \in Threads : thread'[u] = IF u = t THEN s ELSE thread[u]
  BY DEF Types
<1> QED BY <1>1 DEF Types

LEMMA AppendHandler ==
  ASSUME Types, Handler, NEW t \in Threads, append(t)
  PROVE  Types' /\ Handler'
<1>1. At("post", <<>>) \in States /\ At("post", <<>>).pc = "post"
  BY DEF At, States
<1>2. thread[t].data \in Seq(Bytes)
  BY DEF Types, States
<1>3. data_buffer_' \in Seq(Bytes)
  BY <1>2, ConcatAt DEF append, Types
<1>4. /\ thread' \in [Threads -> States]
      /\ \A u \in Threads : thread'[u].pc = "rearm" <=> thread[u].pc = "rearm"
      /\ \A u \in Threads : thread'[u].pc = "discard" => Complete(thread'[u].data)
  BY <1>1, ThreadHandler DEF append
<1>5. Types'
  BY <1>3, <1>4 DEF Types, append
<1>6. Handler'
  BY <1>4, SameHandler DEF append
<1> QED BY <1>5, <1>6

LEMMA PostCheckHandler ==
  ASSUME Types, Handler, NEW t \in Threads, post_check(t)
  PROVE  Types' /\ Handler'
<1>1. Idle \in States /\ Idle.pc = "idle"
  BY DEF Idle, States
<1>2. Job("check", <<>>) \in Jobs /\ Job("check", <<>>).job = "check"
  BY DEF Job, Jobs
<1>3. /\ thread' \in [Threads -> States]
      /\ \A u \in Threads : thread'[u].pc = "rearm" <=> thread[u].pc = "rearm"
      /\ \A u \in Threads : thread'[u].pc = "discard" => Complete(thread'[u].data)
  BY <1>1, ThreadHandler DEF post_check
<1>4. work' \in Seq(Jobs) /\ Handler'
  BY <1>2, <1>3, PostHandler DEF post_check
<1>5. Types'
  BY <1>3, <1>4 DEF Types, post_check
<1> QED BY <1>4, <1>5

LEMMA CheckHandler ==
  ASSUME Types, Handler, NEW t \in Threads, internal_check_notify(t)
  PROVE  Types' /\ Handler'
<1>1. At("peek", <<>>) \in States /\ At("peek", <<>>).pc = "peek"
  BY DEF At, States
<1>2. /\ thread[t].pc # "rearm" /\ work # <<>> /\ Head(work).job # "receive"
      /\ work' = Tail(work) /\ armed' = armed
  BY DEF internal_check_notify, Run, Idle
<1>3. /\ thread' \in [Threads -> States]
      /\ \A u \in Threads : thread'[u].pc = "rearm" <=> thread[u].pc = "rearm"
      /\ \A u \in Threads : thread'[u].pc = "discard" => Complete(thread'[u].data)
  BY <1>1, <1>2, ThreadHandler DEF internal_check_notify
<1>4. work' \in Seq(Jobs) /\ Handler'
  BY <1>2, <1>3, TakeHandler
<1>5. Types'
  BY <1>3, <1>4 DEF Types, internal_check_notify
<1> QED BY <1>4, <1>5

LEMMA PeekHandler ==
  ASSUME Types, Handler, NEW t \in Threads, peek(t)
  PROVE  Types' /\ Handler'
<1> DEFINE s == IF Complete(data_buffer_) THEN At("discard", data_buffer_) ELSE Idle
<1>1. /\ s \in States /\ s.pc # "rearm"
      /\ s.pc = "discard" => Complete(s.data)
  BY DEF At, Idle, States, Types
<1>2. thread' = [thread EXCEPT ![t] = s] /\ thread[t].pc # "rearm"
  BY DEF peek
<1> HIDE DEF s
<1>3. /\ thread' \in [Threads -> States]
      /\ \A u \in Threads : thread'[u].pc = "rearm" <=> thread[u].pc = "rearm"
      /\ \A u \in Threads : thread'[u].pc = "discard" => Complete(thread'[u].data)
  BY <1>1, <1>2, ThreadHandler
<1>4. Types'
  BY <1>3 DEF Types, peek
<1>5. Handler'
  BY <1>3, SameHandler DEF peek
<1> QED BY <1>4, <1>5

LEMMA DiscardHandler ==
  ASSUME Types, Handler, NEW t \in Threads, discard(t)
  PROVE  Types' /\ Handler'
<1> DEFINE copy == thread[t].data
           packet == SubSeq(copy, 1, get_length(copy))
<1>1. copy \in Seq(Bytes) /\ Complete(copy)
  BY DEF Types, States, discard
<1>2. packet \in Seq(Bytes)
  BY <1>1, CutPacket
<1>3. get_length(copy) \in Nat /\ Len(data_buffer_) \in Nat
  BY <1>1, CompleteLength DEF Types
<1>4. data_buffer_' \in Seq(Bytes)
  <2>1. get_length(copy) + 1 \in Nat /\ 1 <= get_length(copy) + 1
    BY <1>3
  <2>2. data_buffer_' = SubSeq(data_buffer_, get_length(copy) + 1, Len(data_buffer_))
    BY DEF discard
  <2>3. data_buffer_ \in Seq(Bytes) /\ Len(data_buffer_) <= Len(data_buffer_)
    BY <1>3 DEF Types
  <2> QED BY <1>3, <2>1, <2>2, <2>3, PartAt
<1>5. At("again", <<>>) \in States /\ At("again", <<>>).pc = "again"
  BY DEF At, States
<1>6. Job("notify", packet) \in Jobs /\ Job("notify", packet).job = "notify"
  BY <1>2 DEF Job, Jobs
<1>7. /\ thread' = [thread EXCEPT ![t] = At("again", <<>>)] /\ thread[t].pc # "rearm"
      /\ armed' = armed
      /\ work' = Append(work, Job("notify", packet)) \/ work' = work
  BY DEF discard
<1> HIDE DEF packet
<1>8. /\ thread' \in [Threads -> States]
      /\ \A u \in Threads : thread'[u].pc = "rearm" <=> thread[u].pc = "rearm"
      /\ \A u \in Threads : thread'[u].pc = "discard" => Complete(thread'[u].data)
  BY <1>5, <1>7, ThreadHandler
<1>9. work' \in Seq(Jobs) /\ Handler'
  <2>1. CASE work' = work
    BY <1>7, <1>8, <2>1, SameHandler DEF Types
  <2>2. CASE work' = Append(work, Job("notify", packet))
    BY <1>6, <1>7, <1>8, <2>2, PostHandler
  <2> QED BY <1>7, <2>1, <2>2
<1>10. Types'
  BY <1>4, <1>8, <1>9 DEF Types, discard
<1> QED BY <1>9, <1>10

LEMMA LoopHandler ==
  ASSUME Types, Handler, NEW t \in Threads, loop(t)
  PROVE  Types' /\ Handler'
<1> DEFINE s == IF data_buffer_ = <<>> THEN Idle ELSE At("peek", <<>>)
<1>1. s \in States /\ s.pc # "rearm" /\ s.pc # "discard"
  BY DEF At, Idle, States
<1>2. thread' = [thread EXCEPT ![t] = s] /\ thread[t].pc # "rearm"
  BY DEF loop
<1> HIDE DEF s
<1>3. /\ thread' \in [Threads -> States]
      /\ \A u \in Threads : thread'[u].pc = "rearm" <=> thread[u].pc = "rearm"
      /\ \A u \in Threads : thread'[u].pc = "discard" => Complete(thread'[u].data)
  BY <1>1, <1>2, ThreadHandler
<1>4. Types'
  BY <1>3 DEF Types, loop
<1>5. Handler'
  BY <1>3, SameHandler DEF loop
<1> QED BY <1>4, <1>5

LEMMA NotifyHandler ==
  ASSUME Types, Handler, NEW t \in Threads, notify(t)
  PROVE  Types' /\ Handler'
<1>1. /\ work # <<>> /\ Head(work).job # "receive"
      /\ work' = Tail(work) /\ armed' = armed /\ thread' = thread
  BY DEF notify, Run
<1>2. work' \in Seq(Jobs) /\ Handler'
  BY <1>1, TakeHandler
<1>3. Head(work) \in Jobs
  BY <1>1, TailAt DEF Types
<1>4. delivered' \in Seq(Seq(Bytes))
  <2>1. Head(work).data \in Seq(Bytes)
    BY <1>3 DEF Jobs
  <2> QED BY <2>1, AppendAt DEF notify, Types
<1>5. Types'
  BY <1>2, <1>4 DEF Types, notify
<1> QED BY <1>2, <1>5

\* Every step keeps the types, and that there is one handler.
LEMMA NextHandler ==
  ASSUME Types, Handler, [Next]_vars
  PROVE  Types' /\ Handler'
<1>1. CASE UNCHANGED vars
  BY <1>1 DEF vars, Types, Handler
<1>2. CASE \E p \in Packets : receive(p)
  BY <1>2, ReceiveHandler
<1>3. ASSUME NEW t \in Threads, Step(t) PROVE Types' /\ Handler'
  BY <1>3, HandleHandler, SetHandler, AppendHandler, PostCheckHandler,
     CheckHandler, PeekHandler, DiscardHandler, LoopHandler, NotifyHandler
  DEF Step
<1> QED BY <1>1, <1>2, <1>3 DEF Next

LEMMA InitHandler == Init => Types /\ Handler
<1> SUFFICES ASSUME Init PROVE Types /\ Handler
  OBVIOUS
<1>1. Idle \in States /\ Idle.pc = "idle"
  BY DEF Idle, States
<1>2. Types
  BY <1>1 DEF Init, Types
<1>3. Handler
  BY <1>1 DEF Init, Handler
<1> QED BY <1>2, <1>3

LEMMA TypesAndHandler == Spec => [](Types /\ Handler)
BY InitHandler, NextHandler, PTL DEF Spec

\* Ping has exactly one handler set, queued or about to be set again, however
\* many threads run io_service and whatever the packets' sizes: reply_buffer_
\* is not overwritten before it is copied, and receiving never stops.
THEOREM HandlerStaysOne == Spec => []OneHandler
<1>1. Types /\ Handler => OneHandler
  <2> SUFFICES ASSUME Types, Handler PROVE OneHandler
    OBVIOUS
  <2> DEFINE Set == {<<"set", x>> : x \in {armed} \cap {TRUE}}
             Queue == {i \in DOMAIN work : work[i].job = "receive"}
             Queued == {<<"queued", i>> : i \in Queue}
             Runners == {u \in Threads : thread[u].pc = "rearm"}
             Running == {<<"running", u>> : u \in Runners}
             Handlers == Set \cup Queued \cup Running
  <2>1. /\ \A h \in Set : armed /\ h = <<"set", TRUE>>
        /\ armed => <<"set", TRUE>> \in Set
    <3>1. armed \in BOOLEAN
      BY DEF Types
    <3>2. CASE armed = TRUE
      BY <3>2, Zenon
    <3>3. CASE armed = FALSE
      BY <3>3, Zenon
    <3> QED BY <3>1, <3>2, <3>3, Zenon
  <2>2. /\ armed => Queue = {} /\ Runners = {}
        /\ \A i, j \in Queue : i = j
        /\ \A u, v \in Runners : u = v
        /\ Queue = {} \/ Runners = {}
        /\ armed \/ Queue # {} \/ Runners # {}
    BY DEF Handler
  <2> HIDE DEF Set, Queue, Runners
  <2>3. Handlers # {}
    BY <2>1, <2>2
  <2>4. \A h, g \in Handlers : h = g
    BY <2>1, <2>2
  <2> QED BY <2>3, <2>4 DEF OneHandler, Set, Queue, Runners
<1> QED BY <1>1, TypesAndHandler, PTL

-----------------------------------------------------------------------------
(* Whole packets *)

\* No packet is longer than reply_buffer_.
Fits == \A p \in Packets : p.size <= BufferSize

\* What handlers and posted functions carry are whole packets; only echo
\* replies are posted and published.
Carried ==
  /\ \A i \in DOMAIN work :
       work[i].job = "receive" => \E p \in Packets : reply_buffer_ = BytesOf(p)
  /\ \A t \in Threads :
       thread[t].pc \in {"rearm", "append"} =>
         \E p \in Packets : thread[t].data = BytesOf(p)
  /\ \A i \in DOMAIN work :
       work[i].job = "notify" =>
         \E p \in Packets : p.reply /\ work[i].data = BytesOf(p)
  /\ \A i \in DOMAIN delivered :
       \E p \in Packets : p.reply /\ delivered[i] = BytesOf(p)

\* A check about to cut a packet off holds data_buffer_read_mutex_, and the
\* buffer still starts with its copy.
Cutting ==
  \A t \in Threads :
    thread[t].pc = "discard" =>
      /\ read_mutex = {t}
      /\ Len(thread[t].data) <= Len(data_buffer_)
      /\ \A i \in 1 .. Len(thread[t].data) : thread[t].data[i] = data_buffer_[i]

\* Around every byte of data_buffer_ is all of its packet.
Around ==
  \A i \in DOMAIN data_buffer_ :
    LET b == data_buffer_[i] IN
    /\ b.pos \in 1 .. b.packet.size
    /\ \A k \in 1 .. b.packet.size :
         /\ i - b.pos + k \in DOMAIN data_buffer_
         /\ data_buffer_[i - b.pos + k] = [packet |-> b.packet, pos |-> k]

Whole == Carried /\ Cutting /\ Around

\* asio completes async_receive: no other packet waits in reply_buffer_.
LEMMA ReceiveWhole ==
  ASSUME Fits, Types, Handler, Whole, NEW p \in Packets, receive(p)
  PROVE  Whole' /\ reply_buffer_' = BytesOf(p)
<1>1. reply_buffer_' = BytesOf(p)
  <2>1. /\ BytesOf(p) \in Seq(Bytes) /\ Len(BytesOf(p)) = p.size /\ p.size \in Nat
    BY BytesOfPacket
  <2>2. Min({p.size, BufferSize}) = p.size
    BY <2>1, MinSizeAssumption DEF Fits, Min
  <2>3. SubSeq(BytesOf(p), 1, p.size) = BytesOf(p)
    BY <2>1
  <2> QED BY <2>2, <2>3 DEF receive
<1>2. Job("receive", <<>>) \in Jobs /\ Job("receive", <<>>).job = "receive"
  BY DEF Job, Jobs
<1>3. /\ Len(work) \in Nat
      /\ DOMAIN work = 1 .. Len(work) /\ DOMAIN work' = 1 .. Len(work) + 1
      /\ \A i \in 1 .. Len(work) : work'[i] = work[i]
      /\ work'[Len(work) + 1] = Job("receive", <<>>)
  BY <1>2, AppendAt DEF Types, receive
<1>4. \A i \in DOMAIN work' :
        work'[i].job # "receive" => i \in DOMAIN work /\ work'[i] = work[i]
  BY <1>2, <1>3
<1>5. Carried'
  <2>1. thread' = thread /\ delivered' = delivered
    BY DEF receive
  <2>2. /\ \A t \in Threads :
             thread'[t].pc \in {"rearm", "append"} =>
               \E q \in Packets : thread'[t].data = BytesOf(q)
        /\ \A i \in DOMAIN delivered' :
             \E q \in Packets : q.reply /\ delivered'[i] = BytesOf(q)
    BY <2>1, Zenon DEF Whole, Carried
  <2>3. \E q \in Packets : reply_buffer_' = BytesOf(q)
    BY <1>1
  <2>4. ASSUME NEW i \in DOMAIN work', work'[i].job = "notify"
        PROVE  \E q \in Packets : q.reply /\ work'[i].data = BytesOf(q)
    <3>1. i \in DOMAIN work /\ work'[i] = work[i] /\ work[i].job = "notify"
      BY <1>4, <2>4
    <3> QED BY <3>1, Zenon DEF Whole, Carried
  <2> QED BY <2>2, <2>3, <2>4, Zenon DEF Carried
<1>6. Cutting' /\ Around'
  BY DEF Whole, Cutting, Around, receive
<1> QED BY <1>1, <1>5, <1>6 DEF Whole

\* What is taken from the queue or left in it was in it.
LEMMA TakeWork ==
  ASSUME Types, work # <<>>, work' = Tail(work)
  PROVE  /\ Len(work) \in Nat /\ Len(work) >= 1 /\ 1 \in DOMAIN work
         /\ DOMAIN work = 1 .. Len(work) /\ DOMAIN work' = 1 .. Len(work) - 1
         /\ Head(work) = work[1]
         /\ \A i \in DOMAIN work' :
              i \in Nat \ {0} /\ i + 1 \in DOMAIN work /\ work'[i] = work[i + 1]
         /\ \A i \in DOMAIN work :
              i \in Nat /\ (i # 1 => i - 1 \in DOMAIN work' /\ work'[i - 1] = work[i])
<1>1. /\ Len(work) \in Nat /\ Len(work) >= 1
      /\ DOMAIN work = 1 .. Len(work) /\ DOMAIN work' = 1 .. Len(work) - 1
      /\ \A i \in 1 .. Len(work) - 1 : work'[i] = work[i + 1]
      /\ Head(work) = work[1]
  BY TailAt DEF Types
<1> QED BY <1>1

LEMMA HandleWhole ==
  ASSUME Types, Handler, Whole, NEW t \in Threads, handle_receive(t)
  PROVE  Whole'
<1>1. /\ work # <<>> /\ work' = Tail(work) /\ Head(work).job = "receive"
      /\ thread' = [thread EXCEPT ![t] = At("rearm", reply_buffer_)]
  BY DEF handle_receive, Run
<1>2. /\ 1 \in DOMAIN work /\ work[1].job = "receive"
      /\ \A i \in DOMAIN work' : i + 1 \in DOMAIN work /\ work'[i] = work[i + 1]
  BY <1>1, TakeWork
<1>3. \A u \in Threads : thread'[u] = IF u = t THEN At("rearm", reply_buffer_)
                                      ELSE thread[u]
  BY <1>1 DEF Types
<1>4. \E p \in Packets : reply_buffer_ = BytesOf(p)
  BY <1>2 DEF Whole, Carried
<1>5. At("rearm", reply_buffer_).pc = "rearm" /\ At("rearm", reply_buffer_).data = reply_buffer_
  BY DEF At
<1>6. Carried'
  BY <1>2, <1>3, <1>4, <1>5 DEF Whole, Carried, handle_receive
<1>7. Cutting' /\ Around'
  BY <1>3, <1>5 DEF Whole, Cutting, Around, handle_receive
<1> QED BY <1>6, <1>7 DEF Whole

LEMMA SetWhole ==
  ASSUME Types, Handler, Whole, NEW t \in Threads, set_handler(t)
  PROVE  Whole'
<1>1. /\ \A u \in Threads : u # t => thread'[u] = thread[u]
      /\ thread'[t].pc = "append" /\ thread'[t].data = thread[t].data
      /\ thread[t].pc = "rearm"
  BY DEF Types, set_handler, States
<1>2. Carried'
  BY <1>1 DEF Whole, Carried, set_handler
<1>3. Cutting' /\ Around'
  BY <1>1 DEF Whole, Cutting, Around, set_handler
<1> QED BY <1>2, <1>3 DEF Whole

\* The packet appended is whole, and a copy taken before is still in front.
LEMMA AppendWhole ==
  ASSUME Types, Handler, Whole, NEW t \in Threads, append(t)
  PROVE  Whole'
<1>1. PICK p \in Packets : thread[t].data = BytesOf(p)
  BY DEF Whole, Carried, append
<1> DEFINE L == Len(data_buffer_)
<1>2. /\ BytesOf(p) \in Seq(Bytes) /\ Len(BytesOf(p)) = p.size /\ p.size \in Nat
      /\ \A i \in 1 .. p.size : BytesOf(p)[i] = [packet |-> p, pos |-> i]
  BY BytesOfPacket
<1>3. data_buffer_ \in Seq(Bytes) /\ data_buffer_' = data_buffer_ \o BytesOf(p)
  BY <1>1 DEF Types, append
<1>4. /\ data_buffer_' \in Seq(Bytes) /\ Len(data_buffer_') = L + p.size /\ L \in Nat
      /\ \A i \in 1 .. L : data_buffer_'[i] = data_buffer_[i]
      /\ \A i \in 1 .. p.size : data_buffer_'[L + i] = BytesOf(p)[i]
  BY <1>2, <1>3, ConcatAt
<1>5. /\ DOMAIN data_buffer_' = 1 .. L + p.size /\ DOMAIN data_buffer_ = 1 .. L
      /\ \A i \in 1 .. p.size : data_buffer_'[L + i] = [packet |-> p, pos |-> i]
  BY <1>2, <1>3, <1>4
<1> HIDE DEF L
<1>6. \A u \in Threads : thread'[u] = IF u = t THEN At("post", <<>>) ELSE thread[u]
  BY DEF Types, append
<1>7. At("post", <<>>).pc = "post"
  BY DEF At
<1>8. Carried'
  BY <1>6, <1>7 DEF Whole, Carried, append
<1>9. Cutting'
  <2> SUFFICES ASSUME NEW u \in Threads, thread'[u].pc = "discard"
               PROVE  /\ read_mutex' = {u}
                      /\ Len(thread'[u].data) <= Len(data_buffer_')
                      /\ \A i \in 1 .. Len(thread'[u].data) :
                           thread'[u].data[i] = data_buffer_'[i]
    BY DEF Cutting
  <2>1. thread'[u] = thread[u] /\ thread[u].data \in Seq(Bytes)
    BY <1>6, <1>7 DEF Types, States
  <2>2. /\ read_mutex = {u} /\ Len(thread[u].data) <= L
        /\ \A i \in 1 .. Len(thread[u].data) : thread[u].data[i] = data_buffer_[i]
    BY <2>1 DEF Whole, Cutting, L
  <2>3. Len(thread[u].data) \in Nat
    BY <2>1
  <2>4. L \in Nat /\ p.size \in Nat /\ Len(data_buffer_') = L + p.size
    BY <1>2, <1>4
  <2>5. Len(thread[u].data) <= Len(data_buffer_')
    BY <2>2, <2>3, <2>4
  <2>6. \A i \in 1 .. Len(thread[u].data) : i \in 1 .. L
    BY <2>2, <2>3, <2>4
  <2>7. \A i \in 1 .. Len(thread[u].data) : thread[u].data[i] = data_buffer_'[i]
    BY <1>4, <2>2, <2>6
  <2> QED BY <2>1, <2>2, <2>5, <2>7 DEF append
<1>10. Around'
  <2> SUFFICES ASSUME NEW i \in DOMAIN data_buffer_'
               PROVE  LET b == data_buffer_'[i] IN
                      /\ b.pos \in 1 .. b.packet.size
                      /\ \A k \in 1 .. b.packet.size :
                           /\ i - b.pos + k \in DOMAIN data_buffer_'
                           /\ data_buffer_'[i - b.pos + k] = [packet |-> b.packet, pos |-> k]
    BY DEF Around
  <2>1. CASE i \in 1 .. L
    <3> DEFINE b == data_buffer_[i]
    <3>1. b = data_buffer_'[i] /\ b \in Bytes
      BY <1>3, <1>4, <1>5, <2>1
    <3>2. /\ b.pos \in 1 .. b.packet.size
          /\ \A k \in 1 .. b.packet.size :
               /\ i - b.pos + k \in 1 .. L
               /\ data_buffer_[i - b.pos + k] = [packet |-> b.packet, pos |-> k]
      BY <1>5, <2>1 DEF Whole, Around
    <3>3. \A k \in 1 .. L : k \in DOMAIN data_buffer_' /\ data_buffer_'[k] = data_buffer_[k]
      BY <1>2, <1>4, <1>5
    <3> HIDE DEF b
    <3> QED BY <3>1, <3>2, <3>3
  <2>2. CASE i \notin 1 .. L
    <3>1. PICK j \in 1 .. p.size : i = L + j /\ i - j = L
      <4>1. L \in Nat /\ p.size \in Nat /\ i \in 1 .. L + p.size
        BY <1>2, <1>4, <1>5
      <4>2. i - L \in 1 .. p.size /\ i = L + (i - L) /\ i - (i - L) = L
        BY <4>1, <2>2
      <4> QED BY <4>2
    <3>2. data_buffer_'[i] = [packet |-> p, pos |-> j]
      BY <1>5, <3>1
    <3>3. \A k \in 1 .. p.size : L + k \in DOMAIN data_buffer_'
      <4>1. L \in Nat /\ p.size \in Nat
        BY <1>2, <1>4
      <4>2. \A k \in 1 .. p.size : L + k \in 1 .. L + p.size
        BY <4>1
      <4> QED BY <1>5, <4>2
    <3>4. \A k \in 1 .. p.size :
            /\ i - j + k \in DOMAIN data_buffer_'
            /\ data_buffer_'[i - j + k] = [packet |-> p, pos |-> k]
      BY <1>5, <3>1, <3>3
    <3> QED BY <3>2, <3>4
  <2> QED BY <2>1, <2>2
<1> QED BY <1>8, <1>9, <1>10 DEF Whole

LEMMA PostCheckWhole ==
  ASSUME Types, Handler, Whole, NEW t \in Threads, post_check(t)
  PROVE  Whole'
<1>1. Job("check", <<>>) \in Jobs /\ Job("check", <<>>).job = "check"
  BY DEF Job, Jobs
<1>2. /\ Len(work) \in Nat
      /\ DOMAIN work = 1 .. Len(work) /\ DOMAIN work' = 1 .. Len(work) + 1
      /\ \A i \in 1 .. Len(work) : work'[i] = work[i]
      /\ work'[Len(work) + 1] = Job("check", <<>>)
  BY <1>1, AppendAt DEF Types, post_check
<1>3. \A i \in DOMAIN work' :
        work'[i].job # "check" => i \in DOMAIN work /\ work'[i] = work[i]
  BY <1>1, <1>2
<1>4. \A u \in Threads : thread'[u] = IF u = t THEN Idle ELSE thread[u]
  BY DEF Types, post_check
<1>5. Idle.pc = "idle"
  BY DEF Idle
<1>6. Carried'
  BY <1>3, <1>4, <1>5 DEF Whole, Carried, post_check
<1>7. Cutting' /\ Around'
  BY <1>4, <1>5 DEF Whole, Cutting, Around, post_check
<1> QED BY <1>6, <1>7 DEF Whole

LEMMA CheckWhole ==
  ASSUME Types, Handler, Whole, NEW t \in Threads, internal_check_notify(t)
  PROVE  Whole'
<1>1. work # <<>> /\ work' = Tail(work)
  BY DEF internal_check_notify, Run
<1>2. \A i \in DOMAIN work' : i + 1 \in DOMAIN work /\ work'[i] = work[i + 1]
  BY <1>1, TakeWork
<1>3. \A u \in Threads : thread'[u] = IF u = t THEN At("peek", <<>>) ELSE thread[u]
  BY DEF Types, internal_check_notify
<1>4. At("peek", <<>>).pc = "peek"
  BY DEF At
<1>5. Carried'
  BY <1>2, <1>3, <1>4 DEF Whole, Carried, internal_check_notify
<1>6. Cutting' /\ Around'
  BY <1>3, <1>4 DEF Whole, Cutting, Around, internal_check_notify
<1> QED BY <1>5, <1>6 DEF Whole

\* data_buffer_read_mutex_ was free, so no other check is about to cut.
LEMMA PeekWhole ==
  ASSUME Types, Handler, Whole, NEW t \in Threads, peek(t)
  PROVE  Whole'
<1> DEFINE s == IF Complete(data_buffer_) THEN At("discard", data_buffer_) ELSE Idle
<1>1. \A u \in Threads : thread'[u] = IF u = t THEN s ELSE thread[u]
  BY DEF Types, peek
<1>2. /\ s.pc \in {"discard", "idle"}
      /\ s.pc = "discard" => s.data = data_buffer_ /\ read_mutex' = {t}
  BY DEF At, Idle, peek
<1> HIDE DEF s
<1>3. \A u \in Threads : thread[u].pc # "discard"
  BY DEF Whole, Cutting, peek
<1>4. Len(data_buffer_) \in Nat
  BY DEF Types
<1>5. Carried' /\ Around'
  BY <1>1, <1>2 DEF Whole, Carried, Around, peek
<1>6. Cutting'
  BY <1>1, <1>2, <1>3, <1>4 DEF Cutting, peek
<1> QED BY <1>5, <1>6 DEF Whole

LEMMA LoopWhole ==
  ASSUME Types, Handler, Whole, NEW t \in Threads, loop(t)
  PROVE  Whole'
<1> DEFINE s == IF data_buffer_ = <<>> THEN Idle ELSE At("peek", <<>>)
<1>1. \A u \in Threads : thread'[u] = IF u = t THEN s ELSE thread[u]
  BY DEF Types, loop
<1>2. s.pc \in {"idle", "peek"}
  BY DEF At, Idle
<1> HIDE DEF s
<1> QED BY <1>1, <1>2 DEF Whole, Carried, Cutting, Around, loop

LEMMA NotifyWhole ==
  ASSUME Types, Handler, Whole, NEW t \in Threads, notify(t)
  PROVE  Whole'
<1>1. work # <<>> /\ work' = Tail(work) /\ Head(work).job = "notify"
  BY DEF notify, Run
<1>2. /\ 1 \in DOMAIN work /\ Head(work) = work[1]
      /\ \A i \in DOMAIN work' : i + 1 \in DOMAIN work /\ work'[i] = work[i + 1]
  BY <1>1, TakeWork
<1>3. \E p \in Packets : p.reply /\ Head(work).data = BytesOf(p)
  BY <1>1, <1>2 DEF Whole, Carried
<1>4. Head(work).data \in Seq(Bytes)
  <2>1. Head(work) \in Jobs
    BY <1>1, TailAt DEF Types
  <2> QED BY <2>1 DEF Jobs
<1>5. /\ Len(delivered) \in Nat
      /\ DOMAIN delivered = 1 .. Len(delivered)
      /\ DOMAIN delivered' = 1 .. Len(delivered) + 1
      /\ \A i \in 1 .. Len(delivered) : delivered'[i] = delivered[i]
      /\ delivered'[Len(delivered) + 1] = Head(work).data
  BY <1>4, AppendAt DEF Types, notify
<1>6. \A i \in DOMAIN delivered' : \E p \in Packets : p.reply /\ delivered'[i] = BytesOf(p)
  BY <1>3, <1>5 DEF Whole, Carried
<1>7. Carried'
  BY <1>2, <1>6 DEF Whole, Carried, notify
<1>8. Cutting' /\ Around'
  BY DEF Whole, Cutting, Around, notify
<1> QED BY <1>7, <1>8 DEF Whole

\* The check that cuts: its copy starts with a whole packet, which is still in
\* front of the buffer.
LEMMA CutIsPacket ==
  ASSUME Types, Whole, NEW t \in Threads, discard(t)
  PROVE  LET copy == thread[t].data
             p == copy[1].packet
         IN /\ p \in Packets /\ get_length(copy) = p.size
            /\ SubSeq(copy, 1, get_length(copy)) = BytesOf(p)
            /\ p.size \in Nat /\ 1 <= p.size /\ p.size <= Len(data_buffer_)
            /\ \A i \in 1 .. p.size : data_buffer_[i] = [packet |-> p, pos |-> i]
<1> DEFINE copy == thread[t].data
           p == copy[1].packet
           n == p.size
           cut == SubSeq(copy, 1, get_length(copy))
<1>1. copy \in Seq(Bytes) /\ Complete(copy) /\ data_buffer_ \in Seq(Bytes)
  BY DEF Types, States, discard
<1>2. /\ get_length(copy) \in Nat /\ get_length(copy) >= 1
      /\ get_length(copy) <= Len(copy) /\ copy[1] \in Bytes
      /\ get_length(copy) = n
  BY <1>1, CompleteLength
<1>3. p \in Packets
  BY <1>2 DEF Bytes
<1>4. /\ cut \in Seq(Bytes) /\ Len(cut) = n
      /\ \A i \in 1 .. n : cut[i] = copy[i]
  <2> HIDE DEF copy, p, n
  <2>1. /\ cut \in Seq(Bytes) /\ Len(cut) = get_length(copy)
        /\ \A i \in 1 .. get_length(copy) : cut[i] = copy[i]
    BY <1>1, <1>2, CutPacket, Zenon DEF cut
  <2>2. get_length(copy) = n
    BY <1>2
  <2> HIDE DEF cut
  <2> QED BY <2>1, <2>2
<1>5. /\ Len(copy) <= Len(data_buffer_)
      /\ \A i \in 1 .. Len(copy) : copy[i] = data_buffer_[i]
  <2>1. thread[t].pc = "discard"
    BY DEF discard
  <2>2. Cutting
    BY DEF Whole
  <2>3. /\ Len(thread[t].data) <= Len(data_buffer_)
        /\ \A i \in 1 .. Len(thread[t].data) : thread[t].data[i] = data_buffer_[i]
    BY <2>1, <2>2, Zenon DEF Cutting
  <2> QED BY <2>3, Zenon
<1>6. Len(copy) \in Nat /\ Len(data_buffer_) \in Nat
  BY <1>1
<1>7. DOMAIN data_buffer_ = 1 .. Len(data_buffer_)
  BY <1>1
<1> HIDE DEF cut, n
<1>8. 1 \in DOMAIN data_buffer_ /\ data_buffer_[1] = copy[1]
  BY <1>2, <1>5, <1>6, <1>7
<1>9. /\ copy[1].pos \in 1 .. n
      /\ \A k \in 1 .. n : /\ 1 - copy[1].pos + k \in DOMAIN data_buffer_
                           /\ data_buffer_[1 - copy[1].pos + k] = [packet |-> p, pos |-> k]
  BY <1>8 DEF Whole, Around, n
<1>10. copy[1].pos = 1
  <2>1. 1 \in 1 .. n /\ copy[1].pos \in Nat /\ copy[1].pos >= 1
    BY <1>2, <1>9
  <2>2. 1 - copy[1].pos + 1 \in 1 .. Len(data_buffer_)
    BY <1>7, <1>9, <2>1
  <2> QED BY <2>1, <2>2, <1>6
<1>11. \A k \in 1 .. n : data_buffer_[k] = [packet |-> p, pos |-> k]
  <2> SUFFICES ASSUME NEW k \in 1 .. n PROVE data_buffer_[k] = [packet |-> p, pos |-> k]
    OBVIOUS
  <2>1. 1 - 1 + k = k
    BY <1>2
  <2> QED BY <1>9, <1>10, <2>1
<1>12. n \in Nat /\ 1 <= n /\ n <= Len(data_buffer_) /\ n <= Len(copy)
  BY <1>2, <1>5, <1>6
<1>13. \A k \in 1 .. n : cut[k] = BytesOf(p)[k]
  <2> SUFFICES ASSUME NEW k \in 1 .. n PROVE cut[k] = BytesOf(p)[k]
    OBVIOUS
  <2>1. k \in 1 .. Len(copy)
    BY <1>6, <1>12
  <2>2. cut[k] = [packet |-> p, pos |-> k]
    BY <1>4, <1>5, <1>11, <2>1
  <2> QED BY <1>3, <2>2, BytesOfPacket DEF n
<1>14. BytesOf(p) \in Seq(Bytes) /\ Len(BytesOf(p)) = n
  BY <1>3, BytesOfPacket DEF n
<1>15. cut = BytesOf(p)
  BY <1>4, <1>13, <1>14
<1> QED BY <1>2, <1>3, <1>11, <1>12, <1>15 DEF cut, n

\* No byte behind the packet cut off belongs to it.
LEMMA DiscardAround ==
  ASSUME Types, Whole, NEW t \in Threads, discard(t)
  PROVE  Around'
<1> DEFINE copy == thread[t].data
           p == copy[1].packet
           n == p.size
           L == Len(data_buffer_)
<1>1. /\ p \in Packets /\ get_length(copy) = n
      /\ n \in Nat /\ 1 <= n /\ n <= L
      /\ \A i \in 1 .. n : data_buffer_[i] = [packet |-> p, pos |-> i]
  BY CutIsPacket
<1>2. L \in Nat /\ DOMAIN data_buffer_ = 1 .. L /\ data_buffer_ \in Seq(Bytes)
  BY DEF Types
<1>3. data_buffer_' = SubSeq(data_buffer_, n + 1, L)
  BY <1>1 DEF discard
<1> HIDE DEF n, L
<1>4. /\ DOMAIN data_buffer_' = 1 .. L - n
      /\ \A i \in 1 .. L - n : data_buffer_'[i] = data_buffer_[n + i]
  <2>1. n + 1 \in Nat /\ 1 <= n + 1 /\ L <= Len(data_buffer_)
    BY <1>1, <1>2 DEF L
  <2>2. /\ DOMAIN data_buffer_' = 1 .. L - (n + 1) + 1
        /\ \A i \in 1 .. L - (n + 1) + 1 : data_buffer_'[i] = data_buffer_[n + 1 + i - 1]
    BY <1>2, <1>3, <2>1, PartAt
  <2>3. L - (n + 1) + 1 = L - n
    BY <1>1, <1>2
  <2>4. \A i \in 1 .. L - n : n + 1 + i - 1 = n + i
    BY <1>1, <1>2
  <2> QED BY <2>2, <2>3, <2>4
<1> SUFFICES ASSUME NEW i \in DOMAIN data_buffer_'
             PROVE  LET b == data_buffer_'[i] IN
                    /\ b.pos \in 1 .. b.packet.size
                    /\ \A k \in 1 .. b.packet.size :
                         /\ i - b.pos + k \in DOMAIN data_buffer_'
                         /\ data_buffer_'[i - b.pos + k] = [packet |-> b.packet, pos |-> k]
  BY DEF Around
<1>5. i \in 1 .. L - n
  BY <1>4
<1>6. PICK j \in 1 .. L : j = n + i /\ i \in Nat /\ i >= 1
  BY <1>1, <1>2, <1>5
<1> DEFINE b == data_buffer_[j]
           q == b.packet
           m == q.size
           start == j - b.pos
<1>7. b \in Bytes /\ data_buffer_'[i] = b
  BY <1>2, <1>4, <1>5, <1>6
<1>8. /\ b.pos \in 1 .. m
      /\ \A k \in 1 .. m : start + k \in 1 .. L
                           /\ data_buffer_[start + k] = [packet |-> q, pos |-> k]
  BY <1>2 DEF Whole, Around
<1>9. m \in Nat /\ b.pos \in Nat /\ start \in Int
  <2>1. m \in Nat /\ b.pos \in Nat
    BY <1>7, PacketsAssumption DEF Bytes
  <2> QED BY <1>1, <1>6, <2>1
<1>10. i - b.pos = start - n
  BY <1>1, <1>6, <1>9
<1>11. b.pos >= 1 /\ b.pos <= m /\ start + b.pos = n + i
  BY <1>1, <1>6, <1>8, <1>9
<1> HIDE DEF q, m, start
<1>12. ASSUME NEW k \in 1 .. m PROVE start + k > n
  <2> SUFFICES ASSUME start + k <= n PROVE FALSE
    BY <1>1, <1>9
  <2>1. start + k \in 1 .. n
    <3>1. start + k \in 1 .. L
      BY <1>8
    <3> QED BY <1>1, <1>2, <3>1
  <2>2. [packet |-> q, pos |-> k] = [packet |-> p, pos |-> start + k]
    BY <1>1, <1>8, <2>1
  <2>3. q = p /\ k = start + k
    <3>1. [packet |-> q, pos |-> k].packet = [packet |-> p, pos |-> start + k].packet
      BY <2>2
    <3>2. [packet |-> q, pos |-> k].pos = [packet |-> p, pos |-> start + k].pos
      BY <2>2
    <3> QED BY <3>1, <3>2
  <2>4. m = n
    BY <2>3 DEF m, n
  <2>5. start = 0
    BY <1>9, <2>3
  <2> QED BY <1>1, <1>6, <1>9, <1>11, <2>4, <2>5
<1>13. ASSUME NEW k \in 1 .. m
       PROVE  /\ start - n + k \in 1 .. L - n
              /\ data_buffer_'[start - n + k] = [packet |-> q, pos |-> k]
  <2>1. start + k \in 1 .. L /\ start + k > n
    BY <1>8, <1>12
  <2>2. start - n + k \in 1 .. L - n /\ n + (start - n + k) = start + k
    BY <1>1, <1>2, <1>9, <2>1
  <2> QED BY <1>4, <1>8, <2>2
<1> QED BY <1>4, <1>7, <1>8, <1>10, <1>13 DEF q, m

LEMMA DiscardWhole ==
  ASSUME Types, Handler, Whole, NEW t \in Threads, discard(t)
  PROVE  Whole'
<1> DEFINE copy == thread[t].data
           p == copy[1].packet
           cut == SubSeq(copy, 1, get_length(copy))
<1>1. p \in Packets /\ cut = BytesOf(p)
  BY CutIsPacket
<1>2. cut \in Seq(Bytes) /\ Head(cut).packet = p
  <2>1. BytesOf(p) \in Seq(Bytes) /\ Head(BytesOf(p)) = [packet |-> p, pos |-> 1]
    BY <1>1, BytesOfPacket
  <2>2. [packet |-> p, pos |-> 1].packet = p
    OBVIOUS
  <2> HIDE DEF p, cut
  <2> QED BY <1>1, <2>1, <2>2
<1>3. work' = IF p.reply THEN Append(work, Job("notify", cut)) ELSE work
  BY <1>2 DEF discard
<1> HIDE DEF cut, p
<1>4. /\ Job("notify", cut) \in Jobs
      /\ Job("notify", cut).job = "notify" /\ Job("notify", cut).data = cut
  BY <1>2 DEF Job, Jobs
<1>5. \A i \in DOMAIN work' :
        \/ i \in DOMAIN work /\ work'[i] = work[i]
        \/ p.reply /\ work'[i] = Job("notify", cut)
  <2>1. CASE p.reply
    <3>1. /\ Len(work) \in Nat
          /\ DOMAIN work = 1 .. Len(work) /\ DOMAIN work' = 1 .. Len(work) + 1
          /\ \A i \in 1 .. Len(work) : work'[i] = work[i]
          /\ work'[Len(work) + 1] = Job("notify", cut)
      BY <1>3, <1>4, <2>1, AppendAt DEF Types
    <3> QED BY <2>1, <3>1
  <2>2. CASE ~ p.reply
    BY <1>3, <2>2
  <2> QED BY <2>1, <2>2
<1>6. \A u \in Threads : thread'[u] = IF u = t THEN At("again", <<>>) ELSE thread[u]
  BY DEF Types, discard
<1>7. At("again", <<>>).pc = "again"
  BY DEF At
<1>8. Carried'
  <2>1. \A i \in DOMAIN work' :
          work'[i].job = "receive" => \E q \in Packets : reply_buffer_ = BytesOf(q)
    BY <1>4, <1>5 DEF Whole, Carried
  <2>2. \A i \in DOMAIN work' :
          work'[i].job = "notify" => \E q \in Packets : q.reply /\ work'[i].data = BytesOf(q)
    BY <1>1, <1>4, <1>5 DEF Whole, Carried
  <2> QED BY <1>6, <1>7, <2>1, <2>2 DEF Whole, Carried, discard
<1>9. \A u \in Threads : thread'[u].pc # "discard"
  <2>1. \A u \in Threads : thread[u].pc = "discard" => u = t
    BY DEF Whole, Cutting, discard
  <2> QED BY <1>6, <1>7, <2>1
<1>10. Cutting'
  BY <1>9 DEF Cutting
<1>11. Around'
  BY DiscardAround
<1> QED BY <1>8, <1>10, <1>11 DEF Whole

LEMMA NextWhole ==
  ASSUME Fits, Types, Handler, Whole, [Next]_vars
  PROVE  Whole'
<1>1. CASE UNCHANGED vars
  BY <1>1 DEF vars, Whole, Carried, Cutting, Around
<1>2. CASE \E p \in Packets : receive(p)
  BY <1>2, ReceiveWhole
<1>3. ASSUME NEW t \in Threads, Step(t) PROVE Whole'
  BY <1>3, HandleWhole, SetWhole, AppendWhole, PostCheckWhole,
     CheckWhole, PeekWhole, DiscardWhole, LoopWhole, NotifyWhole
  DEF Step
<1> QED BY <1>1, <1>2, <1>3 DEF Next

LEMMA InitWhole == Init => Whole
BY DEF Init, Whole, Carried, Cutting, Around, Idle

\* The bytes before and after a byte are those of its packet.
LEMMA AroundFramed ==
  ASSUME Types, Around
  PROVE  Framed
<1> SUFFICES ASSUME NEW i \in DOMAIN data_buffer_
             PROVE  LET b == data_buffer_[i] IN
                    /\ b.pos = 1 \/ (i > 1 /\ data_buffer_[i - 1] = [b EXCEPT !.pos = @ - 1])
                    /\ \/ b.pos = b.packet.size
                       \/ i < Len(data_buffer_)
                            /\ data_buffer_[i + 1] = [b EXCEPT !.pos = @ + 1]
  BY DEF Framed
<1> DEFINE b == data_buffer_[i]
           m == b.packet.size
           L == Len(data_buffer_)
<1>1. L \in Nat /\ DOMAIN data_buffer_ = 1 .. L /\ i \in 1 .. L
  BY DEF Types
<1>2. b \in Bytes
  BY <1>1 DEF Types
<1>3. m \in Nat /\ b.pos \in Nat
  BY <1>2, PacketsAssumption DEF Bytes
<1>4. /\ b.pos \in 1 .. m
      /\ \A k \in 1 .. m : i - b.pos + k \in 1 .. L
                           /\ data_buffer_[i - b.pos + k] = [packet |-> b.packet, pos |-> k]
  BY <1>1 DEF Around
<1>5. \A k \in Nat : [b EXCEPT !.pos = k] = [packet |-> b.packet, pos |-> k]
  BY <1>2 DEF Bytes
<1> HIDE DEF b, m, L
<1>6. CASE b.pos = 1
  <2>1. CASE b.pos = m
    BY <1>6, <2>1 DEF b, m, L
  <2>2. CASE b.pos # m
    <3>1. b.pos + 1 \in 1 .. m /\ i - b.pos + (b.pos + 1) = i + 1 /\ b.pos + 1 \in Nat
      BY <1>1, <1>3, <1>4, <2>2
    <3>2. i + 1 \in 1 .. L /\ data_buffer_[i + 1] = [b EXCEPT !.pos = b.pos + 1]
      BY <1>4, <1>5, <3>1
    <3>3. i < L
      BY <1>1, <3>2
    <3> QED BY <1>6, <3>2, <3>3 DEF b, m, L
  <2> QED BY <2>1, <2>2
<1>7. CASE b.pos # 1
  <2>1. b.pos - 1 \in 1 .. m /\ i - b.pos + (b.pos - 1) = i - 1 /\ b.pos - 1 \in Nat
    BY <1>1, <1>3, <1>4, <1>7
  <2>2. i - 1 \in 1 .. L /\ data_buffer_[i - 1] = [b EXCEPT !.pos = b.pos - 1]
    BY <1>4, <1>5, <2>1
  <2>3. i > 1
    BY <1>1, <2>2
  <2>4. CASE b.pos = m
    BY <2>2, <2>3, <2>4 DEF b, m, L
  <2>5. CASE b.pos # m
    <3>1. b.pos + 1 \in 1 .. m /\ i - b.pos + (b.pos + 1) = i + 1 /\ b.pos + 1 \in Nat
      BY <1>1, <1>3, <1>4, <2>5
    <3>2. i + 1 \in 1 .. L /\ data_buffer_[i + 1] = [b EXCEPT !.pos = b.pos + 1]
      BY <1>4, <1>5, <3>1
    <3>3. i < L
      BY <1>1, <3>2
    <3> QED BY <2>2, <2>3, <3>2, <3>3 DEF b, m, L
  <2> QED BY <2>4, <2>5
<1> QED BY <1>6, <1>7

\* However handlers that append and checks that cut off overlap, data_buffer_
\* is a sequence of whole packets, if none is longer than reply_buffer_.
THEOREM BufferStaysFramed ==
  ASSUME Fits
  PROVE  Spec => []Framed
<1>1. Init => Types /\ Handler /\ Whole
  BY InitHandler, InitWhole
<1>2. Types /\ Handler /\ Whole /\ [Next]_vars => (Types /\ Handler /\ Whole)'
  BY NextHandler, NextWhole
<1>3. Types /\ Handler /\ Whole => Framed
  BY AroundFramed DEF Whole
<1> QED BY <1>1, <1>2, <1>3, PTL DEF Spec

-----------------------------------------------------------------------------
(* Each packet in one place *)

\* The parts of Places(p).
Begins(bytes, p) == bytes # <<>> /\ Head(bytes).packet = p
Received(p) == {i \in DOMAIN work : work[i].job = "receive" /\ Begins(reply_buffer_, p)}
Copied(p) == {t \in Threads : /\ thread[t].pc \in {"rearm", "append"}
                              /\ Begins(thread[t].data, p)}
Buffered(p) == {i \in DOMAIN data_buffer_ : data_buffer_[i] = [packet |-> p, pos |-> 1]}
Posted(p) == {i \in DOMAIN work : work[i].job = "notify" /\ Begins(work[i].data, p)}
Published(p) == {i \in DOMAIN delivered : Begins(delivered[i], p)}

Lone(S) == \A x, y \in S : x = y

\* At most one place among six sets of places, the first of them given by
\* whether there is one.
AtMostOne(a, R, C, B, P, D) ==
  /\ Lone(R) /\ Lone(C) /\ Lone(B) /\ Lone(P) /\ Lone(D)
  /\ a => R = {} /\ C = {} /\ B = {} /\ P = {} /\ D = {}
  /\ R # {} => C = {} /\ B = {} /\ P = {} /\ D = {}
  /\ C # {} => B = {} /\ P = {} /\ D = {}
  /\ B # {} => P = {} /\ D = {}
  /\ P # {} => D = {}

InOnePlace(p) ==
  /\ AtMostOne(p \in arriving, Received(p), Copied(p), Buffered(p), Posted(p),
               Published(p))
  /\ p.reply => \/ p \in arriving
                \/ Received(p) # {}
                \/ Copied(p) # {}
                \/ Buffered(p) # {}
                \/ Posted(p) # {}
                \/ Published(p) # {}

Unique == \A p \in Packets : InOnePlace(p)

\* Whole packets begin with themselves.
LEMMA BeginsWith ==
  ASSUME NEW p \in Packets, NEW q \in Packets
  PROVE  Begins(BytesOf(q), p) <=> p = q
<1>1. BytesOf(q) # <<>> /\ Head(BytesOf(q)) = [packet |-> q, pos |-> 1]
  BY BytesOfPacket
<1> QED BY <1>1 DEF Begins

\* The queue moves up.
LEMMA TakePosted ==
  ASSUME Types, work # <<>>, work' = Tail(work), NEW p \in Packets
  PROVE  /\ \A i \in Posted(p)' : i \in Nat \ {0} /\ i + 1 \in Posted(p)
         /\ \A i \in Posted(p) : i \in Nat /\ (i # 1 => i - 1 \in Posted(p)')
         /\ 1 \in Posted(p) <=> Head(work).job = "notify" /\ Begins(Head(work).data, p)
<1>1. /\ 1 \in DOMAIN work /\ Head(work) = work[1]
      /\ \A i \in DOMAIN work' :
           i \in Nat \ {0} /\ i + 1 \in DOMAIN work /\ work'[i] = work[i + 1]
      /\ \A i \in DOMAIN work :
           i \in Nat /\ (i # 1 => i - 1 \in DOMAIN work' /\ work'[i - 1] = work[i])
  BY TakeWork
<1> QED BY <1>1 DEF Posted

LEMMA TakeReceived ==
  ASSUME Types, work # <<>>, work' = Tail(work), reply_buffer_' = reply_buffer_,
         NEW p \in Packets
  PROVE  /\ \A i \in Received(p)' : i \in Nat \ {0} /\ i + 1 \in Received(p)
         /\ \A i \in Received(p) : i \in Nat /\ (i # 1 => i - 1 \in Received(p)')
         /\ 1 \in Received(p) <=> Head(work).job = "receive" /\ Begins(reply_buffer_, p)
<1>1. /\ 1 \in DOMAIN work /\ Head(work) = work[1]
      /\ \A i \in DOMAIN work' :
           i \in Nat \ {0} /\ i + 1 \in DOMAIN work /\ work'[i] = work[i + 1]
      /\ \A i \in DOMAIN work :
           i \in Nat /\ (i # 1 => i - 1 \in DOMAIN work' /\ work'[i - 1] = work[i])
  BY TakeWork
<1> QED BY <1>1 DEF Received

\* A set of numbers that moves up by one keeps its size.
LEMMA MoveUp ==
  ASSUME NEW S, NEW T,
         \A i \in T : i \in Nat \ {0} /\ i + 1 \in S,
         \A i \in S : i \in Nat /\ (i # 1 => i - 1 \in T)
  PROVE  /\ Lone(S) => Lone(T)
         /\ 1 \notin S => (S = {} <=> T = {})
         /\ S = {} => T = {}
         /\ 1 \in S /\ Lone(S) => T = {}
<1>1. ASSUME Lone(S), NEW x \in T, NEW y \in T PROVE x = y
  <2>1. x + 1 = y + 1 /\ x \in Nat /\ y \in Nat
    BY <1>1 DEF Lone
  <2> QED BY <2>1
<1>2. Lone(S) => Lone(T)
  BY <1>1 DEF Lone
<1>3. 1 \notin S => (S = {} <=> T = {})
  BY Zenon
<1>4. S = {} => T = {}
  BY Zenon
<1>5. ASSUME 1 \in S, Lone(S), NEW x \in T PROVE FALSE
  <2>1. x \in Nat \ {0} /\ x + 1 = 1
    BY <1>5 DEF Lone
  <2> QED BY <2>1
<1> QED BY <1>2, <1>3, <1>4, <1>5

LEMMA ReceiveUnique ==
  ASSUME Fits, Types, Handler, Whole, Unique, NEW q \in Packets, receive(q)
  PROVE  Unique'
<1> SUFFICES ASSUME NEW p \in Packets PROVE InOnePlace(p)'
  BY DEF Unique
<1>1. reply_buffer_' = BytesOf(q)
  BY ReceiveWhole
<1>2. Job("receive", <<>>) \in Jobs /\ Job("receive", <<>>).job = "receive"
  BY DEF Job, Jobs
<1>3. /\ Len(work) \in Nat
      /\ DOMAIN work = 1 .. Len(work) /\ DOMAIN work' = 1 .. Len(work) + 1
      /\ \A i \in 1 .. Len(work) : work'[i] = work[i]
      /\ work'[Len(work) + 1] = Job("receive", <<>>)
  BY <1>2, AppendAt DEF Types, receive
<1>4. \A i \in DOMAIN work : work[i].job # "receive"
  BY DEF Handler, receive
<1>5. Received(p) = {}
  BY <1>4 DEF Received
<1>6. Received(p)' = IF p = q THEN {Len(work) + 1} ELSE {}
  BY <1>1, <1>2, <1>3, <1>4, BeginsWith DEF Received
<1>7. Posted(p)' = Posted(p)
  BY <1>2, <1>3 DEF Posted
<1>8. /\ Copied(p)' = Copied(p) /\ Buffered(p)' = Buffered(p)
      /\ Published(p)' = Published(p)
  BY DEF Copied, Buffered, Published, receive
<1>9. (p \in arriving') <=> p \in arriving /\ p # q
  BY DEF receive
<1>10. q \in arriving /\ InOnePlace(p)
  BY DEF Unique, receive
<1> QED BY <1>5, <1>6, <1>7, <1>8, <1>9, <1>10 DEF InOnePlace, AtMostOne, Lone

LEMMA HandleUnique ==
  ASSUME Types, Handler, Whole, Unique, NEW t \in Threads, handle_receive(t)
  PROVE  Unique'
<1> SUFFICES ASSUME NEW p \in Packets PROVE InOnePlace(p)'
  BY DEF Unique
<1>1. /\ work # <<>> /\ work' = Tail(work) /\ Head(work).job = "receive"
      /\ reply_buffer_' = reply_buffer_ /\ thread[t] = Idle
      /\ thread' = [thread EXCEPT ![t] = At("rearm", reply_buffer_)]
  BY DEF handle_receive, Run
<1>2. \A u \in Threads : thread'[u] = IF u = t THEN At("rearm", reply_buffer_)
                                      ELSE thread[u]
  BY <1>1 DEF Types
<1>3. /\ At("rearm", reply_buffer_).pc = "rearm"
      /\ At("rearm", reply_buffer_).data = reply_buffer_ /\ Idle.pc = "idle"
  BY DEF At, Idle
<1>4. /\ \A i \in Received(p)' : i \in Nat \ {0} /\ i + 1 \in Received(p)
      /\ \A i \in Received(p) : i \in Nat /\ (i # 1 => i - 1 \in Received(p)')
      /\ 1 \in Received(p) <=> Begins(reply_buffer_, p)
  BY <1>1, TakeReceived
<1>5. /\ \A i \in Posted(p)' : i \in Nat \ {0} /\ i + 1 \in Posted(p)
      /\ \A i \in Posted(p) : i \in Nat /\ (i # 1 => i - 1 \in Posted(p)')
      /\ 1 \notin Posted(p)
  BY <1>1, TakePosted
<1>6. InOnePlace(p)
  BY DEF Unique
<1>7. /\ Lone(Posted(p)) => Lone(Posted(p)')
      /\ Posted(p) = {} <=> Posted(p)' = {}
  BY <1>5, MoveUp
<1>8. /\ 1 \in Received(p) => Received(p)' = {}
      /\ 1 \notin Received(p) => (Received(p) = {} <=> Received(p)' = {})
      /\ Lone(Received(p)')
  <2>1. Lone(Received(p))
    BY <1>6 DEF InOnePlace, AtMostOne
  <2> QED BY <1>4, <2>1, MoveUp
<1>9. Copied(p)' = Copied(p) \cup (IF 1 \in Received(p) THEN {t} ELSE {})
  BY <1>1, <1>2, <1>3, <1>4 DEF Copied, Begins
<1>10. /\ arriving' = arriving /\ Buffered(p)' = Buffered(p)
       /\ Published(p)' = Published(p)
  BY DEF Buffered, Published, handle_receive
<1> QED BY <1>6, <1>7, <1>8, <1>9, <1>10 DEF InOnePlace, AtMostOne, Lone

LEMMA AppendUnique ==
  ASSUME Types, Handler, Whole, Unique, NEW t \in Threads, append(t)
  PROVE  Unique'
<1> SUFFICES ASSUME NEW p \in Packets PROVE InOnePlace(p)'
  BY DEF Unique
<1>1. PICK q \in Packets : thread[t].data = BytesOf(q)
  BY DEF Whole, Carried, append
<1> DEFINE L == Len(data_buffer_)
<1>2. /\ BytesOf(q) \in Seq(Bytes) /\ Len(BytesOf(q)) = q.size
      /\ q.size \in Nat /\ q.size >= 1
      /\ \A i \in 1 .. q.size : BytesOf(q)[i] = [packet |-> q, pos |-> i]
  BY BytesOfPacket
<1>3. data_buffer_ \in Seq(Bytes) /\ data_buffer_' = data_buffer_ \o BytesOf(q)
  BY <1>1 DEF Types, append
<1>4. /\ data_buffer_' \in Seq(Bytes) /\ Len(data_buffer_') = L + q.size /\ L \in Nat
      /\ \A i \in 1 .. L : data_buffer_'[i] = data_buffer_[i]
      /\ \A i \in 1 .. q.size : data_buffer_'[L + i] = BytesOf(q)[i]
  BY <1>2, <1>3, ConcatAt
<1>5. DOMAIN data_buffer_' = 1 .. L + q.size /\ DOMAIN data_buffer_ = 1 .. L
  BY <1>3, <1>4
<1> HIDE DEF L
<1>6. Buffered(p)' = Buffered(p) \cup (IF p = q THEN {L + 1} ELSE {})
  <2>1. \A i \in 1 .. q.size : data_buffer_'[L + i] = [packet |-> q, pos |-> i]
    BY <1>2, <1>4
  <2>2. L \in Nat /\ q.size \in Nat /\ q.size >= 1
    BY <1>2, <1>4
  <2>3. ASSUME NEW i \in Buffered(p)' PROVE i \in Buffered(p) \/ (p = q /\ i = L + 1)
    <3>1. i \in 1 .. L + q.size /\ data_buffer_'[i] = [packet |-> p, pos |-> 1]
      BY <1>5, <2>3 DEF Buffered
    <3>2. CASE i \in 1 .. L
      BY <1>4, <1>5, <3>1, <3>2 DEF Buffered
    <3>3. CASE i \notin 1 .. L
      <4>1. PICK j \in 1 .. q.size : i = L + j
        <5>1. i - L \in 1 .. q.size /\ i = L + (i - L)
          BY <2>2, <3>1, <3>3
        <5> QED BY <5>1
      <4>2. [packet |-> q, pos |-> j] = [packet |-> p, pos |-> 1]
        BY <2>1, <3>1, <4>1
      <4>3. [packet |-> q, pos |-> j].packet = [packet |-> p, pos |-> 1].packet
            /\ [packet |-> q, pos |-> j].pos = [packet |-> p, pos |-> 1].pos
        BY <4>2
      <4>4. q = p /\ j = 1
        BY <4>3
      <4> QED BY <4>1, <4>4
    <3> QED BY <3>2, <3>3
  <2>4. \A i \in 1 .. L : i \in 1 .. L + q.size
    BY <2>2
  <2>5. Buffered(p) \subseteq Buffered(p)'
    BY <1>4, <1>5, <2>4 DEF Buffered
  <2>6. L + 1 \in 1 .. L + q.size /\ data_buffer_'[L + 1] = [packet |-> q, pos |-> 1]
    BY <2>1, <2>2
  <2>7. p = q => L + 1 \in Buffered(p)'
    BY <1>5, <2>6 DEF Buffered
  <2> QED BY <2>3, <2>5, <2>7
<1>7. \A u \in Threads : thread'[u] = IF u = t THEN At("post", <<>>) ELSE thread[u]
  BY DEF Types, append
<1>8. At("post", <<>>).pc = "post"
  BY DEF At
<1>9. t \in Copied(p) <=> p = q
  BY <1>1, BeginsWith DEF Copied, append
<1>10. Copied(p)' = Copied(p) \ {t}
  BY <1>7, <1>8 DEF Copied
<1>11. /\ arriving' = arriving /\ Received(p)' = Received(p) /\ Posted(p)' = Posted(p)
       /\ Published(p)' = Published(p)
  BY DEF Received, Posted, Published, append
<1>12. InOnePlace(p)
  BY DEF Unique
<1> QED BY <1>6, <1>9, <1>10, <1>11, <1>12 DEF InOnePlace, AtMostOne, Lone

LEMMA CheckUnique ==
  ASSUME Types, Handler, Whole, Unique, NEW t \in Threads, internal_check_notify(t)
  PROVE  Unique'
<1> SUFFICES ASSUME NEW p \in Packets PROVE InOnePlace(p)'
  BY DEF Unique
<1>1. /\ work # <<>> /\ work' = Tail(work) /\ Head(work).job = "check"
      /\ reply_buffer_' = reply_buffer_ /\ thread[t] = Idle
  BY DEF internal_check_notify, Run
<1>2. \A u \in Threads : thread'[u] = IF u = t THEN At("peek", <<>>) ELSE thread[u]
  BY DEF Types, internal_check_notify
<1>3. At("peek", <<>>).pc = "peek" /\ Idle.pc = "idle"
  BY DEF At, Idle
<1>4. /\ \A i \in Received(p)' : i \in Nat \ {0} /\ i + 1 \in Received(p)
      /\ \A i \in Received(p) : i \in Nat /\ (i # 1 => i - 1 \in Received(p)')
      /\ 1 \notin Received(p)
  BY <1>1, TakeReceived
<1>5. /\ \A i \in Posted(p)' : i \in Nat \ {0} /\ i + 1 \in Posted(p)
      /\ \A i \in Posted(p) : i \in Nat /\ (i # 1 => i - 1 \in Posted(p)')
      /\ 1 \notin Posted(p)
  BY <1>1, TakePosted
<1>6. /\ Lone(Posted(p)) => Lone(Posted(p)')
      /\ Posted(p) = {} <=> Posted(p)' = {}
  BY <1>5, MoveUp
<1>7. /\ Lone(Received(p)) => Lone(Received(p)')
      /\ Received(p) = {} <=> Received(p)' = {}
  BY <1>4, MoveUp
<1>8. Copied(p)' = Copied(p)
  BY <1>1, <1>2, <1>3 DEF Copied
<1>9. /\ arriving' = arriving /\ Buffered(p)' = Buffered(p)
      /\ Published(p)' = Published(p)
  BY DEF Buffered, Published, internal_check_notify
<1>10. InOnePlace(p)
  BY DEF Unique
<1> QED BY <1>6, <1>7, <1>8, <1>9, <1>10 DEF InOnePlace, AtMostOne

LEMMA NotifyUnique ==
  ASSUME Types, Handler, Whole, Unique, NEW t \in Threads, notify(t)
  PROVE  Unique'
<1> SUFFICES ASSUME NEW p \in Packets PROVE InOnePlace(p)'
  BY DEF Unique
<1>1. /\ work # <<>> /\ work' = Tail(work) /\ Head(work).job = "notify"
      /\ reply_buffer_' = reply_buffer_
  BY DEF notify, Run
<1>2. Head(work).data \in Seq(Bytes)
  <2>1. Head(work) \in Jobs
    BY <1>1, TailAt DEF Types
  <2> QED BY <2>1 DEF Jobs
<1>3. /\ Len(delivered) \in Nat
      /\ DOMAIN delivered = 1 .. Len(delivered)
      /\ DOMAIN delivered' = 1 .. Len(delivered) + 1
      /\ \A i \in 1 .. Len(delivered) : delivered'[i] = delivered[i]
      /\ delivered'[Len(delivered) + 1] = Head(work).data
  BY <1>2, AppendAt DEF Types, notify
<1>4. /\ \A i \in Received(p)' : i \in Nat \ {0} /\ i + 1 \in Received(p)
      /\ \A i \in Received(p) : i \in Nat /\ (i # 1 => i - 1 \in Received(p)')
      /\ 1 \notin Received(p)
  BY <1>1, TakeReceived
<1>5. /\ \A i \in Posted(p)' : i \in Nat \ {0} /\ i + 1 \in Posted(p)
      /\ \A i \in Posted(p) : i \in Nat /\ (i # 1 => i - 1 \in Posted(p)')
      /\ 1 \in Posted(p) <=> Begins(Head(work).data, p)
  BY <1>1, TakePosted
<1>6. InOnePlace(p)
  BY DEF Unique
<1>7. /\ 1 \in Posted(p) => Posted(p)' = {}
      /\ 1 \notin Posted(p) => (Posted(p) = {} <=> Posted(p)' = {})
      /\ Lone(Posted(p)')
  <2>1. Lone(Posted(p))
    BY <1>6 DEF InOnePlace, AtMostOne
  <2> QED BY <1>5, <2>1, MoveUp
<1>8. /\ Lone(Received(p)) => Lone(Received(p)')
      /\ Received(p) = {} <=> Received(p)' = {}
  BY <1>4, MoveUp
<1>9. Published(p)' = Published(p) \cup
                        (IF 1 \in Posted(p) THEN {Len(delivered) + 1} ELSE {})
  BY <1>3, <1>5 DEF Published
<1>10. /\ arriving' = arriving /\ Buffered(p)' = Buffered(p)
       /\ Copied(p)' = Copied(p)
  BY DEF Buffered, Copied, notify
<1> QED BY <1>6, <1>7, <1>8, <1>9, <1>10 DEF InOnePlace, AtMostOne, Lone

\* The packet cut off was in the buffer once; if it is an echo reply it is in
\* the queue then.
LEMMA DiscardUnique ==
  ASSUME Types, Handler, Whole, Unique, NEW t \in Threads, discard(t)
  PROVE  Unique'
<1> SUFFICES ASSUME NEW p \in Packets PROVE InOnePlace(p)'
  BY DEF Unique
<1> DEFINE copy == thread[t].data
           cut == SubSeq(copy, 1, get_length(copy))
           L == Len(data_buffer_)
<1>1. PICK q \in Packets :
        /\ get_length(copy) = q.size /\ cut = BytesOf(q)
        /\ q.size \in Nat /\ 1 <= q.size /\ q.size <= L
        /\ \A i \in 1 .. q.size : data_buffer_[i] = [packet |-> q, pos |-> i]
  BY CutIsPacket
<1>2. L \in Nat /\ DOMAIN data_buffer_ = 1 .. L /\ data_buffer_ \in Seq(Bytes)
  BY DEF Types
<1> DEFINE n == q.size
<1>3. data_buffer_' = SubSeq(data_buffer_, n + 1, L)
  BY <1>1 DEF discard
<1>4. BytesOf(q) \in Seq(Bytes) /\ Head(BytesOf(q)) = [packet |-> q, pos |-> 1]
  BY BytesOfPacket
<1>5. [packet |-> q, pos |-> 1].packet = q
  OBVIOUS
<1>6. work' = IF q.reply THEN Append(work, Job("notify", cut)) ELSE work
  <2>1. work' = IF Head(cut).packet.reply THEN Append(work, Job("notify", cut)) ELSE work
    BY DEF discard
  <2>2. Head(cut).packet = q
    BY <1>1, <1>4, <1>5
  <2> QED BY <2>1, <2>2
<1>7. /\ Job("notify", cut) \in Jobs
      /\ Job("notify", cut).job = "notify" /\ Job("notify", cut).data = BytesOf(q)
  BY <1>1, <1>4 DEF Job, Jobs
<1> HIDE DEF n, L, cut
<1>8. /\ DOMAIN data_buffer_' = 1 .. L - n
      /\ \A i \in 1 .. L - n : data_buffer_'[i] = data_buffer_[n + i]
  <2>1. n + 1 \in Nat /\ 1 <= n + 1 /\ L <= Len(data_buffer_)
    BY <1>1, <1>2 DEF L, n
  <2>2. /\ DOMAIN data_buffer_' = 1 .. L - (n + 1) + 1
        /\ \A i \in 1 .. L - (n + 1) + 1 : data_buffer_'[i] = data_buffer_[n + 1 + i - 1]
    BY <1>2, <1>3, <2>1, PartAt
  <2>3. L - (n + 1) + 1 = L - n /\ n \in Nat
    BY <1>1, <1>2 DEF n
  <2>4. \A i \in 1 .. L - n : n + 1 + i - 1 = n + i
    BY <1>2, <2>3
  <2> QED BY <2>2, <2>3, <2>4
<1>9. n \in Nat /\ n >= 1 /\ n <= L
  BY <1>1 DEF n
<1>10. \A i \in Buffered(p)' : n + i \in Buffered(p) /\ n + i # 1 /\ i \in Nat
  <2> SUFFICES ASSUME NEW i \in Buffered(p)'
               PROVE  n + i \in Buffered(p) /\ n + i # 1 /\ i \in Nat
    OBVIOUS
  <2>1. i \in 1 .. L - n /\ data_buffer_[n + i] = [packet |-> p, pos |-> 1]
    BY <1>8 DEF Buffered
  <2>2. n + i \in 1 .. L /\ n + i # 1 /\ i \in Nat
    BY <1>2, <1>9, <2>1
  <2> QED BY <1>2, <2>1, <2>2 DEF Buffered
<1>11. 1 \in Buffered(p) <=> p = q
  <2>1. 1 \in 1 .. q.size /\ 1 \in 1 .. L
    BY <1>1, <1>2
  <2>2. data_buffer_[1] = [packet |-> q, pos |-> 1]
    BY <1>1, <2>1
  <2>3. [packet |-> p, pos |-> 1].packet = p
    OBVIOUS
  <2> QED BY <1>2, <1>5, <2>1, <2>2, <2>3 DEF Buffered
<1>12. ASSUME p # q, NEW i \in Buffered(p)
       PROVE  i \in Nat /\ i - n \in Buffered(p)'
  <2>1. i \in 1 .. L /\ data_buffer_[i] = [packet |-> p, pos |-> 1]
    BY <1>2, <1>12 DEF Buffered
  <2>2. i \notin 1 .. n
    <3> SUFFICES ASSUME i \in 1 .. n PROVE FALSE
      OBVIOUS
    <3>1. [packet |-> q, pos |-> i] = [packet |-> p, pos |-> 1]
      BY <1>1, <2>1 DEF n
    <3>2. [packet |-> q, pos |-> i].packet = [packet |-> p, pos |-> 1].packet
      BY <3>1
    <3> QED BY <1>12, <3>2
  <2>3. i - n \in 1 .. L - n /\ n + (i - n) = i /\ i \in Nat
    BY <1>2, <1>9, <2>1, <2>2
  <2> QED BY <1>8, <2>1, <2>3 DEF Buffered
<1>13. InOnePlace(p)
  BY DEF Unique
<1>14. Lone(Buffered(p)')
  <2> SUFFICES ASSUME NEW x \in Buffered(p)', NEW y \in Buffered(p)' PROVE x = y
    BY DEF Lone
  <2>1. n + x = n + y /\ x \in Nat /\ y \in Nat
    BY <1>10, <1>13 DEF InOnePlace, AtMostOne, Lone
  <2> QED BY <1>9, <2>1
<1>15. p = q => Buffered(p)' = {}
  <2>1. Lone(Buffered(p))
    BY <1>13 DEF InOnePlace, AtMostOne
  <2> QED BY <1>10, <1>11, <2>1 DEF Lone
<1>16. p # q => (Buffered(p)' = {} <=> Buffered(p) = {})
  BY <1>10, <1>12
<1>17. /\ \A i \in DOMAIN work : i \in DOMAIN work' /\ work'[i] = work[i]
       /\ \A i \in DOMAIN work' :
            \/ i \in DOMAIN work
            \/ q.reply /\ i = Len(work) + 1 /\ work'[i] = Job("notify", cut)
       /\ q.reply => /\ Len(work) + 1 \in DOMAIN work'
                     /\ work'[Len(work) + 1] = Job("notify", cut)
  <2>1. CASE q.reply
    <3>1. /\ Len(work) \in Nat
          /\ DOMAIN work = 1 .. Len(work) /\ DOMAIN work' = 1 .. Len(work) + 1
          /\ \A i \in 1 .. Len(work) : work'[i] = work[i]
          /\ work'[Len(work) + 1] = Job("notify", cut)
      BY <1>6, <1>7, <2>1, AppendAt DEF Types
    <3> QED BY <2>1, <3>1
  <2>2. CASE ~ q.reply
    BY <1>6, <2>2
  <2> QED BY <2>1, <2>2
<1>18. Posted(p)' = Posted(p) \cup (IF p = q /\ q.reply THEN {Len(work) + 1} ELSE {})
  <2>1. ASSUME NEW i \in Posted(p)'
        PROVE  i \in Posted(p) \/ (p = q /\ q.reply /\ i = Len(work) + 1)
    <3>1. i \in DOMAIN work' /\ work'[i].job = "notify" /\ Begins(work'[i].data, p)
      BY <2>1 DEF Posted
    <3>2. CASE i \in DOMAIN work
      BY <1>17, <3>1, <3>2 DEF Posted
    <3>3. CASE i \notin DOMAIN work
      <4>1. q.reply /\ i = Len(work) + 1 /\ work'[i] = Job("notify", cut)
        BY <1>17, <3>1, <3>3
      <4>2. Begins(BytesOf(q), p)
        BY <1>7, <3>1, <4>1
      <4> QED BY <4>1, <4>2, BeginsWith
    <3> QED BY <3>2, <3>3
  <2>2. Posted(p) \subseteq Posted(p)'
    BY <1>17 DEF Posted
  <2>3. ASSUME p = q, q.reply PROVE Len(work) + 1 \in Posted(p)'
    <3>1. Begins(BytesOf(q), p)
      BY <2>3, BeginsWith
    <3> QED BY <1>7, <1>17, <2>3, <3>1 DEF Posted
  <2> QED BY <2>1, <2>2, <2>3
<1>19. Received(p)' = Received(p)
  BY <1>7, <1>17 DEF Received, discard
<1>20. Copied(p)' = Copied(p)
  <2>1. \A u \in Threads : thread'[u] = IF u = t THEN At("again", <<>>) ELSE thread[u]
    BY DEF Types, discard
  <2>2. At("again", <<>>).pc = "again" /\ thread[t].pc = "discard"
    BY DEF At, discard
  <2> QED BY <2>1, <2>2 DEF Copied
<1>21. arriving' = arriving /\ Published(p)' = Published(p)
  BY DEF Published, discard
<1>22. CASE p = q
  BY <1>11, <1>13, <1>15, <1>18, <1>19, <1>20, <1>21, <1>22
  DEF InOnePlace, AtMostOne, Lone
<1>23. CASE p # q
  BY <1>13, <1>14, <1>16, <1>18, <1>19, <1>20, <1>21, <1>23
  DEF InOnePlace, AtMostOne
<1> QED BY <1>22, <1>23

\* The other steps move no packet.
LEMMA SameUnique ==
  ASSUME Types, Unique, NEW t \in Threads,
         set_handler(t) \/ post_check(t) \/ peek(t) \/ loop(t) \/ UNCHANGED vars
  PROVE  Unique'
<1> SUFFICES ASSUME NEW p \in Packets PROVE InOnePlace(p)'
  BY DEF Unique
<1>1. /\ arriving' = arriving /\ reply_buffer_' = reply_buffer_
      /\ data_buffer_' = data_buffer_ /\ delivered' = delivered
  BY DEF set_handler, post_check, peek, loop, vars
<1>2. Buffered(p)' = Buffered(p) /\ Published(p)' = Published(p)
  BY <1>1 DEF Buffered, Published
<1>3. Received(p)' = Received(p) /\ Posted(p)' = Posted(p)
  <2>1. CASE post_check(t)
    <3>1. Job("check", <<>>) \in Jobs /\ Job("check", <<>>).job = "check"
      BY DEF Job, Jobs
    <3>2. /\ Len(work) \in Nat
          /\ DOMAIN work = 1 .. Len(work) /\ DOMAIN work' = 1 .. Len(work) + 1
          /\ \A i \in 1 .. Len(work) : work'[i] = work[i]
          /\ work'[Len(work) + 1] = Job("check", <<>>)
      BY <2>1, <3>1, AppendAt DEF Types, post_check
    <3> QED BY <1>1, <3>1, <3>2 DEF Received, Posted
  <2>2. CASE work' = work
    BY <1>1, <2>2 DEF Received, Posted
  <2> QED BY <2>1, <2>2 DEF set_handler, peek, loop, vars
<1>4. Copied(p)' = Copied(p)
  <2>1. CASE UNCHANGED vars
    BY <2>1 DEF vars, Copied
  <2>2. CASE set_handler(t)
    <3>1. /\ \A u \in Threads : u # t => thread'[u] = thread[u]
          /\ thread'[t].pc = "append" /\ thread'[t].data = thread[t].data
          /\ thread[t].pc = "rearm"
      BY <2>2 DEF Types, set_handler, States
    <3> QED BY <3>1 DEF Copied
  <2>3. CASE post_check(t) \/ peek(t) \/ loop(t)
    <3>1. /\ thread[t].pc \in {"post", "peek", "again"}
          /\ \E s \in {Idle, At("discard", data_buffer_), At("peek", <<>>)} :
               thread' = [thread EXCEPT ![t] = s]
      BY <2>3 DEF post_check, peek, loop
    <3>2. \A s \in {Idle, At("discard", data_buffer_), At("peek", <<>>)} :
            s.pc \in {"idle", "discard", "peek"}
      BY DEF Idle, At
    <3>3. /\ \A u \in Threads : u # t => thread'[u] = thread[u]
          /\ thread'[t].pc \in {"idle", "discard", "peek"}
      BY <3>1, <3>2 DEF Types
    <3> QED BY <3>1, <3>3 DEF Copied
  <2> QED BY <2>1, <2>2, <2>3
<1>5. InOnePlace(p)
  BY DEF Unique
<1> QED BY <1>1, <1>2, <1>3, <1>4, <1>5 DEF InOnePlace, AtMostOne

LEMMA NextUnique ==
  ASSUME Fits, Types, Handler, Whole, Unique, [Next]_vars
  PROVE  Unique'
<1>1. CASE UNCHANGED vars
  BY <1>1 DEF vars, Unique, InOnePlace, Received, Copied, Buffered, Posted, Published
<1>2. CASE \E p \in Packets : receive(p)
  BY <1>2, ReceiveUnique
<1>3. ASSUME NEW t \in Threads, Step(t) PROVE Unique'
  BY <1>3, HandleUnique, AppendUnique, CheckUnique, DiscardUnique, NotifyUnique,
     SameUnique
  DEF Step
<1> QED BY <1>1, <1>2, <1>3 DEF Next

LEMMA InitUnique == Init => Unique
<1> SUFFICES ASSUME Init, NEW p \in Packets PROVE InOnePlace(p)
  BY DEF Unique
<1>1. /\ p \in arriving
      /\ Received(p) = {} /\ Copied(p) = {} /\ Buffered(p) = {}
      /\ Posted(p) = {} /\ Published(p) = {}
  BY DEF Init, Received, Copied, Buffered, Posted, Published, Idle
<1> QED BY <1>1 DEF InOnePlace, AtMostOne, Lone

\* Places(p) holds at most one place, and one if p is an echo reply.
LEMMA OnePlace ==
  ASSUME NEW p \in Packets, InOnePlace(p)
  PROVE  /\ \A x, y \in Places(p) : x = y
         /\ p.reply => Places(p) # {}
<1> DEFINE A == {<<"arriving", q>> : q \in {p} \cap arriving}
           R == Received(p)
           C == Copied(p)
           B == Buffered(p)
           P == Posted(p)
           D == Published(p)
           All ==      A
                  \cup {<<"received", i>> : i \in R}
                  \cup {<<"copied", t>> : t \in C}
                  \cup {<<"buffered", i>> : i \in B}
                  \cup {<<"posted", i>> : i \in P}
                  \cup {<<"published", i>> : i \in D}
<1>1. Places(p) = All
  BY DEF Places, Received, Copied, Buffered, Posted, Published, Begins
<1>2. /\ AtMostOne(p \in arriving, R, C, B, P, D)
      /\ p.reply => \/ p \in arriving \/ R # {} \/ C # {} \/ B # {} \/ P # {} \/ D # {}
  BY DEF InOnePlace
<1>3. /\ \A x \in A : p \in arriving /\ x = <<"arriving", p>>
      /\ p \in arriving => <<"arriving", p>> \in A
  OBVIOUS
<1> HIDE DEF A, R, C, B, P, D
<1>4. \A x, y \in All : x = y
  BY <1>2, <1>3 DEF AtMostOne, Lone
<1>5. p.reply => All # {}
  BY <1>2, <1>3
<1> QED BY <1>1, <1>4, <1>5

\* No echo reply that reaches the socket is lost or published twice, and each
\* one published is whole, however many threads overlap in Ping's handlers and
\* checks, if no packet is longer than reply_buffer_.
THEOREM PublishedOnceEach ==
  ASSUME Fits
  PROVE  Spec => []OnceEach
<1> DEFINE IInv == Types /\ Handler /\ Whole /\ Unique
<1>1. Init => IInv
  BY InitHandler, InitWhole, InitUnique
<1>2. IInv /\ [Next]_vars => IInv'
  BY NextHandler, NextWhole, NextUnique
<1>3. IInv => OnceEach
  <2>1. Unique => \A p \in Packets : /\ \A x, y \in Places(p) : x = y
                                     /\ p.reply => Places(p) # {}
    BY OnePlace DEF Unique
  <2> QED BY <2>1 DEF OnceEach, Whole, Carried
<1> QED BY <1>1, <1>2, <1>3, PTL DEF Spec

=============================================================================
