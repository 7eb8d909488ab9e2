---------------------------- MODULE PingReceive -----------------------------
(***************************************************************************)
(* The receive path of Ping.  A datagram is received into reply_buffer_,   *)
(* copied, appended to data_buffer_, and cut off its front again when      *)
(* complete; echo replies are then published.  Ten io threads run the      *)
(* completion handler and the functions posted to io_service, so several   *)
(* calls of handle_receive and internal_check_notify overlap.              *)
(*                                                                         *)
(* A packet is a record: its size in bytes, as its IP header says, and     *)
(* whether it is an echo reply.  A byte is a packet and a position in it.  *)
(***************************************************************************)
EXTENDS Integers, SequencesExt

CONSTANTS Threads,     \* threads running io_service
          Packets,     \* datagrams that reach the socket, each once
          MinSize,     \* bytes of an IP header (20 in the code)
          BufferSize   \* bytes of reply_buffer_ (60000 in the code)

ASSUME PacketsAssumption ==
  \A p \in Packets : p.size \in Nat /\ p.size >= MinSize /\ p.reply \in BOOLEAN
ASSUME MinSizeAssumption == {MinSize, BufferSize} \subseteq Nat \ {0}

VARIABLES
  arriving,       \* network: packets that have not reached the socket
  armed,          \* an async_receive is under way
  reply_buffer_,
  data_buffer_,
  work,           \* functions io_service has queued
  thread,         \* what each thread is doing
  read_mutex,     \* threads holding data_buffer_read_mutex_
  delivered       \* history: what notify has published, in order

vars == <<arriving, armed, reply_buffer_, data_buffer_, work, thread,
          read_mutex, delivered>>

BytesOf(p) == [i \in 1 .. p.size |-> [packet |-> p, pos |-> i]]

Idle == [pc |-> "idle", data |-> <<>>]
At(pc, data) == [pc |-> pc, data |-> data]

Job(name, data) == [job |-> name, data |-> data]

\* A thread takes the oldest queued function.
Run(t, name) ==
  /\ thread[t] = Idle
  /\ work # <<>>
  /\ Head(work).job = name

-----------------------------------------------------------------------------
(* Receiving *)

\* asio completes async_receive: the packet is in reply_buffer_, cut to its
\* size, and the handler is queued.
receive(p) ==
  /\ armed
  /\ p \in arriving
  /\ arriving' = arriving \ {p}
  /\ armed' = FALSE
  /\ reply_buffer_' = SubSeq(BytesOf(p), 1, Min({p.size, BufferSize}))
  /\ work' = Append(work, Job("receive", <<>>))
  /\ UNCHANGED <<data_buffer_, thread, read_mutex, delivered>>

\* handle_receive that starts the next async_receive first, and again later.
handle_receive_eager(t) ==
  /\ Run(t, "receive")
  /\ work' = Tail(work)
  /\ armed' = TRUE
  /\ thread' = [thread EXCEPT ![t] = At("rearm", reply_buffer_)]
  /\ UNCHANGED <<arriving, reply_buffer_, data_buffer_, read_mutex, delivered>>

\* handle_receive: the bytes are copied out of reply_buffer_ ...
handle_receive(t) ==
  /\ Run(t, "receive")
  /\ work' = Tail(work)
  /\ thread' = [thread EXCEPT ![t] = At("rearm", reply_buffer_)]
  /\ UNCHANGED <<arriving, armed, reply_buffer_, data_buffer_, read_mutex,
                 delivered>>

\* ... the next async_receive is started ...
set_handler(t) ==
  /\ thread[t].pc = "rearm"
  /\ armed' = TRUE
  /\ thread' = [thread EXCEPT ![t].pc = "append"]
  /\ UNCHANGED <<arriving, reply_buffer_, data_buffer_, work, read_mutex,
                 delivered>>

\* ... the copy is appended, under data_mutex_ ...
append(t) ==
  /\ thread[t].pc = "append"
  /\ data_buffer_' = data_buffer_ \o thread[t].data
  /\ thread' = [thread EXCEPT ![t] = At("post", <<>>)]
  /\ UNCHANGED <<arriving, armed, reply_buffer_, work, read_mutex, delivered>>

\* handle_receive that leaves the check to the next packet.
post_check_skip(t) ==
  /\ thread[t].pc = "post"
  /\ thread' = [thread EXCEPT ![t] = Idle]
  /\ UNCHANGED <<arriving, armed, reply_buffer_, data_buffer_, work,
                 read_mutex, delivered>>

\* ... and a check of data_buffer_ is posted.
post_check(t) ==
  /\ thread[t].pc = "post"
  /\ work' = Append(work, Job("check", <<>>))
  /\ thread' = [thread EXCEPT ![t] = Idle]
  /\ UNCHANGED <<arriving, armed, reply_buffer_, data_buffer_, read_mutex,
                 delivered>>

-----------------------------------------------------------------------------
(* Taking packets out of data_buffer_ *)

internal_check_notify(t) ==
  /\ Run(t, "check")
  /\ work' = Tail(work)
  /\ thread' = [thread EXCEPT ![t] = At("peek", <<>>)]
  /\ UNCHANGED <<arriving, armed, reply_buffer_, data_buffer_, read_mutex,
                 delivered>>

\* The total length in the IP header at the front of the buffer.
get_length(copy) == Head(copy).packet.size

\* Fewer bytes than a header, or than the header's length: not all there yet.
Complete(copy) == Len(copy) >= MinSize /\ get_length(copy) <= Len(copy)

\* check_notify without data_buffer_read_mutex_.
peek_unlocked(t) ==
  /\ thread[t].pc = "peek"
  /\ thread' = [thread EXCEPT ![t] = IF Complete(data_buffer_)
                                     THEN At("discard", data_buffer_)
                                     ELSE Idle]
  /\ UNCHANGED <<arriving, armed, reply_buffer_, data_buffer_, work,
                 read_mutex, delivered>>

\* check_notify, first half: under data_buffer_read_mutex_ the buffer is
\* copied.  If no packet is complete, it returns false and the loop ends.
peek(t) ==
  /\ thread[t].pc = "peek"
  /\ read_mutex = {}
  /\ IF Complete(data_buffer_)
     THEN /\ read_mutex' = {t}
          /\ thread' = [thread EXCEPT ![t] = At("discard", data_buffer_)]
     ELSE /\ thread' = [thread EXCEPT ![t] = Idle]
          /\ UNCHANGED read_mutex
  /\ UNCHANGED <<arriving, armed, reply_buffer_, data_buffer_, work, delivered>>

\* One byte too few is cut off.
discard_short(t) ==
  LET length == get_length(thread[t].data)
      packet == SubSeq(thread[t].data, 1, length)
  IN /\ thread[t].pc = "discard"
     /\ data_buffer_' = SubSeq(data_buffer_, length, Len(data_buffer_))
     /\ read_mutex' = read_mutex \ {t}
     /\ work' = IF Head(packet).packet.reply
                THEN Append(work, Job("notify", packet)) ELSE work
     /\ thread' = [thread EXCEPT ![t] = At("again", <<>>)]
     /\ UNCHANGED <<arriving, armed, reply_buffer_, delivered>>

\* check_notify, second half: the packet is cut off the buffer, which may have
\* grown meanwhile, and posted if it is an echo reply.
discard(t) ==
  LET length == get_length(thread[t].data)
      packet == SubSeq(thread[t].data, 1, length)
  IN /\ thread[t].pc = "discard"
     /\ data_buffer_' = SubSeq(data_buffer_, length + 1, Len(data_buffer_))
     /\ read_mutex' = read_mutex \ {t}
     /\ work' = IF Head(packet).packet.reply
                THEN Append(work, Job("notify", packet)) ELSE work
     /\ thread' = [thread EXCEPT ![t] = At("again", <<>>)]
     /\ UNCHANGED <<arriving, armed, reply_buffer_, delivered>>

\* The loop's condition on size(), outside data_buffer_read_mutex_.
loop(t) ==
  /\ thread[t].pc = "again"
  /\ thread' = [thread EXCEPT ![t] = IF data_buffer_ = <<>> THEN Idle
                                     ELSE At("peek", <<>>)]
  /\ UNCHANGED <<arriving, armed, reply_buffer_, data_buffer_, work,
                 read_mutex, delivered>>

\* Publisher::notify, under subscriber_mutex_ (its steps are in PingStore).
notify(t) ==
  /\ Run(t, "notify")
  /\ delivered' = Append(delivered, Head(work).data)
  /\ work' = Tail(work)
  /\ UNCHANGED <<arriving, armed, reply_buffer_, data_buffer_, thread,
                 read_mutex>>

-----------------------------------------------------------------------------

Init ==
  /\ arriving = Packets
  /\ armed = TRUE
  /\ reply_buffer_ = <<>>
  /\ data_buffer_ = <<>>
  /\ work = <<>>
  /\ thread = [t \in Threads |-> Idle]
  /\ read_mutex = {}
  /\ delivered = <<>>

\* What thread t does next.
Step(t) ==
  \/ handle_receive(t)
  \/ set_handler(t)
  \/ append(t)
  \/ post_check(t)
  \/ internal_check_notify(t)
  \/ peek(t)
  \/ discard(t)
  \/ loop(t)
  \/ notify(t)

Next ==
  \/ \E p \in Packets : receive(p)
  \/ \E t \in Threads : Step(t)

\* io_service::run keeps its threads going, and a mutex is handed on in the
\* end.  Packets need not arrive.
Fairness == \A t \in Threads : WF_vars(Step(t)) /\ SF_vars(peek(t))

Spec == Init /\ [][Next]_vars /\ Fairness

-----------------------------------------------------------------------------
(* Properties *)

\* The places where packet p, as a whole or by its first byte, can be found.
Places(p) ==
  LET Starts(bytes) == bytes # <<>> /\ Head(bytes).packet = p
      Received == {i \in DOMAIN work : work[i].job = "receive" /\ Starts(reply_buffer_)}
      Copied == {t \in Threads : /\ thread[t].pc \in {"rearm", "append"}
                                 /\ Starts(thread[t].data)}
      Buffered == {i \in DOMAIN data_buffer_ :
                     data_buffer_[i] = [packet |-> p, pos |-> 1]}
      Posted == {i \in DOMAIN work : work[i].job = "notify" /\ Starts(work[i].data)}
      Published == {i \in DOMAIN delivered : Starts(delivered[i])}
  IN       {<<"arriving", q>> : q \in {p} \cap arriving}
      \cup {<<"received", i>> : i \in Received}
      \cup {<<"copied", t>> : t \in Copied}
      \cup {<<"buffered", i>> : i \in Buffered}
      \cup {<<"posted", i>> : i \in Posted}
      \cup {<<"published", i>> : i \in Published}

\* No echo reply is lost or published twice by overlapping handlers and checks,
\* and a published one is whole; other packets vanish at most once.
OnceEach ==
  /\ \A p \in Packets :
       /\ \A x, y \in Places(p) : x = y
       /\ p.reply => Places(p) # {}
  /\ \A i \in DOMAIN delivered :
       \E p \in Packets : p.reply /\ delivered[i] = BytesOf(p)

\* data_buffer_ is a sequence of whole packets, although handlers append while
\* checks cut off: the next bytes of each byte's packet follow it.
Framed ==
  \A i \in DOMAIN data_buffer_ :
    LET b == data_buffer_[i] IN
    /\ b.pos = 1 \/ (i > 1 /\ data_buffer_[i - 1] = [b EXCEPT !.pos = @ - 1])
    /\ \/ b.pos = b.packet.size
       \/ i < Len(data_buffer_)
            /\ data_buffer_[i + 1] = [b EXCEPT !.pos = @ + 1]

\* Exactly one handler is set, queued or about to be set again: reply_buffer_
\* is never written to before the packet in it was copied ("we should only set
\* a single handler writing to this at a time"), and receiving never stops.
OneHandler ==
  LET Handlers ==      {<<"set", x>> : x \in {armed} \cap {TRUE}}
                  \cup {<<"queued", i>> : i \in {i \in DOMAIN work : work[i].job = "receive"}}
                  \cup {<<"running", t>> : t \in {t \in Threads : thread[t].pc = "rearm"}}
  IN Handlers # {} /\ \A h, g \in Handlers : h = g

\* Every echo reply that reaches the socket is published: no check that gives
\* up leaves a packet behind with nobody to look at it.
Delivery ==
  \A p \in Packets :
    p.reply /\ p \notin arriving
      ~> \E i \in DOMAIN delivered : delivered[i] = BytesOf(p)

=============================================================================
