----------------------------- MODULE PingStore -----------------------------
(***************************************************************************)
(* The block manager of a running pingfs: blocks live nowhere but in ICMP  *)
(* echo packets.  create_block sends a packet, the remote host echoes it,  *)
(* PingBlockService::process hands the block to whoever waits for it and   *)
(* sends it out again; free_block makes the service drop it on its next    *)
(* return.  The module composes PingBlockManager (and its variant          *)
(* DuplicatePingBlockManager), AsyncBlockManager, AsyncResponse,           *)
(* TrackFreedService, PingBlockService and CounterSupplier with the        *)
(* network, which is outside the code: it holds, reorders and may lose     *)
(* packets.                                                                *)
(*                                                                         *)
(* Clients are the threads of fuse that call the manager.  Packets are     *)
(* handled one at a time: Ping is a Publisher, and its notify holds        *)
(* subscriber_mutex_ around every PingBlockService::process.  Between two  *)
(* critical sections of a call every other thread may run, so a call is    *)
(* split where it releases a mutex or touches the network.                 *)
(***************************************************************************)
EXTENDS Integers, SequencesExt

CONSTANTS Clients,      \* threads calling the block manager
          IdSpace,      \* number of values of a BlockId (2^64 in the code)
          Duplicate,    \* TRUE for DuplicatePingBlockManager
          MaxAsk,       \* bound: blocks named by one BlockRequest
          MaxLost       \* bound: copies of one block the network loses

ASSUME IdSpaceAssumption == IdSpace \in Nat /\ IdSpace > 1
ASSUME DuplicateAssumption == Duplicate \in BOOLEAN
ASSUME BoundsAssumption == MaxAsk \in Nat /\ MaxLost \in Nat

VARIABLES
  next_id_,     \* CounterSupplier: next id to hand out, 0 once exhausted
  freed_ids_,   \* TrackFreedService: freed, not yet seen again
  waiting_,     \* AsyncBlockManager: block id -> clients whose response waits
  svc,          \* the packet inside PingBlockService::process
  in_flight,    \* network: copies of each block under way
  delayed,      \* blocks whose delayed_send thread still sleeps
  call,         \* the call each client is in
  resp,         \* the AsyncResponse each client waits on
  freed,        \* history: ids clients have freed
  lost          \* history: copies of each block the network lost

vars == <<next_id_, freed_ids_, waiting_, svc, in_flight, delayed, call, resp,
          freed, lost>>

BlockIds == 1 .. IdSpace - 1

\* A BlockRequest: the children of one block, so no id occurs twice.
Requests ==
  {s \in UNION {[1 .. n -> BlockIds] : n \in 0 .. MaxAsk} : IsInjective(s)}

\* How many copies of a block create_block puts on the network.
Redundancy == IF Duplicate THEN 2 ELSE 1

NoPacket == [pc |-> "idle", id |-> 0]
NoCall == [pc |-> "idle", id |-> 0]
NoResponse == [asked |-> <<>>, waiting_on |-> {}, blocks |-> <<>>,
               promise |-> 0]

Allocated(b) == next_id_ = 0 \/ b < next_id_

\* The id a client has taken from the supplier and not yet sent.
InHand(b) == \E c \in Clients : call[c].pc = "register" /\ call[c].id = b

\* Ids whose create_block has returned: the only ones clients can name.
Published == {b \in BlockIds : Allocated(b) /\ ~ InHand(b)}

-----------------------------------------------------------------------------
(* AsyncResponse *)

\* A response completes without checking that it has everything.
notify_always(r) == [r EXCEPT !.promise = @ + 1]

\* notify_if_complete: set_value when nothing is waited for any more.
notify_if_complete(r) ==
  IF r.waiting_on = {} THEN [r EXCEPT !.promise = @ + 1] ELSE r

\* The constructor: an empty request is complete at once.
AsyncResponse(asked) ==
  notify_if_complete([asked |-> asked, waiting_on |-> ToSet(asked),
                      blocks |-> <<>>, promise |-> 0])

\* update: blocks are kept in the order in which they arrive.
update(r, b) ==
  IF b \notin r.waiting_on THEN r
  ELSE notify_if_complete([r EXCEPT !.waiting_on = @ \ {b},
                                    !.blocks = Append(@, b)])

-----------------------------------------------------------------------------
(* create_block, in two steps: next_id() under the supplier's mutex, then   *)
(* register_block.                                                          *)

\* next_id without the test for an exhausted id space.
next_id_unchecked(c) ==
  /\ call' = [call EXCEPT ![c] = [pc |-> "register", id |-> next_id_]]
  /\ next_id_' = (next_id_ + 1) % IdSpace

\* CounterSupplier::next_id.  The counter wraps to 0 and then throws.
next_id(c) ==
  /\ next_id_ # 0
  /\ call' = [call EXCEPT ![c] = [pc |-> "register", id |-> next_id_]]
  /\ next_id_' = (next_id_ + 1) % IdSpace

create_block(c) ==
  /\ call[c].pc = "idle"
  /\ next_id(c)
  /\ UNCHANGED <<freed_ids_, waiting_, svc, in_flight, delayed, resp, freed,
                 lost>>

\* PingBlockService::register_block, after which create_block returns;
\* DuplicatePingBlockManager leaves a sleeping thread behind.
register_block(c) ==
  /\ call[c].pc = "register"
  /\ in_flight' = [in_flight EXCEPT ![call[c].id] = @ + 1]
  /\ delayed' = IF Duplicate THEN delayed \cup {call[c].id} ELSE delayed
  /\ call' = [call EXCEPT ![c] = NoCall]
  /\ UNCHANGED <<next_id_, freed_ids_, waiting_, svc, resp, freed, lost>>

\* DuplicatePingBlockManager::delayed_send: the block is sent a second time.
delayed_send(b) ==
  /\ b \in delayed
  /\ delayed' = delayed \ {b}
  /\ in_flight' = [in_flight EXCEPT ![b] = @ + 1]
  /\ UNCHANGED <<next_id_, freed_ids_, waiting_, svc, call, resp, freed, lost>>

-----------------------------------------------------------------------------
(* free_block and get_blocks *)

\* TrackFreedService::free_block.  BlockFuse frees a block it owns, once.
free_block(c, b) ==
  /\ call[c].pc = "idle"
  /\ b \in Published \ freed
  /\ freed_ids_' = freed_ids_ \cup {b}
  /\ freed' = freed \cup {b}
  /\ UNCHANGED <<next_id_, waiting_, svc, in_flight, delayed, call, resp, lost>>

\* AsyncBlockManager::get_blocks: the response is registered for all its
\* blocks under map_mutex_, then the thread blocks on the future.
get_blocks(c, asked) ==
  /\ call[c].pc = "idle"
  /\ ToSet(asked) \subseteq Published
  /\ resp' = [resp EXCEPT ![c] = AsyncResponse(asked)]
  /\ waiting_' = [b \in BlockIds |->
                    IF b \in ToSet(asked) THEN waiting_[b] \cup {c}
                    ELSE waiting_[b]]
  /\ call' = [call EXCEPT ![c] = [pc |-> "wait", id |-> 0]]
  /\ UNCHANGED <<next_id_, freed_ids_, svc, in_flight, delayed, freed, lost>>

\* The future is ready: get_blocks returns and the response dies.
get_return(c) ==
  /\ call[c].pc = "wait"
  /\ resp[c].promise > 0
  /\ call' = [call EXCEPT ![c] = NoCall]
  /\ resp' = [resp EXCEPT ![c] = NoResponse]
  /\ UNCHANGED <<next_id_, freed_ids_, waiting_, svc, in_flight, delayed,
                 freed, lost>>

-----------------------------------------------------------------------------
(* PingBlockService::process, in four steps *)

\* The raw socket sees every echo reply that reaches the host.  Own carries
\* this service's identifier and sequence number, Foreign any others, and a
\* foreign packet may name any block id: every file system counts from 1.
Own == "own"
Foreign == "foreign"
\* The filter on identifier and sequence number left out.
MatchesAny(tag) == tag \in {Own, Foreign}

Matches(tag) == tag = Own

process_receive(tag, b) ==
  /\ svc.pc = "idle"
  /\ tag = Own => in_flight[b] > 0
  /\ in_flight' = IF tag = Own THEN [in_flight EXCEPT ![b] = @ - 1]
                  ELSE in_flight
  /\ svc' = IF Matches(tag) THEN [pc |-> "notify", id |-> b] ELSE svc
  /\ UNCHANGED <<next_id_, freed_ids_, waiting_, delayed, call, resp, freed,
                 lost>>

\* AsyncBlockManager::process without the erase.
process_notify_keep ==
  /\ svc.pc = "notify"
  /\ resp' = [c \in Clients |-> IF c \in waiting_[svc.id]
                                THEN update(resp[c], svc.id) ELSE resp[c]]
  /\ svc' = [svc EXCEPT !.pc = "recycle"]
  /\ UNCHANGED <<next_id_, freed_ids_, waiting_, in_flight, delayed, call,
                 freed, lost>>

\* notify(block), that is AsyncBlockManager::process under map_mutex_: every
\* waiting response gets the block, and the id's entry is erased.
process_notify ==
  /\ svc.pc = "notify"
  /\ resp' = [c \in Clients |-> IF c \in waiting_[svc.id]
                                THEN update(resp[c], svc.id) ELSE resp[c]]
  /\ waiting_' = [waiting_ EXCEPT ![svc.id] = {}]
  /\ svc' = [svc EXCEPT !.pc = "recycle"]
  /\ UNCHANGED <<next_id_, freed_ids_, in_flight, delayed, call, freed, lost>>

\* should_recycle that forgets the id and still answers yes.
should_recycle_always ==
  /\ svc.pc = "recycle"
  /\ freed_ids_' = freed_ids_ \ {svc.id}
  /\ svc' = [svc EXCEPT !.pc = "resend"]
  /\ UNCHANGED <<next_id_, waiting_, in_flight, delayed, call, resp, freed,
                 lost>>

\* should_recycle that never consults freed_ids_.
should_recycle_blind ==
  /\ svc.pc = "recycle"
  /\ svc' = [svc EXCEPT !.pc = "resend"]
  /\ UNCHANGED <<next_id_, freed_ids_, waiting_, in_flight, delayed, call,
                 resp, freed, lost>>

\* TrackFreedService::should_recycle under ids_mutex_: a freed block is
\* dropped and forgotten, any other goes on to be sent.
should_recycle ==
  /\ svc.pc = "recycle"
  /\ freed_ids_' = freed_ids_ \ {svc.id}
  /\ svc' = IF svc.id \in freed_ids_ THEN NoPacket
            ELSE [svc EXCEPT !.pc = "resend"]
  /\ UNCHANGED <<next_id_, waiting_, in_flight, delayed, call, resp, freed,
                 lost>>

\* A process that only answers the subscribers.
process_resend_skip ==
  /\ svc.pc = "resend"
  /\ svc' = NoPacket
  /\ UNCHANGED <<next_id_, freed_ids_, waiting_, in_flight, delayed, call,
                 resp, freed, lost>>

\* ping_->ping(EchoRequest(resp), endpoint_): the block is on its way again.
process_resend ==
  /\ svc.pc = "resend"
  /\ in_flight' = [in_flight EXCEPT ![svc.id] = @ + 1]
  /\ svc' = NoPacket
  /\ UNCHANGED <<next_id_, freed_ids_, waiting_, delayed, call, resp, freed,
                 lost>>

-----------------------------------------------------------------------------
(* The network, outside the code, may drop a packet. *)

lose(b) ==
  /\ in_flight[b] > 0
  /\ lost[b] < MaxLost
  /\ in_flight' = [in_flight EXCEPT ![b] = @ - 1]
  /\ lost' = [lost EXCEPT ![b] = @ + 1]
  /\ UNCHANGED <<next_id_, freed_ids_, waiting_, svc, delayed, call, resp,
                 freed>>

-----------------------------------------------------------------------------

Init ==
  /\ next_id_ = 1
  /\ freed_ids_ = {}
  /\ waiting_ = [b \in BlockIds |-> {}]
  /\ svc = NoPacket
  /\ in_flight = [b \in BlockIds |-> 0]
  /\ delayed = {}
  /\ call = [c \in Clients |-> NoCall]
  /\ resp = [c \in Clients |-> NoResponse]
  /\ freed = {}
  /\ lost = [b \in BlockIds |-> 0]

Next ==
  \/ \E c \in Clients :
       \/ create_block(c)
       \/ register_block(c)
       \/ \E b \in BlockIds : free_block(c, b)
       \/ \E asked \in Requests : get_blocks(c, asked)
       \/ get_return(c)
  \/ \E b \in BlockIds :
       \/ delayed_send(b)
       \/ \E tag \in {Own, Foreign} : process_receive(tag, b)
       \/ lose(b)
  \/ process_notify
  \/ should_recycle
  \/ process_resend

(***************************************************************************)
(* Threads that have something to do run on (the fuse thread in a call,    *)
(* the io thread in process, the detached delayed_send thread), and the    *)
(* socket serves its queue in order, so a packet that keeps coming back is *)
(* received although the service is busy with others in between.  Nothing  *)
(* obliges a client to make a call, nor the network to lose anything.      *)
(***************************************************************************)
Fairness ==
  /\ \A c \in Clients : WF_vars(register_block(c)) /\ WF_vars(get_return(c))
  /\ \A b \in BlockIds :
       WF_vars(delayed_send(b)) /\ SF_vars(process_receive(Own, b))
  /\ WF_vars(process_notify)
  /\ WF_vars(should_recycle)
  /\ WF_vars(process_resend)

Spec == Init /\ [][Next]_vars /\ Fairness

-----------------------------------------------------------------------------
(* Properties *)

\* The variables keep the types of the members they stand for; in particular
\* id 0, the exhausted counter, is never given to a block.
TypeOK ==
  /\ next_id_ \in 0 .. IdSpace - 1
  /\ freed_ids_ \subseteq BlockIds
  /\ waiting_ \in [BlockIds -> SUBSET Clients]
  /\ svc \in [pc : {"notify", "recycle", "resend"}, id : BlockIds]
            \cup {NoPacket}
  /\ in_flight \in [BlockIds -> Nat]
  /\ delayed \subseteq BlockIds
  /\ call \in [Clients -> [pc : {"register"}, id : BlockIds]
                          \cup {[pc |-> "wait", id |-> 0], NoCall}]
  /\ resp \in [Clients -> [asked : Seq(BlockIds), waiting_on : SUBSET BlockIds,
                           blocks : Seq(BlockIds), promise : Nat]]
  /\ freed \subseteq BlockIds
  /\ lost \in [BlockIds -> Nat]

\* Every place a copy of block b can be: with the creating thread, with the
\* sleeping delayed_send, on the network, inside PingBlockService::process.
Copies(b) ==
    (IF InHand(b) THEN Redundancy ELSE 0)
  + (IF b \in delayed THEN 1 ELSE 0)
  + in_flight[b]
  + (IF svc.pc # "idle" /\ svc.id = b THEN 1 ELSE 0)

\* should_recycle has dropped one copy of a freed block.
Reaped(b) == b \in freed /\ b \notin freed_ids_

\* Of the copies create_block made of b, each is still somewhere, was lost by
\* the network, or is the one that TrackFreedService dropped after the free.
Accounted(b) ==
  IF Allocated(b)
  THEN Copies(b) + lost[b] + (IF Reaped(b) THEN 1 ELSE 0) = Redundancy
  ELSE Copies(b) + lost[b] = 0 /\ b \notin freed

\* Custody of blocks: every copy is accounted for.  PingBlockService::process
\* neither loses a block between its steps nor multiplies it, whatever the
\* clients do meanwhile, and drops exactly one copy per free_block.
Custody == \A b \in BlockIds : Accounted(b)

\* A block that was not freed survives as long as the network lost fewer
\* copies than create_block made: the point of DuplicatePingBlockManager.
Survival ==
  \A b \in BlockIds :
    Allocated(b) /\ b \notin freed /\ lost[b] < Redundancy => Copies(b) > 0

\* AsyncBlockManager's map agrees with the responses: a client is registered
\* under an id exactly while its response waits for that id, so process never
\* reaches a finished response and never misses a waiting one.
WaitersMatch ==
  \A c \in Clients, b \in BlockIds :
    c \in waiting_[b] <=> call[c].pc = "wait" /\ b \in resp[c].waiting_on

\* What a response has and what it lacks make up what was asked, each block
\* once, and set_value was called, once, exactly if nothing is lacking.
Exact(r) ==
  /\ r.waiting_on \subseteq ToSet(r.asked)
  /\ ToSet(r.blocks) = ToSet(r.asked) \ r.waiting_on
  /\ IsInjective(r.blocks)
  /\ r.promise = IF r.waiting_on = {} THEN 1 ELSE 0

\* Every response under construction is exact, so that get_blocks returns each
\* requested block once and nothing else ("caller must ensure that set_value
\* only gets called once").
ResponseExact == \A c \in Clients : call[c].pc = "wait" => Exact(resp[c])

\* A thread in get_blocks gets its answer, unless a block it waits for is
\* freed under it or the network loses every copy of one.
ReadersServed ==
  \A c \in Clients :
    call[c].pc = "wait"
      ~> \/ call[c].pc = "idle"
         \/ \E b \in resp[c].waiting_on : b \in freed \/ lost[b] = Redundancy

\* A freed block leaves the network for good.
Leaves(b) == b \in freed ~> [](Copies(b) = 0)

\* Nobody is given it: a reader who waits for a block that was freed, and that
\* is not just being received, waits on.
Withheld(b) ==
  \A c \in Clients :
    [](b \in freed /\ svc.id # b /\ c \in waiting_[b] => [](c \in waiting_[b]))

\* free_block takes a block out of the network: with one copy per block the
\* copy is dropped when it returns, although should_recycle and free_block may
\* run between any two steps of process.
FreedLeavesNetwork == \A b \in BlockIds : Leaves(b)

\* The comment on free_block promises both, "if we receive this block, we
\* should discard it and not notify, instead of re-transmitting it"; at least
\* one should be true of every block.
FreedDiscarded == \A b \in BlockIds : Leaves(b) \/ Withheld(b)

\* The promise of BlockManager, with the store's state read off this one's.
Status(b) ==
  IF b \notin Published THEN "new"
  ELSE IF b \notin freed THEN "live"
  ELSE IF b \in freed_ids_ THEN "freed" ELSE "gone"

StoreStatus == [b \in BlockIds |-> Status(b)]
StoreBusy == {c \in Clients : call[c].pc = "wait"}
StoreMissing == [c \in Clients |-> resp[c].waiting_on]

Store == INSTANCE BlockStore WITH
  status <- StoreStatus, busy <- StoreBusy, missing <- StoreMissing

\* With one copy per block and no loss, the circulating packets implement
\* BlockStore, liveness included: no reader is given a block that is gone, no
\* id is used twice, and whoever asks for live blocks is answered.  A block
\* freed and not yet gone may be handed out (see FreedDiscarded).
ImplementsBlockStore == Store!Spec

\* A complete response lists the blocks in the order of the request, as
\* get_file_contents assumes when it concatenates the leaves of a file
\* ("depth-first left-to-right search").
ResponseInRequestOrder ==
  \A c \in Clients :
    call[c].pc = "wait" /\ resp[c].promise > 0 => resp[c].blocks = resp[c].asked

=============================================================================
