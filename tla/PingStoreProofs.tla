-------------------------- MODULE PingStoreProofs ---------------------------
(***************************************************************************)
(* Proofs about PingStore for any set of clients, any id space, either     *)
(* block manager and any number of losses.                                 *)
(***************************************************************************)
EXTENDS PingStore, TLAPS

-----------------------------------------------------------------------------
(* Facts about the operators *)

\* The 64-bit increment of next_id: one more, and 0 after the last id.
LEMMA CounterStep ==
  ASSUME NEW n \in 0 .. IdSpace - 1
  PROVE  (n + 1) % IdSpace = IF n = IdSpace - 1 THEN 0 ELSE n + 1
<1>1. CASE n = IdSpace - 1
  BY <1>1, IdSpaceAssumption, SMT
<1>2. CASE n # IdSpace - 1
  <2>1. n + 1 \in 0 .. IdSpace - 1
    BY <1>2, IdSpaceAssumption, SMT
  <2> QED BY <1>2, <2>1, IdSpaceAssumption, SMT
<1> QED BY <1>1, <1>2

\* push_back adds one element to what a vector contains.
LEMMA AppendRange ==
  ASSUME NEW S, NEW s \in Seq(S), NEW e \in S
  PROVE  ToSet(Append(s, e)) = ToSet(s) \cup {e}
<1>1. /\ Append(s, e) \in Seq(S)
      /\ Len(Append(s, e)) = Len(s) + 1
      /\ \A i \in 1 .. Len(s) : Append(s, e)[i] = s[i]
      /\ Append(s, e)[Len(s) + 1] = e
      /\ DOMAIN s = 1 .. Len(s)
      /\ DOMAIN Append(s, e) = 1 .. Len(s) + 1
      /\ Len(s) \in Nat
  OBVIOUS
<1>2. ASSUME NEW x \in ToSet(Append(s, e)) PROVE x \in ToSet(s) \cup {e}
  <2>1. PICK i \in 1 .. Len(s) + 1 : Append(s, e)[i] = x
    BY <1>1, <1>2 DEF ToSet
  <2>2. CASE i = Len(s) + 1
    BY <1>1, <2>1, <2>2
  <2>3. CASE i \in 1 .. Len(s)
    BY <1>1, <2>1, <2>3 DEF ToSet
  <2> QED BY <1>1, <2>1, <2>2, <2>3
<1>3. ASSUME NEW x \in ToSet(s) PROVE x \in ToSet(Append(s, e))
  <2>1. PICK i \in 1 .. Len(s) : s[i] = x
    BY <1>1, <1>3 DEF ToSet
  <2>2. i \in DOMAIN Append(s, e) /\ Append(s, e)[i] = x
    BY <1>1, <2>1
  <2> QED BY <2>2 DEF ToSet
<1>4. e \in ToSet(Append(s, e))
  <2>1. Len(s) + 1 \in DOMAIN Append(s, e)
    BY <1>1
  <2> QED BY <1>1, <2>1 DEF ToSet
<1> QED BY <1>2, <1>3, <1>4

\* push_back of a block not yet in blocks_ makes no duplicate.
LEMMA FreshAppendInjective ==
  ASSUME NEW S, NEW s \in Seq(S), NEW e \in S
  PROVE  IsInjective(s) /\ e \notin ToSet(s) => IsInjective(Append(s, e))
<1> SUFFICES ASSUME IsInjective(s), e \notin ToSet(s)
             PROVE  IsInjective(Append(s, e))
  OBVIOUS
<1>1. /\ Len(Append(s, e)) = Len(s) + 1
      /\ \A i \in 1 .. Len(s) : Append(s, e)[i] = s[i]
      /\ Append(s, e)[Len(s) + 1] = e
      /\ DOMAIN s = 1 .. Len(s)
      /\ DOMAIN Append(s, e) = 1 .. Len(s) + 1
      /\ Len(s) \in Nat
  OBVIOUS
<1>2. \A i \in 1 .. Len(s) : s[i] # e
  BY <1>1 DEF ToSet
<1>3. \A i, j \in 1 .. Len(s) : s[i] = s[j] => i = j
  BY <1>1 DEF IsInjective
<1>4. ASSUME NEW i \in 1 .. Len(s) + 1, NEW j \in 1 .. Len(s) + 1,
             Append(s, e)[i] = Append(s, e)[j]
      PROVE  i = j
  <2>1. CASE i \in 1 .. Len(s) /\ j \in 1 .. Len(s)
    BY <1>1, <1>3, <1>4, <2>1
  <2>2. CASE i = Len(s) + 1 \/ j = Len(s) + 1
    BY <1>1, <1>2, <1>4, <2>2
  <2> QED BY <1>1, <2>1, <2>2
<1> QED BY <1>1, <1>4 DEF IsInjective

\* A BlockRequest is a list of block ids.
LEMMA RequestsAreSequences ==
  ASSUME NEW asked \in Requests
  PROVE  asked \in Seq(BlockIds) /\ ToSet(asked) \subseteq BlockIds
<1>1. PICK n \in 0 .. MaxAsk : asked \in [1 .. n -> BlockIds]
  BY DEF Requests
<1>2. n \in Nat
  BY <1>1, BoundsAssumption
<1>3. asked \in Seq(BlockIds)
  BY <1>1, <1>2
<1> QED BY <1>1, <1>3 DEF ToSet

\* The type of an AsyncResponse.
Responses == [asked : Seq(BlockIds), waiting_on : SUBSET BlockIds,
              blocks : Seq(BlockIds), promise : Nat]

\* notify_if_complete returns a response.
LEMMA NotifyType ==
  ASSUME NEW r \in Responses
  PROVE  notify_if_complete(r) \in Responses
BY DEF notify_if_complete, Responses

\* The constructor of AsyncResponse makes a response.
LEMMA ResponseType ==
  ASSUME NEW asked \in Requests
  PROVE  AsyncResponse(asked) \in Responses
<1>1. asked \in Seq(BlockIds) /\ ToSet(asked) \subseteq BlockIds
  BY RequestsAreSequences
<1>2. [asked |-> asked, waiting_on |-> ToSet(asked),
       blocks |-> <<>>, promise |-> 0] \in Responses
  BY <1>1 DEF Responses
<1> QED BY <1>2, NotifyType DEF AsyncResponse

\* update keeps a response a response.
LEMMA UpdateType ==
  ASSUME NEW r \in Responses, NEW b \in BlockIds
  PROVE  update(r, b) \in Responses
<1>1. Append(r.blocks, b) \in Seq(BlockIds)
  BY DEF Responses
<1>2. r.waiting_on \ {b} \in SUBSET BlockIds
  BY DEF Responses
<1>3. [r EXCEPT !.waiting_on = @ \ {b}, !.blocks = Append(@, b)] \in Responses
  BY <1>1, <1>2 DEF Responses
<1> QED BY <1>3, NotifyType DEF update

-----------------------------------------------------------------------------
(* Type correctness *)

\* Ids a creating thread or the service holds are ids of blocks.
LEMMA HeldIds ==
  ASSUME TypeOK
  PROVE  /\ \A c \in Clients : call[c].pc = "register" => call[c].id \in BlockIds
         /\ svc.pc # "idle" => svc.id \in BlockIds
<1>1. ASSUME NEW c \in Clients, call[c].pc = "register"
      PROVE  call[c].id \in BlockIds
  <2>1. call[c] \in [pc : {"register"}, id : BlockIds]
                   \cup {[pc |-> "wait", id |-> 0], NoCall}
    BY DEF TypeOK
  <2>2. call[c] # [pc |-> "wait", id |-> 0] /\ call[c] # NoCall
    BY <1>1 DEF NoCall
  <2> QED BY <2>1, <2>2
<1>2. ASSUME svc.pc # "idle" PROVE svc.id \in BlockIds
  BY <1>2 DEF TypeOK, NoPacket
<1> QED BY <1>1, <1>2

\* The managers start well typed.
LEMMA TypeInit == Init => TypeOK
<1> SUFFICES ASSUME Init PROVE TypeOK
  OBVIOUS
<1>1. 1 \in 0 .. IdSpace - 1
  BY IdSpaceAssumption
<1> QED BY <1>1 DEF Init, TypeOK, NoPacket, NoCall, NoResponse, BlockIds

\* Every step of the managers and the network keeps the types.
LEMMA TypeNext == TypeOK /\ [Next]_vars => TypeOK'
<1> SUFFICES ASSUME TypeOK, [Next]_vars PROVE TypeOK'
  OBVIOUS
<1> USE DEF NoPacket, NoCall
<1>1. ASSUME NEW c \in Clients, create_block(c) PROVE TypeOK'
  <2>1. next_id_ \in BlockIds
    BY <1>1 DEF create_block, next_id, TypeOK, BlockIds
  <2>2. next_id_' \in 0 .. IdSpace - 1
    <3>1. next_id_ \in 0 .. IdSpace - 1
      BY DEF TypeOK
    <3>2. next_id_' = IF next_id_ = IdSpace - 1 THEN 0 ELSE next_id_ + 1
      BY <1>1, <3>1, CounterStep DEF create_block, next_id
    <3> QED BY <3>1, <3>2, IdSpaceAssumption
  <2> QED BY <1>1, <2>1, <2>2 DEF create_block, next_id, TypeOK
<1>2. ASSUME NEW c \in Clients, register_block(c) PROVE TypeOK'
  <2>1. call[c].id \in BlockIds
    BY <1>2, HeldIds DEF register_block
  <2>2. delayed' \subseteq BlockIds
    BY <1>2, <2>1 DEF register_block, TypeOK
  <2>3. in_flight' \in [BlockIds -> Nat]
    BY <1>2, <2>1 DEF register_block, TypeOK
  <2>4. call' \in [Clients -> [pc : {"register"}, id : BlockIds]
                             \cup {[pc |-> "wait", id |-> 0], NoCall}]
    BY <1>2 DEF register_block, TypeOK
  <2>5. UNCHANGED <<next_id_, freed_ids_, waiting_, svc, resp, freed, lost>>
    BY <1>2 DEF register_block
  <2> QED BY <2>2, <2>3, <2>4, <2>5 DEF TypeOK
<1>3. ASSUME NEW c \in Clients, NEW b \in BlockIds, free_block(c, b)
      PROVE  TypeOK'
  BY <1>3 DEF free_block, TypeOK
<1>4. ASSUME NEW c \in Clients, NEW asked \in Requests, get_blocks(c, asked)
      PROVE  TypeOK'
  <2>1. AsyncResponse(asked) \in Responses
    BY ResponseType
  <2>2. resp' \in [Clients -> Responses]
    BY <1>4, <2>1 DEF get_blocks, TypeOK, Responses
  <2>3. waiting_' \in [BlockIds -> SUBSET Clients]
    BY <1>4 DEF get_blocks, TypeOK
  <2> QED BY <1>4, <2>2, <2>3 DEF get_blocks, TypeOK, Responses
<1>5. ASSUME NEW c \in Clients, get_return(c) PROVE TypeOK'
  <2>1. NoResponse \in Responses
    BY DEF NoResponse, Responses
  <2>2. resp' \in [Clients -> Responses]
    BY <1>5, <2>1 DEF get_return, TypeOK, Responses
  <2> QED BY <1>5, <2>2 DEF get_return, TypeOK, Responses
<1>6. ASSUME NEW b \in BlockIds, delayed_send(b) PROVE TypeOK'
  BY <1>6 DEF delayed_send, TypeOK
<1>7. ASSUME NEW tag \in {Own, Foreign}, NEW b \in BlockIds,
             process_receive(tag, b)
      PROVE  TypeOK'
  <2>1. in_flight' \in [BlockIds -> Nat]
    BY <1>7 DEF process_receive, TypeOK
  <2> QED BY <1>7, <2>1 DEF process_receive, TypeOK
<1>8. ASSUME NEW b \in BlockIds, lose(b) PROVE TypeOK'
  BY <1>8 DEF lose, TypeOK
<1>9. ASSUME process_notify PROVE TypeOK'
  <2>1. svc.id \in BlockIds
    BY <1>9 DEF process_notify, TypeOK
  <2>2. resp' \in [Clients -> Responses]
    BY <1>9, <2>1, UpdateType DEF process_notify, TypeOK, Responses
  <2> QED BY <1>9, <2>1, <2>2 DEF process_notify, TypeOK, Responses
<1>10. ASSUME should_recycle PROVE TypeOK'
  BY <1>10 DEF should_recycle, TypeOK
<1>11. ASSUME process_resend PROVE TypeOK'
  <2>1. svc.id \in BlockIds
    BY <1>11 DEF process_resend, TypeOK
  <2> QED BY <1>11, <2>1 DEF process_resend, TypeOK
<1>12. CASE UNCHANGED vars
  BY <1>12 DEF vars, TypeOK
<1> QED
  BY <1>1, <1>2, <1>3, <1>4, <1>5, <1>6, <1>7, <1>8, <1>9, <1>10, <1>11, <1>12
  DEF Next

\* Type correctness: the members of the managers, the service and the responses
\* keep their types, and no block ever has id 0.
THEOREM TypeCorrect == Spec => []TypeOK
<1>1. Init => TypeOK
  BY TypeInit
<1>2. TypeOK /\ [Next]_vars => TypeOK'
  BY TypeNext
<1> QED BY <1>1, <1>2, PTL DEF Spec

-----------------------------------------------------------------------------
(* Custody *)

\* No two threads register the same block: ids are handed out once.
HandsApart ==
  \A c, d \in Clients :
    /\ call[c].pc = "register"
    /\ call[d].pc = "register"
    /\ call[c].id = call[d].id
    => c = d

\* The service knows of a free only if a client made it.
FreedKnown == freed_ids_ \subseteq freed

\* Custody is inductive with these two and the types.
CustodyInv == TypeOK /\ HandsApart /\ FreedKnown /\ Custody

\* create_block puts one or two copies on the network.
LEMMA RedundancyType == Redundancy \in {1, 2} /\ (Duplicate <=> Redundancy = 2)
BY DuplicateAssumption DEF Redundancy

\* At the start there are no copies and no ids handed out.
LEMMA CustodyInit == Init => CustodyInv
<1> SUFFICES ASSUME Init PROVE CustodyInv
  OBVIOUS
<1>1. TypeOK
  BY TypeInit
<1>2. HandsApart /\ FreedKnown
  BY DEF Init, HandsApart, FreedKnown, NoCall
<1>3. ASSUME NEW b \in BlockIds PROVE Accounted(b)
  <2>1. ~ Allocated(b)
    BY IdSpaceAssumption DEF Init, Allocated, BlockIds
  <2>2. ~ InHand(b)
    BY DEF Init, InHand, NoCall
  <2> QED BY <2>1, <2>2 DEF Init, Accounted, Copies, NoPacket
<1> QED BY <1>1, <1>2, <1>3 DEF CustodyInv, Custody

\* An id in a thread's hand is allocated, and all its copies are there.
LEMMA InHandAlone ==
  ASSUME CustodyInv, NEW b \in BlockIds, InHand(b)
  PROVE  /\ Allocated(b)
         /\ in_flight[b] = 0
         /\ b \notin delayed
         /\ lost[b] = 0
         /\ ~ (svc.pc # "idle" /\ svc.id = b)
         /\ ~ Reaped(b)
<1>1. Accounted(b)
  BY DEF CustodyInv, Custody
<1>2. in_flight[b] \in Nat /\ lost[b] \in Nat
  BY DEF CustodyInv, TypeOK
<1> QED BY <1>1, <1>2, RedundancyType DEF Accounted, Copies

\* Taking an id puts all its copies into the hands of one thread.
LEMMA CustodyCreate ==
  ASSUME CustodyInv, NEW c \in Clients, create_block(c)
  PROVE  HandsApart' /\ FreedKnown' /\ Custody'
<1> DEFINE n == next_id_
<1>1. n \in BlockIds /\ n \in 0 .. IdSpace - 1
  BY DEF create_block, next_id, CustodyInv, TypeOK, BlockIds
<1>2. next_id_' = IF n = IdSpace - 1 THEN 0 ELSE n + 1
  BY <1>1, CounterStep DEF create_block, next_id
<1>3. ~ Allocated(n)
  BY <1>1 DEF create_block, next_id, Allocated, BlockIds
<1>4. \A b \in BlockIds : Allocated(b)' <=> Allocated(b) \/ b = n
  BY <1>1, <1>2, IdSpaceAssumption
  DEF Allocated, BlockIds, create_block, next_id
<1>5. call' = [call EXCEPT ![c] = [pc |-> "register", id |-> n]]
      /\ call \in [Clients -> [pc : {"register"}, id : BlockIds]
                              \cup {[pc |-> "wait", id |-> 0], NoCall}]
  BY DEF create_block, next_id, CustodyInv, TypeOK
<1>6. ~ InHand(n)
  BY <1>1, <1>3, InHandAlone
<1>7. \A b \in BlockIds : InHand(b)' <=> InHand(b) \/ b = n
  BY <1>5 DEF InHand, create_block
<1>8. HandsApart'
  BY <1>5, <1>6 DEF CustodyInv, HandsApart, InHand, create_block
<1>9. FreedKnown'
  BY DEF create_block, CustodyInv, FreedKnown
<1>10. ASSUME NEW b \in BlockIds PROVE Accounted(b)'
  <2>1. Accounted(b)
    BY DEF CustodyInv, Custody
  <2>2. in_flight[b] \in Nat /\ lost[b] \in Nat
    BY DEF CustodyInv, TypeOK
  <2>3. UNCHANGED <<freed_ids_, svc, in_flight, delayed, freed, lost>>
    BY DEF create_block
  <2>4. CASE b # n
    BY <1>4, <1>7, <2>1, <2>3, <2>4 DEF Accounted, Copies, Reaped
  <2>5. CASE b = n
    BY <1>3, <1>4, <1>6, <1>7, <2>1, <2>2, <2>3, <2>5, RedundancyType
    DEF Accounted, Copies, Reaped
  <2> QED BY <2>4, <2>5
<1> QED BY <1>8, <1>9, <1>10 DEF Custody

\* register_block moves the copies from the thread to the network and to
\* the sleeping delayed_send.
LEMMA CustodyRegister ==
  ASSUME CustodyInv, NEW c \in Clients, register_block(c)
  PROVE  HandsApart' /\ FreedKnown' /\ Custody'
<1> DEFINE n == call[c].id
<1>1. n \in BlockIds
  BY HeldIds DEF register_block, CustodyInv
<1>2. InHand(n)
  BY DEF register_block, InHand
<1>3. call' = [call EXCEPT ![c] = NoCall]
      /\ call \in [Clients -> [pc : {"register"}, id : BlockIds]
                              \cup {[pc |-> "wait", id |-> 0], NoCall}]
  BY DEF register_block, CustodyInv, TypeOK
<1>4. \A b \in BlockIds : InHand(b)' <=> InHand(b) /\ b # n
  BY <1>3 DEF InHand, CustodyInv, HandsApart, register_block, NoCall
<1>5. HandsApart'
  BY <1>3 DEF CustodyInv, HandsApart, NoCall
<1>6. FreedKnown'
  BY DEF register_block, CustodyInv, FreedKnown
<1>7. ASSUME NEW b \in BlockIds PROVE Accounted(b)'
  <2>1. Accounted(b)
    BY DEF CustodyInv, Custody
  <2>2. in_flight \in [BlockIds -> Nat] /\ lost[b] \in Nat
    BY DEF CustodyInv, TypeOK
  <2>3. /\ UNCHANGED <<next_id_, freed_ids_, svc, freed, lost>>
        /\ in_flight' = [in_flight EXCEPT ![n] = @ + 1]
        /\ delayed' = IF Duplicate THEN delayed \cup {n} ELSE delayed
    BY DEF register_block
  <2>4. CASE b # n
    <3>1. in_flight'[b] = in_flight[b] /\ (b \in delayed' <=> b \in delayed)
      BY <1>1, <2>2, <2>3, <2>4
    <3> QED
      BY <1>4, <2>1, <2>3, <2>4, <3>1 DEF Accounted, Copies, Reaped, Allocated
  <2>5. CASE b = n
    <3>1. /\ Allocated(b) /\ in_flight[b] = 0 /\ b \notin delayed
          /\ lost[b] = 0 /\ ~ (svc.pc # "idle" /\ svc.id = b) /\ ~ Reaped(b)
      BY <1>2, <2>5, InHandAlone
    <3>2. /\ in_flight'[b] = 1
          /\ b \in delayed' <=> Duplicate
      BY <1>1, <2>2, <2>3, <2>5, <3>1
    <3>3. ~ InHand(b)' /\ Allocated(b)' /\ ~ Reaped(b)'
      BY <1>4, <2>3, <2>5, <3>1 DEF Allocated, Reaped
    <3>4. Copies(b)' = Redundancy
      BY <2>3, <3>1, <3>2, <3>3, RedundancyType DEF Copies
    <3> QED BY <2>3, <3>1, <3>3, <3>4, RedundancyType DEF Accounted
  <2> QED BY <2>4, <2>5
<1> QED BY <1>5, <1>6, <1>7 DEF Custody

\* free_block moves no copy.
LEMMA CustodyFree ==
  ASSUME CustodyInv, NEW c \in Clients, NEW n \in BlockIds, free_block(c, n)
  PROVE  HandsApart' /\ FreedKnown' /\ Custody'
<1>1. /\ UNCHANGED <<next_id_, svc, in_flight, delayed, call, lost>>
      /\ freed_ids_' = freed_ids_ \cup {n}
      /\ freed' = freed \cup {n}
      /\ n \notin freed
      /\ Allocated(n)
  BY DEF free_block, Published
<1>2. HandsApart'
  BY <1>1 DEF CustodyInv, HandsApart
<1>3. FreedKnown'
  BY <1>1 DEF CustodyInv, FreedKnown
<1>4. ASSUME NEW b \in BlockIds PROVE Accounted(b)'
  <2>1. Accounted(b)
    BY DEF CustodyInv, Custody
  <2>2. InHand(b)' <=> InHand(b)
    BY <1>1 DEF InHand
  <2>3. Reaped(b)' <=> Reaped(b)
    BY <1>1 DEF Reaped
  <2>4. Allocated(b)' <=> Allocated(b)
    BY <1>1 DEF Allocated
  <2> QED BY <1>1, <2>1, <2>2, <2>3, <2>4 DEF Accounted, Copies
<1> QED BY <1>2, <1>3, <1>4 DEF Custody

\* get_blocks and get_return move no block.
LEMMA CustodyGet ==
  ASSUME CustodyInv, NEW c \in Clients,
         UNCHANGED <<next_id_, freed_ids_, svc, in_flight, delayed, freed, lost>>,
         call[c].pc # "register",
         \E m \in {NoCall, [pc |-> "wait", id |-> 0]} :
           call' = [call EXCEPT ![c] = m]
  PROVE  HandsApart' /\ FreedKnown' /\ Custody'
<1>1. PICK m \in {NoCall, [pc |-> "wait", id |-> 0]} :
        call' = [call EXCEPT ![c] = m]
  OBVIOUS
<1>2. m.pc # "register"
  BY <1>1 DEF NoCall
<1>3. call \in [Clients -> [pc : {"register"}, id : BlockIds]
                           \cup {[pc |-> "wait", id |-> 0], NoCall}]
  BY DEF CustodyInv, TypeOK
<1>4. \A d \in Clients : \/ call'[d] = call[d]
                         \/ call'[d].pc # "register" /\ call[d].pc # "register"
  BY <1>1, <1>2, <1>3
<1>5. HandsApart'
  BY <1>4 DEF CustodyInv, HandsApart
<1>6. FreedKnown'
  BY DEF CustodyInv, FreedKnown
<1>7. ASSUME NEW b \in BlockIds PROVE Accounted(b)'
  <2>1. Accounted(b)
    BY DEF CustodyInv, Custody
  <2>2. InHand(b)' <=> InHand(b)
    BY <1>4 DEF InHand
  <2> QED BY <2>1, <2>2 DEF Accounted, Copies, Reaped, Allocated
<1> QED BY <1>5, <1>6, <1>7 DEF Custody

\* The steps below touch neither the counter nor the clients' calls; a block
\* moves between delayed_send, the network, the service and the lost.
LEMMA CustodyMove ==
  ASSUME CustodyInv, UNCHANGED <<next_id_, call, freed>>,
         freed_ids_' \subseteq freed_ids_,
         NEW n \in BlockIds, Accounted(n)',
         \A b \in BlockIds \ {n} :
           /\ b \in freed_ids_' <=> b \in freed_ids_
           /\ b \in delayed' <=> b \in delayed
           /\ in_flight'[b] = in_flight[b]
           /\ lost'[b] = lost[b]
           /\ (svc'.pc # "idle" /\ svc'.id = b) <=> (svc.pc # "idle" /\ svc.id = b)
  PROVE  HandsApart' /\ FreedKnown' /\ Custody'
<1>1. HandsApart' /\ FreedKnown'
  BY DEF CustodyInv, HandsApart, FreedKnown
<1>2. ASSUME NEW b \in BlockIds, b # n PROVE Accounted(b)'
  <2>1. Accounted(b)
    BY DEF CustodyInv, Custody
  <2>2. InHand(b)' <=> InHand(b)
    BY DEF InHand
  <2>3. (Reaped(b)' <=> Reaped(b)) /\ (Allocated(b)' <=> Allocated(b))
    BY <1>2 DEF Reaped, Allocated
  <2>4. Copies(b)' = Copies(b) /\ lost'[b] = lost[b]
    BY <1>2, <2>2 DEF Copies
  <2> QED BY <2>1, <2>3, <2>4 DEF Accounted
<1> QED BY <1>1, <1>2 DEF Custody

\* delayed_send moves its copy to the network.
LEMMA CustodyDelayedSend ==
  ASSUME CustodyInv, NEW n \in BlockIds, delayed_send(n)
  PROVE  HandsApart' /\ FreedKnown' /\ Custody'
<1>1. in_flight \in [BlockIds -> Nat] /\ lost[n] \in Nat
  BY DEF CustodyInv, TypeOK
<1>2. /\ UNCHANGED <<next_id_, freed_ids_, svc, call, freed, lost>>
      /\ n \in delayed /\ delayed' = delayed \ {n}
      /\ in_flight' = [in_flight EXCEPT ![n] = @ + 1]
  BY DEF delayed_send
<1>3. Accounted(n)'
  <2>1. Accounted(n)
    BY DEF CustodyInv, Custody
  <2>2. (InHand(n)' <=> InHand(n)) /\ (Reaped(n)' <=> Reaped(n))
        /\ (Allocated(n)' <=> Allocated(n))
    BY <1>2 DEF InHand, Reaped, Allocated
  <2>3. Copies(n)' = Copies(n)
    BY <1>1, <1>2, <2>2, RedundancyType DEF Copies
  <2> QED BY <1>2, <2>1, <2>2, <2>3 DEF Accounted
<1> QED BY <1>1, <1>2, <1>3, CustodyMove

\* Receiving moves a copy from the network into process.
LEMMA CustodyReceive ==
  ASSUME CustodyInv, NEW tag \in {Own, Foreign}, NEW n \in BlockIds,
         process_receive(tag, n)
  PROVE  HandsApart' /\ FreedKnown' /\ Custody'
<1>1. in_flight \in [BlockIds -> Nat] /\ lost[n] \in Nat
  BY DEF CustodyInv, TypeOK
<1>2. Accounted(n)
  BY DEF CustodyInv, Custody
<1>3. UNCHANGED <<next_id_, freed_ids_, delayed, call, freed, lost>>
      /\ svc.pc = "idle"
  BY DEF process_receive
<1>4. (InHand(n)' <=> InHand(n)) /\ (Reaped(n)' <=> Reaped(n))
      /\ (Allocated(n)' <=> Allocated(n))
  BY <1>3 DEF InHand, Reaped, Allocated
<1>5. CASE tag = Own
  <2>1. /\ in_flight[n] > 0
        /\ in_flight' = [in_flight EXCEPT ![n] = @ - 1]
        /\ svc' = [pc |-> "notify", id |-> n]
    BY <1>5 DEF process_receive, Matches
  <2>2. Copies(n)' = Copies(n)
    BY <1>1, <1>3, <1>4, <2>1, RedundancyType DEF Copies
  <2>3. Accounted(n)'
    BY <1>2, <1>3, <1>4, <2>2 DEF Accounted
  <2> QED BY <1>1, <1>3, <2>1, <2>3, CustodyMove
<1>6. CASE tag = Foreign
  <2>1. UNCHANGED <<in_flight, svc>>
    BY <1>6 DEF process_receive, Matches, Own, Foreign
  <2>2. Copies(n)' = Copies(n)
    BY <1>3, <1>4, <2>1 DEF Copies
  <2>3. Accounted(n)'
    BY <1>2, <1>3, <1>4, <2>2 DEF Accounted
  <2> QED BY <1>3, <2>1, <2>3, CustodyMove
<1> QED BY <1>5, <1>6

\* A lost copy is counted as lost.
LEMMA CustodyLose ==
  ASSUME CustodyInv, NEW n \in BlockIds, lose(n)
  PROVE  HandsApart' /\ FreedKnown' /\ Custody'
<1>1. in_flight \in [BlockIds -> Nat] /\ lost \in [BlockIds -> Nat]
  BY DEF CustodyInv, TypeOK
<1>2. /\ UNCHANGED <<next_id_, freed_ids_, delayed, svc, call, freed>>
      /\ in_flight[n] > 0
      /\ in_flight' = [in_flight EXCEPT ![n] = @ - 1]
      /\ lost' = [lost EXCEPT ![n] = @ + 1]
  BY DEF lose
<1>3. Accounted(n)'
  <2>1. Accounted(n)
    BY DEF CustodyInv, Custody
  <2>2. (InHand(n)' <=> InHand(n)) /\ (Reaped(n)' <=> Reaped(n))
        /\ (Allocated(n)' <=> Allocated(n))
    BY <1>2 DEF InHand, Reaped, Allocated
  <2>3. Copies(n)' = Copies(n) - 1 /\ lost'[n] = lost[n] + 1
        /\ Copies(n) \in Nat /\ lost[n] \in Nat
    BY <1>1, <1>2, <2>2, RedundancyType DEF Copies
  <2> QED BY <2>1, <2>2, <2>3, <1>2, RedundancyType DEF Accounted
<1> QED BY <1>1, <1>2, <1>3, CustodyMove

\* The later steps of process keep, drop or send the copy they hold.
LEMMA CustodyProcess ==
  ASSUME CustodyInv, process_notify \/ should_recycle \/ process_resend
  PROVE  HandsApart' /\ FreedKnown' /\ Custody'
<1>1. svc.pc # "idle"
  BY DEF process_notify, should_recycle, process_resend
<1>2. PICK n \in BlockIds : svc.id = n
  BY <1>1, HeldIds DEF CustodyInv
<1>3. in_flight \in [BlockIds -> Nat] /\ lost[n] \in Nat
  BY DEF CustodyInv, TypeOK
<1>4. Accounted(n)
  BY DEF CustodyInv, Custody
<1>5. UNCHANGED <<next_id_, delayed, call, freed, lost>>
  BY DEF process_notify, should_recycle, process_resend
<1>6. (InHand(n)' <=> InHand(n)) /\ (Allocated(n)' <=> Allocated(n))
  BY <1>5 DEF InHand, Allocated
<1>7. CASE process_notify
  <2>1. UNCHANGED <<freed_ids_, in_flight>> /\ svc'.pc = "recycle" /\ svc'.id = n
    BY <1>1, <1>2, <1>7 DEF process_notify, CustodyInv, TypeOK, NoPacket
  <2>2. Copies(n)' = Copies(n) /\ (Reaped(n)' <=> Reaped(n))
    BY <1>1, <1>2, <1>5, <1>6, <2>1 DEF Copies, Reaped
  <2>3. Accounted(n)'
    BY <1>4, <1>5, <1>6, <2>2 DEF Accounted
  <2> QED BY <1>1, <1>2, <1>5, <2>1, <2>3, CustodyMove
<1>8. CASE should_recycle
  <2>1. UNCHANGED in_flight /\ freed_ids_' = freed_ids_ \ {n}
    BY <1>2, <1>8 DEF should_recycle
  <2>2. CASE n \in freed_ids_
    <3>1. svc' = NoPacket
      BY <1>2, <1>8, <2>2 DEF should_recycle
    <3>2. ~ Reaped(n) /\ Reaped(n)'
      BY <1>5, <2>1, <2>2 DEF Reaped, CustodyInv, FreedKnown
    <3>3. Copies(n)' = Copies(n) - 1 /\ Copies(n) \in Nat
      BY <1>1, <1>2, <1>3, <1>5, <1>6, <2>1, <3>1, RedundancyType
      DEF Copies, NoPacket
    <3>4. Allocated(n)
      BY <1>4, <2>2 DEF Accounted, CustodyInv, FreedKnown
    <3>5. Accounted(n)'
      BY <1>3, <1>4, <1>5, <1>6, <3>2, <3>3, <3>4, RedundancyType DEF Accounted
    <3> QED BY <1>1, <1>2, <1>5, <2>1, <3>1, <3>5, CustodyMove DEF NoPacket
  <2>3. CASE n \notin freed_ids_
    <3>1. svc'.pc = "resend" /\ svc'.id = n /\ freed_ids_' = freed_ids_
      BY <1>1, <1>2, <1>8, <2>1, <2>3 DEF should_recycle, CustodyInv, TypeOK, NoPacket
    <3>2. Copies(n)' = Copies(n) /\ (Reaped(n)' <=> Reaped(n))
      BY <1>1, <1>2, <1>5, <1>6, <2>1, <3>1 DEF Copies, Reaped
    <3>3. Accounted(n)'
      BY <1>4, <1>5, <1>6, <3>2 DEF Accounted
    <3> QED BY <1>1, <1>2, <1>5, <2>1, <3>1, <3>3, CustodyMove
  <2> QED BY <2>2, <2>3
<1>9. CASE process_resend
  <2>1. /\ UNCHANGED freed_ids_ /\ svc' = NoPacket
        /\ in_flight' = [in_flight EXCEPT ![n] = @ + 1]
    BY <1>2, <1>9 DEF process_resend
  <2>2. Copies(n)' = Copies(n) /\ (Reaped(n)' <=> Reaped(n))
    BY <1>1, <1>2, <1>3, <1>5, <1>6, <2>1, RedundancyType
    DEF Copies, Reaped, NoPacket
  <2>3. Accounted(n)'
    BY <1>4, <1>5, <1>6, <2>2 DEF Accounted
  <2> QED BY <1>1, <1>2, <1>3, <1>5, <2>1, <2>3, CustodyMove DEF NoPacket
<1> QED BY <1>7, <1>8, <1>9

\* Every step preserves the inductive invariant of custody.
LEMMA CustodyNext == CustodyInv /\ [Next]_vars => CustodyInv'
<1> SUFFICES ASSUME CustodyInv, [Next]_vars PROVE CustodyInv'
  OBVIOUS
<1>1. TypeOK'
  BY TypeNext DEF CustodyInv
<1> SUFFICES HandsApart' /\ FreedKnown' /\ Custody'
  BY <1>1 DEF CustodyInv
<1>2. ASSUME NEW c \in Clients, create_block(c)
      PROVE  HandsApart' /\ FreedKnown' /\ Custody'
  BY <1>2, CustodyCreate
<1>3. ASSUME NEW c \in Clients, register_block(c)
      PROVE  HandsApart' /\ FreedKnown' /\ Custody'
  BY <1>3, CustodyRegister
<1>4. ASSUME NEW c \in Clients, NEW b \in BlockIds, free_block(c, b)
      PROVE  HandsApart' /\ FreedKnown' /\ Custody'
  BY <1>4, CustodyFree
<1>5. ASSUME NEW c \in Clients, NEW asked \in Requests, get_blocks(c, asked)
      PROVE  HandsApart' /\ FreedKnown' /\ Custody'
  <2>1. call[c].pc # "register"
    BY <1>5 DEF get_blocks
  <2> QED BY <1>5, <2>1, CustodyGet DEF get_blocks
<1>6. ASSUME NEW c \in Clients, get_return(c)
      PROVE  HandsApart' /\ FreedKnown' /\ Custody'
  <2>1. call[c].pc # "register"
    BY <1>6 DEF get_return
  <2> QED BY <1>6, <2>1, CustodyGet DEF get_return
<1>7. ASSUME NEW b \in BlockIds, delayed_send(b)
      PROVE  HandsApart' /\ FreedKnown' /\ Custody'
  BY <1>7, CustodyDelayedSend
<1>8. ASSUME NEW tag \in {Own, Foreign}, NEW b \in BlockIds,
             process_receive(tag, b)
      PROVE  HandsApart' /\ FreedKnown' /\ Custody'
  BY <1>8, CustodyReceive
<1>9. ASSUME NEW b \in BlockIds, lose(b)
      PROVE  HandsApart' /\ FreedKnown' /\ Custody'
  BY <1>9, CustodyLose
<1>10. CASE process_notify \/ should_recycle \/ process_resend
  BY <1>10, CustodyProcess
<1>11. CASE UNCHANGED vars
  <2>1. HandsApart' /\ FreedKnown'
    BY <1>11 DEF CustodyInv, vars, HandsApart, FreedKnown
  <2>2. ASSUME NEW b \in BlockIds PROVE Accounted(b)'
    <3>1. Accounted(b)
      BY DEF CustodyInv, Custody
    <3>2. InHand(b)' <=> InHand(b)
      BY <1>11 DEF vars, InHand
    <3> QED BY <1>11, <3>1, <3>2 DEF vars, Accounted, Copies, Reaped, Allocated
  <2> QED BY <2>1, <2>2 DEF Custody
<1> QED
  BY <1>2, <1>3, <1>4, <1>5, <1>6, <1>7, <1>8, <1>9, <1>10, <1>11 DEF Next

\* Every copy of every block is accounted for, for any number of clients and
\* blocks, either manager and any losses: the service neither loses nor
\* multiplies a block, and one free drops exactly one copy.
THEOREM CustodyHolds == Spec => []Custody
<1>1. Init => CustodyInv
  BY CustodyInit
<1>2. CustodyInv /\ [Next]_vars => CustodyInv'
  BY CustodyNext
<1>3. CustodyInv => Custody
  BY DEF CustodyInv
<1> QED BY <1>1, <1>2, <1>3, PTL DEF Spec

\* A block nobody freed survives while fewer copies are lost than were made:
\* none with PingBlockManager, one with DuplicatePingBlockManager.
THEOREM SurvivalHolds == Spec => []Survival
<1>1. Init => CustodyInv
  BY CustodyInit
<1>2. CustodyInv /\ [Next]_vars => CustodyInv'
  BY CustodyNext
<1>3. CustodyInv => Survival
  <2> SUFFICES ASSUME CustodyInv, NEW b \in BlockIds, Allocated(b),
                      b \notin freed, lost[b] < Redundancy
               PROVE  Copies(b) > 0
    BY DEF Survival
  <2>1. in_flight[b] \in Nat /\ lost[b] \in Nat
    BY DEF CustodyInv, TypeOK
  <2>2. Copies(b) \in Nat
    BY <2>1, RedundancyType DEF Copies
  <2>3. Copies(b) + lost[b] = Redundancy
    BY <2>1, <2>2 DEF CustodyInv, Custody, Accounted, Reaped
  <2> QED BY <2>1, <2>2, <2>3, RedundancyType
<1> QED BY <1>1, <1>2, <1>3, PTL DEF Spec

-----------------------------------------------------------------------------
(* Responses *)

\* A client outside get_blocks has no response.
IdleEmpty == \A c \in Clients : call[c].pc # "wait" => resp[c] = NoResponse

\* The map of waiting clients and the responses depend on each other only.
ResponseInv == TypeOK /\ IdleEmpty /\ WaitersMatch /\ ResponseExact

\* A new response is exact: complete only if nothing was asked for.
LEMMA NewResponse ==
  ASSUME NEW asked \in Requests
  PROVE  Exact(AsyncResponse(asked)) /\ AsyncResponse(asked).waiting_on = ToSet(asked)
<1>1. ToSet(<<>>) = {} /\ IsInjective(<<>>)
  BY DEF ToSet, IsInjective
<1> QED BY <1>1 DEF AsyncResponse, notify_if_complete, Exact

\* update with a block still lacking keeps the response exact.
LEMMA UpdateExact ==
  ASSUME NEW r \in Responses, Exact(r), NEW b \in r.waiting_on
  PROVE  /\ Exact(update(r, b))
         /\ update(r, b).waiting_on = r.waiting_on \ {b}
<1>1. b \in BlockIds /\ r.blocks \in Seq(BlockIds) /\ b \notin ToSet(r.blocks)
  BY DEF Responses, Exact
<1>2. /\ ToSet(Append(r.blocks, b)) = ToSet(r.blocks) \cup {b}
      /\ IsInjective(Append(r.blocks, b))
  BY <1>1, AppendRange, FreshAppendInjective DEF Exact
<1>3. r.promise = 0
  BY DEF Exact
<1> DEFINE s == [r EXCEPT !.waiting_on = @ \ {b}, !.blocks = Append(@, b)]
<1>4. /\ s.waiting_on = r.waiting_on \ {b}
      /\ s.blocks = Append(r.blocks, b)
      /\ s.asked = r.asked
      /\ s.promise = 0
  BY <1>3 DEF Responses
<1>5. CASE r.waiting_on \ {b} = {}
  <2>1. update(r, b) = [s EXCEPT !.promise = @ + 1]
    BY <1>4, <1>5 DEF update, notify_if_complete
  <2>2. /\ update(r, b).waiting_on = {}
        /\ update(r, b).blocks = Append(r.blocks, b)
        /\ update(r, b).asked = r.asked
        /\ update(r, b).promise = 1
    BY <1>4, <1>5, <2>1 DEF Responses
  <2> QED BY <1>2, <1>5, <2>2 DEF Exact
<1>6. CASE r.waiting_on \ {b} # {}
  <2>1. update(r, b) = s
    BY <1>4, <1>6 DEF update, notify_if_complete
  <2> QED BY <1>2, <1>4, <1>6, <2>1 DEF Exact
<1> QED BY <1>5, <1>6

\* At the start nobody waits.
LEMMA ResponseInit == Init => ResponseInv
<1> SUFFICES ASSUME Init PROVE ResponseInv
  OBVIOUS
<1>1. TypeOK
  BY TypeInit
<1> QED BY <1>1
  DEF Init, ResponseInv, IdleEmpty, WaitersMatch, ResponseExact, NoCall

\* Steps that leave responses and the map alone, and start or end no wait.
LEMMA ResponseFrame ==
  ASSUME ResponseInv, TypeOK', UNCHANGED <<waiting_, resp>>,
         \A c \in Clients : call'[c].pc = "wait" <=> call[c].pc = "wait"
  PROVE  ResponseInv'
<1>1. IdleEmpty' /\ WaitersMatch' /\ ResponseExact'
  BY DEF ResponseInv, IdleEmpty, WaitersMatch, ResponseExact
<1> QED BY <1>1 DEF ResponseInv

\* get_blocks registers the response under exactly the ids it lacks.
LEMMA ResponseGet ==
  ASSUME ResponseInv, TypeOK', NEW c \in Clients, NEW asked \in Requests,
         get_blocks(c, asked)
  PROVE  ResponseInv'
<1>1. ToSet(asked) \subseteq BlockIds
  BY RequestsAreSequences
<1>2. /\ call \in [Clients -> [pc : {"register"}, id : BlockIds]
                               \cup {[pc |-> "wait", id |-> 0], NoCall}]
      /\ resp \in [Clients -> Responses]
      /\ waiting_ \in [BlockIds -> SUBSET Clients]
  BY DEF ResponseInv, TypeOK, Responses
<1>3. /\ call[c].pc = "idle"
      /\ call' = [call EXCEPT ![c] = [pc |-> "wait", id |-> 0]]
      /\ resp' = [resp EXCEPT ![c] = AsyncResponse(asked)]
      /\ \A b \in BlockIds :
           waiting_'[b] = IF b \in ToSet(asked) THEN waiting_[b] \cup {c}
                          ELSE waiting_[b]
  BY DEF get_blocks
<1>4. call'[c].pc = "wait" /\ resp'[c] = AsyncResponse(asked)
  BY <1>2, <1>3
<1>5. \A d \in Clients \ {c} : call'[d] = call[d] /\ resp'[d] = resp[d]
  BY <1>2, <1>3
<1>6. IdleEmpty'
  BY <1>4, <1>5 DEF ResponseInv, IdleEmpty
<1>7. ASSUME NEW d \in Clients, NEW b \in BlockIds
      PROVE  d \in waiting_'[b] <=> call'[d].pc = "wait" /\ b \in resp'[d].waiting_on
  <2>1. d \in waiting_[b] <=> call[d].pc = "wait" /\ b \in resp[d].waiting_on
    BY DEF ResponseInv, WaitersMatch
  <2>2. CASE d = c
    <3>1. resp'[d].waiting_on = ToSet(asked)
      BY <1>4, <2>2, NewResponse
    <3> QED BY <1>3, <1>4, <2>1, <2>2, <3>1
  <2>3. CASE d # c
    <3>1. d \in waiting_'[b] <=> d \in waiting_[b]
      BY <1>3, <2>3
    <3> QED BY <1>5, <2>1, <2>3, <3>1
  <2> QED BY <2>2, <2>3
<1>9. WaitersMatch'
  BY <1>7 DEF WaitersMatch
<1>8. ResponseExact'
  BY <1>4, <1>5, NewResponse DEF ResponseInv, ResponseExact
<1> QED BY <1>6, <1>8, <1>9 DEF ResponseInv

\* A complete response is registered nowhere when get_blocks returns.
LEMMA ResponseReturn ==
  ASSUME ResponseInv, TypeOK', NEW c \in Clients, get_return(c)
  PROVE  ResponseInv'
<1>1. /\ call \in [Clients -> [pc : {"register"}, id : BlockIds]
                               \cup {[pc |-> "wait", id |-> 0], NoCall}]
      /\ resp \in [Clients -> Responses]
  BY DEF ResponseInv, TypeOK, Responses
<1>2. /\ call[c].pc = "wait" /\ resp[c].promise > 0
      /\ call' = [call EXCEPT ![c] = NoCall]
      /\ resp' = [resp EXCEPT ![c] = NoResponse]
      /\ waiting_' = waiting_
  BY DEF get_return
<1>3. call'[c].pc = "idle" /\ resp'[c] = NoResponse
  BY <1>1, <1>2 DEF NoCall
<1>4. \A d \in Clients \ {c} : call'[d] = call[d] /\ resp'[d] = resp[d]
  BY <1>1, <1>2
<1>5. resp[c].waiting_on = {}
  BY <1>2 DEF ResponseInv, ResponseExact, Exact
<1>6. IdleEmpty'
  BY <1>3, <1>4 DEF ResponseInv, IdleEmpty
<1>8. ResponseExact'
  BY <1>3, <1>4 DEF ResponseInv, ResponseExact
<1>7. WaitersMatch'
  BY <1>2, <1>3, <1>4, <1>5 DEF ResponseInv, WaitersMatch
<1> QED BY <1>6, <1>7, <1>8 DEF ResponseInv

\* process updates every registered response and erases the entry.
LEMMA ResponseNotify ==
  ASSUME ResponseInv, TypeOK', process_notify
  PROVE  ResponseInv'
<1>1. PICK n \in BlockIds : svc.id = n
  BY HeldIds DEF process_notify, ResponseInv
<1>2. /\ resp \in [Clients -> Responses]
      /\ waiting_ \in [BlockIds -> SUBSET Clients]
  BY DEF ResponseInv, TypeOK, Responses
<1>3. /\ call' = call
      /\ waiting_' = [waiting_ EXCEPT ![n] = {}]
      /\ \A c \in Clients :
           resp'[c] = IF c \in waiting_[n] THEN update(resp[c], n) ELSE resp[c]
  BY <1>1 DEF process_notify
<1>4. ASSUME NEW c \in Clients, c \in waiting_[n]
      PROVE  /\ call[c].pc = "wait"
             /\ Exact(resp'[c])
             /\ resp'[c].waiting_on = resp[c].waiting_on \ {n}
  <2>1. call[c].pc = "wait" /\ n \in resp[c].waiting_on
    BY <1>4 DEF ResponseInv, WaitersMatch
  <2>2. Exact(resp[c]) /\ resp[c] \in Responses
    BY <1>2, <2>1 DEF ResponseInv, ResponseExact
  <2> QED BY <1>3, <1>4, <2>1, <2>2, UpdateExact
<1>5. ASSUME NEW c \in Clients, c \notin waiting_[n]
      PROVE  /\ resp'[c] = resp[c]
             /\ call[c].pc = "wait" => n \notin resp[c].waiting_on
  BY <1>3, <1>5 DEF ResponseInv, WaitersMatch
<1>6. IdleEmpty'
  BY <1>3, <1>4, <1>5 DEF ResponseInv, IdleEmpty
<1>7. ResponseExact'
  BY <1>3, <1>4, <1>5 DEF ResponseInv, ResponseExact
<1>8. ASSUME NEW c \in Clients, NEW b \in BlockIds
      PROVE  c \in waiting_'[b] <=> call'[c].pc = "wait" /\ b \in resp'[c].waiting_on
  <2>1. c \in waiting_[b] <=> call[c].pc = "wait" /\ b \in resp[c].waiting_on
    BY DEF ResponseInv, WaitersMatch
  <2>2. waiting_'[b] = IF b = n THEN {} ELSE waiting_[b]
    BY <1>2, <1>3
  <2> QED BY <1>3, <1>4, <1>5, <2>1, <2>2
<1>9. WaitersMatch'
  BY <1>8 DEF WaitersMatch
<1> QED BY <1>6, <1>7, <1>9 DEF ResponseInv

\* Every step preserves the inductive invariant of the responses.
LEMMA ResponseNext == ResponseInv /\ [Next]_vars => ResponseInv'
<1> SUFFICES ASSUME ResponseInv, [Next]_vars PROVE ResponseInv'
  OBVIOUS
<1>1. TypeOK'
  BY TypeNext DEF ResponseInv
<1>2. call \in [Clients -> [pc : {"register"}, id : BlockIds]
                           \cup {[pc |-> "wait", id |-> 0], NoCall}]
  BY DEF ResponseInv, TypeOK
<1>3. ASSUME NEW c \in Clients, create_block(c) PROVE ResponseInv'
  <2>1. \A d \in Clients : call'[d].pc = "wait" <=> call[d].pc = "wait"
    BY <1>2, <1>3 DEF create_block, next_id
  <2> QED BY <1>1, <1>3, <2>1, ResponseFrame DEF create_block
<1>4. ASSUME NEW c \in Clients, register_block(c) PROVE ResponseInv'
  <2>1. \A d \in Clients : call'[d].pc = "wait" <=> call[d].pc = "wait"
    BY <1>2, <1>4 DEF register_block, NoCall
  <2> QED BY <1>1, <1>4, <2>1, ResponseFrame DEF register_block
<1>5. ASSUME NEW c \in Clients, NEW b \in BlockIds, free_block(c, b)
      PROVE  ResponseInv'
  BY <1>1, <1>5, ResponseFrame DEF free_block
<1>6. ASSUME NEW c \in Clients, NEW asked \in Requests, get_blocks(c, asked)
      PROVE  ResponseInv'
  BY <1>1, <1>6, ResponseGet
<1>7. ASSUME NEW c \in Clients, get_return(c) PROVE ResponseInv'
  BY <1>1, <1>7, ResponseReturn
<1>8. ASSUME NEW b \in BlockIds,
             \/ delayed_send(b)
             \/ \E tag \in {Own, Foreign} : process_receive(tag, b)
             \/ lose(b)
      PROVE  ResponseInv'
  <2>1. UNCHANGED <<waiting_, resp, call>>
    BY <1>8 DEF delayed_send, process_receive, lose
  <2> QED BY <1>1, <2>1, ResponseFrame
<1>9. CASE process_notify
  BY <1>1, <1>9, ResponseNotify
<1>10. CASE should_recycle \/ process_resend \/ UNCHANGED vars
  <2>1. UNCHANGED <<waiting_, resp, call>>
    BY <1>10 DEF should_recycle, process_resend, vars
  <2> QED BY <1>1, <2>1, ResponseFrame
<1> QED
  BY <1>3, <1>4, <1>5, <1>6, <1>7, <1>8, <1>9, <1>10 DEF Next

\* AsyncBlockManager's map holds a client under an id exactly while the client's
\* response waits for that id, for any number of clients and requests.
THEOREM WaitersMatchHolds == Spec => []WaitersMatch
<1>1. Init => ResponseInv
  BY ResponseInit
<1>2. ResponseInv /\ [Next]_vars => ResponseInv'
  BY ResponseNext
<1>3. ResponseInv => WaitersMatch
  BY DEF ResponseInv
<1> QED BY <1>1, <1>2, <1>3, PTL DEF Spec

\* get_blocks returns each requested block once and nothing else, and a
\* promise is fulfilled at most once, whatever order the packets arrive in.
THEOREM ResponseExactHolds == Spec => []ResponseExact
<1>1. Init => ResponseInv
  BY ResponseInit
<1>2. ResponseInv /\ [Next]_vars => ResponseInv'
  BY ResponseNext
<1>3. ResponseInv => ResponseExact
  BY DEF ResponseInv
<1> QED BY <1>1, <1>2, <1>3, PTL DEF Spec

-----------------------------------------------------------------------------
(* With one copy per block the circulating packets implement the safety part *)
(* of BlockStore.  The step that needs care is process_notify: a reader must *)
(* not be given a block that is gone, and that follows from Custody.  Losses *)
(* do not matter for safety.                                                 *)

\* Only blocks whose create_block has returned are freed.
FreedPublished == freed \subseteq Published

RefinementInv == CustodyInv /\ ResponseInv /\ FreedPublished

\* How each step changes the published ids.
LEMMA PublishedStep ==
  ASSUME CustodyInv, CustodyInv', [Next]_vars
  PROVE  \/ Published' = Published
         \/ \E c \in Clients : /\ register_block(c)
                               /\ call[c].id \in BlockIds
                               /\ call[c].id \notin Published
                               /\ Published' = Published \cup {call[c].id}
<1>1. call \in [Clients -> [pc : {"register"}, id : BlockIds]
                           \cup {[pc |-> "wait", id |-> 0], NoCall}]
  BY DEF CustodyInv, TypeOK
<1>2. ASSUME NEW c \in Clients, create_block(c) PROVE Published' = Published
  <2>1. next_id_ \in BlockIds /\ next_id_ \in 0 .. IdSpace - 1
    BY <1>2 DEF create_block, next_id, CustodyInv, TypeOK, BlockIds
  <2>2. next_id_' = IF next_id_ = IdSpace - 1 THEN 0 ELSE next_id_ + 1
    BY <1>2, <2>1, CounterStep DEF create_block, next_id
  <2>3. \A b \in BlockIds : Allocated(b)' <=> Allocated(b) \/ b = next_id_
    BY <1>2, <2>1, <2>2, IdSpaceAssumption
    DEF Allocated, BlockIds, create_block, next_id
  <2>4. ~ Allocated(next_id_)
    BY <1>2, <2>1 DEF create_block, next_id, Allocated, BlockIds
  <2>5. \A b \in BlockIds : InHand(b)' <=> InHand(b) \/ b = next_id_
    BY <1>1, <1>2 DEF InHand, create_block, next_id
  <2> QED BY <2>3, <2>4, <2>5 DEF Published
<1>3. ASSUME NEW c \in Clients, register_block(c)
      PROVE  /\ call[c].id \in BlockIds
             /\ call[c].id \notin Published
             /\ Published' = Published \cup {call[c].id}
  <2>1. PICK n \in BlockIds : call[c].id = n
    BY <1>3, HeldIds DEF register_block, CustodyInv
  <2>2. InHand(n)
    BY <1>3, <2>1 DEF register_block, InHand
  <2>3. Allocated(n)
    BY <2>2, InHandAlone
  <2>4. \A b \in BlockIds : InHand(b)' <=> InHand(b) /\ b # n
    BY <1>1, <1>3, <2>1 DEF InHand, CustodyInv, HandsApart, register_block, NoCall
  <2>5. \A b \in BlockIds : Allocated(b)' <=> Allocated(b)
    BY <1>3 DEF register_block, Allocated
  <2> QED BY <2>1, <2>2, <2>3, <2>4, <2>5 DEF Published
<1>4. ASSUME NEW c \in Clients,
             (\E asked \in Requests : get_blocks(c, asked)) \/ get_return(c)
      PROVE  Published' = Published
  <2>1. next_id_' = next_id_
    BY <1>4 DEF get_blocks, get_return
  <2>2. \A d \in Clients : \/ call'[d] = call[d]
                           \/ call'[d].pc # "register" /\ call[d].pc # "register"
    BY <1>1, <1>4 DEF get_blocks, get_return, NoCall
  <2>3. \A b \in BlockIds : InHand(b)' <=> InHand(b)
    BY <2>2 DEF InHand
  <2> QED BY <2>1, <2>3 DEF Published, Allocated
<1>5. ASSUME UNCHANGED <<next_id_, call>> PROVE Published' = Published
  BY <1>5 DEF Published, Allocated, InHand
<1>6. ASSUME NEW c \in Clients, NEW b \in BlockIds, free_block(c, b)
      PROVE  UNCHANGED <<next_id_, call>>
  BY <1>6 DEF free_block
<1>7. ASSUME NEW b \in BlockIds,
             \/ delayed_send(b)
             \/ \E tag \in {Own, Foreign} : process_receive(tag, b)
             \/ lose(b)
      PROVE  UNCHANGED <<next_id_, call>>
  BY <1>7 DEF delayed_send, process_receive, lose
<1>8. ASSUME process_notify \/ should_recycle \/ process_resend \/ UNCHANGED vars
      PROVE  UNCHANGED <<next_id_, call>>
  BY <1>8 DEF process_notify, should_recycle, process_resend, vars
<1> QED
  BY <1>2, <1>3, <1>4, <1>5, <1>6, <1>7, <1>8 DEF Next

\* The invariants the mapping needs hold at the start.
LEMMA RefinementInit == Init => RefinementInv
<1> SUFFICES ASSUME Init PROVE RefinementInv
  OBVIOUS
<1>1. FreedPublished
  BY DEF Init, FreedPublished
<1> QED BY <1>1, CustodyInit, ResponseInit DEF RefinementInv

\* Every step preserves them.
LEMMA RefinementNext == RefinementInv /\ [Next]_vars => RefinementInv'
<1> SUFFICES ASSUME RefinementInv, [Next]_vars PROVE RefinementInv'
  OBVIOUS
<1>1. CustodyInv' /\ ResponseInv'
  BY CustodyNext, ResponseNext DEF RefinementInv
<1>2. Published \subseteq Published'
  BY <1>1, PublishedStep DEF RefinementInv
<1>3. freed' = freed \/ \E b \in Published : freed' = freed \cup {b}
  <2>1. ASSUME NEW c \in Clients
        PROVE  /\ create_block(c) => freed' = freed
               /\ register_block(c) => freed' = freed
               /\ get_return(c) => freed' = freed
               /\ \A asked \in Requests : get_blocks(c, asked) => freed' = freed
               /\ \A b \in BlockIds : free_block(c, b) =>
                    b \in Published /\ freed' = freed \cup {b}
    BY DEF create_block, register_block, get_return, get_blocks, free_block
  <2>2. ASSUME NEW b \in BlockIds
        PROVE  /\ delayed_send(b) => freed' = freed
               /\ \A tag \in {Own, Foreign} :
                    process_receive(tag, b) => freed' = freed
               /\ lose(b) => freed' = freed
    BY DEF delayed_send, process_receive, lose
  <2>3. process_notify \/ should_recycle \/ process_resend \/ UNCHANGED vars
          => freed' = freed
    BY DEF process_notify, should_recycle, process_resend, vars
  <2> QED BY <2>1, <2>2, <2>3 DEF Next
<1>4. FreedPublished'
  BY <1>2, <1>3 DEF RefinementInv, FreedPublished
<1> QED BY <1>1, <1>4 DEF RefinementInv

-----------------------------------------------------------------------------
(* The refinement mapping *)

\* With one copy per block, the copy the service holds is not of a block that
\* is gone.
LEMMA HeldIsStored ==
  ASSUME ~ Duplicate, CustodyInv, svc.pc # "idle"
  PROVE  svc.id \in BlockIds /\ Status(svc.id) \in {"live", "freed"}
<1>1. PICK n \in BlockIds : svc.id = n
  BY HeldIds DEF CustodyInv
<1>2. Accounted(n)
  BY DEF CustodyInv, Custody
<1>3. in_flight[n] \in Nat /\ lost[n] \in Nat
  BY DEF CustodyInv, TypeOK
<1>4. Redundancy = 1
  BY DEF Redundancy
<1>5. ~ InHand(n)
  BY <1>1, InHandAlone
<1>6. Copies(n) >= 1 /\ Copies(n) \in Nat
  BY <1>1, <1>3, <1>4, <1>5 DEF Copies
<1>7. Allocated(n) /\ ~ Reaped(n)
  BY <1>2, <1>3, <1>4, <1>6 DEF Accounted
<1> QED BY <1>1, <1>5, <1>7 DEF Status, Published, Reaped

\* The initial state is the empty store.
LEMMA MapInit == Init => Store!Init
<1> SUFFICES ASSUME Init PROVE Store!Init
  OBVIOUS
<1>1. \A b \in BlockIds : Status(b) = "new"
  BY IdSpaceAssumption DEF Init, Status, Published, Allocated, BlockIds
<1>2. StoreBusy = {}
  BY DEF Init, NoCall, StoreBusy
<1>3. StoreMissing = [c \in Clients |-> {}]
  BY DEF Init, NoResponse, StoreMissing
<1> QED BY <1>1, <1>2, <1>3 DEF Store!Init, StoreStatus

\* A step that changes neither the published nor the freed ids nor the waits
\* is a stuttering step of the store.
LEMMA MapStutter ==
  ASSUME Published' = Published, UNCHANGED <<freed, freed_ids_>>,
         \A c \in Clients : /\ call'[c].pc = "wait" <=> call[c].pc = "wait"
                            /\ resp'[c].waiting_on = resp[c].waiting_on
  PROVE  UNCHANGED Store!vars
<1>1. \A b \in BlockIds : Status(b)' = Status(b)
  BY DEF Status
<1>2. StoreStatus' = StoreStatus
  BY <1>1 DEF StoreStatus
<1>3. StoreBusy' = StoreBusy
  BY DEF StoreBusy
<1>4. StoreMissing' = StoreMissing
  BY DEF StoreMissing
<1> QED BY <1>2, <1>3, <1>4 DEF Store!vars

\* The four changes of one block's status, and those of one client's wait.
LEMMA MapRegister ==
  ASSUME RefinementInv, RefinementInv', NEW n \in BlockIds,
         n \notin Published, Published' = Published \cup {n},
         UNCHANGED <<freed, freed_ids_, resp>>,
         \A c \in Clients : call'[c].pc = "wait" <=> call[c].pc = "wait"
  PROVE  Store!Create(n)
<1>1. n \notin freed
  BY DEF RefinementInv, FreedPublished
<1>2. Status(n) = "new" /\ Status(n)' = "live"
  BY <1>1 DEF Status
<1>3. \A b \in BlockIds \ {n} : Status(b)' = Status(b)
  BY DEF Status
<1>4. StoreStatus' = [StoreStatus EXCEPT ![n] = "live"]
  BY <1>2, <1>3 DEF StoreStatus
<1>5. UNCHANGED <<StoreBusy, StoreMissing>>
  BY DEF StoreBusy, StoreMissing
<1> QED BY <1>2, <1>4, <1>5 DEF Store!Create, StoreStatus

\* free_block frees a live block of the store.
LEMMA MapFree ==
  ASSUME RefinementInv, NEW c \in Clients, NEW n \in BlockIds,
         free_block(c, n), Published' = Published
  PROVE  Store!Free(n)
<1>1. /\ n \in Published /\ n \notin freed
      /\ freed' = freed \cup {n} /\ freed_ids_' = freed_ids_ \cup {n}
      /\ UNCHANGED <<call, resp>>
  BY DEF free_block
<1>2. Status(n) = "live" /\ Status(n)' = "freed"
  BY <1>1 DEF Status
<1>3. \A b \in BlockIds \ {n} : Status(b)' = Status(b)
  BY <1>1 DEF Status
<1>4. StoreStatus' = [StoreStatus EXCEPT ![n] = "freed"]
  BY <1>2, <1>3 DEF StoreStatus
<1>5. UNCHANGED <<StoreBusy, StoreMissing>>
  BY <1>1 DEF StoreBusy, StoreMissing
<1> QED BY <1>2, <1>4, <1>5 DEF Store!Free, StoreStatus

\* should_recycle reaps a freed block or leaves the store alone.
LEMMA MapRecycle ==
  ASSUME RefinementInv, should_recycle, Published' = Published
  PROVE  Store!Next \/ UNCHANGED Store!vars
<1>1. PICK n \in BlockIds : svc.id = n
  BY HeldIds DEF should_recycle, RefinementInv, CustodyInv
<1>2. /\ freed_ids_' = freed_ids_ \ {n}
      /\ UNCHANGED <<call, resp, freed>>
  BY <1>1 DEF should_recycle
<1>3. CASE n \in freed_ids_
  <2>1. n \in freed /\ n \in Published
    BY <1>3 DEF RefinementInv, CustodyInv, FreedKnown, FreedPublished
  <2>2. Status(n) = "freed" /\ Status(n)' = "gone"
    BY <1>2, <1>3, <2>1 DEF Status
  <2>3. \A b \in BlockIds \ {n} : Status(b)' = Status(b)
    BY <1>2 DEF Status
  <2>4. StoreStatus' = [StoreStatus EXCEPT ![n] = "gone"]
    BY <2>2, <2>3 DEF StoreStatus
  <2>5. UNCHANGED <<StoreBusy, StoreMissing>>
    BY <1>2 DEF StoreBusy, StoreMissing
  <2>6. Store!Reap(n)
    BY <2>2, <2>4, <2>5 DEF Store!Reap, StoreStatus
  <2> QED BY <2>6 DEF Store!Next
<1>4. CASE n \notin freed_ids_
  <2>1. freed_ids_' = freed_ids_
    BY <1>2, <1>4
  <2> QED BY <1>2, <2>1, MapStutter
<1> QED BY <1>3, <1>4

\* get_blocks asks the store for the requested blocks.
LEMMA MapGet ==
  ASSUME RefinementInv, NEW c \in Clients, NEW asked \in Requests,
         get_blocks(c, asked), Published' = Published
  PROVE  Store!Ask(c, ToSet(asked)) /\ ToSet(asked) \subseteq BlockIds
<1>1. /\ call \in [Clients -> [pc : {"register"}, id : BlockIds]
                               \cup {[pc |-> "wait", id |-> 0], NoCall}]
      /\ resp \in [Clients -> Responses]
  BY DEF RefinementInv, ResponseInv, TypeOK, Responses
<1>2. /\ call[c].pc = "idle"
      /\ ToSet(asked) \subseteq Published
      /\ call' = [call EXCEPT ![c] = [pc |-> "wait", id |-> 0]]
      /\ resp' = [resp EXCEPT ![c] = AsyncResponse(asked)]
      /\ UNCHANGED <<freed, freed_ids_>>
  BY DEF get_blocks
<1>3. c \notin StoreBusy /\ StoreBusy' = StoreBusy \cup {c}
  BY <1>1, <1>2 DEF StoreBusy
<1>4. StoreMissing' = [StoreMissing EXCEPT ![c] = ToSet(asked)]
  BY <1>1, <1>2, NewResponse DEF StoreMissing
<1>5. StoreStatus' = StoreStatus
  BY <1>2 DEF StoreStatus, Status
<1>6. \A b \in ToSet(asked) : StoreStatus[b] # "new"
  BY <1>2 DEF StoreStatus, Status, Published
<1>7. ToSet(asked) \subseteq BlockIds
  BY RequestsAreSequences
<1> QED BY <1>3, <1>4, <1>5, <1>6, <1>7 DEF Store!Ask

\* The ready future is the store answering.
LEMMA MapReturn ==
  ASSUME RefinementInv, NEW c \in Clients, get_return(c), Published' = Published
  PROVE  Store!Answer(c)
<1>1. /\ call \in [Clients -> [pc : {"register"}, id : BlockIds]
                               \cup {[pc |-> "wait", id |-> 0], NoCall}]
      /\ resp \in [Clients -> Responses]
  BY DEF RefinementInv, ResponseInv, TypeOK, Responses
<1>2. /\ call[c].pc = "wait" /\ resp[c].promise > 0
      /\ call' = [call EXCEPT ![c] = NoCall]
      /\ resp' = [resp EXCEPT ![c] = NoResponse]
      /\ UNCHANGED <<freed, freed_ids_>>
  BY DEF get_return
<1>3. resp[c].waiting_on = {}
  BY <1>2 DEF RefinementInv, ResponseInv, ResponseExact, Exact
<1>4. c \in StoreBusy /\ StoreBusy' = StoreBusy \ {c}
  BY <1>1, <1>2 DEF StoreBusy, NoCall
<1>5. StoreMissing[c] = {} /\ StoreMissing' = StoreMissing
  BY <1>1, <1>2, <1>3 DEF StoreMissing, NoResponse
<1>6. StoreStatus' = StoreStatus
  BY <1>2 DEF StoreStatus, Status
<1> QED BY <1>4, <1>5, <1>6 DEF Store!Answer

\* process_notify serves a block the store still has, if anyone lacks it.
LEMMA MapNotify ==
  ASSUME ~ Duplicate, RefinementInv, process_notify, Published' = Published
  PROVE  Store!Next \/ UNCHANGED Store!vars
<1>1. PICK n \in BlockIds : svc.id = n
  BY HeldIds DEF process_notify, RefinementInv, CustodyInv
<1>2. Status(n) \in {"live", "freed"}
  BY <1>1, HeldIsStored DEF process_notify, RefinementInv
<1>3. /\ UNCHANGED <<call, freed, freed_ids_>>
      /\ \A c \in Clients :
           resp'[c] = IF c \in waiting_[n] THEN update(resp[c], n) ELSE resp[c]
  BY <1>1 DEF process_notify
<1>4. resp \in [Clients -> Responses]
  BY DEF RefinementInv, ResponseInv, TypeOK, Responses
<1>5. ASSUME NEW c \in Clients
      PROVE  resp'[c].waiting_on = resp[c].waiting_on \ {n}
  <2>1. CASE c \in waiting_[n]
    <3>1. call[c].pc = "wait" /\ n \in resp[c].waiting_on
      BY <2>1 DEF RefinementInv, ResponseInv, WaitersMatch
    <3>2. Exact(resp[c]) /\ resp[c] \in Responses
      BY <1>4, <3>1 DEF RefinementInv, ResponseInv, ResponseExact
    <3> QED BY <1>3, <2>1, <3>1, <3>2, UpdateExact
  <2>2. CASE c \notin waiting_[n]
    <3>1. n \notin resp[c].waiting_on
      BY <2>2 DEF RefinementInv, ResponseInv, WaitersMatch, IdleEmpty, NoResponse
    <3> QED BY <1>3, <2>2, <3>1
  <2> QED BY <2>1, <2>2
<1>6. StoreMissing' = [c \in Clients |-> StoreMissing[c] \ {n}]
  BY <1>5 DEF StoreMissing
<1>7. UNCHANGED <<StoreStatus, StoreBusy>>
  BY <1>3 DEF StoreStatus, Status, StoreBusy
<1>8. CASE \E c \in Clients : n \in StoreMissing[c]
  <2>1. Store!HandOut(n)
    BY <1>6, <1>7, <1>8 DEF Store!HandOut
  <2>2. Store!Serve(n) \/ Store!ServeFreed(n)
    BY <1>2, <2>1 DEF Store!Serve, Store!ServeFreed, StoreStatus
  <2> QED BY <2>2 DEF Store!Next
<1>9. CASE \A c \in Clients : n \notin StoreMissing[c]
  <2>1. StoreMissing' = StoreMissing
    BY <1>6, <1>9 DEF StoreMissing
  <2> QED BY <1>7, <2>1 DEF Store!vars
<1> QED BY <1>8, <1>9

\* Every step of the packets is a step of the store, or leaves it alone.
LEMMA MapNext ==
  ASSUME ~ Duplicate, RefinementInv, RefinementInv', [Next]_vars
  PROVE  Store!Next \/ UNCHANGED Store!vars
<1>1. CustodyInv /\ CustodyInv'
  BY DEF RefinementInv
<1>2. call \in [Clients -> [pc : {"register"}, id : BlockIds]
                           \cup {[pc |-> "wait", id |-> 0], NoCall}]
  BY <1>1 DEF CustodyInv, TypeOK
<1>3. CASE \E c \in Clients : register_block(c)
  <2>1. PICK c \in Clients : register_block(c)
    BY <1>3
  <2>2. /\ UNCHANGED <<next_id_, freed, freed_ids_, resp>>
        /\ call[c].pc = "register"
        /\ call' = [call EXCEPT ![c] = NoCall]
    BY <2>1 DEF register_block
  <2>3. \A d \in Clients : call'[d].pc = "wait" <=> call[d].pc = "wait"
    BY <1>2, <2>2 DEF NoCall
  <2>4. CASE Published' = Published
    BY <2>2, <2>3, <2>4, MapStutter
  <2>5. CASE \E n \in BlockIds : n \notin Published
                               /\ Published' = Published \cup {n}
    <3>1. PICK n \in BlockIds : n \notin Published
                               /\ Published' = Published \cup {n}
      BY <2>5
    <3>2. Store!Create(n)
      BY <2>2, <2>3, <3>1, MapRegister
    <3> QED BY <3>2 DEF Store!Next
  <2> QED BY <1>1, <2>4, <2>5, PublishedStep
<1>4. CASE ~ \E c \in Clients : register_block(c)
  <2>1. Published' = Published
    BY <1>1, <1>4, PublishedStep
  <2>2. ASSUME NEW c \in Clients, create_block(c)
        PROVE  UNCHANGED Store!vars
    <3>1. /\ UNCHANGED <<freed, freed_ids_, resp>>
          /\ call[c].pc = "idle"
          /\ call' = [call EXCEPT ![c] = [pc |-> "register", id |-> next_id_]]
      BY <2>2 DEF create_block, next_id
    <3>2. \A d \in Clients : call'[d].pc = "wait" <=> call[d].pc = "wait"
      BY <1>2, <3>1
    <3> QED BY <2>1, <3>1, <3>2, MapStutter
  <2>3. ASSUME NEW c \in Clients, NEW b \in BlockIds, free_block(c, b)
        PROVE  Store!Next
    <3>1. Store!Free(b)
      BY <2>1, <2>3, MapFree
    <3> QED BY <3>1 DEF Store!Next
  <2>4. ASSUME NEW c \in Clients, NEW asked \in Requests, get_blocks(c, asked)
        PROVE  Store!Next
    <3>1. Store!Ask(c, ToSet(asked)) /\ ToSet(asked) \subseteq BlockIds
      BY <2>1, <2>4, MapGet
    <3> QED BY <3>1 DEF Store!Next
  <2>5. ASSUME NEW c \in Clients, get_return(c) PROVE Store!Next
    <3>1. Store!Answer(c)
      BY <2>1, <2>5, MapReturn
    <3> QED BY <3>1 DEF Store!Next
  <2>6. ASSUME UNCHANGED <<freed, freed_ids_, call, resp>>
        PROVE  UNCHANGED Store!vars
    BY <2>1, <2>6, MapStutter
  <2>7. ASSUME NEW b \in BlockIds,
               \/ delayed_send(b)
               \/ \E tag \in {Own, Foreign} : process_receive(tag, b)
               \/ lose(b)
        PROVE  UNCHANGED <<freed, freed_ids_, call, resp>>
    BY <2>7 DEF delayed_send, process_receive, lose
  <2>8. ASSUME process_resend \/ UNCHANGED vars
        PROVE  UNCHANGED <<freed, freed_ids_, call, resp>>
    BY <2>8 DEF process_resend, vars
  <2> QED
    BY <1>4, <2>1, <2>2, <2>3, <2>4, <2>5, <2>6, <2>7, <2>8,
       MapNotify, MapRecycle DEF Next
<1> QED BY <1>3, <1>4

\* With one copy per block (PingBlockManager, not the duplicating one), every
\* execution of the circulating packets is one that BlockManager's interface
\* allows, whatever the network loses: ids are never reused, a reader gets a
\* block only while it is stored, and a freed block does not come back.
THEOREM RefinesBlockStore == ASSUME ~ Duplicate PROVE Spec => Store!Safety
<1>1. RefinementInv /\ RefinementInv' /\ [Next]_vars => [Store!Next]_Store!vars
  BY MapNext
<1> QED
  BY <1>1, RefinementInit, RefinementNext, MapInit, PTL DEF Spec, Store!Safety

=============================================================================
