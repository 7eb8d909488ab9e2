-------------------------- MODULE RateQueueProofs ---------------------------
(***************************************************************************)
(* Proofs about RateQueue for any set of callers and any number of adds.   *)
(***************************************************************************)
EXTENDS RateQueue, TLAPS

-----------------------------------------------------------------------------
(* The inductive invariant *)

\* Everything added and not dropped by stop, oldest first.
All == executed \o service.holds \o queue_

\* The service thread holds a function exactly while it runs one.
Places ==
  /\ queue_ \in Seq(Nat)
  /\ executed \in Seq(Nat)
  /\ stopped_ \in BOOLEAN
  /\ added \in Nat
  /\ service \in [pc : {"check", "pop", "exec", "sleep", "done"}, holds : Seq(Nat)]
  /\ caller \in [Callers -> {"idle", "join", "joined", "returned"}]
  /\ service.pc = "exec" <=> service.holds # <<>>

\* The thread ends, and a caller of stop goes on to join, only once the queue is
\* stopped; a join that returned met the end of the thread.
Ended ==
  /\ stopped_ => queue_ = <<>>
  /\ service.pc = "done" => stopped_
  /\ \A c \in Callers :
       /\ caller[c] \in {"join", "joined", "returned"} => stopped_
       /\ caller[c] = "joined" => service.pc = "done"

\* The functions kept are numbered without a gap, and stop drops only the last
\* of them.
Numbered ==
  /\ \A i \in 1 .. Len(All) : All[i] = i
  /\ ~ stopped_ => Len(All) = added

IInv == Places /\ Ended /\ Numbered

-----------------------------------------------------------------------------
(* Sequences *)

\* Appending to the queue appends to the whole.
LEMMA PushedLast ==
  ASSUME NEW e \in Seq(Nat), NEW h \in Seq(Nat), NEW q \in Seq(Nat), NEW n \in Nat
  PROVE  e \o h \o Append(q, n) = Append(e \o h \o q, n)
OBVIOUS

\* Taking the front out of the queue moves nothing.
LEMMA PoppedInPlace ==
  ASSUME NEW e \in Seq(Nat), NEW q \in Seq(Nat), q # <<>>
  PROVE  /\ <<Head(q)>> \in Seq(Nat) /\ Tail(q) \in Seq(Nat)
         /\ e \o <<Head(q)>> \o Tail(q) = e \o <<>> \o q
OBVIOUS

\* Nor does the end of a function.
LEMMA ExecutedInPlace ==
  ASSUME NEW e \in Seq(Nat), NEW h \in Seq(Nat), NEW q \in Seq(Nat)
  PROVE  (e \o h) \o <<>> \o q = e \o h \o q
OBVIOUS

\* What remains when stop empties the queue is a prefix.
LEMMA StoppedPrefix ==
  ASSUME NEW e \in Seq(Nat), NEW h \in Seq(Nat), NEW q \in Seq(Nat)
  PROVE  /\ Len(e \o h \o <<>>) <= Len(e \o h \o q)
         /\ \A i \in 1 .. Len(e \o h \o <<>>) :
              (e \o h \o <<>>)[i] = (e \o h \o q)[i]
OBVIOUS

-----------------------------------------------------------------------------
(* The invariant is kept *)

\* A new queue.
LEMMA InvInit == Init => IInv
<1> SUFFICES ASSUME Init PROVE IInv
  OBVIOUS
<1>1. All = <<>>
  BY DEF Init, All
<1>2. <<>> \in Seq(Nat)
  OBVIOUS
<1>3. Places
  BY <1>2 DEF Init, Places
<1>4. Ended
  BY DEF Init, Ended
<1> QED BY <1>1, <1>3, <1>4 DEF Init, IInv, Numbered

\* push, by a caller of add or by a function that runs.
LEMMA PushKeeps ==
  ASSUME IInv, Push, UNCHANGED <<stopped_, service, caller, executed>>
  PROVE  IInv'
<1> USE DEF IInv
<1>1. Places'
  BY DEF Places, Push
<1>2. Ended'
  BY DEF Ended, Push
<1>3. executed \in Seq(Nat) /\ service.holds \in Seq(Nat) /\ queue_ \in Seq(Nat)
      /\ added + 1 \in Nat
  BY DEF Places
<1>4. All' = Append(All, added + 1) /\ All \in Seq(Nat)
  <2>1. All' = executed \o service.holds \o Append(queue_, added + 1)
    BY DEF Push, All
  <2>2. All \in Seq(Nat)
    BY <1>3 DEF All
  <2> QED BY <1>3, <2>1, <2>2, PushedLast DEF All
<1>5. Numbered'
  BY <1>4 DEF Numbered, Push, Places
<1> QED BY <1>1, <1>2, <1>5

\* stop drops the end of the queue, and leaves the thread alone.
LEMMA StopKeeps ==
  ASSUME IInv, NEW c \in Callers, stop(c)
  PROVE  IInv'
<1> USE DEF IInv
<1>1. Places'
  BY DEF Places, stop
<1>2. Ended'
  BY DEF Ended, Places, stop
<1>3. /\ Len(All') <= Len(All)
      /\ \A i \in 1 .. Len(All') : All'[i] = All[i]
  <2>1. All' = executed \o service.holds \o <<>>
    BY DEF stop, All
  <2>2. executed \in Seq(Nat) /\ service.holds \in Seq(Nat) /\ queue_ \in Seq(Nat)
    BY DEF Places
  <2> DEFINE kept == executed \o service.holds \o <<>>
  <2>3. /\ Len(kept) <= Len(All)
        /\ \A i \in 1 .. Len(kept) : kept[i] = All[i]
    BY <2>2, StoppedPrefix DEF All
  <2> HIDE DEF kept
  <2> QED BY <2>1, <2>3, Zenon DEF kept
<1>4. Len(All) \in Nat /\ Len(All') \in Nat
  BY <1>1 DEF Places, All
<1>5. Numbered'
  BY <1>3, <1>4 DEF Numbered, stop
<1> QED BY <1>1, <1>2, <1>5

\* The end of the thread lets the one caller of stop that waits go.
LEMMA JoinKeeps ==
  ASSUME IInv, NEW c \in Callers, join(c)
  PROVE  IInv'
BY DEF IInv, Places, Ended, Numbered, All, join

\* The read of stopped_ outside the mutex.
LEMMA CheckKeeps ==
  ASSUME IInv, service_check
  PROVE  IInv'
BY DEF IInv, Places, Ended, Numbered, All, service_check

\* The pop moves the front from the queue to the thread.
LEMMA PopKeeps ==
  ASSUME IInv, service_pop
  PROVE  IInv'
<1> USE DEF IInv
<1>1. CASE queue_ = <<>>
  BY <1>1 DEF Places, Ended, Numbered, All, service_pop
<1>2. CASE queue_ # <<>>
  <2>1. ~ stopped_ /\ service.holds = <<>>
    BY <1>2 DEF Places, Ended, service_pop
  <2>2. /\ executed \in Seq(Nat) /\ queue_ \in Seq(Nat)
        /\ service' = [pc |-> "exec", holds |-> <<Head(queue_)>>]
        /\ queue_' = Tail(queue_) /\ executed' = executed
    BY <1>2 DEF Places, service_pop
  <2>3. <<Head(queue_)>> \in Seq(Nat) /\ Tail(queue_) \in Seq(Nat)
    BY <1>2, <2>2, PoppedInPlace
  <2>4. Places'
    BY <2>2, <2>3 DEF Places, service_pop
  <2>5. Ended'
    BY <1>2, <2>1 DEF Ended, service_pop
  <2>6. All' = All
    <3>1. All' = executed \o <<Head(queue_)>> \o Tail(queue_)
      BY <2>2 DEF All
    <3>2. All = executed \o <<>> \o queue_
      BY <2>1 DEF All
    <3> QED BY <1>2, <2>2, <3>1, <3>2, PoppedInPlace
  <2> QED BY <2>4, <2>5, <2>6 DEF Numbered, service_pop
<1> QED BY <1>1, <1>2

\* A function ends.
LEMMA ExecKeeps ==
  ASSUME IInv, service_exec
  PROVE  IInv'
<1> USE DEF IInv
<1>1. Places'
  BY DEF Places, service_exec
<1>2. Ended'
  BY DEF Ended, service_exec
<1>3. All' = All
  BY ExecutedInPlace DEF Places, All, service_exec
<1> QED BY <1>1, <1>2, <1>3 DEF Numbered, service_exec

\* The sleep ends.
LEMMA SleepKeeps ==
  ASSUME IInv, service_sleep
  PROVE  IInv'
BY DEF IInv, Places, Ended, Numbered, All, service_sleep

\* Every step of the callers and of the service thread keeps the invariant.
LEMMA InvNext == IInv /\ [Next]_vars => IInv'
<1> SUFFICES ASSUME IInv, [Next]_vars PROVE IInv'
  OBVIOUS
<1>1. ASSUME NEW c \in Callers, add(c) PROVE IInv'
  BY <1>1, PushKeeps DEF add
<1>2. ASSUME NEW c \in Callers, stop(c) PROVE IInv'
  BY <1>2, StopKeeps
<1>3. ASSUME NEW c \in Callers, join(c) PROVE IInv'
  BY <1>3, JoinKeeps
<1>4. CASE service_check
  BY <1>4, CheckKeeps
<1>5. CASE service_pop
  BY <1>5, PopKeeps
<1>6. CASE service_add
  BY <1>6, PushKeeps DEF service_add
<1>7. CASE service_exec
  BY <1>7, ExecKeeps
<1>8. CASE service_sleep
  BY <1>8, SleepKeeps
<1>9. CASE UNCHANGED vars
  BY <1>9 DEF vars, IInv, Places, Ended, Numbered, All
<1> QED BY <1>1, <1>2, <1>3, <1>4, <1>5, <1>6, <1>7, <1>8, <1>9 DEF Next

-----------------------------------------------------------------------------
(* The theorems *)

\* Whatever the callers and the thread do, and whenever stop comes, functions
\* run once each and in the order of their add; nothing is dropped before stop.
THEOREM RunsInOrder == Spec => []InOrder
<1>1. IInv => InOrder
  <2> SUFFICES ASSUME IInv PROVE InOrder
    OBVIOUS
  <2>1. All \in Seq(Nat) /\ DOMAIN All = 1 .. Len(All)
    BY DEF IInv, Places, All
  <2> QED BY <2>1 DEF IInv, Numbered, All, InOrder
<1> QED BY <1>1, InvInit, InvNext, PTL DEF Spec

\* Once stop has joined, the thread has ended and holds nothing, so no function
\* runs any more; and nothing is queued once stop was called.
THEOREM StopsQuietly == Spec => []QuietAfterJoin
<1>1. IInv => QuietAfterJoin
  BY DEF IInv, Places, Ended, QuietAfterJoin
<1> QED BY <1>1, InvInit, InvNext, PTL DEF Spec

=============================================================================
