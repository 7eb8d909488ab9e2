----------------------------- MODULE RateQueue ------------------------------
(***************************************************************************)
(* RateQueue: a service thread runs the functions given to add, one per    *)
(* delay_, until stop.  queue_mutex_ makes add, the first part of stop and *)
(* the pop atomic; the service thread reads stopped_ outside the mutex,    *)
(* once per round (the lock in the loop keeps the read from being hoisted).*)
(* Functions are numbered in the order of their add.  A function may       *)
(* itself call add; one that calls stop would join its own thread, which   *)
(* throws, and is left out.                                                *)
(***************************************************************************)
EXTENDS Integers, SequencesExt

CONSTANTS Callers,   \* threads that use the queue
          MaxAdds    \* bound: functions added

ASSUME MaxAddsAssumption == MaxAdds \in Nat

VARIABLES queue_, stopped_,
          service,   \* the service thread: its place and the function it holds
          caller,    \* where each caller is in stop
          added,     \* history: functions added
          executed   \* history: functions run, in order

vars == <<queue_, stopped_, service, caller, added, executed>>

-----------------------------------------------------------------------------

\* push under queue_mutex_; add throws once the queue is stopped.
Push ==
  /\ ~ stopped_
  /\ added < MaxAdds
  /\ added' = added + 1
  /\ queue_' = Append(queue_, added + 1)

add(c) ==
  /\ caller[c] = "idle"
  /\ Push
  /\ UNCHANGED <<stopped_, service, caller, executed>>

\* stop that never joins.
stop_unjoined(c) ==
  /\ caller[c] = "idle"
  /\ stopped_' = TRUE
  /\ queue_' = <<>>
  /\ caller' = [caller EXCEPT ![c] = IF stopped_ THEN "returned" ELSE "joined"]
  /\ UNCHANGED <<service, added, executed>>

\* stop, under the mutex: the queue is emptied, and the first caller goes on
\* to join.  The others return at once.
stop(c) ==
  /\ caller[c] = "idle"
  /\ stopped_' = TRUE
  /\ queue_' = <<>>
  /\ caller' = [caller EXCEPT ![c] = IF stopped_ THEN "returned" ELSE "join"]
  /\ UNCHANGED <<service, added, executed>>

\* thread_.join() returns.
join(c) ==
  /\ caller[c] = "join"
  /\ service.pc = "done"
  /\ caller' = [caller EXCEPT ![c] = "joined"]
  /\ UNCHANGED <<queue_, stopped_, service, added, executed>>

-----------------------------------------------------------------------------
(* The service thread *)

\* A loop that waits for all that was added, although stop drops some of it.
service_check_drained ==
  /\ service.pc = "check"
  /\ service' = [service EXCEPT !.pc = IF stopped_ /\ added = Len(executed)
                                       THEN "done" ELSE "pop"]
  /\ UNCHANGED <<queue_, stopped_, caller, added, executed>>

\* while (!stopped_), without the mutex.
service_check ==
  /\ service.pc = "check"
  /\ service' = [service EXCEPT !.pc = IF stopped_ THEN "done" ELSE "pop"]
  /\ UNCHANGED <<queue_, stopped_, caller, added, executed>>

\* The front is copied and left in the queue.
service_pop_keeping ==
  /\ service.pc = "pop"
  /\ IF queue_ = <<>>
     THEN service' = [service EXCEPT !.pc = "sleep"]
     ELSE service' = [pc |-> "exec", holds |-> <<Head(queue_)>>]
  /\ UNCHANGED <<queue_, stopped_, caller, added, executed>>

\* An empty queue ends the thread.
service_pop_ending ==
  /\ service.pc = "pop"
  /\ IF queue_ = <<>>
     THEN /\ service' = [service EXCEPT !.pc = "done"]
          /\ UNCHANGED queue_
     ELSE /\ service' = [pc |-> "exec", holds |-> <<Head(queue_)>>]
          /\ queue_' = Tail(queue_)
  /\ UNCHANGED <<stopped_, caller, added, executed>>

\* The front of the queue is taken out under the mutex.
service_pop ==
  /\ service.pc = "pop"
  /\ IF queue_ = <<>>
     THEN /\ service' = [service EXCEPT !.pc = "sleep"]
          /\ UNCHANGED queue_
     ELSE /\ service' = [pc |-> "exec", holds |-> <<Head(queue_)>>]
          /\ queue_' = Tail(queue_)
  /\ UNCHANGED <<stopped_, caller, added, executed>>

\* to_exec(), which may add a function before it ends.
service_add ==
  /\ service.pc = "exec"
  /\ Push
  /\ UNCHANGED <<stopped_, service, caller, executed>>

service_exec ==
  /\ service.pc = "exec"
  /\ executed' = executed \o service.holds
  /\ service' = [pc |-> "sleep", holds |-> <<>>]
  /\ UNCHANGED <<queue_, stopped_, caller, added>>

\* sleep_for(delay_) is over.
service_sleep ==
  /\ service.pc = "sleep"
  /\ service' = [service EXCEPT !.pc = "check"]
  /\ UNCHANGED <<queue_, stopped_, caller, added, executed>>

-----------------------------------------------------------------------------

Init ==
  /\ queue_ = <<>>
  /\ stopped_ = FALSE
  /\ service = [pc |-> "check", holds |-> <<>>]
  /\ caller = [c \in Callers |-> "idle"]
  /\ added = 0
  /\ executed = <<>>

Next ==
  \/ \E c \in Callers : add(c) \/ stop(c) \/ join(c)
  \/ service_check
  \/ service_pop
  \/ service_add
  \/ service_exec
  \/ service_sleep

\* The service thread runs, the functions end, and a thread that can join
\* does.
Fairness ==
  /\ WF_vars(service_check) /\ WF_vars(service_pop)
  /\ WF_vars(service_exec) /\ WF_vars(service_sleep)
  /\ \A c \in Callers : WF_vars(join(c))

Spec == Init /\ [][Next]_vars /\ Fairness

-----------------------------------------------------------------------------
(* Properties *)

\* Functions run once each and in the order of their add: what ran, what is
\* running and what is queued are, in this order, the first functions added,
\* and all of them while nobody has called stop.
InOrder ==
  LET all == executed \o service.holds \o queue_
  IN /\ \A i \in DOMAIN all : all[i] = i
     /\ ~ stopped_ => Len(all) = added

\* Once stopped, the queue stays empty, so that only the function already taken
\* out may still run, and not even that one once the stop that joins has
\* returned.  (A second stop returns without waiting.)
QuietAfterJoin ==
  /\ (\E c \in Callers : caller[c] = "joined")
       => service = [pc |-> "done", holds |-> <<>>]
  /\ stopped_ => queue_ = <<>>

\* stop returns ("Join when not holding mutex to ensure that service
\* terminates").
StopReturns ==
  \A c \in Callers : caller[c] = "join" ~> caller[c] = "joined"

\* A function that was added runs, unless the queue is stopped.
WorkRuns ==
  \A n \in 1 .. MaxAdds : added = n ~> stopped_ \/ Len(executed) >= n

=============================================================================
