----------------------------- MODULE BlockStore -----------------------------
(***************************************************************************)
(* What the interface BlockManager promises to the file system, whatever   *)
(* carries the blocks: create_block stores a block under an id never used  *)
(* before, free_block lets it go (at once or some time later, but for      *)
(* good), and get_blocks returns when every block it names has been read   *)
(* from the store.  A reader of a block that is gone waits for ever.       *)
(*                                                                         *)
(* Between the free and the end of a block the store may still hand it     *)
(* out, but need not (ServeFreed).  That is what users get; the comment on *)
(* PingBlockService::free_block promises that it does not happen.          *)
(***************************************************************************)
CONSTANTS Clients, BlockIds

VARIABLES status,    \* block id -> "new", "live", "freed" or "gone"
          busy,      \* clients inside get_blocks
          missing    \* client -> blocks its request still lacks

vars == <<status, busy, missing>>

Init ==
  /\ status = [b \in BlockIds |-> "new"]
  /\ busy = {}
  /\ missing = [c \in Clients |-> {}]

Create(b) ==
  /\ status[b] = "new"
  /\ status' = [status EXCEPT ![b] = "live"]
  /\ UNCHANGED <<busy, missing>>

Free(b) ==
  /\ status[b] = "live"
  /\ status' = [status EXCEPT ![b] = "freed"]
  /\ UNCHANGED <<busy, missing>>

Reap(b) ==
  /\ status[b] = "freed"
  /\ status' = [status EXCEPT ![b] = "gone"]
  /\ UNCHANGED <<busy, missing>>

Ask(c, S) ==
  /\ c \notin busy
  /\ \A b \in S : status[b] # "new"
  /\ busy' = busy \cup {c}
  /\ missing' = [missing EXCEPT ![c] = S]
  /\ UNCHANGED status

\* All readers that lack the block get it in one step.
HandOut(b) ==
  /\ \E c \in Clients : b \in missing[c]
  /\ missing' = [c \in Clients |-> missing[c] \ {b}]
  /\ UNCHANGED <<status, busy>>

Serve(b) == status[b] = "live" /\ HandOut(b)

\* A block told to go is handed out once more: PingBlockService::process
\* notifies its subscribers before it asks should_recycle.
ServeFreed(b) == status[b] = "freed" /\ HandOut(b)

Answer(c) ==
  /\ c \in busy
  /\ missing[c] = {}
  /\ busy' = busy \ {c}
  /\ UNCHANGED <<status, missing>>

Next ==
  \/ \E b \in BlockIds :
       Create(b) \/ Free(b) \/ Reap(b) \/ Serve(b) \/ ServeFreed(b)
  \/ \E c \in Clients : Answer(c) \/ \E S \in SUBSET BlockIds : Ask(c, S)

\* A block nobody has freed is always readable, a complete request is
\* answered, and a freed block goes in the end.
Fairness ==
  /\ \A b \in BlockIds : WF_vars(Serve(b)) /\ WF_vars(Reap(b))
  /\ \A c \in Clients : WF_vars(Answer(c))

\* The promise without its liveness.
Safety == Init /\ [][Next]_vars

Spec == Safety /\ Fairness
=============================================================================
