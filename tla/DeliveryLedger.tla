--------------------------- MODULE DeliveryLedger ---------------------------
(***************************************************************************)
(* What a subscriber may rely on when it reads GET /api/subscriptions/:id/  *)
(* delivery-status: the life of each (subscription, event) pair, without    *)
(* the requests, sweeps and clocks that drive it (src/src/subscriptions/    *)
(* entities/delivery-record.entity.ts, "Tracks the delivery state for each  *)
(* (subscription, event) pair").                                            *)
(***************************************************************************)
EXTENDS Integers

CONSTANTS
  SubIds, EventIds,  \* subscriptions and events
  MaxAttempts        \* MAX_RETRY_ATTEMPTS

VARIABLES
  outcome,   \* of each pair; "absent" while there is no record of it
  attempts   \* deliveries of the pair that ended, since there is a record

vars == <<outcome, attempts>>

Keys == SubIds \X EventIds

Init ==
  /\ outcome = [k \in Keys |-> "absent"]
  /\ attempts = [k \in Keys |-> 0]

\* A delivery ends.  One that fails is retried while the budget lasts.
Attempt(k) ==
  /\ attempts' = [attempts EXCEPT ![k] = @ + 1]
  /\ \/ outcome' = [outcome EXCEPT ![k] = "delivered"]
     \/ /\ attempts[k] < MaxAttempts
        /\ outcome' = [outcome EXCEPT ![k] = "retrying"]
     \/ /\ attempts[k] >= MaxAttempts
        /\ outcome' = [outcome EXCEPT ![k] = "failed"]

\* The subscriber acknowledges events there is a record of, in one step.
Acknowledge(s, eventIds) ==
  /\ outcome' = [k \in Keys |->
       IF k[1] = s /\ k[2] \in eventIds /\ outcome[k] # "absent"
         THEN "acknowledged" ELSE outcome[k]]
  /\ UNCHANGED attempts

\* The subscription is deleted, with every record of it.
Forget(s) ==
  /\ outcome' = [k \in Keys |-> IF k[1] = s THEN "absent" ELSE outcome[k]]
  /\ attempts' = [k \in Keys |-> IF k[1] = s THEN 0 ELSE attempts[k]]

Next ==
  \/ \E k \in Keys : Attempt(k)
  \/ \E s \in SubIds, eventIds \in SUBSET EventIds : Acknowledge(s, eventIds)
  \/ \E s \in SubIds : Forget(s)

Spec == Init /\ [][Next]_vars
=============================================================================
