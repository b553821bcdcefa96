--------------------------- MODULE WebhookDelivery ---------------------------
(***************************************************************************)
(* Event delivery to subscribers: WebhookService (src/src/webhook/          *)
(* webhook.service.ts) over SubscriptionService (src/src/subscriptions/     *)
(* subscription.service.ts).  Both keep their state in memory, in one       *)
(* JavaScript event loop: code between two awaits is atomic, and the        *)
(* requests interleave where deliverToSubscription awaits fetch and where   *)
(* publishAndDeliver and retryDueDeliveries await deliverToSubscription.    *)
(*                                                                          *)
(* Abstractions.  Uuids are creation indices, which is also the iteration   *)
(* order of a Map; a subscription or an event is never given an old id.  An *)
(* event is told apart by its kind, the set of kinds a filter accepts stands*)
(* for the filter.                                                          *)
(* callbackUrl is whether there is one.  Time is whether the back-off of a  *)
(* record has run out: nextRetryAt is "null", "later" (in the future) or    *)
(* "due".  findOrThrow only lets the owner through; the owner is the caller.*)
(***************************************************************************)
EXTENDS Integers, FiniteSets

CONSTANTS
  NumSubs,      \* bound on subscriptions ever created
  NumEvents,    \* bound on events ever published
  Kinds,        \* what filters tell apart in an event
  Handlers,     \* requests that may run concurrently
  MaxAttempts   \* MAX_RETRY_ATTEMPTS

ASSUME BoundsAssumption == NumSubs \in Nat /\ NumEvents \in Nat
ASSUME MaxAttemptsAssumption == MaxAttempts \in Nat \ {0}
ASSUME HandlersFinite == IsFiniteSet(Handlers)

VARIABLES
  subscriptions,    \* SubscriptionService.subscriptions
  created,          \* number of subscriptions created so far
  published,        \* length of WebhookService.eventHistory
  deliveryRecords,  \* SubscriptionService.deliveryRecords
  inserted,         \* insertions into deliveryRecords so far: the Map's order
  handlers          \* the requests in progress

vars == <<subscriptions, created, published, deliveryRecords, inserted, handlers>>

SubIds == 1..NumSubs
EventIds == 1..NumEvents
Keys == SubIds \X EventIds

Subscription ==
  [live: BOOLEAN, active: BOOLEAN, callbackUrl: BOOLEAN, filter: SUBSET Kinds]
NoSubscription ==
  [live |-> FALSE, active |-> FALSE, callbackUrl |-> FALSE, filter |-> {}]

Record ==
  [outcome: {"absent", "delivered", "acknowledged", "failed", "retrying"},
   attemptCount: Nat, nextRetryAt: {"null", "later", "due"}, pos: Nat]
NoRecord ==
  [outcome |-> "absent", attemptCount |-> 0, nextRetryAt |-> "null", pos |-> 0]

\* One iteration of a handler's loop: the pair to deliver, the callbackUrl in
\* the subscription DTO the loop was started with, the place in the loop.
Item == [key: Keys, url: BOOLEAN, pos: Nat]

\* A handler at "loop" waits for deliverToSubscription to return (or is about
\* to leave its loop), one at "fetch" for the answer of the subscriber.
Handler == [pc: {"idle", "loop", "fetch"}, job: {"publish", "sweep"},
            todo: SUBSET Item]
Idle == [pc |-> "idle", job |-> "publish", todo |-> {}]

Live(s) == subscriptions[s].live
Outcome(k) == deliveryRecords[k].outcome
Present(k) == Outcome(k) # "absent"
\* Defect: a sweep does not look at the outcome of a record.
IsDueAnyOutcome(k) == Present(k)
IsDue(k) == Outcome(k) = "retrying" /\ deliveryRecords[k].nextRetryAt = "due"
Holds(h, k) == \E i \in handlers[h].todo : i.key = k

Init ==
  /\ subscriptions = [s \in SubIds |-> NoSubscription]
  /\ created = 0
  /\ published = 0
  /\ deliveryRecords = [k \in Keys |-> NoRecord]
  /\ inserted = 0
  /\ handlers = [h \in Handlers |-> Idle]

-----------------------------------------------------------------------------
(* SubscriptionService *)

CreateSubscription ==
  /\ created < NumSubs
  /\ \E url \in BOOLEAN, filter \in SUBSET Kinds :
       subscriptions' = [subscriptions EXCEPT ![created + 1] =
         [live |-> TRUE, active |-> TRUE, callbackUrl |-> url, filter |-> filter]]
  /\ created' = created + 1
  /\ UNCHANGED <<published, deliveryRecords, inserted, handlers>>

\* Every field is optional: the new values include the old ones.
UpdateSubscription(s) ==
  /\ Live(s)
  /\ \E active \in BOOLEAN, url \in BOOLEAN, filter \in SUBSET Kinds :
       subscriptions' = [subscriptions EXCEPT ![s] =
         [live |-> TRUE, active |-> active, callbackUrl |-> url, filter |-> filter]]
  /\ UNCHANGED <<created, published, deliveryRecords, inserted, handlers>>

\* Defect: every record is dropped, not only those of the subscription.
DeleteSubscriptionDropsAll(s) ==
  /\ Live(s)
  /\ subscriptions' = [subscriptions EXCEPT ![s] = NoSubscription]
  /\ deliveryRecords' = [k \in Keys |-> NoRecord]
  /\ UNCHANGED <<created, published, inserted, handlers>>

DeleteSubscription(s) ==
  /\ Live(s)
  /\ subscriptions' = [subscriptions EXCEPT ![s] = NoSubscription]
  /\ deliveryRecords' =
       [k \in Keys |-> IF k[1] = s THEN NoRecord ELSE deliveryRecords[k]]
  /\ UNCHANGED <<created, published, inserted, handlers>>

\* Defect: the last retry is not made.
AttemptedOneLess(r, outcome) ==
  LET n == r.attemptCount + 1
      retry == outcome = "retrying" /\ n < MaxAttempts
  IN [outcome |-> IF outcome = "retrying" /\ ~retry THEN "failed" ELSE outcome,
      attemptCount |-> n,
      nextRetryAt |-> IF retry THEN "later" ELSE "null",
      pos |-> IF r.outcome = "absent" THEN inserted + 1 ELSE r.pos]

\* Defect: the outcome is not set to FAILED when no retry is scheduled.
AttemptedNeverFails(r, outcome) ==
  LET n == r.attemptCount + 1
      retry == outcome = "retrying" /\ n <= MaxAttempts
  IN [outcome |-> outcome,
      attemptCount |-> n,
      nextRetryAt |-> IF retry THEN "later" ELSE "null",
      pos |-> IF r.outcome = "absent" THEN inserted + 1 ELSE r.pos]

\* Defect: a success starts the count of attempts again.
AttemptedRecounts(r, outcome) ==
  [outcome |-> outcome,
   attemptCount |-> IF outcome = "delivered" THEN 1 ELSE r.attemptCount + 1,
   nextRetryAt |-> IF outcome = "retrying" THEN "later" ELSE "null",
   pos |-> IF r.outcome = "absent" THEN inserted + 1 ELSE r.pos]

\* The record recordDeliveryAttempt leaves when it finds record r.
Attempted(r, outcome) ==
  LET n == r.attemptCount + 1
      retry == outcome = "retrying" /\ n <= MaxAttempts
  IN [outcome |-> IF outcome = "retrying" /\ ~retry THEN "failed" ELSE outcome,
      attemptCount |-> n,
      nextRetryAt |-> IF retry THEN "later" ELSE "null",
      pos |-> IF r.outcome = "absent" THEN inserted + 1 ELSE r.pos]

\* Does not look whether the subscription still exists.
RecordDeliveryAttempt(k, outcome) ==
  /\ deliveryRecords' =
       [deliveryRecords EXCEPT ![k] = Attempted(deliveryRecords[k], outcome)]
  /\ inserted' = IF Present(k) THEN inserted ELSE inserted + 1

Acknowledged(r) ==
  IF r.outcome \in {"absent", "acknowledged"} THEN r
  ELSE [r EXCEPT !.outcome = "acknowledged", !.nextRetryAt = "null"]

\* One POST may acknowledge several events; unknown ones are skipped.
AcknowledgeEvents(s, eventIds) ==
  /\ Live(s)
  /\ deliveryRecords' =
       [k \in Keys |-> IF k[1] = s /\ k[2] \in eventIds
                         THEN Acknowledged(deliveryRecords[k])
                         ELSE deliveryRecords[k]]
  /\ UNCHANGED <<subscriptions, created, published, inserted, handlers>>

MatchesFilter(filter, kind) == kind \in filter

-----------------------------------------------------------------------------
(* WebhookService *)

IsNext(i, items) == i \in items /\ \A j \in items : i.pos <= j.pos

\* The subscription DTO a delivery works on: the one of the list taken at the
\* start (publishAndDeliver), or a fresh one (getSubscriptionById in a sweep).
HasUrl(job, i) ==
  IF job = "publish" THEN i.url ELSE subscriptions[i.key[1]].callbackUrl

\* The synchronous code from an iteration of the loop over items to the next
\* await: the loop ends; or getSubscriptionById throws and the request fails;
\* or fetch is called; or, without a url, the delivery is recorded at once.
Advance(h, job, items) ==
  \/ /\ items = {}
     /\ handlers' = [handlers EXCEPT ![h] = Idle]
     /\ UNCHANGED <<deliveryRecords, inserted>>
  \/ \E i \in items :
       /\ IsNext(i, items)
       /\ job = "sweep" /\ ~Live(i.key[1])
       /\ handlers' = [handlers EXCEPT ![h] = Idle]
       /\ UNCHANGED <<deliveryRecords, inserted>>
  \/ \E i \in items :
       /\ IsNext(i, items)
       /\ job = "sweep" => Live(i.key[1])
       /\ HasUrl(job, i)
       /\ handlers' = [handlers EXCEPT ![h] =
            [pc |-> "fetch", job |-> job, todo |-> items]]
       /\ UNCHANGED <<deliveryRecords, inserted>>
  \/ \E i \in items :
       /\ IsNext(i, items)
       /\ job = "sweep" => Live(i.key[1])
       /\ ~HasUrl(job, i)
       /\ RecordDeliveryAttempt(i.key, "delivered")
       /\ handlers' = [handlers EXCEPT ![h] =
            [pc |-> "loop", job |-> job, todo |-> items \ {i}]]

\* The matching active subscriptions, in the order of the subscriptions Map.
PublishItems(kind, e) ==
  {[key |-> <<s, e>>, url |-> subscriptions[s].callbackUrl, pos |-> s] :
     s \in {x \in SubIds : /\ Live(x) /\ subscriptions[x].active
                           /\ MatchesFilter(subscriptions[x].filter, kind)}}

PublishAndDeliver(h, kind) ==
  /\ handlers[h].pc = "idle"
  /\ published < NumEvents
  /\ published' = published + 1
  /\ Advance(h, "publish", PublishItems(kind, published + 1))
  /\ UNCHANGED <<subscriptions, created>>

\* The records due when the sweep starts; the test is on a copy of the records
\* and on the time of the start, so it is the same whenever it is made.
DueItems == {[key |-> k, url |-> FALSE, pos |-> deliveryRecords[k].pos] :
               k \in {x \in Keys : IsDue(x)}}

RetryDueDeliveries(h) ==
  /\ handlers[h].pc = "idle"
  /\ Advance(h, "sweep", DueItems)
  /\ UNCHANGED <<subscriptions, created, published>>

\* deliverToSubscription returned: the next iteration of the loop.
Resume(h) ==
  /\ handlers[h].pc = "loop"
  /\ Advance(h, handlers[h].job, handlers[h].todo)
  /\ UNCHANGED <<subscriptions, created, published>>

\* Defect: an error of fetch is not caught and fails the request.
FetchDoneUncaught(h, ok) ==
  /\ handlers[h].pc = "fetch"
  /\ \E i \in handlers[h].todo :
       /\ IsNext(i, handlers[h].todo)
       /\ IF ok THEN /\ RecordDeliveryAttempt(i.key, "delivered")
                     /\ handlers' = [handlers EXCEPT ![h] =
                          [pc |-> "loop", job |-> handlers[h].job,
                           todo |-> handlers[h].todo \ {i}]]
                ELSE /\ UNCHANGED <<deliveryRecords, inserted>>
                     /\ handlers' = [handlers EXCEPT ![h] = Idle]
  /\ UNCHANGED <<subscriptions, created, published>>

\* The subscriber answered, the connection failed or timed out.
FetchDone(h, ok) ==
  /\ handlers[h].pc = "fetch"
  /\ \E i \in handlers[h].todo :
       /\ IsNext(i, handlers[h].todo)
       /\ RecordDeliveryAttempt(i.key, IF ok THEN "delivered" ELSE "retrying")
       /\ handlers' = [handlers EXCEPT ![h] =
            [pc |-> "loop", job |-> handlers[h].job, todo |-> handlers[h].todo \ {i}]]
  /\ UNCHANGED <<subscriptions, created, published>>

\* The event enters the history before the subscription is looked up; the
\* delivery is simulated, whatever callbackUrl and active say.
SimulateDelivery(s) ==
  /\ published < NumEvents
  /\ published' = published + 1
  /\ IF Live(s) THEN RecordDeliveryAttempt(<<s, published + 1>>, "delivered")
                ELSE UNCHANGED <<deliveryRecords, inserted>>
  /\ UNCHANGED <<subscriptions, created, handlers>>

\* Time reaches nextRetryAt.
RetryTimeReached(k) ==
  /\ deliveryRecords[k].nextRetryAt = "later"
  /\ deliveryRecords' = [deliveryRecords EXCEPT ![k].nextRetryAt = "due"]
  /\ UNCHANGED <<subscriptions, created, published, inserted, handlers>>

-----------------------------------------------------------------------------
Next ==
  \/ CreateSubscription
  \/ \E s \in SubIds : UpdateSubscription(s)
  \/ \E s \in SubIds : DeleteSubscription(s)
  \/ \E s \in SubIds, eventIds \in SUBSET EventIds : AcknowledgeEvents(s, eventIds)
  \/ \E h \in Handlers, kind \in Kinds : PublishAndDeliver(h, kind)
  \/ \E h \in Handlers : RetryDueDeliveries(h)
  \/ \E h \in Handlers : Resume(h)
  \/ \E h \in Handlers, ok \in BOOLEAN : FetchDone(h, ok)
  \/ \E s \in SubIds : SimulateDelivery(s)
  \/ \E k \in Keys : RetryTimeReached(k)

Spec == Init /\ [][Next]_vars

(* The event loop runs what can run, fetch settles, clocks advance.  Nothing *)
(* in the code calls retryDueDeliveries: that somebody keeps posting to      *)
(* /api/webhooks/retry-due is the last conjunct.                             *)
Fairness ==
  /\ \A h \in Handlers : WF_vars(Resume(h))
  /\ \A h \in Handlers : WF_vars(\E ok \in BOOLEAN : FetchDone(h, ok))
  /\ \A k \in Keys : WF_vars(RetryTimeReached(k))
  /\ WF_vars(\E h \in Handlers : RetryDueDeliveries(h))

FairSpec == Spec /\ Fairness

-----------------------------------------------------------------------------
(* Properties *)

\* The state of the two services is well formed.
TypeOK ==
  /\ subscriptions \in [SubIds -> Subscription]
  /\ created \in 0..NumSubs
  /\ published \in 0..NumEvents
  /\ deliveryRecords \in [Keys -> Record]
  /\ inserted \in Nat
  /\ handlers \in [Handlers -> Handler]

\* A retry is scheduled exactly for the records that wait for one, whatever
\* order acknowledgements, late answers and sweeps come in: nothing that is
\* settled is picked up by a sweep, nothing that waits is forgotten by all
\* (recordDeliveryAttempt, acknowledgeEvents).
RetryScheduledIffRetrying ==
  \A k \in Keys : Outcome(k) = "retrying" <=> deliveryRecords[k].nextRetryAt # "null"

\* Concurrent deliveries of one record neither cut its attempts short nor
\* retry it past its budget: a delivery is given up only after the first
\* attempt and MAX_RETRY_ATTEMPTS retries, and waits for a retry only within
\* them (recordDeliveryAttempt).
AttemptBudget ==
  \A k \in Keys :
    /\ Outcome(k) = "retrying" => deliveryRecords[k].attemptCount \in 1..MaxAttempts
    /\ Outcome(k) = "failed" => deliveryRecords[k].attemptCount > MaxAttempts

RetriesConsistent == RetryScheduledIffRetrying /\ AttemptBudget

\* Retries are scheduled for what waits, within the budget, whatever deliveries,
\* acknowledgements, sweeps and deletions of one record overlap.
RecordsConsistent == TypeOK /\ RetriesConsistent

\* Overlapping sweeps may deliver one record several times, but each of them
\* adds at most one attempt to the budget.
OverlapBoundsAttempts ==
  \A k \in Keys :
    deliveryRecords[k].attemptCount + Cardinality({h \in Handlers : Holds(h, k)})
      <= MaxAttempts + Cardinality(Handlers)

\* Every record and every delivery in progress is of an event in the history,
\* so a sweep never skips a due record for want of its event, and of a
\* subscription that existed (retryDueDeliveries, "if (!event) continue").
DeliveriesHaveEvents ==
  \A k \in Keys :
    (Present(k) \/ \E h \in Handlers : Holds(h, k)) => k[1] <= created /\ k[2] <= published

Settled(k) == Outcome(k) \in {"delivered", "acknowledged", "failed"}

\* No sweep takes up a delivery that is settled already: only a request that
\* took it up before it was settled may still write to it.
SettledNotTakenUp ==
  [][\A k \in Keys, h \in Handlers :
       Settled(k) /\ ~Holds(h, k) => ~Holds(h, k)']_vars

\* A settled delivery changes only through the acknowledgement or the deletion
\* of its subscriber, or through a delivery that had been taken up earlier.
SettledChangesOnlyInFlight ==
  [][\A k \in Keys :
       Settled(k) => \/ Outcome(k)' = Outcome(k)
                     \/ Live(k[1]) /\ Outcome(k)' = "acknowledged"
                     \/ Live(k[1]) /\ ~Live(k[1])' /\ ~Present(k)'
                     \/ \E h \in Handlers : Holds(h, k) /\ ~Holds(h, k)']_vars

\* A record of a deleted subscription that waits for a retry: the sweep that
\* reaches it throws, and leaves the due records behind it alone.
Orphan(k) == Outcome(k) = "retrying" /\ ~Live(k[1])

\* Unless an orphan blocks the sweeps, a delivery that waits for a retry is
\* delivered, acknowledged, given up or deleted in the end, even though
\* requests fail and sweeps abort in between.
RetryingResolves ==
  \A k \in Keys :
    Outcome(k) = "retrying" ~> Outcome(k) # "retrying" \/ \E o \in Keys : Orphan(o)

\* A publication attempts every delivery it has listed, even when subscriptions
\* are changed or deleted meanwhile and when other deliveries fail.
PublishReachesAll ==
  \A h \in Handlers, k \in Keys :
    handlers[h].job = "publish" /\ Holds(h, k) ~> Present(k)

\* Whatever the requests in progress do, the records a subscriber sees follow
\* the lifecycle of DeliveryLedger: an attempt is counted once, a failed one is
\* retried within the budget, records only go away with their subscription.
Ledger == INSTANCE DeliveryLedger WITH
            outcome <- [k \in Keys |-> Outcome(k)],
            attempts <- [k \in Keys |-> deliveryRecords[k].attemptCount]
ImplementsLedger == Ledger!Spec

\* "retries due failed deliveries from event history": a delivery that waits
\* for a retry is retried until it is settled, or its subscription is deleted.
DueDeliveriesRetried ==
  \A k \in Keys :
    Outcome(k) = "retrying" /\ Live(k[1]) ~> Outcome(k) # "retrying" \/ ~Live(k[1])
=============================================================================
