----------------------- MODULE WebhookDelivery_proofs -----------------------
(***************************************************************************)
(* Proofs about WebhookDelivery, for any number of subscriptions, events,   *)
(* concurrent requests and attempts.                                        *)
(***************************************************************************)
EXTENDS WebhookDelivery, FiniteSetTheorems, TLAPS

(* A step writes the records in one of five ways, whoever takes it.         *)
RecordStep ==
  \/ UNCHANGED <<deliveryRecords, inserted>>
  \/ \E k \in Keys, o \in {"delivered", "retrying"} : RecordDeliveryAttempt(k, o)
  \/ \E s \in SubIds : DeleteSubscription(s)
  \/ \E s \in SubIds, eventIds \in SUBSET EventIds : AcknowledgeEvents(s, eventIds)
  \/ \E k \in Keys : RetryTimeReached(k)

\* The loops of publishAndDeliver and retryDueDeliveries only work on items.
LEMMA ItemsTyped ==
  ASSUME TypeOK
  PROVE  /\ DueItems \subseteq Item
         /\ \A kind \in Kinds :
              published < NumEvents => PublishItems(kind, published + 1) \subseteq Item
<1>1. DueItems \subseteq Item
  <2>1. \A k \in Keys : deliveryRecords[k].pos \in Nat
    BY DEF TypeOK, Record
  <2>2. \A k \in Keys : [key |-> k, url |-> FALSE, pos |-> deliveryRecords[k].pos] \in Item
    BY <2>1 DEF Item
  <2> QED BY <2>2 DEF DueItems
<1>2. ASSUME NEW kind \in Kinds, published < NumEvents
      PROVE  PublishItems(kind, published + 1) \subseteq Item
  <2>1. published + 1 \in EventIds
    BY <1>2, BoundsAssumption DEF TypeOK, EventIds
  <2>2. \A s \in SubIds : s \in Nat /\ <<s, published + 1>> \in Keys
    BY <2>1, BoundsAssumption DEF Keys, SubIds
  <2> QED BY <2>2 DEF PublishItems, TypeOK, Item, Subscription
<1> QED BY <1>1, <1>2

\* A handler that advances over items stays a handler, and writes at most one
\* delivery.
LEMMA AdvanceTyped ==
  ASSUME TypeOK, NEW h \in Handlers, NEW job \in {"publish", "sweep"},
         NEW items \in SUBSET Item, Advance(h, job, items)
  PROVE  /\ handlers' \in [Handlers -> Handler]
         /\ \/ UNCHANGED <<deliveryRecords, inserted>>
            \/ \E k \in Keys : RecordDeliveryAttempt(k, "delivered")
<1>1. CASE handlers' = [handlers EXCEPT ![h] = Idle] /\ UNCHANGED <<deliveryRecords, inserted>>
  BY <1>1 DEF TypeOK, Handler, Idle
<1>2. CASE /\ handlers' = [handlers EXCEPT ![h] = [pc |-> "fetch", job |-> job, todo |-> items]]
           /\ UNCHANGED <<deliveryRecords, inserted>>
  BY <1>2 DEF TypeOK, Handler
<1>3. ASSUME NEW i \in items, RecordDeliveryAttempt(i.key, "delivered"),
             handlers' = [handlers EXCEPT ![h] =
               [pc |-> "loop", job |-> job, todo |-> items \ {i}]]
      PROVE  /\ handlers' \in [Handlers -> Handler]
             /\ \E k \in Keys : RecordDeliveryAttempt(k, "delivered")
  BY <1>3 DEF TypeOK, Handler, Item
<1> QED BY <1>1, <1>2, <1>3 DEF Advance

LEMMA FetchTyped ==
  ASSUME TypeOK, NEW h \in Handlers, NEW ok \in BOOLEAN, FetchDone(h, ok)
  PROVE  /\ handlers' \in [Handlers -> Handler]
         /\ \E k \in Keys, o \in {"delivered", "retrying"} : RecordDeliveryAttempt(k, o)
<1>1. PICK i \in handlers[h].todo :
        /\ RecordDeliveryAttempt(i.key, IF ok THEN "delivered" ELSE "retrying")
        /\ handlers' = [handlers EXCEPT ![h] =
             [pc |-> "loop", job |-> handlers[h].job, todo |-> handlers[h].todo \ {i}]]
  BY DEF FetchDone
<1>2. handlers[h] \in Handler /\ i.key \in Keys
  BY DEF TypeOK, Handler, Item
<1>3. [pc |-> "loop", job |-> handlers[h].job, todo |-> handlers[h].todo \ {i}] \in Handler
  BY <1>2 DEF Handler
<1>4. handlers' \in [Handlers -> Handler]
  BY <1>1, <1>3 DEF TypeOK
<1> QED BY <1>1, <1>2, <1>4

LEMMA RecordStepOfNext ==
  ASSUME TypeOK, [Next]_vars
  PROVE  RecordStep
<1>1. CASE CreateSubscription
  BY <1>1 DEF CreateSubscription, RecordStep
<1>2. CASE \E s \in SubIds : UpdateSubscription(s)
  BY <1>2 DEF UpdateSubscription, RecordStep
<1>3. CASE \E s \in SubIds : DeleteSubscription(s)
  BY <1>3 DEF RecordStep
<1>4. CASE \E s \in SubIds, eventIds \in SUBSET EventIds : AcknowledgeEvents(s, eventIds)
  BY <1>4 DEF RecordStep
<1>5. ASSUME NEW h \in Handlers, NEW kind \in Kinds, PublishAndDeliver(h, kind)
      PROVE  RecordStep
  BY <1>5, ItemsTyped, AdvanceTyped DEF PublishAndDeliver, RecordStep
<1>6. ASSUME NEW h \in Handlers, RetryDueDeliveries(h)
      PROVE  RecordStep
  BY <1>6, ItemsTyped, AdvanceTyped DEF RetryDueDeliveries, RecordStep
<1>7. ASSUME NEW h \in Handlers, Resume(h)
      PROVE  RecordStep
  <2>1. handlers[h].job \in {"publish", "sweep"} /\ handlers[h].todo \in SUBSET Item
    BY DEF TypeOK, Handler
  <2> QED BY <1>7, <2>1, AdvanceTyped DEF Resume, RecordStep
<1>8. CASE \E h \in Handlers, ok \in BOOLEAN : FetchDone(h, ok)
  BY <1>8, FetchTyped DEF RecordStep
<1>9. ASSUME NEW s \in SubIds, SimulateDelivery(s)
      PROVE  RecordStep
  <2>1. published + 1 \in EventIds
    BY <1>9, BoundsAssumption DEF SimulateDelivery, TypeOK, EventIds
  <2> QED BY <1>9, <2>1 DEF SimulateDelivery, RecordStep, Keys
<1>10. CASE \E k \in Keys : RetryTimeReached(k)
  BY <1>10 DEF RecordStep
<1>11. CASE UNCHANGED vars
  BY <1>11 DEF vars, RecordStep
<1> QED
  BY <1>1, <1>2, <1>3, <1>4, <1>5, <1>6, <1>7, <1>8, <1>9, <1>10, <1>11 DEF Next

\* Whatever a step does to the records, they stay records.
LEMMA RecordsTyped ==
  ASSUME TypeOK, RecordStep
  PROVE  deliveryRecords' \in [Keys -> Record] /\ inserted' \in Nat
<1>1. CASE UNCHANGED <<deliveryRecords, inserted>>
  BY <1>1 DEF TypeOK
<1>2. ASSUME NEW k \in Keys, NEW o \in {"delivered", "retrying"}, RecordDeliveryAttempt(k, o)
      PROVE  deliveryRecords' \in [Keys -> Record] /\ inserted' \in Nat
  <2>1. deliveryRecords[k] \in Record
    BY DEF TypeOK
  <2>2. Attempted(deliveryRecords[k], o) \in Record
    BY <2>1 DEF Attempted, Record, TypeOK
  <2> QED BY <1>2, <2>2 DEF RecordDeliveryAttempt, TypeOK
<1>3. ASSUME NEW s \in SubIds, DeleteSubscription(s)
      PROVE  deliveryRecords' \in [Keys -> Record] /\ inserted' \in Nat
  <2>1. NoRecord \in Record
    BY DEF NoRecord, Record
  <2> QED BY <1>3, <2>1 DEF DeleteSubscription, TypeOK
<1>4. ASSUME NEW s \in SubIds, NEW eventIds \in SUBSET EventIds, AcknowledgeEvents(s, eventIds)
      PROVE  deliveryRecords' \in [Keys -> Record] /\ inserted' \in Nat
  <2>1. \A r \in Record : Acknowledged(r) \in Record
    BY DEF Acknowledged, Record
  <2> QED BY <1>4, <2>1 DEF AcknowledgeEvents, TypeOK
<1>5. ASSUME NEW k \in Keys, RetryTimeReached(k)
      PROVE  deliveryRecords' \in [Keys -> Record] /\ inserted' \in Nat
  BY <1>5 DEF RetryTimeReached, TypeOK, Record
<1> QED BY <1>1, <1>2, <1>3, <1>4, <1>5 DEF RecordStep

LEMMA TypeInductive == TypeOK /\ [Next]_vars => TypeOK'
<1> SUFFICES ASSUME TypeOK, [Next]_vars PROVE TypeOK'
  OBVIOUS
<1>1. deliveryRecords' \in [Keys -> Record] /\ inserted' \in Nat
  BY RecordStepOfNext, RecordsTyped
<1>2. CASE CreateSubscription
  <2>1. created + 1 \in SubIds /\ created + 1 \in 0..NumSubs
    BY <1>2, BoundsAssumption DEF CreateSubscription, TypeOK, SubIds
  <2> QED BY <1>1, <1>2, <2>1 DEF CreateSubscription, TypeOK, Subscription
<1>3. ASSUME NEW s \in SubIds, UpdateSubscription(s) PROVE TypeOK'
  BY <1>1, <1>3 DEF UpdateSubscription, TypeOK, Subscription
<1>4. ASSUME NEW s \in SubIds, DeleteSubscription(s) PROVE TypeOK'
  <2>1. NoSubscription \in Subscription
    BY DEF NoSubscription, Subscription
  <2> QED BY <1>1, <1>4, <2>1 DEF DeleteSubscription, TypeOK
<1>5. ASSUME NEW s \in SubIds, NEW eventIds \in SUBSET EventIds, AcknowledgeEvents(s, eventIds)
      PROVE  TypeOK'
  BY <1>1, <1>5 DEF AcknowledgeEvents, TypeOK
<1>6. ASSUME NEW h \in Handlers, NEW kind \in Kinds, PublishAndDeliver(h, kind)
      PROVE  TypeOK'
  <2>1. published' \in 0..NumEvents
    BY <1>6, BoundsAssumption DEF PublishAndDeliver, TypeOK
  <2>2. handlers' \in [Handlers -> Handler]
    BY <1>6, ItemsTyped, AdvanceTyped DEF PublishAndDeliver
  <2> QED BY <1>1, <1>6, <2>1, <2>2 DEF PublishAndDeliver, TypeOK
<1>7. ASSUME NEW h \in Handlers, RetryDueDeliveries(h) PROVE TypeOK'
  <2>1. handlers' \in [Handlers -> Handler]
    BY <1>7, ItemsTyped, AdvanceTyped DEF RetryDueDeliveries
  <2> QED BY <1>1, <1>7, <2>1 DEF RetryDueDeliveries, TypeOK
<1>8. ASSUME NEW h \in Handlers, Resume(h) PROVE TypeOK'
  <2>1. handlers[h].job \in {"publish", "sweep"} /\ handlers[h].todo \in SUBSET Item
    BY DEF TypeOK, Handler
  <2>2. handlers' \in [Handlers -> Handler]
    BY <1>8, <2>1, AdvanceTyped DEF Resume
  <2> QED BY <1>1, <1>8, <2>2 DEF Resume, TypeOK
<1>9. ASSUME NEW h \in Handlers, NEW ok \in BOOLEAN, FetchDone(h, ok) PROVE TypeOK'
  BY <1>1, <1>9, FetchTyped DEF FetchDone, TypeOK
<1>10. ASSUME NEW s \in SubIds, SimulateDelivery(s) PROVE TypeOK'
  <2>1. published' \in 0..NumEvents
    BY <1>10, BoundsAssumption DEF SimulateDelivery, TypeOK
  <2> QED BY <1>1, <1>10, <2>1 DEF SimulateDelivery, TypeOK
<1>11. ASSUME NEW k \in Keys, RetryTimeReached(k) PROVE TypeOK'
  BY <1>1, <1>11 DEF RetryTimeReached, TypeOK
<1>12. CASE UNCHANGED vars
  BY <1>12 DEF vars, TypeOK
<1> QED
  BY <1>2, <1>3, <1>4, <1>5, <1>6, <1>7, <1>8, <1>9, <1>10, <1>11, <1>12 DEF Next

LEMMA TypeInit == Init => TypeOK
<1> SUFFICES ASSUME Init PROVE TypeOK
  OBVIOUS
<1>1. NoSubscription \in Subscription /\ NoRecord \in Record /\ Idle \in Handler
  BY DEF NoSubscription, Subscription, NoRecord, Record, Idle, Handler
<1> QED BY <1>1, BoundsAssumption DEF Init, TypeOK

\* The state of the two services stays well formed.
THEOREM TypeCorrect == Spec => []TypeOK
<1> QED BY TypeInit, TypeInductive, PTL DEF Spec

-----------------------------------------------------------------------------
(* The records.                                                             *)

LEMMA RecordsInductive ==
  ASSUME TypeOK, RetriesConsistent, RecordStep
  PROVE  RetriesConsistent'
<1> DEFINE Good(r) ==
      /\ r.outcome = "retrying" <=> r.nextRetryAt # "null"
      /\ r.outcome = "retrying" => r.attemptCount \in 1..MaxAttempts
      /\ r.outcome = "failed" => r.attemptCount > MaxAttempts
<1>1. \A k \in Keys : Good(deliveryRecords[k])
  BY DEF RetriesConsistent, RetryScheduledIffRetrying, AttemptBudget, Outcome
<1>2. ASSUME \A k \in Keys : Good(deliveryRecords'[k])
      PROVE  RetriesConsistent'
  BY <1>2 DEF RetriesConsistent, RetryScheduledIffRetrying, AttemptBudget, Outcome
<1>3. CASE UNCHANGED <<deliveryRecords, inserted>>
  BY <1>1, <1>2, <1>3
<1>4. ASSUME NEW k \in Keys, NEW o \in {"delivered", "retrying"}, RecordDeliveryAttempt(k, o)
      PROVE  RetriesConsistent'
  <2>1. deliveryRecords[k].attemptCount \in Nat
    BY DEF TypeOK, Record
  <2>2. Good(Attempted(deliveryRecords[k], o))
    BY <2>1, MaxAttemptsAssumption DEF Attempted
  <2>3. deliveryRecords' = [deliveryRecords EXCEPT ![k] = Attempted(deliveryRecords[k], o)]
    BY <1>4 DEF RecordDeliveryAttempt
  <2>4. \A j \in Keys : deliveryRecords'[j] =
          IF j = k THEN Attempted(deliveryRecords[k], o) ELSE deliveryRecords[j]
    BY <2>3 DEF TypeOK
  <2> HIDE DEF Good
  <2>5. \A j \in Keys : Good(deliveryRecords'[j])
    BY <1>1, <2>2, <2>4
  <2> QED BY <1>2, <2>5
<1>5. ASSUME NEW s \in SubIds, DeleteSubscription(s)
      PROVE  RetriesConsistent'
  <2>1. Good(NoRecord)
    BY DEF NoRecord
  <2> HIDE DEF Good
  <2>2. \A j \in Keys : Good(deliveryRecords'[j])
    BY <1>1, <1>5, <2>1 DEF DeleteSubscription
  <2> QED BY <1>2, <2>2
<1>6. ASSUME NEW s \in SubIds, NEW eventIds \in SUBSET EventIds, AcknowledgeEvents(s, eventIds)
      PROVE  RetriesConsistent'
  <2>1. \A r \in Record : Good(r) => Good(Acknowledged(r))
    BY DEF Acknowledged, Record
  <2>2. \A j \in Keys : deliveryRecords[j] \in Record
    BY DEF TypeOK
  <2> HIDE DEF Good
  <2>3. \A j \in Keys : Good(deliveryRecords'[j])
    BY <1>1, <1>6, <2>1, <2>2 DEF AcknowledgeEvents
  <2> QED BY <1>2, <2>3
<1>7. ASSUME NEW k \in Keys, RetryTimeReached(k)
      PROVE  RetriesConsistent'
  <2>1. \A j \in Keys : deliveryRecords[j] \in Record
    BY DEF TypeOK
  <2>2. \A j \in Keys : /\ deliveryRecords'[j].outcome = deliveryRecords[j].outcome
                        /\ deliveryRecords'[j].attemptCount = deliveryRecords[j].attemptCount
                        /\ deliveryRecords'[j].nextRetryAt # "null"
                             <=> deliveryRecords[j].nextRetryAt # "null"
    BY <1>7, <2>1 DEF RetryTimeReached, TypeOK, Record
  <2> QED BY <1>1, <1>2, <2>2
<1> QED BY <1>3, <1>4, <1>5, <1>6, <1>7 DEF RecordStep

\* Whatever publications, sweeps, late answers and acknowledgements overlap, a
\* retry is scheduled exactly for the records that wait for one, and no record
\* is given up before its attempts are used up or waits after that.
THEOREM RecordsCorrect == Spec => []RecordsConsistent
<1>1. Init => RetriesConsistent
  <2>1. \A r : r = NoRecord => r.outcome = "absent" /\ r.nextRetryAt = "null"
    BY DEF NoRecord
  <2> QED
    BY <2>1 DEF Init, RetriesConsistent, RetryScheduledIffRetrying, AttemptBudget, Outcome
<1>2. TypeOK /\ RetriesConsistent /\ [Next]_vars => RetriesConsistent'
  BY RecordStepOfNext, RecordsInductive
<1>3. TypeOK /\ RetriesConsistent => RecordsConsistent
  BY DEF RecordsConsistent
<1> QED BY <1>1, <1>2, <1>3, TypeCorrect, PTL DEF Spec

-----------------------------------------------------------------------------
(* The refinement.                                                          *)

LEMMA StepRefines ==
  ASSUME TypeOK, RecordStep
  PROVE  [Ledger!Next]_(Ledger!vars)
<1> DEFINE out == [k \in Keys |-> Outcome(k)]
           att == [k \in Keys |-> deliveryRecords[k].attemptCount]
<1>0. Keys = Ledger!Keys
  BY DEF Keys, Ledger!Keys
<1>1. CASE UNCHANGED <<deliveryRecords, inserted>>
  BY <1>1 DEF Ledger!vars, Outcome
<1>2. ASSUME NEW k \in Keys, NEW o \in {"delivered", "retrying"}, RecordDeliveryAttempt(k, o)
      PROVE  Ledger!Attempt(k)
  <2>1. deliveryRecords' = [deliveryRecords EXCEPT ![k] = Attempted(deliveryRecords[k], o)]
    BY <1>2 DEF RecordDeliveryAttempt
  <2>2. \A j \in Keys : deliveryRecords'[j] =
          IF j = k THEN Attempted(deliveryRecords[k], o) ELSE deliveryRecords[j]
    BY <2>1 DEF TypeOK
  <2>3. deliveryRecords[k].attemptCount \in Nat
    BY DEF TypeOK, Record
  <2> DEFINE new == IF o = "delivered" THEN "delivered"
                    ELSE IF att[k] < MaxAttempts THEN "retrying" ELSE "failed"
  <2>4. /\ Attempted(deliveryRecords[k], o).outcome = new
        /\ Attempted(deliveryRecords[k], o).attemptCount = att[k] + 1
    BY <2>3, MaxAttemptsAssumption DEF Attempted
  <2>5. out' = [out EXCEPT ![k] = new]
    BY <2>2, <2>4 DEF Outcome
  <2>6. att' = [att EXCEPT ![k] = att[k] + 1]
    BY <2>2, <2>4
  <2>7. /\ new = "retrying" => att[k] < MaxAttempts
        /\ new = "failed" => att[k] >= MaxAttempts
        /\ new \in {"delivered", "retrying", "failed"}
    BY <2>3, MaxAttemptsAssumption
  <2> QED BY <2>5, <2>6, <2>7 DEF Ledger!Attempt
<1>3. ASSUME NEW s \in SubIds, DeleteSubscription(s)
      PROVE  Ledger!Forget(s)
  <2>1. NoRecord.outcome = "absent" /\ NoRecord.attemptCount = 0
    BY DEF NoRecord
  <2>2. \A k \in Keys : deliveryRecords'[k] = IF k[1] = s THEN NoRecord ELSE deliveryRecords[k]
    BY <1>3 DEF DeleteSubscription
  <2> QED BY <1>0, <2>1, <2>2 DEF Ledger!Forget, Outcome
<1>4. ASSUME NEW s \in SubIds, NEW eventIds \in SUBSET EventIds, AcknowledgeEvents(s, eventIds)
      PROVE  Ledger!Acknowledge(s, eventIds)
  <2>1. \A k \in Keys : deliveryRecords'[k] =
          IF k[1] = s /\ k[2] \in eventIds THEN Acknowledged(deliveryRecords[k])
          ELSE deliveryRecords[k]
    BY <1>4 DEF AcknowledgeEvents
  <2>2. \A r \in Record :
          /\ Acknowledged(r).outcome = IF r.outcome = "absent" THEN "absent" ELSE "acknowledged"
          /\ Acknowledged(r).attemptCount = r.attemptCount
    BY DEF Acknowledged, Record
  <2>3. \A k \in Keys : deliveryRecords[k] \in Record
    BY DEF TypeOK
  <2> QED BY <1>0, <2>1, <2>2, <2>3 DEF Ledger!Acknowledge, Outcome
<1>5. ASSUME NEW k \in Keys, RetryTimeReached(k)
      PROVE  UNCHANGED Ledger!vars
  <2>1. \A j \in Keys : /\ deliveryRecords'[j].outcome = deliveryRecords[j].outcome
                        /\ deliveryRecords'[j].attemptCount = deliveryRecords[j].attemptCount
    BY <1>5 DEF RetryTimeReached, TypeOK, Record
  <2> QED BY <2>1 DEF Ledger!vars, Outcome
<1> QED BY <1>0, <1>1, <1>2, <1>3, <1>4, <1>5 DEF RecordStep, Ledger!Next

\* The delivery machinery implements the ledger a subscriber reads.
THEOREM LedgerImplemented == Spec => ImplementsLedger
<1>1. Init => Ledger!Init
  BY DEF Init, Ledger!Init, Ledger!Keys, Keys, Outcome, NoRecord
<1>2. TypeOK /\ [Next]_vars => [Ledger!Next]_(Ledger!vars)
  BY RecordStepOfNext, StepRefines
<1> QED BY <1>1, <1>2, TypeCorrect, PTL DEF Spec, ImplementsLedger, Ledger!Spec

-----------------------------------------------------------------------------
(* Who is delivering what.                                                  *)

Listed(items, k) == \E i \in items : i.key = k

\* Advancing over items makes the handler hold nothing but items, and creates
\* no record but for one of them.
LEMMA AdvanceHolds ==
  ASSUME TypeOK, NEW h \in Handlers, NEW job, NEW items \in SUBSET Item,
         Advance(h, job, items), NEW k \in Keys
  PROVE  /\ \A g \in Handlers : Holds(g, k)' => \/ g # h /\ Holds(g, k)
                                                \/ g = h /\ Listed(items, k)
         /\ deliveryRecords'[k] = deliveryRecords[k] \/ Listed(items, k)
<1> DEFINE Moved(pc, j, todo) ==
      handlers' = [handlers EXCEPT ![h] = [pc |-> pc, job |-> j, todo |-> todo]]
<1>a. Idle = [pc |-> "idle", job |-> "publish", todo |-> {}] /\ {} \subseteq items
  BY DEF Idle
<1>b. \A i \in items : items \ {i} \subseteq items
  OBVIOUS
<1>1. PICK pc, j, todo : todo \subseteq items /\ Moved(pc, j, todo)
  <2>1. \/ Moved("idle", "publish", {})
        \/ Moved("fetch", job, items)
        \/ \E i \in items : Moved("loop", job, items \ {i})
    BY <1>a DEF Advance
  <2> QED BY <2>1, <1>a, <1>b
<1>2. \A g \in Handlers : Holds(g, k)' => \/ g # h /\ Holds(g, k)
                                          \/ g = h /\ Listed(items, k)
  BY <1>1 DEF TypeOK, Holds, Listed
<1>3. deliveryRecords'[k] = deliveryRecords[k] \/ Listed(items, k)
  BY DEF Advance, RecordDeliveryAttempt, TypeOK, Listed
<1> QED BY <1>2, <1>3

LEMMA FetchHolds ==
  ASSUME TypeOK, NEW h \in Handlers, NEW ok \in BOOLEAN, FetchDone(h, ok), NEW k \in Keys
  PROVE  /\ \A g \in Handlers : Holds(g, k)' => Holds(g, k)
         /\ deliveryRecords'[k] = deliveryRecords[k] \/ Holds(h, k)
<1>1. PICK i \in handlers[h].todo :
        /\ RecordDeliveryAttempt(i.key, IF ok THEN "delivered" ELSE "retrying")
        /\ handlers' = [handlers EXCEPT ![h] =
             [pc |-> "loop", job |-> handlers[h].job, todo |-> handlers[h].todo \ {i}]]
  BY DEF FetchDone
<1>2. \A g \in Handlers : Holds(g, k)' => Holds(g, k)
  BY <1>1 DEF TypeOK, Holds
<1>3. deliveryRecords'[k] = deliveryRecords[k] \/ Holds(h, k)
  BY <1>1 DEF RecordDeliveryAttempt, TypeOK, Holds
<1> QED BY <1>2, <1>3

(* The strengthening that makes DeliveriesHaveEvents inductive: what can be *)
(* listed by a publication was created.                                     *)
EventsInv == DeliveriesHaveEvents /\ \A s \in SubIds : Live(s) => s <= created

Known(k) == k[1] <= created /\ k[2] <= published

LEMMA EventsInductive == TypeOK /\ EventsInv /\ [Next]_vars => EventsInv'
<1> SUFFICES ASSUME TypeOK, EventsInv, [Next]_vars PROVE EventsInv'
  OBVIOUS
<1> USE DEF EventsInv, DeliveriesHaveEvents
<1>0. /\ created \in Nat /\ published \in Nat
      /\ \A k \in Keys : k[1] \in Nat /\ k[2] \in Nat /\ k[1] \in SubIds
  BY BoundsAssumption DEF TypeOK, Keys, SubIds, EventIds
<1>1. ASSUME UNCHANGED handlers, created' >= created, published' >= published,
             \A s \in SubIds : Live(s)' => Live(s) \/ s <= created',
             \A k \in Keys : Present(k)' => Present(k) \/ Known(k)',
             created' \in Nat, published' \in Nat
      PROVE  EventsInv'
  <2>1. \A k \in Keys : Known(k) => Known(k)'
    BY <1>0, <1>1 DEF Known
  <2>2. \A k \in Keys : (Present(k) \/ \E g \in Handlers : Holds(g, k)) => Known(k)
    BY DEF Known
  <2>3. \A k \in Keys, g \in Handlers : Holds(g, k)' => Holds(g, k)
    BY <1>1 DEF Holds
  <2>4. \A k \in Keys : (Present(k)' \/ \E g \in Handlers : Holds(g, k)') => Known(k)'
    BY <1>1, <2>1, <2>2, <2>3
  <2>5. \A s \in SubIds : Live(s)' => s <= created'
    <3> SUFFICES ASSUME NEW s \in SubIds, Live(s)' PROVE s <= created'
      OBVIOUS
    <3>1. s \in Nat
      BY BoundsAssumption DEF SubIds
    <3> QED BY <1>0, <1>1, <3>1
  <2> QED BY <2>4, <2>5 DEF Known
<1>2. ASSUME NEW h \in Handlers, NEW job, NEW items \in SUBSET Item, Advance(h, job, items),
             UNCHANGED <<subscriptions, created>>,
             published' \in Nat, published' >= published,
             \A k \in Keys : Listed(items, k) => Known(k)'
      PROVE  EventsInv'
  <2>1. \A k \in Keys : Present(k)' => Present(k) \/ Known(k)'
    BY <1>2, AdvanceHolds DEF Present, Outcome
  <2>2. \A k \in Keys, g \in Handlers : Holds(g, k)' => Holds(g, k) \/ Known(k)'
    BY <1>2, AdvanceHolds
  <2>3. \A k \in Keys : Known(k) => Known(k)'
    BY <1>0, <1>2 DEF Known
  <2>4. \A s \in SubIds : Live(s)' => s <= created'
    BY <1>2 DEF Live
  <2>5. \A k \in Keys : (Present(k) \/ \E g \in Handlers : Holds(g, k)) => Known(k)
    BY DEF Known
  <2>6. \A k \in Keys : (Present(k)' \/ \E g \in Handlers : Holds(g, k)') => Known(k)'
    BY <2>1, <2>2, <2>3, <2>5
  <2> QED BY <2>4, <2>6 DEF Known
<1>3. CASE CreateSubscription
  <2>1. \A s \in SubIds : Live(s)' => Live(s) \/ s = created + 1
    BY <1>3 DEF CreateSubscription, Live, TypeOK
  <2> QED BY <1>0, <1>1, <1>3, <2>1 DEF CreateSubscription, Present, Outcome
<1>4. ASSUME NEW s \in SubIds, UpdateSubscription(s) PROVE EventsInv'
  <2>1. \A x \in SubIds : Live(x)' => Live(x)
    BY <1>4 DEF UpdateSubscription, Live, TypeOK
  <2> QED BY <1>0, <1>1, <1>4, <2>1 DEF UpdateSubscription, Present, Outcome
<1>5. ASSUME NEW s \in SubIds, DeleteSubscription(s) PROVE EventsInv'
  <2>1. \A x \in SubIds : Live(x)' => Live(x)
    BY <1>5 DEF DeleteSubscription, Live, TypeOK, NoSubscription
  <2>2. \A k \in Keys : Present(k)' => Present(k)
    BY <1>5 DEF DeleteSubscription, Present, Outcome, NoRecord
  <2> QED BY <1>0, <1>1, <1>5, <2>1, <2>2 DEF DeleteSubscription
<1>6. ASSUME NEW s \in SubIds, NEW eventIds \in SUBSET EventIds, AcknowledgeEvents(s, eventIds)
      PROVE  EventsInv'
  <2>1. \A k \in Keys : Present(k)' => Present(k)
    BY <1>6 DEF AcknowledgeEvents, Acknowledged, Present, Outcome
  <2> QED BY <1>0, <1>1, <1>6, <2>1 DEF AcknowledgeEvents, Live
<1>7. ASSUME NEW h \in Handlers, NEW kind \in Kinds, PublishAndDeliver(h, kind)
      PROVE  EventsInv'
  <2>1. PublishItems(kind, published + 1) \in SUBSET Item
    BY <1>7, ItemsTyped DEF PublishAndDeliver
  <2>2. \A k \in Keys : Listed(PublishItems(kind, published + 1), k) => Known(k)'
    BY <1>0, <1>7 DEF PublishAndDeliver, PublishItems, Listed, Known
  <2> QED BY <1>0, <1>2, <1>7, <2>1, <2>2 DEF PublishAndDeliver
<1>8. ASSUME NEW h \in Handlers, RetryDueDeliveries(h) PROVE EventsInv'
  <2>1. DueItems \in SUBSET Item
    BY ItemsTyped
  <2>2. \A k \in Keys : Listed(DueItems, k) => Known(k)'
    BY <1>8 DEF RetryDueDeliveries, DueItems, Listed, Known, IsDue, Present
  <2> QED BY <1>0, <1>2, <1>8, <2>1, <2>2 DEF RetryDueDeliveries
<1>9. ASSUME NEW h \in Handlers, Resume(h) PROVE EventsInv'
  <2>1. handlers[h].todo \in SUBSET Item
    BY DEF TypeOK, Handler
  <2>2. \A k \in Keys : Listed(handlers[h].todo, k) => Known(k)'
    BY <1>9 DEF Resume, Holds, Listed, Known
  <2> QED BY <1>0, <1>2, <1>9, <2>1, <2>2 DEF Resume
<1>10. ASSUME NEW h \in Handlers, NEW ok \in BOOLEAN, FetchDone(h, ok) PROVE EventsInv'
  <2>1. \A k \in Keys : Present(k)' => Present(k) \/ Holds(h, k)
    BY <1>10, FetchHolds DEF Present, Outcome
  <2>2. \A k \in Keys, g \in Handlers : Holds(g, k)' => Holds(g, k)
    BY <1>10, FetchHolds
  <2>3. UNCHANGED <<subscriptions, created, published>>
    BY <1>10 DEF FetchDone
  <2> QED BY <2>1, <2>2, <2>3 DEF Live
<1>11. ASSUME NEW s \in SubIds, SimulateDelivery(s) PROVE EventsInv'
  <2> DEFINE new == <<s, published + 1>>
  <2>1. \A k \in Keys : deliveryRecords'[k] = deliveryRecords[k] \/ (Live(s) /\ k = new)
    <3> HIDE DEF new
    <3>1. CASE Live(s) /\ RecordDeliveryAttempt(new, "delivered")
      BY <3>1 DEF RecordDeliveryAttempt, TypeOK
    <3>2. CASE UNCHANGED <<deliveryRecords, inserted>>
      BY <3>2
    <3> QED BY <1>11, <3>1, <3>2 DEF SimulateDelivery, new
  <2>2. \A k \in Keys : k = new => k[1] = s /\ k[2] = published + 1
    OBVIOUS
  <2>3. \A k \in Keys : Present(k)' => Present(k) \/ Known(k)'
    BY <1>0, <1>11, <2>1, <2>2 DEF SimulateDelivery, Known, Present, Outcome
  <2> QED BY <1>0, <1>1, <1>11, <2>3 DEF SimulateDelivery, Live
<1>12. ASSUME NEW k \in Keys, RetryTimeReached(k) PROVE EventsInv'
  <2>1. \A j \in Keys : Present(j)' => Present(j)
    BY <1>12 DEF RetryTimeReached, Present, Outcome, TypeOK, Record
  <2> QED BY <1>0, <1>1, <1>12, <2>1 DEF RetryTimeReached, Live
<1>13. CASE UNCHANGED vars
  BY <1>13 DEF vars, Present, Outcome, Holds, Live
<1> QED
  BY <1>3, <1>4, <1>5, <1>6, <1>7, <1>8, <1>9, <1>10, <1>11, <1>12, <1>13 DEF Next

\* Every delivery that is recorded, listed or in flight is of a subscription
\* that was created and of an event that is in the history.
THEOREM DeliveriesKnown == Spec => []DeliveriesHaveEvents
<1>1. Init => EventsInv
  BY DEF Init, EventsInv, DeliveriesHaveEvents, Present, Outcome, Holds, Live, Idle,
         NoRecord, NoSubscription
<1>2. EventsInv => DeliveriesHaveEvents
  BY DEF EventsInv
<1> QED BY <1>1, <1>2, TypeCorrect, EventsInductive, PTL DEF Spec

\* A delivery that was settled before a sweep starts is never sent by it.
THEOREM SettledSkipped == Spec => SettledNotTakenUp
<1> DEFINE A == \A k \in Keys, h \in Handlers : Settled(k) /\ ~Holds(h, k) => ~Holds(h, k)'
<1>1. TypeOK /\ EventsInv /\ [Next]_vars => [A]_vars
  <2> SUFFICES ASSUME TypeOK, EventsInv, Next PROVE A
    BY DEF A
  <2> SUFFICES ASSUME NEW k \in Keys, NEW g \in Handlers, Settled(k), ~Holds(g, k)
               PROVE  ~Holds(g, k)'
    BY DEF A
  <2>1. CASE UNCHANGED handlers
    BY <2>1 DEF Holds
  <2>2. ASSUME NEW h \in Handlers, NEW kind \in Kinds, PublishAndDeliver(h, kind)
        PROVE  ~Holds(g, k)'
    <3>1. k[2] <= published
      BY DEF EventsInv, DeliveriesHaveEvents, Settled, Present
    <3>2. ~Listed(PublishItems(kind, published + 1), k)
      BY <3>1, BoundsAssumption DEF Listed, PublishItems, TypeOK
    <3>3. PublishItems(kind, published + 1) \in SUBSET Item
      BY <2>2, ItemsTyped DEF PublishAndDeliver
    <3> QED BY <2>2, <3>2, <3>3, AdvanceHolds DEF PublishAndDeliver
  <2>3. ASSUME NEW h \in Handlers, RetryDueDeliveries(h)
        PROVE  ~Holds(g, k)'
    <3>1. ~Listed(DueItems, k)
      BY DEF Listed, DueItems, IsDue, Settled
    <3>2. DueItems \in SUBSET Item
      BY ItemsTyped
    <3> QED BY <2>3, <3>1, <3>2, AdvanceHolds DEF RetryDueDeliveries
  <2>4. ASSUME NEW h \in Handlers, Resume(h)
        PROVE  ~Holds(g, k)'
    <3>1. handlers[h].todo \in SUBSET Item
      BY DEF TypeOK, Handler
    <3> QED BY <2>4, <3>1, AdvanceHolds DEF Resume, Holds, Listed
  <2>5. ASSUME NEW h \in Handlers, NEW ok \in BOOLEAN, FetchDone(h, ok)
        PROVE  ~Holds(g, k)'
    BY <2>5, FetchHolds
  <2> QED
    BY <2>1, <2>2, <2>3, <2>4, <2>5
    DEF Next, CreateSubscription, UpdateSubscription, DeleteSubscription,
        AcknowledgeEvents, SimulateDelivery, RetryTimeReached
<1>2. Init => EventsInv
  BY DEF Init, EventsInv, DeliveriesHaveEvents, Present, Outcome, Holds, Live, Idle,
         NoRecord, NoSubscription
<1> QED BY <1>1, <1>2, TypeCorrect, EventsInductive, PTL DEF Spec, SettledNotTakenUp

-----------------------------------------------------------------------------
(* How often a record is delivered.                                         *)

Unique(items) == \A i, j \in items : i.key = j.key => i = j

(* A loop delivers a record once, and a record that is not there has no     *)
(* attempts behind it: without the first, one handler could add several     *)
(* attempts; without the second, a new record could start beyond the budget.*)
SlotsInv ==
  /\ \A h \in Handlers : Unique(handlers[h].todo)
  /\ \A k \in Keys : ~Present(k) => deliveryRecords[k].attemptCount = 0

Holders(k) == {h \in Handlers : Holds(h, k)}

LEMMA ItemsUnique ==
  /\ Unique(DueItems)
  /\ \A kind \in Kinds : \A e : Unique(PublishItems(kind, e))
<1>1. Unique(DueItems)
  <2>1. \A i \in DueItems :
          i = [key |-> i.key, url |-> FALSE, pos |-> deliveryRecords[i.key].pos]
    BY DEF DueItems
  <2> QED BY <2>1 DEF Unique
<1>2. ASSUME NEW kind \in Kinds, NEW e
      PROVE  Unique(PublishItems(kind, e))
  <2>1. \A i \in PublishItems(kind, e) :
          /\ i = [key |-> i.key, url |-> i.url, pos |-> i.pos]
          /\ i.key = <<i.pos, e>> /\ i.url = subscriptions[i.pos].callbackUrl
    BY DEF PublishItems
  <2> QED BY <2>1 DEF Unique
<1> QED BY <1>1, <1>2

\* A handler that advances over items keeps some of them, and writes no record but
\* that of an item it lets go.
LEMMA AdvanceWrites ==
  ASSUME TypeOK, NEW h \in Handlers, NEW job, NEW items \in SUBSET Item, Unique(items),
         Advance(h, job, items)
  PROVE  /\ handlers'[h].todo \subseteq items
         /\ \A g \in Handlers \ {h} : handlers'[g] = handlers[g]
         /\ \A k \in Keys :
              \/ deliveryRecords'[k] = deliveryRecords[k]
              \/ /\ Listed(items, k) /\ ~Holds(h, k)'
                 /\ deliveryRecords'[k].attemptCount = deliveryRecords[k].attemptCount + 1
<1>1. CASE handlers' = [handlers EXCEPT ![h] = Idle] /\ UNCHANGED <<deliveryRecords, inserted>>
  BY <1>1 DEF TypeOK, Idle
<1>2. CASE /\ handlers' = [handlers EXCEPT ![h] = [pc |-> "fetch", job |-> job, todo |-> items]]
           /\ UNCHANGED <<deliveryRecords, inserted>>
  BY <1>2 DEF TypeOK
<1>3. ASSUME NEW i \in items, RecordDeliveryAttempt(i.key, "delivered"),
             handlers' = [handlers EXCEPT ![h] =
               [pc |-> "loop", job |-> job, todo |-> items \ {i}]]
      PROVE  /\ handlers'[h].todo \subseteq items
             /\ \A g \in Handlers \ {h} : handlers'[g] = handlers[g]
             /\ \A k \in Keys :
                  \/ deliveryRecords'[k] = deliveryRecords[k]
                  \/ /\ Listed(items, k) /\ ~Holds(h, k)'
                     /\ deliveryRecords'[k].attemptCount = deliveryRecords[k].attemptCount + 1
  <2>1. /\ handlers'[h].todo = items \ {i}
        /\ \A g \in Handlers \ {h} : handlers'[g] = handlers[g]
    BY <1>3 DEF TypeOK
  <2>2. ASSUME NEW k \in Keys, k # i.key
        PROVE  deliveryRecords'[k] = deliveryRecords[k]
    BY <1>3, <2>2 DEF RecordDeliveryAttempt, TypeOK
  <2>3. ASSUME NEW k \in Keys, k = i.key
        PROVE  /\ Listed(items, k) /\ ~Holds(h, k)'
               /\ deliveryRecords'[k].attemptCount = deliveryRecords[k].attemptCount + 1
    <3>1. deliveryRecords'[k] = Attempted(deliveryRecords[k], "delivered")
      BY <1>3, <2>3 DEF RecordDeliveryAttempt, TypeOK
    <3>2. ~Holds(h, k)'
      BY <2>1, <2>3 DEF Holds, Unique
    <3> QED BY <2>3, <3>1, <3>2 DEF Listed, Attempted
  <2> QED BY <2>1, <2>2, <2>3
<1> QED BY <1>1, <1>2, <1>3 DEF Advance

LEMMA FetchWrites ==
  ASSUME TypeOK, NEW h \in Handlers, NEW ok \in BOOLEAN, FetchDone(h, ok),
         Unique(handlers[h].todo)
  PROVE  /\ handlers'[h].todo \subseteq handlers[h].todo
         /\ \A g \in Handlers \ {h} : handlers'[g] = handlers[g]
         /\ \A k \in Keys :
              \/ deliveryRecords'[k] = deliveryRecords[k]
              \/ /\ Holds(h, k) /\ ~Holds(h, k)'
                 /\ deliveryRecords'[k].attemptCount = deliveryRecords[k].attemptCount + 1
<1> DEFINE outcome == IF ok THEN "delivered" ELSE "retrying"
<1>1. PICK i \in handlers[h].todo :
        /\ RecordDeliveryAttempt(i.key, outcome)
        /\ handlers' = [handlers EXCEPT ![h] =
             [pc |-> "loop", job |-> handlers[h].job, todo |-> handlers[h].todo \ {i}]]
  BY DEF FetchDone
<1> HIDE DEF outcome
<1>2. /\ handlers'[h].todo = handlers[h].todo \ {i}
      /\ \A g \in Handlers \ {h} : handlers'[g] = handlers[g]
  BY <1>1 DEF TypeOK
<1>3. ASSUME NEW k \in Keys, k # i.key
      PROVE  deliveryRecords'[k] = deliveryRecords[k]
  BY <1>1, <1>3 DEF RecordDeliveryAttempt, TypeOK
<1>4. ASSUME NEW k \in Keys, k = i.key
      PROVE  /\ Holds(h, k) /\ ~Holds(h, k)'
             /\ deliveryRecords'[k].attemptCount = deliveryRecords[k].attemptCount + 1
  <2>1. deliveryRecords'[k] = Attempted(deliveryRecords[k], outcome)
    BY <1>1, <1>4 DEF RecordDeliveryAttempt, TypeOK
  <2>2. ~Holds(h, k)'
    BY <1>2, <1>4 DEF Holds, Unique
  <2> QED BY <1>4, <2>1, <2>2 DEF Holds, Attempted
<1> QED BY <1>2, <1>3, <1>4

\* A step that is none of a handler's leaves the handlers alone.
HandlerStep ==
  \/ UNCHANGED handlers
  \/ \E h \in Handlers, kind \in Kinds : PublishAndDeliver(h, kind)
  \/ \E h \in Handlers : RetryDueDeliveries(h)
  \/ \E h \in Handlers : Resume(h)
  \/ \E h \in Handlers, ok \in BOOLEAN : FetchDone(h, ok)

LEMMA HandlerStepOfNext ==
  ASSUME [Next]_vars
  PROVE  HandlerStep
BY DEF HandlerStep, Next, vars, CreateSubscription, UpdateSubscription, DeleteSubscription,
       AcknowledgeEvents, SimulateDelivery, RetryTimeReached

LEMMA SlotsInductive ==
  ASSUME TypeOK, SlotsInv, [Next]_vars
  PROVE  SlotsInv'
<1> DEFINE Fresh(r) == r.outcome = "absent" => r.attemptCount = 0
<1>1. \A h \in Handlers : Unique(handlers'[h].todo)
  <2>1. ASSUME NEW h \in Handlers, NEW items, Unique(items),
               handlers'[h].todo \subseteq items,
               \A g \in Handlers \ {h} : handlers'[g] = handlers[g]
        PROVE  \A g \in Handlers : Unique(handlers'[g].todo)
    BY <2>1 DEF SlotsInv, Unique
  <2>2. ASSUME NEW h \in Handlers, NEW kind \in Kinds, PublishAndDeliver(h, kind)
        PROVE  \A g \in Handlers : Unique(handlers'[g].todo)
    <3>1. PublishItems(kind, published + 1) \in SUBSET Item
          /\ Unique(PublishItems(kind, published + 1))
      BY <2>2, ItemsTyped, ItemsUnique DEF PublishAndDeliver
    <3> QED BY <2>1, <2>2, <3>1, AdvanceWrites DEF PublishAndDeliver
  <2>3. ASSUME NEW h \in Handlers, RetryDueDeliveries(h)
        PROVE  \A g \in Handlers : Unique(handlers'[g].todo)
    BY <2>1, <2>3, ItemsTyped, ItemsUnique, AdvanceWrites DEF RetryDueDeliveries
  <2>4. ASSUME NEW h \in Handlers, Resume(h)
        PROVE  \A g \in Handlers : Unique(handlers'[g].todo)
    <3>1. handlers[h].todo \in SUBSET Item /\ Unique(handlers[h].todo)
      BY DEF TypeOK, Handler, SlotsInv
    <3> QED BY <2>1, <2>4, <3>1, AdvanceWrites DEF Resume
  <2>5. ASSUME NEW h \in Handlers, NEW ok \in BOOLEAN, FetchDone(h, ok)
        PROVE  \A g \in Handlers : Unique(handlers'[g].todo)
    <3>1. Unique(handlers[h].todo)
      BY DEF SlotsInv
    <3> QED BY <2>1, <2>5, <3>1, FetchWrites
  <2> QED BY <2>2, <2>3, <2>4, <2>5, HandlerStepOfNext DEF HandlerStep, SlotsInv
<1>2. \A k \in Keys : Fresh(deliveryRecords'[k])
  <2>1. \A k \in Keys : Fresh(deliveryRecords[k]) /\ deliveryRecords[k] \in Record
    BY DEF SlotsInv, Present, Outcome, TypeOK
  <2>2. ASSUME NEW k \in Keys, NEW o \in {"delivered", "retrying"}, RecordDeliveryAttempt(k, o)
        PROVE  \A j \in Keys : Fresh(deliveryRecords'[j])
    <3>1. Fresh(Attempted(deliveryRecords[k], o))
      BY DEF Attempted
    <3>2. \A j \in Keys : deliveryRecords'[j] =
            IF j = k THEN Attempted(deliveryRecords[k], o) ELSE deliveryRecords[j]
      BY <2>2 DEF RecordDeliveryAttempt, TypeOK
    <3> HIDE DEF Fresh
    <3> QED BY <2>1, <3>1, <3>2
  <2>3. ASSUME NEW s \in SubIds, DeleteSubscription(s)
        PROVE  \A j \in Keys : Fresh(deliveryRecords'[j])
    <3>1. Fresh(NoRecord)
      BY DEF NoRecord
    <3> HIDE DEF Fresh
    <3> QED BY <2>1, <2>3, <3>1 DEF DeleteSubscription
  <2>4. ASSUME NEW s \in SubIds, NEW eventIds \in SUBSET EventIds, AcknowledgeEvents(s, eventIds)
        PROVE  \A j \in Keys : Fresh(deliveryRecords'[j])
    <3>1. \A r \in Record : Fresh(r) => Fresh(Acknowledged(r))
      BY DEF Acknowledged, Record
    <3> HIDE DEF Fresh
    <3> QED BY <2>1, <2>4, <3>1 DEF AcknowledgeEvents
  <2>5. ASSUME NEW k \in Keys, RetryTimeReached(k)
        PROVE  \A j \in Keys : Fresh(deliveryRecords'[j])
    BY <2>1, <2>5 DEF RetryTimeReached, TypeOK, Record
  <2>6. CASE UNCHANGED deliveryRecords
    BY <2>1, <2>6
  <2> QED BY <2>2, <2>3, <2>4, <2>5, <2>6, RecordStepOfNext DEF RecordStep
<1> QED BY <1>1, <1>2 DEF SlotsInv, Present, Outcome

\* What a step does to the attempts of a record and to those who hold it: no more
\* of either; or one of them lets it go and adds an attempt; or it is taken up
\* anew, within the budget, and may be delivered at once.
AttemptStep(k) ==
  LET count == deliveryRecords[k].attemptCount IN
  \/ count' <= count /\ Holders(k)' \subseteq Holders(k)
  \/ \E h \in Holders(k) : count' <= count + 1 /\ Holders(k)' \subseteq Holders(k) \ {h}
  \/ count' <= MaxAttempts
  \/ \E h \in Handlers : count' <= MaxAttempts + 1 /\ Holders(k)' \subseteq Handlers \ {h}

LEMMA AttemptStepOfNext ==
  ASSUME TypeOK, RetriesConsistent, EventsInv, SlotsInv, [Next]_vars, NEW k \in Keys
  PROVE  AttemptStep(k)
<1> DEFINE count == deliveryRecords[k].attemptCount
<1>1. count \in Nat /\ deliveryRecords[k] \in Record /\ MaxAttempts \in Nat /\ MaxAttempts >= 1
  BY MaxAttemptsAssumption DEF TypeOK, Record
<1>2. ASSUME UNCHANGED handlers, count' <= count
      PROVE  AttemptStep(k)
  BY <1>2 DEF AttemptStep, Holders, Holds
<1>3. ASSUME deliveryRecords'[k] = deliveryRecords[k], Holders(k)' \subseteq Holders(k)
      PROVE  AttemptStep(k)
  BY <1>1, <1>3 DEF AttemptStep
<1>4. ASSUME NEW h \in Handlers, NEW job, NEW items \in SUBSET Item, Unique(items),
             Advance(h, job, items), count <= MaxAttempts \/ ~Listed(items, k)
      PROVE  AttemptStep(k)
  <2>1. CASE ~Listed(items, k)
    <3>1. deliveryRecords'[k] = deliveryRecords[k]
      BY <1>4, <2>1, AdvanceWrites
    <3>2. Holders(k)' \subseteq Holders(k)
      BY <1>4, <2>1, AdvanceHolds DEF Holders
    <3> QED BY <1>3, <3>1, <3>2
  <2>2. CASE count <= MaxAttempts
    <3>1. CASE deliveryRecords'[k] = deliveryRecords[k]
      BY <2>2, <3>1 DEF AttemptStep
    <3>2. CASE ~Holds(h, k)' /\ count' = count + 1
      <4>1. Holders(k)' \subseteq Handlers \ {h}
        BY <3>2 DEF Holders
      <4>2. count' <= MaxAttempts + 1
        BY <1>1, <2>2, <3>2
      <4> QED BY <4>1, <4>2 DEF AttemptStep
    <3> QED BY <1>4, <3>1, <3>2, AdvanceWrites
  <2> QED BY <1>4, <2>1, <2>2
<1>5. ASSUME NEW h \in Handlers, NEW kind \in Kinds, PublishAndDeliver(h, kind)
      PROVE  AttemptStep(k)
  <2> DEFINE items == PublishItems(kind, published + 1)
  <2>1. items \in SUBSET Item /\ Unique(items)
    BY <1>5, ItemsTyped, ItemsUnique DEF PublishAndDeliver
  <2>2. Listed(items, k) => count = 0
    <3>1. Listed(items, k) => k[2] = published + 1
      BY DEF Listed, PublishItems
    <3>2. Present(k) => k[2] <= published
      BY DEF EventsInv, DeliveriesHaveEvents
    <3>3. published \in Nat
      BY BoundsAssumption DEF TypeOK
    <3> QED BY <3>1, <3>2, <3>3 DEF SlotsInv
  <2> HIDE DEF items
  <2>3. count <= MaxAttempts \/ ~Listed(items, k)
    BY <1>1, <2>2
  <2>4. Advance(h, "publish", items)
    BY <1>5 DEF PublishAndDeliver, items
  <2> QED BY <1>4, <2>1, <2>3, <2>4
<1>6. ASSUME NEW h \in Handlers, RetryDueDeliveries(h)
      PROVE  AttemptStep(k)
  <2>1. DueItems \in SUBSET Item /\ Unique(DueItems)
    BY ItemsTyped, ItemsUnique
  <2>2. Listed(DueItems, k) => Outcome(k) = "retrying"
    BY DEF Listed, DueItems, IsDue
  <2>3. Outcome(k) = "retrying" => count <= MaxAttempts
    BY MaxAttemptsAssumption DEF RetriesConsistent, AttemptBudget
  <2> QED BY <1>4, <1>6, <2>1, <2>2, <2>3 DEF RetryDueDeliveries
<1>7. ASSUME NEW h \in Handlers, \A g \in Handlers : Holds(g, k)' => Holds(g, k),
             \/ deliveryRecords'[k] = deliveryRecords[k]
             \/ Holds(h, k) /\ ~Holds(h, k)' /\ count' = count + 1
      PROVE  AttemptStep(k)
  <2>1. CASE deliveryRecords'[k] = deliveryRecords[k]
    BY <1>3, <1>7, <2>1 DEF Holders
  <2>2. CASE Holds(h, k) /\ ~Holds(h, k)' /\ count' = count + 1
    <3>1. h \in Holders(k) /\ Holders(k)' \subseteq Holders(k) \ {h}
      BY <1>7, <2>2 DEF Holders
    <3> QED BY <1>1, <2>2, <3>1 DEF AttemptStep
  <2> QED BY <1>7, <2>1, <2>2
<1>8. ASSUME NEW h \in Handlers, Resume(h)
      PROVE  AttemptStep(k)
  <2>1. handlers[h].todo \in SUBSET Item /\ Unique(handlers[h].todo)
        /\ Advance(h, handlers[h].job, handlers[h].todo)
    BY <1>8 DEF TypeOK, Handler, SlotsInv, Resume
  <2>2. Listed(handlers[h].todo, k) <=> Holds(h, k)
    BY DEF Listed, Holds
  <2>3. \A g \in Handlers : Holds(g, k)' => Holds(g, k)
    BY <2>1, <2>2, AdvanceHolds
  <2>4. \/ deliveryRecords'[k] = deliveryRecords[k]
        \/ Holds(h, k) /\ ~Holds(h, k)' /\ count' = count + 1
    BY <2>1, <2>2, AdvanceWrites
  <2> QED BY <1>7, <2>3, <2>4
<1>9. ASSUME NEW h \in Handlers, NEW ok \in BOOLEAN, FetchDone(h, ok)
      PROVE  AttemptStep(k)
  <2>1. Unique(handlers[h].todo)
    BY DEF SlotsInv
  <2> QED BY <1>7, <1>9, <2>1, FetchHolds, FetchWrites
<1>10. ASSUME NEW s \in SubIds, SimulateDelivery(s)
       PROVE  AttemptStep(k)
  <2> DEFINE new == <<s, published + 1>>
  <2>1. CASE UNCHANGED deliveryRecords
    BY <1>1, <1>2, <1>10, <2>1 DEF SimulateDelivery
  <2>2. CASE RecordDeliveryAttempt(new, "delivered") /\ k = new
    <3>1. ~Present(k)
      <4>1. published \in Nat /\ k[2] = published + 1
        BY <2>2, BoundsAssumption DEF TypeOK
      <4> QED BY <4>1 DEF EventsInv, DeliveriesHaveEvents
    <3>2. count = 0
      BY <3>1 DEF SlotsInv
    <3>3. deliveryRecords'[k] = Attempted(deliveryRecords[k], "delivered")
      BY <2>2 DEF RecordDeliveryAttempt, TypeOK
    <3>4. count' = 1
      BY <3>2, <3>3 DEF Attempted
    <3> QED BY <1>1, <3>4 DEF AttemptStep
  <2>3. CASE RecordDeliveryAttempt(new, "delivered") /\ k # new
    <3> HIDE DEF new
    <3>1. deliveryRecords'[k] = deliveryRecords[k]
      BY <2>3 DEF RecordDeliveryAttempt, TypeOK
    <3> QED BY <1>1, <1>2, <1>10, <3>1 DEF SimulateDelivery
  <2> QED BY <1>10, <2>1, <2>2, <2>3 DEF SimulateDelivery
<1>11. ASSUME NEW s \in SubIds, DeleteSubscription(s)
       PROVE  AttemptStep(k)
  BY <1>1, <1>2, <1>11 DEF DeleteSubscription, NoRecord
<1>12. ASSUME NEW s \in SubIds, NEW eventIds \in SUBSET EventIds, AcknowledgeEvents(s, eventIds)
       PROVE  AttemptStep(k)
  <2>1. Acknowledged(deliveryRecords[k]).attemptCount = count
    BY <1>1 DEF Acknowledged, Record
  <2>2. count' = count
    BY <1>12, <2>1 DEF AcknowledgeEvents
  <2> QED BY <1>1, <1>2, <1>12, <2>2 DEF AcknowledgeEvents
<1>13. ASSUME NEW j \in Keys, RetryTimeReached(j)
       PROVE  AttemptStep(k)
  <2>1. count' = count
    BY <1>1, <1>13 DEF RetryTimeReached, TypeOK, Record
  <2> QED BY <1>1, <1>2, <1>13, <2>1 DEF RetryTimeReached
<1>14. CASE UNCHANGED <<deliveryRecords, handlers>>
  BY <1>1, <1>2, <1>14
<1> QED
  BY <1>5, <1>6, <1>8, <1>9, <1>10, <1>11, <1>12, <1>13, <1>14
  DEF Next, CreateSubscription, UpdateSubscription, vars

LEMMA OverlapInductive ==
  ASSUME TypeOK, RetriesConsistent, EventsInv, SlotsInv, OverlapBoundsAttempts, [Next]_vars
  PROVE  OverlapBoundsAttempts'
<1> SUFFICES ASSUME NEW k \in Keys
             PROVE  deliveryRecords'[k].attemptCount + Cardinality(Holders(k)')
                      <= MaxAttempts + Cardinality(Handlers)
  BY DEF OverlapBoundsAttempts, Holders
<1> DEFINE count == deliveryRecords[k].attemptCount
           bound == Cardinality(Handlers)
<1>1. /\ IsFiniteSet(Holders(k)) /\ Cardinality(Holders(k)) \in Nat
      /\ Cardinality(Holders(k)') \in Nat /\ Cardinality(Holders(k)') <= bound
      /\ bound \in Nat
  <2>1. Holders(k) \subseteq Handlers /\ Holders(k)' \subseteq Handlers
    BY DEF Holders
  <2>2. IsFiniteSet(Holders(k)) /\ IsFiniteSet(Holders(k)')
        /\ Cardinality(Holders(k)') <= bound
    BY <2>1, HandlersFinite, FS_Subset
  <2> QED BY <2>2, HandlersFinite, FS_CardinalityType
<1>2. /\ count \in Nat /\ count' \in Nat /\ MaxAttempts \in Nat
      /\ count + Cardinality(Holders(k)) <= MaxAttempts + bound
  <2>1. count' \in Nat
    BY RecordStepOfNext, RecordsTyped DEF Record
  <2> QED BY <2>1, MaxAttemptsAssumption DEF TypeOK, Record, OverlapBoundsAttempts, Holders
<1>3. CASE count' <= count /\ Holders(k)' \subseteq Holders(k)
  <2>1. Cardinality(Holders(k)') <= Cardinality(Holders(k))
    BY <1>1, <1>3, FS_Subset
  <2> QED BY <1>1, <1>2, <1>3, <2>1
<1>4. ASSUME NEW h \in Holders(k), count' <= count + 1, Holders(k)' \subseteq Holders(k) \ {h}
      PROVE  count' + Cardinality(Holders(k)') <= MaxAttempts + bound
  <2>1. IsFiniteSet(Holders(k) \ {h})
        /\ Cardinality(Holders(k) \ {h}) = Cardinality(Holders(k)) - 1
    BY <1>1, FS_RemoveElement
  <2>2. Cardinality(Holders(k)') <= Cardinality(Holders(k)) - 1
    BY <1>4, <2>1, FS_Subset
  <2> QED BY <1>1, <1>2, <1>4, <2>2
<1>5. CASE count' <= MaxAttempts
  BY <1>1, <1>2, <1>5
<1>6. ASSUME NEW h \in Handlers, count' <= MaxAttempts + 1, Holders(k)' \subseteq Handlers \ {h}
      PROVE  count' + Cardinality(Holders(k)') <= MaxAttempts + bound
  <2>1. IsFiniteSet(Handlers \ {h}) /\ Cardinality(Handlers \ {h}) = bound - 1
    BY HandlersFinite, FS_RemoveElement
  <2>2. Cardinality(Holders(k)') <= bound - 1
    BY <1>6, <2>1, FS_Subset
  <2> QED BY <1>1, <1>2, <1>6, <2>2
<1> QED BY <1>3, <1>4, <1>5, <1>6, AttemptStepOfNext DEF AttemptStep

\* Everything the theorems below rest on.
DeliveryInv == TypeOK /\ RetriesConsistent /\ EventsInv /\ SlotsInv

LEMMA DeliveryInvariant == Spec => []DeliveryInv
<1>1. Init => DeliveryInv
  <2> SUFFICES ASSUME Init PROVE DeliveryInv
    OBVIOUS
  <2>1. EventsInv
    BY DEF Init, EventsInv, DeliveriesHaveEvents, Present, Outcome, Holds, Live, Idle,
           NoRecord, NoSubscription
  <2>2. RetriesConsistent
    BY DEF Init, RetriesConsistent, RetryScheduledIffRetrying, AttemptBudget, Outcome, NoRecord
  <2>3. SlotsInv
    BY DEF Init, SlotsInv, Unique, Idle, NoRecord
  <2> QED BY <2>1, <2>2, <2>3, TypeInit DEF DeliveryInv
<1>2. DeliveryInv /\ [Next]_vars => DeliveryInv'
  BY TypeInductive, RecordStepOfNext, RecordsInductive, EventsInductive, SlotsInductive
  DEF DeliveryInv
<1> QED BY <1>1, <1>2, PTL DEF Spec

\* Overlapping sweeps may deliver one record several times, but each of the
\* requests in progress adds at most one attempt to the budget, for any number
\* of requests (retryDueDeliveries, recordDeliveryAttempt).
THEOREM AttemptsBounded == Spec => []OverlapBoundsAttempts
<1>1. Init => OverlapBoundsAttempts
  <2> SUFFICES ASSUME Init, NEW k \in Keys
               PROVE  deliveryRecords[k].attemptCount + Cardinality(Holders(k))
                        <= MaxAttempts + Cardinality(Handlers)
    BY DEF OverlapBoundsAttempts, Holders
  <2>1. Holders(k) = {} /\ deliveryRecords[k].attemptCount = 0
    BY DEF Init, Holders, Holds, Idle, NoRecord
  <2>2. Cardinality({}) = 0 /\ Cardinality(Handlers) \in Nat
    BY FS_EmptySet, HandlersFinite, FS_CardinalityType
  <2> QED BY <2>1, <2>2, MaxAttemptsAssumption
<1>2. DeliveryInv /\ OverlapBoundsAttempts /\ [Next]_vars => OverlapBoundsAttempts'
  BY OverlapInductive DEF DeliveryInv
<1> QED BY <1>1, <1>2, DeliveryInvariant, PTL DEF Spec

\* What a subscriber has been told is final, but for its own acknowledgement, the
\* deletion of its subscription, and deliveries that were under way already
\* (recordDeliveryAttempt, acknowledgeEvents, retryDueDeliveries).
THEOREM SettledIsFinal == Spec => SettledChangesOnlyInFlight
<1> DEFINE Kept(k) == \/ Outcome(k)' = Outcome(k)
                      \/ Live(k[1]) /\ Outcome(k)' = "acknowledged"
                      \/ Live(k[1]) /\ ~Live(k[1])' /\ ~Present(k)'
                      \/ \E h \in Handlers : Holds(h, k) /\ ~Holds(h, k)'
           A == \A k \in Keys : Settled(k) => Kept(k)
<1>1. DeliveryInv /\ [Next]_vars => [A]_vars
  <2> SUFFICES ASSUME DeliveryInv, Next, NEW k \in Keys, Settled(k) PROVE Kept(k)
    BY DEF A
  <2>1. TypeOK /\ EventsInv /\ SlotsInv /\ Present(k) /\ k[2] <= published /\ published \in Nat
    BY BoundsAssumption
    DEF DeliveryInv, EventsInv, DeliveriesHaveEvents, Settled, Present, TypeOK
  <2>2. CASE deliveryRecords'[k] = deliveryRecords[k]
    BY <2>2 DEF Outcome
  <2>3. ASSUME NEW h \in Handlers, NEW kind \in Kinds, PublishAndDeliver(h, kind)
        PROVE  Kept(k)
    <3>1. ~Listed(PublishItems(kind, published + 1), k)
      BY <2>1 DEF Listed, PublishItems
    <3>2. PublishItems(kind, published + 1) \in SUBSET Item
      BY <2>1, <2>3, ItemsTyped DEF PublishAndDeliver
    <3>3. deliveryRecords'[k] = deliveryRecords[k]
      BY <2>1, <2>3, <3>1, <3>2, AdvanceHolds DEF PublishAndDeliver
    <3> QED BY <2>2, <3>3
  <2>4. ASSUME NEW h \in Handlers, RetryDueDeliveries(h)
        PROVE  Kept(k)
    <3>1. ~Listed(DueItems, k)
      BY DEF Listed, DueItems, IsDue, Settled
    <3>2. DueItems \in SUBSET Item
      BY <2>1, ItemsTyped
    <3>3. deliveryRecords'[k] = deliveryRecords[k]
      BY <2>1, <2>4, <3>1, <3>2, AdvanceHolds DEF RetryDueDeliveries
    <3> QED BY <2>2, <3>3
  <2>5. ASSUME NEW h \in Handlers, Resume(h)
        PROVE  Kept(k)
    <3>1. handlers[h].todo \in SUBSET Item /\ Unique(handlers[h].todo)
          /\ Advance(h, handlers[h].job, handlers[h].todo)
      BY <2>1, <2>5 DEF TypeOK, Handler, SlotsInv, Resume
    <3>2. \/ deliveryRecords'[k] = deliveryRecords[k]
          \/ /\ Listed(handlers[h].todo, k) /\ ~Holds(h, k)'
             /\ deliveryRecords'[k].attemptCount = deliveryRecords[k].attemptCount + 1
      BY <2>1, <3>1, AdvanceWrites
    <3> QED BY <2>2, <3>2 DEF Listed, Holds
  <2>6. ASSUME NEW h \in Handlers, NEW ok \in BOOLEAN, FetchDone(h, ok)
        PROVE  Kept(k)
    <3>1. Unique(handlers[h].todo)
      BY <2>1 DEF SlotsInv
    <3>2. \/ deliveryRecords'[k] = deliveryRecords[k]
          \/ /\ Holds(h, k) /\ ~Holds(h, k)'
             /\ deliveryRecords'[k].attemptCount = deliveryRecords[k].attemptCount + 1
      BY <2>1, <2>6, <3>1, FetchWrites
    <3> QED BY <2>2, <3>2
  <2>7. ASSUME NEW s \in SubIds, SimulateDelivery(s)
        PROVE  Kept(k)
    <3> DEFINE new == <<s, published + 1>>
    <3>1. k # new
      BY <2>1
    <3> HIDE DEF new
    <3>2. UNCHANGED deliveryRecords \/ RecordDeliveryAttempt(new, "delivered")
      BY <2>7 DEF SimulateDelivery, new
    <3>3. deliveryRecords'[k] = deliveryRecords[k]
      BY <2>1, <3>1, <3>2 DEF RecordDeliveryAttempt, TypeOK
    <3> QED BY <2>2, <3>3
  <2>8. ASSUME NEW s \in SubIds, DeleteSubscription(s)
        PROVE  Kept(k)
    <3>1. CASE k[1] = s
      BY <2>1, <2>8, <3>1
      DEF DeleteSubscription, Live, Present, Outcome, NoRecord, NoSubscription, TypeOK
    <3>2. CASE k[1] # s
      BY <2>2, <2>8, <3>2 DEF DeleteSubscription
    <3> QED BY <3>1, <3>2
  <2>9. ASSUME NEW s \in SubIds, NEW eventIds \in SUBSET EventIds, AcknowledgeEvents(s, eventIds)
        PROVE  Kept(k)
    <3>1. CASE k[1] = s /\ k[2] \in eventIds
      <4>1. deliveryRecords'[k] = Acknowledged(deliveryRecords[k])
            /\ deliveryRecords[k] \in Record
        BY <2>1, <2>9, <3>1 DEF AcknowledgeEvents, TypeOK
      <4>2. deliveryRecords'[k].outcome = "acknowledged"
        BY <2>1, <4>1 DEF Acknowledged, Record, Present, Outcome
      <4> QED BY <2>9, <3>1, <4>2 DEF AcknowledgeEvents, Outcome
    <3>2. CASE ~(k[1] = s /\ k[2] \in eventIds)
      BY <2>2, <2>9, <3>2 DEF AcknowledgeEvents
    <3> QED BY <3>1, <3>2
  <2>10. ASSUME NEW j \in Keys, RetryTimeReached(j)
         PROVE  Kept(k)
    <3>1. deliveryRecords[k] \in Record
      BY <2>1 DEF TypeOK
    <3>2. deliveryRecords'[k].outcome = deliveryRecords[k].outcome
      BY <2>1, <2>10, <3>1 DEF RetryTimeReached, TypeOK, Record
    <3> QED BY <3>2 DEF Outcome
  <2> QED
    BY <2>2, <2>3, <2>4, <2>5, <2>6, <2>7, <2>8, <2>9, <2>10
    DEF Next, CreateSubscription, UpdateSubscription
<1> QED BY <1>1, DeliveryInvariant, PTL DEF Spec, SettledChangesOnlyInFlight
=============================================================================
