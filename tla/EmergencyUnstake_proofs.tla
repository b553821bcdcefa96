----------------------- MODULE EmergencyUnstake_proofs -----------------------
(***************************************************************************)
(* Proofs about EmergencyUnstake, for any number of stakers, positions and  *)
(* requests, and any configuration of penalties; and, at the end, about     *)
(* Pagination, by which the history of unstakes and other lists are read,   *)
(* for any number of rows, values and page sizes.                           *)
(***************************************************************************)
EXTENDS EmergencyUnstake, Pagination, SumTheorems, SequenceTheorems

InProgress ==
  [pc: {"checkRateLimit", "readPosition", "save", "withdraw"}, request: Request, penaltyRate: Nat]

\* The rate of a number of days is a number, and no more than the maximum.
LEMMA PenaltyBounds ==
  ASSUME NEW days \in Nat
  PROVE  CalculatePenalty(days) \in Nat /\ CalculatePenalty(days) <= MaxRate * LockupDays
<1> DEFINE slope == (MaxRate - MinRate) * days
           low == MinRate * LockupDays
           high == MaxRate * LockupDays
<1>1. slope \in Nat /\ low \in Nat /\ high \in Nat
  BY EmergencyUnstakeAssumption
<1> HIDE DEF slope, low, high
<1>2. CalculatePenalty(days) = IF days <= 0 THEN 0 ELSE Min2(low + slope, high)
  BY DEF CalculatePenalty, slope, low, high
<1>3. CalculatePenalty(days) \in Nat /\ CalculatePenalty(days) <= high
  BY <1>1, <1>2 DEF Min2
<1> QED BY <1>3 DEF high

\* The nearer a position is to its end, the lower is its rate.
LEMMA PenaltyFalls ==
  ASSUME NEW days \in Nat, days > 0
  PROVE  CalculatePenalty(days - 1) <= CalculatePenalty(days)
<1> DEFINE rise == MaxRate - MinRate
           slope == rise * (days - 1)
           low == MinRate * LockupDays
           high == MaxRate * LockupDays
<1>1. rise \in Nat /\ low \in Nat /\ high \in Nat
  BY EmergencyUnstakeAssumption
<1>2. slope \in Nat /\ (MaxRate - MinRate) * days = slope + rise
  BY <1>1, EmergencyUnstakeAssumption
<1>3. CalculatePenalty(days) = Min2(low + (slope + rise), high)
  BY <1>2 DEF CalculatePenalty
<1>4. CalculatePenalty(days - 1) = IF days - 1 <= 0 THEN 0 ELSE Min2(low + slope, high)
  BY DEF CalculatePenalty
<1> HIDE DEF slope, rise, low, high
<1> QED BY <1>1, <1>2, <1>3, <1>4 DEF Min2

-----------------------------------------------------------------------------
(* A request that is about to save holds a rate that is due: at most the    *)
(* maximum, and no less than that of the position now.                      *)
RateDue(h) ==
  LET position == positions[handlers[h].request.position] IN
  /\ handlers[h].penaltyRate <= MaxRate * LockupDays
  /\ position.present => CalculatePenalty(position.remaining) <= handlers[h].penaltyRate

RatesDue == \A h \in Handlers : At(h, "save") => RateDue(h)

LEMMA HandlerFacts ==
  ASSUME TypeOK, NEW h \in Handlers
  PROVE  /\ handlers[h].pc \in {"idle", "checkRateLimit", "readPosition", "save", "withdraw"}
         /\ ~At(h, "idle") =>
              /\ handlers[h] \in InProgress
              /\ handlers[h].request \in Request /\ handlers[h].penaltyRate \in Nat
              /\ handlers[h].request.stakerId \in Stakers
              /\ handlers[h].request.position \in Positions
              /\ handlers[h].request.amount \in 1..MaxAmount
              /\ \A pc : [handlers[h] EXCEPT !.pc = pc]
                   = [pc |-> pc, request |-> handlers[h].request,
                      penaltyRate |-> handlers[h].penaltyRate]
<1>1. handlers[h] \in InProgress \union {Idle}
  BY DEF TypeOK, InProgress
<1>2. CASE handlers[h] = Idle
  BY <1>2 DEF Idle, At
<1>3. CASE handlers[h] \in InProgress
  <2>1. /\ handlers[h].pc \in {"checkRateLimit", "readPosition", "save", "withdraw"}
        /\ handlers[h].request \in Request /\ handlers[h].penaltyRate \in Nat
        /\ handlers[h] = [pc |-> handlers[h].pc, request |-> handlers[h].request,
                          penaltyRate |-> handlers[h].penaltyRate]
    BY <1>3 DEF InProgress
  <2>2. /\ handlers[h].request.stakerId \in Stakers
        /\ handlers[h].request.position \in Positions
        /\ handlers[h].request.amount \in 1..MaxAmount
    BY <2>1 DEF Request
  <2>3. \A pc : [handlers[h] EXCEPT !.pc = pc]
          = [pc |-> pc, request |-> handlers[h].request, penaltyRate |-> handlers[h].penaltyRate]
    BY <2>1
  <2> QED BY <1>3, <2>1, <2>2, <2>3
<1> QED BY <1>1, <1>2, <1>3

LEMMA PositionFacts ==
  ASSUME TypeOK, NEW p \in Positions
  PROVE  /\ positions[p].present \in BOOLEAN
         /\ ~positions[p].present => positions[p] = NoPosition
         /\ positions[p].present =>
              /\ positions[p] \in Position
              /\ positions[p].stakerId \in Stakers /\ positions[p].amount \in 0..MaxAmount
              /\ positions[p].remaining \in 0..MaxRemaining
<1>1. positions[p] \in Position \union {NoPosition}
  BY DEF TypeOK
<1>2. CASE positions[p] = NoPosition
  BY <1>2 DEF NoPosition
<1>3. CASE positions[p] \in Position
  BY <1>3 DEF Position
<1> QED BY <1>1, <1>2, <1>3

LEMMA AmountUpdate ==
  ASSUME NEW position \in Position, NEW amount \in 0..MaxAmount
  PROVE  [position EXCEPT !.amount = amount] \in Position
BY DEF Position

LEMMA RemainingUpdate ==
  ASSUME NEW position \in Position, NEW remaining \in 0..MaxRemaining
  PROVE  [position EXCEPT !.remaining = remaining] \in Position
BY DEF Position

LEMMA TypeInductive == TypeOK /\ [Next]_vars => TypeOK'
<1> SUFFICES ASSUME TypeOK, [Next]_vars PROVE TypeOK'
  OBVIOUS
<1> USE EmergencyUnstakeAssumption
<1>0. TypeOK <=> /\ positions \in [Positions -> Position \union {NoPosition}]
                 /\ records \in Seq(Record)
                 /\ handlers \in [Handlers -> InProgress \union {Idle}]
                 /\ withdrawn \in [Stakers -> Nat]
                 /\ disturbed \in BOOLEAN
  BY DEF TypeOK, InProgress
<1>00. TypeOK' <=> /\ positions' \in [Positions -> Position \union {NoPosition}]
                 /\ records' \in Seq(Record)
                 /\ handlers' \in [Handlers -> InProgress \union {Idle}]
                 /\ withdrawn' \in [Stakers -> Nat]
                 /\ disturbed' \in BOOLEAN
  BY DEF TypeOK, InProgress
<1>1. ASSUME NEW h \in Handlers, NEW request \in Request, Initiate(h, request)
      PROVE  TypeOK'
  BY <1>0, <1>00, <1>1 DEF Initiate, InProgress
<1>2. ASSUME NEW h \in Handlers, NEW pc \in {"readPosition", "withdraw"}, ~At(h, "idle"),
             Goto(h, pc) \/ Finish(h)
      PROVE  handlers' \in [Handlers -> InProgress \union {Idle}]
  <2>1. [handlers[h] EXCEPT !.pc = pc] \in InProgress
    BY <1>2, HandlerFacts DEF InProgress
  <2> QED BY <1>0, <1>2, <2>1 DEF Goto, Finish
<1>3. ASSUME NEW h \in Handlers, CheckRateLimit(h)
      PROVE  TypeOK'
  BY <1>0, <1>00, <1>2, <1>3 DEF CheckRateLimit, At
<1>4. ASSUME NEW h \in Handlers, ReadPosition(h)
      PROVE  TypeOK'
  <2>1. CASE Withdrawable(handlers[h].request)
    <3> DEFINE rate == CalculatePenalty(positions[handlers[h].request.position].remaining)
    <3>1. rate \in Nat
      <4>1. handlers[h].request.position \in Positions
        BY <1>4, HandlerFacts DEF ReadPosition, At
      <4>2. positions[handlers[h].request.position].present
        BY <2>1 DEF Withdrawable
      <4>3. positions[handlers[h].request.position].remaining \in Nat
        BY <4>1, <4>2, PositionFacts
      <4> QED BY <4>3, PenaltyBounds
    <3>2. [pc |-> "save", request |-> handlers[h].request, penaltyRate |-> rate] \in InProgress
      BY <1>4, <3>1, HandlerFacts DEF ReadPosition, At, InProgress
    <3>3. handlers' = [handlers EXCEPT ![h] =
            [pc |-> "save", request |-> handlers[h].request, penaltyRate |-> rate]]
      BY <2>1, <1>4 DEF ReadPosition
    <3> QED BY <1>0, <1>00, <1>4, <3>2, <3>3 DEF ReadPosition
  <2>2. CASE ~Withdrawable(handlers[h].request)
    BY <1>0, <1>00, <1>4, <2>2 DEF ReadPosition, Finish
  <2> QED BY <2>1, <2>2
<1>5. ASSUME NEW h \in Handlers, Save(h)
      PROVE  TypeOK'
  <2>1. handlers' \in [Handlers -> InProgress \union {Idle}]
    BY <1>2, <1>5 DEF Save, At
  <2>2. [stakerId |-> handlers[h].request.stakerId, amount |-> handlers[h].request.amount,
         penaltyRate |-> handlers[h].penaltyRate, age |-> 0] \in Record
    <3>1. /\ handlers[h].request.stakerId \in Stakers /\ handlers[h].penaltyRate \in Nat
          /\ handlers[h].request.amount \in 1..MaxAmount
      BY <1>5, HandlerFacts DEF Save, At
    <3> QED BY <3>1 DEF Record
  <2>3. records' \in Seq(Record)
    BY <1>0, <1>5, <2>2 DEF Save
  <2> QED BY <1>0, <1>00, <1>5, <2>1, <2>3 DEF Save
<1>6. ASSUME NEW h \in Handlers, ProcessEmergencyWithdrawal(h)
      PROVE  TypeOK'
  <2> DEFINE request == handlers[h].request
             position == positions[request.position]
  <2>1. request \in Request /\ request.stakerId \in Stakers /\ request.position \in Positions
        /\ request.amount \in 1..MaxAmount
    BY <1>6, HandlerFacts DEF ProcessEmergencyWithdrawal, At
  <2>2. handlers' \in [Handlers -> InProgress \union {Idle}] /\ UNCHANGED <<records, disturbed>>
    BY <1>0, <1>6 DEF ProcessEmergencyWithdrawal, Finish
  <2>3. CASE position.present /\ position.amount >= request.amount
    <3>1. position \in Position /\ position.amount - request.amount \in 0..MaxAmount
      BY <2>1, <2>3, PositionFacts
    <3>2. [position EXCEPT !.amount = position.amount - request.amount] \in Position
      BY <3>1, AmountUpdate
    <3>3. /\ positions' = [positions EXCEPT ![request.position] =
                [position EXCEPT !.amount = position.amount - request.amount]]
          /\ withdrawn' = [withdrawn EXCEPT ![request.stakerId] = @ + request.amount]
      BY <1>0, <1>6, <2>3 DEF ProcessEmergencyWithdrawal
    <3> QED BY <1>0, <1>00, <2>1, <2>2, <3>2, <3>3, SMTT(30)
  <2>4. CASE ~(position.present /\ position.amount >= request.amount)
    BY <1>0, <1>00, <1>6, <2>2, <2>4 DEF ProcessEmergencyWithdrawal
  <2> QED BY <2>3, <2>4
<1>7. ASSUME NEW p \in Positions, NEW position \in Position, AddStakingPosition(p, position)
      PROVE  TypeOK'
  BY <1>0, <1>00, <1>7 DEF AddStakingPosition
<1>8. ASSUME NEW h \in Handlers, DatabaseFails(h)
      PROVE  TypeOK'
  BY <1>0, <1>00, <1>8 DEF DatabaseFails, Finish
<1>9. CASE Restart
  BY <1>0, <1>00, <1>9 DEF Restart
<1>10. CASE Day
  <2>1. positions' \in [Positions -> Position \union {NoPosition}]
    <3>1. ASSUME NEW p \in Positions, positions[p].present, positions[p].remaining > 0
          PROVE  [positions[p] EXCEPT !.remaining = @ - 1] \in Position
      <4>1. positions[p] \in Position /\ positions[p].remaining - 1 \in 0..MaxRemaining
        BY <3>1, PositionFacts
      <4> QED BY <4>1, RemainingUpdate
    <3> QED BY <1>0, <1>10, <3>1 DEF Day
  <2>2. records' \in Seq(Record)
    <3>1. \A i \in DOMAIN records :
            [records[i] EXCEPT !.age = Min2(@ + 1, RateLimitDays)] \in Record
      <4> SUFFICES ASSUME NEW i \in DOMAIN records
                   PROVE  [records[i] EXCEPT !.age = Min2(@ + 1, RateLimitDays)] \in Record
        OBVIOUS
      <4>1. records[i] \in Record
        BY <1>0
      <4> QED BY <4>1 DEF Record, Min2
    <3> QED BY <1>0, <1>10, <3>1 DEF Day
  <2> QED BY <1>0, <1>00, <1>10, <2>1, <2>2 DEF Day
<1>11. CASE UNCHANGED vars
  BY <1>0, <1>00, <1>11 DEF vars
<1> QED
  BY <1>1, <1>3, <1>4, <1>5, <1>6, <1>7, <1>8, <1>9, <1>10, <1>11 DEF Next

-----------------------------------------------------------------------------
(* Requests of a staker that passed the rate limit and are not recorded yet. *)
Passed(s) ==
  {h \in Handlers : (At(h, "readPosition") \/ At(h, "save")) /\ handlers[h].request.stakerId = s}

LEMMA SetsFinite ==
  ASSUME TypeOK, NEW s \in Stakers
  PROVE  /\ IsFiniteSet(Passed(s)) /\ Cardinality(Passed(s)) \in Nat
         /\ Cardinality(Passed(s)) <= Cardinality(Handlers) /\ Cardinality(Handlers) \in Nat
         /\ IsFiniteSet(Recent(s)) /\ Cardinality(Recent(s)) \in Nat
<1>1. Recent(s) \subseteq 1..Len(records) /\ Len(records) \in Nat
  BY DEF TypeOK, Recent
<1>2. IsFiniteSet(1..Len(records))
  BY <1>1, FS_Interval
<1> QED BY <1>1, <1>2, HandlersFinite, FS_Subset, FS_CardinalityType DEF Passed

\* The rate limit of every staker gains no record and no request that passed it,
\* or a request that passed it becomes a record, or it had no recent record.
RateLimitStep ==
  \A s \in Stakers :
    \/ Recent(s)' \subseteq Recent(s) /\ Passed(s)' \subseteq Passed(s)
    \/ \E h \in Passed(s), i \in Nat :
         Recent(s)' \subseteq Recent(s) \union {i} /\ Passed(s)' \subseteq Passed(s) \ {h}
    \/ Recent(s)' = {}

LEMMA RateLimitStepOfNext ==
  ASSUME TypeOK, [Next]_vars
  PROVE  RateLimitStep
<1> SUFFICES ASSUME NEW s \in Stakers
             PROVE  \/ Recent(s)' \subseteq Recent(s) /\ Passed(s)' \subseteq Passed(s)
                    \/ \E h \in Passed(s), i \in Nat :
                         /\ Recent(s)' \subseteq Recent(s) \union {i}
                         /\ Passed(s)' \subseteq Passed(s) \ {h}
                    \/ Recent(s)' = {}
  BY DEF RateLimitStep
<1>1. ASSUME NEW h \in Handlers, UNCHANGED records, ~At(h, "idle"),
             \/ Finish(h) \/ (Goto(h, "save") /\ At(h, "readPosition"))
             \/ \E rate : At(h, "readPosition") /\ handlers' = [handlers EXCEPT ![h] =
                  [pc |-> "save", request |-> handlers[h].request, penaltyRate |-> rate]]
      PROVE  Recent(s)' \subseteq Recent(s) /\ Passed(s)' \subseteq Passed(s)
  <2>1. \A g \in Handlers \ {h} : handlers'[g] = handlers[g]
    BY <1>1 DEF Finish, Goto, TypeOK
  <2>2. h \in Passed(s)' => h \in Passed(s)
    BY <1>1, HandlerFacts DEF Finish, Goto, TypeOK, Passed, At, Idle
  <2> QED BY <1>1, <2>1, <2>2 DEF Passed, At, Recent
<1>2. ASSUME NEW h \in Handlers, NEW request \in Request, Initiate(h, request)
      PROVE  Recent(s)' \subseteq Recent(s) /\ Passed(s)' \subseteq Passed(s)
  BY <1>2 DEF Initiate, Passed, Recent, At, TypeOK
<1>3. ASSUME NEW h \in Handlers, CheckRateLimit(h)
      PROVE  \/ Recent(s)' \subseteq Recent(s) /\ Passed(s)' \subseteq Passed(s)
             \/ Recent(s)' = {}
  <2>1. CASE Recent(handlers[h].request.stakerId) # {}
    BY <1>1, <1>3, <2>1 DEF CheckRateLimit, At
  <2>2. CASE Recent(handlers[h].request.stakerId) = {} /\ handlers[h].request.stakerId = s
    BY <1>3, <2>2 DEF CheckRateLimit, Recent
  <2>3. CASE Recent(handlers[h].request.stakerId) = {} /\ handlers[h].request.stakerId # s
    <3>1. /\ \A g \in Handlers \ {h} : handlers'[g] = handlers[g]
          /\ handlers'[h].request = handlers[h].request
      BY <1>3, <2>3, HandlerFacts DEF CheckRateLimit, Goto, TypeOK, At
    <3> QED BY <1>3, <2>3, <3>1 DEF CheckRateLimit, Passed, At, Recent
  <2> QED BY <2>1, <2>2, <2>3
<1>4. ASSUME NEW h \in Handlers, ReadPosition(h)
      PROVE  Recent(s)' \subseteq Recent(s) /\ Passed(s)' \subseteq Passed(s)
  BY <1>1, <1>4 DEF ReadPosition, At
<1>5. ASSUME NEW h \in Handlers, Save(h)
      PROVE  \/ Recent(s)' \subseteq Recent(s) /\ Passed(s)' \subseteq Passed(s)
             \/ \E g \in Passed(s), i \in Nat :
                  /\ Recent(s)' \subseteq Recent(s) \union {i}
                  /\ Passed(s)' \subseteq Passed(s) \ {g}
  <2> DEFINE i == Len(records) + 1
             new == [stakerId |-> handlers[h].request.stakerId,
                     amount |-> handlers[h].request.amount,
                     penaltyRate |-> handlers[h].penaltyRate, age |-> 0]
  <2>1. records \in Seq(Record) /\ records' = Append(records, new)
    BY <1>5 DEF Save, TypeOK
  <2>2. /\ i \in Nat /\ DOMAIN records' = DOMAIN records \union {i}
        /\ records'[i] = new /\ \A j \in DOMAIN records : records'[j] = records[j]
    BY <2>1
  <2>3. Recent(s)' \subseteq Recent(s) \union {i}
        /\ (handlers[h].request.stakerId # s => Recent(s)' \subseteq Recent(s))
    BY <2>2 DEF Recent
  <2>4. Passed(s)' \subseteq Passed(s) \ {h}
    BY <1>5, HandlerFacts DEF Save, Goto, Passed, At, TypeOK
  <2>5. handlers[h].request.stakerId = s => h \in Passed(s)
    BY <1>5 DEF Save, Passed
  <2> QED BY <2>2, <2>3, <2>4, <2>5
<1>6. ASSUME NEW h \in Handlers, ProcessEmergencyWithdrawal(h) \/ DatabaseFails(h)
      PROVE  Recent(s)' \subseteq Recent(s) /\ Passed(s)' \subseteq Passed(s)
  BY <1>1, <1>6 DEF ProcessEmergencyWithdrawal, DatabaseFails, At
<1>7. CASE Restart
  BY <1>7 DEF Restart, Recent, Passed, At, Idle
<1>8. CASE Day
  <2>1. DOMAIN records' = DOMAIN records
    BY <1>8 DEF Day
  <2>2. \A i \in DOMAIN records :
          /\ records'[i].stakerId = records[i].stakerId
          /\ records'[i].age < RateLimitDays => records[i].age < RateLimitDays
    <3> SUFFICES ASSUME NEW i \in DOMAIN records
                 PROVE  /\ records'[i].stakerId = records[i].stakerId
                        /\ records'[i].age < RateLimitDays => records[i].age < RateLimitDays
      OBVIOUS
    <3>1. records[i] \in Record
      BY DEF TypeOK
    <3>2. records'[i] = [records[i] EXCEPT !.age = Min2(@ + 1, RateLimitDays)]
      BY <1>8 DEF Day
    <3> QED BY <3>1, <3>2, EmergencyUnstakeAssumption DEF Record, Min2
  <2>3. Recent(s)' \subseteq Recent(s)
    BY <2>1, <2>2 DEF Recent
  <2> QED BY <1>8, <2>3 DEF Day, Passed, At
<1>9. CASE UNCHANGED <<records, handlers>>
  BY <1>9 DEF Recent, Passed, At
<1> QED
  BY <1>2, <1>3, <1>4, <1>5, <1>6, <1>7, <1>8, <1>9 DEF Next, AddStakingPosition, vars

LEMMA OverlapInductive ==
  ASSUME TypeOK, OverlapBoundsUnstakes, [Next]_vars
  PROVE  OverlapBoundsUnstakes'
<1> SUFFICES ASSUME NEW s \in Stakers
             PROVE  Cardinality(Recent(s)') + Cardinality(Passed(s)') <= Cardinality(Handlers)
  BY DEF OverlapBoundsUnstakes, Passed
<1>1. Cardinality(Recent(s)) + Cardinality(Passed(s)) <= Cardinality(Handlers)
  BY DEF OverlapBoundsUnstakes, Passed
<1>2. TypeOK'
  BY TypeInductive
<1>3. /\ IsFiniteSet(Passed(s)) /\ Cardinality(Passed(s)) \in Nat
      /\ IsFiniteSet(Recent(s)) /\ Cardinality(Recent(s)) \in Nat
  BY SetsFinite
<1>4. /\ Cardinality(Passed(s)') \in Nat /\ Cardinality(Recent(s)') \in Nat
      /\ Cardinality(Passed(s)') <= Cardinality(Handlers) /\ Cardinality(Handlers) \in Nat
  <2>1. Passed(s)' \subseteq Handlers
    BY DEF Passed
  <2>2. IsFiniteSet(Passed(s)') /\ Cardinality(Passed(s)') <= Cardinality(Handlers)
    BY <2>1, HandlersFinite, FS_Subset
  <2>3. Recent(s)' \subseteq 1..Len(records') /\ Len(records') \in Nat
    BY <1>2 DEF TypeOK, Recent
  <2>4. IsFiniteSet(Recent(s)')
    <3>1. IsFiniteSet(1..Len(records'))
      BY <2>3, FS_Interval
    <3> QED BY <2>3, <3>1, FS_Subset
  <2> QED BY <2>2, <2>4, HandlersFinite, FS_CardinalityType
<1>5. CASE Recent(s)' \subseteq Recent(s) /\ Passed(s)' \subseteq Passed(s)
  <2>1. Cardinality(Recent(s)') <= Cardinality(Recent(s))
        /\ Cardinality(Passed(s)') <= Cardinality(Passed(s))
    BY <1>3, <1>5, FS_Subset
  <2> QED BY <1>1, <1>3, <1>4, <2>1
<1>6. ASSUME NEW h \in Passed(s), NEW i \in Nat,
             Recent(s)' \subseteq Recent(s) \union {i}, Passed(s)' \subseteq Passed(s) \ {h}
      PROVE  Cardinality(Recent(s)') + Cardinality(Passed(s)') <= Cardinality(Handlers)
  <2>1. /\ IsFiniteSet(Recent(s) \union {i})
        /\ Cardinality(Recent(s) \union {i}) \in Nat
        /\ Cardinality(Recent(s) \union {i}) <= Cardinality(Recent(s)) + 1
    <3>1. /\ IsFiniteSet(Recent(s) \union {i})
          /\ Cardinality(Recent(s) \union {i}) =
               IF i \in Recent(s) THEN Cardinality(Recent(s)) ELSE Cardinality(Recent(s)) + 1
      BY <1>3, FS_AddElement
    <3> QED BY <1>3, <3>1
  <2>2. /\ IsFiniteSet(Passed(s) \ {h})
        /\ Cardinality(Passed(s) \ {h}) = Cardinality(Passed(s)) - 1
    BY <1>3, FS_RemoveElement
  <2>3. Cardinality(Recent(s)') <= Cardinality(Recent(s)) + 1
    BY <1>3, <1>4, <1>6, <2>1, FS_Subset
  <2>4. Cardinality(Passed(s)') <= Cardinality(Passed(s)) - 1
    BY <1>6, <2>2, FS_Subset
  <2> QED BY <1>1, <1>3, <1>4, <2>3, <2>4
<1>7. CASE Recent(s)' = {}
  <2>1. Cardinality(Recent(s)') = 0
    BY <1>7, FS_EmptySet
  <2> QED BY <1>4, <2>1
<1> QED BY <1>5, <1>6, <1>7, RateLimitStepOfNext DEF RateLimitStep

LEMMA UnstakesStart == Init => TypeOK /\ OverlapBoundsUnstakes /\ RatesDue
<1> SUFFICES ASSUME Init PROVE TypeOK /\ OverlapBoundsUnstakes /\ RatesDue
  OBVIOUS
<1>1. TypeOK
  <2>1. /\ positions \in [Positions -> Position \union {NoPosition}]
        /\ handlers \in [Handlers -> InProgress \union {Idle}]
    BY DEF Init
  <2>2. records \in Seq(Record)
    BY DEF Init
  <2>3. withdrawn \in [Stakers -> Nat] /\ disturbed \in BOOLEAN
    BY DEF Init
  <2> QED BY <2>1, <2>2, <2>3 DEF TypeOK, InProgress
<1>2. \A s \in Stakers : Recent(s) = {} /\ Passed(s) = {}
  BY DEF Init, Recent, Passed, At, Idle
<1>3. OverlapBoundsUnstakes
  <2>1. Cardinality({}) = 0 /\ Cardinality(Handlers) \in Nat
    BY FS_EmptySet, HandlersFinite, FS_CardinalityType
  <2>2. \A s \in Stakers : Cardinality(Recent(s)) + Cardinality(Passed(s)) <= Cardinality(Handlers)
    BY <1>2, <2>1
  <2> QED BY <2>2 DEF OverlapBoundsUnstakes, Passed
<1> QED BY <1>1, <1>3 DEF Init, RatesDue, At, Idle

\* Positions, records and requests stay well formed, so that no position is
\* overdrawn (processEmergencyWithdrawal).
THEOREM TypeCorrect == Spec => []TypeOK
BY UnstakesStart, TypeInductive, PTL DEF Spec

\* Within RateLimitDays, no more unstakes of a staker are recorded than requests
\* overlap (initiateEmergencyUnstake): a request passes the limit only when there
\* is no recent record, and each that passed becomes one record.
THEOREM UnstakesBounded == Spec => []OverlapBoundsUnstakes
BY UnstakesStart, TypeCorrect, OverlapInductive, PTL DEF Spec

-----------------------------------------------------------------------------
LEMMA RatesInductive ==
  ASSUME TypeOK, RatesDue, [Next]_vars
  PROVE  RatesDue'
<1> USE DEF RatesDue
<1> SUFFICES ASSUME NEW g \in Handlers, At(g, "save")' PROVE RateDue(g)'
  OBVIOUS
<1>1. ASSUME At(g, "save"), handlers'[g] = handlers[g],
             LET p == handlers[g].request.position IN
               positions'[p].present =>
                 /\ positions[p].present
                 /\ \/ positions'[p].remaining = positions[p].remaining
                    \/ /\ positions[p].remaining > 0
                       /\ positions'[p].remaining = positions[p].remaining - 1
      PROVE  RateDue(g)'
  <2> DEFINE p == handlers[g].request.position
  <2>1. /\ p \in Positions /\ handlers[g].penaltyRate \in Nat
        /\ handlers[g].penaltyRate <= MaxRate * LockupDays
        /\ positions[p].present
           => CalculatePenalty(positions[p].remaining) <= handlers[g].penaltyRate
    BY <1>1, HandlerFacts DEF RateDue, At
  <2>2. CASE ~positions'[p].present
    BY <1>1, <2>1, <2>2 DEF RateDue
  <2>3. CASE positions'[p].present
    <3>1. positions[p].remaining \in Nat
      BY <1>1, <2>1, <2>3, PositionFacts
    <3>2. CalculatePenalty(positions'[p].remaining) <= CalculatePenalty(positions[p].remaining)
          /\ CalculatePenalty(positions'[p].remaining) \in Nat
          /\ CalculatePenalty(positions[p].remaining) \in Nat
      BY <1>1, <2>3, <3>1, PenaltyFalls, PenaltyBounds
    <3>3. CalculatePenalty(positions'[p].remaining) <= handlers[g].penaltyRate
      BY <1>1, <2>1, <2>3, <3>2
    <3> QED BY <1>1, <2>1, <3>3 DEF RateDue
  <2> QED BY <2>2, <2>3
<1>2. ASSUME NEW h \in Handlers, UNCHANGED positions,
             \A f \in Handlers \ {h} : handlers'[f] = handlers[f], ~At(h, "save")'
      PROVE  RateDue(g)'
  BY <1>1, <1>2 DEF At
<1>3. ASSUME NEW h \in Handlers, UNCHANGED positions,
             Finish(h) \/ (~At(h, "idle") /\ \E pc : pc # "save" /\ Goto(h, pc))
      PROVE  RateDue(g)'
  BY <1>2, <1>3, HandlerFacts DEF Finish, Goto, TypeOK, At, Idle
<1>4. ASSUME NEW h \in Handlers, NEW request \in Request, Initiate(h, request)
      PROVE  RateDue(g)'
  BY <1>2, <1>4 DEF Initiate, TypeOK, At
<1>5. ASSUME NEW h \in Handlers, CheckRateLimit(h) \/ DatabaseFails(h) \/ Save(h)
      PROVE  RateDue(g)'
  BY <1>3, <1>5 DEF CheckRateLimit, DatabaseFails, Save, At
<1>6. ASSUME NEW h \in Handlers, ReadPosition(h)
      PROVE  RateDue(g)'
  <2> DEFINE p == handlers[h].request.position
             rate == CalculatePenalty(positions[p].remaining)
  <2>1. CASE ~Withdrawable(handlers[h].request)
    BY <1>3, <1>6, <2>1 DEF ReadPosition
  <2>2. CASE Withdrawable(handlers[h].request) /\ g # h
    <3>1. handlers'[g] = handlers[g] /\ UNCHANGED positions
      BY <1>6, <2>2 DEF ReadPosition, TypeOK
    <3> QED BY <1>1, <3>1 DEF At
  <2>3. CASE Withdrawable(handlers[h].request) /\ g = h
    <3>1. /\ handlers'[g] = [pc |-> "save", request |-> handlers[h].request, penaltyRate |-> rate]
          /\ UNCHANGED positions
      BY <1>6, <2>3 DEF ReadPosition, TypeOK
    <3>2. p \in Positions /\ positions[p].present
      BY <1>6, <2>3, HandlerFacts DEF ReadPosition, Withdrawable, At
    <3>3. rate \in Nat /\ rate <= MaxRate * LockupDays
      BY <3>2, PositionFacts, PenaltyBounds
    <3> QED BY <3>1, <3>3 DEF RateDue
  <2> QED BY <2>1, <2>2, <2>3
<1>7. ASSUME NEW h \in Handlers, ProcessEmergencyWithdrawal(h)
      PROVE  RateDue(g)'
  <2> DEFINE q == handlers[h].request.position
             p == handlers[g].request.position
  <2>1. g # h /\ handlers'[g] = handlers[g]
    BY <1>7 DEF ProcessEmergencyWithdrawal, Finish, At, Idle, TypeOK
  <2>2. p \in Positions /\ q \in Positions
    BY <1>7, <2>1, HandlerFacts DEF ProcessEmergencyWithdrawal, At
  <2>3. /\ positions'[p].present = positions[p].present
        /\ positions[p].present => positions'[p].remaining = positions[p].remaining
    <3>1. CASE UNCHANGED positions
      BY <3>1
    <3>2. CASE /\ positions[q].present
               /\ positions' = [positions EXCEPT ![q].amount = @ - handlers[h].request.amount]
      <4>1. \A a : /\ [positions[q] EXCEPT !.amount = a].present = positions[q].present
                   /\ [positions[q] EXCEPT !.amount = a].remaining = positions[q].remaining
        BY <2>2, <3>2, PositionFacts DEF Position
      <4> QED BY <2>2, <3>2, <4>1 DEF TypeOK
    <3> QED BY <1>7, <3>1, <3>2 DEF ProcessEmergencyWithdrawal
  <2> QED BY <1>1, <2>1, <2>3 DEF At
<1>8. ASSUME NEW q \in Positions, NEW position \in Position, AddStakingPosition(q, position)
      PROVE  RateDue(g)'
  <2>1. handlers' = handlers /\ At(g, "save") /\ handlers[g].request.position # q
    BY <1>8 DEF AddStakingPosition, At
  <2>2. handlers[g].request.position \in Positions
    BY <2>1, HandlerFacts DEF At
  <2>3. positions'[handlers[g].request.position] = positions[handlers[g].request.position]
    BY <1>8, <2>1, <2>2 DEF AddStakingPosition, TypeOK
  <2> QED BY <1>1, <2>1, <2>3
<1>9. CASE Restart
  BY <1>9 DEF Restart, At, Idle
<1>10. CASE Day
  <2>1. handlers' = handlers /\ At(g, "save") /\ handlers[g].request.position \in Positions
    BY <1>10, HandlerFacts DEF Day, At
  <2>2. \A p \in Positions :
          positions'[p].present =>
            /\ positions[p].present
            /\ \/ positions'[p].remaining = positions[p].remaining
               \/ /\ positions[p].remaining > 0
                  /\ positions'[p].remaining = positions[p].remaining - 1
    <3> SUFFICES ASSUME NEW p \in Positions, positions[p].present, positions[p].remaining > 0
                 PROVE  /\ positions'[p].remaining = positions[p].remaining - 1
      BY <1>10 DEF Day
    <3>1. positions'[p] = [positions[p] EXCEPT !.remaining = @ - 1]
      BY <1>10 DEF Day
    <3>2. positions[p] \in Position
      BY PositionFacts
    <3> QED BY <3>1, <3>2 DEF Position
  <2> QED BY <1>1, <2>1, <2>2
<1>11. CASE UNCHANGED vars
  BY <1>1, <1>11 DEF vars, At
<1> QED
  BY <1>4, <1>5, <1>6, <1>7, <1>8, <1>9, <1>10, <1>11 DEF Next

LEMMA RatesInvariant == Spec => [](TypeOK /\ RatesDue)
BY UnstakesStart, TypeInductive, RatesInductive, PTL DEF Spec

\* The penalty on record is what is due when it is recorded: at most the maximum,
\* and not less than that of the position at that time (calculatePenalty), since a
\* rate only falls while the request that read it waits.
THEOREM PenaltyCorrect == Spec => PenaltyDue
<1>1. ASSUME TypeOK, RatesDue, [Next]_vars, NEW h \in Handlers, At(h, "save"), At(h, "withdraw")'
      PROVE  LET rate == records'[Len(records')].penaltyRate
                 position == positions[handlers[h].request.position]
             IN /\ rate <= MaxRate * LockupDays
                /\ position.present =>
                     rate >= Min2(MaxRate * LockupDays,
                                  IF position.remaining = 0 THEN 0
                                  ELSE MinRate * LockupDays
                                         + (MaxRate - MinRate) * position.remaining)
  <2> DEFINE position == positions[handlers[h].request.position]
  <2>1. Save(h)
    <3>1. ASSUME NEW g \in Handlers, NEW request \in Request, Initiate(g, request)
          PROVE  FALSE
      BY <1>1, <3>1 DEF Initiate, At, TypeOK
    <3>2. ASSUME NEW g \in Handlers, CheckRateLimit(g) \/ DatabaseFails(g)
          PROVE  FALSE
      BY <1>1, <3>2, HandlerFacts DEF CheckRateLimit, DatabaseFails, Goto, Finish, Idle, At, TypeOK
    <3>3. ASSUME NEW g \in Handlers, ReadPosition(g) \/ ProcessEmergencyWithdrawal(g)
          PROVE  FALSE
      BY <1>1, <3>3
      DEF ReadPosition, ProcessEmergencyWithdrawal, Finish, Idle, At, TypeOK
    <3>4. ASSUME NEW g \in Handlers, Save(g)
          PROVE  Save(h)
      BY <1>1, <3>4 DEF Save, Goto, At, TypeOK
    <3>5. CASE UNCHANGED handlers \/ handlers' = [g \in Handlers |-> Idle]
      BY <1>1, <3>5 DEF At, Idle
    <3> QED
      BY <1>1, <3>1, <3>2, <3>3, <3>4, <3>5
      DEF Next, AddStakingPosition, Restart, Day, vars
  <2>2. records'[Len(records')].penaltyRate = handlers[h].penaltyRate
    BY <1>1, <2>1 DEF Save, TypeOK
  <2>3. RateDue(h)
    BY <1>1 DEF RatesDue
  <2>4. ASSUME position.present
        PROVE  CalculatePenalty(position.remaining)
                 = Min2(MaxRate * LockupDays,
                        IF position.remaining = 0 THEN 0
                        ELSE MinRate * LockupDays + (MaxRate - MinRate) * position.remaining)
    <3> DEFINE linear == MinRate * LockupDays + (MaxRate - MinRate) * position.remaining
               high == MaxRate * LockupDays
    <3>1. position.remaining \in Nat
      BY <1>1, <2>4, HandlerFacts, PositionFacts DEF At
    <3>2. linear \in Nat /\ high \in Nat
      BY <3>1, EmergencyUnstakeAssumption
    <3>3. CalculatePenalty(position.remaining)
            = IF position.remaining <= 0 THEN 0 ELSE Min2(linear, high)
      BY DEF CalculatePenalty
    <3> HIDE DEF linear, high
    <3>4. CalculatePenalty(position.remaining)
            = Min2(high, IF position.remaining = 0 THEN 0 ELSE linear)
      BY <3>1, <3>2, <3>3 DEF Min2
    <3> QED BY <3>4 DEF linear, high
  <2> HIDE DEF position
  <2>5. /\ handlers[h].penaltyRate <= MaxRate * LockupDays
        /\ position.present => handlers[h].penaltyRate >= CalculatePenalty(position.remaining)
    <3>1. handlers[h].penaltyRate \in Nat
      BY <1>1, HandlerFacts DEF At
    <3>2. position.present => CalculatePenalty(position.remaining) \in Nat
      BY <1>1, HandlerFacts, PositionFacts, PenaltyBounds DEF At, position
    <3> QED BY <2>3, <3>1, <3>2 DEF RateDue, position
  <2> QED BY <2>2, <2>4, <2>5 DEF position
<1>2. TypeOK /\ RatesDue /\ [Next]_vars =>
        [\A h \in Handlers :
           At(h, "save") /\ At(h, "withdraw")' =>
             LET rate == records'[Len(records')].penaltyRate
                 position == positions[handlers[h].request.position]
             IN /\ rate <= MaxRate * LockupDays
                /\ position.present =>
                     rate >= Min2(MaxRate * LockupDays,
                                  IF position.remaining = 0 THEN 0
                                  ELSE MinRate * LockupDays
                                         + (MaxRate - MinRate) * position.remaining)]_vars
  BY <1>1
<1> QED BY <1>2, RatesInvariant, PTL DEF Spec, PenaltyDue

-----------------------------------------------------------------------------
(* The table and the withdrawals *)

Granted(h) == At(h, "save") \/ At(h, "withdraw")

\* Unless disturbed, what a request was granted is still there, and for it alone.
GrantsHold ==
  ~disturbed =>
    /\ \A h \in Handlers : Granted(h) => Withdrawable(handlers[h].request)
    /\ \A g, h \in Handlers :
         Granted(g) /\ Granted(h) /\ handlers[g].request.position = handlers[h].request.position
           => g = h

\* What is on record was withdrawn or is about to be; unless disturbed, exactly.
Balanced ==
  \A s \in Stakers :
    /\ withdrawn[s] + Awaited(s) <= Recorded(s)
    /\ ~disturbed => withdrawn[s] + Awaited(s) = Recorded(s)

Taking(h, s) ==
  IF At(h, "withdraw") /\ handlers[h].request.stakerId = s THEN handlers[h].request.amount ELSE 0

LEMMA TakingTyped ==
  ASSUME TypeOK, NEW h \in Handlers, NEW s
  PROVE  Taking(h, s) \in Nat
<1>1. At(h, "withdraw") => handlers[h].request.amount \in Nat
  BY HandlerFacts, EmergencyUnstakeAssumption DEF At
<1> QED BY <1>1 DEF Taking

LEMMA AwaitedSums ==
  ASSUME TypeOK, NEW s
  PROVE  /\ Awaited(s) \in Nat
         /\ (\A h \in Handlers : ~At(h, "withdraw")) => Awaited(s) = 0
<1> DEFINE amounts == [h \in Handlers |->
             IF At(h, "withdraw") /\ handlers[h].request.stakerId = s
               THEN handlers[h].request.amount ELSE 0]
<1>1. \A h \in Handlers : amounts[h] \in Nat
  BY TakingTyped DEF Taking
<1>2. (\A h \in Handlers : ~At(h, "withdraw")) => \A h \in Handlers : amounts[h] = 0
  OBVIOUS
<1>3. Awaited(s) = SumFunctionOnSet(amounts, Handlers)
  BY DEF Awaited, SumFunction
<1> HIDE DEF amounts
<1> QED BY <1>1, <1>2, <1>3, HandlersFinite, SumOfNaturals, SumOfZeros

\* A step of one request changes what is awaited by what it takes.
LEMMA AwaitedChanges ==
  ASSUME TypeOK, TypeOK', NEW s, NEW h \in Handlers,
         \A g \in Handlers \ {h} : handlers'[g] = handlers[g]
  PROVE  /\ Awaited(s)' = Awaited(s) - Taking(h, s) + Taking(h, s)'
         /\ Taking(h, s) \in Nat /\ Taking(h, s)' \in Nat
<1> DEFINE before == [g \in Handlers |->
             IF At(g, "withdraw") /\ handlers[g].request.stakerId = s
               THEN handlers[g].request.amount ELSE 0]
           after == [g \in Handlers |->
             IF At(g, "withdraw")' /\ handlers'[g].request.stakerId = s
               THEN handlers'[g].request.amount ELSE 0]
<1>1. \A g \in Handlers : before[g] \in Nat
  BY TakingTyped DEF Taking
<1>2. \A g \in Handlers \ {h} : after[g] = before[g]
  BY DEF At
<1>3. before[h] = Taking(h, s) /\ after[h] = Taking(h, s)'
  BY DEF Taking
<1>4. Taking(h, s)' \in Nat
  <2>1. At(h, "withdraw")' => handlers'[h].request.amount \in Nat
    <3>1. handlers'[h] \in InProgress \union {Idle}
      BY DEF TypeOK, InProgress
    <3> QED BY <3>1, EmergencyUnstakeAssumption DEF InProgress, Idle, Request, At
  <2> QED BY <2>1 DEF Taking
<1>5. \A g \in Handlers : after[g] \in Nat
  BY <1>1, <1>2, <1>3, <1>4
<1>6. Awaited(s) = SumFunctionOnSet(before, Handlers)
      /\ Awaited(s)' = SumFunctionOnSet(after, Handlers)
  BY DEF Awaited, SumFunction
<1> HIDE DEF before, after
<1>7. SumFunctionOnSet(after, Handlers)
        = SumFunctionOnSet(before, Handlers) - before[h] + after[h]
  BY <1>1, <1>2, <1>5, HandlersFinite, SumChanges
<1> QED BY <1>1, <1>3, <1>4, <1>6, <1>7

LEMMA RecordFacts ==
  ASSUME TypeOK, NEW i \in DOMAIN records
  PROVE  records[i].amount \in Nat
<1>1. records[i] \in Record
  BY DEF TypeOK
<1>2. records[i].amount \in 1..MaxAmount
  BY <1>1 DEF Record
<1> QED BY <1>2, EmergencyUnstakeAssumption

LEMMA RecordedTyped ==
  ASSUME TypeOK, NEW s
  PROVE  Recorded(s) \in Nat
<1> DEFINE amounts == [i \in DOMAIN records |->
             IF records[i].stakerId = s THEN records[i].amount ELSE 0]
<1>1. records \in Seq(Record) /\ Len(records) \in Nat /\ DOMAIN records = 1..Len(records)
  BY DEF TypeOK
<1>2. \A i \in DOMAIN records : records[i].amount \in Nat
  BY RecordFacts
<1>3. IsFiniteSet(DOMAIN records)
  BY <1>1, FS_Interval
<1>4. \A i \in DOMAIN records : amounts[i] \in Nat
  BY <1>2
<1>5. Recorded(s) = SumFunctionOnSet(amounts, DOMAIN records)
  BY DEF Recorded, SumFunction
<1> HIDE DEF amounts
<1> QED BY <1>3, <1>4, <1>5, SumOfNaturals

\* A record more.
LEMMA RecordedGrows ==
  ASSUME TypeOK, NEW s, NEW new \in Record, records' = Append(records, new)
  PROVE  Recorded(s)' = Recorded(s) + (IF new.stakerId = s THEN new.amount ELSE 0)
<1> DEFINE last == Len(records) + 1
           added == IF new.stakerId = s THEN new.amount ELSE 0
           before == [i \in DOMAIN records |->
             IF records[i].stakerId = s THEN records[i].amount ELSE 0]
           after == [i \in DOMAIN records' |->
             IF records'[i].stakerId = s THEN records'[i].amount ELSE 0]
<1>1. records \in Seq(Record) /\ Len(records) \in Nat /\ DOMAIN records = 1..Len(records)
  BY DEF TypeOK
<1>2. /\ DOMAIN records' = 1..last /\ records'[last] = new
      /\ \A i \in DOMAIN records : records'[i] = records[i]
  BY <1>1
<1>3. added \in Nat
  BY EmergencyUnstakeAssumption DEF Record
<1>4. \A i \in DOMAIN records : before[i] \in Nat
  BY RecordFacts
<1>5. after[last] = added /\ \A i \in DOMAIN records : after[i] = before[i]
  BY <1>1, <1>2
<1>6. /\ last \in 1..last /\ (1..last) \ {last} = DOMAIN records
      /\ IsFiniteSet(1..last) /\ IsFiniteSet(DOMAIN records)
  BY <1>1, FS_Interval
<1>7. Recorded(s) = SumFunctionOnSet(before, DOMAIN records)
      /\ Recorded(s)' = SumFunctionOnSet(after, 1..last)
  BY <1>2 DEF Recorded, SumFunction
<1> HIDE DEF before, after, last, added
<1>8. \A i \in 1..last : after[i] \in Int
  BY <1>3, <1>4, <1>5, <1>6
<1>9. SumFunctionOnSet(after, 1..last) = SumFunctionOnSet(after, (1..last) \ {last}) + after[last]
  BY <1>6, <1>8, SumAdds
<1>10. SumFunctionOnSet(after, DOMAIN records) = SumFunctionOnSet(before, DOMAIN records)
  BY <1>4, <1>5, <1>6, SumSame
<1>11. Recorded(s)' = Recorded(s) + added
  BY <1>5, <1>6, <1>7, <1>9, <1>10
<1> QED BY <1>11 DEF added

\* A step that records nothing, and withdraws nothing but what it took.
LEMMA BalanceKept ==
  ASSUME TypeOK, TypeOK', Balanced, UNCHANGED records, disturbed => disturbed',
         NEW h \in Handlers, \A g \in Handlers \ {h} : handlers'[g] = handlers[g],
         \A s \in Stakers :
           /\ withdrawn'[s] + Taking(h, s)' <= withdrawn[s] + Taking(h, s)
           /\ ~disturbed' => withdrawn'[s] + Taking(h, s)' = withdrawn[s] + Taking(h, s)
  PROVE  Balanced'
<1> SUFFICES ASSUME NEW s \in Stakers
             PROVE  /\ withdrawn'[s] + Awaited(s)' <= Recorded(s)'
                    /\ ~disturbed' => withdrawn'[s] + Awaited(s)' = Recorded(s)'
  BY DEF Balanced
<1>1. Recorded(s)' = Recorded(s)
  BY DEF Recorded
<1>2. /\ Awaited(s)' = Awaited(s) - Taking(h, s) + Taking(h, s)'
      /\ Taking(h, s) \in Nat /\ Taking(h, s)' \in Nat
  BY AwaitedChanges
<1>3. withdrawn[s] \in Nat /\ withdrawn'[s] \in Nat /\ Awaited(s) \in Nat /\ Recorded(s) \in Nat
  BY AwaitedSums, RecordedTyped DEF TypeOK
<1>4. /\ withdrawn[s] + Awaited(s) <= Recorded(s)
      /\ ~disturbed => withdrawn[s] + Awaited(s) = Recorded(s)
  BY DEF Balanced
<1>5. /\ withdrawn'[s] + Taking(h, s)' <= withdrawn[s] + Taking(h, s)
      /\ ~disturbed' => withdrawn'[s] + Taking(h, s)' = withdrawn[s] + Taking(h, s)
  OBVIOUS
<1> QED BY <1>1, <1>2, <1>3, <1>4, <1>5


LEMMA GrantsInductive ==
  ASSUME TypeOK, GrantsHold, [Next]_vars
  PROVE  GrantsHold'
<1>1. ASSUME disturbed => disturbed',
             \A g \in Handlers : Granted(g)' =>
               Granted(g) /\ handlers'[g].request = handlers[g].request,
             ~disturbed => \A g \in Handlers : Granted(g)' => Withdrawable(handlers[g].request)'
      PROVE  GrantsHold'
  BY <1>1 DEF GrantsHold
<1>2. ASSUME NEW h \in Handlers, UNCHANGED <<positions, disturbed>>,
             \A g \in Handlers \ {h} : handlers'[g] = handlers[g],
             Granted(h)' => Granted(h) /\ handlers'[h].request = handlers[h].request
      PROVE  GrantsHold'
  <2>1. \A g \in Handlers : Granted(g)' =>
          Granted(g) /\ handlers'[g].request = handlers[g].request
    BY <1>2 DEF Granted, At
  <2>2. ~disturbed => \A g \in Handlers : Granted(g)' => Withdrawable(handlers[g].request)'
    BY <1>2, <2>1 DEF GrantsHold, Withdrawable
  <2> QED BY <1>1, <1>2, <2>1, <2>2
<1>3. ASSUME NEW h \in Handlers, Finish(h), UNCHANGED <<positions, disturbed>>
      PROVE  GrantsHold'
  BY <1>2, <1>3 DEF Finish, Granted, At, Idle, TypeOK
<1>4. ASSUME NEW h \in Handlers, NEW request \in Request, Initiate(h, request)
      PROVE  GrantsHold'
  BY <1>2, <1>4 DEF Initiate, Granted, At, TypeOK
<1>5. ASSUME NEW h \in Handlers, CheckRateLimit(h)
      PROVE  GrantsHold'
  <2>1. CASE Goto(h, "readPosition")
    <3>1. /\ \A g \in Handlers \ {h} : handlers'[g] = handlers[g]
          /\ handlers'[h].pc = "readPosition"
      BY <1>5, <2>1, HandlerFacts DEF CheckRateLimit, Goto, TypeOK, At
    <3> QED BY <1>2, <1>5, <3>1 DEF CheckRateLimit, Granted, At
  <2> QED BY <1>3, <1>5, <2>1 DEF CheckRateLimit
<1>6. ASSUME NEW h \in Handlers, ReadPosition(h)
      PROVE  GrantsHold'
  <2> DEFINE request == handlers[h].request
             granted == [pc |-> "save", request |-> request,
                         penaltyRate |-> CalculatePenalty(positions[request.position].remaining)]
  <2>1. CASE ~Withdrawable(request)
    <3>1. ~At(h, "save")'
      BY <1>6, <2>1 DEF ReadPosition, Finish, At, Idle, TypeOK
    <3> QED BY <1>3, <1>6, <2>1, <3>1 DEF ReadPosition, TypeOK
  <2>2. CASE Withdrawable(request)
    <3>1. /\ \A g \in Handlers \ {h} : handlers'[g] = handlers[g]
          /\ handlers'[h] = granted /\ UNCHANGED positions
      BY <1>6, <2>2 DEF ReadPosition, TypeOK
    <3>2. ~disturbed' => ~disturbed /\ ~Contended(request.position)
      <4>1. At(h, "save")'
        BY <3>1 DEF At
      <4>2. disturbed' = (disturbed \/ Contended(request.position))
        BY <1>6, <4>1, Zenon DEF ReadPosition
      <4> QED BY <4>2
    <3>3. ~disturbed' => \A g \in Handlers \ {h} :
            Granted(g)' => Granted(g) /\ handlers[g].request.position # request.position
      BY <3>1, <3>2 DEF Contended, Granted, At
    <3> QED BY <2>2, <3>1, <3>2, <3>3 DEF GrantsHold, Withdrawable
  <2> QED BY <2>1, <2>2
<1>7. ASSUME NEW h \in Handlers, Save(h)
      PROVE  GrantsHold'
  <2>1. /\ \A g \in Handlers \ {h} : handlers'[g] = handlers[g]
        /\ handlers'[h].request = handlers[h].request
    BY <1>7, HandlerFacts DEF Save, Goto, TypeOK, At
  <2> QED BY <1>2, <1>7, <2>1 DEF Save, Granted
<1>8. ASSUME NEW h \in Handlers, ProcessEmergencyWithdrawal(h)
      PROVE  GrantsHold'
  <2> DEFINE q == handlers[h].request.position
  <2>1. \A g \in Handlers : Granted(g)' => g # h /\ Granted(g) /\ handlers'[g] = handlers[g]
    BY <1>8 DEF ProcessEmergencyWithdrawal, Finish, Granted, At, Idle, TypeOK
  <2>2. ASSUME ~disturbed, NEW g \in Handlers, Granted(g)'
        PROVE  Withdrawable(handlers[g].request)'
    <3> DEFINE p == handlers[g].request.position
    <3>1. p # q /\ Withdrawable(handlers[g].request)
      BY <1>8, <2>1, <2>2 DEF GrantsHold, ProcessEmergencyWithdrawal, Granted
    <3>2. p \in Positions
      BY <2>1, <2>2, HandlerFacts DEF Granted, At
    <3>3. positions'[p] = positions[p]
      BY <1>8, <3>1, <3>2 DEF ProcessEmergencyWithdrawal, TypeOK
    <3> QED BY <2>1, <2>2, <3>1, <3>3 DEF Withdrawable
  <2> QED BY <1>1, <1>8, <2>1, <2>2 DEF ProcessEmergencyWithdrawal
<1>9. ASSUME NEW h \in Handlers, DatabaseFails(h)
      PROVE  GrantsHold'
  BY <1>3, <1>9 DEF DatabaseFails
<1>10. ASSUME NEW q \in Positions, NEW position \in Position, AddStakingPosition(q, position)
       PROVE  GrantsHold'
  <2>1. ASSUME ~disturbed, NEW g \in Handlers, Granted(g)'
        PROVE  Withdrawable(handlers[g].request)'
    <3> DEFINE p == handlers[g].request.position
    <3>1. Granted(g) /\ Withdrawable(handlers[g].request)
      BY <1>10, <2>1 DEF AddStakingPosition, Granted, At, GrantsHold
    <3>2. p # q /\ p \in Positions
      BY <1>10, <3>1, HandlerFacts DEF AddStakingPosition, Granted, At
    <3>3. positions'[p] = positions[p] /\ handlers'[g] = handlers[g]
      BY <1>10, <3>2 DEF AddStakingPosition, TypeOK
    <3> QED BY <3>1, <3>3 DEF Withdrawable
  <2> QED BY <1>1, <1>10, <2>1 DEF AddStakingPosition, Granted, At
<1>11. CASE Restart
  BY <1>11 DEF Restart, GrantsHold, Granted, At, Idle
<1>12. CASE Day
  <2>1. ASSUME NEW p \in Positions, positions[p].present
        PROVE  /\ positions'[p].present /\ positions'[p].stakerId = positions[p].stakerId
               /\ positions'[p].amount = positions[p].amount
    <3>1. positions[p] \in Position
      BY <2>1, PositionFacts
    <3>2. positions'[p] = IF positions[p].remaining > 0
            THEN [positions[p] EXCEPT !.remaining = @ - 1] ELSE positions[p]
      BY <1>12, <2>1 DEF Day
    <3> QED BY <2>1, <3>1, <3>2 DEF Position
  <2>2. ASSUME ~disturbed, NEW g \in Handlers, Granted(g)'
        PROVE  Withdrawable(handlers[g].request)'
    <3>1. Granted(g) /\ handlers'[g] = handlers[g] /\ handlers[g].request.position \in Positions
      BY <1>12, <2>2, HandlerFacts DEF Day, Granted, At
    <3>2. Withdrawable(handlers[g].request)
      BY <2>2, <3>1 DEF GrantsHold
    <3> QED BY <2>1, <3>1, <3>2 DEF Withdrawable
  <2> QED BY <1>1, <1>12, <2>2 DEF Day, Granted, At
<1>13. CASE UNCHANGED vars
  BY <1>1, <1>13 DEF vars, GrantsHold, Granted, At, Withdrawable
<1> QED
  BY <1>4, <1>5, <1>6, <1>7, <1>8, <1>9, <1>10, <1>11, <1>12, <1>13 DEF Next

LEMMA BalancedInductive ==
  ASSUME TypeOK, TypeOK', GrantsHold, Balanced, [Next]_vars
  PROVE  Balanced'
<1>1. ASSUME NEW h \in Handlers, UNCHANGED <<records, withdrawn>>, disturbed => disturbed',
             \A g \in Handlers \ {h} : handlers'[g] = handlers[g],
             ~At(h, "withdraw"), ~At(h, "withdraw")'
      PROVE  Balanced'
  <2>1. \A s \in Stakers : Taking(h, s) = 0 /\ Taking(h, s)' = 0 /\ withdrawn[s] \in Nat
    BY <1>1 DEF Taking, TypeOK
  <2> QED BY <1>1, <2>1, BalanceKept
<1>2. ASSUME NEW h \in Handlers, NEW request \in Request, Initiate(h, request)
      PROVE  Balanced'
  BY <1>1, <1>2 DEF Initiate, At, TypeOK
<1>3. ASSUME NEW h \in Handlers, CheckRateLimit(h)
      PROVE  Balanced'
  <2>1. (\A g \in Handlers \ {h} : handlers'[g] = handlers[g]) /\ ~At(h, "withdraw")'
    BY <1>3, HandlerFacts DEF CheckRateLimit, Goto, Finish, Idle, TypeOK, At
  <2> QED BY <1>1, <1>3, <2>1 DEF CheckRateLimit, At
<1>4. ASSUME NEW h \in Handlers, ReadPosition(h)
      PROVE  Balanced'
  <2>1. (\A g \in Handlers \ {h} : handlers'[g] = handlers[g]) /\ ~At(h, "withdraw")'
    BY <1>4 DEF ReadPosition, Finish, Idle, TypeOK, At
  <2> QED BY <1>1, <1>4, <2>1 DEF ReadPosition, At
<1>5. ASSUME NEW h \in Handlers, Save(h)
      PROVE  Balanced'
  <2> DEFINE request == handlers[h].request
             new == [stakerId |-> request.stakerId, amount |-> request.amount,
                     penaltyRate |-> handlers[h].penaltyRate, age |-> 0]
  <2>1. /\ request.stakerId \in Stakers /\ request.amount \in 1..MaxAmount
        /\ handlers[h].penaltyRate \in Nat
        /\ \A pc : [handlers[h] EXCEPT !.pc = pc]
             = [pc |-> pc, request |-> request, penaltyRate |-> handlers[h].penaltyRate]
    BY <1>5, HandlerFacts DEF Save, At
  <2>2. new \in Record /\ records' = Append(records, new)
    <3>1. new \in Record
      BY <2>1, EmergencyUnstakeAssumption DEF Record
    <3> QED BY <1>5, <3>1 DEF Save
  <2>3. /\ \A g \in Handlers \ {h} : handlers'[g] = handlers[g]
        /\ At(h, "withdraw")' /\ handlers'[h].request = request /\ ~At(h, "withdraw")
    BY <1>5, <2>1 DEF Save, Goto, TypeOK, At
  <2> SUFFICES ASSUME NEW s \in Stakers
               PROVE  /\ withdrawn'[s] + Awaited(s)' <= Recorded(s)'
                      /\ ~disturbed' => withdrawn'[s] + Awaited(s)' = Recorded(s)'
    BY DEF Balanced
  <2> DEFINE taken == IF request.stakerId = s THEN request.amount ELSE 0
  <2>4. Taking(h, s) = 0 /\ Taking(h, s)' = taken /\ taken \in Nat
    BY <2>1, <2>3, EmergencyUnstakeAssumption DEF Taking
  <2>5. Awaited(s)' = Awaited(s) - Taking(h, s) + Taking(h, s)'
    BY <2>3, AwaitedChanges
  <2>6. Recorded(s)' = Recorded(s) + taken
    <3> HIDE DEF new
    <3>1. Recorded(s)' = Recorded(s) + (IF new.stakerId = s THEN new.amount ELSE 0)
      BY <2>2, RecordedGrows
    <3> QED BY <3>1 DEF new
  <2>7. withdrawn[s] \in Nat /\ Awaited(s) \in Nat /\ Recorded(s) \in Nat
    BY AwaitedSums, RecordedTyped DEF TypeOK
  <2>8. /\ withdrawn[s] + Awaited(s) <= Recorded(s)
        /\ ~disturbed => withdrawn[s] + Awaited(s) = Recorded(s)
        /\ UNCHANGED <<withdrawn, disturbed>>
    BY <1>5 DEF Balanced, Save
  <2> HIDE DEF taken
  <2> QED BY <2>4, <2>5, <2>6, <2>7, <2>8
<1>6. ASSUME NEW h \in Handlers, ProcessEmergencyWithdrawal(h)
      PROVE  Balanced'
  <2> DEFINE request == handlers[h].request
             position == positions[request.position]
             enough == position.present /\ position.amount >= request.amount
  <2>1. /\ request.stakerId \in Stakers /\ request.position \in Positions
        /\ request.amount \in 1..MaxAmount /\ At(h, "withdraw")
    BY <1>6, HandlerFacts DEF ProcessEmergencyWithdrawal, At
  <2>2. (\A g \in Handlers \ {h} : handlers'[g] = handlers[g]) /\ ~At(h, "withdraw")'
    BY <1>6 DEF ProcessEmergencyWithdrawal, Finish, At, Idle, TypeOK
  <2>3. ~disturbed => enough
    <3>1. ~disturbed => Withdrawable(request)
      BY <2>1 DEF GrantsHold, Granted
    <3>2. position.present => position.amount \in Nat
      BY <2>1, PositionFacts
    <3> QED BY <2>1, <3>1, <3>2 DEF Withdrawable
  <2>4. ASSUME NEW s \in Stakers
        PROVE  /\ withdrawn'[s] + Taking(h, s)' <= withdrawn[s] + Taking(h, s)
               /\ ~disturbed' => withdrawn'[s] + Taking(h, s)' = withdrawn[s] + Taking(h, s)
    <3>1. /\ Taking(h, s)' = 0
          /\ Taking(h, s) = IF request.stakerId = s THEN request.amount ELSE 0
      BY <2>1, <2>2 DEF Taking
    <3>2. withdrawn[s] \in Nat /\ request.amount \in Nat
      BY <2>1, EmergencyUnstakeAssumption DEF TypeOK
    <3>3. CASE enough
      <4>1. withdrawn'[s] = withdrawn[s] + IF request.stakerId = s THEN request.amount ELSE 0
        BY <1>6, <2>1, <3>2, <3>3 DEF ProcessEmergencyWithdrawal, TypeOK
      <4> QED BY <3>1, <3>2, <4>1
    <3>4. CASE ~enough
      <4>1. UNCHANGED <<withdrawn, disturbed>>
        BY <1>6, <3>4 DEF ProcessEmergencyWithdrawal
      <4> QED BY <2>3, <3>1, <3>2, <3>4, <4>1
    <3> QED BY <3>3, <3>4
  <2> QED BY <1>6, <2>2, <2>4, BalanceKept DEF ProcessEmergencyWithdrawal
<1>7. ASSUME NEW h \in Handlers, DatabaseFails(h)
      PROVE  Balanced'
  <2>1. (\A g \in Handlers \ {h} : handlers'[g] = handlers[g]) /\ ~At(h, "withdraw")'
    BY <1>7 DEF DatabaseFails, Finish, Idle, TypeOK, At
  <2> QED BY <1>1, <1>7, <2>1 DEF DatabaseFails, At
<1>8. CASE Restart
  <2>1. /\ \A h \in Handlers : ~At(h, "withdraw")'
        /\ UNCHANGED <<records, withdrawn>>
        /\ ~disturbed' => ~disturbed /\ \A h \in Handlers : ~At(h, "withdraw")
    BY <1>8 DEF Restart, At, Idle
  <2> SUFFICES ASSUME NEW s \in Stakers
               PROVE  /\ withdrawn'[s] + Awaited(s)' <= Recorded(s)'
                      /\ ~disturbed' => withdrawn'[s] + Awaited(s)' = Recorded(s)'
    BY DEF Balanced
  <2>2. Awaited(s)' = 0
    <3> DEFINE after == [h \in Handlers |->
                 IF At(h, "withdraw")' /\ handlers'[h].request.stakerId = s
                   THEN handlers'[h].request.amount ELSE 0]
    <3>1. \A h \in Handlers : after[h] = 0
      BY <2>1
    <3>2. Awaited(s)' = SumFunctionOnSet(after, Handlers)
      BY DEF Awaited, SumFunction
    <3> HIDE DEF after
    <3> QED BY <3>1, <3>2, HandlersFinite, SumOfZeros
  <2>3. Recorded(s)' = Recorded(s)
    BY <2>1 DEF Recorded
  <2>4. /\ withdrawn[s] \in Nat /\ Awaited(s) \in Nat /\ Recorded(s) \in Nat
        /\ ~disturbed' => Awaited(s) = 0
    BY <2>1, AwaitedSums, RecordedTyped DEF TypeOK
  <2>5. /\ withdrawn[s] + Awaited(s) <= Recorded(s)
        /\ ~disturbed => withdrawn[s] + Awaited(s) = Recorded(s)
    BY DEF Balanced
  <2> QED BY <2>1, <2>2, <2>3, <2>4, <2>5
<1>9. ASSUME UNCHANGED <<handlers, withdrawn, disturbed>>,
             \A s \in Stakers : Recorded(s)' = Recorded(s)
      PROVE  Balanced'
  BY <1>9 DEF Balanced, Awaited, At
<1>10. ASSUME NEW p \in Positions, NEW position \in Position, AddStakingPosition(p, position)
       PROVE  Balanced'
  BY <1>9, <1>10 DEF AddStakingPosition, Recorded
<1>11. CASE Day
  <2>1. /\ DOMAIN records' = DOMAIN records
        /\ \A i \in DOMAIN records :
             /\ records'[i].stakerId = records[i].stakerId
             /\ records'[i].amount = records[i].amount
    <3>1. ASSUME NEW i \in DOMAIN records
          PROVE  /\ records'[i].stakerId = records[i].stakerId
                 /\ records'[i].amount = records[i].amount
      <4>1. records'[i] = [records[i] EXCEPT !.age = Min2(@ + 1, RateLimitDays)]
        BY <1>11 DEF Day
      <4>2. records[i] \in Record
        BY DEF TypeOK
      <4> QED BY <4>1, <4>2 DEF Record
    <3> QED BY <1>11, <3>1 DEF Day
  <2>2. \A s \in Stakers : Recorded(s)' = Recorded(s)
    <3> SUFFICES ASSUME NEW s \in Stakers PROVE Recorded(s)' = Recorded(s)
      OBVIOUS
    <3> DEFINE before == [i \in DOMAIN records |->
                 IF records[i].stakerId = s THEN records[i].amount ELSE 0]
               after == [i \in DOMAIN records' |->
                 IF records'[i].stakerId = s THEN records'[i].amount ELSE 0]
    <3>1. after = before
      BY <2>1
    <3> HIDE DEF before, after
    <3> QED BY <3>1 DEF Recorded, before, after
  <2> QED BY <1>9, <1>11, <2>2 DEF Day
<1>12. CASE UNCHANGED vars
  BY <1>9, <1>12 DEF vars, Recorded
<1> QED
  BY <1>2, <1>3, <1>4, <1>5, <1>6, <1>7, <1>8, <1>10, <1>11, <1>12 DEF Next

LEMMA BalancedStart == Init => GrantsHold /\ Balanced
<1> SUFFICES ASSUME Init PROVE GrantsHold /\ Balanced
  OBVIOUS
<1>1. TypeOK /\ \A h \in Handlers : ~At(h, "withdraw") /\ ~Granted(h)
  BY UnstakesStart DEF Init, At, Idle, Granted
<1>2. ASSUME NEW s \in Stakers
      PROVE  Awaited(s) = 0 /\ Recorded(s) = 0 /\ withdrawn[s] = 0
  <2>1. Recorded(s) = 0
    <3> DEFINE amounts == [i \in DOMAIN records |->
                 IF records[i].stakerId = s THEN records[i].amount ELSE 0]
    <3>1. DOMAIN records = {}
      BY DEF Init
    <3>2. Recorded(s) = SumFunctionOnSet(amounts, {})
      BY <3>1 DEF Recorded, SumFunction
    <3> HIDE DEF amounts
    <3> QED BY <3>2, SumOfNone
  <2> QED BY <1>1, <2>1, AwaitedSums DEF Init
<1> QED BY <1>1, <1>2 DEF GrantsHold, Balanced

\* The table of unstakes and the withdrawals agree: nothing is withdrawn that is
\* not on record, and an unstake on record is withdrawn unless requests for one
\* position overlapped or a restart came before (initiateEmergencyUnstake,
\* processEmergencyWithdrawal).  A request that passed its checks keeps what it
\* was granted until it withdraws it, so that a withdrawal does not fail.
THEOREM WithdrawalsOnRecord == Spec => []RecordsMatchWithdrawals
<1>1. TypeOK /\ Balanced => RecordsMatchWithdrawals
  <2> SUFFICES ASSUME TypeOK, Balanced PROVE RecordsMatchWithdrawals
    OBVIOUS
  <2>1. WithdrawalsRecorded
    BY DEF Balanced, WithdrawalsRecorded
  <2>2. RecordsWithdrawn
    <3> SUFFICES ASSUME ~disturbed, \A h \in Handlers : At(h, "idle"), NEW s \in Stakers
                 PROVE  Recorded(s) = withdrawn[s]
      BY DEF RecordsWithdrawn
    <3>1. Awaited(s) = 0
      BY AwaitedSums DEF At
    <3> QED BY <3>1 DEF Balanced, TypeOK
  <2> QED BY <2>1, <2>2 DEF RecordsMatchWithdrawals
<1>2. Init => TypeOK /\ GrantsHold /\ Balanced
  BY UnstakesStart, BalancedStart
<1>3. TypeOK /\ GrantsHold /\ Balanced /\ [Next]_vars => (TypeOK /\ GrantsHold /\ Balanced)'
  BY TypeInductive, GrantsInductive, BalancedInductive
<1> QED BY <1>1, <1>2, <1>3, PTL DEF Spec


-----------------------------------------------------------------------------
(* Pages of a list (Pagination): every walk sees the rows nothing was done to. *)

\* The rows that come no later than i.
UpTo(rows, order, ids, i) == {j \in rows : j = i \/ Ahead(order, ids, j, i)}

\* A walk by cursors has returned the rows that are not beyond the cursor.
CursorBehind ==
  walk.pc = "cursor" =>
    \A i \in settled :
      IF walk.cursor = NoCursor THEN returned[i] = 0
      ELSE table[i] \notin walk.ties => returned[i] = IF i \in Beyond(walk) THEN 0 ELSE 1

\* How many places of the list a walk by page numbers has asked for
Asked ==
  walk.limit * IF walk.mode = "offset" /\ walk.pc = "count" THEN walk.page ELSE walk.page - 1

Place(i) == Cardinality(UpTo(Rows, walk.order, "ASC", i))

\* A walk by page numbers has returned the rows at the first n places.
BehindTo(n) ==
  ~moved /\ (ToldApart \/ walk.mode = "memory") =>
    \A i \in settled :
      /\ Place(i) <= n => returned[i] >= 1
      /\ ~grown => returned[i] = IF Place(i) <= n THEN 1 ELSE 0

PagesBehind == walk.pc \in {"page", "count"} => BehindTo(Asked)

\* Rows that are neither inserted nor removed are all settled, and a total that was
\* counted before a page is still their number.
Undisturbed ==
  walk # NoWalk /\ ~moved /\ ~grown =>
    /\ settled = Rows
    /\ walk.mode = "history" /\ walk.pc = "page" => walk.total = Cardinality(Rows)

ModesApart ==
  /\ walk.pc = "cursor" => walk.mode = "cursor"
  /\ walk.pc \in {"page", "count"} => walk.mode # "cursor" /\ walk.page >= 1

PagesInv ==
  WalksComplete /\ CursorBehind /\ PagesBehind /\ Undisturbed /\ ModesApart

-----------------------------------------------------------------------------
(* Slices of a sequence without repetitions *)

\* t is what s, of N elements of S, has after the first k: n of them, or the rest.
Slices(t, s, S, N, k, n) ==
  /\ t \in Seq(S)
  /\ Len(t) = IF k >= N THEN 0 ELSE IF k + n <= N THEN n ELSE N - k
  /\ \A j \in 1..Len(t) : k + j \in 1..N /\ t[j] = s[k + j]

LEMMA SliceHolds ==
  ASSUME NEW S, NEW N \in Nat, NEW s \in [1..N -> S], NEW k \in Nat, NEW n \in Nat
  PROVE  Slices(Slice(s, k, n), s, S, N, k, n)
<1> DEFINE end == Min({k + n, Len(s)})
<1>1. Len(s) = N /\ DOMAIN s = 1..N
  OBVIOUS
<1>2. end \in Nat /\ end = IF k + n <= N THEN k + n ELSE N
  <2>1. {k + n, Len(s)} \subseteq Nat /\ {k + n, Len(s)} # {}
    BY <1>1
  <2>2. end \in {k + n, Len(s)} /\ end <= k + n /\ end <= Len(s)
    BY <2>1, LeastOfSome
  <2> HIDE DEF end
  <2> QED BY <1>1, <2>1, <2>2
<1> HIDE DEF end
<1>3. Slice(s, k, n) = SubSeq(s, k + 1, end)
  BY DEF Slice, end
<1>4. \A i \in (k + 1)..end : s[i] \in S
  BY <1>2
<1>5. /\ SubSeq(s, k + 1, end) \in Seq(S)
      /\ Len(SubSeq(s, k + 1, end)) = IF k + 1 <= end THEN end - (k + 1) + 1 ELSE 0
      /\ \A i \in 1..(end - (k + 1) + 1) : SubSeq(s, k + 1, end)[i] = s[(k + 1) + i - 1]
  <2>1. k + 1 \in Int /\ end \in Int
    BY <1>2
  <2> QED BY <1>4, <2>1, SubSeqProperties
<1> DEFINE t == SubSeq(s, k + 1, end)
<1>6. t \in Seq(S) /\ Len(t) = IF k >= N THEN 0 ELSE IF k + n <= N THEN n ELSE N - k
  BY <1>2, <1>5
<1>7. ASSUME NEW j \in 1..Len(t) PROVE k + j \in 1..N /\ t[j] = s[k + j]
  <2>1. j \in 1..(end - (k + 1) + 1) /\ (k + 1) + j - 1 = k + j
    BY <1>2, <1>5
  <2>2. t[j] = s[k + j]
    BY <1>5, <2>1
  <2> QED BY <1>2, <2>1, <2>2
<1> QED BY <1>3, <1>6, <1>7 DEF Slices

\* What a slice of a sequence without repetitions holds is told by the places.
LEMMA SliceTakes ==
  ASSUME NEW S, NEW N \in Nat, NEW s \in [1..N -> S], NEW k \in Nat, NEW n \in Nat,
         \A i, j \in 1..N : i # j => s[i] # s[j],
         NEW m \in 1..N
  PROVE  s[m] \in Range(Slice(s, k, n)) <=> k < m /\ m <= k + n
<1> DEFINE t == Slice(s, k, n)
<1>0. Slices(t, s, S, N, k, n)
  BY SliceHolds
<1> HIDE DEF t
<1>1. /\ t \in Seq(S)
      /\ Len(t) = IF k >= N THEN 0 ELSE IF k + n <= N THEN n ELSE N - k
      /\ \A j \in 1..Len(t) : k + j \in 1..N /\ t[j] = s[k + j]
  BY <1>0 DEF Slices
<1>2. DOMAIN t = 1..Len(t) /\ Len(t) \in Nat
  BY <1>1
<1>3. ASSUME s[m] \in Range(t) PROVE k < m /\ m <= k + n
  <2>1. PICK j \in 1..Len(t) : s[m] = t[j]
    BY <1>2, <1>3 DEF Range
  <2>2. m = k + j
    BY <1>1, <2>1
  <2> QED BY <1>1, <1>2, <2>2
<1>4. ASSUME k < m, m <= k + n PROVE s[m] \in Range(t)
  <2>1. m - k \in 1..Len(t) /\ k + (m - k) = m
    BY <1>1, <1>4
  <2>2. t[m - k] = s[m]
    BY <1>1, <2>1
  <2> QED BY <1>2, <2>1, <2>2 DEF Range
<1> QED BY <1>3, <1>4 DEF t

\* A sequence without repetitions that is as long as a set is large holds all of it.
LEMMA HoldsAll ==
  ASSUME NEW S, IsFiniteSet(S), NEW s \in [1..Cardinality(S) -> S],
         \A i, j \in 1..Cardinality(S) : i # j => s[i] # s[j],
         NEW x \in S
  PROVE  \E m \in 1..Cardinality(S) : s[m] = x
<1>1. Cardinality(S) \in Nat
  BY FS_CardinalityType
<1>2. Cardinality(1..Cardinality(S)) = Cardinality(S)
  BY <1>1, FS_Interval
<1>3. s \in Injection(1..Cardinality(S), S)
  BY DEF Injection, IsInjective
<1>4. s \in Surjection(1..Cardinality(S), S)
  BY <1>2, <1>3, FS_Injection
<1> QED BY <1>4 DEF Surjection

-----------------------------------------------------------------------------
(* Rows in order *)

Ordered(rows) == IsFiniteSet(rows) /\ rows \subseteq Int /\ \A i \in rows : table[i] \in Int

LEMMA AheadIsAnOrder ==
  ASSUME NEW rows, Ordered(rows), NEW order, NEW ids,
         NEW i \in rows, NEW j \in rows, NEW k \in rows
  PROVE  /\ ~Ahead(order, ids, i, i)
         /\ Ahead(order, ids, i, j) \/ i = j \/ Ahead(order, ids, j, i)
         /\ Ahead(order, ids, i, j) => ~Ahead(order, ids, j, i)
         /\ Ahead(order, ids, i, j) /\ Ahead(order, ids, j, k) => Ahead(order, ids, i, k)
<1>1. /\ i \in Int /\ j \in Int /\ k \in Int
      /\ table[i] \in Int /\ table[j] \in Int /\ table[k] \in Int
  BY DEF Ordered
<1> QED BY <1>1 DEF Ahead, Before

\* The place of a row is its index in the sorted sequence.
LEMMA Placed ==
  ASSUME NEW rows, Ordered(rows), NEW order, NEW ids, NEW s \in SortedFully(rows, order, ids)
  PROVE  /\ Cardinality(rows) \in Nat
         /\ s \in [1..Cardinality(rows) -> rows]
         /\ \A i, j \in 1..Cardinality(rows) : i # j => s[i] # s[j]
         /\ \A i \in rows : \E m \in 1..Cardinality(rows) :
              i = s[m] /\ Cardinality(UpTo(rows, order, ids, i)) = m
<1> DEFINE N == Cardinality(rows)
<1>1. IsFiniteSet(rows) /\ N \in Nat
  BY FS_CardinalityType DEF Ordered
<1>2. /\ s \in [1..N -> rows]
      /\ \A i, j \in 1..N : i < j => Ahead(order, ids, s[i], s[j])
  BY DEF SortedFully
<1> HIDE DEF N
<1>3. ASSUME NEW i \in 1..N, NEW j \in 1..N, i # j PROVE s[i] # s[j]
  <2>1. s[i] \in rows /\ s[j] \in rows /\ (i < j \/ j < i)
    BY <1>1, <1>2, <1>3
  <2> QED BY <1>2, <2>1, AheadIsAnOrder
<1>4. ASSUME NEW i \in rows PROVE \E m \in 1..N : s[m] = i
  BY <1>1, <1>2, <1>3, HoldsAll DEF N
<1>5. ASSUME NEW m \in 1..N PROVE Cardinality(UpTo(rows, order, ids, s[m])) = m
  <2> DEFINE U == UpTo(rows, order, ids, s[m])
             f == [k \in 1..m |-> s[k]]
  <2>1. \A k \in 1..m : k \in 1..N /\ s[k] \in rows
    BY <1>1, <1>2
  <2>2. \A k \in 1..m : s[k] \in U
    BY <1>1, <1>2, <2>1 DEF UpTo
  <2>3. ASSUME NEW i \in U PROVE \E k \in 1..m : s[k] = i
    <3>1. i \in rows /\ (i = s[m] \/ Ahead(order, ids, i, s[m]))
      BY DEF UpTo
    <3>2. PICK k \in 1..N : s[k] = i
      BY <1>4, <3>1
    <3>3. s[m] \in rows /\ s[k] \in rows
      BY <1>2
    <3>4. ~ m < k
      <4> SUFFICES ASSUME m < k PROVE FALSE
        OBVIOUS
      <4>1. Ahead(order, ids, s[m], s[k])
        BY <1>2
      <4> QED BY <3>1, <3>2, <3>3, <4>1, AheadIsAnOrder
    <3> QED BY <1>1, <3>2, <3>4
  <2>4. f \in Bijection(1..m, U)
    <3>1. f \in [1..m -> U]
      BY <2>2
    <3>2. \A i, j \in 1..m : f[i] = f[j] => i = j
      BY <1>3, <2>1
    <3>3. \A i \in U : \E k \in 1..m : f[k] = i
      BY <2>3
    <3> QED BY <3>1, <3>2, <3>3 DEF Bijection, Injection, Surjection, IsInjective
  <2>5. m \in Nat /\ ExistsBijection(1..m, U)
    BY <1>1, <2>4 DEF ExistsBijection
  <2> QED BY <2>5, FS_CountingElements
<1> QED BY <1>1, <1>2, <1>3, <1>4, <1>5 DEF N

\* A slice of the rows in order returns those whose places are in it.
LEMMA SliceReturns ==
  ASSUME NEW rows, Ordered(rows), NEW order, NEW ids, NEW s \in SortedFully(rows, order, ids),
         NEW k \in Nat, NEW n \in Nat, NEW i \in rows
  PROVE  i \in Range(Slice(s, k, n)) <=> /\ k < Cardinality(UpTo(rows, order, ids, i))
                                         /\ Cardinality(UpTo(rows, order, ids, i)) <= k + n
<1>1. /\ Cardinality(rows) \in Nat
      /\ s \in [1..Cardinality(rows) -> rows]
      /\ \A a, b \in 1..Cardinality(rows) : a # b => s[a] # s[b]
  BY Placed
<1>2. PICK m \in 1..Cardinality(rows) :
         i = s[m] /\ Cardinality(UpTo(rows, order, ids, i)) = m
  BY Placed
<1>3. s[m] \in Range(Slice(s, k, n)) <=> k < m /\ m <= k + n
  BY <1>1, SliceTakes
<1> QED BY <1>2, <1>3

\* The page made of an answer of up to limit + 1 rows: the first limit of them.
PageOf(page, rows, s, N, limit) ==
  /\ Len(rows) > limit <=> N > limit
  /\ N > limit => Last(page) = s[limit]
  /\ \A m \in 1..N : s[m] \in Range(page) <=> m <= limit
  /\ \A x \in Range(page) : \E m \in 1..N : x = s[m]

LEMMA PageTakes ==
  ASSUME NEW S, NEW N \in Nat, NEW s \in [1..N -> S], NEW limit \in Nat \ {0},
         \A i, j \in 1..N : i # j => s[i] # s[j]
  PROVE  PageOf(Slice(Slice(s, 0, limit + 1), 0, limit), Slice(s, 0, limit + 1), s, N, limit)
<1> DEFINE rows == Slice(s, 0, limit + 1)
           page == Slice(rows, 0, limit)
<1>1. Slices(rows, s, S, N, 0, limit + 1)
  BY SliceHolds
<1> HIDE DEF rows
<1>2. /\ rows \in Seq(S)
      /\ Len(rows) = IF limit + 1 <= N THEN limit + 1 ELSE N
      /\ \A j \in 1..Len(rows) : j \in 1..N /\ rows[j] = s[j]
  BY <1>1 DEF Slices
<1> DEFINE n == Len(rows)
<1>3. n \in Nat /\ rows \in [1..n -> S]
  BY <1>2
<1> HIDE DEF n
<1>4. Slices(page, rows, S, n, 0, limit)
  BY <1>3, SliceHolds
<1>5. /\ n = IF limit + 1 <= N THEN limit + 1 ELSE N
      /\ \A j \in 1..n : j \in 1..N /\ rows[j] = s[j]
  BY <1>2 DEF n
<1>6. \A i, j \in 1..n : i # j => rows[i] # rows[j]
  BY <1>5
<1>7. \A m \in 1..n : rows[m] \in Range(page) <=> 0 < m /\ m <= 0 + limit
  BY <1>3, <1>6, SliceTakes
<1> HIDE DEF page
<1>8. /\ page \in Seq(S)
      /\ Len(page) = IF limit <= n THEN limit ELSE n
      /\ \A j \in 1..Len(page) : j \in 1..n /\ page[j] = rows[j]
  BY <1>3, <1>4 DEF Slices
<1>9. N > limit => Last(page) = s[limit]
  <2> SUFFICES ASSUME N > limit PROVE Last(page) = s[limit]
    OBVIOUS
  <2>1. Len(page) = limit /\ limit \in 1..n
    BY <1>3, <1>5, <1>8
  <2>2. page[limit] = rows[limit] /\ rows[limit] = s[limit]
    BY <1>5, <1>8, <2>1
  <2> QED BY <2>1, <2>2 DEF Last
<1>10. ASSUME NEW m \in 1..N PROVE s[m] \in Range(page) <=> m <= limit
  <2>1. CASE m \in 1..n
    BY <1>5, <1>7, <2>1
  <2>2. CASE m \notin 1..n
    <3>1. ~ m <= limit
      BY <1>3, <1>5, <2>2
    <3>2. DOMAIN page = 1..Len(page)
      BY <1>8
    <3>3. ASSUME NEW j \in DOMAIN page PROVE page[j] # s[m]
      <4>1. j \in 1..n /\ page[j] = s[j] /\ j \in 1..N
        BY <1>5, <1>8, <3>2, <3>3
      <4>2. j # m
        BY <2>2, <4>1
      <4> QED BY <4>1, <4>2
    <3> QED BY <3>1, <3>3 DEF Range
  <2> QED BY <2>1, <2>2
<1>11. Len(rows) > limit <=> N > limit
  BY <1>3, <1>5 DEF n
<1>12. \A x \in Range(page) : \E m \in 1..N : x = s[m]
  <2>1. DOMAIN page = 1..Len(page)
    BY <1>8
  <2>2. \A j \in DOMAIN page : j \in 1..N /\ page[j] = s[j]
    BY <1>5, <1>8, <2>1
  <2> QED BY <2>2 DEF Range
<1> QED BY <1>9, <1>10, <1>11, <1>12 DEF page, rows, PageOf

-----------------------------------------------------------------------------
(* Types *)

LEMMA RowsOrdered ==
  ASSUME PagesTypeOK
  PROVE  /\ Ordered(Rows) /\ Rows \subseteq Ids /\ NoCursor.id \notin Ids
         /\ Cardinality(Rows) \in 0..MaxRows
         /\ \A S \in SUBSET Rows : Ordered(S)
<1>1. Rows \subseteq 1..lastId /\ lastId \in 0..MaxRows /\ MaxRows \in Nat
  BY PaginationAssumption DEF PagesTypeOK, Rows
<1>2. Rows \subseteq Ids /\ 1..lastId \subseteq Int
  BY <1>1 DEF Ids
<1>3. IsFiniteSet(1..lastId) /\ Cardinality(1..lastId) = lastId
  BY <1>1, FS_Interval
<1>4. IsFiniteSet(Rows) /\ Cardinality(Rows) <= lastId /\ Cardinality(Rows) \in Nat
  BY <1>1, <1>3, FS_Subset, FS_CardinalityType
<1>5. \A i \in Rows : table[i] \in Int
  BY PaginationAssumption DEF PagesTypeOK
<1>6. Ordered(Rows)
  BY <1>1, <1>2, <1>4, <1>5 DEF Ordered
<1>7. ASSUME NEW S \in SUBSET Rows PROVE Ordered(S)
  BY <1>4, <1>6, FS_Subset DEF Ordered
<1> QED BY <1>1, <1>2, <1>4, <1>6, <1>7 DEF NoCursor, Ids

\* What a page does to the counts
LEMMA ReturnsTypes ==
  ASSUME returned \in [Ids -> Nat], NEW rows, Returns(rows)
  PROVE  /\ returned' \in [Ids -> Nat]
         /\ \A i \in Ids : returned'[i] = IF i \in Range(rows) THEN returned[i] + 1 ELSE returned[i]
BY DEF Returns

LEMMA WalkNumbers ==
  ASSUME walk \in Walks
  PROVE  walk.page \in Nat /\ walk.limit \in Nat \ {0} /\ walk.total \in Nat
<1>1. walk.page \in Nat /\ walk.limit \in Limits /\ walk.total \in 0..MaxRows
  BY DEF Walks
<1>2. \A l \in Limits : l \in Nat \ {0}
  BY PaginationAssumption
<1>3. 0..MaxRows \subseteq Nat
  BY PaginationAssumption
<1>4. walk.limit \in Nat \ {0}
  BY <1>1, <1>2
<1> QED BY <1>1, <1>3, <1>4

LEMMA TurnedTypes ==
  ASSUME NEW w \in Walks, NEW total, NEW pc \in {"page", "count"}
  PROVE  Turned(w, total, pc) \in Walks
<1>1. w.page + 1 \in Nat
  BY DEF Walks
<1> QED BY <1>1 DEF Turned, Walks

\* Sorted gives each row once.
LEMMA SortedOnce ==
  ASSUME NEW order, NEW s \in Sorted(order)
  PROVE  /\ s \in [1..Cardinality(Rows) -> Rows]
         /\ \A i, j \in 1..Cardinality(Rows) :
              i < j => s[i] # s[j] /\ ~Before(order, table[s[j]], table[s[i]])
BY DEF Sorted

\* What an answer makes of a walk by cursor
LEMMA FollowedTypes ==
  ASSUME PagesTypeOK, walk \in Walks, NEW R \in SUBSET Rows,
         NEW s \in [1..Cardinality(R) -> R],
         \A i, j \in 1..Cardinality(R) : i # j => s[i] # s[j]
  PROVE  LET w == Followed(walk, Slice(s, 0, walk.limit + 1)) IN
         /\ w \in Walks
         /\ IF Cardinality(R) > walk.limit
              THEN /\ walk.limit \in 1..Cardinality(R)
                   /\ w = [walk EXCEPT !.pc = "cursor",
                             !.cursor = [sortValue |-> table[s[walk.limit]],
                                         id |-> s[walk.limit]]]
              ELSE w = [walk EXCEPT !.pc = "done"]
<1> DEFINE N == Cardinality(R)
           rows == Slice(s, 0, walk.limit + 1)
           page == Slice(rows, 0, walk.limit)
<1>1. N \in Nat /\ walk.limit \in Nat \ {0}
  <2>1. IsFiniteSet(R)
    BY RowsOrdered DEF Ordered
  <2> QED BY <2>1, FS_CardinalityType, PaginationAssumption DEF Walks
<1> HIDE DEF N
<1>2. s \in [1..N -> R] /\ \A i, j \in 1..N : i # j => s[i] # s[j]
  BY DEF N
<1>3. PageOf(page, rows, s, N, walk.limit)
  BY <1>1, <1>2, PageTakes
<1>4. Followed(walk, rows) =
        IF Len(rows) > walk.limit
          THEN [walk EXCEPT !.pc = "cursor",
                  !.cursor = [sortValue |-> table[Last(page)], id |-> Last(page)]]
          ELSE [walk EXCEPT !.pc = "done"]
  BY DEF Followed
<1> HIDE DEF rows, page
<1>5. CASE N > walk.limit
  <2>1. walk.limit \in 1..N
    BY <1>1, <1>5
  <2>2. s[walk.limit] \in Rows /\ s[walk.limit] \in Ids /\ table[s[walk.limit]] \in Keys
    BY <1>2, <2>1, RowsOrdered DEF PagesTypeOK
  <2>3. Followed(walk, rows) =
          [walk EXCEPT !.pc = "cursor",
             !.cursor = [sortValue |-> table[s[walk.limit]], id |-> s[walk.limit]]]
    BY <1>3, <1>4, <1>5 DEF PageOf
  <2>4. Followed(walk, rows) \in Walks
    <3>1. [sortValue |-> table[s[walk.limit]], id |-> s[walk.limit]] \in Cursors
      BY <2>2 DEF Cursors
    <3> QED BY <2>3, <3>1 DEF Walks
  <2> QED BY <1>5, <2>1, <2>3, <2>4 DEF N, rows
<1>6. CASE ~ N > walk.limit
  <2>1. Followed(walk, rows) = [walk EXCEPT !.pc = "done"]
    BY <1>3, <1>4, <1>6 DEF PageOf
  <2>2. Followed(walk, rows) \in Walks
    BY <2>1 DEF Walks
  <2> QED BY <1>6, <2>1, <2>2 DEF N, rows
<1> QED BY <1>5, <1>6

LEMMA PagesTypeStep ==
  ASSUME PagesTypeOK, [PagesNext]_pagesVars
  PROVE  PagesTypeOK'
<1> USE PaginationAssumption
<1>1. ASSUME NEW key \in Keys, CreateTrigger(key) PROVE PagesTypeOK'
  <2>1. /\ lastId' = lastId + 1 /\ lastId' \in 0..MaxRows
        /\ table' = [i \in Rows \union {lastId'} |-> IF i = lastId' THEN key ELSE table[i]]
    BY <1>1 DEF CreateTrigger, PagesTypeOK
  <2>2. DOMAIN table' = Rows \union {lastId'}
    BY <2>1
  <2>3. DOMAIN table' \subseteq 1..lastId' /\ table' \in [DOMAIN table' -> Keys]
    BY <2>1, <2>2 DEF PagesTypeOK, Rows
  <2>4. Rows' = DOMAIN table'
    BY DEF Rows
  <2>5. settled' \subseteq Rows'
    BY <1>1, <2>2, <2>4 DEF CreateTrigger, PagesTypeOK
  <2>6. (walk = NoWalk \/ walk \in Walks)' /\ returned' \in [Ids -> Nat] /\ grown' \in BOOLEAN
        /\ moved' \in BOOLEAN
    BY <1>1 DEF CreateTrigger, PagesTypeOK
  <2> QED BY <2>1, <2>3, <2>4, <2>5, <2>6 DEF PagesTypeOK
<1>2. ASSUME NEW i \in Ids, RemoveTrigger(i) PROVE PagesTypeOK'
  BY <1>2 DEF RemoveTrigger, PagesTypeOK, Rows
<1>3. ASSUME NEW i \in Ids, NEW key \in Keys, UpdateTrigger(i, key) PROVE PagesTypeOK'
  BY <1>3 DEF UpdateTrigger, PagesTypeOK, Rows
<1>4. ASSUME NEW mode \in Modes, NEW order \in Orders, NEW limit \in Limits,
             Begin(mode, order, limit)
      PROVE  PagesTypeOK'
  <2>1. Start(mode, order, limit) \in Walks
    <3>1. NoCursor \in Cursors
      BY DEF Cursors
    <3> QED BY <3>1 DEF Start, Walks
  <2>2. (walk \in Walks)' /\ returned' \in [Ids -> Nat]
    BY <1>4, <2>1 DEF Begin
  <2>3. settled' = Rows /\ Rows' = Rows /\ table' = table /\ lastId' = lastId
        /\ grown' = FALSE /\ moved' = FALSE
    BY <1>4 DEF Begin, Rows
  <2> QED BY <2>2, <2>3 DEF PagesTypeOK
<1>5. CASE FirstPage \/ NextPage
  <2>1. walk \in Walks
    BY <1>5 DEF FirstPage, NextPage, PagesTypeOK, NoWalk
  <2>2. UNCHANGED <<table, lastId, settled, grown, moved>>
    BY <1>5 DEF FirstPage, NextPage
  <2>3. returned' \in [Ids -> Nat]
    <3>1. \E rows : Returns(rows)
      BY <1>5 DEF FirstPage, NextPage
    <3> QED BY <3>1, ReturnsTypes DEF PagesTypeOK
  <2>4. CASE FirstPage
    <3>1. PICK s \in Sorted(walk.order) :
            walk' = [Followed(walk, Slice(s, 0, walk.limit + 1)) EXCEPT
                       !.ties = IF Followed(walk, Slice(s, 0, walk.limit + 1)).pc = "done" THEN {}
                                ELSE {Followed(walk, Slice(s, 0, walk.limit + 1)).cursor.sortValue}]
      BY <2>4 DEF FirstPage
    <3> DEFINE w == Followed(walk, Slice(s, 0, walk.limit + 1))
    <3>2. Cardinality(Rows) \in Nat
      BY RowsOrdered
    <3>3. /\ s \in [1..Cardinality(Rows) -> Rows]
          /\ \A i, j \in 1..Cardinality(Rows) : i # j => s[i] # s[j]
      BY <3>2, SortedOnce
    <3>4. /\ w \in Walks
          /\ IF Cardinality(Rows) > walk.limit
               THEN /\ walk.limit \in 1..Cardinality(Rows)
                    /\ w = [walk EXCEPT !.pc = "cursor",
                              !.cursor = [sortValue |-> table[s[walk.limit]],
                                          id |-> s[walk.limit]]]
               ELSE w = [walk EXCEPT !.pc = "done"]
      BY <2>1, <3>3, FollowedTypes
    <3> HIDE DEF w
    <3>5. walk' = [w EXCEPT !.ties = IF w.pc = "done" THEN {} ELSE {w.cursor.sortValue}]
      BY <3>1 DEF w
    <3>6. w.pc # "done" => w.cursor.sortValue \in Keys
      <4> SUFFICES ASSUME w.pc # "done" PROVE w.cursor.sortValue \in Keys
        OBVIOUS
      <4>1. Cardinality(Rows) > walk.limit
        BY <2>1, <3>4 DEF Walks
      <4>2. s[walk.limit] \in Rows
        BY <3>3, <3>4, <4>1
      <4>3. w.cursor.sortValue = table[s[walk.limit]]
        <5>1. w = [walk EXCEPT !.pc = "cursor",
                     !.cursor = [sortValue |-> table[s[walk.limit]], id |-> s[walk.limit]]]
          BY <3>4, <4>1
        <5>2. w.cursor = [sortValue |-> table[s[walk.limit]], id |-> s[walk.limit]]
          BY <2>1, <5>1 DEF Walks
        <5> QED BY <5>2
      <4> QED BY <4>2, <4>3 DEF PagesTypeOK
    <3>7. (IF w.pc = "done" THEN {} ELSE {w.cursor.sortValue}) \in SUBSET Keys
      BY <3>6
    <3>8. walk' \in Walks
      BY <3>4, <3>5, <3>7 DEF Walks
    <3> QED BY <2>2, <2>3, <3>8 DEF PagesTypeOK, Rows
  <2>5. CASE NextPage
    <3>1. PICK s \in SortedById(walk.order, Beyond(walk)) :
            walk' = Followed(walk, Slice(s, 0, walk.limit + 1))
      BY <2>5 DEF NextPage
    <3>2. Beyond(walk) \in SUBSET Rows /\ Ordered(Beyond(walk))
      BY RowsOrdered DEF Beyond
    <3>3. /\ s \in [1..Cardinality(Beyond(walk)) -> Beyond(walk)]
          /\ \A i, j \in 1..Cardinality(Beyond(walk)) : i # j => s[i] # s[j]
      BY <3>2, Placed DEF SortedById
    <3>4. walk' \in Walks
      BY <2>1, <3>1, <3>2, <3>3, FollowedTypes
    <3> QED BY <2>2, <2>3, <3>4 DEF PagesTypeOK, Rows
  <2> QED BY <1>5, <2>4, <2>5
<1>6. CASE OffsetPage \/ OffsetCount \/ HistoryCount \/ HistoryPage \/ MemoryPage
  <2>1. walk \in Walks
    BY <1>6 DEF OffsetPage, OffsetCount, HistoryCount, HistoryPage, MemoryPage, PagesTypeOK, NoWalk
  <2>2. UNCHANGED <<table, lastId, settled, grown, moved>>
    BY <1>6 DEF OffsetPage, OffsetCount, HistoryCount, HistoryPage, MemoryPage
  <2>3. returned' \in [Ids -> Nat]
    <3>1. returned' = returned \/ \E rows : Returns(rows)
      BY <1>6 DEF OffsetPage, OffsetCount, HistoryCount, HistoryPage, MemoryPage
    <3> QED BY <3>1, ReturnsTypes DEF PagesTypeOK
  <2>4. walk' \in Walks
    <3>1. CASE OffsetPage
      BY <2>1, <3>1 DEF OffsetPage, Walks
    <3>2. CASE HistoryCount
      BY <2>1, <3>2, RowsOrdered DEF HistoryCount, Walks
    <3>3. CASE OffsetCount \/ HistoryPage \/ MemoryPage
      BY <2>1, <3>3, TurnedTypes DEF OffsetCount, HistoryPage, MemoryPage
    <3> QED BY <1>6, <3>1, <3>2, <3>3
  <2> QED BY <2>2, <2>3, <2>4 DEF PagesTypeOK, Rows
<1>7. CASE UNCHANGED pagesVars
  BY <1>7 DEF pagesVars, PagesTypeOK, Rows
<1> QED BY <1>1, <1>2, <1>3, <1>4, <1>5, <1>6, <1>7 DEF PagesNext

-----------------------------------------------------------------------------
(* Steps of the writers and of the client *)

LEMMA CreateTriggerKeeps ==
  ASSUME PagesInv, PagesTypeOK', NEW key \in Keys, CreateTrigger(key)
  PROVE  PagesInv'
<1>1. PagesTypeOK
  BY DEF PagesInv, WalksComplete
<1>2. /\ table' = [i \in Rows \union {lastId'} |-> IF i = lastId' THEN key ELSE table[i]]
      /\ lastId' = lastId + 1 /\ grown' = TRUE
      /\ UNCHANGED <<walk, returned, settled, moved>>
  BY DEF CreateTrigger
<1>3. lastId' \notin Rows
  BY <1>1, <1>2 DEF PagesTypeOK, Rows
<1>4. Rows' = Rows \union {lastId'} /\ \A i \in Rows : table'[i] = table[i]
  BY <1>2, <1>3 DEF Rows
<1>5. settled' = settled /\ settled \subseteq Rows
  BY <1>1, <1>2 DEF PagesTypeOK
<1>6. ToldApart' => ToldApart
  BY <1>4 DEF ToldApart
<1>7. ASSUME NEW i \in settled PROVE Place(i) <= Place(i)'
  <2> DEFINE U == UpTo(Rows, walk.order, "ASC", i)
             V == UpTo(Rows, walk.order, "ASC", i)'
  <2>1. U \subseteq V
    BY <1>2, <1>4, <1>5 DEF UpTo, Ahead
  <2>2. IsFiniteSet(V)
    <3>1. V \subseteq Rows'
      BY DEF UpTo
    <3>2. IsFiniteSet(Rows)
      BY <1>1, RowsOrdered DEF Ordered
    <3>3. IsFiniteSet(Rows \union {lastId'})
      BY <3>2, FS_AddElement
    <3> QED BY <1>4, <3>1, <3>3, FS_Subset
  <2>3. Cardinality(U) <= Cardinality(V)
    <3> HIDE DEF U, V
    <3> QED BY <2>1, <2>2, FS_Subset
  <2>4. Place(i) = Cardinality(U) /\ Place(i)' = Cardinality(V)
    BY <1>2 DEF Place
  <2> QED BY <2>3, <2>4
<1>8. \A i \in settled : i \in Beyond(walk)' <=> i \in Beyond(walk)
  BY <1>2, <1>4, <1>5 DEF Beyond
<1>9. CursorWalkComplete'
  BY <1>2, <1>4, <1>5 DEF CursorWalkComplete, PagesInv, WalksComplete
<1>10. OffsetWalkComplete'
  <2>1. OffsetWalkComplete
    BY DEF PagesInv, WalksComplete
  <2> SUFFICES ASSUME walk.pc = "done", walk.mode # "cursor", ~moved,
                      ToldApart \/ walk.mode = "memory", NEW i \in settled
               PROVE  returned[i] >= 1 \/ walk.mode = "history"
    BY <1>2, <1>5, <1>6 DEF OffsetWalkComplete
  <2> QED BY <2>1 DEF OffsetWalkComplete
<1>11. CursorBehind'
  BY <1>2, <1>4, <1>5, <1>8 DEF CursorBehind, PagesInv
<1>12. PagesBehind'
  <2>1. PagesBehind
    BY DEF PagesInv
  <2>2. Asked' = Asked
    BY <1>2 DEF Asked
  <2> SUFFICES ASSUME walk.pc \in {"page", "count"} PROVE BehindTo(Asked)'
    BY <1>2 DEF PagesBehind
  <2>3. BehindTo(Asked)
    BY <2>1 DEF PagesBehind
  <2> SUFFICES ASSUME ~moved, ToldApart \/ walk.mode = "memory", NEW i \in settled,
                      Place(i)' <= Asked'
               PROVE  returned[i] >= 1
    BY <1>2, <1>5, <1>6 DEF BehindTo
  <2>4. Place(i) \in Nat /\ Place(i)' \in Nat /\ Asked \in Int
    <3>1. walk.page \in Int /\ walk.limit \in Int
      <4>1. walk \in Walks
        BY <1>1 DEF PagesTypeOK, NoWalk
      <4> QED BY <4>1, WalkNumbers
    <3>2. Ordered(Rows) /\ UpTo(Rows, walk.order, "ASC", i) \in SUBSET Rows
      BY <1>1, RowsOrdered DEF UpTo
    <3>3. Place(i) \in Nat
      BY <3>2, FS_Subset, FS_CardinalityType DEF Place, Ordered
    <3>4. IsFiniteSet(Rows')
      BY <1>4, <3>2, FS_AddElement DEF Ordered
    <3>5. UpTo(Rows, walk.order, "ASC", i)' \in SUBSET Rows'
      BY DEF UpTo
    <3>6. Place(i)' \in Nat
      BY <3>4, <3>5, FS_Subset, FS_CardinalityType DEF Place
    <3> QED BY <3>1, <3>3, <3>6 DEF Asked
  <2>5. Place(i) <= Asked
    BY <1>7, <2>2, <2>4
  <2> QED BY <2>3, <2>5 DEF BehindTo
<1>13. Undisturbed' /\ ModesApart'
  BY <1>2 DEF Undisturbed, ModesApart, PagesInv
<1> QED BY <1>9, <1>10, <1>11, <1>12, <1>13 DEF PagesInv, WalksComplete

LEMMA ChangesKeep ==
  ASSUME PagesInv, PagesTypeOK', NEW i \in Ids,
         RemoveTrigger(i) \/ \E key \in Keys : UpdateTrigger(i, key)
  PROVE  PagesInv'
<1>1. /\ settled' = settled \ {i} /\ moved' = TRUE
      /\ UNCHANGED <<walk, returned, grown>>
  BY DEF RemoveTrigger, UpdateTrigger
<1>2. settled \subseteq Rows
  BY DEF PagesInv, WalksComplete, PagesTypeOK
<1>3. \A k \in settled' : k \in Rows' /\ table'[k] = table[k]
  BY <1>1, <1>2 DEF RemoveTrigger, UpdateTrigger, Rows
<1>4. \A k \in settled' : k \in Beyond(walk)' <=> k \in Beyond(walk)
  BY <1>1, <1>2, <1>3 DEF Beyond
<1>5. CursorWalkComplete'
  BY <1>1, <1>3 DEF CursorWalkComplete, PagesInv, WalksComplete
<1>6. CursorBehind'
  BY <1>1, <1>3, <1>4 DEF CursorBehind, PagesInv
<1>7. OffsetWalkComplete' /\ PagesBehind' /\ Undisturbed'
  BY <1>1 DEF OffsetWalkComplete, PagesBehind, BehindTo, Undisturbed
<1>8. ModesApart'
  BY <1>1 DEF ModesApart, PagesInv
<1> QED BY <1>5, <1>6, <1>7, <1>8 DEF PagesInv, WalksComplete

\* A row is at a place of its own.
LEMMA PlaceBounds ==
  ASSUME PagesTypeOK, NEW order, NEW i \in Rows
  PROVE  /\ Cardinality(UpTo(Rows, order, "ASC", i)) \in Nat
         /\ Cardinality(UpTo(Rows, order, "ASC", i)) >= 1
         /\ Cardinality(UpTo(Rows, order, "ASC", i)) <= Cardinality(Rows)
<1> DEFINE U == UpTo(Rows, order, "ASC", i)
<1>1. IsFiniteSet(Rows) /\ U \in SUBSET Rows /\ {i} \in SUBSET U
  BY RowsOrdered DEF UpTo, Ordered
<1> HIDE DEF U
<1>2. IsFiniteSet(U) /\ Cardinality(U) <= Cardinality(Rows) /\ Cardinality(U) \in Nat
  BY <1>1, FS_Subset, FS_CardinalityType
<1>3. Cardinality({i}) <= Cardinality(U) /\ Cardinality({i}) = 1
  BY <1>1, <1>2, FS_Subset, FS_Singleton
<1> QED BY <1>2, <1>3 DEF U

LEMMA BeginKeeps ==
  ASSUME PagesInv, PagesTypeOK', NEW mode \in Modes, NEW order \in Orders, NEW limit \in Limits,
         Begin(mode, order, limit)
  PROVE  PagesInv'
<1>1. /\ walk' = Start(mode, order, limit) /\ returned' = [i \in Ids |-> 0]
      /\ settled' = Rows /\ table' = table /\ Rows' = Rows
  BY DEF Begin, Rows
<1>2. /\ walk'.pc = (IF mode = "cursor" THEN "cursor" ELSE IF mode = "history" THEN "count"
                                                     ELSE "page")
      /\ walk'.mode = mode /\ walk'.limit = limit /\ walk'.cursor = NoCursor /\ walk'.page = 1
  BY <1>1 DEF Start
<1>3. settled' \subseteq Ids
  BY <1>1, RowsOrdered DEF PagesInv, WalksComplete
<1>4. CursorWalkComplete' /\ OffsetWalkComplete'
  BY <1>2 DEF CursorWalkComplete, OffsetWalkComplete
<1>5. CursorBehind'
  BY <1>1, <1>2, <1>3 DEF CursorBehind
<1>6. PagesBehind'
  <2>1. limit \in Nat
    BY PaginationAssumption
  <2>2. CASE mode # "cursor"
    <3>1. Asked' = limit * (1 - 1)
      BY <1>2, <2>2 DEF Asked
    <3>2. Asked' = 0
      BY <2>1, <3>1
    <3>3. \A i \in settled' : Place(i)' \in Nat /\ Place(i)' >= 1
      <4>1. ASSUME NEW i \in Rows PROVE Place(i)' \in Nat /\ Place(i)' >= 1
        <5>1. Place(i)' = Cardinality(UpTo(Rows, order, "ASC", i))
          <6>1. walk'.order = order
            BY <1>1 DEF Start
          <6> QED BY <1>1, <6>1 DEF Place, UpTo, Ahead
        <5> QED BY <5>1, PlaceBounds DEF PagesInv, WalksComplete
      <4> QED BY <1>1, <4>1
    <3> QED BY <1>1, <1>3, <3>2, <3>3 DEF PagesBehind, BehindTo
  <2>3. CASE mode = "cursor"
    BY <1>2, <2>3 DEF PagesBehind
  <2> QED BY <2>2, <2>3
<1>7. Undisturbed'
  BY <1>1, <1>2 DEF Undisturbed
<1>8. ModesApart'
  BY <1>2 DEF ModesApart
<1> QED BY <1>4, <1>5, <1>6, <1>7, <1>8 DEF PagesInv, WalksComplete

-----------------------------------------------------------------------------
(* Pages by cursor *)

\* What an answer of up to limit + 1 of the rows in R, in the order of s, does.
LEMMA CursorPage ==
  ASSUME PagesTypeOK, walk \in Walks, NEW R \in SUBSET Rows,
         NEW s \in [1..Cardinality(R) -> R],
         \A i, j \in 1..Cardinality(R) : i # j => s[i] # s[j],
         Returns(Slice(Slice(s, 0, walk.limit + 1), 0, walk.limit))
  PROVE  /\ \A i \in R : \E m \in 1..Cardinality(R) :
              i = s[m] /\ returned'[i] = IF m <= walk.limit THEN returned[i] + 1 ELSE returned[i]
         /\ \A i \in Ids \ R : returned'[i] = returned[i]
<1> DEFINE N == Cardinality(R)
           page == Slice(Slice(s, 0, walk.limit + 1), 0, walk.limit)
<1>1. IsFiniteSet(R) /\ R \subseteq Ids
  BY RowsOrdered DEF Ordered
<1>2. N \in Nat /\ walk.limit \in Nat \ {0}
  BY <1>1, FS_CardinalityType, WalkNumbers
<1>3. \A i \in R : \E m \in 1..N : s[m] = i
  BY <1>1, HoldsAll
<1> HIDE DEF N
<1>4. s \in [1..N -> R] /\ \A i, j \in 1..N : i # j => s[i] # s[j]
  BY DEF N
<1>5. PageOf(page, Slice(s, 0, walk.limit + 1), s, N, walk.limit)
  BY <1>2, <1>4, PageTakes
<1>6. \A i \in Ids : returned'[i] = IF i \in Range(page) THEN returned[i] + 1 ELSE returned[i]
  BY ReturnsTypes DEF PagesTypeOK
<1> HIDE DEF page
<1>7. ASSUME NEW i \in R
      PROVE  \E m \in 1..N :
               i = s[m] /\ returned'[i] = IF m <= walk.limit THEN returned[i] + 1 ELSE returned[i]
  <2>1. PICK m \in 1..N : s[m] = i
    BY <1>3
  <2>2. i \in Range(page) <=> m <= walk.limit
    BY <1>5, <2>1 DEF PageOf
  <2> QED BY <1>1, <1>6, <2>1, <2>2
<1>8. \A i \in Ids \ R : i \notin Range(page)
  <2>1. \A x \in Range(page) : \E m \in 1..N : x = s[m]
    BY <1>5 DEF PageOf
  <2>2. \A m \in 1..N : s[m] \in R
    BY <1>4
  <2> QED BY <2>1, <2>2
<1> QED BY <1>6, <1>7, <1>8 DEF N

LEMMA FirstPageKeeps ==
  ASSUME PagesInv, PagesTypeOK', FirstPage
  PROVE  PagesInv'
<1>1. PagesTypeOK
  BY DEF PagesInv, WalksComplete
<1>2. /\ walk \in Walks /\ walk.pc = "cursor" /\ walk.cursor = NoCursor /\ walk.mode = "cursor"
      /\ UNCHANGED <<table, lastId, settled, grown, moved>>
  BY <1>1 DEF FirstPage, PagesTypeOK, NoWalk, PagesInv, ModesApart
<1> DEFINE N == Cardinality(Rows)
           limit == walk.limit
<1>3. PICK s \in Sorted(walk.order) :
        /\ walk' = [Followed(walk, Slice(s, 0, limit + 1)) EXCEPT
                      !.ties = IF Followed(walk, Slice(s, 0, limit + 1)).pc = "done" THEN {}
                               ELSE {Followed(walk, Slice(s, 0, limit + 1)).cursor.sortValue}]
        /\ Returns(Slice(Slice(s, 0, limit + 1), 0, limit))
  BY DEF FirstPage
<1>4. N \in Nat /\ limit \in Nat \ {0} /\ settled \subseteq Rows /\ Rows \subseteq Ids
  BY <1>1, <1>2, RowsOrdered, WalkNumbers DEF PagesTypeOK
<1>5. /\ s \in [1..N -> Rows]
      /\ \A i, j \in 1..N : i # j => s[i] # s[j]
      /\ \A i, j \in 1..N : i < j => ~Before(walk.order, table[s[j]], table[s[i]])
  BY <1>4, SortedOnce
<1>6. \A i \in Rows : \E m \in 1..N :
        i = s[m] /\ returned'[i] = IF m <= limit THEN returned[i] + 1 ELSE returned[i]
  <2>1. Rows \in SUBSET Rows /\ Returns(Slice(Slice(s, 0, walk.limit + 1), 0, walk.limit))
    BY <1>3
  <2>2. /\ s \in [1..Cardinality(Rows) -> Rows]
        /\ \A i, j \in 1..Cardinality(Rows) : i # j => s[i] # s[j]
    BY <1>5
  <2> QED BY <1>1, <1>2, <2>1, <2>2, CursorPage
<1>7. \A i \in settled : returned[i] = 0
  BY <1>2 DEF PagesInv, CursorBehind
<1> DEFINE w == Followed(walk, Slice(s, 0, limit + 1))
<1>8. /\ w \in Walks
      /\ IF N > limit
           THEN /\ limit \in 1..N
                /\ w = [walk EXCEPT !.pc = "cursor",
                          !.cursor = [sortValue |-> table[s[limit]], id |-> s[limit]]]
           ELSE w = [walk EXCEPT !.pc = "done"]
  BY <1>1, <1>2, <1>5, FollowedTypes
<1>9. walk' = [w EXCEPT !.ties = IF w.pc = "done" THEN {} ELSE {w.cursor.sortValue}]
  BY <1>3
<1> HIDE DEF w, N
<1>10. CASE N > limit
  <2> DEFINE v == table[s[limit]]
  <2>1. limit \in 1..N /\ s[limit] \in Rows /\ v \in Int
    <3>1. limit \in 1..N
      BY <1>8, <1>10
    <3> QED BY <1>1, <1>5, <3>1, RowsOrdered DEF Ordered
  <2>2. w.pc = "cursor" /\ w.cursor = [sortValue |-> v, id |-> s[limit]]
        /\ w.mode = "cursor" /\ w.order = walk.order
    <3>1. w = [walk EXCEPT !.pc = "cursor", !.cursor = [sortValue |-> v, id |-> s[limit]]]
      BY <1>8, <1>10
    <3> QED BY <1>2, <3>1 DEF Walks
  <2>3. /\ walk'.pc = "cursor" /\ walk'.cursor = [sortValue |-> v, id |-> s[limit]]
        /\ walk'.mode = "cursor" /\ walk'.order = walk.order /\ walk'.ties = {v}
    BY <1>8, <1>9, <2>2 DEF Walks
  <2>4. ASSUME NEW i \in settled, table[i] # v
        PROVE  returned'[i] = IF i \in Beyond(walk)' THEN 0 ELSE 1
    <3>1. PICK m \in 1..N :
            i = s[m] /\ returned'[i] = IF m <= limit THEN returned[i] + 1 ELSE returned[i]
      BY <1>4, <1>6
    <3>2. returned'[i] = IF m <= limit THEN 1 ELSE 0
      BY <1>7, <3>1
    <3>3. i \in Beyond(walk)' <=> Before(walk.order, v, table[i])
      <4>1. Beyond(walk)' =
              {k \in Rows :
                 \/ Before(walk.order, v, table[k])
                 \/ table[k] = v /\ Before(walk.order, s[limit], k)}
        <5>1. walk'.cursor.sortValue = v /\ walk'.cursor.id = s[limit]
          BY <2>3
        <5> QED BY <1>2, <2>3, <5>1 DEF Beyond, Rows
      <4> QED BY <1>4, <2>4, <4>1
    <3>4. table[i] \in Int
      BY <1>1, <1>4, RowsOrdered DEF Ordered
    <3>5. m <= limit => ~Before(walk.order, v, table[i])
      <4>1. m < limit => ~Before(walk.order, v, table[i])
        BY <1>5, <2>1, <3>1
      <4>2. m = limit => table[i] = v
        BY <3>1
      <4> QED BY <1>4, <2>1, <2>4, <4>1, <4>2
    <3>6. ~ m <= limit => ~Before(walk.order, table[i], v)
      BY <1>4, <1>5, <2>1, <3>1
    <3>7. Before(walk.order, v, table[i]) \/ Before(walk.order, table[i], v)
      BY <2>1, <2>4, <3>4 DEF Before
    <3> HIDE DEF v
    <3> QED BY <3>2, <3>3, <3>5, <3>6, <3>7
  <2>5. NoCursor.id # s[limit]
    BY <1>1, <2>1, RowsOrdered
  <2>6. walk'.cursor # NoCursor
    BY <2>3, <2>5
  <2>7. CursorBehind'
    BY <1>2, <2>3, <2>4, <2>6 DEF CursorBehind
  <2>8. CursorWalkComplete' /\ OffsetWalkComplete' /\ PagesBehind' /\ ModesApart'
    BY <2>3 DEF CursorWalkComplete, OffsetWalkComplete, PagesBehind, ModesApart
  <2>9. Undisturbed'
    BY <1>2, <2>3 DEF Undisturbed, PagesInv, Rows, NoWalk
  <2> QED BY <2>7, <2>8, <2>9 DEF PagesInv, WalksComplete
<1>11. CASE ~ N > limit
  <2>1. walk'.pc = "done" /\ walk'.mode = "cursor"
    <3>1. w = [walk EXCEPT !.pc = "done"]
      BY <1>8, <1>11
    <3>2. w.pc = "done" /\ w.mode = "cursor"
      BY <1>2, <3>1 DEF Walks
    <3> QED BY <1>8, <1>9, <3>2 DEF Walks
  <2>2. \A i \in settled : returned'[i] = 1
    <3> SUFFICES ASSUME NEW i \in settled PROVE returned'[i] = 1
      OBVIOUS
    <3>1. PICK m \in 1..N :
            i = s[m] /\ returned'[i] = IF m <= limit THEN returned[i] + 1 ELSE returned[i]
      BY <1>4, <1>6
    <3>2. m <= limit
      BY <1>4, <1>11
    <3> QED BY <1>7, <3>1, <3>2
  <2>3. CursorWalkComplete'
    BY <1>2, <2>2 DEF CursorWalkComplete
  <2>4. OffsetWalkComplete' /\ CursorBehind' /\ PagesBehind' /\ ModesApart'
    BY <2>1 DEF OffsetWalkComplete, CursorBehind, PagesBehind, ModesApart
  <2>5. Undisturbed'
    BY <1>2, <2>1 DEF Undisturbed, PagesInv, Rows, NoWalk
  <2> QED BY <2>3, <2>4, <2>5 DEF PagesInv, WalksComplete
<1> QED BY <1>10, <1>11

LEMMA NextPageKeeps ==
  ASSUME PagesInv, PagesTypeOK', NextPage
  PROVE  PagesInv'
<1>1. PagesTypeOK
  BY DEF PagesInv, WalksComplete
<1>2. /\ walk \in Walks /\ walk.pc = "cursor" /\ walk.cursor # NoCursor /\ walk.mode = "cursor"
      /\ UNCHANGED <<table, lastId, settled, grown, moved>>
  BY <1>1 DEF NextPage, PagesTypeOK, NoWalk, PagesInv, ModesApart
<1> DEFINE R == Beyond(walk)
           N == Cardinality(R)
           limit == walk.limit
           order == walk.order
<1>3. PICK s \in SortedById(order, R) :
        /\ walk' = Followed(walk, Slice(s, 0, limit + 1))
        /\ Returns(Slice(Slice(s, 0, limit + 1), 0, limit))
  BY DEF NextPage
<1>4. R \in SUBSET Rows /\ Ordered(R) /\ limit \in Nat \ {0} /\ settled \subseteq Rows
      /\ Rows \subseteq Ids
  BY <1>1, <1>2, RowsOrdered, WalkNumbers DEF PagesTypeOK, Beyond
<1>5. s \in SortedFully(R, order, order)
  BY DEF SortedById
<1>6. /\ N \in Nat /\ s \in [1..N -> R]
      /\ \A i, j \in 1..N : i # j => s[i] # s[j]
  BY <1>4, <1>5, Placed
<1>7. \A i, j \in 1..N : i < j => Ahead(order, order, s[i], s[j])
  BY <1>5 DEF SortedFully
<1>8. /\ \A i \in R : \E m \in 1..N :
            i = s[m] /\ returned'[i] = IF m <= limit THEN returned[i] + 1 ELSE returned[i]
      /\ \A i \in Ids \ R : returned'[i] = returned[i]
  BY <1>1, <1>2, <1>3, <1>4, <1>6, CursorPage
<1>9. \A i \in settled : table[i] \notin walk.ties => returned[i] = IF i \in R THEN 0 ELSE 1
  BY <1>2 DEF PagesInv, CursorBehind
<1>10. IF N > limit
         THEN /\ limit \in 1..N
              /\ walk' = [walk EXCEPT !.pc = "cursor",
                            !.cursor = [sortValue |-> table[s[limit]], id |-> s[limit]]]
         ELSE walk' = [walk EXCEPT !.pc = "done"]
  BY <1>1, <1>2, <1>3, <1>4, <1>6, FollowedTypes
<1>11. CASE N > limit
  <2> DEFINE c == s[limit]
  <2>1. limit \in 1..N /\ c \in R
    BY <1>6, <1>10, <1>11
  <2>2. /\ walk'.pc = "cursor" /\ walk'.mode = "cursor" /\ walk'.order = order
        /\ walk'.ties = walk.ties /\ walk'.cursor = [sortValue |-> table[c], id |-> c]
    BY <1>2, <1>10, <1>11 DEF Walks
  <2>3. Beyond(walk)' = {k \in Rows : Ahead(order, order, c, k)}
    <3>1. walk'.cursor.sortValue = table[c] /\ walk'.cursor.id = c
      BY <2>2
    <3>2. Beyond(walk)' =
            {k \in Rows : \/ Before(order, table[c], table[k])
                          \/ table[k] = table[c] /\ Before(order, c, k)}
      BY <1>2, <2>2, <3>1 DEF Beyond, Rows
    <3> QED BY <3>2 DEF Ahead
  <2>4. ASSUME NEW i \in Rows, i \notin R PROVE ~Ahead(order, order, c, i)
    <3> SUFFICES ASSUME Ahead(order, order, c, i) PROVE FALSE
      OBVIOUS
    <3> DEFINE v == walk.cursor.sortValue
               d == walk.cursor.id
    <3>1. v \in Int /\ d \in Int
      <4>1. walk.cursor \in [sortValue: Keys, id: Ids]
        BY <1>2 DEF Walks, Cursors
      <4>2. v \in Keys /\ d \in Ids
        BY <4>1
      <4>3. Keys \subseteq Int /\ Ids \subseteq Int
        BY PaginationAssumption DEF Ids
      <4> QED BY <4>2, <4>3
    <3>2. R = {k \in Rows : \/ Before(order, v, table[k])
                            \/ table[k] = v /\ Before(order, d, k)}
      BY DEF Beyond
    <3>3. \/ Before(order, v, table[c])
          \/ table[c] = v /\ Before(order, d, c)
      BY <2>1, <3>2
    <3>4. ~ (\/ Before(order, v, table[i])
             \/ table[i] = v /\ Before(order, d, i))
      BY <2>4, <3>2
    <3>5. c \in Int /\ i \in Int /\ table[c] \in Int /\ table[i] \in Int
      BY <1>1, <1>4, <2>1, <2>4, RowsOrdered DEF Ordered
    <3> HIDE DEF c, v, d, R, order
    <3> QED BY <3>1, <3>3, <3>4, <3>5 DEF Ahead, Before
  <2>5. ASSUME NEW m \in 1..N PROVE Ahead(order, order, c, s[m]) <=> ~ m <= limit
    <3>1. s[m] \in R
      BY <1>6
    <3>2. m > limit => Ahead(order, order, c, s[m])
      BY <1>7, <2>1
    <3>3. m < limit => Ahead(order, order, s[m], c)
      BY <1>7, <2>1
    <3>4. m = limit => s[m] = c
      OBVIOUS
    <3>5. /\ ~Ahead(order, order, c, c)
          /\ Ahead(order, order, s[m], c) => ~Ahead(order, order, c, s[m])
      <4> HIDE DEF c, R, order
      <4> QED BY <1>4, <2>1, <3>1, AheadIsAnOrder
    <3>6. m \in Nat /\ limit \in Nat
      BY <1>4, <1>6
    <3> HIDE DEF c, R, order, limit
    <3> QED BY <3>2, <3>3, <3>4, <3>5, <3>6
  <2>6. ASSUME NEW i \in settled, table[i] \notin walk.ties
        PROVE  returned'[i] = IF i \in Beyond(walk)' THEN 0 ELSE 1
    <3>1. CASE i \in R
      <4>1. PICK m \in 1..N :
              i = s[m] /\ returned'[i] = IF m <= limit THEN returned[i] + 1 ELSE returned[i]
        BY <1>8, <3>1
      <4>2. returned[i] = 0
        BY <1>9, <2>6, <3>1
      <4> QED BY <1>4, <2>3, <2>5, <2>6, <4>1, <4>2
    <3>2. CASE i \notin R
      <4>1. returned'[i] = returned[i] /\ returned[i] = 1
        BY <1>4, <1>8, <1>9, <2>6, <3>2
      <4> QED BY <1>4, <2>3, <2>4, <2>6, <3>2, <4>1
    <3> QED BY <3>1, <3>2
  <2>7. walk'.cursor # NoCursor
    <3>1. NoCursor.id # c
      BY <1>1, <1>4, <2>1, RowsOrdered
    <3> QED BY <2>2, <3>1
  <2>8. CursorBehind'
    BY <1>2, <2>2, <2>6, <2>7 DEF CursorBehind
  <2>9. CursorWalkComplete' /\ OffsetWalkComplete' /\ PagesBehind' /\ ModesApart'
    BY <2>2 DEF CursorWalkComplete, OffsetWalkComplete, PagesBehind, ModesApart
  <2>10. Undisturbed'
    BY <1>2, <2>2 DEF Undisturbed, PagesInv, Rows, NoWalk
  <2> QED BY <2>8, <2>9, <2>10 DEF PagesInv, WalksComplete
<1>12. CASE ~ N > limit
  <2>1. walk'.pc = "done" /\ walk'.mode = "cursor" /\ walk'.ties = walk.ties
    BY <1>2, <1>10, <1>12 DEF Walks
  <2>2. ASSUME NEW i \in settled, table[i] \notin walk.ties PROVE returned'[i] = 1
    <3>1. CASE i \in R
      <4>1. PICK m \in 1..N :
              i = s[m] /\ returned'[i] = IF m <= limit THEN returned[i] + 1 ELSE returned[i]
        BY <1>8, <3>1
      <4>2. m <= limit
        BY <1>4, <1>6, <1>12
      <4> QED BY <1>9, <2>2, <3>1, <4>1, <4>2
    <3>2. CASE i \notin R
      BY <1>4, <1>8, <1>9, <2>2, <3>2
    <3> QED BY <3>1, <3>2
  <2>3. CursorWalkComplete'
    BY <1>2, <2>1, <2>2 DEF CursorWalkComplete
  <2>4. OffsetWalkComplete' /\ CursorBehind' /\ PagesBehind' /\ ModesApart'
    BY <2>1 DEF OffsetWalkComplete, CursorBehind, PagesBehind, ModesApart
  <2>5. Undisturbed'
    BY <1>2, <2>1 DEF Undisturbed, PagesInv, Rows, NoWalk
  <2> QED BY <2>3, <2>4, <2>5 DEF PagesInv, WalksComplete
<1> QED BY <1>11, <1>12

-----------------------------------------------------------------------------
(* Pages by number *)

\* When there is no next page, the pages hold all.
LEMMA PagesHoldAll ==
  ASSUME NEW total \in Nat, NEW limit \in Nat \ {0}, NEW page \in Nat,
         ~ page < TotalPages(total, limit)
  PROVE  total <= limit * page
<1> DEFINE q == (total + limit - 1) \div limit
<1>1. q \in Int /\ limit * q <= total + limit - 1 /\ total + limit - 1 < limit * (q + 1)
  OBVIOUS
<1>2. q <= page
  BY <1>1 DEF TotalPages
<1> HIDE DEF q
<1>3. limit * (q + 1) = limit * q + limit
  BY <1>1
<1>4. limit * q <= limit * page
  BY <1>1, <1>2
<1>5. limit * q \in Int /\ limit * page \in Int
  BY <1>1
<1> QED BY <1>1, <1>3, <1>4, <1>5

LEMMA SkipIs ==
  ASSUME NEW page \in Nat, page >= 1, NEW limit \in Nat
  PROVE  /\ Skip(page, limit) \in Nat /\ Skip(page, limit) = limit * (page - 1)
         /\ limit * page = limit * (page - 1) + limit
         /\ limit * (page - 1) \in Nat /\ limit * page \in Nat
BY DEF Skip

\* What a query for a page of the rows in order adds
LEMMA PageReads ==
  ASSUME PagesTypeOK, walk \in Walks, walk.page >= 1,
         UNCHANGED <<table, settled, grown, moved>>,
         walk'.mode = walk.mode, walk'.order = walk.order,
         BehindTo(walk.limit * (walk.page - 1)),
         NEW s \in Sorted(walk.order) \union Listed(walk.order),
         ToldApart \/ s \in Listed(walk.order) \/ walk.mode # "memory",
         walk.mode = "memory" => s \in Listed(walk.order),
         Returns(Slice(s, Skip(walk.page, walk.limit), walk.limit)),
         NEW n \in Nat, n = walk.limit * walk.page
  PROVE  BehindTo(n)'
<1> DEFINE k == walk.limit * (walk.page - 1)
<1>1. k \in Nat /\ n = k + walk.limit /\ walk.limit \in Nat /\ Skip(walk.page, walk.limit) = k
  BY WalkNumbers, SkipIs
<1> HIDE DEF k
<1> SUFFICES ASSUME ~moved, ToldApart \/ walk.mode = "memory", NEW i \in settled
             PROVE  /\ Place(i) <= n => returned'[i] >= 1
                    /\ ~grown => returned'[i] = IF Place(i) <= n THEN 1 ELSE 0
  <2>1. \A i \in settled : Place(i)' = Place(i)
    BY DEF Place, UpTo, Ahead, Rows
  <2>2. ToldApart' <=> ToldApart
    BY DEF ToldApart, Rows
  <2> QED BY <2>1, <2>2 DEF BehindTo
<1>2. i \in Rows /\ i \in Ids /\ Ordered(Rows)
  BY RowsOrdered DEF PagesTypeOK
<1>3. s \in SortedFully(Rows, walk.order, "ASC")
  <2>1. CASE s \in Listed(walk.order)
    BY <2>1 DEF Listed
  <2>2. CASE s \in Sorted(walk.order) /\ ToldApart
    <3>1. s \in [1..Cardinality(Rows) -> Rows]
      BY <2>2 DEF Sorted
    <3>2. ASSUME NEW a \in DOMAIN s, NEW b \in DOMAIN s, a < b
          PROVE  Ahead(walk.order, "ASC", s[a], s[b])
      <4>1. s[a] \in Rows /\ s[b] \in Rows /\ s[a] # s[b]
            /\ ~Before(walk.order, table[s[b]], table[s[a]])
        BY <2>2, <3>1, <3>2 DEF Sorted
      <4>2. table[s[a]] # table[s[b]] /\ table[s[a]] \in Int /\ table[s[b]] \in Int
        BY <1>2, <2>2, <4>1 DEF ToldApart, Ordered
      <4> QED BY <4>1, <4>2 DEF Ahead, Before
    <3> QED BY <3>1, <3>2 DEF SortedFully
  <2> QED BY <2>1, <2>2
<1>4. i \in Range(Slice(s, k, walk.limit)) <=> k < Place(i) /\ Place(i) <= k + walk.limit
  BY <1>1, <1>2, <1>3, SliceReturns DEF Place
<1>5. returned'[i] = (IF k < Place(i) /\ Place(i) <= n THEN returned[i] + 1 ELSE returned[i])
      /\ returned[i] \in Nat
  BY <1>1, <1>2, <1>4, ReturnsTypes DEF PagesTypeOK
<1>6. /\ Place(i) <= k => returned[i] >= 1
      /\ ~grown => returned[i] = IF Place(i) <= k THEN 1 ELSE 0
  BY DEF BehindTo, k
<1>7. Place(i) \in Nat
  BY <1>2, PlaceBounds DEF Place
<1> QED BY <1>1, <1>5, <1>6, <1>7

\* After the page is read and the next one is due, or none is
LEMMA TurnedKeeps ==
  ASSUME PagesInv, PagesTypeOK', walk \in Walks, walk.page >= 1, walk.mode # "cursor",
         UNCHANGED <<table, settled, grown, moved>>,
         NEW total \in Nat, NEW pc \in {"page", "count"},
         walk.mode = "offset" => pc = "page", walk.mode = "history" => pc = "count",
         walk' = Turned(walk, total, pc),
         walk.mode # "history" \/ (~moved /\ ~grown) => total = Cardinality(Rows),
         NEW n \in Nat, n = walk.limit * walk.page, BehindTo(n)'
  PROVE  PagesInv'
<1>1. walk.page \in Nat /\ walk.limit \in Nat \ {0}
  BY WalkNumbers
<1>2. CASE walk.page < TotalPages(total, walk.limit)
  <2>1. /\ walk'.pc = pc /\ walk'.page = walk.page + 1 /\ walk'.mode = walk.mode
        /\ walk'.limit = walk.limit
    <3>1. walk' = [walk EXCEPT !.pc = pc, !.page = @ + 1]
      BY <1>2 DEF Turned
    <3> QED BY <3>1 DEF Walks
  <2>2. Asked' = n
    <3>1. Asked' = walk.limit * ((walk.page + 1) - 1)
      BY <2>1 DEF Asked
    <3>2. (walk.page + 1) - 1 = walk.page
      BY <1>1
    <3> QED BY <3>1, <3>2
  <2>3. BehindTo(Asked)'
    BY <2>2 DEF BehindTo, Place
  <2>4. PagesBehind'
    BY <2>3 DEF PagesBehind
  <2>5. CursorBehind' /\ CursorWalkComplete' /\ OffsetWalkComplete'
    BY <2>1 DEF CursorBehind, CursorWalkComplete, OffsetWalkComplete
  <2>6. ModesApart'
    BY <1>1, <2>1 DEF ModesApart
  <2>7. Undisturbed'
    BY <2>1 DEF Undisturbed, PagesInv, Rows, NoWalk, Walks
  <2> QED BY <2>4, <2>5, <2>6, <2>7 DEF PagesInv, WalksComplete
<1>3. CASE ~ walk.page < TotalPages(total, walk.limit)
  <2>1. walk'.pc = "done" /\ walk'.mode = walk.mode /\ walk'.order = walk.order
    <3>1. walk' = [walk EXCEPT !.pc = "done"]
      BY <1>3 DEF Turned
    <3> QED BY <3>1 DEF Walks
  <2>2. total <= n
    BY <1>1, <1>3, PagesHoldAll
  <2>3. OffsetWalkComplete'
    <3> SUFFICES ASSUME ~moved', (ToldApart \/ walk.mode = "memory")', NEW i \in settled'
                 PROVE  /\ returned'[i] >= 1 \/ (walk.mode = "history" /\ grown)
                        /\ returned'[i] = 1 \/ grown
      BY <2>1 DEF OffsetWalkComplete
    <3>1. CASE walk.mode = "history" /\ grown
      BY <3>1
    <3>2. CASE ~ (walk.mode = "history" /\ grown)
      <4>1. total = Cardinality(Rows)
        BY <3>2
      <4>2. i \in Rows /\ PagesTypeOK
        BY DEF PagesInv, WalksComplete, PagesTypeOK
      <4>3. Place(i)' = Cardinality(UpTo(Rows, walk.order, "ASC", i))
        BY <2>1 DEF Place, UpTo, Ahead, Rows
      <4>4. Place(i)' \in Nat /\ Place(i)' <= total
        BY <4>1, <4>2, <4>3, PlaceBounds
      <4>5. Place(i)' <= n
        BY <1>1, <2>2, <4>4
      <4>6. /\ Place(i)' <= n => returned'[i] >= 1
            /\ ~grown' => returned'[i] = IF Place(i)' <= n THEN 1 ELSE 0
        BY DEF BehindTo
      <4> QED BY <3>2, <4>5, <4>6
    <3> QED BY <3>1, <3>2
  <2>4. CursorWalkComplete' /\ CursorBehind' /\ PagesBehind' /\ ModesApart'
    BY <2>1 DEF CursorWalkComplete, CursorBehind, PagesBehind, ModesApart
  <2>5. Undisturbed'
    BY <2>1 DEF Undisturbed, PagesInv, Rows, NoWalk, Walks
  <2> QED BY <2>3, <2>4, <2>5 DEF PagesInv, WalksComplete
<1> QED BY <1>2, <1>3

LEMMA NumberedPagesKeep ==
  ASSUME PagesInv, PagesTypeOK',
         OffsetPage \/ OffsetCount \/ HistoryCount \/ HistoryPage \/ MemoryPage
  PROVE  PagesInv'
<1>1. PagesTypeOK
  BY DEF PagesInv, WalksComplete
<1>2. /\ walk \in Walks /\ walk.pc \in {"page", "count"}
      /\ UNCHANGED <<table, lastId, settled, grown, moved>>
  BY <1>1 DEF OffsetPage, OffsetCount, HistoryCount, HistoryPage, MemoryPage, PagesTypeOK, NoWalk
<1>3. /\ walk.mode # "cursor" /\ walk.page >= 1 /\ BehindTo(Asked)
      /\ walk.page \in Nat /\ walk.limit \in Nat
  BY <1>2, WalkNumbers DEF PagesInv, ModesApart, PagesBehind
<1> DEFINE n == walk.limit * walk.page
<1>4. n \in Nat /\ Cardinality(Rows) \in Nat
  BY <1>1, <1>3, SkipIs, RowsOrdered
<1>5. ASSUME walk.pc = "page" \/ walk.mode # "offset" PROVE BehindTo(walk.limit * (walk.page - 1))
  BY <1>3, <1>5 DEF Asked
<1>6. CASE OffsetPage
  <2>1. walk.pc = "page" /\ walk.mode = "offset" /\ walk' = [walk EXCEPT !.pc = "count"]
    BY <1>6 DEF OffsetPage
  <2>2. /\ walk'.pc = "count" /\ walk'.mode = "offset" /\ walk'.order = walk.order
        /\ walk'.limit = walk.limit /\ walk'.page = walk.page
    BY <1>2, <2>1 DEF Walks
  <2>3. PICK s \in Sorted(walk.order) :
          Returns(Slice(s, Skip(walk.page, walk.limit), walk.limit))
    BY <1>6 DEF OffsetPage
  <2> HIDE DEF n
  <2>4. ASSUME NEW m \in Nat, m = walk.limit * walk.page PROVE BehindTo(m)'
    <3>1. BehindTo(walk.limit * (walk.page - 1))
      BY <1>5, <2>1
    <3>2. s \in Sorted(walk.order) \union Listed(walk.order) /\ walk.mode # "memory"
      BY <2>1, <2>3
    <3> QED BY <1>1, <1>2, <1>3, <2>1, <2>2, <2>3, <2>4, <3>1, <3>2, PageReads
  <2>5. PICK m \in Nat : m = walk.limit * walk.page
    BY <1>4 DEF n
  <2>6. Asked' = m
    BY <2>2, <2>5 DEF Asked
  <2>7. BehindTo(Asked)'
    BY <2>4, <2>5, <2>6 DEF BehindTo
  <2>8. PagesBehind'
    BY <2>7 DEF PagesBehind
  <2>9. CursorBehind' /\ CursorWalkComplete' /\ OffsetWalkComplete' /\ ModesApart'
    BY <1>3, <2>2 DEF CursorBehind, CursorWalkComplete, OffsetWalkComplete, ModesApart
  <2>10. Undisturbed'
    BY <1>2, <2>1, <2>2 DEF Undisturbed, PagesInv, Rows, NoWalk, Walks
  <2> QED BY <2>8, <2>9, <2>10 DEF PagesInv, WalksComplete
<1>7. CASE OffsetCount
  <2>1. walk.pc = "count" /\ walk.mode = "offset" /\ returned' = returned
        /\ walk' = Turned(walk, Cardinality(Rows), "page")
    BY <1>7 DEF OffsetCount
  <2>2. walk'.mode = walk.mode /\ walk'.order = walk.order
    BY <1>2, <2>1 DEF Turned, Walks
  <2>3. PICK m \in Nat : m = walk.limit * walk.page
    BY <1>4
  <2>4. BehindTo(m)
    BY <1>3, <2>1, <2>3 DEF Asked
  <2>5. BehindTo(m)'
    BY <1>2, <2>1, <2>2, <2>4 DEF BehindTo, Place, UpTo, Ahead, Rows, ToldApart
  <2> QED BY <1>2, <1>3, <1>4, <2>1, <2>3, <2>5, TurnedKeeps
<1>8. CASE HistoryCount
  <2>1. walk.pc = "count" /\ walk.mode = "history" /\ returned' = returned
        /\ walk' = [walk EXCEPT !.pc = "page", !.total = Cardinality(Rows)]
    BY <1>8 DEF HistoryCount
  <2>2. /\ walk'.pc = "page" /\ walk'.mode = "history" /\ walk'.order = walk.order
        /\ walk'.limit = walk.limit /\ walk'.page = walk.page /\ walk'.total = Cardinality(Rows)
    BY <1>2, <2>1 DEF Walks
  <2>3. Asked' = Asked
    BY <2>1, <2>2 DEF Asked
  <2>4. BehindTo(Asked)'
    BY <1>2, <1>3, <2>1, <2>2, <2>3 DEF BehindTo, Place, UpTo, Ahead, Rows, ToldApart
  <2>5. PagesBehind'
    BY <2>4 DEF PagesBehind
  <2>6. CursorBehind' /\ CursorWalkComplete' /\ OffsetWalkComplete' /\ ModesApart'
    BY <1>3, <2>2 DEF CursorBehind, CursorWalkComplete, OffsetWalkComplete, ModesApart
  <2>7. Undisturbed'
    BY <1>2, <2>2 DEF Undisturbed, PagesInv, Rows, NoWalk, Walks
  <2> QED BY <2>5, <2>6, <2>7 DEF PagesInv, WalksComplete
<1>9. CASE HistoryPage
  <2>1. walk.pc = "page" /\ walk.mode = "history" /\ walk' = Turned(walk, walk.total, "count")
    BY <1>9 DEF HistoryPage
  <2>2. walk'.mode = walk.mode /\ walk'.order = walk.order
    BY <1>2, <2>1 DEF Turned, Walks
  <2>3. PICK s \in Sorted(walk.order) :
          Returns(Slice(s, Skip(walk.page, walk.limit), walk.limit))
    BY <1>9 DEF HistoryPage
  <2>4. PICK m \in Nat : m = walk.limit * walk.page
    BY <1>4
  <2>5. BehindTo(m)'
    <3>1. BehindTo(walk.limit * (walk.page - 1))
      BY <1>5, <2>1
    <3>2. s \in Sorted(walk.order) \union Listed(walk.order) /\ walk.mode # "memory"
      BY <2>1, <2>3
    <3> HIDE DEF n
    <3> QED BY <1>1, <1>2, <1>3, <2>1, <2>2, <2>3, <2>4, <3>1, <3>2, PageReads
  <2>6. ~moved /\ ~grown => walk.total = Cardinality(Rows)
    BY <1>2, <2>1 DEF PagesInv, Undisturbed, NoWalk, Walks
  <2>7. walk.total \in Nat
    BY <1>2, WalkNumbers
  <2> QED BY <1>2, <1>3, <2>1, <2>4, <2>5, <2>6, <2>7, TurnedKeeps
<1>10. CASE MemoryPage
  <2>1. walk.pc = "page" /\ walk.mode = "memory"
        /\ walk' = Turned(walk, Cardinality(Rows), "page")
    BY <1>10 DEF MemoryPage
  <2>2. walk'.mode = walk.mode /\ walk'.order = walk.order
    BY <1>2, <2>1 DEF Turned, Walks
  <2>3. PICK s \in Listed(walk.order) :
          Returns(Slice(s, Skip(walk.page, walk.limit), walk.limit))
    BY <1>10 DEF MemoryPage
  <2>4. PICK m \in Nat : m = walk.limit * walk.page
    BY <1>4
  <2>5. BehindTo(m)'
    <3>1. BehindTo(walk.limit * (walk.page - 1))
      BY <1>5, <2>1
    <3>2. s \in Sorted(walk.order) \union Listed(walk.order)
      BY <2>3
    <3> HIDE DEF n
    <3> QED BY <1>1, <1>2, <1>3, <2>1, <2>2, <2>3, <2>4, <3>1, <3>2, PageReads
  <2> QED BY <1>2, <1>3, <1>4, <2>1, <2>4, <2>5, TurnedKeeps
<1> QED BY <1>6, <1>7, <1>8, <1>9, <1>10

\* Whichever way a client walks through a list, by cursors or by page numbers, up or
\* down, with pages of any size, and whatever is inserted, changed and removed
\* between two of its queries: the rows that nothing was done to are returned
\* (findAllCursor, findAll, getEmergencyHistory, listSubscriptions).
THEOREM WalksAreComplete == PagesSpec => []WalksComplete
<1>1. PagesInit => PagesInv
  <2> SUFFICES ASSUME PagesInit PROVE PagesInv
    OBVIOUS
  <2>1. Rows = {}
    BY DEF PagesInit, Rows
  <2>2. PagesTypeOK
    <3>1. table \in [1..0 -> Keys] /\ 1..0 = {}
      <4>1. <<>> \in Seq(Keys) /\ Len(<<>>) = 0
        OBVIOUS
      <4> QED BY <4>1 DEF PagesInit
    <3>2. DOMAIN table \subseteq 1..lastId /\ table \in [Rows -> Keys]
      BY <2>1, <3>1 DEF Rows
    <3>3. lastId \in 0..MaxRows /\ returned \in [Ids -> Nat]
      BY PaginationAssumption DEF PagesInit
    <3>4. walk = NoWalk /\ settled = {} /\ grown = FALSE /\ moved = FALSE
      BY DEF PagesInit
    <3> QED BY <3>2, <3>3, <3>4 DEF PagesTypeOK
  <2>3. walk = NoWalk
    BY DEF PagesInit
  <2> QED BY <2>2, <2>3 DEF PagesInv, WalksComplete, CursorWalkComplete, OffsetWalkComplete,
        CursorBehind, PagesBehind, Undisturbed, ModesApart, NoWalk
<1>2. PagesInv /\ [PagesNext]_pagesVars => PagesInv'
  <2> SUFFICES ASSUME PagesInv, [PagesNext]_pagesVars PROVE PagesInv'
    OBVIOUS
  <2>1. PagesTypeOK'
    BY PagesTypeStep DEF PagesInv, WalksComplete
  <2>2. ASSUME NEW key \in Keys, CreateTrigger(key) PROVE PagesInv'
    BY <2>1, <2>2, CreateTriggerKeeps
  <2>3. ASSUME NEW i \in Ids, RemoveTrigger(i) PROVE PagesInv'
    BY <2>1, <2>3, ChangesKeep
  <2>4. ASSUME NEW i \in Ids, NEW key \in Keys, UpdateTrigger(i, key) PROVE PagesInv'
    BY <2>1, <2>4, ChangesKeep
  <2>5. ASSUME NEW mode \in Modes, NEW order \in Orders, NEW limit \in Limits,
               Begin(mode, order, limit)
        PROVE  PagesInv'
    BY <2>1, <2>5, BeginKeeps
  <2>6. CASE FirstPage \/ NextPage
    BY <2>1, <2>6, FirstPageKeeps, NextPageKeeps
  <2>7. CASE OffsetPage \/ OffsetCount \/ HistoryCount \/ HistoryPage \/ MemoryPage
    BY <2>1, <2>7, NumberedPagesKeep
  <2>8. CASE UNCHANGED pagesVars
    <3>1. UNCHANGED <<table, lastId, walk, returned, settled, grown, moved>>
      BY <2>8 DEF pagesVars
    <3>2. \A i : (i \in Beyond(walk)' <=> i \in Beyond(walk)) /\ Place(i)' = Place(i)
      BY <3>1 DEF Beyond, Place, UpTo, Ahead, Rows
    <3>3. Asked' = Asked /\ Rows' = Rows /\ (ToldApart' <=> ToldApart)
      BY <3>1 DEF Asked, Rows, ToldApart
    <3>4. PagesBehind'
      BY <3>1, <3>2, <3>3 DEF PagesInv, PagesBehind, BehindTo
    <3>5. CursorBehind' /\ CursorWalkComplete'
      BY <3>1, <3>2 DEF PagesInv, WalksComplete, CursorBehind, CursorWalkComplete
    <3>6. OffsetWalkComplete'
      BY <3>1, <3>3 DEF PagesInv, WalksComplete, OffsetWalkComplete
    <3>7. Undisturbed' /\ ModesApart'
      BY <3>1, <3>3 DEF PagesInv, Undisturbed, ModesApart
    <3> QED BY <2>1, <3>4, <3>5, <3>6, <3>7 DEF PagesInv, WalksComplete
  <2> QED BY <2>2, <2>3, <2>4, <2>5, <2>6, <2>7, <2>8 DEF PagesNext
<1>3. PagesInv => WalksComplete
  BY DEF PagesInv
<1> QED BY <1>1, <1>2, <1>3, PTL DEF PagesSpec
=============================================================================
