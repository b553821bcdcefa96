-------------------------- MODULE EmergencyUnstake --------------------------
(***************************************************************************)
(* Emergency unstakes (src/src/staking/emergency-unstake.service.ts) and the*)
(* staking positions they withdraw from (src/src/contracts/contracts.       *)
(* service.ts).  A request asks the table of unstakes whether the staker    *)
(* unstaked lately, reads the position, saves its record and withdraws,     *)
(* with an await of the database before and after the record is saved.  The *)
(* table survives a restart; the positions are kept in memory.              *)
(*                                                                          *)
(* Time is in days.  A rate is scaled by 100 * LockupDays, so that the rate *)
(* of every day is a whole number.                                          *)
(***************************************************************************)
EXTENDS Integers, Sequences, FiniteSets, Functions

CONSTANTS
  Handlers, Stakers,
  Positions,      \* ids of staking positions
  MaxAmount,      \* bound on the amount of a position
  MaxRemaining,   \* bound on the days until a position unlocks
  RateLimitDays, LockupDays, MinRate, MaxRate,   \* penaltyConfig
  MaxRecords      \* bound on the unstakes recorded

ASSUME EmergencyUnstakeAssumption ==
  /\ MaxAmount \in Nat /\ MaxRemaining \in Nat /\ MaxRecords \in Nat
  /\ RateLimitDays \in Nat \ {0} /\ LockupDays \in Nat \ {0}
  /\ MinRate \in Nat /\ MaxRate \in Nat /\ MinRate <= MaxRate
ASSUME HandlersFinite == IsFiniteSet(Handlers)

VARIABLES
  positions,  \* ContractsService.stakingPositions
  records,    \* the table of emergency unstakes, in order of creation
  handlers,   \* the requests in progress
  withdrawn,  \* history: the total withdrawn for each staker
  disturbed   \* history: a request passed its checks while another was about to
              \* withdraw from the position, or a restart came before a withdrawal

vars == <<positions, records, handlers, withdrawn, disturbed>>

NoPosition == [present |-> FALSE]
Position == [present: {TRUE}, stakerId: Stakers, amount: 0..MaxAmount, remaining: 0..MaxRemaining]

\* The age of a record stops at RateLimitDays; status stays 'pending'.
Record == [stakerId: Stakers, amount: 1..MaxAmount, penaltyRate: Nat, age: 0..RateLimitDays]

Idle == [pc |-> "idle"]
Request == [stakerId: Stakers, position: Positions, amount: 1..MaxAmount]

Init ==
  /\ positions = [p \in Positions |-> NoPosition]
  /\ records = <<>>
  /\ handlers = [h \in Handlers |-> Idle]
  /\ withdrawn = [s \in Stakers |-> 0]
  /\ disturbed = FALSE

At(h, pc) == handlers[h].pc = pc
Goto(h, pc) == handlers' = [handlers EXCEPT ![h].pc = pc]
Finish(h) == handlers' = [handlers EXCEPT ![h] = Idle]

Min2(a, b) == IF a < b THEN a ELSE b

\* Defect: the rate of a position that unlocks late is not capped.
CalculatePenaltyUncapped(remaining) ==
  IF remaining <= 0 THEN 0 ELSE MinRate * LockupDays + (MaxRate - MinRate) * remaining

CalculatePenalty(remaining) ==
  IF remaining <= 0 THEN 0
  ELSE Min2(MinRate * LockupDays + (MaxRate - MinRate) * remaining, MaxRate * LockupDays)

-----------------------------------------------------------------------------
(* initiateEmergencyUnstake *)

Initiate(h, request) ==
  /\ At(h, "idle")
  /\ handlers' = [handlers EXCEPT ![h] =
       [pc |-> "checkRateLimit", request |-> request, penaltyRate |-> 0]]
  /\ UNCHANGED <<positions, records, withdrawn, disturbed>>

Recent(s) == {i \in DOMAIN records : records[i].stakerId = s /\ records[i].age < RateLimitDays}

\* Defect: the query looks at the newest record of the table only.
CheckRateLimitNewest(h) ==
  /\ At(h, "checkRateLimit")
  /\ IF Len(records) \in Recent(handlers[h].request.stakerId)
       THEN Finish(h) ELSE Goto(h, "readPosition")
  /\ UNCHANGED <<positions, records, withdrawn, disturbed>>

CheckRateLimit(h) ==
  /\ At(h, "checkRateLimit")
  /\ IF Recent(handlers[h].request.stakerId) # {}
       THEN Finish(h) ELSE Goto(h, "readPosition")
  /\ UNCHANGED <<positions, records, withdrawn, disturbed>>

\* Defect: the amount is not compared with the balance.
WithdrawableAnyAmount(request) ==
  LET position == positions[request.position] IN
  position.present /\ position.stakerId = request.stakerId

\* The position exists, is the staker's and holds the amount.
Withdrawable(request) ==
  LET position == positions[request.position] IN
  /\ position.present
  /\ position.stakerId = request.stakerId
  /\ request.amount <= position.amount

\* Another request passed its checks and did not withdraw yet.
Contended(p) ==
  \E h \in Handlers : (At(h, "save") \/ At(h, "withdraw")) /\ handlers[h].request.position = p

\* The rate is that of the moment the position is read.
ReadPosition(h) ==
  /\ At(h, "readPosition")
  /\ IF Withdrawable(handlers[h].request)
       THEN handlers' = [handlers EXCEPT ![h] =
              [pc |-> "save", request |-> handlers[h].request, penaltyRate |->
                 CalculatePenalty(positions[handlers[h].request.position].remaining)]]
       ELSE Finish(h)
  /\ disturbed' = (disturbed \/ (At(h, "save")' /\ Contended(handlers[h].request.position)))
  /\ UNCHANGED <<positions, records, withdrawn>>

Save(h) ==
  /\ At(h, "save")
  /\ Len(records) < MaxRecords
  /\ records' = Append(records,
       [stakerId |-> handlers[h].request.stakerId, amount |-> handlers[h].request.amount,
        penaltyRate |-> handlers[h].penaltyRate, age |-> 0])
  /\ Goto(h, "withdraw")
  /\ UNCHANGED <<positions, withdrawn, disturbed>>

\* A withdrawal that throws leaves its record behind.
ProcessEmergencyWithdrawal(h) ==
  /\ At(h, "withdraw")
  /\ LET request == handlers[h].request
         position == positions[request.position]
     IN IF position.present /\ position.amount >= request.amount
          THEN /\ positions' = [positions EXCEPT ![request.position].amount = @ - request.amount]
               /\ withdrawn' = [withdrawn EXCEPT ![request.stakerId] = @ + request.amount]
          ELSE UNCHANGED <<positions, withdrawn>>
  /\ Finish(h)
  /\ UNCHANGED <<records, disturbed>>

-----------------------------------------------------------------------------
(* The environment *)

\* Positions are added under fresh ids.
AddStakingPosition(p, position) ==
  /\ ~positions[p].present
  /\ \A h \in Handlers : ~At(h, "idle") => handlers[h].request.position # p
  /\ positions' = [positions EXCEPT ![p] = position]
  /\ UNCHANGED <<records, handlers, withdrawn, disturbed>>

\* The query or the save fails.
DatabaseFails(h) ==
  /\ At(h, "checkRateLimit") \/ At(h, "save")
  /\ Finish(h)
  /\ UNCHANGED <<positions, records, withdrawn, disturbed>>

Restart ==
  /\ positions' = [p \in Positions |-> NoPosition]
  /\ handlers' = [h \in Handlers |-> Idle]
  /\ disturbed' = (disturbed \/ \E h \in Handlers : At(h, "withdraw"))
  /\ UNCHANGED <<records, withdrawn>>

Day ==
  /\ positions' = [p \in Positions |->
       IF positions[p].present /\ positions[p].remaining > 0
         THEN [positions[p] EXCEPT !.remaining = @ - 1] ELSE positions[p]]
  /\ records' = [i \in DOMAIN records |->
       [records[i] EXCEPT !.age = Min2(@ + 1, RateLimitDays)]]
  /\ UNCHANGED <<handlers, withdrawn, disturbed>>

Next ==
  \/ \E h \in Handlers :
       \/ \E request \in Request : Initiate(h, request)
       \/ CheckRateLimit(h) \/ ReadPosition(h) \/ Save(h)
       \/ ProcessEmergencyWithdrawal(h) \/ DatabaseFails(h)
  \/ \E p \in Positions, position \in Position : AddStakingPosition(p, position)
  \/ Restart \/ Day

Spec == Init /\ [][Next]_vars

-----------------------------------------------------------------------------
(* Properties *)

\* The positions, records and requests are what they may be; no position is
\* overdrawn.
TypeOK ==
  /\ positions \in [Positions -> Position \union {NoPosition}]
  /\ records \in Seq(Record)
  /\ handlers \in [Handlers ->
       [pc: {"checkRateLimit", "readPosition", "save", "withdraw"},
        request: Request, penaltyRate: Nat] \union {Idle}]
  /\ withdrawn \in [Stakers -> Nat]
  /\ disturbed \in BOOLEAN

Recorded(s) ==
  SumFunction([i \in DOMAIN records |-> IF records[i].stakerId = s THEN records[i].amount ELSE 0])

Awaited(s) ==
  SumFunction([h \in Handlers |->
    IF At(h, "withdraw") /\ handlers[h].request.stakerId = s THEN handlers[h].request.amount
    ELSE 0])

\* What was withdrawn for a staker, and what is about to be, is on record,
\* whatever failed in between.
WithdrawalsRecorded == \A s \in Stakers : withdrawn[s] + Awaited(s) <= Recorded(s)

\* Unless requests for one position overlapped or the process was restarted
\* before a withdrawal, every unstake on record was withdrawn when no request is
\* in progress: a staker does not spend the allowance of the week for nothing,
\* also when queries and saves fail (initiateEmergencyUnstake).
RecordsWithdrawn ==
  ~disturbed /\ (\A h \in Handlers : At(h, "idle")) =>
    \A s \in Stakers : Recorded(s) = withdrawn[s]

\* The table and the balances agree: nothing is withdrawn that is not on record,
\* and nothing on record was not withdrawn but for races and restarts
\* (initiateEmergencyUnstake, processEmergencyWithdrawal).
RecordsMatchWithdrawals == TypeOK /\ WithdrawalsRecorded /\ RecordsWithdrawn

\* Concurrent requests may pass the rate limit together, but no more unstakes of
\* a staker are recorded within RateLimitDays than requests overlap.
OverlapBoundsUnstakes ==
  \A s \in Stakers :
    Cardinality(Recent(s))
      + Cardinality({h \in Handlers :
          (At(h, "readPosition") \/ At(h, "save")) /\ handlers[h].request.stakerId = s})
      <= Cardinality(Handlers)

\* A staker never pays less than what is due when the unstake is recorded, nor
\* more than the configured maximum, also when the record is saved days after the
\* position was read (calculatePenalty).
PenaltyDue ==
  [][\A h \in Handlers :
       At(h, "save") /\ At(h, "withdraw")' =>
         LET rate == records'[Len(records')].penaltyRate
             position == positions[handlers[h].request.position]
         IN /\ rate <= MaxRate * LockupDays
            /\ position.present =>
                 rate >= Min2(MaxRate * LockupDays,
                              IF position.remaining = 0 THEN 0
                              ELSE MinRate * LockupDays + (MaxRate - MinRate) * position.remaining)
    ]_vars

=============================================================================
