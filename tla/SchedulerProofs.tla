-------------------------- MODULE SchedulerProofs ---------------------------
(***************************************************************************)
(* What TLAPS proves of the scheduler among the interactive fetches, for   *)
(* any stores, links, users, delays and cooldowns: the types of everything *)
(* it keeps, that no link is ever parked beyond ParkBound, that it does    *)
(* not ask a store whose wall it knows, that no link is fetched again      *)
(* before it has rested, and how far apart it puts what it defers.         *)
(***************************************************************************)
EXTENDS SchedulerHistory, TLAPS, FiniteSetTheorems

-----------------------------------------------------------------------------
(* The parts. *)

LEMMA DueBatchesAreShort ==
  ASSUME NEW b \in DueBatches
  PROVE  b \in Seq(Link) /\ Len(b) <= BatchSize
<1>1. Due \subseteq Link
  BY DEF Due
<1>2. Cardinality(Due) \in Nat
  BY <1>1, SchedulerAssumption, FS_Subset, FS_CardinalityType
<1>3. BatchLength \in Nat /\ BatchLength <= BatchSize
  BY <1>2, SchedulerAssumption DEF BatchLength
<1>4. b \in [1..BatchLength -> Link]
  BY <1>1 DEF DueBatches
<1> QED
  BY <1>3, <1>4

LEMMA TailOfBatch ==
  ASSUME batch \in Seq(Link), batch # <<>>
  PROVE  /\ Tail(batch) \in Seq(Link) /\ Len(Tail(batch)) = Len(batch) - 1
         /\ Len(batch) \in Nat \ {0}
         /\ Item \in Link /\ ItemStore \in Store
  BY SchedulerAssumption DEF Item, ItemStore

LEMMA CloserIsSmaller ==
  /\ \A t \in Nat : Closer(t) \in Nat /\ Closer(t) <= t
  /\ \A t \in Nat \cup {-1} : Closer(t) \in Nat \cup {-1} /\ Closer(t) <= t
  BY DEF Closer

LEMMA FirstRung == Breaker!Cooldown(1) \in Nat \ {0} /\ MaxCooldown \in Nat
  BY LadderAssumption, SchedulerAssumption

\* A record_block leaves a cooldown of the ladder behind.
LEMMA BlockIsTyped ==
  ASSUME Breaker!TypeOK, NEW k \in Store, Breaker!RecordBlock(k)
  PROVE  /\ Breaker!TypeOK'
         /\ until'[k] \in Breaker!Cooldown(1)..MaxCooldown
         /\ \A j \in Store \ {k} : until'[j] = until[j]
<1> DEFINE n == Breaker!NextStrike(strikes[k])
<1>1. n \in 1..MaxStrikes
  BY SchedulerAssumption DEF Breaker!TypeOK, Breaker!NextStrike
<1>2. /\ Breaker!Cooldown(n) \in 1..MaxCooldown
      /\ Breaker!Cooldown(1) \in 1..Breaker!Cooldown(n)
  BY <1>1, LadderAssumption, SchedulerAssumption
<1>3. /\ until' = [until EXCEPT ![k] = 0 + Breaker!Cooldown(n)]
      /\ strikes' = [strikes EXCEPT ![k] = n]
  BY DEF Breaker!RecordBlock
<1> QED
  BY <1>1, <1>2, <1>3, SchedulerAssumption DEF Breaker!TypeOK

LEMMA SuccessIsTyped ==
  ASSUME Breaker!TypeOK, NEW k \in Store, Breaker!RecordSuccess(k)
  PROVE  Breaker!TypeOK' /\ \A j \in Store : until'[j] <= until[j]
  BY SchedulerAssumption DEF Breaker!TypeOK, Breaker!RecordSuccess, Breaker!NoCooldown

LEMMA AskingIsTyped ==
  ASSUME Breaker!TypeOK, NEW k \in Store, Breaker!BlockedUntil(k)
  PROVE  Breaker!TypeOK' /\ \A j \in Store : until'[j] <= until[j]
  BY DEF Breaker!TypeOK, Breaker!BlockedUntil, Breaker!Lapsed, Breaker!NoCooldown

LEMMA AcquireIsTyped ==
  ASSUME Ledger!TypeOK, NEW c \in Ledger!Caller, NEW k \in Store,
         NEW i \in Ledger!Intervals(c), Ledger!Acquire(c, k, i)
  PROVE  Ledger!TypeOK'
<1>1. i \in Nat
  BY SchedulerAssumption DEF Ledger!Intervals
<1>2. nextFree[k] \in Nat
  BY DEF Ledger!TypeOK
<1>3. Ledger!SlotFor(c, k) \in Nat
  BY <1>2, SchedulerAssumption
  DEF Ledger!SlotFor, Ledger!PoliteSlot, Ledger!CappedSlot, Ledger!Later
<1>4. Ledger!Later(nextFree[k], Ledger!SlotFor(c, k) + i) \in Nat
  BY <1>1, <1>2, <1>3 DEF Ledger!Later
<1> QED
  BY <1>3, <1>4 DEF Ledger!TypeOK, Ledger!Acquire, Ledger!Reservation

LEMMA FireIsTyped ==
  ASSUME Ledger!TypeOK, NEW c \in Ledger!Caller, Ledger!Fire(c)
  PROVE  Ledger!TypeOK'
  BY DEF Ledger!TypeOK, Ledger!Fire

LEMMA LedgerTicksTyped ==
  ASSUME Ledger!TypeOK, Tick
  PROVE  Ledger!TypeOK'
<1>1. nextFree' \in [Store -> Nat]
  BY CloserIsSmaller DEF Ledger!TypeOK, Tick
<1>2. ASSUME NEW c \in Ledger!Caller
      PROVE  [slot[c] EXCEPT !.at = Closer(@)] \in Ledger!Reservation \cup {Ledger!Idle}
  <2>1. CASE slot[c] \in Ledger!Reservation
    <3>1. Closer(slot[c].at) \in Nat
      BY <2>1, CloserIsSmaller DEF Ledger!Reservation
    <3> QED
      BY <2>1, <3>1 DEF Ledger!Reservation
  <2>2. CASE slot[c] = Ledger!Idle
    BY <2>2 DEF Ledger!Idle, Closer
  <2> QED
    BY <2>1, <2>2 DEF Ledger!TypeOK
<1> QED
  BY <1>1, <1>2 DEF Ledger!TypeOK, Tick

\* Rescheduling, to any instant, leaves rows.
LEMMA RescheduleIsTyped ==
  ASSUME row \in Rows, NEW l \in Link, NEW t \in Nat, Reschedule(l, t)
  PROVE  /\ row' \in Rows
         /\ \A j \in Link : row'[j].next = row[j].next \/ row'[j].next = t
  BY DEF Rows, Reschedule, Live

LEMMA StaggerIsTyped ==
  ASSUME offset \in [Store -> Nat], NEW k \in Store, Stagger(k)
  PROVE  /\ offset' \in [Store -> Nat]
         /\ \A j \in Store : offset'[j] <= offset[j] + SchedDelay + SchedJitter
  BY SchedulerAssumption DEF Stagger

\* What a caller of the breaker does to it, whatever the outcome.
LEMMA TellBreakerIsTyped ==
  ASSUME TypeOK, NEW k \in Store, NEW o \in Outcomes,
         TellBreaker(k, o)
  PROVE  /\ Breaker!TypeOK'
         /\ \A j \in Store : until'[j] <= until[j] \/ until'[j] <= MaxCooldown
         /\ o = "blocked" => until'[k] \in Breaker!Cooldown(1)..MaxCooldown
<1>1. Breaker!TypeOK
  BY DEF TypeOK
<1>3. CASE o = "blocked"
  <2>1. Breaker!RecordBlock(k)
    BY <1>3 DEF TellBreaker, Reached
  <2>2. \A j \in Store : until[j] \in Nat \cup {-1}
    BY <1>1 DEF Breaker!TypeOK, Breaker!NoCooldown
  <2> QED
    BY <1>1, <2>1, <2>2, BlockIsTyped
<1>4. CASE o \in Reached
  <2>1. Breaker!RecordSuccess(k)
    BY <1>4 DEF TellBreaker, Reached
  <2> QED
    BY <1>1, <1>4, <2>1, SuccessIsTyped DEF Reached
<1>5. CASE o = "fetch_failed"
  <2>1. UNCHANGED <<until, strikes>>
    BY <1>5 DEF TellBreaker, Reached
  <2>2. \A j \in Store : until[j] \in Nat \cup {-1}
    BY <1>1 DEF Breaker!TypeOK, Breaker!NoCooldown
  <2> QED
    BY <1>1, <1>5, <2>1, <2>2 DEF Breaker!TypeOK
<1> QED
  BY <1>3, <1>4, <1>5 DEF Outcomes, Reached

-----------------------------------------------------------------------------
(* The bounds. *)

\* n stagger slots of one cycle.
StaggerSum(n) == n * (SchedDelay + SchedJitter)

LEMMA StaggerSumGrows ==
  ASSUME NEW n \in Nat
  PROVE  /\ StaggerSum(n) \in Nat
         /\ StaggerSum(n + 1) = StaggerSum(n) + SchedDelay + SchedJitter
         /\ \A m \in Nat : m <= n => StaggerSum(m) <= StaggerSum(n)
<1> DEFINE d == SchedDelay + SchedJitter
<1>1. d \in Nat
  BY SchedulerAssumption
<1>2. n * d \in Nat /\ (n + 1) * d = n * d + d
  BY <1>1
<1>3. ASSUME NEW m \in Nat, m <= n PROVE m * d <= n * d
  BY <1>1, <1>3
<1> QED
  BY <1>2, <1>3, SchedulerAssumption DEF StaggerSum

LEMMA StaggerSumOfNone == StaggerSum(0) = 0
  BY SchedulerAssumption DEF StaggerSum

LEMMA ParkBoundCovers ==
  /\ ParkBound \in Nat
  /\ Period <= ParkBound /\ NextMorning <= ParkBound /\ Backoff <= ParkBound
  /\ MaxCooldown + StaggerSum(BatchSize - 1) <= ParkBound
<1> DEFINE s == MaxCooldown + StaggerSum(BatchSize - 1)
<1>1. s \in Nat
  BY StaggerSumGrows, SchedulerAssumption
<1>2. ParkBound = Ledger!Later(Ledger!Later(Period, NextMorning), Ledger!Later(Backoff, s))
  BY DEF ParkBound, StaggerSum
<1> HIDE DEF s
<1>3. ParkBound \in Nat /\ Period <= ParkBound /\ NextMorning <= ParkBound
      /\ Backoff <= ParkBound /\ s <= ParkBound
  BY <1>1, <1>2, SchedulerAssumption DEF Ledger!Later
<1> QED
  BY <1>3 DEF s

\* How many items of the batch have taken their stagger slot at most.
Slots == IF pc = "asleep" THEN 0
         ELSE IF pc \in {"save", "backoff"} THEN BatchSize - Len(batch) + 1
         ELSE BatchSize - Len(batch)

CooldownsBounded == \A k \in Store : until[k] <= MaxCooldown
BatchBounded == Len(batch) <= BatchSize
OffsetsBounded == \A k \in Store : offset[k] <= StaggerSum(Slots)
ResultBounded == result.next <= ParkBound

\* The strengthening of NoLinkIsParkedForever: what a link can be parked by is
\* bounded before it is used.
ParkInv ==
  /\ CooldownsBounded
  /\ BatchBounded
  /\ OffsetsBounded
  /\ ResultBounded
  /\ NoLinkIsParkedForever

-----------------------------------------------------------------------------
(* The scheduler's own steps. *)

Preserved == TypeOK' /\ ParkInv'

LEMMA BreakerRests ==
  ASSUME Breaker!TypeOK, UNCHANGED <<until, strikes>> PROVE Breaker!TypeOK'
  BY DEF Breaker!TypeOK

LEMMA LedgerRests ==
  ASSUME Ledger!TypeOK, UNCHANGED <<nextFree, slot>> PROVE Ledger!TypeOK'
  BY DEF Ledger!TypeOK

\* Slots while the scheduler is at work: a slot per item that has left the
\* batch, and one for the item in hand once its outcome is known.
LEMMA SlotsInRange ==
  ASSUME CycleTyped, BatchBounded
  PROVE  /\ BatchSize - Len(batch) \in Nat
         /\ Slots \in Nat
         /\ batch # <<>> => BatchSize - Len(batch) <= BatchSize - 1
  BY SchedulerAssumption DEF CycleTyped, BatchBounded, Slots

\* A stagger slot ahead of the item in hand never pushes it beyond ParkBound.
LEMMA BehindTheCooldown ==
  ASSUME TypeOK, ParkInv, pc # "asleep", pc \notin {"save", "backoff"},
         batch # <<>>, NEW u \in 0..MaxCooldown, NEW k \in Store
  PROVE  u + offset[k] \in Nat /\ u + offset[k] <= ParkBound
<1>1. offset[k] \in Nat /\ offset[k] <= StaggerSum(BatchSize - Len(batch))
  BY DEF TypeOK, CycleTyped, ParkInv, OffsetsBounded, Slots
<1> DEFINE m == BatchSize - Len(batch)
<1>2. m \in Nat /\ BatchSize - 1 \in Nat /\ m <= BatchSize - 1
  BY SlotsInRange, SchedulerAssumption DEF TypeOK, ParkInv
<1> HIDE DEF m
<1>3. StaggerSum(m) <= StaggerSum(BatchSize - 1) /\ StaggerSum(m) \in Nat /\ StaggerSum(BatchSize - 1) \in Nat
  BY <1>2, StaggerSumGrows
<1>4. offset[k] <= StaggerSum(m)
  BY <1>1 DEF m
<1> QED
  BY <1>1, <1>3, <1>4, ParkBoundCovers, SchedulerAssumption

LEMMA CycleHeldPreserves ==
  ASSUME TypeOK, ParkInv, CycleHeld PROVE Preserved
  BY BreakerRests, LedgerRests, SchedulerAssumption
  DEF CycleHeld, Preserved, TypeOK, CycleTyped, UsersTyped, breakerVars, ledgerVars,
      ParkInv, CooldownsBounded, BatchBounded, OffsetsBounded, Slots, ResultBounded,
      NoLinkIsParkedForever, ParkBound

LEMMA CycleBeginsPreserves ==
  ASSUME TypeOK, ParkInv, CycleBegins PROVE Preserved
<1>1. TypeOK'
  BY DueBatchesAreShort, BreakerRests, LedgerRests, SchedulerAssumption
  DEF CycleBegins, TypeOK, CycleTyped, UsersTyped, breakerVars, ledgerVars
<1>2. BatchBounded'
  BY DueBatchesAreShort DEF CycleBegins, ParkInv, BatchBounded
<1>3. OffsetsBounded'
  <2>1. \A k \in Store : offset[k] = 0
    BY StaggerSumOfNone DEF CycleBegins, TypeOK, CycleTyped, ParkInv, OffsetsBounded, Slots
  <2>2. Slots' \in Nat
    BY <1>1, <1>2, SchedulerAssumption DEF TypeOK, CycleTyped, BatchBounded, Slots
  <2>3. StaggerSum(Slots') \in Nat
    BY <2>2, StaggerSumGrows
  <2> QED
    BY <2>1, <2>3 DEF CycleBegins, OffsetsBounded, StaggerSum
<1> QED
  BY <1>1, <1>2, <1>3
  DEF CycleBegins, Preserved, breakerVars, ParkInv, CooldownsBounded, ResultBounded,
      NoLinkIsParkedForever, ParkBound

LEMMA CycleEndsPreserves ==
  ASSUME TypeOK, ParkInv, CycleEnds PROVE Preserved
<1>1. TypeOK'
  BY BreakerRests, LedgerRests, SchedulerAssumption
  DEF CycleEnds, TypeOK, CycleTyped, UsersTyped, breakerVars, ledgerVars
<1>2. OffsetsBounded'
  BY StaggerSumOfNone DEF CycleEnds, OffsetsBounded, Slots, StaggerSum
<1> QED
  BY <1>1, <1>2
  DEF CycleEnds, Preserved, breakerVars, ParkInv, CooldownsBounded, BatchBounded,
      ResultBounded, NoLinkIsParkedForever, ParkBound

\* Where a step leaves the offsets when it stays on the item or moves on.
LEMMA OffsetsFollow ==
  ASSUME TypeOK, ParkInv, TypeOK', BatchBounded', pc' # "asleep", pc # "asleep",
         NEW m \in {0, 1}, Slots' >= Slots + m,
         \A k \in Store : \/ offset'[k] <= offset[k]
                          \/ m = 1 /\ offset'[k] <= offset[k] + SchedDelay + SchedJitter
  PROVE  OffsetsBounded'
<1>1. Slots \in Nat /\ Slots' \in Nat
  BY SchedulerAssumption DEF TypeOK, CycleTyped, ParkInv, BatchBounded, Slots
<1>2. StaggerSum(Slots) \in Nat /\ StaggerSum(Slots') \in Nat
  BY <1>1, StaggerSumGrows
<1>3. \A k \in Store : offset[k] \in Nat /\ offset'[k] \in Nat /\ offset[k] <= StaggerSum(Slots)
  BY DEF TypeOK, CycleTyped, ParkInv, OffsetsBounded
<1>4. CASE m = 0
  <2>1. StaggerSum(Slots) <= StaggerSum(Slots')
    BY <1>1, <1>4, StaggerSumGrows
  <2> QED
    BY <1>2, <1>3, <1>4, <2>1 DEF OffsetsBounded, StaggerSum
<1>5. CASE m = 1
  <2>1. StaggerSum(Slots) + SchedDelay + SchedJitter <= StaggerSum(Slots')
    BY <1>1, <1>5, StaggerSumGrows
  <2>2. \A k \in Store : offset'[k] <= offset[k] + SchedDelay + SchedJitter
    BY <1>3, SchedulerAssumption
  <2> QED
    BY <1>2, <1>3, <2>1, <2>2, SchedulerAssumption DEF OffsetsBounded, StaggerSum
<1> QED
  BY <1>4, <1>5

LEMMA DeferPreserves ==
  ASSUME TypeOK, ParkInv, Defer PROVE Preserved
<1>1. /\ pc = "next" /\ batch # <<>> /\ Item \in Link /\ ItemStore \in Store
      /\ batch \in Seq(Link) /\ batch' = Tail(batch) /\ pc' = "next"
      /\ batch' \in Seq(Link) /\ Len(batch') = Len(batch) - 1 /\ Len(batch) \in Nat \ {0}
  BY TailOfBatch DEF Defer, NextItem, TypeOK, CycleTyped
<1> DEFINE t == until[ItemStore] + offset[ItemStore]
<1>2. t \in Nat /\ t <= ParkBound
  <2>1. until[ItemStore] \in 0..MaxCooldown
    BY <1>1, SchedulerAssumption
    DEF Defer, Breaker!Open, TypeOK, Breaker!TypeOK, Breaker!NoCooldown,
        ParkInv, CooldownsBounded
  <2> QED
    BY <1>1, <2>1, BehindTheCooldown
<1>3. row' \in Rows /\ \A l \in Link : row'[l].next = row[l].next \/ row'[l].next = t
  BY <1>1, <1>2, RescheduleIsTyped DEF Defer, TypeOK
<1>4. /\ offset' \in [Store -> Nat]
      /\ \A k \in Store : offset'[k] <= offset[k] + SchedDelay + SchedJitter
  BY <1>1, StaggerIsTyped DEF Defer, TypeOK, CycleTyped
<1>5. TypeOK'
  BY <1>1, <1>3, <1>4, BreakerRests, LedgerRests
  DEF Defer, TypeOK, CycleTyped, UsersTyped, breakerVars, ledgerVars
<1>6. NoLinkIsParkedForever'
  BY <1>2, <1>3 DEF ParkInv, NoLinkIsParkedForever, ParkBound
<1>7. BatchBounded'
  BY <1>1, SchedulerAssumption DEF ParkInv, BatchBounded
<1>8. OffsetsBounded'
  <2>1. Slots' >= Slots + 1
    BY <1>1, SchedulerAssumption DEF Slots
  <2> QED
    BY <1>1, <1>4, <1>5, <1>7, <2>1, OffsetsFollow
<1> QED
  BY <1>5, <1>6, <1>7, <1>8
  DEF Preserved, Defer, breakerVars, ParkInv, CooldownsBounded, ResultBounded, ParkBound

LEMMA PickPreserves ==
  ASSUME TypeOK, ParkInv, Pick PROVE Preserved
<1>1. /\ pc = "next" /\ pc' = "wait" /\ batch # <<>> /\ ItemStore \in Store
  BY TailOfBatch DEF Pick, TypeOK, CycleTyped
<1>2. Breaker!TypeOK' /\ \A k \in Store : until'[k] <= until[k]
  BY <1>1, AskingIsTyped DEF Pick, TypeOK
<1>3. Ledger!TypeOK'
  BY <1>1, AcquireIsTyped DEF Pick, TypeOK, Ledger!Caller
<1>4. TypeOK'
  BY <1>1, <1>2, <1>3 DEF Pick, TypeOK, CycleTyped, UsersTyped
<1>5. CooldownsBounded'
  BY <1>2, SchedulerAssumption
  DEF ParkInv, CooldownsBounded, TypeOK, Breaker!TypeOK, Breaker!NoCooldown
<1> QED
  BY <1>1, <1>4, <1>5
  DEF Pick, Preserved, ParkInv, BatchBounded, OffsetsBounded, Slots, ResultBounded,
      NoLinkIsParkedForever, ParkBound

LEMMA StartFetchPreserves ==
  ASSUME TypeOK, ParkInv, StartFetch PROVE Preserved
<1>1. Ledger!TypeOK'
  BY FireIsTyped DEF StartFetch, TypeOK, Ledger!Caller
<1>2. TypeOK'
  BY <1>1, BreakerRests DEF StartFetch, TypeOK, CycleTyped, UsersTyped, breakerVars
<1> QED
  BY <1>2
  DEF StartFetch, Preserved, breakerVars, ParkInv, CooldownsBounded, BatchBounded,
      OffsetsBounded, Slots, ResultBounded, NoLinkIsParkedForever, ParkBound

LEMMA FetchReturnsPreserves ==
  ASSUME TypeOK, ParkInv, FetchReturns PROVE Preserved
<1>1. PICK o \in Outcomes :
        /\ TellBreaker(ItemStore, o)
        /\ result' = [outcome |-> o, next |-> NextCheck(o)]
        /\ IF o = "blocked" THEN Stagger(ItemStore) ELSE UNCHANGED offset
  BY DEF FetchReturns
<1>2. /\ pc = "fetch" /\ pc' = "save" /\ batch # <<>> /\ batch' = batch
      /\ ItemStore \in Store /\ Len(batch) \in Nat \ {0}
  BY TailOfBatch DEF FetchReturns, TypeOK, CycleTyped
<1>3. /\ Breaker!TypeOK'
      /\ overtaken' \in BOOLEAN
      /\ \A k \in Store : until'[k] <= until[k] \/ until'[k] <= MaxCooldown
      /\ o = "blocked" => until'[ItemStore] \in Breaker!Cooldown(1)..MaxCooldown
  BY <1>1, <1>2, TellBreakerIsTyped DEF FetchReturns, TypeOK
<1>4. NextCheck(o) \in Nat /\ NextCheck(o) <= ParkBound
  <2>1. CASE o = "blocked"
    <3>1. NextCheck(o) = until'[ItemStore] + offset[ItemStore]
      BY <2>1 DEF NextCheck
    <3>2. until'[ItemStore] \in 0..MaxCooldown
      BY <1>3, <2>1, FirstRung
    <3> QED
      BY <1>2, <3>1, <3>2, BehindTheCooldown
  <2>2. CASE o # "blocked"
    BY <2>2, ParkBoundCovers, SchedulerAssumption DEF NextCheck
  <2> QED
    BY <2>1, <2>2
<1>5. /\ offset' \in [Store -> Nat]
      /\ \A k \in Store : \/ offset'[k] <= offset[k]
                          \/ offset'[k] <= offset[k] + SchedDelay + SchedJitter
  BY <1>1, <1>2, StaggerIsTyped DEF TypeOK, CycleTyped
<1>6. TypeOK'
  BY <1>1, <1>2, <1>3, <1>4, <1>5, LedgerRests
  DEF FetchReturns, TypeOK, CycleTyped, UsersTyped, ledgerVars
<1>7. CooldownsBounded'
  BY <1>3, SchedulerAssumption
  DEF ParkInv, CooldownsBounded, TypeOK, Breaker!TypeOK, Breaker!NoCooldown
<1>8. BatchBounded'
  BY <1>2 DEF ParkInv, BatchBounded
<1>9. OffsetsBounded'
  <2>1. Slots' >= Slots + 1
    BY <1>2, SchedulerAssumption DEF Slots
  <2> QED
    BY <1>2, <1>5, <1>6, <1>8, <2>1, OffsetsFollow
<1>10. ResultBounded'
  BY <1>1, <1>4 DEF ResultBounded, ParkBound
<1> QED
  BY <1>6, <1>7, <1>8, <1>9, <1>10
  DEF FetchReturns, Preserved, ParkInv, NoLinkIsParkedForever, ParkBound

\* Going on to the back-off disturbs nothing but the result.
LEMMA TurningToBackOffPreserves ==
  ASSUME TypeOK, ParkInv, FetchRaises \/ SaveFails PROVE Preserved
<1>1. /\ pc \in {"fetch", "save"} /\ pc' = "backoff" /\ batch # <<>> /\ batch' = batch
      /\ offset' = offset /\ result' \in {result, NoResult}
      /\ Len(batch) \in Nat \ {0}
  BY DEF FetchRaises, SaveFails, TypeOK, CycleTyped
<1>2. TypeOK'
  BY <1>1, BreakerRests, LedgerRests
  DEF FetchRaises, SaveFails, TypeOK, CycleTyped, UsersTyped, breakerVars, ledgerVars,
      NoResult
<1>3. BatchBounded'
  BY <1>1 DEF ParkInv, BatchBounded
<1>4. OffsetsBounded'
  <2>1. Slots' >= Slots + 0
    BY <1>1, SchedulerAssumption DEF Slots
  <2>2. \A k \in Store : offset'[k] <= offset[k]
    BY <1>1 DEF TypeOK, CycleTyped
  <2> QED
    BY <1>1, <1>2, <1>3, <2>1, <2>2, OffsetsFollow
<1>5. ResultBounded'
  BY <1>1, ParkBoundCovers DEF ParkInv, ResultBounded, NoResult, ParkBound
<1> QED
  BY <1>2, <1>3, <1>4, <1>5
  DEF FetchRaises, SaveFails, Preserved, breakerVars, ParkInv, CooldownsBounded,
      NoLinkIsParkedForever, ParkBound

\* Leaving the item, with its row rescheduled within the bound.
LEMMA LeavingTheItem ==
  ASSUME TypeOK, ParkInv, NextItem, pc \in {"save", "backoff"},
         UNCHANGED <<breakerVars, ledgerVars, wake, offset, pausedUntil, user>>,
         result' \in {result, NoResult},
         row' \in Rows, NEW t \in Nat, t <= ParkBound,
         \A l \in Link : row'[l].next = row[l].next \/ row'[l].next = t
  PROVE  Preserved
<1>1. /\ batch # <<>> /\ batch' = Tail(batch) /\ pc' = "next"
      /\ batch' \in Seq(Link) /\ Len(batch') = Len(batch) - 1 /\ Len(batch) \in Nat \ {0}
  BY TailOfBatch DEF NextItem, TypeOK, CycleTyped
<1>2. TypeOK'
  BY <1>1, BreakerRests, LedgerRests
  DEF TypeOK, CycleTyped, UsersTyped, breakerVars, ledgerVars, NoResult
<1>3. BatchBounded'
  BY <1>1, SchedulerAssumption DEF ParkInv, BatchBounded
<1>4. OffsetsBounded'
  <2>1. Slots' >= Slots + 0
    BY <1>1, SchedulerAssumption DEF Slots
  <2>2. \A k \in Store : offset'[k] <= offset[k]
    BY DEF TypeOK, CycleTyped
  <2> QED
    BY <1>1, <1>2, <1>3, <2>1, <2>2, OffsetsFollow
<1>5. ResultBounded'
  BY ParkBoundCovers DEF ParkInv, ResultBounded, NoResult, ParkBound
<1>6. NoLinkIsParkedForever'
  BY DEF ParkInv, NoLinkIsParkedForever, ParkBound
<1> QED
  BY <1>2, <1>3, <1>4, <1>5, <1>6
  DEF Preserved, breakerVars, ParkInv, CooldownsBounded

LEMMA SavePreserves ==
  ASSUME TypeOK, ParkInv, Save PROVE Preserved
<1>1. Item \in Link
  BY TailOfBatch DEF Save, TypeOK, CycleTyped
<1>2. result.next \in Nat /\ result.next <= ParkBound
  BY DEF TypeOK, CycleTyped, ParkInv, ResultBounded
<1>3. /\ row' \in Rows
      /\ \A l \in Link : row'[l].next = row[l].next \/ row'[l].next = result.next
  <2>1. CASE ~Live(Item)
    <3>1. row' = row /\ row \in Rows
      BY <2>1 DEF Save, TypeOK
    <3> QED
      BY <3>1
  <2>2. CASE Live(Item)
    <3> DEFINE last == IF result.outcome = "blocked" THEN row[Item].last
                       ELSE Stamp(result.outcome)
    <3>1. row' = [row EXCEPT ![Item].next = result.next, ![Item].last = last]
      BY <2>2 DEF Save
    <3>2. row \in Rows
      BY DEF TypeOK
    <3>3. last \in {"never", "answered", "unanswered"}
      BY <1>1, <3>2 DEF Rows, Stamp
    <3> HIDE DEF last
    <3> QED
      BY <1>1, <1>2, <3>1, <3>2, <3>3 DEF Rows
  <2> QED
    BY <2>1, <2>2
<1> QED
  BY <1>2, <1>3, LeavingTheItem DEF Save

LEMMA BackOffPreserves ==
  ASSUME TypeOK, ParkInv, BackOff PROVE Preserved
<1>1. Item \in Link
  BY TailOfBatch DEF BackOff, TypeOK, CycleTyped
<1>2. Backoff \in Nat /\ Backoff <= ParkBound
  BY SchedulerAssumption, ParkBoundCovers
<1>3. /\ row' \in Rows
      /\ \A l \in Link : row'[l].next = row[l].next \/ row'[l].next = Backoff
  BY <1>1, <1>2, RescheduleIsTyped DEF BackOff, TypeOK
<1> QED
  BY <1>2, <1>3, LeavingTheItem DEF BackOff

-----------------------------------------------------------------------------
(* The interactive fetches and the operator's edits. *)

\* Steps that leave the cycle and the pause to the scheduler.
LEMMA CycleRests ==
  ASSUME UNCHANGED cycleVars
  PROVE  /\ CycleTyped => CycleTyped'
         /\ BatchBounded => BatchBounded'
         /\ OffsetsBounded => OffsetsBounded'
         /\ ResultBounded => ResultBounded'
  BY DEF cycleVars, CycleTyped, BatchBounded, OffsetsBounded, Slots, ResultBounded, ParkBound

LEMMA ApproachIsTyped ==
  ASSUME TypeOK, CooldownsBounded, NEW u \in Interactive, NEW k \in Store,
         NEW l \in Link \cup {NoLink}, Approach(u, k, l)
  PROVE  Breaker!TypeOK' /\ Ledger!TypeOK' /\ UsersTyped' /\ CooldownsBounded'
<1>1. Breaker!TypeOK' /\ \A j \in Store : until'[j] <= until[j]
  BY AskingIsTyped DEF Approach, TypeOK
<1>2. Ledger!TypeOK'
  BY AcquireIsTyped DEF Approach, TypeOK, Ledger!Caller
<1>3. UsersTyped'
  BY DEF Approach, TypeOK, UsersTyped
<1>4. CooldownsBounded'
  BY <1>1, SchedulerAssumption
  DEF CooldownsBounded, TypeOK, Breaker!TypeOK, Breaker!NoCooldown
<1> QED
  BY <1>1, <1>2, <1>3, <1>4

LEMMA CheckNowPreserves ==
  ASSUME TypeOK, ParkInv, NEW u \in Interactive, NEW l \in Link, CheckNow(u, l)
  PROVE  Preserved
<1>1. Breaker!TypeOK' /\ Ledger!TypeOK' /\ UsersTyped' /\ CooldownsBounded'
  BY ApproachIsTyped, SchedulerAssumption DEF CheckNow, ParkInv
<1> QED
  BY <1>1, CycleRests
  DEF CheckNow, Preserved, TypeOK, ParkInv, NoLinkIsParkedForever, ParkBound

LEMMA PreviewPreserves ==
  ASSUME TypeOK, ParkInv, NEW u \in Interactive, NEW k \in Store, Preview(u, k)
  PROVE  Preserved
<1>1. Breaker!TypeOK' /\ Ledger!TypeOK' /\ UsersTyped' /\ CooldownsBounded'
  <2>1. CASE Approach(u, k, NoLink)
    BY <2>1, ApproachIsTyped DEF ParkInv
  <2>2. CASE UNCHANGED <<until, strikes, ledgerVars, user>>
    BY <2>2, BreakerRests, LedgerRests
    DEF ledgerVars, TypeOK, UsersTyped, ParkInv, CooldownsBounded
  <2> QED
    BY <2>1, <2>2 DEF Preview
<1> QED
  BY <1>1, CycleRests, SchedulerAssumption
  DEF Preview, Preserved, TypeOK, ParkInv, NoLinkIsParkedForever, ParkBound

LEMMA UserFetchPreserves ==
  ASSUME TypeOK, ParkInv, NEW u \in Interactive, UserFetch(u)
  PROVE  Preserved
<1>1. Ledger!TypeOK'
  BY FireIsTyped DEF UserFetch, TypeOK, Ledger!Caller
<1>2. Breaker!TypeOK' /\ CooldownsBounded'
  BY BreakerRests DEF UserFetch, TypeOK, breakerVars, ParkInv, CooldownsBounded
<1>3. UsersTyped'
  BY DEF UserFetch, TypeOK, UsersTyped
<1> QED
  BY <1>1, <1>2, <1>3, CycleRests
  DEF UserFetch, Preserved, TypeOK, breakerVars, ParkInv, NoLinkIsParkedForever, ParkBound

LEMMA UserReturnsPreserves ==
  ASSUME TypeOK, ParkInv, NEW u \in Interactive, UserReturns(u)
  PROVE  Preserved
<1> DEFINE l == user[u].link
           k == user[u].store
<1>1. PICK o \in Outcomes :
        /\ TellBreaker(k, o)
        /\ \/ /\ o = "ok" /\ l # NoLink
              /\ Live(l)
              /\ row' = [row EXCEPT ![l].last = Stamp(o)]
           \/ UNCHANGED row
  BY DEF UserReturns
<1>2. user[u] \in [pc : {"idle", "wait", "fetch"}, store : Store \cup {NoStore},
                   link : Link \cup {NoLink}]
  BY DEF TypeOK, UsersTyped
<1>3. row' \in Rows /\ \A j \in Link : row'[j].next = row[j].next
  BY <1>1, <1>2 DEF TypeOK, Rows, Stamp
<1>4. UsersTyped'
  BY DEF UserReturns, TypeOK, UsersTyped, AtRest
<1>5. /\ Breaker!TypeOK'
      /\ overtaken' \in BOOLEAN
      /\ CooldownsBounded'
  <2>1. k \in Store
    BY DEF UserReturns, TypeOK, UsersTyped
  <2>2. /\ Breaker!TypeOK'
        /\ overtaken' \in BOOLEAN
        /\ \A j \in Store : until'[j] <= until[j] \/ until'[j] <= MaxCooldown
    BY <1>1, <2>1, TellBreakerIsTyped DEF UserReturns, Overtakes, TypeOK
  <2> QED
    BY <2>2, SchedulerAssumption
    DEF ParkInv, CooldownsBounded, TypeOK, Breaker!TypeOK, Breaker!NoCooldown
<1> QED
  BY <1>3, <1>4, <1>5, LedgerRests, CycleRests
  DEF UserReturns, Preserved, TypeOK, ledgerVars, ParkInv, NoLinkIsParkedForever, ParkBound

\* The operator's edits of the rows.
LEMMA AddLinkPreserves ==
  ASSUME TypeOK, ParkInv, NEW l \in Link, AddLink(l)
  PROVE  Preserved
<1>1. row' \in Rows /\ \A j \in Link : row'[j].next = row[j].next \/ row'[j].next = Never
  BY DEF AddLink, TypeOK, Rows, FreshRow, Never
<1>2. pausedUntil' \in Nat
  BY SchedulerAssumption DEF AddLink, TypeOK
<1>3. NoLinkIsParkedForever'
  BY <1>1, ParkBoundCovers DEF ParkInv, NoLinkIsParkedForever, ParkBound, Never
<1> QED
  BY <1>1, <1>2, <1>3, CycleRests, BreakerRests, LedgerRests
  DEF AddLink, Preserved, TypeOK, UsersTyped, breakerVars, ledgerVars, ParkInv,
      CooldownsBounded

LEMMA UnlinkPreserves ==
  ASSUME TypeOK, ParkInv, NEW l \in Link, Unlink(l)
  PROVE  Preserved
<1>1. row' \in Rows /\ \A j \in Link : row'[j].next = row[j].next \/ row'[j].next = Never
  BY DEF Unlink, TypeOK, Rows, Gone, Never
<1>2. NoLinkIsParkedForever'
  BY <1>1, ParkBoundCovers DEF ParkInv, NoLinkIsParkedForever, ParkBound, Never
<1> QED
  BY <1>1, <1>2, CycleRests, BreakerRests, LedgerRests
  DEF Unlink, Preserved, TypeOK, UsersTyped, breakerVars, ledgerVars, ParkInv,
      CooldownsBounded

LEMMA EditSchedulePreserves ==
  ASSUME TypeOK, ParkInv, NEW l \in Link, EditSchedule(l)
  PROVE  Preserved
<1>1. row' \in Rows /\ \A j \in Link : row'[j].next = row[j].next \/ row'[j].next = Period
  BY RescheduleIsTyped, SchedulerAssumption DEF EditSchedule, TypeOK
<1>2. NoLinkIsParkedForever'
  BY <1>1, ParkBoundCovers DEF ParkInv, NoLinkIsParkedForever, ParkBound
<1> QED
  BY <1>1, <1>2, CycleRests, BreakerRests, LedgerRests
  DEF EditSchedule, Preserved, TypeOK, UsersTyped, breakerVars, ledgerVars, ParkInv,
      CooldownsBounded

-----------------------------------------------------------------------------
(* A restart, and time. *)

\* With everything in memory as after a start, any bounded rows will do.
LEMMA AFreshStart ==
  ASSUME row \in Rows, NoLinkIsParkedForever,
         until = [k \in Store |-> Breaker!NoCooldown],
         strikes = [k \in Store |-> 0], overtaken = FALSE,
         nextFree = [k \in Store |-> 0], slot = [c \in Ledger!Caller |-> Ledger!Idle],
         pc = "asleep", wake = 0, batch = <<>>,
         offset = [k \in Store |-> 0], result = NoResult, pausedUntil = 0,
         user = [u \in Interactive |-> AtRest]
  PROVE  TypeOK /\ ParkInv
<1>1. Breaker!TypeOK /\ Ledger!TypeOK
  BY SchedulerAssumption DEF Breaker!TypeOK, Breaker!NoCooldown, Ledger!TypeOK
<1>2. CycleTyped /\ UsersTyped
  BY DEF CycleTyped, UsersTyped, AtRest, NoResult
<1>3. TypeOK
  BY <1>1, <1>2 DEF TypeOK
<1>4. CooldownsBounded /\ BatchBounded /\ OffsetsBounded /\ ResultBounded
  BY ParkBoundCovers, StaggerSumOfNone, SchedulerAssumption
  DEF CooldownsBounded, Breaker!NoCooldown, BatchBounded, OffsetsBounded, Slots,
      ResultBounded, NoResult
<1> QED
  BY <1>3, <1>4 DEF ParkInv

LEMMA InitHolds == Init => TypeOK /\ ParkInv
<1> SUFFICES ASSUME Init PROVE TypeOK /\ ParkInv
  OBVIOUS
<1>1. row \in Rows /\ \A l \in Link : row[l].next = Never
  BY DEF Init, Rows, FreshRow, Absent, Never
<1>2. NoLinkIsParkedForever
  BY <1>1, ParkBoundCovers DEF NoLinkIsParkedForever, Never
<1> QED
  BY <1>1, <1>2, AFreshStart DEF Init, Breaker!Init, Ledger!Init

LEMMA RestartPreserves ==
  ASSUME TypeOK, ParkInv, Restart PROVE Preserved
<1>1. Breaker!TypeOK' /\ Ledger!TypeOK'
  BY SchedulerAssumption DEF Restart, Breaker!TypeOK, Breaker!NoCooldown, Ledger!TypeOK
<1>2. CycleTyped' /\ UsersTyped'
  BY DEF Restart, CycleTyped, UsersTyped, AtRest, NoResult
<1>3. TypeOK'
  BY <1>1, <1>2 DEF Restart, TypeOK
<1>4. CooldownsBounded' /\ BatchBounded' /\ OffsetsBounded' /\ ResultBounded'
  BY ParkBoundCovers, StaggerSumOfNone, SchedulerAssumption
  DEF Restart, CooldownsBounded, Breaker!NoCooldown, BatchBounded, OffsetsBounded, Slots,
      ResultBounded, NoResult, ParkBound, StaggerSum
<1> QED
  BY <1>3, <1>4 DEF Restart, Preserved, ParkInv, NoLinkIsParkedForever, ParkBound

LEMMA TickPreserves ==
  ASSUME TypeOK, ParkInv, Tick PROVE Preserved
<1>1. Breaker!TypeOK' /\ \A k \in Store : until'[k] <= until[k]
  BY CloserIsSmaller DEF Tick, TypeOK, Breaker!TypeOK, Breaker!NoCooldown
<1>2. Ledger!TypeOK'
  BY LedgerTicksTyped DEF TypeOK
<1>3. row' \in Rows /\ \A l \in Link : row'[l].next <= row[l].next
  BY CloserIsSmaller DEF Tick, TypeOK, Rows, Never
<1>4. /\ wake' \in Nat /\ pausedUntil' \in Nat
      /\ result' \in [outcome : Outcomes \cup {"none"}, next : Nat]
      /\ result'.next <= result.next
  BY CloserIsSmaller DEF Tick, TypeOK, CycleTyped
<1>5. TypeOK'
  BY <1>1, <1>2, <1>3, <1>4 DEF Tick, TypeOK, CycleTyped, UsersTyped
<1>6. CooldownsBounded'
  BY <1>1, SchedulerAssumption
  DEF ParkInv, CooldownsBounded, TypeOK, Breaker!TypeOK, Breaker!NoCooldown
<1>7. ResultBounded'
  BY <1>4, ParkBoundCovers DEF ParkInv, ResultBounded, TypeOK, CycleTyped, ParkBound
<1>8. NoLinkIsParkedForever'
  BY <1>3, ParkBoundCovers
  DEF ParkInv, NoLinkIsParkedForever, TypeOK, Rows, Never, ParkBound
<1> QED
  BY <1>5, <1>6, <1>7, <1>8
  DEF Tick, Preserved, ParkInv, BatchBounded, OffsetsBounded, Slots

-----------------------------------------------------------------------------
(* The theorems. *)

LEMMA StepPreserves == TypeOK /\ ParkInv /\ [Next]_vars => TypeOK' /\ ParkInv'
<1> SUFFICES ASSUME TypeOK, ParkInv, [Next]_vars PROVE Preserved
  BY DEF Preserved
<1>1. CASE SchedulerStep
  BY <1>1, CycleHeldPreserves, CycleBeginsPreserves, CycleEndsPreserves, DeferPreserves,
     PickPreserves, StartFetchPreserves, FetchReturnsPreserves, TurningToBackOffPreserves,
     SavePreserves, BackOffPreserves
  DEF SchedulerStep
<1>2. CASE UserStep
  BY <1>2, CheckNowPreserves, PreviewPreserves, UserFetchPreserves, UserReturnsPreserves,
     AddLinkPreserves, UnlinkPreserves, EditSchedulePreserves
  DEF UserStep
<1>3. CASE Restart
  BY <1>3, RestartPreserves
<1>4. CASE Tick
  BY <1>4, TickPreserves
<1>5. CASE UNCHANGED vars
  BY <1>5, BreakerRests, LedgerRests, CycleRests
  DEF vars, breakerVars, ledgerVars, Preserved, TypeOK, UsersTyped, ParkInv,
      CooldownsBounded, NoLinkIsParkedForever, ParkBound
<1> QED
  BY <1>1, <1>2, <1>3, <1>4, <1>5 DEF Next

\* Everything the scheduler, the breaker, the ledger, the rows and the
\* interactive fetches keep stays of its type; an interactive fetch that is
\* under way is always aimed at a store.
THEOREM TypeCorrect == Spec => []TypeOK
<1>1. Init => TypeOK /\ ParkInv
  BY InitHolds
<1>2. TypeOK /\ ParkInv /\ [Next]_vars => TypeOK' /\ ParkInv'
  BY StepPreserves
<1> QED
  BY <1>1, <1>2, PTL DEF Spec

\* However long a store stays walled and whatever fails, _check_due_products
\* never sets a next_check_at further ahead than ParkBound: the stagger of a
\* cycle adds up to one slot per batch item, and never from cycle to cycle.
THEOREM NoLinkIsEverParkedForever == Spec => []NoLinkIsParkedForever
<1>1. Init => TypeOK /\ ParkInv
  BY InitHolds
<1>2. TypeOK /\ ParkInv /\ [Next]_vars => TypeOK' /\ ParkInv'
  BY StepPreserves
<1>3. ParkInv => NoLinkIsParkedForever
  BY DEF ParkInv
<1> QED
  BY <1>1, <1>2, <1>3, PTL DEF Spec

-----------------------------------------------------------------------------
(* The wall ahead of a request. *)

\* The strengthening of OneProbePerWall: the scheduler goes to sleep on the
\* ledger with the breaker closed, and only a wall an operator's fetch meets can
\* open it in the sleep.
OvertakenOnly ==
  pc = "wait" /\ Breaker!Open(ItemStore) => overtaken

LEMMA StepKeepsProbesSingle ==
  ASSUME TypeOK, OvertakenOnly, [Next]_vars
  PROVE  OvertakenOnly'
<1>0. SUFFICES ASSUME pc' = "wait" PROVE OvertakenOnly'
  BY DEF OvertakenOnly
<1>1. CASE Pick
  <2>1. ItemStore \in Store /\ ItemStore' = ItemStore
    BY <1>1, TailOfBatch DEF Pick, TypeOK, CycleTyped, ItemStore, Item
  <2>2. ~Breaker!Open(ItemStore)'
    BY <1>1, <2>1 DEF Pick, Breaker!Open, Breaker!BlockedUntil, Breaker!Lapsed, TypeOK,
       Breaker!TypeOK, Breaker!NoCooldown
  <2> QED
    BY <2>1, <2>2 DEF OvertakenOnly
<1>2. CASE pc = "wait" /\ batch' = batch
  <2> DEFINE k == ItemStore
  <2>1. k \in Store /\ k' = k
    BY <1>2, TailOfBatch DEF TypeOK, CycleTyped, ItemStore, Item
  <2>2. ASSUME overtaken' = overtaken, Breaker!Open(k)' => Breaker!Open(k)
        PROVE  OvertakenOnly'
    BY <1>2, <2>1, <2>2 DEF OvertakenOnly
  <2>3. CASE overtaken' = overtaken /\ UNCHANGED until
    BY <2>1, <2>2, <2>3 DEF Breaker!Open
  <2>4. CASE \E u \in Interactive, j \in Store, l \in Link \cup {NoLink} :
               overtaken' = overtaken /\ Approach(u, j, l)
    BY <2>1, <2>2, <2>4
    DEF Approach, Breaker!Open, Breaker!BlockedUntil, Breaker!Lapsed, TypeOK,
        Breaker!TypeOK, Breaker!NoCooldown
  <2>5. ASSUME NEW u \in Interactive, UserReturns(u) PROVE OvertakenOnly'
    <3>1. PICK o \in Outcomes : /\ TellBreaker(user[u].store, o)
                                /\ overtaken' = (overtaken \/ Overtakes(u, o))
      BY <2>5 DEF UserReturns
    <3>2. /\ user[u].store \in Store
          /\ overtaken' = (overtaken \/ (o = "blocked" /\ user[u].store = k))
      BY <1>2, <2>5, <3>1 DEF UserReturns, Overtakes, TypeOK, UsersTyped
    <3>3. CASE user[u].store = k /\ o = "blocked"
      BY <2>1, <3>2, <3>3 DEF OvertakenOnly
    <3>4. CASE user[u].store = k /\ o \in Reached
      <4>1. until'[k] = -1
        BY <2>1, <3>1, <3>4
        DEF TellBreaker, Reached, Breaker!RecordSuccess, Breaker!NoCooldown, TypeOK,
            Breaker!TypeOK
      <4> QED
        BY <2>1, <4>1 DEF OvertakenOnly, Breaker!Open, Breaker!NoCooldown
    <3>5. CASE user[u].store # k \/ o \notin Reached \cup {"blocked"}
      <4>1. overtaken' = overtaken
        BY <3>2, <3>5 DEF TypeOK
      <4>2. until'[k] = until[k]
        <5>1. until \in [Store -> Nat \cup {-1}]
          BY DEF TypeOK, Breaker!TypeOK, Breaker!NoCooldown
        <5> QED
          BY <2>1, <3>1, <3>5, <5>1
          DEF TellBreaker, Reached, Outcomes, Breaker!RecordBlock, Breaker!RecordSuccess
      <4> QED
        BY <2>1, <2>2, <4>1, <4>2 DEF Breaker!Open
    <3> QED
      BY <3>3, <3>4, <3>5
  <2>6. CASE Tick
    BY <2>1, <2>2, <2>6
    DEF Tick, Closer, Breaker!Open, TypeOK, Breaker!TypeOK, Breaker!NoCooldown
  <2>7. ~SchedulerStep /\ ~Restart
    BY <1>0, <1>2
    DEF SchedulerStep, CycleHeld, CycleBegins, CycleEnds, Defer, Pick, StartFetch,
        FetchReturns, FetchRaises, Save, SaveFails, BackOff, Restart
  <2>8. CASE UserStep
    <3>1. ASSUME NEW u \in Interactive, NEW l \in Link, CheckNow(u, l) PROVE OvertakenOnly'
      <4>1. StoreOf[l] \in Store /\ overtaken' = overtaken /\ Approach(u, StoreOf[l], l)
        BY <3>1, SchedulerAssumption DEF CheckNow
      <4> QED
        BY <2>4, <4>1
    <3>2. ASSUME NEW u \in Interactive, NEW j \in Store, Preview(u, j) PROVE OvertakenOnly'
      <4>1. overtaken' = overtaken /\ (Approach(u, j, NoLink) \/ UNCHANGED until)
        BY <3>2 DEF Preview
      <4>2. CASE Approach(u, j, NoLink)
        <5>1. NoLink \in Link \cup {NoLink}
          OBVIOUS
        <5> QED
          BY <2>4, <4>1, <4>2, <5>1
      <4> QED
        BY <2>3, <4>1, <4>2
    <3>3. ASSUME NEW u \in Interactive, UserFetch(u) PROVE OvertakenOnly'
      BY <2>3, <3>3 DEF UserFetch, breakerVars
    <3>4. ASSUME NEW l \in Link, AddLink(l) \/ Unlink(l) \/ EditSchedule(l)
          PROVE  OvertakenOnly'
      BY <2>3, <3>4 DEF AddLink, Unlink, EditSchedule, breakerVars
    <3> QED
      BY <2>5, <2>8, <3>1, <3>2, <3>3, <3>4 DEF UserStep
  <2> QED
    BY <2>3, <2>6, <2>7, <2>8 DEF Next, vars, breakerVars
<1>3. Pick \/ (pc = "wait" /\ batch' = batch)
  BY <1>0
  DEF Next, vars, SchedulerStep, CycleHeld, CycleBegins, CycleEnds, Defer, StartFetch,
      FetchReturns, FetchRaises, Save, SaveFails, BackOff, NextItem, Restart, Tick,
      UserStep, CheckNow, Preview, UserFetch, UserReturns, AddLink, Unlink, EditSchedule,
      cycleVars
<1> QED
  BY <1>1, <1>2, <1>3

\* "A single probe": while a store's cooldown stands, whoever met the wall,
\* _check_due_products sends the store a request only if an interactive fetch has
\* met a wall there since the link was picked, in the scheduler's ledger sleep.
THEOREM ProbesAreSingle == Spec => OneProbePerWall
<1>1. Init => TypeOK /\ ParkInv /\ OvertakenOnly
  BY InitHolds DEF Init, OvertakenOnly
<1>2. TypeOK /\ ParkInv /\ OvertakenOnly /\ [Next]_vars => TypeOK' /\ ParkInv' /\ OvertakenOnly'
  BY StepPreserves, StepKeepsProbesSingle
<1>3. OvertakenOnly =>
        [(StartFetch /\ Breaker!Open(ItemStore)) => overtaken]_vars
  BY DEF OvertakenOnly, StartFetch
<1> QED
  BY <1>1, <1>2, <1>3, PTL DEF Spec, OneProbePerWall

-----------------------------------------------------------------------------
(* The rest a link has between two fetches. *)

\* The item whose fetch has started and is not yet recorded.
InHand == IF pc \in {"fetch", "save", "backoff"} THEN {Item} ELSE {}

\* The places of the batch whose links the cycle has still to fetch.
UpNext == {i \in 1..Len(batch) : i > 1 \/ pc \in {"next", "wait"}}

\* A link that comes due in t will have rested by then.
LongEnough(l, t) == rest[l] = MinRest \/ rest[l] + t >= MinRest

RestTyped == rest \in [Link -> 0..MinRest]

BatchRested ==
  /\ pc = "asleep" => batch = <<>>
  /\ \A i, j \in 1..Len(batch) : batch[i] = batch[j] => i = j
  /\ \A i \in 1..Len(batch) : row[batch[i]].is # "absent"
  /\ \A i \in UpNext : rest[batch[i]] = MinRest

AbsentRested == \A l \in Link : row[l].is = "absent" => rest[l] = MinRest
RowsRest == \A l \in Link \ InHand : Live(l) => LongEnough(l, row[l].next)
ResultRests == pc = "save" => LongEnough(Item, result.next)

\* The strengthening of NoHammering: whatever is due has rested, so whatever
\* the batch holds has, until the cycle fetches it.
RestInv == RestTyped /\ BatchRested /\ AbsentRested /\ RowsRest /\ ResultRests

LEMMA MinRestIsLeast ==
  /\ MinRest \in Nat \ {0}
  /\ MinRest <= Period /\ MinRest <= NextMorning /\ MinRest <= Backoff
  /\ MinRest <= Breaker!Cooldown(1)
  BY FirstRung, SchedulerAssumption DEF MinRest, SmallerOf

\* A step that starts no fetch and loses no record leaves the history alone.
LEMMA QuietStep ==
  ASSUME RestTyped, Watch, ~Tick, batch # <<>> => ~StartFetch /\ ~Unrecorded
  PROVE  rest' = rest
<1>1. ASSUME NEW l \in Link PROVE rest'[l] = rest[l]
  BY DEF Watch
<1> QED
  BY <1>1 DEF Watch, RestTyped

LEMMA EditsAreQuiet ==
  ASSUME RestTyped, Watch, ~Tick, UNCHANGED cycleVars
  PROVE  rest' = rest
<1>1. ~StartFetch
  BY DEF StartFetch, cycleVars
<1>2. batch # <<>> => ~Unrecorded
  BY DEF Unrecorded, BackOff, NextItem, Restart, cycleVars
<1> QED
  BY <1>1, <1>2, QuietStep

\* What a step may do to the row of a link whose history it leaves alone.
RowHeeds(l) ==
  /\ row'[l].is = "absent" => row[l].is = "absent"
  /\ row'[l].is = "live" => \/ row[l].is = "live" /\ row'[l].next = row[l].next
                            \/ row'[l].next >= MinRest
                            \/ rest[l] = MinRest

LEMMA RowsStayRested ==
  ASSUME TypeOK, TypeOK', RestInv, NEW l \in Link, l \notin InHand, RowHeeds(l),
         rest'[l] = rest[l]
  PROVE  /\ row'[l].is = "absent" => rest'[l] = MinRest
         /\ row'[l].is = "live" => rest'[l] = MinRest \/ rest'[l] + row'[l].next >= MinRest
<1>1. rest[l] \in 0..MinRest
  BY DEF RestInv, RestTyped
<1>2. row'[l].next \in Nat \cup {-1}
  BY DEF TypeOK, Rows, Never
<1> QED
  BY <1>1, <1>2, MinRestIsLeast
  DEF RowHeeds, RestInv, AbsentRested, RowsRest, Live, LongEnough

\* An edit of the rows between two steps of the cycle.
LEMMA EditsHeed ==
  ASSUME TypeOK, TypeOK', RestInv, Watch, ~Tick, UNCHANGED cycleVars,
         \A l \in Link : RowHeeds(l)
  PROVE  RestInv'
<1>1. rest' = rest
  BY EditsAreQuiet DEF RestInv
<1>2. /\ UNCHANGED <<pc, batch, result>> /\ InHand' = InHand /\ UpNext' = UpNext /\ Item' = Item
  BY DEF cycleVars, InHand, UpNext, Item
<1>3. RestTyped' /\ ResultRests'
  BY <1>1, <1>2 DEF RestInv, RestTyped, ResultRests, LongEnough, MinRest
<1>4. BatchRested'
  <2>1. \A i \in 1..Len(batch) : batch[i] \in Link
    BY DEF TypeOK, CycleTyped
  <2> QED
    BY <1>1, <1>2, <2>1 DEF RestInv, BatchRested, RowHeeds, MinRest
<1>5. AbsentRested'
  BY <1>1 DEF RestInv, AbsentRested, RowHeeds, MinRest
<1>6. RowsRest'
  BY <1>1, <1>2, RowsStayRested DEF RowsRest, Live, LongEnough, MinRest
<1> QED
  BY <1>3, <1>4, <1>5, <1>6 DEF RestInv

LEMMA UserStepKeepsRest ==
  ASSUME TypeOK, TypeOK', RestInv, Watch, ~Tick, UserStep
  PROVE  RestInv'
<1>0. row \in Rows /\ Period \in Nat /\ MinRest <= Period
  BY MinRestIsLeast, SchedulerAssumption DEF TypeOK
<1>1. UNCHANGED cycleVars
  BY DEF UserStep, CheckNow, Preview, UserFetch, UserReturns, AddLink, Unlink, EditSchedule
<1>2. \A l \in Link : RowHeeds(l)
  <2>1. ASSUME UNCHANGED row PROVE \A l \in Link : RowHeeds(l)
    BY <2>1 DEF RowHeeds
  <2>2. ASSUME NEW u \in Interactive, UserReturns(u) PROVE \A l \in Link : RowHeeds(l)
    <3>1. \/ UNCHANGED row
          \/ \E l \in {user[u].link}, s \in {Stamp("ok")} : row' = [row EXCEPT ![l].last = s]
      BY <2>2 DEF UserReturns
    <3>2. \A l \in Link : row'[l].is = row[l].is /\ row'[l].next = row[l].next
      BY <1>0, <3>1 DEF Rows
    <3> QED
      BY <3>2 DEF RowHeeds
  <2>3. ASSUME NEW k \in Link, AddLink(k) PROVE \A l \in Link : RowHeeds(l)
    <3>1. rest[k] = MinRest
      BY <2>3 DEF AddLink, RestInv, AbsentRested
    <3> QED
      BY <1>0, <2>3, <3>1 DEF AddLink, RowHeeds, FreshRow, Rows
  <2>4. ASSUME NEW k \in Link, Unlink(k) PROVE \A l \in Link : RowHeeds(l)
    BY <1>0, <2>4 DEF Unlink, RowHeeds, Gone, Rows
  <2>5. ASSUME NEW k \in Link, EditSchedule(k) PROVE \A l \in Link : RowHeeds(l)
    BY <1>0, <2>5 DEF EditSchedule, Reschedule, Live, RowHeeds, Rows
  <2> QED
    BY <2>1, <2>2, <2>3, <2>4, <2>5 DEF UserStep, CheckNow, Preview, UserFetch
<1> QED
  BY <1>1, <1>2, EditsHeed

\* Where the batch stays, or loses its head.
LEMMA BatchStays ==
  ASSUME TypeOK, RestInv, batch # <<>>, batch' = batch, pc' # "asleep",
         \A l \in Link : row'[l].is = "absent" => row[l].is = "absent",
         \A l \in Link \ {Item} : rest'[l] = rest[l],
         pc' \in {"next", "wait"} => pc \in {"next", "wait"} /\ rest'[Item] = rest[Item]
  PROVE  BatchRested'
<1>1. /\ Len(batch) \in Nat /\ 1 \in 1..Len(batch)
      /\ \A i \in 1..Len(batch) : batch[i] \in Link /\ (batch[i] = Item => i = 1)
  BY DEF TypeOK, CycleTyped, Item, RestInv, BatchRested
<1>2. ASSUME NEW i \in UpNext' PROVE rest'[batch[i]] = MinRest
  BY <1>1, <1>2 DEF UpNext, RestInv, BatchRested, Item
<1> QED
  BY <1>1, <1>2 DEF RestInv, BatchRested, MinRest

LEMMA BatchMovesOn ==
  ASSUME TypeOK, RestInv, batch # <<>>, NextItem,
         \A l \in Link : row'[l].is = "absent" => row[l].is = "absent",
         \A l \in Link \ {Item} : rest'[l] = rest[l]
  PROVE  BatchRested' /\ InHand' = {}
<1>1. /\ Len(batch) \in Nat \ {0} /\ 1 \in 1..Len(batch)
      /\ \A i \in 1..Len(batch) : batch[i] \in Link /\ (batch[i] = Item => i = 1)
  BY DEF TypeOK, CycleTyped, Item, RestInv, BatchRested
<1>2. Len(batch') = Len(batch) - 1 /\ \A i \in 1..Len(batch') : batch'[i] = batch[i + 1]
  BY DEF NextItem, TypeOK, CycleTyped
<1>3. ASSUME NEW i \in 1..Len(batch') PROVE rest'[batch'[i]] = MinRest
  <2>1. i + 1 \in UpNext /\ batch[i + 1] \in Link \ {Item}
    BY <1>1, <1>2 DEF UpNext
  <2> QED
    BY <1>2, <2>1 DEF RestInv, BatchRested
<1>4. \A i, j \in 1..Len(batch') : batch'[i] = batch'[j] => i = j
  BY <1>1, <1>2 DEF RestInv, BatchRested
<1>5. \A i \in 1..Len(batch') : row'[batch'[i]].is # "absent"
  BY <1>1, <1>2 DEF RestInv, BatchRested
<1> QED
  BY <1>3, <1>4, <1>5 DEF BatchRested, UpNext, MinRest, NextItem, InHand

\* The links the cycle is not at.
LEMMA OthersStayRested ==
  ASSUME TypeOK, TypeOK', RestInv, Item \in Link, InHand \subseteq {Item},
         \A l \in Link \ {Item} : RowHeeds(l) /\ rest'[l] = rest[l],
         rest' \in [Link -> 0..MinRest],
         row'[Item].is # "absent",
         Item \notin InHand' /\ row'[Item].is = "live" =>
           rest'[Item] = MinRest \/ rest'[Item] + row'[Item].next >= MinRest
  PROVE  RestTyped' /\ AbsentRested' /\ RowsRest'
<1>1. \A l \in Link \ {Item} :
        /\ row'[l].is = "absent" => rest'[l] = MinRest
        /\ row'[l].is = "live" => rest'[l] = MinRest \/ rest'[l] + row'[l].next >= MinRest
  BY RowsStayRested
<1> QED
  BY <1>1 DEF RestTyped, AbsentRested, RowsRest, Live, LongEnough, MinRest

LEMMA ItemIsLinked ==
  ASSUME TypeOK, RestInv, batch # <<>>
  PROVE  /\ Item \in Link /\ row[Item].is # "absent" /\ InHand \subseteq {Item}
         /\ pc \in {"next", "wait"} => rest[Item] = MinRest
<1>1. Len(batch) \in Nat /\ 1 \in 1..Len(batch) /\ Item = batch[1] /\ Item \in Link
  BY DEF TypeOK, CycleTyped, Item
<1> QED
  BY <1>1 DEF RestInv, BatchRested, UpNext, InHand

LEMMA CycleBeginsKeepsRest ==
  ASSUME TypeOK, TypeOK', RestInv, Watch, ~Tick, CycleBegins
  PROVE  RestInv'
<1>1. batch = <<>> /\ rest' = rest /\ row' = row
  BY QuietStep DEF CycleBegins, RestInv, BatchRested
<1>2. InHand = {} /\ InHand' = {} /\ pc' \in {"asleep", "next"}
  BY DEF CycleBegins, InHand
<1>3. CASE batch' \in DueBatches /\ pc' = "next"
  <2>1. /\ BatchLength \in Nat
        /\ batch' \in [1..BatchLength -> Due]
        /\ \A i, j \in 1..BatchLength : i < j => batch'[i] # batch'[j]
    <3>1. IsFiniteSet(Due)
      BY FS_Subset, SchedulerAssumption DEF Due
    <3>2. Cardinality(Due) \in Nat
      BY <3>1, FS_CardinalityType
    <3> QED
      BY <1>3, <3>2, SchedulerAssumption DEF DueBatches, BatchLength
  <2>2. Len(batch') = BatchLength
    <3>1. batch' \in Seq(Link)
      BY DEF TypeOK, CycleTyped
    <3> QED
      BY <2>1, <3>1
  <2>3. \A l \in Due : row[l].is # "absent" /\ rest[l] = MinRest
    <3>1. \A l \in Due : l \in Link \ InHand /\ Live(l) /\ row[l].next \in {-1, 0}
      BY <1>2 DEF Due, TypeOK, Rows, Never
    <3> QED
      BY <3>1, MinRestIsLeast DEF RestInv, RestTyped, RowsRest, LongEnough, Live
  <2>4. \A i, j \in 1..BatchLength : batch'[i] = batch'[j] => i = j
    BY <2>1
  <2> QED
    BY <1>1, <1>2, <1>3, <2>1, <2>2, <2>3, <2>4
    DEF RestInv, RestTyped, BatchRested, AbsentRested, RowsRest, ResultRests, Live,
        LongEnough, UpNext, MinRest
<1>4. CASE UNCHANGED <<pc, batch>>
  BY <1>1, <1>2, <1>4
  DEF CycleBegins, RestInv, RestTyped, BatchRested, AbsentRested, RowsRest, ResultRests,
      Live, LongEnough, UpNext, MinRest
<1> QED
  BY <1>3, <1>4 DEF CycleBegins

\* The cycle's edges, and the sleep between them.
LEMMA CycleEdgeKeepsRest ==
  ASSUME TypeOK, TypeOK', RestInv, Watch, ~Tick, CycleHeld \/ CycleEnds
  PROVE  RestInv'
<1>1. batch = <<>> /\ batch' = batch /\ row' = row
      /\ pc \in {"asleep", "next"} /\ pc' = "asleep"
  BY DEF CycleHeld, CycleEnds, RestInv, BatchRested
<1>2. rest' = rest
  BY <1>1, QuietStep DEF RestInv
<1> QED
  BY <1>1, <1>2
  DEF RestInv, RestTyped, BatchRested, AbsentRested, RowsRest, ResultRests, Live,
      LongEnough, InHand, UpNext, MinRest

LEMMA DeferKeepsRest ==
  ASSUME TypeOK, TypeOK', RestInv, Watch, ~Tick, Defer
  PROVE  RestInv'
<1>1. pc = "next" /\ batch # <<>> /\ NextItem /\ pc' = "next"
  BY DEF Defer, NextItem
<1>2. Item \in Link /\ row[Item].is # "absent" /\ InHand \subseteq {Item} /\ rest[Item] = MinRest
  BY <1>1, ItemIsLinked
<1>3. rest' = rest
  <2>1. ~StartFetch /\ ~Unrecorded
    BY <1>1 DEF StartFetch, Unrecorded, BackOff, Restart
  <2> QED
    BY <2>1, QuietStep DEF RestInv
<1>4. /\ \A l \in Link : row'[l].is = row[l].is
      /\ \A l \in Link \ {Item} : row'[l] = row[l]
  BY <1>2 DEF Defer, Reschedule, TypeOK, Rows
<1>5. BatchRested' /\ InHand' = {}
  BY <1>1, <1>3, <1>4, BatchMovesOn
<1>6. RestTyped' /\ AbsentRested' /\ RowsRest'
  BY <1>2, <1>3, <1>4, OthersStayRested DEF RestInv, RestTyped, RowHeeds
<1> QED
  BY <1>1, <1>5, <1>6 DEF RestInv, ResultRests

LEMMA PickKeepsRest ==
  ASSUME TypeOK, TypeOK', RestInv, Watch, ~Tick, Pick
  PROVE  RestInv'
<1>1. pc = "next" /\ pc' = "wait" /\ batch # <<>> /\ batch' = batch /\ row' = row
  BY DEF Pick
<1>2. Item \in Link /\ row[Item].is # "absent" /\ InHand \subseteq {Item} /\ rest[Item] = MinRest
  BY <1>1, ItemIsLinked
<1>3. rest' = rest
  <2>1. ~StartFetch /\ ~Unrecorded
    BY <1>1 DEF StartFetch, Unrecorded, BackOff, Restart
  <2> QED
    BY <2>1, QuietStep DEF RestInv
<1>4. BatchRested'
  BY <1>1, <1>3, BatchStays
<1>5. RestTyped' /\ AbsentRested' /\ RowsRest'
  BY <1>1, <1>2, <1>3, OthersStayRested DEF RestInv, RestTyped, RowHeeds
<1> QED
  BY <1>1, <1>4, <1>5 DEF RestInv, ResultRests

LEMMA StartFetchKeepsRest ==
  ASSUME TypeOK, TypeOK', RestInv, Watch, ~Tick, StartFetch
  PROVE  RestInv'
<1>1. pc = "wait" /\ pc' = "fetch" /\ batch # <<>> /\ batch' = batch /\ row' = row /\ Item' = Item
  BY DEF StartFetch, TypeOK, CycleTyped, Item
<1>2. Item \in Link /\ row[Item].is # "absent" /\ InHand \subseteq {Item} /\ Item \in InHand'
  BY <1>1, ItemIsLinked DEF InHand
<1>3. /\ rest' \in [Link -> 0..MinRest]
      /\ \A l \in Link \ {Item} : rest'[l] = rest[l]
  <2>1. rest' = [l \in Link |-> IF l = Item THEN 0 ELSE rest[l]]
    BY <1>1 DEF Watch
  <2> QED
    BY <2>1, MinRestIsLeast DEF RestInv, RestTyped
<1>4. BatchRested'
  BY <1>1, <1>3, BatchStays
<1>5. RestTyped' /\ AbsentRested' /\ RowsRest'
  BY <1>1, <1>2, <1>3, OthersStayRested DEF RowHeeds
<1> QED
  BY <1>1, <1>4, <1>5 DEF RestInv, ResultRests

LEMMA FetchReturnsKeepsRest ==
  ASSUME TypeOK, TypeOK', RestInv, Watch, ~Tick, FetchReturns
  PROVE  RestInv'
<1>1. pc = "fetch" /\ pc' = "save" /\ batch # <<>> /\ batch' = batch /\ row' = row /\ Item' = Item
  BY DEF FetchReturns, TypeOK, CycleTyped, Item
<1>2. /\ Item \in Link /\ ItemStore \in Store /\ row[Item].is # "absent"
      /\ InHand \subseteq {Item} /\ Item \in InHand'
  BY <1>1, ItemIsLinked, TailOfBatch DEF InHand, TypeOK, CycleTyped
<1>3. rest' = rest
  <2>1. ~StartFetch /\ ~Unrecorded
    BY <1>1 DEF StartFetch, Unrecorded, BackOff, Restart
  <2> QED
    BY <2>1, QuietStep DEF RestInv
<1>4. BatchRested'
  BY <1>1, <1>3, BatchStays
<1>5. RestTyped' /\ AbsentRested' /\ RowsRest'
  BY <1>1, <1>2, <1>3, OthersStayRested DEF RestInv, RestTyped, RowHeeds
<1>6. ResultRests'
  <2>1. PICK o \in Outcomes :
          /\ TellBreaker(ItemStore, o)
          /\ result' = [outcome |-> o, next |-> NextCheck(o)]
    BY DEF FetchReturns
  <2>2. o = "blocked" => until'[ItemStore] \in Breaker!Cooldown(1)..MaxCooldown
    BY <1>2, <2>1, TellBreakerIsTyped
  <2>3. offset[ItemStore] \in Nat
    BY <1>2 DEF TypeOK, CycleTyped
  <2>4. result'.next = NextCheck(o) /\ NextCheck(o) \in Int /\ NextCheck(o) >= MinRest
    BY <2>1, <2>2, <2>3, FirstRung, MinRestIsLeast, SchedulerAssumption DEF NextCheck
  <2>5. rest'[Item] \in Nat
    BY <1>2, <1>3 DEF RestInv, RestTyped
  <2> QED
    BY <1>1, <2>4, <2>5, MinRestIsLeast DEF ResultRests, LongEnough, MinRest
<1> QED
  BY <1>4, <1>5, <1>6 DEF RestInv

LEMMA TurningToBackOffKeepsRest ==
  ASSUME TypeOK, TypeOK', RestInv, Watch, ~Tick, FetchRaises \/ SaveFails
  PROVE  RestInv'
<1>1. /\ pc \in {"fetch", "save"} /\ pc' = "backoff"
      /\ batch # <<>> /\ batch' = batch /\ row' = row /\ Item' = Item
  BY DEF FetchRaises, SaveFails, TypeOK, CycleTyped, Item
<1>2. Item \in Link /\ row[Item].is # "absent" /\ InHand \subseteq {Item} /\ Item \in InHand'
  BY <1>1, ItemIsLinked DEF InHand
<1>3. rest' = rest
  <2>1. ~StartFetch /\ ~Unrecorded
    BY <1>1 DEF StartFetch, Unrecorded, BackOff, Restart
  <2> QED
    BY <2>1, QuietStep DEF RestInv
<1>4. BatchRested'
  BY <1>1, <1>3, BatchStays
<1>5. RestTyped' /\ AbsentRested' /\ RowsRest'
  BY <1>1, <1>2, <1>3, OthersStayRested DEF RestInv, RestTyped, RowHeeds
<1> QED
  BY <1>1, <1>4, <1>5 DEF RestInv, ResultRests

LEMMA SaveKeepsRest ==
  ASSUME TypeOK, TypeOK', RestInv, Watch, ~Tick, Save
  PROVE  RestInv'
<1>1. pc = "save" /\ batch # <<>> /\ NextItem /\ pc' = "next"
  BY DEF Save, NextItem, TypeOK, CycleTyped
<1>2. Item \in Link /\ row[Item].is # "absent" /\ InHand \subseteq {Item}
  BY <1>1, ItemIsLinked
<1>3. rest' = rest
  <2>1. ~StartFetch /\ ~Unrecorded
    BY <1>1 DEF StartFetch, Unrecorded, BackOff, Restart
  <2> QED
    BY <2>1, QuietStep DEF RestInv
<1>4. /\ \A l \in Link : row'[l].is = row[l].is
      /\ \A l \in Link \ {Item} : row'[l] = row[l]
      /\ row[Item].is = "live" => row'[Item].next = result.next
  <2>1. row \in Rows
    BY DEF TypeOK
  <2>2. CASE Live(Item)
    <3>1. PICK s : row' = [row EXCEPT ![Item].next = result.next, ![Item].last = s]
      BY <2>2 DEF Save
    <3> QED
      BY <1>2, <2>1, <3>1 DEF Rows
  <2>3. CASE ~Live(Item)
    BY <2>3 DEF Save, Live
  <2> QED
    BY <2>2, <2>3
<1>5. BatchRested' /\ InHand' = {}
  BY <1>1, <1>3, <1>4, BatchMovesOn
<1>6. row'[Item].is = "live" => rest'[Item] = MinRest \/ rest'[Item] + row'[Item].next >= MinRest
  BY <1>1, <1>2, <1>3, <1>4 DEF RestInv, ResultRests, LongEnough
<1>7. RestTyped' /\ AbsentRested' /\ RowsRest'
  BY <1>2, <1>3, <1>4, <1>6, OthersStayRested DEF RestInv, RestTyped, RowHeeds
<1> QED
  BY <1>1, <1>5, <1>7 DEF RestInv, ResultRests

\* Either the back-off reached the database, or the link counts as rested.
LEMMA BackOffKeepsRest ==
  ASSUME TypeOK, TypeOK', RestInv, Watch, ~Tick, BackOff
  PROVE  RestInv'
<1>1. pc = "backoff" /\ batch # <<>> /\ NextItem /\ pc' = "next"
  BY DEF BackOff, NextItem, TypeOK, CycleTyped
<1>2. Item \in Link /\ row[Item].is # "absent" /\ InHand \subseteq {Item}
  BY <1>1, ItemIsLinked
<1>3. /\ rest' \in [Link -> 0..MinRest]
      /\ \A l \in Link \ {Item} : rest'[l] = rest[l]
      /\ row' = row => rest'[Item] = MinRest
  <2>1. ~StartFetch
    BY <1>1 DEF StartFetch
  <2>2. Unrecorded <=> row' = row
    BY <1>1 DEF Unrecorded, Restart
  <2>3. rest' = [l \in Link |-> IF l = Item /\ row' = row THEN MinRest ELSE rest[l]]
    BY <1>1, <2>1, <2>2 DEF Watch
  <2> QED
    BY <1>2, <2>3, MinRestIsLeast DEF RestInv, RestTyped
<1>4. /\ \A l \in Link : row'[l].is = row[l].is
      /\ \A l \in Link \ {Item} : row'[l] = row[l]
      /\ row' = row \/ row'[Item].next = Backoff
  BY <1>2 DEF BackOff, Reschedule, TypeOK, Rows
<1>5. BatchRested' /\ InHand' = {}
  BY <1>1, <1>3, <1>4, BatchMovesOn
<1>6. rest'[Item] = MinRest \/ rest'[Item] + row'[Item].next >= MinRest
  <2>1. rest'[Item] \in Nat /\ Backoff \in Nat
    BY <1>2, <1>3, SchedulerAssumption
  <2> QED
    BY <1>3, <1>4, <2>1, MinRestIsLeast
<1>7. RestTyped' /\ AbsentRested' /\ RowsRest'
  BY <1>2, <1>3, <1>4, <1>6, OthersStayRested DEF RowHeeds
<1> QED
  BY <1>1, <1>5, <1>7 DEF RestInv, ResultRests

LEMMA RestartKeepsRest ==
  ASSUME TypeOK, TypeOK', RestInv, Watch, ~Tick, Restart
  PROVE  RestInv'
<1>1. batch' = <<>> /\ pc' = "asleep" /\ row' = row /\ InHand' = {}
  BY DEF Restart, InHand
<1>2. BatchRested' /\ ResultRests'
  BY <1>1 DEF BatchRested, UpNext, ResultRests
<1>3. CASE batch = <<>>
  <2>1. rest' = rest /\ InHand = {}
    BY <1>3, QuietStep DEF RestInv, InHand, TypeOK, CycleTyped
  <2>2. RestTyped' /\ AbsentRested' /\ RowsRest'
    BY <1>1, <2>1
    DEF RestInv, RestTyped, AbsentRested, RowsRest, Live, LongEnough, MinRest
  <2> QED
    BY <1>2, <2>2 DEF RestInv
<1>4. CASE batch # <<>>
  <2>1. Item \in Link /\ row[Item].is # "absent" /\ InHand \subseteq {Item}
    BY <1>4, ItemIsLinked
  <2>2. ~StartFetch /\ Unrecorded
    BY <1>1 DEF StartFetch, Unrecorded
  <2>3. rest' = [l \in Link |-> IF l = Item THEN MinRest ELSE rest[l]]
    BY <1>4, <2>2 DEF Watch
  <2>4. /\ rest' \in [Link -> 0..MinRest] /\ rest'[Item] = MinRest
        /\ \A l \in Link \ {Item} : rest'[l] = rest[l]
    BY <2>1, <2>3, MinRestIsLeast DEF RestInv, RestTyped
  <2>5. RestTyped' /\ AbsentRested' /\ RowsRest'
    BY <1>1, <2>1, <2>4, OthersStayRested DEF RowHeeds
  <2> QED
    BY <1>2, <2>5 DEF RestInv
<1> QED
  BY <1>3, <1>4

\* A unit of rest for a unit of waiting.
LEMMA TickKeepsRest ==
  ASSUME TypeOK, TypeOK', RestInv, Watch, Tick
  PROVE  RestInv'
<1>1. /\ pc' = pc /\ batch' = batch /\ Item' = Item /\ InHand' = InHand /\ UpNext' = UpNext
  BY DEF Tick, Item, InHand, UpNext
<1>2. /\ rest' \in [Link -> 0..MinRest]
      /\ \A l \in Link : rest'[l] = IF rest[l] = MinRest THEN MinRest ELSE rest[l] + 1
  <2>1. rest' = [l \in Link |-> SmallerOf(rest[l] + 1, MinRest)]
    BY DEF Watch
  <2> QED
    BY <2>1, MinRestIsLeast DEF RestInv, RestTyped, SmallerOf
<1>3. \A l \in Link : row'[l].is = row[l].is /\ row'[l].next = Closer(row[l].next)
  BY DEF Tick, TypeOK, Rows
<1>4. result'.next = Closer(result.next)
  BY DEF Tick, TypeOK, CycleTyped
<1>5. ASSUME NEW l \in Link, NEW t \in Nat \cup {-1}, LongEnough(l, t)
      PROVE  rest'[l] = MinRest \/ rest'[l] + Closer(t) >= MinRest
  <2>1. rest[l] \in 0..MinRest /\ rest'[l] \in 0..MinRest
    BY <1>2 DEF RestInv, RestTyped
  <2> QED
    BY <1>2, <1>5, <2>1, MinRestIsLeast DEF LongEnough, Closer
<1>6. BatchRested' /\ AbsentRested' /\ RestTyped'
  <2>1. \A i \in 1..Len(batch) : batch[i] \in Link
    BY DEF TypeOK, CycleTyped
  <2>2. \A i \in UpNext : i \in 1..Len(batch)
    BY DEF UpNext
  <2>3. \A i \in UpNext' : rest'[batch[i]] = MinRest
    BY <1>1, <1>2, <2>1, <2>2 DEF RestInv, BatchRested
  <2>4. BatchRested'
    BY <1>1, <1>3, <2>1, <2>3 DEF RestInv, BatchRested, MinRest
  <2> QED
    BY <1>2, <1>3, <2>4 DEF RestInv, AbsentRested, RestTyped, MinRest
<1>7. RowsRest'
  <2>1. \A l \in Link : row[l].next \in Nat \cup {-1}
    BY DEF TypeOK, Rows, Never
  <2> QED
    BY <1>1, <1>3, <1>5, <2>1 DEF RestInv, RowsRest, Live, LongEnough, MinRest
<1>8. ResultRests'
  <2>1. CASE pc = "save"
    <3>1. Item \in Link /\ result.next \in Nat \cup {-1}
      BY <2>1, TailOfBatch DEF TypeOK, CycleTyped
    <3> QED
      BY <1>1, <1>4, <1>5, <2>1, <3>1 DEF RestInv, ResultRests, LongEnough, MinRest
  <2> QED
    BY <1>1, <2>1 DEF ResultRests
<1> QED
  BY <1>6, <1>7, <1>8 DEF RestInv

LEMMA StepKeepsRest ==
  TypeOK /\ TypeOK' /\ RestInv /\ [HNext]_allVars => RestInv'
<1> SUFFICES ASSUME TypeOK, TypeOK', RestInv, [HNext]_allVars PROVE RestInv'
  OBVIOUS
<1>1. CASE UNCHANGED allVars
  BY <1>1
  DEF allVars, vars, cycleVars, RestInv, RestTyped, BatchRested, AbsentRested, RowsRest,
      ResultRests, Live, LongEnough, InHand, UpNext, Item, MinRest
<1>2. CASE Watch /\ Tick
  BY <1>2, TickKeepsRest
<1>3. CASE Watch /\ ~Tick /\ SchedulerStep
  BY <1>3, CycleEdgeKeepsRest, CycleBeginsKeepsRest, DeferKeepsRest, PickKeepsRest,
     StartFetchKeepsRest, FetchReturnsKeepsRest, TurningToBackOffKeepsRest,
     SaveKeepsRest, BackOffKeepsRest
  DEF SchedulerStep
<1>4. CASE Watch /\ ~Tick /\ UserStep
  BY <1>4, UserStepKeepsRest
<1>5. CASE Watch /\ ~Tick /\ Restart
  BY <1>5, RestartKeepsRest
<1> QED
  BY <1>1, <1>2, <1>3, <1>4, <1>5 DEF HNext, Next

\* "Gets hammered every cycle" is what the back-off and the deferrals prevent:
\* _check_due_products requests a link only when MinRest has passed since it
\* last did, however the request, its commit and the back-off's went, unless
\* none of those writes was taken; the operator may edit, remove and check the
\* link at any moment between.
THEOREM NothingIsHammered == HSpec => NoHammering
<1>1. HInit => TypeOK /\ ParkInv /\ RestInv
  <2> SUFFICES ASSUME HInit PROVE TypeOK /\ ParkInv /\ RestInv
    OBVIOUS
  <2>1. TypeOK /\ ParkInv
    BY InitHolds DEF HInit
  <2>2. rest = [l \in Link |-> MinRest] /\ pc = "asleep" /\ batch = <<>>
    BY DEF HInit, Init
  <2> QED
    BY <2>1, <2>2, MinRestIsLeast
    DEF RestInv, RestTyped, BatchRested, AbsentRested, RowsRest, ResultRests, LongEnough,
        UpNext
<1>2. TypeOK /\ ParkInv /\ RestInv /\ [HNext]_allVars => TypeOK' /\ ParkInv' /\ RestInv'
  <2>1. [HNext]_allVars => [Next]_vars
    BY DEF HNext, allVars
  <2> QED
    BY <2>1, StepPreserves, StepKeepsRest
<1>3. TypeOK /\ RestInv => [StartFetch => rest[Item] = MinRest]_allVars
  BY ItemIsLinked DEF StartFetch, TypeOK, CycleTyped
<1> QED
  BY <1>1, <1>2, <1>3, PTL DEF HSpec, NoHammering

-----------------------------------------------------------------------------
(* The spread of a cycle's deferrals. *)

\* What is left of a store's cooldown.
Ahead(k) == IF Breaker!Open(k) THEN until[k] ELSE 0

\* The link waits where a deferral of this cycle put it.
HeldBack(l) == l \in thisCycle /\ l \in parked /\ row[l].next > 0

\* The next deferral of the store falls at least a slot later.
Below(t, k) == t + SchedDelay <= Ahead(k) + offset[k]

RequestedClosed == pc \in {"wait", "fetch"} => ~Breaker!Open(ItemStore)

HeldBackBelow ==
  pc # "asleep" => \A l \in Link : HeldBack(l) => Below(row[l].next, StoreOf[l])

Walled == pc = "save" /\ result.outcome = "blocked"

ResultFits ==
  Walled =>
    /\ result.next > 0 => Below(result.next, ItemStore)
    /\ \A l \in Link \ {Item} : HeldBack(l) /\ StoreOf[l] = ItemStore =>
                                  row[l].next + SchedDelay <= result.next

AllSpread ==
  \A a, b \in Link : a # b /\ StoreOf[a] = StoreOf[b] /\ HeldBack(a) /\ HeldBack(b) =>
    \/ row[a].next >= row[b].next + SchedDelay
    \/ row[b].next >= row[a].next + SchedDelay

\* The strengthening of CycleDeferralsSpread, where only the scheduler fetches.
SpreadInv == RequestedClosed /\ HeldBackBelow /\ ResultFits /\ AllSpread

LEMMA AllSpreadSuffices == AllSpread => CycleDeferralsSpread
<1> SUFFICES ASSUME AllSpread, NEW p \in Neighbours,
                    p[1] \in thisCycle, p[2] \in thisCycle, Waiting(p)
             PROVE  Spread(p)
  BY DEF CycleDeferralsSpread
<1>1. p[1] \in Link /\ p[2] \in Link /\ p[1] # p[2] /\ StoreOf[p[1]] = StoreOf[p[2]]
  BY DEF Neighbours
<1>2. HeldBack(p[1]) /\ HeldBack(p[2])
  BY DEF Waiting, HeldBack
<1> QED
  BY <1>1, <1>2 DEF AllSpread, Spread

\* Only a deferral adds to the links held back, and whatever else changes the
\* row of one takes it out.
LEMMA NoNewDeferral ==
  ASSUME Watch, ~Tick, NEW l \in Link, ~(Deferral /\ l = Item), HeldBack(l)'
  PROVE  HeldBack(l) /\ row'[l] = row[l]
  BY DEF Watch, HeldBack, Rescheduled

\* A step that defers nothing, and takes nothing off a cooldown or an offset.
LEMMA OthersStaySpread ==
  ASSUME TypeOK, TypeOK', SpreadInv, Watch, ~Tick, ~Deferral,
         pc = "asleep" => pc' = "asleep",
         pc' # "asleep" => \A k \in Store : Ahead(k) + offset[k] <= (Ahead(k) + offset[k])'
  PROVE  AllSpread' /\ HeldBackBelow'
<1>1. \A l \in Link : HeldBack(l)' => HeldBack(l) /\ row'[l] = row[l]
  BY NoNewDeferral
<1>2. AllSpread'
  BY <1>1 DEF SpreadInv, AllSpread
<1>3. HeldBackBelow'
  <2> SUFFICES ASSUME pc' # "asleep", NEW l \in Link, HeldBack(l)'
               PROVE  Below(row[l].next, StoreOf[l])'
    BY DEF HeldBackBelow
  <2> DEFINE k == StoreOf[l]
  <2>1. k \in Store
    BY SchedulerAssumption
  <2>2. Below(row[l].next, k)
    BY <1>1 DEF SpreadInv, HeldBackBelow
  <2>3. /\ Ahead(k) \in Int /\ offset[k] \in Int /\ Ahead(k)' \in Int /\ offset'[k] \in Int
        /\ row[l].next \in Int
    BY <2>1 DEF TypeOK, Breaker!TypeOK, Breaker!NoCooldown, Ahead, CycleTyped, Rows, Never
  <2>4. Ahead(k) + offset[k] <= (Ahead(k))' + offset'[k]
    BY <2>1
  <2>5. row'[l].next = row[l].next
    BY <1>1
  <2> QED
    BY <2>2, <2>3, <2>4, <2>5, SchedulerAssumption DEF Below
<1> QED
  BY <1>2, <1>3

LEMMA EditsStaySpread ==
  ASSUME TypeOK, TypeOK', SpreadInv, Watch, ~Tick, UNCHANGED <<cycleVars, until>>
  PROVE  SpreadInv'
<1>1. /\ UNCHANGED <<pc, batch, offset, result, until>>
      /\ Item' = Item /\ ItemStore' = ItemStore
  BY DEF cycleVars, Item, ItemStore
<1>2. \A k \in Store : (Ahead(k))' = Ahead(k)
  BY <1>1 DEF Ahead, Breaker!Open
<1>3. ~Deferral
  <2>1. ~Save
    BY <1>1 DEF Save, NextItem
  <2>2. ~Defer
    BY <1>1 DEF Defer, NextItem, TypeOK, CycleTyped
  <2> QED
    BY <2>1, <2>2 DEF Deferral
<1>4. AllSpread' /\ HeldBackBelow'
  <2>1. ASSUME NEW k \in Store
        PROVE  Ahead(k) + offset[k] <= (Ahead(k) + offset[k])'
    <3>1. Ahead(k) \in Int /\ offset[k] \in Int
      BY DEF TypeOK, Breaker!TypeOK, Breaker!NoCooldown, Ahead, CycleTyped
    <3> QED
      BY <1>1, <1>2, <3>1
  <2> QED
    BY <1>1, <1>3, <2>1, OthersStaySpread
<1>5. RequestedClosed'
  BY <1>1 DEF SpreadInv, RequestedClosed, Breaker!Open
<1>6. ResultFits'
  <2>1. \A l \in Link : HeldBack(l)' => HeldBack(l) /\ row'[l] = row[l]
    BY <1>3, NoNewDeferral
  <2>2. Walled => ItemStore \in Store
    BY TailOfBatch DEF Walled, TypeOK, CycleTyped
  <2> QED
    BY <1>1, <1>2, <2>1, <2>2 DEF SpreadInv, ResultFits, Walled, Below
<1> QED
  BY <1>4, <1>5, <1>6 DEF SpreadInv

\* Where the cycle's memory is empty, there is nothing to spread.
LEMMA NothingHeldBack ==
  ASSUME thisCycle' = {}, pc' \in {"asleep", "next"}
  PROVE  SpreadInv'
  BY DEF SpreadInv, RequestedClosed, HeldBackBelow, ResultFits, Walled, AllSpread, HeldBack

LEMMA CycleEdgeStaysSpread ==
  ASSUME TypeOK, TypeOK', SpreadInv, Watch, ~Tick,
         CycleHeld \/ CycleBegins \/ CycleEnds \/ Restart
  PROVE  SpreadInv'
<1>1. CASE CycleBegins \/ Restart
  BY <1>1, NothingHeldBack DEF Watch, CycleBegins, Restart
<1>2. CASE CycleHeld \/ CycleEnds
  <2>1. pc \in {"asleep", "next"} /\ pc' = "asleep" /\ row' = row
    BY <1>2 DEF CycleHeld, CycleEnds
  <2>2. ~Deferral
    BY <2>1 DEF Deferral
  <2>3. AllSpread' /\ HeldBackBelow'
    BY <2>1, <2>2, OthersStaySpread
  <2> QED
    BY <2>1, <2>3 DEF SpreadInv, RequestedClosed, ResultFits, Walled
<1> QED
  BY <1>1, <1>2

LEMMA StaggerGrows ==
  ASSUME offset \in [Store -> Nat], NEW k \in Store, Stagger(k)
  PROVE  /\ offset'[k] >= offset[k] + SchedDelay
         /\ \A j \in Store : offset'[j] >= offset[j]
<1>1. PICK j \in 0..SchedJitter : offset' = [offset EXCEPT ![k] = @ + SchedDelay + j]
  BY DEF Stagger
<1> QED
  BY <1>1, SchedulerAssumption

LEMMA DeferStaysSpread ==
  ASSUME TypeOK, TypeOK', SpreadInv, Watch, ~Tick, Defer
  PROVE  SpreadInv'
<1> DEFINE k == ItemStore
           t == until[k] + offset[k]
<1>1. /\ pc = "next" /\ pc' = "next" /\ Item \in Link /\ k \in Store /\ StoreOf[Item] = k
      /\ Breaker!Open(k) /\ until' = until
  BY TailOfBatch DEF Defer, NextItem, TypeOK, CycleTyped, breakerVars, ItemStore
<1>2. /\ \A j \in Store : offset[j] \in Nat /\ offset'[j] \in Nat /\ until[j] \in Int
      /\ \A j \in Store : Ahead(j) \in Nat /\ (Ahead(j))' = Ahead(j)
      /\ Ahead(k) = until[k]
  BY <1>1 DEF TypeOK, CycleTyped, Breaker!TypeOK, Breaker!NoCooldown, Ahead, Breaker!Open
<1>3. /\ offset'[k] >= offset[k] + SchedDelay
      /\ \A j \in Store : offset'[j] >= offset[j]
  BY <1>1, StaggerGrows DEF Defer, TypeOK, CycleTyped
<1>4. row' # row => row'[Item].next = t
  BY <1>1 DEF Defer, Reschedule, TypeOK, Rows
<1>5. \A l \in Link : row[l].next \in Int
  BY DEF TypeOK, Rows, Never
<1>6. \A l \in Link : HeldBack(l) => Below(row[l].next, StoreOf[l])
  BY <1>1 DEF SpreadInv, HeldBackBelow
<1>7. ASSUME NEW l \in Link, HeldBack(l)'
      PROVE  \/ HeldBack(l) /\ row'[l] = row[l]
             \/ l = Item /\ row'[l].next = t
  <2>1. CASE l = Item /\ row' # row
    BY <1>4, <1>7, <2>1
  <2>2. CASE ~(l = Item /\ row' # row)
    BY <1>7, <2>2, NoNewDeferral DEF Deferral
  <2> QED
    BY <2>1, <2>2
<1>8. HeldBackBelow'
  <2>1. ASSUME NEW l \in Link, HeldBack(l)' PROVE Below(row[l].next, StoreOf[l])'
    <3>1. StoreOf[l] \in Store
      BY SchedulerAssumption
    <3> QED
      BY <1>1, <1>2, <1>3, <1>5, <1>6, <1>7, <2>1, <3>1, SchedulerAssumption DEF Below
  <2> QED
    BY <2>1 DEF HeldBackBelow
<1>9. AllSpread'
  <2> SUFFICES ASSUME NEW a \in Link, NEW b \in Link, a # b, StoreOf[a] = StoreOf[b],
                      HeldBack(a)', HeldBack(b)'
               PROVE  \/ row'[a].next >= row'[b].next + SchedDelay
                      \/ row'[b].next >= row'[a].next + SchedDelay
    BY DEF AllSpread
  <2>1. \A l \in Link : HeldBack(l) /\ StoreOf[l] = k => row[l].next + SchedDelay <= t
    BY <1>1, <1>2, <1>6 DEF Below
  <2> QED
    BY <1>1, <1>7, <2>1 DEF SpreadInv, AllSpread
<1> QED
  BY <1>1, <1>8, <1>9 DEF SpreadInv, RequestedClosed, ResultFits, Walled

LEMMA PickStaysSpread ==
  ASSUME TypeOK, TypeOK', SpreadInv, Watch, ~Tick, Pick
  PROVE  SpreadInv'
<1>1. /\ pc = "next" /\ pc' = "wait" /\ ItemStore \in Store /\ ItemStore' = ItemStore
      /\ offset' = offset
  BY TailOfBatch DEF Pick, TypeOK, CycleTyped, ItemStore, Item
<1>2. \A k \in Store : until[k] \in Nat \cup {-1} /\ offset[k] \in Nat
  BY DEF TypeOK, CycleTyped, Breaker!TypeOK, Breaker!NoCooldown
<1>3. ~Breaker!Open(ItemStore)' /\ \A k \in Store : (Ahead(k))' = Ahead(k)
  BY <1>1, <1>2
  DEF Pick, Breaker!Open, Breaker!BlockedUntil, Breaker!Lapsed, TypeOK, Breaker!TypeOK,
      Breaker!NoCooldown, Ahead
<1>4. ~Deferral
  BY <1>1 DEF Deferral, Defer, Save, NextItem
<1>5. AllSpread' /\ HeldBackBelow'
  <2>1. ASSUME NEW k \in Store
        PROVE  Ahead(k) + offset[k] <= (Ahead(k) + offset[k])'
    <3>1. Ahead(k) \in Int /\ offset[k] \in Int
      BY <1>2 DEF Ahead
    <3> QED
      BY <1>1, <1>3, <3>1
  <2> QED
    BY <1>1, <1>4, <2>1, OthersStaySpread
<1> QED
  BY <1>1, <1>3, <1>5 DEF SpreadInv, RequestedClosed, ResultFits, Walled, Breaker!Open

\* The request itself, and every way its outcome is not a wall.
LEMMA UnwalledStaysSpread ==
  ASSUME TypeOK, TypeOK', SpreadInv, Watch, ~Tick,
         StartFetch \/ FetchRaises \/ SaveFails \/ BackOff
  PROVE  SpreadInv'
<1>1. /\ pc \in {"wait", "fetch", "save", "backoff"} /\ pc' \in {"fetch", "backoff", "next"}
      /\ pc' = "fetch" => pc = "wait" /\ batch' = batch
      /\ UNCHANGED <<until, offset>>
  BY DEF StartFetch, FetchRaises, SaveFails, BackOff, NextItem, breakerVars
<1>2. ~Deferral
  BY DEF Deferral, Defer, Save, NextItem, StartFetch, FetchRaises, SaveFails, BackOff
<1>3. AllSpread' /\ HeldBackBelow'
  <2>1. ASSUME NEW k \in Store
        PROVE  Ahead(k) + offset[k] <= (Ahead(k) + offset[k])'
    <3>1. Ahead(k) \in Int /\ offset[k] \in Int /\ (Ahead(k))' = Ahead(k)
      BY <1>1 DEF TypeOK, CycleTyped, Breaker!TypeOK, Breaker!NoCooldown, Ahead, Breaker!Open
    <3> QED
      BY <1>1, <3>1
  <2> QED
    BY <1>1, <1>2, <2>1, OthersStaySpread
<1>4. RequestedClosed'
  BY <1>1 DEF SpreadInv, RequestedClosed, Breaker!Open, ItemStore, Item
<1> QED
  BY <1>1, <1>3, <1>4 DEF SpreadInv, ResultFits, Walled

LEMMA FetchReturnsStaysSpread ==
  ASSUME TypeOK, TypeOK', SpreadInv, Watch, ~Tick, FetchReturns
  PROVE  SpreadInv'
<1> DEFINE k == ItemStore
<1>1. /\ pc = "fetch" /\ pc' = "save" /\ k \in Store /\ k' = k /\ Item' = Item
      /\ row' = row /\ ~Breaker!Open(k)
  BY TailOfBatch
  DEF FetchReturns, TypeOK, CycleTyped, ItemStore, Item, SpreadInv, RequestedClosed
<1>2. PICK o \in Outcomes :
        /\ TellBreaker(k, o)
        /\ result' = [outcome |-> o, next |-> NextCheck(o)]
        /\ IF o = "blocked" THEN Stagger(k) ELSE UNCHANGED offset
  BY DEF FetchReturns
<1>3. \A j \in Store : /\ until[j] \in Nat \cup {-1} /\ until'[j] \in Nat \cup {-1}
                       /\ offset[j] \in Nat /\ offset'[j] \in Nat
  BY DEF TypeOK, CycleTyped, Breaker!TypeOK, Breaker!NoCooldown
<1>4. Ahead(k) = 0 /\ \A j \in Store : Ahead(j) \in Nat /\ (Ahead(j))' \in Nat
  BY <1>1, <1>3 DEF Ahead, Breaker!Open
<1>5. \A j \in Store \ {k} : (Ahead(j))' = Ahead(j)
  <2>1. until \in [Store -> Nat \cup {-1}]
    BY DEF TypeOK, Breaker!TypeOK, Breaker!NoCooldown
  <2>2. \A j \in Store \ {k} : until'[j] = until[j]
    BY <1>2, <2>1
    DEF TellBreaker, Outcomes, Reached, Breaker!RecordBlock, Breaker!RecordSuccess
  <2> QED
    BY <2>2 DEF Ahead, Breaker!Open
<1>6. \A j \in Store : offset'[j] >= offset[j]
  <2>1. CASE o = "blocked"
    BY <1>1, <1>2, <2>1, StaggerGrows DEF TypeOK, CycleTyped
  <2>2. CASE o # "blocked"
    BY <1>2, <1>3, <2>2
  <2> QED
    BY <2>1, <2>2
<1>7. AllSpread' /\ HeldBackBelow'
  <2>1. ~Deferral
    BY <1>1 DEF Deferral
  <2>2. ASSUME NEW j \in Store
        PROVE  Ahead(j) + offset[j] <= (Ahead(j) + offset[j])'
    <3>1. Ahead(j) <= (Ahead(j))'
      BY <1>4, <1>5
    <3> QED
      BY <1>3, <1>4, <1>6, <3>1
  <2> QED
    BY <1>1, <2>1, <2>2, OthersStaySpread
<1>8. ResultFits'
  <2> SUFFICES ASSUME Walled' PROVE ResultFits'
    BY DEF ResultFits
  <2>1. o = "blocked" /\ result'.next = until'[k] + offset[k]
    BY <1>2 DEF Walled, NextCheck
  <2>2. until'[k] \in Nat \ {0}
    <3>1. until'[k] \in Breaker!Cooldown(1)..MaxCooldown
      BY <1>1, <1>2, <2>1, TellBreakerIsTyped
    <3> QED
      BY <3>1, FirstRung
  <2>3. offset'[k] >= offset[k] + SchedDelay
    BY <1>1, <1>2, <2>1, StaggerGrows DEF TypeOK, CycleTyped
  <2>4. (Ahead(k))' = until'[k]
    BY <1>1, <2>2 DEF Ahead, Breaker!Open
  <2>5. Below(result.next, ItemStore)'
    BY <1>1, <1>3, <2>1, <2>2, <2>3, <2>4, SchedulerAssumption DEF Below
  <2>6. ASSUME NEW l \in Link \ {Item}, HeldBack(l)', StoreOf[l] = k
        PROVE  row'[l].next + SchedDelay <= result'.next
    <3>1. Below(row[l].next, k)
      BY <1>1, <2>6, NoNewDeferral DEF SpreadInv, HeldBackBelow
    <3>2. row[l].next \in Int
      BY DEF TypeOK, Rows, Never
    <3> QED
      BY <1>1, <1>3, <1>4, <2>1, <2>2, <3>1, <3>2, SchedulerAssumption DEF Below
  <2> QED
    BY <1>1, <2>5, <2>6 DEF ResultFits
<1> QED
  BY <1>1, <1>7, <1>8 DEF SpreadInv, RequestedClosed

LEMMA SaveStaysSpread ==
  ASSUME TypeOK, TypeOK', SpreadInv, Watch, ~Tick, Save
  PROVE  SpreadInv'
<1> DEFINE k == ItemStore
<1>1. /\ pc = "save" /\ pc' = "next" /\ Item \in Link /\ k \in Store /\ StoreOf[Item] = k
      /\ UNCHANGED <<until, offset>>
  BY TailOfBatch DEF Save, NextItem, TypeOK, CycleTyped, breakerVars, ItemStore
<1>2. \A j \in Store : Ahead(j) \in Int /\ offset[j] \in Int /\ (Ahead(j))' = Ahead(j)
  BY <1>1 DEF TypeOK, CycleTyped, Breaker!TypeOK, Breaker!NoCooldown, Ahead, Breaker!Open
<1>3. CASE ~Deferral
  <2>1. AllSpread' /\ HeldBackBelow'
    BY <1>1, <1>2, <1>3, OthersStaySpread
  <2> QED
    BY <1>1, <2>1 DEF SpreadInv, RequestedClosed, ResultFits, Walled
<1>4. CASE Deferral
  <2>1. Walled /\ row'[Item].next = result.next
    <3>1. result.outcome = "blocked" /\ row' # row
      BY <1>1, <1>4 DEF Deferral, Defer
    <3>2. row' = [row EXCEPT ![Item].next = result.next, ![Item].last = row[Item].last]
      BY <3>1 DEF Save
    <3> QED
      BY <1>1, <3>1, <3>2 DEF Walled, TypeOK, Rows
  <2>2. ASSUME NEW l \in Link \ {Item}, HeldBack(l)' PROVE HeldBack(l) /\ row'[l] = row[l]
    BY <2>2, NoNewDeferral
  <2>3. HeldBackBelow'
    <3> SUFFICES ASSUME NEW l \in Link, HeldBack(l)' PROVE Below(row[l].next, StoreOf[l])'
      BY DEF HeldBackBelow
    <3>1. StoreOf[l] \in Store
      BY SchedulerAssumption
    <3>2. row'[l].next > 0
      BY DEF HeldBack
    <3>3. CASE l = Item
      BY <1>1, <1>2, <2>1, <3>2, <3>3 DEF SpreadInv, ResultFits, Below
    <3>4. CASE l # Item
      BY <1>1, <1>2, <2>2, <3>1, <3>4 DEF SpreadInv, HeldBackBelow, Below
    <3> QED
      BY <3>3, <3>4
  <2>4. AllSpread'
    <3> SUFFICES ASSUME NEW a \in Link, NEW b \in Link, a # b, StoreOf[a] = StoreOf[b],
                        HeldBack(a)', HeldBack(b)'
                 PROVE  \/ row'[a].next >= row'[b].next + SchedDelay
                        \/ row'[b].next >= row'[a].next + SchedDelay
      BY DEF AllSpread
    <3>1. ASSUME NEW l \in Link \ {Item}, HeldBack(l)', StoreOf[l] = k
          PROVE  row'[l].next + SchedDelay <= row'[Item].next
      BY <2>1, <2>2, <3>1 DEF SpreadInv, ResultFits
    <3>2. \A l \in Link : row'[l].next \in Int
      BY DEF TypeOK, Rows, Never
    <3>3. CASE a # Item /\ b # Item
      BY <2>2, <3>3 DEF SpreadInv, AllSpread
    <3>4. CASE a = Item
      BY <1>1, <3>1, <3>2, <3>4, SchedulerAssumption
    <3>5. CASE b = Item
      BY <1>1, <3>1, <3>2, <3>5, SchedulerAssumption
    <3> QED
      BY <3>3, <3>4, <3>5
  <2> QED
    BY <1>1, <2>3, <2>4 DEF SpreadInv, RequestedClosed, ResultFits, Walled
<1> QED
  BY <1>3, <1>4

LEMMA TickStaysSpread ==
  ASSUME TypeOK, TypeOK', SpreadInv, Watch, Tick
  PROVE  SpreadInv'
<1>1. /\ UNCHANGED <<pc, batch, offset>> /\ Item' = Item /\ ItemStore' = ItemStore
      /\ \A k \in Store : until'[k] = Closer(until[k])
      /\ \A l \in Link : row'[l].next = Closer(row[l].next)
      /\ result'.next = Closer(result.next) /\ result'.outcome = result.outcome
  BY DEF Tick, Item, ItemStore, TypeOK, Breaker!TypeOK, Rows, CycleTyped
<1>2. /\ \A k \in Store : until[k] \in Int /\ offset[k] \in Int
      /\ \A l \in Link : row[l].next \in Int /\ StoreOf[l] \in Store
      /\ result.next \in Int
  <2>1. \A k \in Store : until[k] \in Int /\ offset[k] \in Int
    BY DEF TypeOK, Breaker!TypeOK, Breaker!NoCooldown, CycleTyped
  <2>2. \A l \in Link : row[l].next \in Int /\ StoreOf[l] \in Store
    BY SchedulerAssumption DEF TypeOK, Rows, Never
  <2>3. result.next \in Int
    BY DEF TypeOK, CycleTyped
  <2> QED
    BY <2>1, <2>2, <2>3
<1>3. \A k \in Store : /\ Ahead(k) \in Int /\ (Ahead(k))' \in Int
                       /\ (Ahead(k))' >= Ahead(k) - 1 /\ Ahead(k) >= 0 /\ (Ahead(k))' >= 0
                       /\ Breaker!Open(k)' => Breaker!Open(k)
  BY <1>1, <1>2 DEF Ahead, Breaker!Open, Closer
<1>4. ASSUME NEW l \in Link, HeldBack(l)'
      PROVE  HeldBack(l) /\ row'[l].next = row[l].next - 1 /\ row'[l].next > 0
  <2>1. l \in parked /\ l \in thisCycle
    <3>1. ~Deferral
      BY <1>1 DEF Deferral, Defer, Save, NextItem, Tick, TypeOK, CycleTyped
    <3> QED
      BY <1>4, <3>1 DEF Watch, HeldBack
  <2>2. row'[l].next > 0
    BY <1>4 DEF HeldBack
  <2> QED
    BY <1>1, <1>2, <2>1, <2>2 DEF HeldBack, Closer
<1>5. RequestedClosed'
  <2>1. pc \in {"wait", "fetch"} => ItemStore \in Store
    BY TailOfBatch DEF TypeOK, CycleTyped
  <2> QED
    BY <1>1, <1>3, <2>1 DEF SpreadInv, RequestedClosed, Breaker!Open
<1>6. HeldBackBelow'
  <2> SUFFICES ASSUME pc' # "asleep", NEW l \in Link, HeldBack(l)'
               PROVE  Below(row[l].next, StoreOf[l])'
    BY DEF HeldBackBelow
  <2>1. Below(row[l].next, StoreOf[l])
    BY <1>1, <1>4 DEF SpreadInv, HeldBackBelow
  <2> QED
    BY <1>1, <1>2, <1>3, <1>4, <2>1, SchedulerAssumption DEF Below
<1>7. AllSpread'
  <2> SUFFICES ASSUME NEW a \in Link, NEW b \in Link, a # b, StoreOf[a] = StoreOf[b],
                      HeldBack(a)', HeldBack(b)'
               PROVE  \/ row'[a].next >= row'[b].next + SchedDelay
                      \/ row'[b].next >= row'[a].next + SchedDelay
    BY DEF AllSpread
  <2>1. \/ row[a].next >= row[b].next + SchedDelay
        \/ row[b].next >= row[a].next + SchedDelay
    BY <1>4 DEF SpreadInv, AllSpread
  <2> QED
    BY <1>2, <1>4, <2>1, SchedulerAssumption
<1>8. ResultFits'
  <2> SUFFICES ASSUME Walled' PROVE ResultFits'
    BY DEF ResultFits
  <2>1. Walled /\ ItemStore \in Store
    BY <1>1, TailOfBatch DEF Walled, TypeOK, CycleTyped
  <2>2. result'.next > 0 => result'.next = result.next - 1 /\ result.next > 0
    BY <1>1, <1>2 DEF Closer
  <2>3. result'.next > 0 => Below(result.next, ItemStore)'
    BY <1>1, <1>2, <1>3, <2>1, <2>2, SchedulerAssumption DEF SpreadInv, ResultFits, Below
  <2>4. ASSUME NEW l \in Link \ {Item}, HeldBack(l)', StoreOf[l] = ItemStore
        PROVE  row'[l].next + SchedDelay <= result'.next
    <3>1. row[l].next + SchedDelay <= result.next
      BY <1>4, <2>1, <2>4 DEF SpreadInv, ResultFits
    <3> QED
      BY <1>1, <1>2, <1>4, <2>4, <3>1, SchedulerAssumption DEF Closer
  <2> QED
    BY <1>1, <2>3, <2>4 DEF ResultFits
<1> QED
  BY <1>5, <1>6, <1>7, <1>8 DEF SpreadInv

LEMMA StepStaysSpread ==
  ASSUME Interactive = {}
  PROVE  TypeOK /\ TypeOK' /\ SpreadInv /\ [HNext]_allVars => SpreadInv'
<1> SUFFICES ASSUME TypeOK, TypeOK', SpreadInv, [HNext]_allVars PROVE SpreadInv'
  OBVIOUS
<1>1. CASE UNCHANGED allVars
  BY <1>1
  DEF allVars, vars, breakerVars, cycleVars, SpreadInv, RequestedClosed, HeldBackBelow,
      ResultFits, Walled, AllSpread, HeldBack, Below, Ahead, Breaker!Open, ItemStore, Item
<1>2. CASE Watch /\ Tick
  BY <1>2, TickStaysSpread
<1>3. CASE Watch /\ ~Tick /\ (SchedulerStep \/ Restart)
  BY <1>3, CycleEdgeStaysSpread, DeferStaysSpread, PickStaysSpread, UnwalledStaysSpread,
     FetchReturnsStaysSpread, SaveStaysSpread
  DEF SchedulerStep
<1>4. CASE Watch /\ ~Tick /\ UserStep
  <2>1. UNCHANGED <<cycleVars, until>>
    BY <1>4 DEF UserStep, AddLink, Unlink, EditSchedule, breakerVars
  <2> QED
    BY <1>4, <2>1, EditsStaySpread
<1> QED
  BY <1>1, <1>2, <1>3, <1>4 DEF HNext, Next

\* _next_deferral_offset: of the links that _check_due_products pushes behind
\* one store's cooldown in one cycle, no two come due within a
\* RATE_LIMIT_DELAY of one another, while they wait and nobody fetches
\* interactively: somebody else's success could end the cooldown in mid-cycle
\* and a shorter one follow it.
THEOREM DeferralsAreSpread ==
  ASSUME Interactive = {}
  PROVE  HSpec => []CycleDeferralsSpread
<1>1. HInit => TypeOK /\ ParkInv /\ SpreadInv
  <2> SUFFICES ASSUME HInit PROVE TypeOK /\ ParkInv /\ SpreadInv
    OBVIOUS
  <2>1. TypeOK /\ ParkInv
    BY InitHolds DEF HInit
  <2>2. thisCycle = {} /\ pc = "asleep"
    BY DEF HInit, Init
  <2> QED
    BY <2>1, <2>2
    DEF SpreadInv, RequestedClosed, HeldBackBelow, ResultFits, Walled, AllSpread, HeldBack
<1>2. TypeOK /\ ParkInv /\ SpreadInv /\ [HNext]_allVars => TypeOK' /\ ParkInv' /\ SpreadInv'
  <2>1. [HNext]_allVars => [Next]_vars
    BY DEF HNext, allVars
  <2> QED
    BY <2>1, StepPreserves, StepStaysSpread
<1>3. SpreadInv => CycleDeferralsSpread
  BY AllSpreadSuffices DEF SpreadInv
<1> QED
  BY <1>1, <1>2, <1>3, PTL DEF HSpec
=============================================================================
