------------------------ MODULE LedgerHistoryProofs -------------------------
(***************************************************************************)
(* What TLAPS proves of the politeness ledger and of the whole history of  *)
(* its reservations, for any number of stores and of interactive callers   *)
(* and for all delays.                                                     *)
(***************************************************************************)
EXTENDS LedgerHistory, TLAPS

LEMMA LaterIsMaximum ==
  ASSUME NEW a \in Nat, NEW b \in Nat
  PROVE  /\ Later(a, b) \in Nat
         /\ a <= Later(a, b) /\ b <= Later(a, b)
         /\ Later(a, b) = a \/ Later(a, b) = b
  BY DEF Later

\* A slot is never in the past; the scheduler's is at or after the instant the
\* store is free, a capped one at most MaxWait away.
LEMMA SlotsLieAhead ==
  ASSUME TypeOK, NEW c \in Caller, NEW k \in Store
  PROVE  /\ SlotFor(c, k) \in Nat
         /\ SlotFor(c, k) >= now
         /\ c = Background => SlotFor(c, k) >= nextFree[k]
         /\ c # Background => SlotFor(c, k) <= now + MaxWait
  BY RateLimiterAssumption
  DEF TypeOK, SlotFor, CappedSlot, PoliteSlot, Later

LEMMA IntervalsArePositive ==
  ASSUME NEW c \in Caller, NEW i \in Intervals(c)
  PROVE  /\ i \in Nat
         /\ c = Background => i <= SchedDelay + SchedJitter
         /\ c # Background => i <= UserDelay + UserJitter
  BY RateLimiterAssumption DEF Intervals

LEMMA IdleIsNoReservation == Idle \notin Reservation
  BY RateLimiterAssumption DEF Idle, Reservation

\* The ledger keeps its type: in particular every reservation is for a store.
THEOREM TypeCorrect == Spec => []TypeOK
<1>1. Init => TypeOK
  BY RateLimiterAssumption DEF Init, TypeOK, Idle
<1>2. TypeOK /\ [Next]_vars => TypeOK'
  <2> SUFFICES ASSUME TypeOK, [Next]_vars PROVE TypeOK'
    OBVIOUS
  <2>1. CASE Reserve
    <3> PICK c \in Caller, k \in Store : \E i \in Intervals(c) :
               Acquire(c, k, i) /\ UNCHANGED now
      BY <2>1 DEF Reserve
    <3> PICK i \in Intervals(c) : Acquire(c, k, i) /\ UNCHANGED now
      OBVIOUS
    <3>1. SlotFor(c, k) \in Nat /\ i \in Nat
      BY SlotsLieAhead, IntervalsArePositive
    <3>2. nextFree' \in [Store -> Nat]
      <4>1. nextFree[k] \in Nat /\ SlotFor(c, k) + i \in Nat
        BY <3>1 DEF TypeOK
      <4>2. Later(nextFree[k], SlotFor(c, k) + i) \in Nat
        BY <4>1, LaterIsMaximum
      <4> QED
        BY <4>2 DEF Acquire, TypeOK
    <3>3. slot' \in [Caller -> Reservation \cup {Idle}]
      BY <3>1 DEF Acquire, TypeOK, Reservation
    <3> QED
      BY <3>2, <3>3 DEF TypeOK
  <2>2. CASE Awake
    BY <2>2 DEF Awake, Fire, TypeOK
  <2>3. CASE Tick
    BY <2>3 DEF Tick, TypeOK
  <2>4. CASE UNCHANGED vars
    BY <2>4 DEF vars, TypeOK
  <2> QED
    BY <2>1, <2>2, <2>3, <2>4 DEF Next
<1> QED
  BY <1>1, <1>2, PTL DEF Spec

-----------------------------------------------------------------------------
\* Why the scheduler never waits long.  A store's next free instant lies at
\* most WaitBound ahead, unless the scheduler itself has reserved the store:
\* only its own reservation, which is still ahead of it, pushes further.
Reach ==
  \A k \in Store :
    \/ nextFree[k] <= now + WaitBound
    \/ /\ slot[Background] # Idle /\ slot[Background].store = k
       /\ nextFree[k] <= slot[Background].at + SchedDelay + SchedJitter

BoundInv == TypeOK /\ BackgroundWaitBounded /\ Reach

LEMMA WaitBoundCovers ==
  /\ WaitBound \in Nat
  /\ SchedDelay + SchedJitter <= WaitBound
  /\ MaxWait + UserDelay + UserJitter <= WaitBound
  BY RateLimiterAssumption DEF WaitBound, Later

\* One reservation of an interactive caller: what it adds to a store's next
\* free instant lies within WaitBound, and the scheduler's slot stays put.
LEMMA InteractiveReservation ==
  ASSUME BoundInv, NEW c \in Interactive, NEW k \in Store,
         NEW i \in Intervals(c), Acquire(c, k, i), UNCHANGED now
  PROVE  BackgroundWaitBounded' /\ Reach'
<1>1. c \in Caller /\ c # Background
  BY RateLimiterAssumption DEF Caller
<1>2. slot'[Background] = slot[Background]
  BY <1>1 DEF Acquire, BoundInv, TypeOK, Caller
<1>3. SlotFor(c, k) \in Nat /\ SlotFor(c, k) <= now + MaxWait
  BY <1>1, SlotsLieAhead DEF BoundInv
<1>4. i \in Nat /\ i <= UserDelay + UserJitter
  BY <1>1, IntervalsArePositive
<1>5. SlotFor(c, k) + i <= now + WaitBound
  BY <1>3, <1>4, WaitBoundCovers, RateLimiterAssumption DEF BoundInv, TypeOK
<1>6. nextFree'[k] = nextFree[k] \/ nextFree'[k] <= now + WaitBound
  BY <1>5 DEF Acquire, BoundInv, TypeOK, Later
<1>7. \A j \in Store \ {k} : nextFree'[j] = nextFree[j]
  BY DEF Acquire, BoundInv, TypeOK
<1>8. BackgroundWaitBounded'
  BY <1>2 DEF BoundInv, BackgroundWaitBounded, WaitBound
<1>9. Reach'
  BY <1>2, <1>6, <1>7 DEF BoundInv, Reach, WaitBound
<1> QED
  BY <1>8, <1>9

\* The scheduler's own reservation: it had none before, so every store is
\* free within WaitBound, and its slot with it.
LEMMA BackgroundReservation ==
  ASSUME BoundInv, NEW k \in Store, NEW i \in Intervals(Background),
         Acquire(Background, k, i), UNCHANGED now
  PROVE  BackgroundWaitBounded' /\ Reach'
<1>1. Background \in Caller
  BY DEF Caller
<1>2. slot[Background] = Idle
  BY DEF Acquire
<1>3. \A j \in Store : nextFree[j] <= now + WaitBound
  BY <1>2 DEF BoundInv, Reach
<1>4. slot'[Background] = [store |-> k, at |-> SlotFor(Background, k)]
  BY <1>1 DEF Acquire, BoundInv, TypeOK
<1>5. /\ SlotFor(Background, k) \in Nat
      /\ SlotFor(Background, k) >= nextFree[k]
      /\ SlotFor(Background, k) <= now + WaitBound
  <2>1. SlotFor(Background, k) = Later(now, nextFree[k])
    BY DEF SlotFor, PoliteSlot
  <2> QED
    BY <1>3, <2>1, WaitBoundCovers DEF BoundInv, TypeOK, Later
<1>6. i \in Nat /\ i <= SchedDelay + SchedJitter
  BY <1>1, IntervalsArePositive
<1>7. nextFree'[k] = Later(nextFree[k], SlotFor(Background, k) + i)
  BY DEF Acquire, BoundInv, TypeOK
<1>8. nextFree'[k] <= SlotFor(Background, k) + SchedDelay + SchedJitter
  <2>1. nextFree[k] \in Nat
    BY DEF BoundInv, TypeOK
  <2> QED
    BY <1>5, <1>6, <1>7, <2>1, RateLimiterAssumption DEF Later
<1>9. \A j \in Store \ {k} : nextFree'[j] = nextFree[j]
  BY DEF Acquire, BoundInv, TypeOK
<1>10. slot'[Background] # Idle
  BY <1>4, RateLimiterAssumption DEF Idle
<1>11. BackgroundWaitBounded'
  BY <1>4, <1>5 DEF BackgroundWaitBounded, WaitBound
<1>12. Reach'
  BY <1>3, <1>4, <1>8, <1>9, <1>10 DEF Reach, WaitBound
<1> QED
  BY <1>11, <1>12

LEMMA BoundInvStep ==
  ASSUME BoundInv, [Next]_vars
  PROVE  BackgroundWaitBounded' /\ Reach'
<1>1. CASE Reserve
  <2> PICK c \in Caller, k \in Store : \E i \in Intervals(c) :
             Acquire(c, k, i) /\ UNCHANGED now
    BY <1>1 DEF Reserve
  <2> PICK i \in Intervals(c) : Acquire(c, k, i) /\ UNCHANGED now
    OBVIOUS
  <2>1. CASE c = Background
    BY <2>1, BackgroundReservation
  <2>2. CASE c \in Interactive
    BY <2>2, InteractiveReservation
  <2> QED
    BY <2>1, <2>2 DEF Caller
<1>2. CASE Awake
  <2> PICK c \in Caller : Fire(c) /\ UNCHANGED now
    BY <1>2 DEF Awake
  <2>1. CASE c = Background
    <3>1. /\ slot'[Background] = Idle
          /\ slot[Background].at <= now /\ slot[Background].at \in Nat
      BY <2>1 DEF Fire, BoundInv, TypeOK, Caller, Reservation
    <3>2. \A k \in Store : nextFree'[k] <= now + WaitBound
      BY <3>1, WaitBoundCovers, RateLimiterAssumption
      DEF Fire, BoundInv, TypeOK, Reach
    <3> QED
      BY <3>1, <3>2 DEF BackgroundWaitBounded, Reach, WaitBound
  <2>2. CASE c # Background
    BY <2>2 DEF Fire, BoundInv, TypeOK, Caller, BackgroundWaitBounded, Reach, WaitBound
  <2> QED
    BY <2>1, <2>2
<1>3. CASE Tick
  <2>1. /\ now \in Nat /\ now' = now + 1 /\ WaitBound \in Nat
        /\ nextFree' = nextFree /\ slot' = slot
    BY <1>3, WaitBoundCovers DEF Tick, BoundInv, TypeOK
  <2>2. BackgroundWaitBounded'
    <3>1. slot[Background] # Idle => slot[Background].at \in Nat
      BY DEF BoundInv, TypeOK, Caller, Reservation
    <3> QED
      BY <2>1, <3>1 DEF BoundInv, BackgroundWaitBounded, WaitBound
  <2>3. Reach'
    BY <2>1 DEF BoundInv, TypeOK, Reach, WaitBound
  <2> QED
    BY <2>2, <2>3
<1>4. CASE UNCHANGED vars
  BY <1>4 DEF vars, BoundInv, BackgroundWaitBounded, Reach, WaitBound
<1> QED
  BY <1>1, <1>2, <1>3, <1>4 DEF Next

\* However many interactive fetches cut in, the scheduler's sleep on the
\* ledger is bounded by one interval, its own or a capped interactive one.
THEOREM BackgroundWaitIsBounded == Spec => []BackgroundWaitBounded
<1>1. Init => BackgroundWaitBounded /\ Reach
  BY WaitBoundCovers DEF Init, BackgroundWaitBounded, Reach, Caller
<1>2. TypeOK /\ (BackgroundWaitBounded /\ Reach) /\ [Next]_vars
        => (BackgroundWaitBounded /\ Reach)'
  BY BoundInvStep DEF BoundInv
<1> QED
  BY <1>1, <1>2, TypeCorrect, PTL DEF Spec

-----------------------------------------------------------------------------
\* Nobody rewinds the ledger, a capped caller least of all.
THEOREM LedgerNeverRewinds == Spec => NeverRewinds
<1>1. ASSUME TypeOK, [Next]_vars, NEW k \in Store
      PROVE  nextFree'[k] >= nextFree[k]
  <2>1. CASE Reserve
    <3> PICK c \in Caller, j \in Store : \E i \in Intervals(c) : Acquire(c, j, i)
      BY <2>1 DEF Reserve
    <3> PICK i \in Intervals(c) : Acquire(c, j, i)
      OBVIOUS
    <3>1. nextFree[j] \in Nat /\ SlotFor(c, j) + i \in Nat
      BY <1>1, SlotsLieAhead, IntervalsArePositive DEF TypeOK
    <3>2. nextFree[j] <= Later(nextFree[j], SlotFor(c, j) + i)
      BY <3>1, LaterIsMaximum
    <3> QED
      BY <1>1, <3>2 DEF Acquire, TypeOK
  <2>2. CASE Awake
    BY <1>1, <2>2 DEF Awake, Fire, TypeOK
  <2>3. CASE Tick
    BY <1>1, <2>3 DEF Tick, TypeOK
  <2>4. CASE UNCHANGED vars
    BY <1>1, <2>4 DEF vars, TypeOK
  <2> QED
    BY <1>1, <2>1, <2>2, <2>3, <2>4 DEF Next
<1>2. TypeOK /\ [Next]_vars => [\A k \in Store : nextFree'[k] >= nextFree[k]]_vars
  BY <1>1
<1> QED
  BY <1>2, TypeCorrect, PTL DEF Spec, NeverRewinds

-----------------------------------------------------------------------------
(* The history. *)

\* The history only watches: every behaviour with it is one of the ledger.
THEOREM HistoryWatches == HSpec => Spec
<1>1. HInit => Init
  BY DEF HInit
<1>2. [HNext]_allVars => [Next]_vars
  BY DEF HNext, HReserve, allVars, vars, Next, Reserve
<1> QED
  BY <1>1, <1>2, PTL DEF HSpec, Spec

\* The strengthening: reservations are numbered in the order they are granted,
\* and a store's next free instant lies an interval behind each of them.
Recorded ==
  /\ issued \in Nat
  /\ grants \subseteq Grant
  /\ \A e \in grants : e.no < issued

LedgerRemembers ==
  \A e \in grants : nextFree[e.store] >= e.at + e.interval

HistoryInv == Recorded /\ LedgerRemembers /\ BackgroundKeepsIntervals

LEMMA HistoryInvInit == HInit => HistoryInv
  BY DEF HInit, HistoryInv, Recorded, LedgerRemembers, BackgroundKeepsIntervals

\* A new reservation takes its place behind all the recorded ones.
LEMMA NewGrant ==
  ASSUME TypeOK, HistoryInv, NEW c \in Caller, NEW k \in Store,
         NEW i \in Intervals(c), Acquire(c, k, i),
         grants' = grants \cup {[no |-> issued, by |-> c, store |-> k,
                                 at |-> SlotFor(c, k), interval |-> i]},
         issued' = issued + 1
  PROVE  HistoryInv'
<1> DEFINE g == [no |-> issued, by |-> c, store |-> k,
                 at |-> SlotFor(c, k), interval |-> i]
<1>1. SlotFor(c, k) \in Nat /\ (c = Background => SlotFor(c, k) >= nextFree[k])
  BY SlotsLieAhead
<1>2. i \in Nat
  BY IntervalsArePositive
<1>3. g \in Grant
  BY <1>1, <1>2 DEF Grant, HistoryInv, Recorded
<1>4. Recorded'
  BY <1>3 DEF HistoryInv, Recorded, Grant
<1>5. \A e \in grants : /\ e.no \in Nat /\ e.no < issued
                        /\ e.store \in Store /\ e.at + e.interval \in Nat
                        /\ nextFree[e.store] >= e.at + e.interval
  BY DEF HistoryInv, Recorded, LedgerRemembers, Grant
<1>6. /\ nextFree' = [nextFree EXCEPT ![k] = Later(@, SlotFor(c, k) + i)]
      /\ nextFree \in [Store -> Nat]
  BY DEF Acquire, TypeOK
<1>7. LedgerRemembers'
  <2>1. nextFree'[k] >= SlotFor(c, k) + i /\ nextFree'[k] >= nextFree[k]
    BY <1>1, <1>2, <1>6 DEF Later
  <2>2. \A e \in grants : nextFree'[e.store] >= e.at + e.interval
    <3> SUFFICES ASSUME NEW e \in grants
                 PROVE  nextFree'[e.store] >= e.at + e.interval
      OBVIOUS
    <3>1. CASE e.store = k
      BY <1>1, <1>2, <1>5, <1>6, <2>1, <3>1 DEF Later
    <3>2. CASE e.store # k
      BY <1>5, <1>6, <3>2
    <3> QED
      BY <3>1, <3>2
  <2> QED
    BY <2>1, <2>2 DEF LedgerRemembers
<1>8. BackgroundKeepsIntervals'
  <2> SUFFICES ASSUME NEW e \in grants', NEW f \in grants',
                      Earlier(e, f), f.by = Background
               PROVE  f.at >= e.at + e.interval
    BY DEF BackgroundKeepsIntervals, Earlier
  <2>1. CASE e \in grants /\ f \in grants
    BY <2>1 DEF HistoryInv, BackgroundKeepsIntervals
  <2>2. CASE e \in grants /\ f = g
    BY <1>1, <1>5, <1>6, <2>2 DEF Earlier
  <2>3. CASE e = g
    <3>1. f.no <= issued
      BY <1>5 DEF HistoryInv, Recorded
    <3> QED
      BY <1>5, <2>3, <3>1 DEF Earlier, HistoryInv, Recorded
  <2> QED
    BY <2>1, <2>2, <2>3
<1> QED
  BY <1>4, <1>7, <1>8 DEF HistoryInv

LEMMA HistoryInvStep ==
  ASSUME TypeOK, HistoryInv, [HNext]_allVars
  PROVE  HistoryInv'
<1>1. CASE HReserve
  <2> PICK c \in Caller, k \in Store : \E i \in Intervals(c) :
        /\ Acquire(c, k, i)
        /\ grants' = grants \cup {[no |-> issued, by |-> c, store |-> k,
                                   at |-> SlotFor(c, k), interval |-> i]}
        /\ issued' = issued + 1
    BY <1>1 DEF HReserve
  <2> QED
    BY NewGrant
<1>2. CASE (Awake \/ Tick) /\ UNCHANGED <<grants, issued>>
  BY <1>2 DEF Awake, Fire, Tick, HistoryInv, Recorded, LedgerRemembers,
              BackgroundKeepsIntervals, Earlier
<1>3. CASE UNCHANGED allVars
  BY <1>3 DEF allVars, HistoryInv, Recorded, LedgerRemembers,
              BackgroundKeepsIntervals, Earlier
<1> QED
  BY <1>1, <1>2, <1>3 DEF HNext

\* A scheduler slot lies a full interval behind every earlier reservation of
\* its store, however many capped callers jumped the queue in between.
THEOREM BackgroundAlwaysKeepsIntervals == HSpec => []BackgroundKeepsIntervals
<1>1. HInit => HistoryInv
  BY HistoryInvInit
<1>2. TypeOK /\ HistoryInv /\ [HNext]_allVars => HistoryInv'
  BY HistoryInvStep
<1>3. HistoryInv => BackgroundKeepsIntervals
  BY DEF HistoryInv
<1> QED
  BY <1>1, <1>2, <1>3, HistoryWatches, TypeCorrect, PTL DEF HSpec
=============================================================================
