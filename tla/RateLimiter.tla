---------------------------- MODULE RateLimiter -----------------------------
(***************************************************************************)
(* The politeness ledger of infra/rate_limiter.py: acquire() claims the    *)
(* next free instant of a store and sleeps until it, outside the lock.     *)
(* There is no await inside the locked section, so a reservation is one    *)
(* step; the sleep is a caller waiting in slot[c] until the clock reaches  *)
(* it (or later: a sleep may overshoot).                                   *)
(*                                                                         *)
(* The callers are the one scheduler task (Background: RATE_LIMIT_DELAY    *)
(* and RATE_LIMIT_JITTER, no max_wait) and the interactive fetches         *)
(* (QUICKADD_RATE_LIMIT_DELAY and _JITTER, capped by QUICKADD_MAX_WAIT).   *)
(***************************************************************************)
EXTENDS Integers

CONSTANTS Store,
          Background,    \* the scheduler task
          Interactive,   \* the interactive fetches
          SchedDelay, SchedJitter,
          UserDelay, UserJitter, MaxWait,
          NoStore,       \* not a store
          Horizon        \* bound on the clock

ASSUME RateLimiterAssumption ==
  /\ Background \notin Interactive
  /\ NoStore \notin Store
  /\ SchedDelay \in Nat \ {0} /\ SchedJitter \in Nat
  /\ UserDelay \in Nat \ {0} /\ UserJitter \in Nat
  /\ MaxWait \in Nat
  /\ Horizon \in Nat

VARIABLES now,       \* time.monotonic()
          nextFree,  \* _next_free: the instant a store's next slot opens
          slot       \* the reservation a caller sleeps on

vars == <<now, nextFree, slot>>

Caller == Interactive \cup {Background}
Idle == [store |-> NoStore, at |-> 0]
Reservation == [store : Store, at : Nat]

Later(a, b) == IF a < b THEN b ELSE a

-----------------------------------------------------------------------------

\* The instant a caller of store k may fire: the next free one, or no later
\* than its max_wait from now when it has one.
PoliteSlot(k) == Later(now, nextFree[k])

\* Mutant of CappedSlot: max_wait is ignored.
CappedSlotUncapped(k) == PoliteSlot(k)

CappedSlot(k) ==
  IF PoliteSlot(k) - now > MaxWait THEN now + MaxWait ELSE PoliteSlot(k)

\* Mutant of SlotFor: the scheduler is capped like everybody else.
SlotForAllCapped(c, k) == CappedSlot(k)

SlotFor(c, k) == IF c = Background THEN PoliteSlot(k) ELSE CappedSlot(k)

\* min_interval + uniform(0, jitter) of a caller.
Intervals(c) ==
  IF c = Background THEN SchedDelay..(SchedDelay + SchedJitter)
                    ELSE UserDelay..(UserDelay + UserJitter)

Init ==
  /\ now = 0
  /\ nextFree = [k \in Store |-> 0]
  /\ slot = [c \in Caller |-> Idle]

\* acquire(): reserve; a capped caller cannot rewind the ledger.
Acquire(c, k, interval) ==
  /\ slot[c] = Idle
  /\ slot' = [slot EXCEPT ![c] = [store |-> k, at |-> SlotFor(c, k)]]
  /\ nextFree' = [nextFree EXCEPT ![k] = Later(@, SlotFor(c, k) + interval)]

\* The sleep is over: the caller goes on to fetch.
Fire(c) ==
  /\ slot[c] # Idle
  /\ slot[c].at <= now
  /\ slot' = [slot EXCEPT ![c] = Idle]
  /\ UNCHANGED nextFree

Tick ==
  /\ now < Horizon
  /\ now' = now + 1
  /\ UNCHANGED <<nextFree, slot>>

Reserve == \E c \in Caller, k \in Store :
             \E i \in Intervals(c) : Acquire(c, k, i) /\ UNCHANGED now
Awake == \E c \in Caller : Fire(c) /\ UNCHANGED now

Next == Reserve \/ Awake \/ Tick

Spec == Init /\ [][Next]_vars

-----------------------------------------------------------------------------
TypeOK ==
  /\ now \in Nat
  /\ nextFree \in [Store -> Nat]
  /\ slot \in [Caller -> Reservation \cup {Idle}]

\* However many interactive fetches cut in, the scheduler never sleeps longer
\* on the ledger than one interval of its own, or one capped wait plus one
\* interactive interval, whichever is longer: a busy operator cannot hold the
\* whole batch (the scheduler checks its links one after the other) at one
\* store.
WaitBound == Later(SchedDelay + SchedJitter, MaxWait + UserDelay + UserJitter)
BackgroundWaitBounded ==
  slot[Background] # Idle => slot[Background].at <= now + WaitBound

\* The reservations stay in the ledger's order for those who queue: a caller
\* that takes a slot while the scheduler sleeps on the same store leaves the
\* scheduler's own slot and everything behind it where it was.
NeverRewinds == [][\A k \in Store : nextFree'[k] >= nextFree[k]]_vars
=============================================================================
