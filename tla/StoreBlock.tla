----------------------------- MODULE StoreBlock -----------------------------
(***************************************************************************)
(* The process-wide, per-store circuit breaker of infra/store_block.py.    *)
(* One registry is shared by the scheduler and by every interactive fetch; *)
(* each of them asks blocked_until() before it talks to a store and feeds  *)
(* the answer back with record_block() or record_success().                *)
(*                                                                         *)
(* Time is a bounded integer clock; one tick stands for the unit in which  *)
(* BaseCooldown and MaxCooldown are given.  An absent key of the Python    *)
(* dicts is NoCooldown for _until and 0 for _strikes.                      *)
(***************************************************************************)
EXTENDS Integers

CONSTANTS Store,         \* the stores whose requests share one breaker each
          BaseCooldown,  \* BASE_COOLDOWN_MINUTES
          MaxCooldown,   \* MAX_COOLDOWN_MINUTES
          MaxStrikes,    \* strikes saturate here: the doubling is at its ceiling
          Horizon        \* bound on the clock

VARIABLES now,      \* the instant _now() returns
          until,    \* _until: when a store's cooldown lifts
          strikes   \* _strikes: consecutive blocks, the exponent of the doubling

vars == <<now, until, strikes>>

NoCooldown == -1

\* Minutes a store is left alone after its n-th consecutive block.
Cooldown(n) ==
  LET doubled == BaseCooldown * 2^(n - 1)
  IN  IF doubled < MaxCooldown THEN doubled ELSE MaxCooldown

\* The doubling never shrinks up to the strike count at which it has reached
\* its ceiling, so a count that saturates there loses nothing.
ASSUME StoreBlockAssumption ==
  /\ Horizon \in Nat
  /\ MaxStrikes \in Nat \ {0}
  /\ \A n \in 1..MaxStrikes : Cooldown(n) \in Nat \ {0}
  /\ \A m, n \in 1..MaxStrikes : m <= n => Cooldown(m) <= Cooldown(n)
  /\ Cooldown(MaxStrikes) = MaxCooldown

-----------------------------------------------------------------------------
\* The breaker of store k holds every request back.
Open(k) == until[k] > now

\* A cooldown that ran out and that nobody has looked at since.
Lapsed(k) == until[k] # NoCooldown /\ until[k] <= now

NextStrike(n) == IF n < MaxStrikes THEN n + 1 ELSE MaxStrikes

Init ==
  /\ now = 0
  /\ until = [k \in Store |-> NoCooldown]
  /\ strikes = [k \in Store |-> 0]

\* Mutant of RecordBlock: a standing cooldown is extended instead of replaced.
RecordBlockStacks(k) ==
  /\ strikes' = [strikes EXCEPT ![k] = NextStrike(@)]
  /\ until' = [until EXCEPT ![k] = (IF Open(k) THEN @ ELSE now) + Cooldown(NextStrike(strikes[k]))]

\* A bot-wall answer: one more strike, and the whole cooldown counted from now.
RecordBlock(k) ==
  /\ strikes' = [strikes EXCEPT ![k] = NextStrike(@)]
  /\ until' = [until EXCEPT ![k] = now + Cooldown(NextStrike(strikes[k]))]

\* A real page: forget the cooldown and the escalation.
RecordSuccess(k) ==
  /\ strikes' = [strikes EXCEPT ![k] = 0]
  /\ until' = [until EXCEPT ![k] = NoCooldown]

\* Mutant of BlockedUntil: the strikes go with the lapsed cooldown.
BlockedUntilForgives(k) ==
  /\ until' = [until EXCEPT ![k] = IF Lapsed(k) THEN NoCooldown ELSE @]
  /\ strikes' = [strikes EXCEPT ![k] = IF Lapsed(k) THEN 0 ELSE @]

\* Asking whether k may be requested drops a lapsed cooldown and keeps the
\* strikes: the probe that follows is on trial.
BlockedUntil(k) ==
  /\ until' = [until EXCEPT ![k] = IF Lapsed(k) THEN NoCooldown ELSE @]
  /\ UNCHANGED strikes

\* The status page asks about every store at once.
Snapshot ==
  /\ until' = [k \in Store |-> IF Lapsed(k) THEN NoCooldown ELSE until[k]]
  /\ UNCHANGED strikes

Tick ==
  /\ now < Horizon
  /\ now' = now + 1
  /\ UNCHANGED <<until, strikes>>

Ask == \E k \in Store : BlockedUntil(k) /\ UNCHANGED now
Block == \E k \in Store : RecordBlock(k) /\ UNCHANGED now
Answer == \E k \in Store : RecordSuccess(k) /\ UNCHANGED now
Status == Snapshot /\ UNCHANGED now

Next == Ask \/ Block \/ Answer \/ Status \/ Tick

Spec == Init /\ [][Next]_vars

-----------------------------------------------------------------------------
TypeOK ==
  /\ now \in 0..Horizon
  /\ until \in [Store -> Nat \cup {NoCooldown}]
  /\ strikes \in [Store -> 0..MaxStrikes]

\* A standing cooldown never outlasts what the strike count behind it earns,
\* and there is always a strike behind it: record_block writes both entries
\* from one count while _until and _strikes are cleared in different places
\* (only record_success clears the second).
CooldownEarned ==
  \A k \in Store : until[k] # NoCooldown =>
    /\ strikes[k] >= 1
    /\ until[k] <= now + Cooldown(strikes[k])

\* A second caller that hits the same wall while the breaker is already open
\* overwrites _until; the store must never be let out EARLIER by that.
BlockNeverShortens ==
  [][\A k \in Store :
       (Open(k) /\ until'[k] # NoCooldown) => until'[k] >= until[k]]_vars
=============================================================================
