----------------------------- MODULE Scheduler ------------------------------
(***************************************************************************)
(* One instance's background checks and the interactive fetches beside     *)
(* them: PriceCheckScheduler._check_due_products of domain/scheduler.py,   *)
(* one await at a time, composed with the shared breaker (StoreBlock), the *)
(* shared politeness ledger (RateLimiter), the handlers of api/admin.py    *)
(* that fetch, and the link rows of the database.                          *)
(*                                                                         *)
(* The program is one asyncio loop: between two awaits a task runs alone,  *)
(* so each action below is the code between two awaits that matter, and    *)
(* everything else may happen in between.                                  *)
(*                                                                         *)
(* The code stores instants and compares them with now.  Here an instant   *)
(* is stored as its distance from the present (both components are         *)
(* instantiated with now <- 0), Tick brings every one of them a unit       *)
(* closer, and an instant that has passed stays at 0: the model needs no   *)
(* clock and no bound on time.  What is lost is the order of instants in   *)
(* the past, so links that are overdue may be taken in any order.          *)
(***************************************************************************)
EXTENDS Integers, Sequences, FiniteSets

CONSTANTS Store, Link,
          StoreOf,        \* the store a link's page belongs to
          Weekly,         \* the links whose effective schedule is by weekday
          Background, Interactive,
          NoStore, NoLink,
          SchedDelay, SchedJitter, UserDelay, UserJitter, MaxWait,
          BaseCooldown, MaxCooldown, MaxStrikes,
          CheckInterval,  \* CHECK_INTERVAL_SECONDS
          BatchSize,      \* BATCH_SIZE
          Period,         \* what next_check_time_for_link adds at least
          NextMorning,    \* what next_morning_retry adds at least
          Backoff,        \* the hour after an exception
          PauseLength     \* SCHEDULER_ADD_PAUSE_MINUTES

ASSUME SchedulerAssumption ==
  /\ IsFiniteSet(Link) /\ NoLink \notin Link
  /\ StoreOf \in [Link -> Store] /\ NoStore \notin Store
  /\ Weekly \subseteq Link
  /\ Background \notin Interactive /\ NoStore \notin Interactive \cup {Background}
  /\ SchedDelay \in Nat \ {0} /\ SchedJitter \in Nat
  /\ UserDelay \in Nat \ {0} /\ UserJitter \in Nat /\ MaxWait \in Nat
  /\ CheckInterval \in Nat \ {0} /\ BatchSize \in Nat \ {0}
  /\ Period \in Nat \ {0} /\ NextMorning \in Nat \ {0} /\ Backoff \in Nat \ {0}
  /\ PauseLength \in Nat
  /\ MaxStrikes \in Nat \ {0} /\ MaxCooldown \in Nat

VARIABLES until, strikes,    \* the breaker
          nextFree, slot,    \* the ledger
          overtaken,         \* history: an operator has met a wall at the picked store
                             \* while the scheduler sleeps on the ledger
          row,               \* product_stores: existence, next_check_at, and what the
                             \* last stamp of last_checked_at stands for
          pc, wake,          \* where the scheduler task is; when it wakes
          batch,             \* due_items still to do, loaded at the start of the cycle
          offset,            \* deferral_offsets of the cycle
          result,            \* the outcome being saved, with its next_check
          pausedUntil,       \* _paused_until
          user               \* the interactive fetches

breakerVars == <<until, strikes, overtaken>>
ledgerVars == <<nextFree, slot>>
cycleVars == <<pc, wake, batch, offset, result>>
vars == <<breakerVars, ledgerVars, row, cycleVars, pausedUntil, user>>

Breaker == INSTANCE StoreBlock WITH now <- 0, Horizon <- 0
Ledger == INSTANCE RateLimiter WITH now <- 0, Horizon <- 0

\* Every rung of the breaker's ladder is a cooldown, up to the ceiling, and none
\* is shorter than the first.
ASSUME LadderAssumption ==
  \A n \in 1..MaxStrikes :
    Breaker!Cooldown(n) \in 1..MaxCooldown /\ Breaker!Cooldown(1) <= Breaker!Cooldown(n)

Never == -1    \* a NULL next_check_at
Absent == [is |-> "absent", next |-> Never, last |-> "never"]
FreshRow == [is |-> "live", next |-> Never, last |-> "never"]
Gone == [is |-> "gone", next |-> Never, last |-> "never"]
AtRest == [pc |-> "idle", store |-> NoStore, link |-> NoLink]
NoResult == [outcome |-> "none", next |-> 0]

Live(l) == row[l].is = "live"

Outcomes == {"ok", "no_price", "fetch_failed", "blocked"}
Reached == {"ok", "no_price"}    \* failure_reason # "fetch_failed"
Stamp(o) == IF o \in Reached THEN "answered" ELSE "unanswered"

-----------------------------------------------------------------------------
\* The due query: live rows whose next_check_at is NULL or has come, ordered
\* by next_check_at ascending (Postgres puts NULL last), at most BatchSize.
Due == {l \in Link : Live(l) /\ row[l].next <= 0}

NotAfter(a, b) ==
  \/ row[b].next = Never
  \/ row[a].next # Never /\ row[a].next <= row[b].next

BatchLength ==
  IF Cardinality(Due) < BatchSize THEN Cardinality(Due) ELSE BatchSize

DueBatches ==
  {b \in [1..BatchLength -> Due] :
     /\ \A i, j \in 1..BatchLength : i < j => b[i] # b[j] /\ NotAfter(b[i], b[j])
     /\ \A l \in Due : (\A i \in 1..BatchLength : b[i] # l)
                          => \A i \in 1..BatchLength : NotAfter(b[i], l)}

\* The link being worked on, and its store.
Item == Head(batch)
ItemStore == StoreOf[Item]

\* An UPDATE of a row that is gone changes nothing.
Reschedule(l, next) ==
  row' = IF Live(l) THEN [row EXCEPT ![l].next = next] ELSE row

NextItem == pc' = "next" /\ batch' = Tail(batch)

Init ==
  /\ Breaker!Init /\ overtaken = FALSE
  /\ Ledger!Init
  /\ row \in [Link -> {FreshRow, Absent}]
  /\ pc = "asleep" /\ wake = 0 /\ batch = <<>>
  /\ offset = [k \in Store |-> 0] /\ result = NoResult
  /\ pausedUntil = 0
  /\ user = [u \in Interactive |-> AtRest]

-----------------------------------------------------------------------------
(* The scheduler task. *)

Paused == pausedUntil > 0

\* A cycle that begins inside the pause does nothing.
CycleHeld ==
  /\ pc = "asleep" /\ wake = 0
  /\ Paused
  /\ wake' = CheckInterval
  /\ UNCHANGED <<breakerVars, ledgerVars, row, pc, batch, offset, result, pausedUntil, user>>

\* Otherwise the pause is over and the due links are loaded, detached from
\* then on; a database that cannot be asked costs the cycle.
CycleBegins ==
  /\ pc = "asleep" /\ wake = 0
  /\ ~Paused
  /\ \/ /\ batch' \in DueBatches
        /\ pc' = "next"
        /\ UNCHANGED wake
     \/ /\ wake' = CheckInterval
        /\ UNCHANGED <<pc, batch>>
  /\ UNCHANGED <<breakerVars, ledgerVars, row, offset, result, pausedUntil, user>>

\* Mutant of CycleEnds: the offsets outlive the cycle.
CycleEndsKeepsOffsets ==
  /\ pc = "next" /\ batch = <<>>
  /\ pc' = "asleep" /\ wake' = CheckInterval
  /\ UNCHANGED <<breakerVars, ledgerVars, row, batch, offset, result, pausedUntil, user>>

CycleEnds ==
  /\ pc = "next" /\ batch = <<>>
  /\ pc' = "asleep" /\ wake' = CheckInterval
  /\ offset' = [k \in Store |-> 0]
  /\ UNCHANGED <<breakerVars, ledgerVars, row, batch, result, pausedUntil, user>>

\* Mutant of Stagger: every deferral of a cycle gets the same offset.
StaggerNot(k) == UNCHANGED offset

\* _next_deferral_offset.
Stagger(k) ==
  \E j \in 0..SchedJitter : offset' = [offset EXCEPT ![k] = @ + SchedDelay + j]

\* The breaker of the item's store is open: push the link behind the cooldown
\* without a request.  The UPDATE may fail; the link then stays due.
Defer ==
  /\ pc = "next" /\ batch # <<>>
  /\ Breaker!Open(ItemStore)
  /\ \/ Reschedule(Item, until[ItemStore] + offset[ItemStore])
     \/ UNCHANGED row
  /\ Stagger(ItemStore)
  /\ NextItem
  /\ UNCHANGED <<breakerVars, ledgerVars, wake, result, pausedUntil, user>>

\* Mutant of Pick: the background checks do not ask the shared breaker.
PickUnasked ==
  /\ pc = "next" /\ batch # <<>>
  /\ \E i \in Ledger!Intervals(Background) : Ledger!Acquire(Background, ItemStore, i)
  /\ pc' = "wait" /\ overtaken' = FALSE
  /\ UNCHANGED <<until, strikes, row, wake, batch, offset, result, pausedUntil, user>>

\* The store may be requested: reserve a slot and sleep until it.
Pick ==
  /\ pc = "next" /\ batch # <<>>
  /\ ~Breaker!Open(ItemStore)
  /\ Breaker!BlockedUntil(ItemStore)
  /\ \E i \in Ledger!Intervals(Background) : Ledger!Acquire(Background, ItemStore, i)
  /\ pc' = "wait" /\ overtaken' = FALSE
  /\ UNCHANGED <<row, wake, batch, offset, result, pausedUntil, user>>

StartFetch ==
  /\ pc = "wait"
  /\ Ledger!Fire(Background)
  /\ pc' = "fetch" /\ overtaken' = FALSE
  /\ UNCHANGED <<until, strikes, row, wake, batch, offset, result, pausedUntil, user>>

\* What a check's outcome tells the breaker, whoever made it: a wall trips it,
\* a store that answered clears it, anything else leaves it alone.
TellBreaker(k, o) ==
  CASE o = "blocked" -> Breaker!RecordBlock(k)
    [] o \in Reached -> Breaker!RecordSuccess(k)
    [] OTHER -> UNCHANGED <<until, strikes>>

\* The next check an outcome earns the item: behind the cooldown it has just
\* caused, the next morning for a failed weekday link, else the schedule.
NextCheck(o) ==
  CASE o = "blocked" -> until'[ItemStore] + offset[ItemStore]
    [] o \in {"no_price", "fetch_failed"} /\ Item \in Weekly -> NextMorning
    [] OTHER -> Period

FetchReturns ==
  /\ pc = "fetch"
  /\ \E o \in Outcomes :
       /\ TellBreaker(ItemStore, o)
       /\ result' = [outcome |-> o, next |-> NextCheck(o)]
       /\ IF o = "blocked" THEN Stagger(ItemStore) ELSE UNCHANGED offset
  /\ pc' = "save"
  /\ UNCHANGED <<overtaken, ledgerVars, row, wake, batch, pausedUntil, user>>

\* Mutant of FetchRaises: an exception only costs the item its turn.
FetchRaisesMovesOn ==
  /\ pc = "fetch"
  /\ NextItem
  /\ UNCHANGED <<breakerVars, ledgerVars, row, wake, offset, result, pausedUntil, user>>

\* Any exception out of the check: the breaker hears nothing.
FetchRaises ==
  /\ pc = "fetch"
  /\ pc' = "backoff"
  /\ UNCHANGED <<breakerVars, ledgerVars, row, wake, batch, offset, result, pausedUntil, user>>

\* Reschedule, stamp last_checked_at unless the store walled us, commit.  The
\* price point of a link that is gone cannot be committed.
Save ==
  /\ pc = "save"
  /\ result.outcome = "ok" => Live(Item)
  /\ row' = IF Live(Item)
            THEN [row EXCEPT ![Item].next = result.next,
                             ![Item].last = IF result.outcome = "blocked"
                                            THEN @ ELSE Stamp(result.outcome)]
            ELSE row
  /\ NextItem
  /\ result' = NoResult
  /\ UNCHANGED <<breakerVars, ledgerVars, wake, offset, pausedUntil, user>>

SaveFails ==
  /\ pc = "save"
  /\ pc' = "backoff"
  /\ result' = NoResult
  /\ UNCHANGED <<breakerVars, ledgerVars, row, wake, batch, offset, pausedUntil, user>>

\* Mutant of BackOff: the item that failed is tried again at once.
BackOffRetries ==
  /\ pc = "backoff"
  /\ Reschedule(Item, Backoff) \/ UNCHANGED row
  /\ pc' = "next"
  /\ UNCHANGED <<breakerVars, ledgerVars, wake, batch, offset, result, pausedUntil, user>>

\* The exception handler's own session; it may fail as well.
BackOff ==
  /\ pc = "backoff"
  /\ Reschedule(Item, Backoff) \/ UNCHANGED row
  /\ NextItem
  /\ UNCHANGED <<breakerVars, ledgerVars, wake, offset, result, pausedUntil, user>>

SchedulerStep ==
  \/ CycleHeld \/ CycleBegins \/ CycleEnds \/ Defer \/ Pick \/ StartFetch
  \/ FetchReturns \/ FetchRaises \/ Save \/ SaveFails \/ BackOff

-----------------------------------------------------------------------------
(* The interactive fetches of api/admin.py, in the same process. *)

\* Past the guard: the breaker was closed when it was asked, and the caller
\* now sleeps on the ledger.
Approach(u, k, l) ==
  /\ ~Breaker!Open(k)
  /\ Breaker!BlockedUntil(k)
  /\ \E i \in Ledger!Intervals(u) : Ledger!Acquire(u, k, i)
  /\ user' = [user EXCEPT ![u] = [pc |-> "wait", store |-> k, link |-> l]]

\* "Kolla nu", and the first check of a new link.  An open breaker refuses it.
CheckNow(u, l) ==
  /\ user[u].pc = "idle" /\ Live(l)
  /\ Approach(u, StoreOf[l], l)
  /\ UNCHANGED <<overtaken, row, cycleVars, pausedUntil>>

\* Quick-add preview: silences the scheduler first, then fetches for a page no
\* link exists for; a tracked URL or an open breaker ends it early.
Preview(u, k) ==
  /\ user[u].pc = "idle"
  /\ pausedUntil' = PauseLength
  /\ \/ Approach(u, k, NoLink)
     \/ UNCHANGED <<until, strikes, ledgerVars, user>>
  /\ UNCHANGED <<overtaken, row, cycleVars>>

UserFetch(u) ==
  /\ user[u].pc = "wait"
  /\ Ledger!Fire(u)
  /\ user' = [user EXCEPT ![u].pc = "fetch"]
  /\ UNCHANGED <<breakerVars, row, cycleVars, pausedUntil>>

\* A wall at the store the scheduler has picked and not yet requested.
Overtakes(u, o) == o = "blocked" /\ pc = "wait" /\ user[u].store = ItemStore

\* The outcome feeds the breaker; only a success is committed, and it stamps
\* the row it was loaded from without touching next_check_at.
UserReturns(u) ==
  /\ user[u].pc = "fetch"
  /\ \E o \in Outcomes :
       LET l == user[u].link
       IN  /\ TellBreaker(user[u].store, o)
           /\ overtaken' = (overtaken \/ Overtakes(u, o))
           /\ \/ /\ o = "ok" /\ l # NoLink
                 /\ Live(l)
                 /\ row' = [row EXCEPT ![l].last = Stamp(o)]
              \/ UNCHANGED row    \* no price, no link, or the commit failed
  /\ user' = [user EXCEPT ![u] = AtRest]
  /\ UNCHANGED <<ledgerVars, cycleVars, pausedUntil>>

\* Linking a page, by quick-add (which extends the pause) or by hand.  A Link
\* is a row id: a page linked again gets a new one.
AddLink(l) ==
  /\ row[l].is = "absent"
  /\ row' = [row EXCEPT ![l] = FreshRow]
  /\ pausedUntil' \in {pausedUntil, PauseLength}
  /\ UNCHANGED <<breakerVars, ledgerVars, cycleVars, user>>

Unlink(l) ==
  /\ Live(l)
  /\ row' = [row EXCEPT ![l] = Gone]
  /\ UNCHANGED <<breakerVars, ledgerVars, cycleVars, pausedUntil, user>>

\* update_check_frequency reschedules from the new schedule.
EditSchedule(l) ==
  /\ Live(l)
  /\ Reschedule(l, Period)
  /\ UNCHANGED <<breakerVars, ledgerVars, cycleVars, pausedUntil, user>>

UserStep ==
  \/ \E u \in Interactive : \/ \E l \in Link : CheckNow(u, l)
                            \/ \E k \in Store : Preview(u, k)
                            \/ UserFetch(u)
                            \/ UserReturns(u)
  \/ \E l \in Link : AddLink(l) \/ Unlink(l) \/ EditSchedule(l)

-----------------------------------------------------------------------------
\* A crash or a redeployment: the breaker, the ledger and the pause are
\* memory; only the rows survive.
Restart ==
  /\ until' = [k \in Store |-> Breaker!NoCooldown]
  /\ strikes' = [k \in Store |-> 0]
  /\ overtaken' = FALSE
  /\ nextFree' = [k \in Store |-> 0]
  /\ slot' = [c \in Ledger!Caller |-> Ledger!Idle]
  /\ pc' = "asleep" /\ wake' = 0 /\ batch' = <<>>
  /\ offset' = [k \in Store |-> 0] /\ result' = NoResult
  /\ pausedUntil' = 0
  /\ user' = [u \in Interactive |-> AtRest]
  /\ UNCHANGED row

\* A unit of time passes: what lies in the future comes closer.
Closer(t) == IF t > 0 THEN t - 1 ELSE t
Tick ==
  /\ until' = [k \in Store |-> Closer(until[k])]
  /\ nextFree' = [k \in Store |-> Closer(nextFree[k])]
  /\ slot' = [c \in Ledger!Caller |-> [slot[c] EXCEPT !.at = Closer(@)]]
  /\ row' = [l \in Link |-> [row[l] EXCEPT !.next = Closer(@)]]
  /\ wake' = Closer(wake)
  /\ result' = [result EXCEPT !.next = Closer(@)]
  /\ pausedUntil' = Closer(pausedUntil)
  /\ UNCHANGED <<strikes, overtaken, pc, batch, offset, user>>

Next == SchedulerStep \/ UserStep \/ Restart \/ Tick

Spec == Init /\ [][Next]_vars

\* Time goes by and the scheduler's task is never abandoned by the event loop:
\* a fetch is bounded by its timeouts, a database call returns or raises.
FairSpec == Spec /\ WF_vars(Tick) /\ WF_vars(SchedulerStep)

-----------------------------------------------------------------------------
Rows == [Link -> [is : {"absent", "live", "gone"}, next : Nat \cup {Never},
                  last : {"never", "answered", "unanswered"}]]

CycleTyped ==
  /\ pc \in {"asleep", "next", "wait", "fetch", "save", "backoff"}
  /\ wake \in Nat
  /\ batch \in Seq(Link)
  /\ pc \in {"wait", "fetch", "save", "backoff"} => batch # <<>>
  /\ offset \in [Store -> Nat]
  /\ result \in [outcome : Outcomes \cup {"none"}, next : Nat]

UsersTyped ==
  /\ user \in [Interactive -> [pc : {"idle", "wait", "fetch"},
                               store : Store \cup {NoStore},
                               link : Link \cup {NoLink}]]
  /\ \A u \in Interactive : user[u].pc # "idle" => user[u].store \in Store

TypeOK ==
  /\ Breaker!TypeOK /\ overtaken \in BOOLEAN
  /\ Ledger!TypeOK
  /\ row \in Rows
  /\ CycleTyped
  /\ pausedUntil \in Nat
  /\ UsersTyped

\* No link is ever parked further out than a schedule, a morning, a back-off
\* or the longest cooldown plus one stagger slot per batch item ahead of it:
\* the offsets restart in every cycle, so a store that stays walled does not
\* march its links outward.
ParkBound ==
  LET spread == MaxCooldown + (BatchSize - 1) * (SchedDelay + SchedJitter)
      Later(a, b) == Ledger!Later(a, b)
  IN  Later(Later(Period, NextMorning), Later(Backoff, spread))
NoLinkIsParkedForever ==
  \A l \in Link : row[l].next <= ParkBound

\* "A single probe": a wall, whoever met it, keeps the scheduler from the store
\* while the cooldown stands.  The one request that does start at a walled store
\* is of a link that was picked before the wall, which an operator's fetch then
\* met while the scheduler slept on the ledger: the breaker is not asked again
\* after the sleep.
OneProbePerWall ==
  [][(StartFetch /\ Breaker!Open(ItemStore)) => overtaken]_vars

\* The links of a cycle are worked off one after the other, in one task: no
\* wall, failure, dead database or busy operator keeps the cycle from ending,
\* and with it every other store from being checked and the mail from going
\* out.
CycleCompletes == pc # "asleep" ~> pc = "asleep"
=============================================================================
