-------------------------- MODULE SchedulerHistory --------------------------
(***************************************************************************)
(* The scheduler with a memory of what it did to each link: when it last   *)
(* fetched it, and where it last deferred it to.  The history only watches *)
(* the steps of Scheduler; it restricts none of them.                      *)
(***************************************************************************)
EXTENDS Scheduler

VARIABLES rest,       \* time since a link's last background fetch, counted up to
                      \* MinRest; MinRest too where the database has taken none of
                      \* the writes that follow the fetch
          parked,     \* the links whose next_check_at is a deferral's
          thisCycle   \* those of them deferred in the current cycle

allVars == <<vars, rest, parked, thisCycle>>

SmallerOf(a, b) == IF a < b THEN a ELSE b

\* The shortest rest any outcome of a check gives a link.
MinRest == SmallerOf(SmallerOf(Period, NextMorning), SmallerOf(Backoff, Breaker!Cooldown(1)))

HInit ==
  /\ Init
  /\ rest = [l \in Link |-> MinRest]
  /\ parked = {}
  /\ thisCycle = {}

\* The item's row was pushed behind a cooldown in this step.
Deferral ==
  /\ \/ Defer
     \/ Save /\ result.outcome = "blocked"
  /\ row' # row

\* The next_check_at of l was set by something other than the passing of time.
Rescheduled(l) == ~Tick /\ row'[l] # row[l]

\* Neither the reschedule nor the back-off of the item reached the database,
\* or the process died before either.
Unrecorded ==
  \/ BackOff /\ row' = row
  \/ Restart

Watch ==
  /\ rest' = [l \in Link |->
       IF Tick THEN SmallerOf(rest[l] + 1, MinRest)
       ELSE IF batch # <<>> /\ l = Item /\ StartFetch THEN 0
       ELSE IF batch # <<>> /\ l = Item /\ Unrecorded THEN MinRest
       ELSE rest[l]]
  /\ parked' = (parked \ {l \in Link : Rescheduled(l)})
                 \cup (IF Deferral THEN {Item} ELSE {})
  /\ thisCycle' = IF CycleBegins \/ Restart THEN {}
                  ELSE IF Deferral THEN thisCycle \cup {Item}
                  ELSE thisCycle

HNext == Next /\ Watch

HSpec == HInit /\ [][HNext]_allVars

-----------------------------------------------------------------------------
\* "Without a backoff the link ... stays FIRST in the due queue, and gets
\* hammered every cycle": two background fetches of one link lie at least the
\* shortest rest apart, whatever the first one came to, unless the database
\* took neither of the writes that follow it.
NoHammering == [][StartFetch => rest[Item] = MinRest]_allVars

Neighbours == {p \in Link \X Link : p[1] # p[2] /\ StoreOf[p[1]] = StoreOf[p[2]]}

\* Both are still to come due where their deferrals put them.
Waiting(p) == \A l \in {p[1], p[2]} : l \in parked /\ row[l].next > 0

Spread(p) ==
  \/ row[p[1]].next >= row[p[2]].next + SchedDelay
  \/ row[p[2]].next >= row[p[1]].next + SchedDelay

\* The links one cycle defers behind a cooldown come due at least a
\* RATE_LIMIT_DELAY apart.
CycleDeferralsSpread ==
  \A p \in Neighbours :
    (p[1] \in thisCycle /\ p[2] \in thisCycle /\ Waiting(p)) => Spread(p)
=============================================================================
