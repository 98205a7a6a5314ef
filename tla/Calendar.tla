------------------------------ MODULE Calendar ------------------------------
(***************************************************************************)
(* When a link is checked and when the buy-list mail is due: the functions *)
(* of domain/schedule.py, with the next_check_at they give the links of a  *)
(* store.                                                                  *)
(*                                                                         *)
(* Instants are naive UTC, Hour of them to the hour, and a draw may fall   *)
(* on any of them; instant 0 is a Monday at midnight.  Swedish wall-clock  *)
(* time is an hour ahead, two between SpringAt and AutumnAt, which are at  *)
(* 01:00 UTC: a year cut down to the weeks around its transitions.         *)
(***************************************************************************)
EXTENDS Integers, FiniteSets, FiniteSetsExt

CONSTANTS Hour,        \* instants in an hour: 3600, the code counts in seconds
          Link,        \* ids of one store's active links, in the order they sort
          Override,    \* the schedules each link may carry
          StoreDefault, \* the store's schedule
          SpringAt, AutumnAt,
          Lag,         \* how long a due check may wait for its turn
          Horizon      \* bound on time

Day == 24 * Hour
MORNING_START == 6 * Hour
Window == 6 * Hour      \* MORNING_END_HOUR - MORNING_START_HOUR
Weekday == 0..6         \* 0 is Monday
DEFAULT_FREQUENCY == 72

\* A schedule: weekdays, and an interval in hours.  An empty set is both NULL
\* and []; 0 is NULL.
Inherit == [days |-> {}, hours |-> 0]

ASSUME CalendarAssumption ==
  /\ Hour \in Nat \ {0}
  /\ Link \subseteq Nat /\ IsFiniteSet(Link)
  /\ \A l \in Link : Override[l] \subseteq [days : SUBSET Weekday, hours : Nat]
  /\ StoreDefault \in [days : SUBSET Weekday, hours : Nat]
  /\ SpringAt \in Nat /\ AutumnAt \in Nat /\ SpringAt + Day < AutumnAt
  /\ SpringAt % Day = Hour /\ AutumnAt % Day = Hour
  /\ Lag \in Nat /\ Horizon \in Nat

VARIABLES now,
          override,   \* the schedule columns of every link
          due,        \* next_check_at of every link
          drawn       \* history: the siblings a link's next check was drawn among;
                      \* none for an interval's, a retry's or a new link's

vars == <<now, override, due, drawn>>

-----------------------------------------------------------------------------
\* Civil time: _local, and _naive_utc of a wall-clock time (fold is 0).
Local(u) == u + (IF SpringAt <= u /\ u < AutumnAt THEN 2 ELSE 1) * Hour
NaiveUtc(wall) ==
  wall - (IF SpringAt + 2 * Hour <= wall /\ wall < AutumnAt + 2 * Hour THEN 2 ELSE 1) * Hour
Date(u) == Local(u) \div Day
WeekdayOf(date) == date % 7
TimeOfDay(u) == Local(u) % Day

\* effective_schedule: an override is wholesale.
FirstSet(a, b) == IF a # 0 THEN a ELSE b
Effective(own) ==
  IF own = Inherit
  THEN [days |-> StoreDefault.days, hours |-> FirstSet(StoreDefault.hours, DEFAULT_FREQUENCY)]
  ELSE [days |-> own.days,
        hours |-> FirstSet(own.hours, FirstSet(StoreDefault.hours, DEFAULT_FREQUENCY))]

\* Mutant of DaysUntil: today counts.
DaysUntilToday(days, date) == Min({(d - WeekdayOf(date)) % 7 : d \in days})

\* _nearest_weekday, as the days until it: never today.
DaysUntil(days, date) ==
  Min({IF d = WeekdayOf(date) THEN 7 ELSE (d - WeekdayOf(date)) % 7 : d \in days})

\* Mutant of Stratum: the jitter is half a stratum to either side.
StratumWide(i, n) == ((i * Window) \div n)..(((i + 1) * Window) \div n)

\* _at_morning with a slot: the middle half of the i-th of n strata, and then
\* int() of it.
Stratum(i, n) ==
  (((4 * i + 1) * Window) \div (4 * n))..(((4 * i + 3) * Window - 1) \div (4 * n))

\* Mutant of Morning: the window is on the clock that is stored.
MorningUtc(date, offsets) == {date * Day + MORNING_START + o : o \in offsets}

\* The instants of a date's förmiddag at the offsets given.
Morning(date, offsets) ==
  {NaiveUtc(date * Day + MORNING_START + o) : o \in offsets}
AnyTime == 0..(Window - 1)

\* weekday_slot: the links whose schedule includes the day the next check
\* lands on, and the place of a link among them.
Siblings(days, u) ==
  LET target == WeekdayOf(Date(u) + DaysUntil(days, Date(u)))
  IN  {l \in Link : target \in Effective(override[l]).days}
Place(l, siblings) == Cardinality({m \in siblings : m < l})

\* next_check_time_for_link in weekday mode: the instants it may return.
WeekdayChecks(l, u) ==
  LET days == Effective(override[l]).days
      siblings == Siblings(days, u)
  IN  Morning(Date(u) + DaysUntil(days, Date(u)),
              Stratum(Place(l, siblings), Cardinality(siblings)))

\* In interval mode: ten per cent of jitter, then the morning of the day.
IntervalChecks(l, u) ==
  LET hours == Effective(override[l]).hours
      jitter == (hours * Hour) \div 10
      targets == (u + hours * Hour - jitter)..(u + hours * Hour + jitter)
  IN  IF hours >= 24
      THEN UNION {Morning(date, AnyTime) : date \in {Date(t) : t \in targets}}
      ELSE targets

WeekdayMode(l) == Effective(override[l]).days # {}
NextChecks(l, u) ==
  IF WeekdayMode(l) THEN WeekdayChecks(l, u) ELSE IntervalChecks(l, u)

\* next_morning_retry.
RetryChecks(u) == Morning(Date(u) + 1, AnyTime)

\* Mutant of SummaryWeekdays: the mail goes out on Mondays.
SummaryWeekdaysMonday == {0}

\* summary_weekdays and summary_slot: the mail's days, and whether it is due.
SummaryWeekdays ==
  LET days == UNION {Effective(override[l]).days : l \in Link}
  IN  IF days = {} THEN {0} ELSE days

SummaryDue(u) ==
  /\ TimeOfDay(u) >= MORNING_START + Window
  /\ WeekdayOf(Date(u)) \in SummaryWeekdays

-----------------------------------------------------------------------------
\* The schedule columns the store's links may hold.
ScheduleColumns ==
  {f \in [Link -> UNION {Override[l] : l \in Link}] : \A l \in Link : f[l] \in Override[l]}

Init ==
  /\ now = 0 /\ due = [l \in Link |-> 0]
  /\ override \in ScheduleColumns
  /\ drawn = [l \in Link |-> {}]

\* The siblings the draw of a link's next check takes its place among.
DrawnAmong(l, u) ==
  IF WeekdayMode(l) THEN Siblings(Effective(override[l]).days, u) ELSE {}

\* next_check_time_for_link, of the schedule as the step leaves it.
Draw(l) ==
  /\ due' \in {[due EXCEPT ![l] = t] : t \in NextChecks(l, now)'}
  /\ drawn' = [drawn EXCEPT ![l] = DrawnAmong(l, now)']

\* A check that reached the store, or failed on an interval.
Reschedule(l) ==
  /\ due[l] <= now
  /\ UNCHANGED <<now, override>>
  /\ Draw(l)

\* A failed check of a link in weekday mode.
RetryTomorrow(l) ==
  /\ due[l] <= now
  /\ WeekdayMode(l)
  /\ due' \in {[due EXCEPT ![l] = t] : t \in RetryChecks(now)}
  /\ drawn' = [drawn EXCEPT ![l] = {}]
  /\ UNCHANGED <<now, override>>

\* update_check_frequency, at any time: an interval is 3 to 10 days.
Edit(l, o) ==
  /\ o # override[l] /\ o.hours \in {0} \cup 72..240
  /\ override' = [override EXCEPT ![l] = o] /\ UNCHANGED now
  /\ Draw(l)

Tick ==
  /\ now < Horizon /\ \A l \in Link : now < due[l] + Lag
  /\ now' = now + Hour
  /\ UNCHANGED <<override, due, drawn>>

Next ==
  \/ \E l \in Link : Reschedule(l) \/ RetryTomorrow(l) \/ \E o \in Override[l] : Edit(l, o)
  \/ Tick

Spec == Init /\ [][Next]_vars

-----------------------------------------------------------------------------
TypeOK ==
  /\ now \in 0..Horizon + Hour
  /\ override \in ScheduleColumns
  /\ due \in [Link -> Nat]
  /\ drawn \in [Link -> SUBSET Link]

InTheMorning(u) ==
  TimeOfDay(u) >= MORNING_START /\ TimeOfDay(u) < MORNING_START + Window

\* A weekday check: the first listed day after today.
OnTheNextListedDay(from, to, days) ==
  /\ Date(to) > Date(from) /\ WeekdayOf(Date(to)) \in days
  /\ \A d \in (Date(from) + 1)..(Date(to) - 1) : WeekdayOf(d) \notin days

\* An interval check: within its tenth, and what the morning and a transition
\* can move it.
OnTheInterval(from, to, hours) ==
  /\ 10 * (to - from) >= 9 * hours * Hour - 10 * (19 * Hour)
  /\ 10 * (to - from) <= 11 * hours * Hour + 10 * (13 * Hour)

\* Whatever the clock does between a check and the next one, and whoever edits
\* the schedule between them, the next check falls on a Swedish morning: in
\* weekday mode that of the first listed day after today, none skipped; a
\* retry on the next day's; an interval of a day or more near its length.
ChecksLandWhereTheyShould ==
  [][\A l \in Link :
       LET schedule == Effective(override[l])'
           next == due[l]'
       IN  /\ <<due[l], override[l]>>' # <<due[l], override[l]>> /\ ~RetryTomorrow(l) =>
                IF schedule.days # {}
                THEN InTheMorning(next) /\ OnTheNextListedDay(now, next, schedule.days)
                ELSE IF schedule.hours >= 24
                THEN InTheMorning(next) /\ OnTheInterval(now, next, schedule.hours)
                ELSE next > now
           /\ RetryTomorrow(l) => InTheMorning(next) /\ Date(next) = Date(now) + 1]_vars

\* The mail says what the shelves said this morning: on a day a weekday check of
\* a link falls on there is a mail, and it is not due before the check.
ChecksPrecedeTheMail ==
  [][\A l \in Link :
       WeekdayMode(l)' /\ due'[l] # due[l] /\ ~RetryTomorrow(l) =>
         /\ ~SummaryDue(due[l])'
         /\ \E u \in due'[l]..(due'[l] + Day) : Date(u) = Date(due'[l]) /\ SummaryDue(u)']_vars

\* Two instants half a stratum of n apart, to the second that int() cuts off.
HalfAStratumApart(a, b, n) ==
  2 * (a - b + 1) * n > Window \/ 2 * (b - a + 1) * n > Window

\* Links of a store that come due on the same morning do not drain through the
\* ledger as a burst: whenever each was drawn, from whichever of its weekdays and
\* on whichever side of a clock change, two that took their places among the same
\* siblings are half a stratum apart.  Links drawn before and after an edit that
\* made or unmade a sibling, and a retry, which is drawn freely, are not: they can
\* fall on the same minute.
SiblingsApart ==
  \A l, m \in Link :
    l # m /\ drawn[l] # {} /\ drawn[m] = drawn[l] /\ Date(due[m]) = Date(due[l]) =>
      HalfAStratumApart(due[l], due[m], Cardinality(drawn[l]))
=============================================================================
