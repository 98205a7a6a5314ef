-------------------------- MODULE ScheduleProofs ---------------------------
(***************************************************************************)
(* What TLAPS proves of a link's row, for any amounts and schedules and    *)
(* any number of checks at a time, and of the calendar its next check is   *)
(* taken from: for any links, schedules and instants to the hour, and for  *)
(* any two changes of the clocks at 01:00 UTC.                             *)
(***************************************************************************)
EXTENDS LinkRow, Calendar, FiniteSetTheorems, WellFoundedInduction, NaturalsInduction, TLAPS

\* A scheduled check reschedules from its copy: until the schedule is edited
\* beside it, the copy's schedule is the one in force.
CopyFollows ==
  Running(Scheduled) /\ ~edited => copy[Scheduled].schedule = row.schedule

RowInv == RowTypeOK /\ IntentStandsUnlessRaced /\ NextFollowsSchedule /\ CopyFollows

\* What a check sends of its copy: an amount only where the copy had none.
LEMMA WrittenColumns ==
  ASSUME RowTypeOK, NEW c \in Check, NEW r \in MaybeAmount
  PROVE  LET new == Written(copy[c], Applied(copy[c], r))
         IN  /\ new \in Columns
             /\ new.schedule = row.schedule /\ new.next = row.next
             /\ copy[c].quantity # None \/ r = None => new.quantity = row.quantity
<1> DEFINE new == Written(copy[c], Applied(copy[c], r))
<1>1. copy[c] \in [quantity : MaybeAmount, scraped : MaybeAmount,
                   schedule : Schedule \cup {None}, running : BOOLEAN]
  BY DEF RowTypeOK
<1>2. /\ Applied(copy[c], r).scraped = r
      /\ Applied(copy[c], r).quantity = IF copy[c].quantity = None THEN r ELSE copy[c].quantity
  BY <1>1 DEF Applied
<1>3. row \in [quantity : MaybeAmount, scraped : MaybeAmount,
               schedule : Schedule, next : Schedule \cup {Soon, None}]
  BY DEF RowTypeOK, Columns
<1>4. DOMAIN row = {"quantity", "scraped", "schedule", "next"}
  BY <1>3
<1>5. /\ new.schedule = row.schedule /\ new.next = row.next
      /\ new.quantity \in MaybeAmount /\ new.scraped \in MaybeAmount
      /\ copy[c].quantity # None \/ r = None => new.quantity = row.quantity
  BY <1>1, <1>2, <1>3, <1>4 DEF Written
<1>6. new = [quantity |-> new.quantity, scraped |-> new.scraped,
             schedule |-> new.schedule, next |-> new.next]
  BY <1>4 DEF Written
<1>7. new \in Columns
  BY <1>3, <1>5, <1>6 DEF Columns
<1> QED
  BY <1>5, <1>7

LEMMA RowStarts == ASSUME RowInit PROVE RowInv
<1>1. row \in Columns /\ row.next = None /\ typed = row.quantity
  BY DEF RowInit
<1>2. typed \in MaybeAmount
  BY <1>1 DEF Columns
<1>3. copy \in [Check -> [quantity : MaybeAmount, scraped : MaybeAmount,
                          schedule : Schedule \cup {None}, running : BOOLEAN]]
  BY DEF RowInit, NotLoaded, MaybeAmount
<1>4. {raced, edited, stale} \subseteq BOOLEAN
  BY Zenon DEF RowInit
<1>5. ~Running(Scheduled)
  BY DEF RowInit, Running, NotLoaded, Check
<1> QED
  BY <1>1, <1>2, <1>3, <1>4, <1>5
  DEF RowInv, RowTypeOK, IntentStandsUnlessRaced, NextFollowsSchedule, CopyFollows

LEMMA RowStep ==
  ASSUME RowInv, [RowNext]_rowVars
  PROVE  RowInv'
<1> USE DEF RowInv
<1>1. ASSUME NEW c \in Check, Load(c) PROVE RowInv'
  BY <1>1 DEF Load, RowTypeOK, IntentStandsUnlessRaced, NextFollowsSchedule, CopyFollows,
     Columns, Running, Check
<1>2. ASSUME NEW c \in Check, Fails(c) PROVE RowInv'
  BY <1>2 DEF Fails, RowTypeOK, IntentStandsUnlessRaced, NextFollowsSchedule, CopyFollows,
     NotLoaded, MaybeAmount, Running, Check
<1>3. ASSUME NEW next \in {copy[Scheduled].schedule, Soon}, Reschedules(next) PROVE RowInv'
  <2>1. next = Soon \/ next = copy[Scheduled].schedule
    OBVIOUS
  <2> QED
    BY <1>3, <2>1 DEF Reschedules, RowTypeOK, IntentStandsUnlessRaced, NextFollowsSchedule,
       CopyFollows, Columns, NotLoaded, MaybeAmount, Running, Check
<1>4. ASSUME NEW c \in Interactive, NEW r \in MaybeAmount, InteractiveReturns(c, r)
      PROVE  RowInv'
  BY <1>4, WrittenColumns, LinkRowAssumption
  DEF InteractiveReturns, RowTypeOK, IntentStandsUnlessRaced, NextFollowsSchedule,
      CopyFollows, NotLoaded, MaybeAmount, Running, Check
<1>5. ASSUME NEW q \in Amount, TypeAmount(q) PROVE RowInv'
  <2>1. /\ row' \in Columns /\ typed' \in MaybeAmount
        /\ row'.quantity = typed' /\ row'.schedule = row.schedule /\ row'.next = row.next
        /\ UNCHANGED <<copy, edited, stale>>
    BY <1>5 DEF TypeAmount, RowTypeOK, Columns, MaybeAmount
  <2>2. raced' \in BOOLEAN
    BY <1>5, Zenon DEF TypeAmount
  <2> QED
    BY <2>1, <2>2 DEF RowTypeOK, IntentStandsUnlessRaced, NextFollowsSchedule, CopyFollows, Running
<1>6. ASSUME NEW s \in Schedule, EditSchedule(s) PROVE RowInv'
  <2>1. /\ row' \in Columns
        /\ row'.quantity = row.quantity /\ row'.schedule = s /\ row'.next = s
        /\ UNCHANGED <<copy, typed, raced>>
    BY <1>6 DEF EditSchedule, RowTypeOK, Columns
  <2>2. edited' = copy[Scheduled].running /\ edited' \in BOOLEAN
    BY <1>6 DEF EditSchedule, RowTypeOK, Running, Check
  <2>3. stale' \in BOOLEAN
    BY <1>6, Zenon DEF EditSchedule
  <2>4. RowTypeOK'
    BY <2>1, <2>2, <2>3 DEF RowTypeOK
  <2>5. CopyFollows'
    BY <2>1, <2>2 DEF CopyFollows, Running
  <2> QED
    BY <2>1, <2>4, <2>5 DEF IntentStandsUnlessRaced, NextFollowsSchedule
<1>7. CASE UNCHANGED rowVars
  BY <1>7 DEF rowVars, RowTypeOK, IntentStandsUnlessRaced, NextFollowsSchedule, CopyFollows, Running
<1> QED
  BY <1>1, <1>2, <1>3, <1>4, <1>5, <1>6, <1>7 DEF RowNext, ScheduledReturns, ScheduledFinds

LEMMA RowInvariant == RowSpec => []RowInv
  BY RowStarts, RowStep, PTL DEF RowSpec

\* The row, the loaded copies and the histories keep their types.
THEOREM RowTypeCorrect == RowSpec => []RowTypeOK
  BY RowInvariant, PTL DEF RowInv

\* No check rewrites an amount the operator has typed, but one that set out
\* before the first was.
THEOREM IntentStands == RowSpec => []IntentStandsUnlessRaced
  BY RowInvariant, PTL DEF RowInv

\* The next check follows the schedule in force, but for one check that set out
\* before it was edited.
THEOREM ChecksFollowTheSchedule == RowSpec => []NextFollowsSchedule
  BY RowInvariant, PTL DEF RowInv

-----------------------------------------------------------------------------
\* Numbers have a smallest one among them.
LEMMA SmallestOf ==
  ASSUME NEW S, S \subseteq Nat, S # {}
  PROVE  \E m \in S : \A n \in S : m <= n
<1>1. PICK m \in S : \A n \in S : ~(<<n, m>> \in OpToRel(<, Nat))
  BY NatLessThanWellFounded, WFMin
<1>2. \A n \in S : ~(n < m)
  BY <1>1 DEF OpToRel
<1> QED
  BY <1>2

\* Multiples of a whole number lie that number apart.
LEMMA MultiplesApart ==
  ASSUME NEW a \in Int, NEW b \in Int, NEW d \in Nat, a < b
  PROVE  a * d + d <= b * d
<1>1. b - a - 1 \in Nat /\ b = a + 1 + (b - a - 1)
  OBVIOUS
<1>2. (b - a - 1) * d \in Nat
  BY <1>1
<1>3. b * d = a * d + d + (b - a - 1) * d
  BY <1>1
<1>4. a * d \in Int /\ b * d \in Int
  OBVIOUS
<1> QED
  BY <1>2, <1>3, <1>4

\* \div and % of a positive number.
LEMMA DivModIs ==
  ASSUME NEW q \in Int, NEW d \in Nat \ {0}, NEW r \in 0..(d - 1)
  PROVE  /\ (q * d + r) \div d = q
         /\ (q * d + r) % d = r
OBVIOUS

LEMMA DivMod ==
  ASSUME NEW a \in Int, NEW d \in Nat \ {0}
  PROVE  /\ a \div d \in Int /\ a % d \in 0..(d - 1)
         /\ a = (a \div d) * d + (a % d)
<1> DEFINE q == a \div d
           r == a - q * d
<1>1. q \in Int /\ q * d \in Int
  OBVIOUS
<1>2. q * d <= a /\ a < q * d + d
  OBVIOUS
<1> HIDE DEF q
<1>3. r \in 0..(d - 1) /\ a = q * d + r
  BY <1>1, <1>2
<1> HIDE DEF r
<1>4. a % d = r
  BY <1>1, <1>3, DivModIs
<1> QED
  BY <1>1, <1>3, <1>4 DEF q

-----------------------------------------------------------------------------
\* How far Swedish time is ahead on a date's morning.
Ahead(date) == IF SpringAt \div Day <= date /\ date < AutumnAt \div Day THEN 2 ELSE 1

LEMMA Lengths ==
  /\ Hour \in Nat /\ Hour > 0
  /\ Day \in Nat \ {0} /\ Day = 24 * Hour
  /\ Window = 6 * Hour /\ MORNING_START = 6 * Hour
  /\ SpringAt \in Nat /\ AutumnAt \in Nat
BY CalendarAssumption DEF Day, Window, MORNING_START

\* The clock of a date's morning, its noon included, is that of the whole
\* morning, and what is stored for it is read back as it.
LEMMA MorningIsRead ==
  ASSUME NEW date \in Int, NEW o \in 0..Window
  PROVE  LET wall == date * Day + MORNING_START + o
             u == NaiveUtc(wall)
         IN  /\ u \in Int
             /\ u = wall - Ahead(date) * Hour
             /\ Local(u) = wall
             /\ Date(u) = date
             /\ TimeOfDay(u) = MORNING_START + o
<1> DEFINE wall == date * Day + MORNING_START + o
           s == SpringAt \div Day
           a == AutumnAt \div Day
           k == Ahead(date)
<1>1. /\ Hour \in Nat /\ Hour > 0
      /\ Day \in Nat \ {0} /\ Day = 24 * Hour
      /\ Window = 6 * Hour /\ MORNING_START = 6 * Hour
  BY Lengths
<1>2. /\ s \in Int /\ SpringAt = s * Day + Hour
      /\ a \in Int /\ AutumnAt = a * Day + Hour
  <2>1. SpringAt % Day = Hour /\ AutumnAt % Day = Hour /\ SpringAt \in Int /\ AutumnAt \in Int
    BY CalendarAssumption
  <2>2. s \in Int /\ SpringAt = s * Day + (SpringAt % Day)
    BY <1>1, <2>1, DivMod
  <2>3. a \in Int /\ AutumnAt = a * Day + (AutumnAt % Day)
    BY <1>1, <2>1, DivMod
  <2> HIDE DEF s, a
  <2> QED
    BY <2>1, <2>2, <2>3
<1>3. s * Day \in Int /\ a * Day \in Int /\ date * Day \in Int /\ wall \in Int
  BY <1>1, <1>2
<1>4. date < s => date * Day + Day <= s * Day
  BY <1>1, <1>2, MultiplesApart
<1>5. s <= date => s * Day <= date * Day
  BY <1>1, <1>2, <1>3, MultiplesApart
<1>6. date < a => date * Day + Day <= a * Day
  BY <1>1, <1>2, MultiplesApart
<1>7. a <= date => a * Day <= date * Day
  BY <1>1, <1>2, <1>3, MultiplesApart
<1>8. k = IF s <= date /\ date < a THEN 2 ELSE 1
  BY DEF Ahead
<1> HIDE DEF s, a, k
<1>9. /\ NaiveUtc(wall) = wall - k * Hour
      /\ Local(wall - k * Hour) = wall
  <2> DEFINE D == date * Day  S == s * Day  A == a * Day
  <2>1. D \in Int /\ S \in Int /\ A \in Int
    BY <1>3
  <2>2. SpringAt = S + Hour /\ AutumnAt = A + Hour
    BY <1>2
  <2>3. wall = D + 6 * Hour + o /\ o \in Int /\ 0 <= o /\ o <= 6 * Hour
    BY <1>1
  <2>4. /\ date < s => D + 24 * Hour <= S
        /\ s <= date => S <= D
        /\ date < a => D + 24 * Hour <= A
        /\ a <= date => A <= D
    BY <1>1, <1>4, <1>5, <1>6, <1>7
  <2> HIDE DEF D, S, A
  <2>5. CASE s <= date /\ date < a
    <3>1. k = 2
      BY <1>8, <2>5
    <3> QED
      BY <1>1, <2>1, <2>2, <2>3, <2>4, <2>5, <3>1 DEF NaiveUtc, Local
  <2>6. CASE date < s
    <3>1. k = 1
      BY <1>2, <1>8, <2>6
    <3> QED
      BY <1>1, <2>1, <2>2, <2>3, <2>4, <2>6, <3>1 DEF NaiveUtc, Local
  <2>7. CASE a <= date
    <3>1. k = 1
      BY <1>2, <1>8, <2>7
    <3> QED
      BY <1>1, <2>1, <2>2, <2>3, <2>4, <2>7, <3>1 DEF NaiveUtc, Local
  <2> QED
    BY <1>2, <2>5, <2>6, <2>7
<1>10. MORNING_START + o \in 0..(Day - 1)
  BY <1>1
<1>11. wall = date * Day + (MORNING_START + o)
  BY <1>1, <1>3
<1>12. wall \div Day = date /\ wall % Day = MORNING_START + o
  BY <1>1, <1>10, <1>11, DivModIs
<1>13. k \in Int /\ k * Hour \in Int /\ wall - k * Hour \in Int
  BY <1>1, <1>3, <1>8
<1> HIDE DEF wall
<1>14. k = Ahead(date)
  BY DEF k
<1> QED
  BY <1>9, <1>12, <1>13, <1>14 DEF Date, TimeOfDay, wall

-----------------------------------------------------------------------------
AnySchedule == [days : SUBSET Weekday, hours : Nat]

LEMMA Schedules ==
  ASSUME NEW o \in AnySchedule
  PROVE  Effective(o).days \in SUBSET Weekday /\ Effective(o).hours \in Nat \ {0}
<1>1. /\ o.days \in SUBSET Weekday /\ o.hours \in Nat
      /\ StoreDefault.days \in SUBSET Weekday /\ StoreDefault.hours \in Nat
  BY CalendarAssumption DEF AnySchedule
<1> QED
  BY <1>1 DEF Effective, FirstSet, DEFAULT_FREQUENCY

\* The next listed day is within the week, and none is skipped.
LEMMA NextListedDay ==
  ASSUME NEW days \in SUBSET Weekday, days # {}, NEW date \in Int
  PROVE  LET n == DaysUntil(days, date)
         IN  /\ n \in 1..7
             /\ WeekdayOf(date + n) \in days
             /\ \A k \in 1..(n - 1) : WeekdayOf(date + k) \notin days
<1> DEFINE f(d) == IF d = WeekdayOf(date) THEN 7 ELSE (d - WeekdayOf(date)) % 7
           S == {f(d) : d \in days}
           n == DaysUntil(days, date)
<1>1. WeekdayOf(date) \in 0..6 /\ \A d \in days : d \in 0..6
  BY DEF WeekdayOf, Weekday
<1>2. \A d \in days : f(d) \in 1..7 /\ WeekdayOf(date + f(d)) = d
  BY <1>1 DEF WeekdayOf
<1>3. \A k \in 1..7 : WeekdayOf(date + k) \in days => k \in S
  <2> TAKE k \in 1..7
  <2> DEFINE d == WeekdayOf(date + k)
  <2> HAVE d \in days
  <2>1. f(d) = k
    BY DEF WeekdayOf
  <2> QED
    BY <2>1
<1>4. S # {} /\ S \subseteq Nat
  BY <1>2
<1>5. PICK m \in S : \A i \in S : m <= i
  <2> HIDE DEF S
  <2> QED
    BY <1>4, SmallestOf
<1>6. n = Min(S)
  BY DEF DaysUntil
<1>7. n \in S /\ \A i \in S : n <= i
  <2> HIDE DEF S, n
  <2> QED
    BY <1>5, <1>6 DEF Min
<1>8. n \in 1..7 /\ WeekdayOf(date + n) \in days
  <2> HIDE DEF n
  <2>1. PICK d \in days : n = f(d)
    BY <1>7
  <2> QED
    BY <1>2, <2>1
<1>9. \A k \in 1..(n - 1) : WeekdayOf(date + k) \notin days
  <2> HIDE DEF S, n
  <2> QED
    BY <1>3, <1>7, <1>8, <1>4
<1> HIDE DEF n
<1> QED
  BY <1>8, <1>9 DEF n

-----------------------------------------------------------------------------
\* Draws in a stratum stay within the window.
LEMMA StratumWithin ==
  ASSUME NEW n \in Nat \ {0}, NEW i \in 0..(n - 1)
  PROVE  Stratum(i, n) \subseteq 0..(Window - 1)
<1> DEFINE D == 4 * n
           x == (4 * i + 3) * Window - 1
           y == (4 * i + 1) * Window
<1>1. Window \in Nat /\ Window >= 6
  BY Lengths
<1>2. D \in Nat \ {0} /\ x \in Int /\ y \in Nat
  BY <1>1
<1>3. x < Window * D
  <2>1. Window * D - (4 * i + 3) * Window = (4 * (n - 1 - i) + 1) * Window
    BY <1>1
  <2>2. (4 * (n - 1 - i) + 1) * Window >= Window
    BY <1>1
  <2>3. Window * D \in Int /\ (4 * i + 3) * Window \in Int
    BY <1>1, <1>2
  <2> QED
    BY <1>1, <2>1, <2>2, <2>3
<1> HIDE DEF D, x, y
<1>4. x \div D \in Int /\ (x \div D) * D <= x
  BY <1>2
<1>5. y \div D \in Int /\ y < (y \div D) * D + D
  BY <1>2
<1>6. x \div D < Window
  <2>1. SUFFICES ASSUME Window <= x \div D PROVE FALSE
    BY <1>1, <1>4
  <2> DEFINE q == x \div D
  <2> HIDE DEF q
  <2>2. Window * D <= q * D
    BY <1>1, <1>2, <1>4, <2>1 DEF q
  <2>3. q * D \in Int /\ Window * D \in Int
    BY <1>1, <1>2, <1>4 DEF q
  <2>4. q * D <= x
    BY <1>4 DEF q
  <2> QED
    BY <1>2, <1>3, <2>2, <2>3, <2>4
<1>7. y \div D >= 0
  BY <1>2
<1>8. Stratum(i, n) = (y \div D)..(x \div D)
  BY DEF Stratum, D, x, y
<1> QED
  BY <1>1, <1>4, <1>5, <1>6, <1>7, <1>8

\* Draws in two strata lie half a stratum apart, but for int().
LEMMA StrataApart ==
  ASSUME NEW n \in Nat \ {0}, NEW i \in Nat, NEW j \in Nat, i < j,
         NEW a \in Stratum(i, n), NEW b \in Stratum(j, n)
  PROVE  2 * (b - a + 1) * n > Window
<1> DEFINE D == 4 * n
           x == (4 * i + 3) * Window - 1
           y == (4 * j + 1) * Window
           q == x \div D
           p == y \div D
<1>1. Window \in Nat
  BY Lengths
<1>2. D \in Nat \ {0} /\ x \in Int /\ y \in Int
  BY <1>1
<1>3. y - x >= 2 * Window + 1
  <2>1. (4 * j + 1) * Window - (4 * i + 3) * Window = 2 * Window + (4 * (j - i - 1)) * Window
    BY <1>1
  <2>2. (4 * (j - i - 1)) * Window \in Nat
    <3>1. 4 * (j - i - 1) \in Nat
      OBVIOUS
    <3> QED
      BY <1>1, <3>1
  <2>3. (4 * j + 1) * Window \in Int /\ (4 * i + 3) * Window \in Int
    BY <1>1
  <2> QED
    BY <1>1, <2>1, <2>2, <2>3
<1>4. a \in Int /\ b \in Int /\ a <= q /\ p <= b
  <2> HIDE DEF D
  <2>1. /\ Stratum(i, n) = (((4 * i + 1) * Window) \div D)..q
        /\ Stratum(j, n) = p..(((4 * j + 3) * Window - 1) \div D)
    BY DEF Stratum, D
  <2> HIDE DEF p, q
  <2> QED
    BY <2>1
<1> HIDE DEF D, x, y
<1>5. q \in Int /\ q * D <= x
  BY <1>2
<1>6. p \in Int /\ y < p * D + D
  BY <1>2
<1> HIDE DEF p, q
<1>7. (b - a + 1) * D = (b - p) * D + (p - q) * D + (q - a) * D + D
  BY <1>2, <1>4, <1>5, <1>6
<1>8. (b - p) * D \in Nat /\ (q - a) * D \in Nat
  BY <1>2, <1>4, <1>5, <1>6
<1>9. (p - q) * D = p * D - q * D /\ p * D \in Int /\ q * D \in Int
  BY <1>2, <1>5, <1>6
<1>10. (b - a + 1) * D > 2 * Window
  BY <1>1, <1>2, <1>3, <1>5, <1>6, <1>7, <1>8, <1>9
<1>11. (b - a + 1) * D = 2 * (2 * (b - a + 1) * n)
  BY <1>4 DEF D
<1>12. 2 * (b - a + 1) * n \in Int
  BY <1>4
<1> QED
  BY <1>1, <1>10, <1>11, <1>12

-----------------------------------------------------------------------------
\* A link's place is one of its siblings', and a later id's is a later one.
LEMMA Places ==
  ASSUME NEW S \in SUBSET Link, NEW l \in S
  PROVE  /\ Cardinality(S) \in Nat \ {0}
         /\ Place(l, S) \in 0..(Cardinality(S) - 1)
         /\ \A m \in S : l < m => Place(l, S) < Place(m, S)
<1> DEFINE Before(m) == {k \in S : k < m}
<1>1. IsFiniteSet(S) /\ S \subseteq Nat
  BY FS_Subset, CalendarAssumption
<1>2. /\ Cardinality(S) \in Nat /\ IsFiniteSet(Before(l)) /\ Cardinality(Before(l)) \in Nat
      /\ Cardinality(Before(l)) < Cardinality(S)
  <2>1. Before(l) \subseteq S /\ Before(l) # S
    BY <1>1
  <2> HIDE DEF Before
  <2> QED
    BY <1>1, <2>1, FS_CardinalityType, FS_Subset
<1>3. ASSUME NEW m \in S, l < m
      PROVE  Cardinality(Before(l)) < Cardinality(Before(m))
  <2>1. Before(l) \subseteq Before(m) /\ Before(m) \subseteq S
    <3>1. l \in Nat /\ m \in Nat /\ \A k \in S : k \in Nat /\ (k < l => k < m)
      BY <1>1, <1>3
    <3> QED
      BY <3>1
  <2>3. l \in Before(m) /\ l \notin Before(l)
    BY <1>1, <1>3
  <2> HIDE DEF Before
  <2>2. IsFiniteSet(Before(m))
    BY <1>1, <2>1, FS_Subset
  <2> QED
    BY <2>1, <2>2, <2>3, FS_CardinalityType, FS_Subset
<1> QED
  BY <1>2, <1>3 DEF Place

\* The instant at an offset into the förmiddag of a date.
At(date, o) == NaiveUtc(date * Day + MORNING_START + o)

LEMMA MorningIs ==
  ASSUME NEW date \in Int, NEW O \in SUBSET (0..(Window - 1)), NEW t \in Morning(date, O)
  PROVE  \E o \in O : t = At(date, o)
BY DEF Morning, At

\* Morning instants of a date: where they lie, and how far apart.
LEMMA AtIs ==
  ASSUME NEW date \in Int, NEW o \in 0..(Window - 1)
  PROVE  /\ At(date, o) \in Int
         /\ At(date, o) = (date * Day + MORNING_START + o) - Ahead(date) * Hour
         /\ Date(At(date, o)) = date
         /\ InTheMorning(At(date, o))
<1>1. o \in 0..Window /\ o \in Int /\ 0 <= o /\ o < Window
  BY Lengths
<1>2. /\ At(date, o) \in Int
      /\ At(date, o) = (date * Day + MORNING_START + o) - Ahead(date) * Hour
      /\ Date(At(date, o)) = date
      /\ TimeOfDay(At(date, o)) = MORNING_START + o
  BY <1>1, MorningIsRead DEF At
<1> QED
  BY <1>1, <1>2, Lengths DEF InTheMorning

LEMMA DateType ==
  ASSUME NEW u \in Int
  PROVE  /\ Date(u) \in Int /\ Local(u) \in Int
         /\ Local(u) = u + Hour \/ Local(u) = u + 2 * Hour
         /\ Date(u) * Day <= Local(u) /\ Local(u) < Date(u) * Day + Day
<1>1. /\ Local(u) \in Int
      /\ Local(u) = u + Hour \/ Local(u) = u + 2 * Hour
  BY Lengths DEF Local
<1>2. Day \in Nat \ {0}
  BY Lengths
<1>3. Date(u) \in Int
  BY <1>1, <1>2, DivMod DEF Date
<1>4. Local(u) % Day \in 0..(Day - 1) /\ Local(u) = Date(u) * Day + (Local(u) % Day)
  BY <1>1, <1>2, DivMod DEF Date
<1>5. Date(u) * Day \in Int
  BY <1>2, <1>3
<1> HIDE DEF Date, Local
<1> QED
  BY <1>1, <1>2, <1>3, <1>4, <1>5

\* A date has come once its midnight has.
LEMMA DateReached ==
  ASSUME NEW u \in Int, NEW d \in Int, d * Day <= Local(u)
  PROVE  d <= Date(u)
<1>1. SUFFICES ASSUME Date(u) < d PROVE FALSE
  BY DateType
<1>2. Date(u) * Day + Day <= d * Day
  BY <1>1, DateType, Lengths, MultiplesApart
<1>3. Date(u) * Day \in Int /\ d * Day \in Int /\ Day \in Int
  BY DateType, Lengths
<1> HIDE DEF Date, Local
<1> QED
  BY <1>2, <1>3, DateType

\* Every step may change the schedule columns, so the lemmas are stated of any.
ColumnsTyped == override \in [Link -> AnySchedule]

LEMMA ColumnsAre ==
  ASSUME NEW f \in ScheduleColumns
  PROVE  f \in [Link -> AnySchedule]
BY CalendarAssumption DEF ScheduleColumns, AnySchedule

\* Where the checks of a link may fall.
LEMMA WeekdayChecksAre ==
  ASSUME ColumnsTyped, NEW l \in Link, WeekdayMode(l), NEW u \in Int
  PROVE  LET days == Effective(override[l]).days
             date == Date(u) + DaysUntil(days, Date(u))
             siblings == Siblings(days, u)
             n == Cardinality(siblings)
         IN  /\ siblings \in SUBSET Link /\ l \in siblings
             /\ Place(l, siblings) \in 0..(n - 1) /\ n \in Nat \ {0}
             /\ date \in Int
             /\ \A t \in WeekdayChecks(l, u) :
                  \E o \in Stratum(Place(l, siblings), n) :
                     o \in 0..(Window - 1) /\ t = At(date, o)
<1> DEFINE days == Effective(override[l]).days
           date == Date(u) + DaysUntil(days, Date(u))
           siblings == Siblings(days, u)
           n == Cardinality(siblings)
<1>1. days \in SUBSET Weekday /\ days # {}
  BY Schedules DEF WeekdayMode, ColumnsTyped
<1>2. Date(u) \in Int
  BY DateType
<1>3. /\ DaysUntil(days, Date(u)) \in 1..7
      /\ WeekdayOf(date) \in days
  <2> HIDE DEF days
  <2> QED
    BY <1>1, <1>2, NextListedDay
<1>4. siblings \in SUBSET Link /\ l \in siblings
  BY <1>3 DEF Siblings
<1>5. n \in Nat \ {0} /\ Place(l, siblings) \in 0..(n - 1)
  <2> HIDE DEF siblings
  <2> QED
    BY <1>4, Places
<1>6. date \in Int
  BY <1>2, <1>3
<1>7. WeekdayChecks(l, u) = Morning(date, Stratum(Place(l, siblings), n))
  BY DEF WeekdayChecks
<1>8. Stratum(Place(l, siblings), n) \subseteq 0..(Window - 1)
  <2> HIDE DEF n, siblings
  <2> QED
    BY <1>5, StratumWithin
<1>9. \A t \in WeekdayChecks(l, u) :
        \E o \in Stratum(Place(l, siblings), n) :
           o \in 0..(Window - 1) /\ t = At(date, o)
  <2> HIDE DEF n, siblings, date
  <2> QED
    BY <1>6, <1>7, <1>8, MorningIs
<1> QED
  BY <1>4, <1>5, <1>6, <1>9

\* An instant in the place a link has among S, on the morning of some date.
IsSlot(l, S, t) ==
  /\ S \in SUBSET Link /\ l \in S
  /\ \E date \in Int, o \in 0..(Window - 1) :
       o \in Stratum(Place(l, S), Cardinality(S)) /\ t = At(date, o)

LEMMA WeekdayDrawsSlots ==
  ASSUME ColumnsTyped, NEW l \in Link, WeekdayMode(l), NEW u \in Int,
         NEW t \in WeekdayChecks(l, u)
  PROVE  IsSlot(l, DrawnAmong(l, u), t)
<1> DEFINE days == Effective(override[l]).days
           date == Date(u) + DaysUntil(days, Date(u))
           S == Siblings(days, u)
<1>1. DrawnAmong(l, u) = S
  BY DEF DrawnAmong
<1>2. /\ S \in SUBSET Link /\ l \in S
      /\ date \in Int
      /\ \E o \in Stratum(Place(l, S), Cardinality(S)) :
            o \in 0..(Window - 1) /\ t = At(date, o)
  BY WeekdayChecksAre
<1> HIDE DEF S, date
<1> QED
  BY <1>1, <1>2 DEF IsSlot

\* The places of two links among the same siblings, on one morning.
LEMMA SlotsApart ==
  ASSUME NEW S, NEW l \in Link, NEW m \in Link, l < m,
         NEW a, IsSlot(l, S, a), NEW b, IsSlot(m, S, b), Date(a) = Date(b)
  PROVE  2 * (b - a + 1) * Cardinality(S) > Window
<1> DEFINE n == Cardinality(S)
<1>1. /\ S \in SUBSET Link /\ l \in S /\ m \in S
      /\ n \in Nat \ {0}
      /\ Place(l, S) \in 0..(n - 1) /\ Place(m, S) \in 0..(n - 1)
      /\ Place(l, S) < Place(m, S)
  BY Places DEF IsSlot
<1>2. PICK date \in Int, o \in 0..(Window - 1) :
        o \in Stratum(Place(l, S), n) /\ a = At(date, o)
  BY DEF IsSlot
<1>3. PICK d \in Int, p \in 0..(Window - 1) :
        p \in Stratum(Place(m, S), n) /\ b = At(d, p)
  BY DEF IsSlot
<1>4. d = date
  BY <1>2, <1>3, AtIs
<1> HIDE DEF n
<1>5. 2 * (p - o + 1) * n > Window
  BY <1>1, <1>2, <1>3, StrataApart
<1>6. b - a = p - o
  <2>1. /\ a = (date * Day + MORNING_START + o) - Ahead(date) * Hour
        /\ b = (date * Day + MORNING_START + p) - Ahead(date) * Hour
    BY <1>2, <1>3, <1>4, AtIs
  <2>2. date * Day \in Int /\ MORNING_START \in Int /\ Ahead(date) * Hour \in Int
    BY <1>4, Lengths DEF Ahead
  <2>3. o \in Int /\ p \in Int
    BY <1>2, <1>3
  <2> QED
    BY <2>1, <2>2, <2>3
<1> QED
  BY <1>5, <1>6 DEF n

-----------------------------------------------------------------------------
\* Where the three kinds of checks of a link may fall.
Lands(l, u, t) ==
  LET schedule == Effective(override[l])
  IN  /\ t \in Nat
      /\ IF schedule.days # {}
         THEN InTheMorning(t) /\ OnTheNextListedDay(u, t, schedule.days)
         ELSE IF schedule.hours >= 24
         THEN InTheMorning(t) /\ OnTheInterval(u, t, schedule.hours)
         ELSE t > u

\* No morning but the first day's is before the calendar begins.
LEMMA MorningsAreLater ==
  ASSUME NEW date \in Nat \ {0}, NEW o \in 0..(Window - 1)
  PROVE  At(date, o) \in Nat
<1>1. /\ At(date, o) \in Int
      /\ At(date, o) = (date * Day + MORNING_START + o) - Ahead(date) * Hour
  BY AtIs
<1>2. date * Day >= Day /\ date * Day \in Int
  BY Lengths
<1>3. Ahead(date) * Hour <= 2 * Hour /\ Ahead(date) * Hour \in Int
  BY Lengths DEF Ahead
<1> QED
  BY <1>1, <1>2, <1>3, Lengths

LEMMA WeekdayLands ==
  ASSUME ColumnsTyped, NEW l \in Link, WeekdayMode(l), NEW u \in Nat,
         NEW t \in WeekdayChecks(l, u)
  PROVE  Lands(l, u, t)
<1> DEFINE days == Effective(override[l]).days
           k == DaysUntil(days, Date(u))
           date == Date(u) + k
<1>1. days \in SUBSET Weekday /\ days # {} /\ Date(u) \in Int
  <2>1. override[l] \in AnySchedule
    BY DEF ColumnsTyped
  <2> QED
    BY <2>1, Schedules, DateType DEF WeekdayMode
<1>2. PICK o \in 0..(Window - 1) : t = At(date, o)
  BY <1>1, WeekdayChecksAre
<1>3. /\ k \in 1..7 /\ WeekdayOf(date) \in days
      /\ \A i \in 1..(k - 1) : WeekdayOf(Date(u) + i) \notin days
  <2> HIDE DEF days
  <2> QED
    BY <1>1, NextListedDay
<1> HIDE DEF k
<1>4. date \in Int
  BY <1>1, <1>3
<1>5. /\ t \in Int /\ InTheMorning(t) /\ Date(t) = date
      /\ t = (date * Day + MORNING_START + o) - Ahead(date) * Hour
  <2> HIDE DEF date
  <2> QED
    BY <1>2, <1>4, AtIs
<1>6. OnTheNextListedDay(u, t, days)
  <2>1. ASSUME NEW d \in (Date(u) + 1)..(date - 1)
        PROVE  WeekdayOf(d) \notin days
    <3> DEFINE i == d - Date(u)
    <3>1. i \in 1..(k - 1) /\ d = Date(u) + i
      BY <1>1, <1>3
    <3> HIDE DEF i
    <3> QED
      BY <1>3, <3>1
  <2>2. date > Date(u)
    BY <1>1, <1>3
  <2> QED
    BY <1>3, <1>5, <2>1, <2>2 DEF OnTheNextListedDay
<1>7. t \in Nat
  <2>1. 0 * Day <= Local(u)
    BY DateType, Lengths
  <2>2. date >= 1
    BY <1>1, <1>3, <2>1, DateReached
  <2> HIDE DEF date
  <2> QED
    BY <1>2, <1>4, <2>2, MorningsAreLater
<1> QED
  BY <1>1, <1>5, <1>6, <1>7 DEF Lands

\* An interval check lands within its tenth, moved by its morning and the clocks.
LEMMA IntervalLands ==
  ASSUME ColumnsTyped, NEW l \in Link, ~WeekdayMode(l), NEW u \in Nat,
         NEW t \in IntervalChecks(l, u)
  PROVE  Lands(l, u, t)
<1> DEFINE hours == Effective(override[l]).hours
           length == hours * Hour
           jitter == length \div 10
<1>1. /\ hours \in Nat \ {0} /\ Effective(override[l]).days = {}
  <2>1. override[l] \in AnySchedule
    BY DEF ColumnsTyped
  <2> QED
    BY <2>1, Schedules DEF WeekdayMode
<1>2. length \in Nat \ {0}
  BY <1>1, Lengths
<1>3. jitter \in Nat /\ 10 * jitter <= length
  <2> HIDE DEF length
  <2> QED
    BY <1>2
<1>4. hours < 24 => t \in (u + length - jitter)..(u + length + jitter)
  BY <1>1 DEF IntervalChecks
<1>5. CASE hours < 24
  <2>1. t \in Int /\ t >= u + length - jitter
    <3> HIDE DEF length, jitter
    <3> QED
      BY <1>2, <1>3, <1>4, <1>5
  <2>2. t > u
    <3> HIDE DEF length, jitter
    <3> QED
      BY <1>2, <1>3, <2>1
  <2> QED
    BY <1>1, <1>5, <2>1, <2>2 DEF Lands
<1>6. CASE hours >= 24
  <2>1. PICK r \in (u + length - jitter)..(u + length + jitter) : t \in Morning(Date(r), AnyTime)
    BY <1>1, <1>6 DEF IntervalChecks
  <2>2. /\ r \in Int
        /\ 10 * (r - u) >= 9 * length /\ 10 * (r - u) <= 11 * length
    <3> HIDE DEF length, jitter
    <3> QED
      BY <1>2, <1>3, <2>1
  <2>3. Date(r) \in Int
    BY <2>2, DateType
  <2>4. PICK o \in 0..(Window - 1) : t = At(Date(r), o)
    BY <2>1, <2>3, MorningIs DEF AnyTime
  <2>5. /\ t \in Int /\ InTheMorning(t)
        /\ t = (Date(r) * Day + MORNING_START + o) - Ahead(Date(r)) * Hour
    BY <2>3, <2>4, AtIs
  <2>6. t - r > -(19 * Hour) /\ t - r < 13 * Hour
    <3>1. Ahead(Date(r)) * Hour = Hour \/ Ahead(Date(r)) * Hour = 2 * Hour
      BY Lengths DEF Ahead
    <3>2. /\ Local(r) = r + Hour \/ Local(r) = r + 2 * Hour
          /\ Date(r) * Day <= Local(r) /\ Local(r) < Date(r) * Day + Day
      BY <2>2, DateType
    <3> DEFINE M == Date(r) * Day
               H == Ahead(Date(r)) * Hour
    <3>3. M \in Int /\ o \in Int /\ 0 <= o /\ o < 6 * Hour
      BY <2>3, <2>4, Lengths
    <3>4. /\ t = (M + 6 * Hour + o) - H
          /\ H = Hour \/ H = 2 * Hour
          /\ M <= r + Hour \/ M <= r + 2 * Hour
      BY <2>5, <3>1, <3>2, Lengths
    <3>5. /\ M <= r + 2 * Hour
          /\ r + Hour < M + 24 * Hour
      BY <2>2, <3>2, <3>3, Lengths
    <3> HIDE DEF M, H
    <3> QED
      BY <2>2, <3>3, <3>4, <3>5, Lengths
  <2>7. OnTheInterval(u, t, hours)
    <3>1. 9 * hours * Hour = 9 * length /\ 11 * hours * Hour = 11 * length
      <4> HIDE DEF hours
      <4> QED
        BY <1>1, Lengths
    <3> HIDE DEF length, hours
    <3> QED
      BY <1>2, <2>2, <2>5, <2>6, <3>1, Lengths DEF OnTheInterval
  <2>8. t \in Nat
    <3>1. length >= 24 * Hour /\ length \in Int
      BY <1>1, <1>6, Lengths
    <3> HIDE DEF length
    <3> QED
      BY <2>2, <2>5, <2>6, <3>1, Lengths
  <2> QED
    BY <1>1, <1>6, <2>5, <2>7, <2>8 DEF Lands
<1> QED
  BY <1>1, <1>5, <1>6

\* A retry lands on the next morning.
LEMMA RetryLands ==
  ASSUME NEW u \in Nat, NEW t \in RetryChecks(u)
  PROVE  t \in Nat /\ InTheMorning(t) /\ Date(t) = Date(u) + 1
<1> DEFINE date == Date(u) + 1
<1>1. date \in Int /\ date >= 1
  <2>1. 0 * Day <= Local(u)
    BY DateType, Lengths
  <2> QED
    BY <2>1, DateReached, DateType
<1>2. t \in Morning(date, AnyTime)
  BY DEF RetryChecks
<1> HIDE DEF date
<1>3. PICK o \in 0..(Window - 1) : t = At(date, o)
  BY <1>1, <1>2, MorningIs DEF AnyTime
<1>4. t \in Nat
  BY <1>1, <1>3, MorningsAreLater
<1> QED
  BY <1>1, <1>3, <1>4, AtIs DEF date

LEMMA NextLands ==
  ASSUME ColumnsTyped, NEW l \in Link, NEW u \in Nat, NEW t \in NextChecks(l, u)
  PROVE  Lands(l, u, t)
BY WeekdayLands, IntervalLands DEF NextChecks

\* The mail of a weekday check's own day is due after it.
MailAfter(t) ==
  /\ ~SummaryDue(t)
  /\ \E u \in t..(t + Day) : Date(u) = Date(t) /\ SummaryDue(u)

LEMMA MailComesAfter ==
  ASSUME ColumnsTyped, NEW l \in Link, WeekdayMode(l), NEW u \in Nat,
         NEW t \in WeekdayChecks(l, u)
  PROVE  MailAfter(t)
<1> DEFINE days == Effective(override[l]).days
           date == Date(u) + DaysUntil(days, Date(u))
           noon == NaiveUtc(date * Day + MORNING_START + Window)
<1>1. days \in SUBSET Weekday /\ days # {} /\ Date(u) \in Int
  <2>1. override[l] \in AnySchedule
    BY DEF ColumnsTyped
  <2> QED
    BY <2>1, Schedules, DateType DEF WeekdayMode
<1>2. PICK o \in 0..(Window - 1) : t = At(date, o)
  BY <1>1, WeekdayChecksAre
<1>3. DaysUntil(days, Date(u)) \in 1..7 /\ WeekdayOf(date) \in days
  <2> HIDE DEF days
  <2> QED
    BY <1>1, NextListedDay
<1>4. date \in Int
  BY <1>1, <1>3
<1>5. WeekdayOf(date) \in SummaryWeekdays
  <2> HIDE DEF date
  <2> QED
    BY <1>1, <1>3 DEF SummaryWeekdays
<1> HIDE DEF date
<1>6. /\ t \in Int /\ Date(t) = date /\ InTheMorning(t)
      /\ t = (date * Day + MORNING_START + o) - Ahead(date) * Hour
  BY <1>2, <1>4, AtIs
<1>7. /\ noon \in Int /\ Date(noon) = date
      /\ TimeOfDay(noon) = MORNING_START + Window
      /\ noon = (date * Day + MORNING_START + Window) - Ahead(date) * Hour
  <2>1. Window \in 0..Window
    BY Lengths
  <2> QED
    BY <1>4, <2>1, MorningIsRead
<1>8. noon \in t..(t + Day)
  <2> DEFINE M == date * Day
             H == Ahead(date) * Hour
  <2>1. M \in Int /\ H \in Int
    BY <1>4, Lengths DEF Ahead
  <2>2. t = (M + MORNING_START + o) - H /\ noon = (M + MORNING_START + Window) - H
    BY <1>6, <1>7
  <2> HIDE DEF M, H, noon
  <2> QED
    BY <1>6, <1>7, <2>1, <2>2, Lengths
<1>9. TimeOfDay(t) < MORNING_START + Window /\ TimeOfDay(t) \in Int
  BY <1>6, Lengths, DateType DEF InTheMorning, TimeOfDay
<1> HIDE DEF noon
<1>10. ~SummaryDue(t)
  BY <1>9, Lengths DEF SummaryDue
<1>11. SummaryDue(noon)
  BY <1>5, <1>7, Lengths DEF SummaryDue
<1> QED
  BY <1>6, <1>7, <1>8, <1>10, <1>11 DEF MailAfter

-----------------------------------------------------------------------------
\* The same of the columns a step leaves behind.
Landed ==
  ColumnsTyped =>
    \A l \in Link, u \in Nat : \A t \in NextChecks(l, u) :
       /\ Lands(l, u, t)
       /\ WeekdayMode(l) => MailAfter(t)
       /\ DrawnAmong(l, u) # {} => IsSlot(l, DrawnAmong(l, u), t)

LEMMA LandedAfter == Landed'
<1>1. Landed
  <2> SUFFICES ASSUME ColumnsTyped, NEW l \in Link, NEW u \in Nat, NEW t \in NextChecks(l, u)
               PROVE  /\ Lands(l, u, t)
                      /\ WeekdayMode(l) => MailAfter(t)
                      /\ DrawnAmong(l, u) # {} => IsSlot(l, DrawnAmong(l, u), t)
    BY DEF Landed
  <2>1. Lands(l, u, t)
    BY NextLands
  <2>2. CASE WeekdayMode(l)
    <3>1. t \in WeekdayChecks(l, u) /\ u \in Int
      BY <2>2 DEF NextChecks
    <3> QED
      BY <2>1, <2>2, <3>1, MailComesAfter, WeekdayDrawsSlots
  <2>3. CASE ~WeekdayMode(l)
    BY <2>1, <2>3 DEF DrawnAmong
  <2> QED
    BY <2>2, <2>3
<1> QED
  BY <1>1, PTL

\* The next check of a link is in its place among the siblings it was drawn with.
SlotsKept == \A l \in Link : drawn[l] # {} => IsSlot(l, drawn[l], due[l])

\* Only the link's own columns and next check move when it is drawn.
Drawing(l) == Reschedule(l) \/ \E o \in Override[l] : Edit(l, o)

LEMMA DrawnWell ==
  ASSUME TypeOK, NEW l \in Link, Drawing(l)
  PROVE  /\ now' = now /\ override' \in ScheduleColumns
         /\ due' \in [Link -> Nat] /\ drawn' \in [Link -> SUBSET Link]
         /\ \A m \in Link \ {l} :
              due'[m] = due[m] /\ drawn'[m] = drawn[m] /\ override'[m] = override[m]
         /\ drawn'[l] # {} => IsSlot(l, drawn'[l], due'[l])
         /\ Lands(l, now, due[l])'
         /\ WeekdayMode(l)' => MailAfter(due[l])'
<1>1. /\ now \in Nat /\ override \in ScheduleColumns
      /\ due \in [Link -> Nat] /\ drawn \in [Link -> SUBSET Link]
  BY CalendarAssumption DEF TypeOK
<1>2. /\ now' = now /\ override' \in ScheduleColumns
      /\ \A m \in Link \ {l} : override'[m] = override[m]
  BY <1>1 DEF Drawing, Reschedule, Edit, ScheduleColumns
<1>3. Draw(l)
  BY DEF Drawing, Reschedule, Edit
<1>4. PICK t \in NextChecks(l, now)' : due' = [due EXCEPT ![l] = t]
  BY <1>3 DEF Draw
<1>5. drawn' = [drawn EXCEPT ![l] = DrawnAmong(l, now)']
  BY <1>3 DEF Draw
<1>6. ColumnsTyped' /\ now' \in Nat
  BY <1>1, <1>2, ColumnsAre DEF ColumnsTyped
<1>7. /\ Lands(l, now, t)'
      /\ WeekdayMode(l)' => MailAfter(t)'
      /\ DrawnAmong(l, now)' # {} => IsSlot(l, DrawnAmong(l, now)', t)
  BY <1>4, <1>6, LandedAfter DEF Landed
<1>8. t \in Nat
  BY <1>7 DEF Lands
<1>9. DrawnAmong(l, now)' \in SUBSET Link
  BY DEF DrawnAmong, Siblings
<1>10. /\ due' \in [Link -> Nat] /\ due'[l] = t
       /\ drawn' \in [Link -> SUBSET Link] /\ drawn'[l] = DrawnAmong(l, now)'
       /\ \A m \in Link \ {l} : due'[m] = due[m] /\ drawn'[m] = drawn[m]
  BY <1>1, <1>4, <1>5, <1>8, <1>9
<1> QED
  BY <1>2, <1>7, <1>10 DEF Lands, MailAfter

\* A failed check's draw is free.
LEMMA RetriedWell ==
  ASSUME TypeOK, NEW l \in Link, RetryTomorrow(l)
  PROVE  /\ now' = now /\ override' = override
         /\ due' \in [Link -> Nat] /\ drawn' \in [Link -> SUBSET Link]
         /\ \A m \in Link \ {l} : due'[m] = due[m] /\ drawn'[m] = drawn[m]
         /\ drawn'[l] = {}
         /\ InTheMorning(due'[l]) /\ Date(due'[l]) = Date(now) + 1
<1>1. /\ now \in Nat /\ due \in [Link -> Nat] /\ drawn \in [Link -> SUBSET Link]
  BY CalendarAssumption DEF TypeOK
<1>2. PICK t \in RetryChecks(now) : due' = [due EXCEPT ![l] = t]
  BY DEF RetryTomorrow
<1>3. t \in Nat /\ InTheMorning(t) /\ Date(t) = Date(now) + 1
  BY <1>1, <1>2, RetryLands
<1> QED
  BY <1>1, <1>2, <1>3 DEF RetryTomorrow

\* A step of the calendar keeps the types, and every slot.
LEMMA CalendarStep ==
  ASSUME TypeOK, SlotsKept, [Next]_vars
  PROVE  TypeOK' /\ SlotsKept'
<1>1. ASSUME NEW l \in Link, Drawing(l)
      PROVE  TypeOK' /\ SlotsKept'
  BY <1>1, DrawnWell DEF TypeOK, SlotsKept
<1>2. ASSUME NEW l \in Link, RetryTomorrow(l)
      PROVE  TypeOK' /\ SlotsKept'
  BY <1>2, RetriedWell DEF TypeOK, SlotsKept
<1>3. CASE Tick
  BY <1>3, Lengths, CalendarAssumption DEF Tick, TypeOK, SlotsKept
<1>4. CASE UNCHANGED vars
  BY <1>4 DEF vars, TypeOK, SlotsKept
<1> QED
  BY <1>1, <1>2, <1>3, <1>4 DEF Next, Drawing

LEMMA CalendarInvariant == Spec => [](TypeOK /\ SlotsKept)
<1>1. Init => TypeOK /\ SlotsKept
  BY CalendarAssumption, Lengths DEF Init, TypeOK, SlotsKept
<1>2. TypeOK /\ SlotsKept /\ [Next]_vars => TypeOK' /\ SlotsKept'
  BY CalendarStep
<1> QED
  BY <1>1, <1>2, PTL DEF Spec

\* Whatever is edited, fails or is checked, a next check is an instant of the
\* calendar, and schedules stay schedules.
THEOREM CalendarTypeCorrect == Spec => []TypeOK
BY CalendarInvariant, PTL

\* However many links of a store come due on one morning, whichever of their
\* weekdays and whenever each was rescheduled, and whatever next_check_time drew:
\* any two that weekday_slot placed among the same siblings are half a stratum
\* apart, to the instant int() cuts off.
THEOREM SiblingsStayApart == Spec => []SiblingsApart
<1>1. SlotsKept => SiblingsApart
  <2> SUFFICES ASSUME SlotsKept, NEW l \in Link, NEW m \in Link, l # m,
                      drawn[l] # {}, drawn[m] = drawn[l], Date(due[m]) = Date(due[l])
               PROVE  HalfAStratumApart(due[l], due[m], Cardinality(drawn[l]))
    BY DEF SiblingsApart
  <2>1. IsSlot(l, drawn[l], due[l]) /\ IsSlot(m, drawn[l], due[m])
    BY DEF SlotsKept
  <2>2. l < m \/ m < l
    BY CalendarAssumption
  <2> QED
    BY <2>1, <2>2, SlotsApart DEF HalfAStratumApart
<1> QED
  BY <1>1, CalendarInvariant, PTL

\* Only drawing its next check, or a retry, moves a link's next check.
LEMMA WhoMoves ==
  ASSUME TypeOK, Next, NEW l \in Link, ~RetryTomorrow(l),
         due'[l] # due[l] \/ override'[l] # override[l]
  PROVE  Drawing(l)
<1>1. ASSUME NEW m \in Link, Drawing(m) PROVE m = l
  BY <1>1, DrawnWell
<1>2. ASSUME NEW m \in Link, RetryTomorrow(m) PROVE FALSE
  <2>1. m # l
    BY <1>2
  <2> QED
    BY <1>2, <2>1, RetriedWell
<1>3. ~Tick
  BY DEF Tick
<1> QED
  BY <1>1, <1>2, <1>3 DEF Next, Drawing

\* next_check_time and next_morning_retry name Swedish mornings of the right
\* day, for any schedules, on both sides of both changes of the clocks.
THEOREM ChecksFallOnTheRightMornings == Spec => ChecksLandWhereTheyShould
<1> DEFINE Landing(l) ==
      LET schedule == Effective(override[l])'
          next == due[l]'
      IN  /\ <<due[l], override[l]>>' # <<due[l], override[l]>> /\ ~RetryTomorrow(l) =>
               IF schedule.days # {}
               THEN InTheMorning(next) /\ OnTheNextListedDay(now, next, schedule.days)
               ELSE IF schedule.hours >= 24
               THEN InTheMorning(next) /\ OnTheInterval(now, next, schedule.hours)
               ELSE next > now
          /\ RetryTomorrow(l) => InTheMorning(next) /\ Date(next) = Date(now) + 1
<1>1. TypeOK /\ [Next]_vars => [\A l \in Link : Landing(l)]_vars
  <2> SUFFICES ASSUME TypeOK, Next, NEW l \in Link PROVE Landing(l)
    OBVIOUS
  <2>1. CASE RetryTomorrow(l)
    BY <2>1, RetriedWell
  <2>2. ASSUME <<due[l], override[l]>>' # <<due[l], override[l]>>, ~RetryTomorrow(l)
        PROVE  now' = now /\ Lands(l, now, due[l])'
    BY <2>2, WhoMoves, DrawnWell
  <2> QED
    BY <2>1, <2>2 DEF Lands
<1> QED
  BY <1>1, CalendarTypeCorrect, PTL DEF Spec, ChecksLandWhereTheyShould

\* On the day of a weekday check there is a mail, and it is not due before the
\* check is.
THEOREM ChecksComeBeforeTheMail == Spec => ChecksPrecedeTheMail
<1> DEFINE Before(l) ==
      WeekdayMode(l)' /\ due'[l] # due[l] /\ ~RetryTomorrow(l) =>
        /\ ~SummaryDue(due[l])'
        /\ \E u \in due'[l]..(due'[l] + Day) : Date(u) = Date(due'[l]) /\ SummaryDue(u)'
<1>1. TypeOK /\ [Next]_vars => [\A l \in Link : Before(l)]_vars
  <2> SUFFICES ASSUME TypeOK, Next, NEW l \in Link,
                      WeekdayMode(l)', due'[l] # due[l], ~RetryTomorrow(l)
               PROVE  /\ ~SummaryDue(due[l])'
                      /\ \E u \in due'[l]..(due'[l] + Day) :
                            Date(u) = Date(due'[l]) /\ SummaryDue(u)'
    OBVIOUS
  <2>1. MailAfter(due[l])'
    BY WhoMoves, DrawnWell
  <2> QED
    BY <2>1 DEF MailAfter
<1> QED
  BY <1>1, CalendarTypeCorrect, PTL DEF Spec, ChecksPrecedeTheMail
=============================================================================
