------------------------------ MODULE LinkRow -------------------------------
(***************************************************************************)
(* The columns of ONE link that a price check and the operator both write. *)
(*                                                                         *)
(* The amount in the package, the number every kr/unit is computed from:   *)
(* the operator types it (update_link_packaging of api/admin.py) or the    *)
(* first scrape fills it in (apply_scrape_to_link of domain/pricing.py,    *)
(* called by every price check).  The schedule and the next check: the     *)
(* operator sets both (update_check_frequency), a scheduled check          *)
(* reschedules when it is done.                                            *)
(*                                                                         *)
(* A check loads the row, then sleeps on the ledger and fetches, and only  *)
(* then applies what it read to the copy it loaded.  An interactive check  *)
(* loaded it in the session it commits: the columns whose value changed on *)
(* the copy are written.  The scheduler's copy is detached from the        *)
(* session it commits (_check_due_products): it writes the next check, as  *)
(* an UPDATE of its own, and none of the other columns.                    *)
(***************************************************************************)
CONSTANTS Amount,        \* package quantities
          Schedule,      \* effective schedules of the link
          None,          \* NULL
          Soon,          \* a next check no schedule asked for: behind a cooldown,
                         \* the next morning, the hour after an exception
          Scheduled,     \* the scheduler's check
          Interactive    \* "Kolla nu" and first checks

ASSUME LinkRowAssumption ==
  /\ None \notin Amount \cup Schedule
  /\ Soon \notin Schedule
  /\ Scheduled \notin Interactive

VARIABLES row,     \* the columns in the database; next is the schedule that
                   \* next_check_at was computed from
          copy,    \* what each running check has loaded
          typed,   \* history: the operator's last amount
          raced,   \* history: since the operator's last amount, a check has
                   \* committed one on a copy loaded before the first
          edited,  \* history: the schedule was edited while a scheduled check ran
          stale    \* history: such a check was the last to reschedule the link

rowVars == <<row, copy, typed, raced, edited, stale>>

Check == Interactive \cup {Scheduled}
MaybeAmount == Amount \cup {None}
Columns == [quantity : MaybeAmount, scraped : MaybeAmount,
            schedule : Schedule, next : Schedule \cup {Soon, None}]
NotLoaded == [quantity |-> None, scraped |-> None, schedule |-> None, running |-> FALSE]

Running(c) == copy[c].running

\* A link that has just been created is due at once.
RowInit ==
  /\ row \in {r \in Columns : r.next = None /\ r.scraped = None}
  /\ copy = [c \in Check |-> NotLoaded]
  /\ typed = row.quantity
  /\ raced = FALSE /\ edited = FALSE /\ stale = FALSE

\* Mutant of Applied: the page's reading replaces the amount.
AppliedOverwrites(link, reading) ==
  [link EXCEPT !.scraped = reading,
               !.quantity = IF reading = None THEN @ ELSE reading]

\* apply_scrape_to_link: record the page's own reading, autofill when empty.
Applied(link, reading) ==
  [link EXCEPT !.scraped = reading,
               !.quantity = IF link.quantity = None THEN reading ELSE link.quantity]

\* What the session of an attached copy sends: the columns that changed.
Written(old, new) ==
  [f \in DOMAIN row |->
     IF f \in {"quantity", "scraped"} /\ new[f] # old[f] THEN new[f] ELSE row[f]]

\* The row is read and the check sets out for the store.  The scheduler takes
\* a link that is due; a schedule or a retry comes due in the end.
Load(c) ==
  /\ ~Running(c)
  /\ copy' = [copy EXCEPT ![c] = [quantity |-> row.quantity, scraped |-> row.scraped,
                                  schedule |-> row.schedule, running |-> TRUE]]
  /\ edited' = IF c = Scheduled THEN FALSE ELSE edited
  /\ UNCHANGED <<row, typed, raced, stale>>

\* A scheduled check reschedules the link from the schedule of its copy, or
\* soon when the store failed it.
Reschedules(next) ==
  /\ Running(Scheduled)
  /\ row' = [row EXCEPT !.next = next]
  /\ copy' = [copy EXCEPT ![Scheduled] = NotLoaded]
  /\ stale' = edited
  /\ UNCHANGED <<typed, raced, edited>>

\* A price: the point and the next check are committed, the autofill stays on
\* the detached copy.
ScheduledReturns == Reschedules(copy[Scheduled].schedule)

\* No price: the interval again, or tomorrow morning, or behind the cooldown.
ScheduledFinds(next) ==
  /\ next \in {copy[Scheduled].schedule, Soon}
  /\ Reschedules(next)

InteractiveReturns(c, reading) ==
  /\ Running(c)
  /\ row' = Written(copy[c], Applied(copy[c], reading))
  /\ raced' = (raced \/ (typed # None /\ copy[c].quantity = None /\ reading # None))
  /\ copy' = [copy EXCEPT ![c] = NotLoaded]
  /\ UNCHANGED <<typed, edited, stale>>

\* No page or no price for the operator, or a check whose commit failed and,
\* if it was the scheduler's, whose back-off could not be written either.
Fails(c) ==
  /\ Running(c)
  /\ copy' = [copy EXCEPT ![c] = NotLoaded]
  /\ UNCHANGED <<row, typed, raced, edited, stale>>

\* update_link_packaging: an amount can be replaced, never cleared.
TypeAmount(q) ==
  /\ row' = [row EXCEPT !.quantity = q]
  /\ typed' = q
  /\ raced' = FALSE
  /\ UNCHANGED <<copy, edited, stale>>

\* Mutant of EditSchedule: the new schedule starts with the check after next.
EditScheduleLater(s) ==
  /\ row' = [row EXCEPT !.schedule = s]
  /\ edited' = Running(Scheduled)
  /\ stale' = FALSE
  /\ UNCHANGED <<copy, typed, raced>>

\* update_check_frequency: a new schedule, and the next check from it.
EditSchedule(s) ==
  /\ row' = [row EXCEPT !.schedule = s, !.next = s]
  /\ edited' = Running(Scheduled)
  /\ stale' = FALSE
  /\ UNCHANGED <<copy, typed, raced>>

RowNext ==
  \/ \E c \in Check : Load(c) \/ Fails(c)
  \/ ScheduledReturns
  \/ \E r \in MaybeAmount, c \in Interactive : InteractiveReturns(c, r)
  \/ \E n \in Schedule \cup {Soon} : ScheduledFinds(n)
  \/ \E q \in Amount : TypeAmount(q)
  \/ \E s \in Schedule : EditSchedule(s)

RowSpec == RowInit /\ [][RowNext]_rowVars

-----------------------------------------------------------------------------
RowTypeOK ==
  /\ row \in Columns
  /\ copy \in [Check -> [quantity : MaybeAmount, scraped : MaybeAmount,
                         schedule : Schedule \cup {None}, running : BOOLEAN]]
  /\ typed \in MaybeAmount
  /\ {raced, edited, stale} \subseteq BOOLEAN

\* The operator's amount outlives every scrape, with one exception: a check
\* that was already under way, on a link without an amount, when the first
\* one was typed.  No later check and no reading of any page rewrites it.
IntentStandsUnlessRaced ==
  typed # None => row.quantity = typed \/ raced

\* The next check is the one the schedule in force asks for, or an earlier
\* retry.  The exception is a check that was under way when the schedule was
\* edited: it reschedules from the copy it loaded before, and the link follows
\* its old schedule until the check after that.
NextFollowsSchedule ==
  row.next \in {row.schedule, Soon, None} \/ stale
=============================================================================
