------------------------------- MODULE Alerts -------------------------------
(***************************************************************************)
(* Price alerts: PriceCheckScheduler._check_alerts of domain/scheduler.py  *)
(* inside the transaction of the check that calls it, for the watches of   *)
(* ONE product, beside the operator who creates, edits and deletes them    *)
(* (create_watch, update_watch, delete_watch of api/admin.py).             *)
(*                                                                         *)
(* The mail leaves before the commit that stamps last_alerted_at, and the  *)
(* stamps of all watches, the price point and the next check are one       *)
(* commit.  Checks of the product's links follow each other: one task      *)
(* makes them.  An operator's check sends no alerts.                       *)
(*                                                                         *)
(* last_alerted_at is kept as what is left of the 24 hours after it; a     *)
(* check takes seconds, so time passes between checks only.                *)
(***************************************************************************)
EXTENDS Integers

CONSTANTS Watch,       \* row ids: a deleted watch never comes back
          Wish,        \* what a watch may ask for
          Page,        \* what a check may read
          Cooldown,    \* the 24 hours between two alerts of a watch
          MaxMishaps   \* bound on failed sends, exceptions, failed commits, crashes

None == -1

\* A wish or a reading that is not there is None; drops are in percent.
ASSUME AlertsAssumption ==
  /\ Cooldown \in Nat \ {0} /\ MaxMishaps \in Nat
  /\ Wish \subseteq [target : Nat \cup {None}, anyOffer : BOOLEAN, drop : Nat \cup {None},
                     unitTarget : Nat \cup {None}, unitDrop : Nat \cup {None}]
  /\ Page \subseteq [price : Nat \ {0}, offer : Nat \cup {None}, campaign : BOOLEAN,
                     quantity : (Nat \ {0}) \cup {None}]
  /\ Wish # {} /\ Page # {}

VARIABLES watch,      \* the rows: existence, wish, what is left of the cooldown
          shelf,      \* the page as it stands at the store
          phase,      \* "idle", "alerting", or "saving"
          todo,       \* watches the loop has still to look at
          loaded,     \* the rows as the query returned them
          page,       \* what the check read
          stamped,    \* watches whose last_alerted_at is set on the loaded row
          recent,     \* history: what is left of the cooldown since the last mail
          again,      \* history: mails sent within the cooldown of another
          mishaps, deletions   \* history: how many there have been

rows == <<watch, deletions>>
check == <<phase, todo, loaded, page, stamped>>
history == <<recent, again>>
vars == <<rows, shelf, check, history, mishaps>>

Live(w) == watch[w].is = "live"
AnyWish == CHOOSE x \in Wish : TRUE
Row(is, wish, cooling) == [is |-> is, wish |-> wish, cooling |-> cooling]

-----------------------------------------------------------------------------
\* The rule.  kr/unit is computed from the link's quantity; without one the
\* two rules about it are silent.
Paid(seen) == IF seen.offer # None /\ seen.offer # 0 THEN seen.offer ELSE seen.price

TargetMet(wish, seen) ==
  wish.target \notin {None, 0} /\ Paid(seen) <= wish.target
OfferMet(wish, seen) == wish.anyOffer /\ seen.campaign
DropMet(wish, seen) ==
  /\ wish.drop \notin {None, 0} /\ seen.offer \notin {None, 0}
  /\ (seen.price - seen.offer) * 100 >= wish.drop * seen.price
UnitTargetMet(wish, seen) ==
  /\ wish.unitTarget # None /\ seen.quantity # None
  /\ Paid(seen) <= wish.unitTarget * seen.quantity
UnitDropMet(wish, seen) ==
  /\ wish.unitDrop \notin {None, 0} /\ seen.offer # None /\ seen.quantity # None
  /\ (seen.price - Paid(seen)) * 100 >= wish.unitDrop * seen.price

ShouldAlert(wish, seen) ==
  \/ TargetMet(wish, seen) \/ OfferMet(wish, seen) \/ DropMet(wish, seen)
  \/ UnitTargetMet(wish, seen) \/ UnitDropMet(wish, seen)

-----------------------------------------------------------------------------
Init ==
  /\ watch = [w \in Watch |-> Row("absent", AnyWish, 0)]
  /\ shelf \in Page /\ page = shelf
  /\ phase = "idle"
  /\ todo = {} /\ stamped = {}
  /\ loaded = watch
  /\ recent = [w \in Watch |-> 0]
  /\ again = [w \in Watch |-> 0]
  /\ mishaps = 0 /\ deletions = 0

Mishap == mishaps < MaxMishaps /\ mishaps' = mishaps + 1

\* A check read a price off the page: its point is flushed, the product's
\* watches are queried.
Begin ==
  /\ phase = "idle"
  /\ phase' = "alerting"
  /\ todo' = {w \in Watch : Live(w)}
  /\ loaded' = watch
  /\ page' = shelf
  /\ stamped' = {}
  /\ UNCHANGED <<rows, shelf, history, mishaps>>

Due(w) == ShouldAlert(loaded[w].wish, page) /\ loaded[w].cooling = 0

PassOver(w) ==
  /\ phase = "alerting" /\ w \in todo
  /\ ~Due(w)
  /\ todo' = todo \ {w}
  /\ UNCHANGED <<rows, shelf, phase, loaded, page, stamped, history, mishaps>>

\* Mutant of SendOk: the cooldown of the watch is not looked at.
SendOkAnyway(w) ==
  /\ phase = "alerting" /\ w \in todo
  /\ ShouldAlert(loaded[w].wish, page)
  /\ todo' = todo \ {w}
  /\ stamped' = stamped \cup {w}
  /\ recent' = [recent EXCEPT ![w] = Cooldown]
  /\ again' = [again EXCEPT ![w] = IF recent[w] > 0 THEN @ + 1 ELSE @]
  /\ UNCHANGED <<rows, shelf, phase, loaded, page, mishaps>>

SendOk(w) ==
  /\ phase = "alerting" /\ w \in todo
  /\ Due(w)
  /\ todo' = todo \ {w}
  /\ stamped' = stamped \cup {w}
  /\ recent' = [recent EXCEPT ![w] = Cooldown]
  /\ again' = [again EXCEPT ![w] = IF recent[w] > 0 THEN @ + 1 ELSE @]
  /\ UNCHANGED <<rows, shelf, phase, loaded, page, mishaps>>

\* Mutant of SendFails: the watch is stamped whatever send returned.
SendFailsStamped(w) ==
  /\ phase = "alerting" /\ w \in todo
  /\ Due(w)
  /\ Mishap
  /\ todo' = todo \ {w}
  /\ stamped' = stamped \cup {w}
  /\ UNCHANGED <<rows, shelf, phase, loaded, page, history>>

\* The mail service reports a failure: no stamp.
SendFails(w) ==
  /\ phase = "alerting" /\ w \in todo
  /\ Due(w)
  /\ Mishap
  /\ todo' = todo \ {w}
  /\ UNCHANGED <<rows, shelf, phase, loaded, page, stamped, history>>

AllSeen ==
  /\ phase = "alerting" /\ todo = {}
  /\ phase' = "saving"
  /\ UNCHANGED <<rows, shelf, todo, loaded, page, stamped, history, mishaps>>

\* One commit for the point, the next check and every stamp.
Commit ==
  /\ phase = "saving"
  /\ \A w \in stamped : Live(w)
  /\ watch' = [w \in Watch |-> IF w \in stamped THEN [watch[w] EXCEPT !.cooling = Cooldown]
                               ELSE watch[w]]
  /\ phase' = "idle"
  /\ UNCHANGED <<shelf, todo, loaded, page, stamped, history, mishaps, deletions>>

\* Mutant of CommitStale: the commit is tried again.
CommitStaleRetried ==
  /\ phase = "saving"
  /\ \E w \in stamped : ~Live(w)
  /\ UNCHANGED vars

\* A stamped watch is gone: its UPDATE matches no row, and the whole commit is
\* rolled back with it.
CommitStale ==
  /\ phase = "saving"
  /\ \E w \in stamped : ~Live(w)
  /\ phase' = "idle"
  /\ UNCHANGED <<rows, shelf, todo, loaded, page, stamped, history, mishaps>>

\* An exception, a failed commit, or the end of the process, anywhere between
\* the query and the commit.
Abandon ==
  /\ phase # "idle"
  /\ Mishap
  /\ phase' = "idle"
  /\ UNCHANGED <<rows, shelf, todo, loaded, page, stamped, history>>

CheckStep ==
  \/ Begin \/ AllSeen \/ Commit \/ CommitStale \/ Abandon
  \/ \E w \in Watch : PassOver(w) \/ SendOk(w) \/ SendFails(w)

-----------------------------------------------------------------------------
CreateWatch(w, wish) ==
  /\ watch[w].is = "absent"
  /\ watch' = [watch EXCEPT ![w] = Row("live", wish, 0)]
  /\ UNCHANGED <<deletions, shelf, check, history, mishaps>>

\* An edit changes the wish and keeps the stamp.
UpdateWatch(w, wish) ==
  /\ Live(w)
  /\ watch' = [watch EXCEPT ![w].wish = wish]
  /\ UNCHANGED <<deletions, shelf, check, history, mishaps>>

DeleteWatch(w) ==
  /\ Live(w)
  /\ watch' = [watch EXCEPT ![w] = Row("gone", AnyWish, 0)]
  /\ deletions' = deletions + 1
  /\ UNCHANGED <<shelf, check, history, mishaps>>

\* The store changes its page.
Reprice ==
  /\ shelf' \in Page
  /\ UNCHANGED <<rows, check, history, mishaps>>

Closer(t) == IF t > 0 THEN t - 1 ELSE t
Tick ==
  /\ phase = "idle"
  /\ watch' = [w \in Watch |-> [watch[w] EXCEPT !.cooling = Closer(@)]]
  /\ recent' = [w \in Watch |-> Closer(recent[w])]
  /\ UNCHANGED <<deletions, shelf, check, again, mishaps>>

OperatorStep ==
  \E w \in Watch : \/ \E wish \in Wish : CreateWatch(w, wish) \/ UpdateWatch(w, wish)
                   \/ DeleteWatch(w)

Next == CheckStep \/ OperatorStep \/ Reprice \/ Tick

Spec == Init /\ [][Next]_vars

\* The product's links keep being checked, and a check goes on: its sends and
\* its database calls return or raise.
FairSpec == Spec /\ WF_vars(CheckStep)

-----------------------------------------------------------------------------
TypeOK ==
  /\ watch \in [Watch -> [is : {"absent", "live", "gone"}, wish : Wish, cooling : 0..Cooldown]]
  /\ shelf \in Page /\ page \in Page
  /\ phase \in {"idle", "alerting", "saving"}
  /\ todo \subseteq Watch /\ stamped \subseteq Watch
  /\ loaded \in [Watch -> [is : {"absent", "live", "gone"}, wish : Wish, cooling : 0..Cooldown]]
  /\ recent \in [Watch -> 0..Cooldown]
  /\ again \in [Watch -> Nat]
  /\ mishaps \in Nat /\ deletions \in Nat

\* "Don't spam": a second mail within the 24 hours is always paid for, by a
\* mishap or by a watch that was deleted while its own alert was under way.
\* One lost commit costs a watch one mail, not one an hour: the mail that
\* repeats it is stamped in turn.
OneAlertPerMishap ==
  \A w \in Watch : again[w] <= mishaps + deletions

\* A stamp silences a watch for a day, so it must stand for a mail that left.
StampMeansMail ==
  \A w \in Watch : watch[w].cooling <= recent[w]

\* A watch whose wish the shelf fulfils from some time on is told so, and told
\* again every day: no stamp, lost commit, neighbour or edit silences it.
AlertsGoOut ==
  \A w \in Watch :
    <>[](Live(w) /\ ShouldAlert(watch[w].wish, shelf)) => []<>(recent[w] > 0)
=============================================================================
