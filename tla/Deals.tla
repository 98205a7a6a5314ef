------------------------------- MODULE Deals --------------------------------
(***************************************************************************)
(* Which offers of ONE product are worth buying.                           *)
(*                                                                         *)
(* Checks record points and attempts, each in a transaction of its own; a  *)
(* human types a price seen elsewhere, dated at noon of a day; links and   *)
(* amounts change; time passes.  Over the rows that leaves, current_deals  *)
(* of domain/deals.py judges every fresh offer in space, against the       *)
(* product's other links, and in time, against the lowest price observed,  *)
(* and the buy list of domain/scheduler.py keeps the rows worth a mail.    *)
(*                                                                         *)
(* The judgement is taken at one instant: what current_deals answers when  *)
(* nothing commits between its four queries.                               *)
(*                                                                         *)
(* A point's "paid" is its effective price, "offer" whether that is an     *)
(* offer price, in the smallest unit that is not rounded away.             *)
(***************************************************************************)
EXTENDS Integers, Sequences

CONSTANTS Link,           \* the product's links
          Price,          \* prices a page or a human may state
          Amount,         \* package quantities
          None,           \* NULL
          DealsWindow,    \* DEALS_WINDOW_DAYS
          PriceWindow,    \* PRICE_LOW_WINDOW_DAYS
          CheaperPct,     \* SEEN_CHEAPER_MIN_PCT
          BrokenAfter,    \* BROKEN_AFTER_ATTEMPTS
          LastDay,        \* bound on time
          MaxWrites       \* bound on what happens to the rows

ASSUME DealsAssumption ==
  /\ Price \subseteq Nat \ {0} /\ Amount \subseteq Nat \ {0}
  /\ None \notin Int
  /\ {DealsWindow, PriceWindow, CheaperPct, LastDay, MaxWrites} \subseteq Nat
  /\ BrokenAfter \in Nat \ {0}

VARIABLES now,        \* an instant; a day has three, of which noon is skipped
          status,     \* of a link: active, inactive (from a backup), gone
          quantity,   \* package_quantity
          points,     \* price points, latest first
          failures,   \* failed checks since the last "ok", walls not counted
          writes      \* how much has happened

vars == <<now, status, quantity, points, failures, writes>>

MaybeAmount == Amount \cup {None}
Point == [at : Int, paid : Price, offer : BOOLEAN, stock : BOOLEAN, manual : BOOLEAN]

Morning(day) == 3 * day
Noon(day) == 3 * day + 1
Afternoon(day) == 3 * day + 2
Today == now \div 3

\* A link nobody has priced yet is as good as one that is made later.
Init ==
  /\ now = Morning(0)
  /\ status \in [Link -> {"active", "inactive"}]
  /\ quantity \in [Link -> MaybeAmount]
  /\ points = [l \in Link |-> <<>>]
  /\ failures = [l \in Link |-> 0]
  /\ writes = 0

-----------------------------------------------------------------------------
(* What the store pages, the operator and time do. *)

Exists(l) == status[l] # "gone"

Writes == writes < MaxWrites /\ writes' = writes + 1

\* A point takes its place by checked_at; its random id decides between equals.
Recorded(l, p) ==
  \E i \in 0..Len(points[l]) :
    /\ \A j \in 1..Len(points[l]) :
         IF j <= i THEN points[l][j].at >= p.at ELSE points[l][j].at <= p.at
    /\ points' = [points EXCEPT ![l] = SubSeq(@, 1, i) \o <<p>> \o SubSeq(@, i + 1, Len(@))]

\* A check reads a price.  An inactive link is checked on request only.
CheckSucceeds(l, paid, offer, stock) ==
  /\ Writes /\ Exists(l)
  /\ Recorded(l, [at |-> now, paid |-> paid, offer |-> offer, stock |-> stock,
                  manual |-> FALSE])
  /\ failures' = [failures EXCEPT ![l] = 0]
  /\ UNCHANGED <<now, status, quantity>>

\* Its "ok" is on record before the point is committed, and stays there when
\* that commit fails.
CheckLost(l) ==
  /\ Writes /\ Exists(l) /\ failures[l] > 0
  /\ failures' = [failures EXCEPT ![l] = 0]
  /\ UNCHANGED <<now, status, quantity, points>>

\* No page, or no price on it.
CheckFails(l) ==
  /\ Writes /\ Exists(l) /\ failures[l] < BrokenAfter
  /\ failures' = [failures EXCEPT ![l] = @ + 1]
  /\ UNCHANGED <<now, status, quantity, points>>

\* record_manual_price: dated now, or at noon of a day that has begun.  It
\* leaves no attempt.
ManualPrice(l, paid, offer, at) ==
  /\ Writes /\ Exists(l)
  /\ at = now \/ \E day \in 0..Today : at = Noon(day)
  /\ Recorded(l, [at |-> at, paid |-> paid, offer |-> offer, stock |-> TRUE,
                  manual |-> TRUE])
  /\ UNCHANGED <<now, status, quantity, failures>>

TypeAmount(l, q) ==
  /\ Writes /\ Exists(l) /\ q # quantity[l]
  /\ quantity' = [quantity EXCEPT ![l] = q]
  /\ UNCHANGED <<now, status, points, failures>>

\* The link goes with its points; its attempts stay, without a link.
Unlink(l) ==
  /\ Writes /\ Exists(l)
  /\ status' = [status EXCEPT ![l] = "gone"]
  /\ points' = [points EXCEPT ![l] = <<>>]
  /\ failures' = [failures EXCEPT ![l] = 0]
  /\ UNCHANGED <<now, quantity>>

Tick ==
  /\ now < Afternoon(LastDay)
  /\ now' = IF now = Morning(Today) THEN Afternoon(Today) ELSE Morning(Today + 1)
  /\ UNCHANGED <<status, quantity, points, failures, writes>>

Next ==
  \/ \E l \in Link, paid \in Price, offer \in BOOLEAN :
       \/ \E stock \in BOOLEAN : CheckSucceeds(l, paid, offer, stock)
       \/ \E at \in 0..Afternoon(LastDay) : ManualPrice(l, paid, offer, at)
  \/ \E l \in Link : CheckLost(l) \/ CheckFails(l) \/ Unlink(l)
  \/ \E l \in Link, q \in Amount : TypeAmount(l, q)
  \/ Tick

Spec == Init /\ [][Next]_vars

-----------------------------------------------------------------------------
(* Prices, and the judgement of a row in space and in time. *)

\* latest_point_per_link.
Priced(l) == points[l] # <<>>
Latest(l) == Head(points[l])

\* rounded_unit_price: half up, and no amount means no unit price.
UnitPrice(p, amount) ==
  IF amount = None THEN None ELSE (2 * p.paid + amount) \div (2 * amount)
Asks(l) == UnitPrice(Latest(l), quantity[l])

\* broken_from_attempts: the last non-blocked attempts have all failed.
Broken(l) == failures[l] >= BrokenAfter

Minimum(S) == CHOOSE x \in S : \A y \in S : x <= y

Active == {l \in Link : status[l] = "active" /\ Priced(l)}
Fresh(p) == p.offer /\ p.at >= now - DealsWindow
OnOffer == {l \in Active : Fresh(Latest(l))}

\* Mutant of Alternatives: an offer is compared with offers only.
AlternativesOnOffer(l) ==
  {Asks(m) : m \in {k \in OnOffer \ {l} : ~Broken(k) /\ Latest(k).stock}} \ {None}

\* What the other links ask: active, answering, and with something on the shelf.
Alternatives(l) ==
  {Asks(m) : m \in {k \in Active \ {l} : ~Broken(k) /\ Latest(k).stock}} \ {None}

\* classify_deal: "lika billigt" is still billigast.
Verdict(unit, others) ==
  IF unit = None \/ others = {} THEN "unknown"
  ELSE IF unit <= Minimum(others) THEN "best" ELSE "worse"

\* classify_timing of seen_cheaper_pct.
Timing(unit, floor) ==
  IF unit = None \/ floor = None \/ floor = 0 THEN "unknown"
  ELSE IF (unit - floor) * 100 >= CheaperPct * floor THEN "poor" ELSE "good"

\* The observations of observed_spans: every point of the window with a unit
\* price, of inactive, broken and empty shelves too.
At(x) == points[x[1]][x[2]]
Seen(x) == UnitPrice(At(x), quantity[x[1]])
Observed ==
  UNION {{<<l, i>> : i \in {j \in 1..Len(points[l]) : points[l][j].at >= now - PriceWindow}} :
           l \in {m \in Link : quantity[m] # None}}

\* A floor takes two observations; the order of the query decides between
\* equal ones.
NoFloor == [unit |-> None, manual |-> FALSE]
Floors ==
  LET observed == Observed
  IN  IF \E x, y \in observed : x # y
      THEN {[unit |-> Seen(x), manual |-> At(x).manual] :
              x \in {y \in observed : \A z \in observed : Seen(y) <= Seen(z)}}
      ELSE {NoFloor}

\* current_deals.
CurrentDeals(floor) ==
  [l \in OnOffer |-> [verdict |-> Verdict(Asks(l), Alternatives(l)),
                      timing |-> Timing(Asks(l), floor.unit),
                      manual |-> floor.manual]]

\* Mutant of Bought: a poor moment is a poor moment.
BoughtAtGoodMoments(d) == d.verdict # "worse" /\ d.timing # "poor"

\* The rows _check_summary_due keeps.
Bought(d) == d.verdict # "worse" /\ (d.timing # "poor" \/ d.manual)

BuyList(floor) == {l \in OnOffer : Bought(CurrentDeals(floor)[l])}

-----------------------------------------------------------------------------
TypeOK ==
  /\ now \in 0..Afternoon(LastDay)
  /\ status \in [Link -> {"active", "inactive", "gone"}]
  /\ quantity \in [Link -> MaybeAmount]
  /\ points \in [Link -> Seq(Point)]
  /\ failures \in [Link -> 0..BrokenAfter]
  /\ writes \in 0..MaxWrites

\* A shelf somebody can buy from now.
Shelf(l) == l \in Active /\ ~Broken(l) /\ Latest(l).stock /\ quantity[l] # None

\* The buy list never sends anybody to a shelf when another one it could name
\* is cheaper per unit, whatever its pack.
NothingCheaperElsewhere ==
  \A l \in OnOffer : \A floor \in Floors : l \in BuyList(floor) =>
    \A m \in Link \ {l} : quantity[l] # None /\ Shelf(m) => Asks(l) <= Asks(m)

\* A price of a page in the window, of a link that still exists, that undercut
\* what l asks now by the margin.
WasCheaperOnAPage(l) ==
  \E m \in Link : \E i \in 1..Len(points[m]) :
    /\ Exists(m) /\ quantity[m] # None
    /\ ~points[m][i].manual
    /\ points[m][i].at >= now - PriceWindow
    /\ LET then == UnitPrice(points[m][i], quantity[m])
       IN  (Asks(l) - then) * 100 >= CheaperPct * then

\* A fresh offer is left out for cause: a reachable shelf is cheaper now, or a
\* price on a store's own page was cheaper by the margin, lately.  An inactive,
\* broken or empty shelf never vetoes an offer, nor does a price that only a
\* human has seen, nor that of a link that has been removed.
LeftOutForCause ==
  \A l \in OnOffer : \A floor \in Floors :
    \/ l \in BuyList(floor)
    \/ \E m \in Link \ {l} : Shelf(m) /\ Asks(m) < Asks(l)
    \/ WasCheaperOnAPage(l)
=============================================================================
