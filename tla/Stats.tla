------------------------------- MODULE Stats --------------------------------
(***************************************************************************)
(* What the tracker says about the PAST of a product, over the rows of     *)
(* Deals: domain/stats.py walks the price points in time order and carries *)
(* every link's last price forward.  It does so twice, for the statistics  *)
(* page (build_statistics) and for the table of a product's campaigns      *)
(* (product_offer_occasions), beside the chart (price_history_rows) and    *)
(* the lists that show what each link asks now (_sorted_links,             *)
(* get_links_for_product).                                                 *)
(*                                                                         *)
(* All of it is computed from the rows at one instant.  Here kr/unit is    *)
(* not rounded; which of equally cheap links is named is decided by ids    *)
(* and names and left open.  Discounts in per cent, details and dates are  *)
(* left out.                                                               *)
(***************************************************************************)
EXTENDS Deals, FiniteSetsExt

CONSTANTS StoreOf,        \* the display name of a link's store
          StatsWindow,    \* the period asked for, unless all of history is
          Scale           \* unit prices are counted in this part of a coin

ASSUME StatsAssumption ==
  /\ IsFiniteSet(Link) /\ DOMAIN StoreOf = Link /\ StatsWindow \in Nat
  /\ Scale \in Nat \ {0} /\ \A a \in Amount : Scale % a = 0

Shop == {StoreOf[l] : l \in Link}

\* unit_price_py of the effective price: no amount, no unit price.
Unit(l, p) == IF quantity[l] = None THEN None ELSE p.paid * (Scale \div quantity[l])

\* Points of the given links, oldest first; equal instants come in any order.
Looks(L) ==
  UNION {{[link |-> l, nr |-> i, at |-> points[l][i].at, offer |-> points[l][i].offer,
           unit |-> Unit(l, points[l][i])] : i \in 1..Len(points[l])} : l \in L}
Orders(L) ==
  LET looks == Looks(L)
      places == 1..Cardinality(looks)
  IN  {order \in [places -> looks] :
         /\ \A i \in places \ {1} : order[i - 1].at <= order[i].at
         /\ \A x \in looks : \E i \in places : order[i] = x}

\* The instants a period may begin at; 0 is the first of history.
Starts == {0, Max({0, now - StatsWindow})}

-----------------------------------------------------------------------------
(* _ProductSeries. *)

Unpriced == [l \in Link |-> None]
NewSeries == [current |-> Unpriced, baseline |-> None, first |-> None, last |-> None,
              low |-> None, high |-> None, stamps |-> {}]

\* _cheapest: what the cheapest link asks, and which that may be.
Best(current) ==
  LET known == {current[l] : l \in Link} \ {None}
  IN  IF known = {} THEN None ELSE Minimum(known)
Cheapest(current) == {l \in Link : current[l] # None /\ current[l] = Best(current)}

Seed(s, x) == IF x.unit = None THEN s ELSE [s EXCEPT !.current[x.link] = x.unit]

\* Mutant of CloseSeed: only points inside the period make its span.
CloseSeedOutside(s) ==
  LET best == Best(s.current)
  IN  IF best = None THEN s ELSE [s EXCEPT !.baseline = best, !.last = best]

CloseSeed(s) ==
  LET best == Best(s.current)
  IN  IF best = None THEN s
      ELSE [s EXCEPT !.baseline = best, !.last = best, !.low = best, !.high = best]

Add(s, x) ==
  LET current == [s.current EXCEPT ![x.link] = x.unit]
      best == Best(current)
  IN  IF x.unit = None THEN s
      ELSE [s EXCEPT !.current = current, !.last = best,
                     !.stamps = @ \cup {x.at},
                     !.first = IF @ = None THEN best ELSE @,
                     !.low = IF @ = None THEN best ELSE Minimum({@, best}),
                     !.high = IF @ = None THEN best ELSE Max({@, best})]

\* best_excluding: the cheapest other link as the walk has it.
BestExcluding(s, l) == Best([s.current EXCEPT ![l] = None])

StartValue(s) == IF s.baseline # None THEN s.baseline ELSE s.first

\* change_pct is a number rather than nothing.
ChangeStated(s) ==
  /\ StartValue(s) # None /\ s.last # None
  /\ s.stamps # {}
  /\ s.baseline # None \/ Cardinality(s.stamps) >= 2

\* was_cheapest: a tie counts, and without an alternative nothing is judged.
WasCheapest(unit, alternative) ==
  IF unit = None \/ alternative = None THEN "unjudged"
  ELSE IF unit <= alternative THEN "cheapest" ELSE "dearer"

-----------------------------------------------------------------------------
(* build_statistics, of active links. *)

StatLinks == {l \in Link : status[l] = "active"}

\* Mutant of Seeded: what was seen before the period is thrown away.
SeededByNothing(order, start) == NewSeries

\* The last point of each link before the period is what the period opens at.
Seeded(order, start) ==
  LET before(l) == {i \in DOMAIN order : order[i].link = l /\ order[i].at < start}
      seed(l) == IF l \notin StatLinks \/ before(l) = {} THEN None
                 ELSE order[Max(before(l))].unit
  IN  CloseSeed([NewSeries EXCEPT !.current = [l \in Link |-> seed(l)]])

NoOffers == [offers |-> 0, judged |-> 0, cheapest |-> 0]

\* An offer is judged by the alternatives as they stood before it.
Judged(tally, verdict) ==
  [offers |-> tally.offers + 1,
   judged |-> tally.judged + (IF verdict # "unjudged" THEN 1 ELSE 0),
   cheapest |-> tally.cheapest + (IF verdict = "cheapest" THEN 1 ELSE 0)]

Counted(walk, x) ==
  LET verdict == WasCheapest(x.unit, BestExcluding(walk.series, x.link))
  IN  [series |-> Add(walk.series, x),
       stores |-> IF x.offer THEN [walk.stores EXCEPT ![StoreOf[x.link]] = Judged(@, verdict)]
                  ELSE walk.stores]

\* The walk over all points: those before the period and those of links that are
\* not looked at are passed over.
BuildStatistics(order, start) ==
  LET walk[n \in 0..Len(order)] ==
        IF n = 0 THEN [series |-> Seeded(order, start), stores |-> [s \in Shop |-> NoOffers]]
        ELSE IF order[n].at < start \/ order[n].link \notin StatLinks THEN walk[n - 1]
        ELSE Counted(walk[n - 1], order[n])
  IN  walk[Len(order)]

\* _store_comparison: among two stores or more, those whose best link asks no
\* more than any rival's.
Winners(current) ==
  LET priced == {l \in StatLinks : current[l] # None}
      rivals == {StoreOf[l] : l \in priced}
      best(s) == Minimum({current[l] : l \in {m \in priced : StoreOf[m] = s}})
  IN  IF Cardinality(rivals) < 2 THEN {}
      ELSE {s \in rivals : \A r \in rivals \ {s} : best(s) <= best(r)}

-----------------------------------------------------------------------------
(* The product's own page. *)

\* product_offer_occasions: retired links ran campaigns too.
OccasionStep(walk, x, start) ==
  IF x.at < start THEN [walk EXCEPT !.series = Seed(@, x)]
  ELSE [series |-> Add(walk.series, x),
        rows |-> IF x.offer
                 THEN walk.rows \cup
                   {[look |-> x, verdict |-> WasCheapest(x.unit, BestExcluding(walk.series, x.link))]}
                 ELSE walk.rows]

OfferOccasions(order, start) ==
  LET walk[n \in 0..Len(order)] ==
        IF n = 0 THEN [series |-> NewSeries, rows |-> {}]
        ELSE OccasionStep(walk[n - 1], order[n], start)
  IN  walk[Len(order)].rows

\* price_history_rows: every point of the chart's window.
HistoryRows(start) == {x \in Looks(Link) : x.at >= start}

\* The prices list_products works with, and those of get_product, which asks for
\* the latest point without the tie-break on ids.
ListAsks == [l \in Link |-> IF Priced(l) THEN Unit(l, Latest(l)) ELSE None]
DetailAsks ==
  LET ask == [l \in Link |->
        IF Priced(l) THEN {x.unit : x \in {y \in Looks({l}) : y.at = Latest(l).at}} ELSE {None}]
  IN  {a \in [Link -> UNION {ask[l] : l \in Link}] : \A l \in Link : a[l] \in ask[l]}

\* _sorted_links: which link may come first, names and ids between equals.
SortedFirst(asks) == IF Best(asks) # None THEN Cheapest(asks) ELSE {l \in Link : Exists(l)}

\* Mutant of RankedFirst: NULL sorts low.
RankedNullsFirst ==
  LET ranked == {l \in Link : Exists(l)}
      unit == [l \in Link |-> IF Priced(l) THEN Unit(l, Latest(l)) ELSE None]
      before(l, m) == unit[m] # None /\ (unit[l] = None \/ unit[l] < unit[m])
  IN  {l \in ranked : \A m \in ranked : ~before(m, l)}

\* get_links_for_product: the same in SQL, nulls last, no order between equals.
RankedFirst ==
  LET ranked == {l \in Link : Exists(l)}
      unit == [l \in Link |-> IF Priced(l) THEN Unit(l, Latest(l)) ELSE None]
      before(l, m) == unit[l] # None /\ (unit[m] = None \/ unit[l] < unit[m])
  IN  {l \in ranked : \A m \in ranked : ~before(m, l)}

\* match_candidates of domain/blad.py: what an offer in the leaflet is held against.
TrackedBest(asks) == Best([l \in Link |-> IF l \in StatLinks THEN asks[l] ELSE None])

-----------------------------------------------------------------------------
\* Points that nothing but their ids puts in order.
Tied(L) ==
  \E l, m \in L : \E i \in 1..Len(points[l]), j \in 1..Len(points[m]) :
    points[l][i].at = points[m][j].at /\ <<l, i>> # <<m, j>>

\* The number a store is given for its campaigns, the rows of a product's
\* campaign table and the rings of its chart are of the same campaigns and
\* judge them alike, as long as no retired link has prices to compare with (the
\* table counts those, the number does not) and the instants tell the order.
CampaignsAreCountedAlike ==
  ~Tied(Link) => \A order \in Orders(Link) : \A start \in Starts :
    LET rows == OfferOccasions(order, start)
        stores == BuildStatistics(order, start).stores
        of(s) == {r \in rows : r.look.link \in StatLinks /\ StoreOf[r.look.link] = s}
        retired == \E x \in Looks(Link \ StatLinks) : x.unit # None
    IN  /\ {r.look : r \in rows} = {x \in HistoryRows(start) : x.offer}
        /\ \A s \in Shop :
             /\ stores[s].offers = Cardinality(of(s))
             /\ \/ retired
                \/ /\ stores[s].judged = Cardinality({r \in of(s) : r.verdict # "unjudged"})
                   /\ stores[s].cheapest = Cardinality({r \in of(s) : r.verdict = "cheapest"})

\* What the cheapest shelf asked at an instant, carried forward from the last
\* look at each link.
CheapestAt(t) ==
  LET asked(l) ==
        LET seen == {x \in Looks({l} \cap StatLinks) : x.at <= t}
        IN  {x.unit : x \in {y \in seen : \A z \in seen : z.at <= y.at}} \ {None}
      known == UNION {asked(l) : l \in Link}
  IN  IF known = {} THEN None ELSE Minimum(known)

\* The change, low and high printed for a period are those of what the cheapest
\* shelf asked from the period's opening, or the first look, until now; and a
\* change is printed only of a product that was looked at twice, once of these
\* inside the period.
TrendIsWhatWasAsked ==
  ~Tied(Link) => \A order \in Orders(Link) : \A start \in Starts :
      LET s == BuildStatistics(order, start).series
          opening == CheapestAt(start - 1)
          looks == {x.at : x \in {y \in Looks(StatLinks) : y.unit # None}}
          inside == {t \in looks : t >= start}
          span == ({CheapestAt(t) : t \in inside} \cup {opening}) \ {None}
      IN  /\ ChangeStated(s) <=> inside # {} /\ Cardinality(looks) >= 2
          /\ ChangeStated(s) =>
               /\ s.last = CheapestAt(Max(inside))
               /\ StartValue(s) = IF opening # None THEN opening ELSE CheapestAt(Minimum(inside))
          /\ looks # {} => s.low = Minimum(span) /\ s.high = Max(span)

\* Prisutveckling, the comparison of stores, the leaflet's candidates and the buy
\* list never name different prices as the cheapest, up to the rounding of the
\* latter, when all links that are active answer and have something on the shelf
\* and no two points of a link bear one instant; nor do the lists, which show
\* retired links as well.
ViewsAgree ==
  (\A l \in Active : quantity[l] # None => Shelf(l)) /\ (\A l \in Link : ~Tied({l})) =>
    \A current \in {BuildStatistics(order, 0).series.current : order \in Orders(Link)} :
    \A asks \in DetailAsks \cup {ListAsks} :
      LET best == Cheapest(current)
          retired == \E l \in Link \ StatLinks : asks[l] # None
      IN  /\ SortedFirst(asks) = RankedFirst
          /\ TrackedBest(asks) = Best(current)
          /\ best # {} => retired \/ RankedFirst = best
          /\ Winners(current) # {} => Winners(current) = {StoreOf[l] : l \in best}
          /\ \A l \in OnOffer :
               /\ l \in best => Verdict(Asks(l), Alternatives(l)) # "worse"
               /\ Verdict(Asks(l), Alternatives(l)) = "best" => \A m \in best : Asks(l) = Asks(m)
=============================================================================
