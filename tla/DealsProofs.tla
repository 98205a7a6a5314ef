----------------------------- MODULE DealsProofs -----------------------------
(***************************************************************************)
(* What TLAPS proves of prices: what the extractors record of a shelf, for *)
(* any prices, packages and campaigns; what the buy list makes of the      *)
(* points, and what the statistics and lists tell of them, for any links,  *)
(* prices, amounts, windows, periods and length of time.                   *)
(***************************************************************************)
EXTENDS Stats, Offers, SequenceTheorems, FiniteSetTheorems, WellFoundedInduction, NaturalsInduction, TLAPS

\* Numbers have a smallest one among them.
LEMMA SmallestOf ==
  ASSUME NEW S, S \subseteq Nat, S # {}
  PROVE  \E m \in S : \A n \in S : m <= n
<1>1. PICK m \in S : \A n \in S : ~(<<n, m>> \in OpToRel(<, Nat))
  BY NatLessThanWellFounded, WFMin
<1>2. \A n \in S : ~(n < m)
  BY <1>1 DEF OpToRel
<1> QED
  BY <1>2

\* So has what Deals calls the minimum.
LEMMA MinimumIs ==
  ASSUME NEW S, S \subseteq Nat, S # {}
  PROVE  Minimum(S) \in S /\ \A y \in S : Minimum(S) <= y
BY SmallestOf DEF Minimum

\* What holds at first and outlives each step holds throughout.
LEMMA StepByStep ==
  ASSUME NEW N \in Nat, NEW S, 0 \in S, \A n \in 1..N : n - 1 \in S => n \in S
  PROVE  \A n \in 0..N : n \in S
<1> DEFINE bad == {n \in 0..N : n \notin S}
<1>1. SUFFICES ASSUME bad # {} PROVE FALSE
  OBVIOUS
<1>2. bad \subseteq Nat
  OBVIOUS
<1> HIDE DEF bad
<1>3. PICK m \in bad : \A n \in bad : m <= n
  BY <1>1, <1>2, SmallestOf
<1> USE DEF bad
<1>4. m \in 0..N /\ m \notin S /\ m # 0
  BY <1>3
<1>5. m \in 1..N /\ m - 1 \in 0..N
  BY <1>4
<1>6. m - 1 \in S
  BY <1>3, <1>5
<1> QED
  BY <1>4, <1>5, <1>6

-----------------------------------------------------------------------------
(* Deals: the rows. *)

\* The latest point comes first, no point is dated before the first day, and a
\* link's points go with it.
Ordered ==
  \A l \in Link :
    /\ \A i \in 1..Len(points[l]) : points[l][i].at \in Nat /\ points[l][i].paid \in Price
    /\ \A i, j \in 1..Len(points[l]) : i <= j => points[l][j].at <= points[l][i].at
    /\ status[l] = "gone" => points[l] = <<>>

\* It is never noon: that is the hour of typed prices only.
RowsInv == TypeOK /\ Ordered /\ now % 3 # 1

\* Days, writes and windows are counted, prices and amounts are positive.
LEMMA Days ==
  /\ LastDay \in Nat /\ MaxWrites \in Nat /\ DealsWindow \in Nat /\ PriceWindow \in Nat /\ CheaperPct \in Nat
  /\ BrokenAfter \in Nat \ {0}
  /\ Price \subseteq Nat \ {0} /\ Amount \subseteq Nat \ {0}
BY DealsAssumption

\* A new point keeps its link's points in order.
LEMMA InsertedInOrder ==
  ASSUME NEW s \in Seq(Point), NEW p \in Point, NEW i \in 0..Len(s)
  PROVE  LET t == SubSeq(s, 1, i) \o <<p>> \o SubSeq(s, i + 1, Len(s))
         IN  /\ t \in Seq(Point) /\ Len(t) = Len(s) + 1
             /\ \A j \in 1..Len(t) : t[j] = IF j <= i THEN s[j] ELSE IF j = i + 1 THEN p ELSE s[j - 1]
<1> DEFINE a == SubSeq(s, 1, i)
           b == SubSeq(s, i + 1, Len(s))
           t == a \o <<p>> \o b
<1>1. /\ a \in Seq(Point) /\ Len(a) = i
      /\ \A j \in 1..i : a[j] = s[j]
  OBVIOUS
<1>2. /\ b \in Seq(Point) /\ Len(b) = Len(s) - i
      /\ \A j \in 1..(Len(s) - i) : b[j] = s[i + j]
  OBVIOUS
<1> HIDE DEF a, b
<1> DEFINE c == a \o <<p>>
<1>3. c \in Seq(Point) /\ Len(c) = i + 1 /\ c[i + 1] = p /\ \A j \in 1..i : c[j] = a[j]
  BY <1>1
<1> HIDE DEF c
<1>4. /\ c \o b \in Seq(Point) /\ Len(c \o b) = Len(s) + 1
      /\ \A j \in 1..(Len(s) + 1) : (c \o b)[j] = IF j <= i + 1 THEN c[j] ELSE b[j - (i + 1)]
  BY <1>2, <1>3
<1>5. t = c \o b
  BY DEF c
<1> HIDE DEF t
<1>6. \A j \in 1..Len(t) : t[j] = IF j <= i THEN s[j] ELSE IF j = i + 1 THEN p ELSE s[j - 1]
  <2> TAKE j \in 1..Len(t)
  <2>1. j \in 1..(Len(s) + 1) /\ t[j] = IF j <= i + 1 THEN c[j] ELSE b[j - (i + 1)]
    BY <1>4, <1>5
  <2>2. CASE j <= i
    BY <1>1, <1>3, <2>1, <2>2
  <2>3. CASE j = i + 1
    BY <1>3, <2>1, <2>3
  <2>4. CASE j > i + 1
    <3>1. j - (i + 1) \in 1..(Len(s) - i) /\ i + (j - (i + 1)) = j - 1
      BY <2>1, <2>4
    <3>2. b[j - (i + 1)] = s[i + (j - (i + 1))]
      BY <1>2, <3>1
    <3> QED
      BY <2>1, <2>4, <3>1, <3>2
  <2> QED
    BY <2>1, <2>2, <2>3, <2>4
<1> QED
  BY <1>4, <1>5, <1>6 DEF t, a, b

\* Recording keeps the points of every link in order.
LEMMA RecordedInOrder ==
  ASSUME RowsInv, NEW l \in Link, Exists(l), NEW p \in Point, p.at \in Nat, Recorded(l, p),
         UNCHANGED status
  PROVE  points' \in [Link -> Seq(Point)] /\ Ordered'
<1>1. PICK i \in 0..Len(points[l]) :
        /\ \A j \in 1..Len(points[l]) :
             IF j <= i THEN points[l][j].at >= p.at ELSE points[l][j].at <= p.at
        /\ points' = [points EXCEPT ![l] = SubSeq(@, 1, i) \o <<p>> \o SubSeq(@, i + 1, Len(@))]
  BY DEF Recorded
<1> DEFINE s == points[l]
           t == points'[l]
<1>2. s \in Seq(Point) /\ points \in [Link -> Seq(Point)]
  BY DEF RowsInv, TypeOK
<1>3. t = SubSeq(s, 1, i) \o <<p>> \o SubSeq(s, i + 1, Len(s))
  BY <1>1, <1>2
<1>4. \A m \in Link \ {l} : points'[m] = points[m]
  BY <1>1, <1>2
<1>5. /\ t \in Seq(Point) /\ Len(t) = Len(s) + 1
      /\ \A j \in 1..Len(t) : t[j] = IF j <= i THEN s[j] ELSE IF j = i + 1 THEN p ELSE s[j - 1]
  <2>1. i \in 0..Len(s) /\ p \in Point
    BY <1>1
  <2> HIDE DEF s, t
  <2> QED
    BY <1>2, <1>3, <2>1, InsertedInOrder
<1>6. points' \in [Link -> Seq(Point)]
  BY <1>1, <1>2, <1>3, <1>5
<1>7. /\ \A j \in 1..Len(s) : s[j].at \in Nat /\ s[j].paid \in Price
      /\ \A j, k \in 1..Len(s) : j <= k => s[k].at <= s[j].at
      /\ \A j \in 1..Len(s) : IF j <= i THEN s[j].at >= p.at ELSE s[j].at <= p.at
      /\ Len(s) \in Nat /\ i \in 0..Len(s) /\ p.at \in Nat /\ p.paid \in Price
  BY <1>1, <1>2 DEF RowsInv, Ordered, Point
<1> HIDE DEF s, t
<1>8. ASSUME NEW j \in 1..Len(t)
      PROVE  /\ j <= i => j \in 1..Len(s) /\ t[j] = s[j]
             /\ j = i + 1 => t[j] = p
             /\ j > i + 1 => j - 1 \in 1..Len(s) /\ t[j] = s[j - 1]
  BY <1>5, <1>7
<1>9. \A j \in 1..Len(t) : t[j].at \in Nat /\ t[j].paid \in Price
  <2> TAKE j \in 1..Len(t)
  <2>1. j <= i \/ j = i + 1 \/ j > i + 1
    BY <1>5, <1>7
  <2> QED
    BY <1>7, <1>8, <2>1
<1>11. ASSUME NEW j \in 1..Len(t), NEW k \in 1..Len(t), j <= k
       PROVE  t[k].at <= t[j].at
  <2>1. j \in Int /\ k \in Int /\ i \in Int /\ t[j].at \in Int /\ t[k].at \in Int
    BY <1>5, <1>7, <1>9
  <2>2. CASE k <= i
    BY <1>7, <1>8, <1>11, <2>1, <2>2
  <2>3. CASE j > i + 1
    <3>1. j - 1 <= k - 1 /\ k > i + 1
      BY <1>11, <2>1, <2>3
    <3> QED
      BY <1>7, <1>8, <2>3, <3>1
  <2>4. CASE j <= i /\ k = i + 1
    BY <1>7, <1>8, <2>1, <2>4
  <2>5. CASE j <= i /\ k > i + 1
    <3>1. j <= k - 1
      BY <2>1, <2>5
    <3> QED
      BY <1>7, <1>8, <2>5, <3>1
  <2>6. CASE j = i + 1 /\ k > i + 1
    <3>1. s[k - 1].at <= p.at
      <4>1. k - 1 \in 1..Len(s) /\ ~(k - 1 <= i)
        BY <1>8, <2>1, <2>6
      <4> QED
        BY <1>7, <4>1
    <3> QED
      BY <1>8, <2>6, <3>1
  <2>7. CASE j = k
    BY <2>1, <2>7
  <2> QED
    BY <1>11, <2>1, <2>2, <2>3, <2>4, <2>5, <2>6, <2>7
<1>10. status[l] # "gone" /\ status' = status
  BY DEF Exists
<1> QED
  BY <1>4, <1>6, <1>9, <1>10, <1>11 DEF Ordered, RowsInv, t

LEMMA RowsStart == ASSUME Init PROVE RowsInv
<1>1. TypeOK
  BY Days DEF Init, TypeOK, Morning, Afternoon
<1>2. Ordered
  <2>1. \A l \in Link : points[l] = <<>>
    BY DEF Init
  <2>2. 1..Len(<<>>) = {}
    OBVIOUS
  <2> QED
    BY <2>1, <2>2 DEF Ordered
<1>3. now % 3 # 1
  BY DEF Init, Morning
<1> QED
  BY <1>1, <1>2, <1>3 DEF RowsInv

LEMMA RowsStep == ASSUME RowsInv, [Next]_vars PROVE RowsInv'
<1>1. /\ now \in 0..Afternoon(LastDay) /\ now \in Nat
      /\ status \in [Link -> {"active", "inactive", "gone"}]
      /\ quantity \in [Link -> MaybeAmount]
      /\ points \in [Link -> Seq(Point)]
      /\ failures \in [Link -> 0..BrokenAfter]
      /\ writes \in 0..MaxWrites /\ MaxWrites \in Nat
      /\ Ordered /\ now % 3 # 1
  BY Days DEF RowsInv, TypeOK, Afternoon
<1>2. Writes => writes' \in 0..MaxWrites
  BY <1>1 DEF Writes
<1>3. ASSUME NEW l \in Link, NEW paid \in Price, NEW offer \in BOOLEAN, NEW stock \in BOOLEAN,
             CheckSucceeds(l, paid, offer, stock)
      PROVE  RowsInv'
  <2> DEFINE p == [at |-> now, paid |-> paid, offer |-> offer, stock |-> stock, manual |-> FALSE]
  <2>1. p \in Point /\ p.at \in Nat
    BY <1>1 DEF Point
  <2>2. Exists(l) /\ Recorded(l, p) /\ UNCHANGED <<now, status, quantity>> /\ Writes
    BY <1>3 DEF CheckSucceeds
  <2>3. points' \in [Link -> Seq(Point)] /\ Ordered'
    <3> HIDE DEF p
    <3> QED
      BY <2>1, <2>2, RecordedInOrder
  <2>4. failures' \in [Link -> 0..BrokenAfter]
    BY <1>1, <1>3, Days DEF CheckSucceeds
  <2> QED
    BY <1>1, <1>2, <2>2, <2>3, <2>4 DEF RowsInv, TypeOK
<1>4. ASSUME NEW l \in Link, NEW paid \in Price, NEW offer \in BOOLEAN,
             NEW at \in 0..Afternoon(LastDay), ManualPrice(l, paid, offer, at)
      PROVE  RowsInv'
  <2> DEFINE p == [at |-> at, paid |-> paid, offer |-> offer, stock |-> TRUE, manual |-> TRUE]
  <2>1. p \in Point /\ p.at \in Nat
    BY Days DEF Point, Afternoon
  <2>2. Exists(l) /\ Recorded(l, p) /\ UNCHANGED <<now, status, quantity, failures>> /\ Writes
    BY <1>4 DEF ManualPrice
  <2>3. points' \in [Link -> Seq(Point)] /\ Ordered'
    <3> HIDE DEF p
    <3> QED
      BY <2>1, <2>2, RecordedInOrder
  <2> QED
    BY <1>1, <1>2, <2>2, <2>3 DEF RowsInv, TypeOK
<1>5. ASSUME NEW l \in Link, CheckLost(l)
      PROVE  RowsInv'
  <2>1. failures' \in [Link -> 0..BrokenAfter]
    BY <1>1, <1>5, Days DEF CheckLost
  <2> QED
    BY <1>1, <1>2, <1>5, <2>1 DEF CheckLost, RowsInv, TypeOK, Ordered
<1>6. ASSUME NEW l \in Link, CheckFails(l)
      PROVE  RowsInv'
  <2>1. failures' \in [Link -> 0..BrokenAfter]
    BY <1>1, <1>6, Days DEF CheckFails
  <2> QED
    BY <1>1, <1>2, <1>6, <2>1 DEF CheckFails, RowsInv, TypeOK, Ordered
<1>7. ASSUME NEW l \in Link, Unlink(l)
      PROVE  RowsInv'
  <2>1. /\ failures' \in [Link -> 0..BrokenAfter]
        /\ status' \in [Link -> {"active", "inactive", "gone"}]
        /\ points' \in [Link -> Seq(Point)]
        /\ points'[l] = <<>>
        /\ \A m \in Link \ {l} : points'[m] = points[m] /\ status'[m] = status[m]
    BY <1>1, <1>7, Days DEF Unlink
  <2>3. Len(points'[l]) = 0
    BY <2>1
  <2>2. Ordered'
    BY <1>1, <2>1, <2>3 DEF Ordered
  <2> QED
    BY <1>1, <1>2, <1>7, <2>1, <2>2 DEF Unlink, RowsInv, TypeOK
<1>8. ASSUME NEW l \in Link, NEW q \in Amount, TypeAmount(l, q)
      PROVE  RowsInv'
  <2>1. quantity' \in [Link -> MaybeAmount]
    BY <1>1, <1>8 DEF TypeAmount, MaybeAmount
  <2> QED
    BY <1>1, <1>2, <1>8, <2>1 DEF TypeAmount, RowsInv, TypeOK, Ordered
<1>9. CASE Tick
  <2>1. now' \in 0..Afternoon(LastDay) /\ now' % 3 # 1
    <3> DEFINE d == now \div 3
    <3>1. /\ d \in Nat
          /\ now = 3 * d \/ now = 3 * d + 2
      BY <1>1
    <3>2. /\ now < 3 * LastDay + 2 /\ LastDay \in Nat
          /\ now' = IF now = 3 * d THEN 3 * d + 2 ELSE 3 * (d + 1)
      BY <1>9, Days DEF Tick, Morning, Afternoon, Today
    <3> HIDE DEF d
    <3>3. now' \in 0..(3 * LastDay + 2)
      BY <3>1, <3>2
    <3>4. now' % 3 # 1
      BY <3>1, <3>2
    <3> QED
      BY <3>3, <3>4 DEF Afternoon
  <2> QED
    BY <1>1, <1>9, <2>1 DEF Tick, RowsInv, TypeOK, Ordered
<1>10. CASE UNCHANGED vars
  BY <1>1, <1>10 DEF vars, RowsInv, TypeOK, Ordered
<1> QED
  BY <1>3, <1>4, <1>5, <1>6, <1>7, <1>8, <1>9, <1>10 DEF Next

LEMMA RowsAlways == Spec => []RowsInv
<1>1. Init => RowsInv
  BY RowsStart
<1>2. RowsInv /\ [Next]_vars => RowsInv'
  BY RowsStep
<1> QED
  BY <1>1, <1>2, PTL DEF Spec

\* Rows keep their types whatever checks, people and time do to them.
THEOREM DealsTypeCorrect == Spec => []TypeOK
<1>1. RowsInv => TypeOK
  BY DEF RowsInv
<1> QED
  BY <1>1, RowsAlways, PTL

-----------------------------------------------------------------------------
(* Deals: the judgement of a row. *)

\* A unit price is a number, where there is an amount.
LEMMA UnitPriceType ==
  ASSUME NEW p, p.paid \in Price, NEW q \in MaybeAmount
  PROVE  IF q = None THEN UnitPrice(p, q) = None ELSE UnitPrice(p, q) \in Nat
<1>1. CASE q = None
  BY <1>1 DEF UnitPrice
<1>2. CASE q # None
  <2>1. q \in Nat \ {0} /\ p.paid \in Nat
    BY <1>2, Days DEF MaybeAmount
  <2> DEFINE a == 2 * p.paid + q
             b == 2 * q
  <2>2. a \in Nat /\ b \in Nat \ {0}
    BY <2>1
  <2>3. UnitPrice(p, q) = a \div b
    BY <1>2 DEF UnitPrice
  <2> HIDE DEF a, b
  <2>4. a \div b \in Nat
    BY <2>2
  <2> QED
    BY <1>2, <2>3, <2>4
<1> QED
  BY <1>1, <1>2

\* A missing price equals no price.
LEMMA NoneIsNoNumber == None \notin Int
BY DealsAssumption

\* What the active links ask, and what is asked elsewhere.
LEMMA AsksType ==
  ASSUME RowsInv
  PROVE  /\ \A l \in Link : quantity[l] \in MaybeAmount
         /\ \A l \in Link : Priced(l) =>
              IF quantity[l] = None THEN Asks(l) = None ELSE Asks(l) \in Nat
         /\ \A l \in Link : Alternatives(l) \subseteq Nat
         /\ \A l \in Link : \A u \in Alternatives(l) :
              \E m \in Link \ {l} : Shelf(m) /\ Asks(m) = u
         /\ \A l \in Link : \A m \in Link \ {l} : Shelf(m) => Asks(m) \in Alternatives(l)
<1>1. \A l \in Link : quantity[l] \in MaybeAmount /\ points[l] \in Seq(Point)
  BY DEF RowsInv, TypeOK
<1>2. ASSUME NEW l \in Link, Priced(l)
      PROVE  IF quantity[l] = None THEN Asks(l) = None ELSE Asks(l) \in Nat
  <2>1. Len(points[l]) \in Nat /\ Len(points[l]) > 0 /\ Latest(l) = points[l][1]
    BY <1>1, <1>2 DEF Priced, Latest
  <2>2. Latest(l).paid \in Price
    BY <2>1 DEF RowsInv, Ordered
  <2> QED
    BY <1>1, <2>2, UnitPriceType DEF Asks
<1>3. ASSUME NEW l \in Link, NEW u \in Alternatives(l)
      PROVE  u \in Nat /\ \E m \in Link \ {l} : Shelf(m) /\ Asks(m) = u
  <2>1. PICK m \in Active \ {l} : ~Broken(m) /\ Latest(m).stock /\ u = Asks(m)
    BY DEF Alternatives
  <2>2. u # None
    BY DEF Alternatives
  <2>3. m \in Link /\ Priced(m)
    BY <2>1 DEF Active
  <2>4. quantity[m] # None /\ u \in Nat
    BY <1>2, <2>1, <2>2, <2>3
  <2> QED
    BY <2>1, <2>3, <2>4 DEF Shelf
<1>4. ASSUME NEW l \in Link, NEW m \in Link \ {l}, Shelf(m)
      PROVE  Asks(m) \in Alternatives(l)
  <2>1. m \in Active /\ ~Broken(m) /\ Latest(m).stock /\ quantity[m] # None
    BY <1>4 DEF Shelf
  <2>2. Asks(m) # None
    BY <1>2, <2>1, NoneIsNoNumber DEF Active
  <2> QED
    BY <2>1, <2>2 DEF Alternatives
<1> QED
  BY <1>1, <1>2, <1>3, <1>4

\* What the buy list names is no dearer than any shelf it could name.
LEMMA CheapestIsNamed == ASSUME RowsInv PROVE NothingCheaperElsewhere
<1> SUFFICES ASSUME NEW l \in OnOffer, NEW floor \in Floors, l \in BuyList(floor),
                    NEW m \in Link \ {l}, quantity[l] # None, Shelf(m)
             PROVE  Asks(l) <= Asks(m)
  BY DEF NothingCheaperElsewhere
<1>1. l \in Link /\ l \in OnOffer /\ Priced(l)
  BY DEF OnOffer, Active
<1>2. /\ Asks(l) \in Nat /\ Asks(l) # None
      /\ Asks(m) \in Alternatives(l) /\ Alternatives(l) \subseteq Nat
  BY <1>1, AsksType, NoneIsNoNumber
<1>3. Verdict(Asks(l), Alternatives(l)) # "worse"
  BY <1>1 DEF BuyList, CurrentDeals, Bought
<1>4. Minimum(Alternatives(l)) <= Asks(m) /\ Minimum(Alternatives(l)) \in Nat
  <2> DEFINE S == Alternatives(l)
  <2> HIDE DEF S
  <2>1. S \subseteq Nat /\ Asks(m) \in S
    BY <1>2 DEF S
  <2>2. Minimum(S) \in Nat /\ Minimum(S) <= Asks(m)
    BY <2>1, MinimumIs
  <2> QED
    BY <2>2 DEF S
<1>5. Asks(l) <= Minimum(Alternatives(l))
  BY <1>2, <1>3 DEF Verdict
<1> QED
  BY <1>2, <1>4, <1>5

\* What it leaves out is undercut by a shelf, or was by a page.
LEMMA VetoHasACause == ASSUME RowsInv PROVE LeftOutForCause
<1> SUFFICES ASSUME NEW l \in OnOffer, NEW floor \in Floors, l \notin BuyList(floor)
             PROVE  \/ \E m \in Link \ {l} : Shelf(m) /\ Asks(m) < Asks(l)
                    \/ WasCheaperOnAPage(l)
  BY DEF LeftOutForCause
<1>1. l \in Link /\ l \in OnOffer /\ Priced(l)
  BY DEF OnOffer, Active
<1>2. /\ Asks(l) # None => Asks(l) \in Nat
      /\ Alternatives(l) \subseteq Nat
  BY <1>1, AsksType, NoneIsNoNumber
<1>3. \/ Verdict(Asks(l), Alternatives(l)) = "worse"
      \/ Timing(Asks(l), floor.unit) = "poor" /\ ~floor.manual
  BY <1>1 DEF BuyList, CurrentDeals, Bought
<1>4. CASE Verdict(Asks(l), Alternatives(l)) = "worse"
  <2>1. Asks(l) # None /\ Alternatives(l) # {} /\ ~(Asks(l) <= Minimum(Alternatives(l)))
    BY <1>4 DEF Verdict
  <2>2. Minimum(Alternatives(l)) \in Alternatives(l)
    <3> DEFINE S == Alternatives(l)
    <3> HIDE DEF S
    <3>1. S \subseteq Nat /\ S # {}
      BY <1>2, <2>1 DEF S
    <3>2. Minimum(S) \in S
      BY <3>1, MinimumIs
    <3> QED
      BY <3>2 DEF S
  <2>3. PICK m \in Link \ {l} : Shelf(m) /\ Asks(m) = Minimum(Alternatives(l))
    BY <1>1, <2>2, AsksType
  <2>4. Minimum(Alternatives(l)) \in Nat
    BY <1>2, <2>2
  <2> QED
    BY <1>2, <2>1, <2>3, <2>4
<1>5. CASE Timing(Asks(l), floor.unit) = "poor" /\ ~floor.manual
  <2>1. /\ Asks(l) # None /\ floor.unit # None
        /\ (Asks(l) - floor.unit) * 100 >= CheaperPct * floor.unit
    BY <1>5 DEF Timing
  <2>2. floor # NoFloor
    BY <2>1 DEF NoFloor
  <2>3. PICK x \in Observed : floor = [unit |-> Seen(x), manual |-> At(x).manual]
    BY <2>2 DEF Floors
  <2>4. PICK m \in Link : quantity[m] # None /\
          x \in {<<m, i>> : i \in {j \in 1..Len(points[m]) : points[m][j].at >= now - PriceWindow}}
    BY DEF Observed
  <2>5. PICK i \in 1..Len(points[m]) : points[m][i].at >= now - PriceWindow /\ x = <<m, i>>
    BY <2>4
  <2>6. floor.unit = UnitPrice(points[m][i], quantity[m]) /\ ~points[m][i].manual
    BY <1>5, <2>3, <2>5 DEF Seen, At
  <2>7. Exists(m)
    <3>1. status[m] = "gone" => points[m] = <<>>
      BY DEF RowsInv, Ordered
    <3>2. 1..Len(<<>>) = {}
      OBVIOUS
    <3> QED
      BY <2>5, <3>1, <3>2 DEF Exists
  <2>8. WasCheaperOnAPage(l)
    BY <2>1, <2>4, <2>5, <2>6, <2>7 DEF WasCheaperOnAPage
  <2> QED
    BY <2>8
<1> QED
  BY <1>3, <1>4, <1>5

\* The buy list never sends anybody to a shelf when another one it could name is
\* cheaper per unit: a tie counts, and the verdict is taken against all of them.
THEOREM BuyListNamesTheCheapest == Spec => []NothingCheaperElsewhere
BY RowsAlways, CheapestIsNamed, PTL

\* A fresh offer is left out for cause: a reachable shelf is cheaper, or a price
\* on a page was, never because of an empty, broken or typed-in one.
THEOREM OffersAreLeftOutForCause == Spec => []LeftOutForCause
BY RowsAlways, VetoHasACause, PTL

-----------------------------------------------------------------------------
(* Offers: prices, and divisions half up. *)

\* So has what Offers calls it.
LEMMA LowestIs ==
  ASSUME NEW S, S \subseteq Nat, S # {}
  PROVE  Min(S) \in S /\ \A x \in S : Min(S) <= x
BY SmallestOf DEF Min

\* Numbers under a bound have a highest one among them.
LEMMA HighestIs ==
  ASSUME NEW n \in Nat, NEW S, S \subseteq 0..n, S # {}
  PROVE  Max(S) \in S /\ \A x \in S : x <= Max(S)
<1> DEFINE bounds == {c \in Nat : \A x \in S : x <= c}
<1>1. n \in bounds /\ bounds \subseteq Nat
  OBVIOUS
<1>2. PICK b \in bounds : \A c \in bounds : b <= c
  <2> HIDE DEF bounds
  <2> QED
    BY <1>1, SmallestOf
<1>3. b \in Nat /\ \A x \in S : x \in Nat /\ x <= b
  OBVIOUS
<1>4. b \in S
  <2> SUFFICES ASSUME b \notin S PROVE FALSE
    OBVIOUS
  <2>1. \A x \in S : x <= b - 1
    BY <1>3
  <2>2. b - 1 \in Nat
    <3>1. PICK x \in S : x \in Nat /\ x <= b - 1
      BY <1>3, <2>1
    <3> QED
      BY <1>3, <3>1
  <2>3. b - 1 \in bounds
    BY <2>1, <2>2
  <2> QED
    BY <1>2, <1>3, <2>3
<1> HIDE DEF bounds
<1> QED
  BY <1>3, <1>4 DEF Max

\* A division half up is off by half its divisor at most, and exact where the
\* division is.
LEMMA HalfUpIsNear ==
  ASSUME NEW total \in Nat, NEW units \in Nat \ {0}
  PROVE  /\ HalfUp(total, units) \in Nat
         /\ 2 * (HalfUp(total, units) * units - total) \in (-units)..units
<1> DEFINE a == 2 * total + units
           b == 2 * units
           q == a \div b
<1>1. a \in Nat /\ b \in Nat \ {0} /\ q \in Nat
  OBVIOUS
<1>2. q * b <= a /\ a < q * b + b
  <2> HIDE DEF a, b
  <2> QED
    BY <1>1 DEF q
<1>3. q * b = 2 * (q * units)
  BY <1>1
<1>4. q * units \in Nat
  BY <1>1
<1> HIDE DEF q
<1>5. 2 * (q * units - total) \in (-units)..units
  BY <1>2, <1>3, <1>4
<1> QED
  BY <1>1, <1>5 DEF HalfUp, q

LEMMA HalfUpIsExact ==
  ASSUME NEW k \in Nat, NEW units \in Nat \ {0}
  PROVE  HalfUp(k * units, units) = k
<1>1. 2 * (k * units) + units = k * (2 * units) + units
  OBVIOUS
<1>2. (k * (2 * units) + units) \div (2 * units) = k
  <2> DEFINE b == 2 * units
  <2>1. b \in Nat \ {0} /\ units < b /\ units \in Nat
    OBVIOUS
  <2> HIDE DEF b
  <2>2. (k * b + units) \div b = k
    BY <2>1
  <2> QED
    BY <2>2 DEF b
<1> QED
  BY <1>1, <1>2 DEF HalfUp

\* A division without a remainder is undone by the product.
LEMMA ExactDivision ==
  ASSUME NEW n \in Nat, NEW m \in Nat \ {0}, n % m = 0
  PROVE  n \div m \in Nat /\ n = (n \div m) * m
<1>1. n = m * (n \div m) + (n % m) /\ n \div m \in Nat
  OBVIOUS
<1> QED
  BY <1>1

-----------------------------------------------------------------------------
(* Offers: shelves. *)

\* Prices, weights and campaigns of a shelf are positive, and campaigns bounded.
LEMMA OnAShelf ==
  ASSUME NEW s \in Shelves
  PROVE  /\ s.ordinarie \in Nat \ {0} /\ s.weight \in Nat \ {0}
         /\ \A d \in s.campaigns :
              /\ d.units \in Nat \ {0} /\ d.total \in Nat \ {0}
              /\ d.units <= MaxUnits /\ d.total <= MaxTotal
<1>1. s.ordinarie \in Ordinarie /\ s.weight \in Weights
  BY DEF Shelves
<1>2. s.campaigns \subseteq Campaign
  BY DEF Shelves, kSubset
<1>3. MaxUnits \in Nat /\ MaxTotal \in Nat
  BY OffersAssumption
<1>4. \A d \in Campaign : /\ d.units \in Nat \ {0} /\ d.total \in Nat \ {0}
                         /\ d.units <= MaxUnits /\ d.total <= MaxTotal
  BY <1>3 DEF Campaign
<1> QED
  BY <1>1, <1>2, <1>4, OffersAssumption

\* A price that the campaigns of a shelf, bought in full, come to.
InCampaign(x, s) == \E d \in s.campaigns : Takes(d, x)

LEMMA CampaignsAreBounded ==
  ASSUME NEW s \in Shelves, NEW x \in Nat, InCampaign(x, s)
  PROVE  x <= MaxTotal + MaxUnits
<1>1. MaxTotal \in Nat /\ MaxUnits \in Nat
  BY OffersAssumption
<1>2. PICK d \in s.campaigns : Takes(d, x)
  BY DEF InCampaign
<1>3. /\ d.units \in Nat \ {0} /\ d.total \in Nat \ {0}
      /\ d.units <= MaxUnits /\ d.total <= MaxTotal
  BY OnAShelf
<1>4. x * d.units \in Nat /\ x <= x * d.units
  BY <1>3
<1>5. 2 * (x * d.units - d.total) <= d.units
  BY <1>2, <1>3, <1>4 DEF Takes
<1> QED
  BY <1>1, <1>3, <1>4, <1>5

\* Of bounded prices the highest is one, if there is any.
LEMMA HighestAmong ==
  ASSUME NEW n \in Nat, NEW S, S \subseteq 0..n
  PROVE  /\ S = {} => Highest(S) = NoPrice
         /\ S # {} => Highest(S) \in S /\ \A x \in S : x <= Highest(S)
         /\ Highest(S) \in Nat
         /\ Highest(S) # NoPrice => Highest(S) \in S
<1>1. ASSUME S # {} PROVE Max(S) \in S /\ \A x \in S : x <= Max(S)
  BY <1>1, HighestIs
<1>2. CASE S = {}
  BY <1>2 DEF Highest, NoPrice
<1>3. CASE S # {}
  <2>1. Highest(S) = Max(S)
    BY <1>3 DEF Highest
  <2>2. Max(S) \in S
    BY <1>1, <1>3
  <2>3. \A x \in 0..n : x \in Nat
    OBVIOUS
  <2>4. Max(S) \in Nat
    BY <2>2, <2>3
  <2> QED
    BY <1>1, <1>3, <2>1, <2>2, <2>4
<1> QED
  BY <1>2, <1>3

\* So is that of prices that campaigns come to.
LEMMA HighestIsOne ==
  ASSUME NEW s \in Shelves, NEW S, S \subseteq Nat, \A x \in S : InCampaign(x, s)
  PROVE  /\ S = {} => Highest(S) = NoPrice
         /\ S # {} => Highest(S) \in S /\ \A x \in S : x <= Highest(S)
         /\ Highest(S) \in Nat
         /\ Highest(S) # NoPrice => Highest(S) \in S /\ InCampaign(Highest(S), s)
<1>1. MaxTotal + MaxUnits \in Nat
  BY OffersAssumption
<1>2. S \subseteq 0..(MaxTotal + MaxUnits)
  BY <1>1, CampaignsAreBounded
<1> QED
  BY <1>1, <1>2, HighestAmong

\* What one piece costs today.
LEMMA TodayIsOnTheShelf ==
  ASSUME NEW s \in Shelves
  PROVE  /\ PieceToday(s) \in Nat \ {0} /\ PieceToday(s) <= s.ordinarie
         /\ Reduced(s) <=> PieceToday(s) < s.ordinarie
         /\ PieceToday(s) = s.ordinarie \/ InCampaign(PieceToday(s), s)
         /\ Reduced(s) <=> PieceToday(s) # s.ordinarie
         /\ Reduced(s) => InCampaign(PieceToday(s), s)
<1> DEFINE S == {s.ordinarie} \cup {d.total : d \in Singles(s)}
<1>1. s.ordinarie \in Nat \ {0} /\ \A d \in s.campaigns : d.total \in Nat \ {0} /\ d.units \in Nat \ {0}
  BY OnAShelf
<1>2. S \subseteq Nat \ {0} /\ S # {}
  BY <1>1 DEF Singles
<1>3. PieceToday(s) \in S /\ \A x \in S : PieceToday(s) <= x
  <2> HIDE DEF S
  <2>1. Min(S) \in S /\ \A x \in S : Min(S) <= x
    BY <1>2, LowestIs
  <2> QED
    BY <2>1 DEF PieceToday, S
<1>4. PieceToday(s) \in Nat \ {0} /\ PieceToday(s) <= s.ordinarie
  BY <1>2, <1>3
<1>5. ASSUME PieceToday(s) # s.ordinarie PROVE InCampaign(PieceToday(s), s)
  <2>1. PICK d \in s.campaigns : d.units = 1 /\ PieceToday(s) = d.total
    BY <1>3, <1>5 DEF Singles
  <2>2. Takes(d, PieceToday(s))
    BY <1>1, <2>1 DEF Takes
  <2> QED
    BY <2>2 DEF InCampaign
<1> QED
  BY <1>1, <1>4, <1>5 DEF Reduced

-----------------------------------------------------------------------------
(* Offers: what a store's page makes of its shelf. *)

\* Of a point and a shelf: what the properties say of the two.
PaidOn(q, s) ==
  LET paid == IF q.offer # NoPrice THEN q.offer ELSE q.price
  IN  paid = s.ordinarie \/ InCampaign(paid, s)
CutOn(q, s) ==
  q.offer # NoPrice =>
    /\ q.price = NoPrice \/ q.offer < q.price
    /\ InCampaign(q.offer, s)
    /\ q.measure # NoPrice =>
         2 * (q.measure * s.weight - q.offer) \in (-s.weight)..s.weight
StandsOn(q, s) == q.tier = "own" => q.price = s.ordinarie
Honest(q, s) == PaidOn(q, s) /\ CutOn(q, s) /\ StandsOn(q, s)

\* A cut that is no campaign.
HonestBut(q, s) ==
  /\ q.offer # NoPrice /\ q.offer < q.price /\ q.measure = NoPrice
  /\ StandsOn(q, s)

\* What may be recorded of a page: honest, a price of the shelf from another
\* article's block, or a saving per kilo.
Sound(q, g, s) ==
  \/ Honest(q, s)
  \/ PaidOn(q, s) /\ g.store = "clasohlson" /\ g.block.foreign
  \/ /\ HonestBut(q, s) /\ g.store = "ica"
     /\ \E l \in g.promotions : l.measure /\ l.saving /\ q.offer = Parsed(l, g)

\* What is published in a store's name is in that store's shape.
LEMMA PagesTellTheirStore ==
  ASSUME NEW s, NEW p \in Pages(s)
  PROVE  /\ p.store # "none"
         /\ p.store = "willys" => p \in WillysPages(s)
         /\ p.store = "ica" => p \in IcaPages(s)
         /\ p.store = "rusta" => p \in RustaPages(s)
         /\ p.store = "lyko" => p \in LykoPages(s)
         /\ p.store = "clasohlson" => p \in ClasOhlsonPages(s)
         /\ p.store = "jysk" => p \in JyskPages(s)
         /\ p.store = "blad" => p \in BladPages(s)
<1>1. p \in WillysPages(s) => p.store = "willys"
  BY DEF WillysPages
<1>2. p \in IcaPages(s) => p.store = "ica"
  BY DEF IcaPages
<1>3. p \in RustaPages(s) => p.store = "rusta"
  BY DEF RustaPages
<1>4. p \in LykoPages(s) => p.store = "lyko"
  BY DEF LykoPages
<1>5. p \in ClasOhlsonPages(s) => p.store = "clasohlson"
  BY DEF ClasOhlsonPages
<1>6. p \in JyskPages(s) => p.store = "jysk"
  BY DEF JyskPages
<1>7. p \in BladPages(s) => p.store = "blad"
  BY DEF BladPages
<1> QED
  BY <1>1, <1>2, <1>3, <1>4, <1>5, <1>6, <1>7 DEF Pages

\* An own tier that has found the ordinary price and what a campaign asks.
LEMMA FoundIsHonest ==
  ASSUME NEW s \in Shelves, NEW x, NEW q \in Found(s.ordinarie, x),
         x = NoPrice \/ (x < s.ordinarie /\ InCampaign(x, s))
  PROVE  Honest(q, s)
<1>1. /\ q.tier = "own" /\ q.price = s.ordinarie /\ q.offer = x /\ q.measure = NoPrice
  BY DEF Found
<1> QED
  BY <1>1, OnAShelf DEF Honest, PaidOn, CutOn, StandsOn

\* Today's price beside the ordinary one, where the store tells it as reduced.
LEMMA AgainstIsHonest ==
  ASSUME NEW s \in Shelves, NEW o \in Nat, NEW q \in Against(PieceToday(s), o),
         Reduced(s) => o = s.ordinarie, ~Reduced(s) => o <= s.ordinarie
  PROVE  Honest(q, s)
<1>1. CASE Reduced(s)
  <2>1. o > PieceToday(s) /\ o = s.ordinarie
    BY <1>1, OnAShelf, TodayIsOnTheShelf
  <2> QED
    BY <1>1, <2>1, FoundIsHonest, TodayIsOnTheShelf DEF Against, Reduced
<1>2. CASE ~Reduced(s)
  <2>1. PieceToday(s) = s.ordinarie /\ ~(o > PieceToday(s))
    BY <1>2, OnAShelf, TodayIsOnTheShelf
  <2>2. q \in Found(s.ordinarie, NoPrice)
    BY <2>1 DEF Against
  <2> QED
    BY <2>2, FoundIsHonest
<1> QED
  BY <1>1, <1>2

\* JSON-LD, of a page that gives one of the shelf's prices as the current one.
LEMMA JsonLdIsHonest ==
  ASSUME NEW s \in Shelves, NEW c \in {s.ordinarie, PieceToday(s)}, NEW p,
         p.jsonld \in JsonLdOf(s, c), NEW q \in JsonLd(p)
  PROVE  /\ Honest(q, s)
         /\ q = [tier |-> "jsonld", price |-> q.price, offer |-> q.offer, measure |-> NoPrice]
         /\ q.offer # NoPrice => q.price = s.ordinarie
         /\ q.price \in {s.ordinarie, c}
         /\ ~Reduced(s) => q.price = s.ordinarie /\ q.offer = NoPrice
<1>6. s.ordinarie \in Nat \ {0}
  BY OnAShelf
<1>7. /\ PieceToday(s) \in Nat \ {0} /\ PieceToday(s) <= s.ordinarie
      /\ Reduced(s) <=> PieceToday(s) # s.ordinarie
      /\ Reduced(s) => InCampaign(PieceToday(s), s)
  BY TodayIsOnTheShelf
<1>1. /\ c \in Nat \ {0} /\ s.ordinarie \in Nat \ {0}
      /\ c = s.ordinarie \/ (c < s.ordinarie /\ InCampaign(c, s) /\ Reduced(s))
  <2>1. CASE c = s.ordinarie
    BY <1>6, <2>1
  <2>2. CASE c = PieceToday(s)
    BY <1>6, <1>7, <2>2
  <2> QED
    BY <2>1, <2>2
<1>2. p.jsonld.price = c /\ p.jsonld.list \in {NoPrice} \cup When(c < s.ordinarie, {s.ordinarie})
  BY DEF JsonLdOf
<1>3. p.jsonld.list = NoPrice \/ (c < s.ordinarie /\ p.jsonld.list = s.ordinarie)
  BY <1>2 DEF When
<1>4. CASE p.jsonld.list > p.jsonld.price
  <2>1. c < s.ordinarie /\ p.jsonld.list = s.ordinarie
    BY <1>1, <1>2, <1>3, <1>4 DEF NoPrice
  <2>2. q \in {[[tier |-> "jsonld", price |-> c, offer |-> NoPrice, measure |-> NoPrice]
                  EXCEPT !.price = s.ordinarie, !.offer = c]}
    BY <1>2, <1>4, <2>1 DEF JsonLd, When
  <2>3. q = [tier |-> "jsonld", price |-> s.ordinarie, offer |-> c, measure |-> NoPrice]
    BY <2>2
  <2> QED
    BY <1>1, <2>1, <2>3 DEF Honest, PaidOn, CutOn, StandsOn, Reduced
<1>5. CASE ~(p.jsonld.list > p.jsonld.price)
  <2>1. q = [tier |-> "jsonld", price |-> c, offer |-> NoPrice, measure |-> NoPrice]
    BY <1>1, <1>2, <1>3, <1>5 DEF JsonLd, When, NoPrice
  <2> QED
    BY <1>1, <2>1 DEF Honest, PaidOn, CutOn, StandsOn, Reduced
<1> QED
  BY <1>4, <1>5

-----------------------------------------------------------------------------
(* Offers: the stores. *)

\* Willys: a promotion with a price, or the saving where nothing is sold in
\* several units, which is then that of one.
LEMMA WillysIsHonest ==
  ASSUME NEW s \in Shelves, NEW p \in WillysPages(s),
         NEW q \in Found(p.priceValue, Cut(p.priceValue, WillysOffer(p)))
  PROVE  Honest(q, s)
<1>1. s.ordinarie \in Nat \ {0} /\ \A d \in s.campaigns : d.units \in Nat \ {0} /\ d.total \in Nat \ {0}
  BY OnAShelf
<1>2. p.priceValue = s.ordinarie
  BY DEF WillysPages
<1>3. PICK priced \in SUBSET s.campaigns :
        p.promotions = {[count |-> d.units, total |-> IF d \in priced THEN d.total ELSE NoPrice]
                          : d \in s.campaigns}
  BY DEF WillysPages
<1>4. \/ p.savings = NoPrice
      \/ \E d \in s.campaigns : p.savings = d.units * s.ordinarie - d.total
  BY DEF WillysPages
<1> DEFINE known == {x \in p.promotions : x.total # NoPrice}
           S == {HalfUp(d.total, d.count) : d \in known}
<1>5. ASSUME NEW x \in known PROVE HalfUp(x.total, x.count) \in Nat /\ InCampaign(HalfUp(x.total, x.count), s)
  <2>1. PICK d \in s.campaigns : x = [count |-> d.units, total |-> IF d \in priced THEN d.total ELSE NoPrice]
    BY <1>3, <1>5
  <2>2. x.count = d.units /\ x.total = d.total
    BY <1>5, <2>1
  <2>3. HalfUp(d.total, d.units) \in Nat /\ Takes(d, HalfUp(d.total, d.units))
    BY <1>1, HalfUpIsNear DEF Takes
  <2> QED
    BY <2>2, <2>3 DEF InCampaign
<1>6. S \subseteq Nat /\ \A x \in S : InCampaign(x, s)
  BY <1>5
<1>7. PromotionOffer(p) = Highest(S)
  BY DEF PromotionOffer
<1> HIDE DEF S, known
<1>8. PromotionOffer(p) \in Nat /\ (PromotionOffer(p) # NoPrice => InCampaign(PromotionOffer(p), s))
  BY <1>6, <1>7, HighestIsOne
<1>9. WillysOffer(p) \in Int /\ (WillysOffer(p) # NoPrice => InCampaign(WillysOffer(p), s))
  <2>1. CASE PromotionOffer(p) # NoPrice
    BY <1>8, <2>1 DEF WillysOffer
  <2>2. CASE PromotionOffer(p) = NoPrice /\ p.savings > 0 /\ ~HasMultiBuy(p)
    <3>1. PICK d \in s.campaigns : p.savings = d.units * s.ordinarie - d.total
      BY <1>4, <2>2 DEF NoPrice
    <3>2. \E x \in p.promotions : x.count = d.units
      <4> DEFINE x == [count |-> d.units, total |-> IF d \in priced THEN d.total ELSE NoPrice]
      <4>1. x \in p.promotions
        BY <1>3
      <4>2. x.count = d.units
        OBVIOUS
      <4> HIDE DEF x
      <4> QED
        BY <4>1, <4>2
    <3>3. d.units = 1
      BY <1>1, <2>2, <3>2 DEF HasMultiBuy
    <3>4. s.ordinarie - p.savings = d.total
      BY <1>1, <3>1, <3>3
    <3>5. Takes(d, d.total)
      BY <1>1, <3>3 DEF Takes
    <3> QED
      BY <1>1, <1>2, <2>2, <3>4, <3>5 DEF WillysOffer, InCampaign
  <2>3. CASE PromotionOffer(p) = NoPrice /\ ~(p.savings > 0 /\ ~HasMultiBuy(p))
    BY <2>3 DEF WillysOffer, NoPrice
  <2> QED
    BY <2>1, <2>2, <2>3
<1>10. DEFINE x == Cut(s.ordinarie, WillysOffer(p))
<1>11. x = NoPrice \/ (x < s.ordinarie /\ InCampaign(x, s))
  BY <1>1, <1>9 DEF Cut, NoPrice
<1> QED
  BY <1>2, <1>11, FoundIsHonest

\* ICA: what _parse_promotion takes for a price is what the label's campaign
\* comes to, unless the label is a saving per kilo.
LEMMA ParsedIsTrue ==
  ASSUME NEW s \in Shelves, NEW p \in IcaPages(s), NEW l \in p.promotions
  PROVE  /\ Parsed(l, p) \in Nat
         /\ \/ Parsed(l, p) = NoPrice
            \/ l.measure /\ l.saving /\ Parsed(l, p) <= s.ordinarie
            \/ InCampaign(Parsed(l, p), s)
<1>1. p.price = s.ordinarie
  BY DEF IcaPages
<1>2. PICK d \in s.campaigns : l \in Labels(s, d)
  BY DEF IcaPages
<1>3. d.units \in Nat \ {0} /\ d.total \in Nat \ {0} /\ s.ordinarie \in Nat \ {0} /\ s.weight \in Nat \ {0}
  BY OnAShelf
<1>4. CASE ~l.measure
  <2>1. /\ l.units > 0 /\ l.quantity \in {NoPrice, l.units} => l.amount = d.total /\ l.units = d.units
        /\ ~(l.units > 0) /\ ~l.saving => l.amount = d.total /\ l.quantity = d.units
        /\ l.units \in Nat
    BY <1>2, <1>3, <1>4 DEF Labels, When, NoPrice
  <2>2. CASE l.units > 0 /\ l.quantity \in {NoPrice, l.units}
    <3>1. Parsed(l, p) = HalfUp(d.total, d.units)
      BY <1>4, <2>1, <2>2 DEF Parsed, MultiBuy
    <3> QED
      BY <1>3, <3>1, HalfUpIsNear DEF InCampaign, Takes
  <2>3. CASE ~(l.units > 0) /\ ~l.saving /\ l.quantity <= 1
    <3>1. d.units = 1 /\ Parsed(l, p) = d.total
      BY <1>3, <1>4, <2>1, <2>3 DEF Parsed, Single
    <3>2. Takes(d, d.total)
      BY <1>3, <3>1 DEF Takes
    <3> QED
      BY <1>3, <3>1, <3>2 DEF InCampaign
  <2>4. CASE \/ l.units > 0 /\ l.quantity \notin {NoPrice, l.units}
             \/ ~(l.units > 0) /\ ~(~l.saving /\ l.quantity <= 1)
    BY <1>4, <2>4 DEF Parsed, MultiBuy, Single, NoPrice
  <2> QED
    BY <2>2, <2>3, <2>4
<1>5. CASE l.measure /\ ~(l.units = 0 /\ l.quantity <= 1 /\ p.unitPrice.measure = "kg")
  BY <1>5 DEF Parsed, PerKilo, NoPrice
<1>6. CASE l.measure /\ l.units = 0 /\ l.quantity <= 1 /\ p.unitPrice.measure = "kg"
  <2> DEFINE v == s.ordinarie \div s.weight
             w == d.units * s.weight
             saved == d.units * s.ordinarie - d.total
  <2>1. w \in Nat \ {0} /\ saved \in Int
    BY <1>3
  <2>2. s.ordinarie % s.weight = 0 /\ p.unitPrice.amount = v
    BY <1>6 DEF IcaPages, When
  <2>3. v \in Nat \ {0} /\ s.ordinarie = v * s.weight
    <3>1. v \in Nat /\ s.ordinarie = v * s.weight
      BY <1>3, <2>2, ExactDivision
    <3> HIDE DEF v
    <3> QED
      BY <1>3, <3>1
  <2>4. Parsed(l, p) = HalfUp(l.amount * s.ordinarie, v)
    BY <1>1, <1>6, <2>2 DEF Parsed, PerKilo
  <2>5. CASE l.saving
    <3>1. saved > 0 /\ saved % w = 0 /\ l.amount = saved \div w
      BY <1>2, <1>3, <1>6, <2>5 DEF Labels, When
    <3> DEFINE a == l.amount
               x == a * s.weight
    <3>2. a \in Nat /\ saved = a * w
      <4> HIDE DEF w, saved
      <4> QED
        BY <2>1, <3>1, ExactDivision
    <3>3. x \in Nat /\ saved = x * d.units
      BY <1>3, <3>2
    <3>4. a * s.ordinarie = x * v
      <4> HIDE DEF v, w, a
      <4> QED
        BY <1>3, <2>3, <3>2
    <3>5. Parsed(l, p) = x
      <4> HIDE DEF x, v
      <4> QED
        BY <2>3, <2>4, <3>3, <3>4, HalfUpIsExact
    <3>6. x <= s.ordinarie
      <4> HIDE DEF x, v, w, a
      <4>1. x * d.units <= s.ordinarie * d.units
        BY <1>3, <3>3
      <4>2. ASSUME s.ordinarie < x PROVE FALSE
        <5>1. x * d.units = s.ordinarie * d.units + (x - s.ordinarie) * d.units
          BY <1>3, <3>3
        <5>2. (x - s.ordinarie) * d.units \in Nat \ {0} /\ s.ordinarie * d.units \in Nat
          BY <1>3, <3>3, <4>2
        <5> QED
          BY <4>1, <5>1, <5>2
      <4> QED
        BY <1>3, <3>3, <4>2
    <3> HIDE DEF x
    <3> QED
      BY <1>6, <2>5, <3>3, <3>5, <3>6
  <2>6. CASE ~l.saving
    <3>1. d.total % w = 0 /\ l.amount = d.total \div w
      BY <1>2, <1>3, <1>6, <2>6 DEF Labels, When
    <3> DEFINE a == l.amount
               x == a * s.weight
    <3>2. a \in Nat /\ d.total = a * w
      <4> HIDE DEF w
      <4>1. d.total \in Nat
        BY <1>3
      <4>2. d.total \div w \in Nat /\ d.total = (d.total \div w) * w
        BY <2>1, <3>1, <4>1, ExactDivision
      <4> QED
        BY <3>1, <4>2
    <3>3. x \in Nat /\ d.total = x * d.units
      BY <1>3, <3>2
    <3> HIDE DEF v, w, a
    <3>4. a * s.ordinarie = x * v
      BY <1>3, <2>3, <3>2
    <3>5. Parsed(l, p) = x
      <4> HIDE DEF x
      <4> QED
        BY <2>3, <2>4, <3>3, <3>4, HalfUpIsExact DEF a
    <3>6. Takes(d, x)
      <4> HIDE DEF x
      <4> QED
        BY <1>3, <3>3 DEF Takes
    <3> HIDE DEF x
    <3> QED
      BY <1>3, <3>3, <3>5, <3>6 DEF InCampaign
  <2> QED
    BY <2>5, <2>6
<1> QED
  BY <1>4, <1>5, <1>6

\* ICA: the best of the labels, where it is a cut: a campaign of the shelf or a
\* saving per kilo.
LEMMA IcaIsHonest ==
  ASSUME NEW s \in Shelves, NEW p \in IcaPages(s),
         NEW q \in IF p.found THEN Found(p.price, IcaOffer(p)) ELSE {}
  PROVE  \/ Honest(q, s)
         \/ /\ HonestBut(q, s)
            /\ \E l \in p.promotions : l.measure /\ l.saving /\ q.offer = Parsed(l, p)
<1>1. p.price = s.ordinarie /\ s.ordinarie \in Nat \ {0}
  BY OnAShelf DEF IcaPages
<1> DEFINE S == {Parsed(l, p) : l \in p.promotions}
           x == IcaOffer(p)
           n == MaxTotal + MaxUnits + s.ordinarie
<1>2. n \in Nat /\ S \subseteq 0..n
  <2>1. n \in Nat /\ MaxTotal + MaxUnits \in Nat
    BY <1>1, OffersAssumption
  <2>2. ASSUME NEW l \in p.promotions PROVE Parsed(l, p) \in 0..n
    <3>1. /\ Parsed(l, p) \in Nat
          /\ \/ Parsed(l, p) = NoPrice
             \/ Parsed(l, p) <= s.ordinarie
             \/ Parsed(l, p) <= MaxTotal + MaxUnits
      BY ParsedIsTrue, CampaignsAreBounded
    <3> QED
      BY <1>1, <2>1, <3>1 DEF NoPrice
  <2> QED
    BY <2>1, <2>2
<1>3. BestOffer(p) = Highest(S)
  BY DEF BestOffer
<1>4. BestOffer(p) \in Nat /\ (BestOffer(p) # NoPrice => BestOffer(p) \in S)
  <2> HIDE DEF S, n
  <2> QED
    BY <1>2, <1>3, HighestAmong
<1>5. x = NoPrice \/ (x < s.ordinarie /\ x = BestOffer(p) /\ x # NoPrice)
  BY <1>1, <1>4 DEF IcaOffer, Cut, NoPrice
<1>6. q \in Found(s.ordinarie, x)
  BY <1>1
<1>7. /\ q.tier = "own" /\ q.price = s.ordinarie /\ q.offer = x /\ q.measure = NoPrice
  BY <1>6 DEF Found
<1>8. CASE x = NoPrice
  BY <1>6, <1>8, FoundIsHonest
<1>9. CASE x < s.ordinarie /\ x = BestOffer(p) /\ x # NoPrice
  <2>1. PICK l \in p.promotions : x = Parsed(l, p)
    BY <1>4, <1>9
  <2>2. CASE InCampaign(x, s)
    BY <1>6, <1>9, <2>2, FoundIsHonest
  <2>3. CASE l.measure /\ l.saving
    BY <1>7, <1>9, <2>1, <2>3 DEF HonestBut, StandsOn
  <2> QED
    BY <1>9, <2>1, <2>2, <2>3, ParsedIsTrue
<1> QED
  BY <1>5, <1>8, <1>9

\* Rusta: the original price is the ordinary one, where it is above today's.
LEMMA RustaIsHonest ==
  ASSUME NEW s \in Shelves, NEW p \in RustaPages(s),
         NEW q \in IF p.found THEN Against(p.current, p.original) ELSE {}
  PROVE  Honest(q, s)
<1>1. /\ p.current = PieceToday(s)
      /\ p.original \in {s.ordinarie} \cup When(~Reduced(s), {NoPrice})
  BY DEF RustaPages
<1>2. /\ p.original \in Nat /\ (Reduced(s) => p.original = s.ordinarie)
      /\ ~Reduced(s) => p.original <= s.ordinarie
  BY <1>1, OnAShelf DEF When, NoPrice
<1> QED
  BY <1>1, <1>2, AgainstIsHonest

\* Lyko: of the prices to compare with only the store's own are looked at.
LEMMA LykoIsHonest ==
  ASSUME NEW s \in Shelves, NEW p \in LykoPages(s),
         NEW q \in IF p.found THEN Against(p.current, LykoOrdinarie(p)) ELSE {}
  PROVE  Honest(q, s)
<1>1. s.ordinarie \in Nat \ {0}
  BY OnAShelf
<1>2. p.current = PieceToday(s)
  BY DEF LykoPages
<1> DEFINE own == [type : {"ordinary", "withoutcampaign"}, value : {s.ordinarie}]
           others == [type : {"recommended", "packagecontentsum"}, value : Ordinarie]
           charged == {x \in p.comparisonPrices : x.type \in {"ordinary", "withoutcampaign"}}
           owns == IF Reduced(s) THEN (SUBSET own) \ {{}} ELSE {{}}
<1>3. PICK o \in owns, r \in SUBSET others : p.comparisonPrices = o \cup r
  <2>1. p.comparisonPrices \in {o \cup r : o \in owns, r \in SUBSET others}
    BY DEF LykoPages
  <2> HIDE DEF owns, others
  <2> QED
    BY <2>1
<1>8. o \subseteq own /\ r \subseteq others
  <2> HIDE DEF own, others
  <2> QED
    OBVIOUS
<1>9. (Reduced(s) => o # {}) /\ (~Reduced(s) => o = {})
  <2> HIDE DEF own
  <2> QED
    OBVIOUS
<1> HIDE DEF owns
<1>4. charged = o
  <2>1. \A x \in r : x.type \notin {"ordinary", "withoutcampaign"}
    BY <1>8
  <2>2. \A x \in o : x.type \in {"ordinary", "withoutcampaign"}
    BY <1>8
  <2> QED
    BY <1>3, <2>1, <2>2
<1>5. Charged(p) = {c.value : c \in o}
  BY <1>4 DEF Charged
<1>6. CASE Reduced(s)
  <2>5. \A c \in o : c.value = s.ordinarie
    BY <1>8
  <2>1. Charged(p) = {s.ordinarie}
    <3> HIDE DEF own
    <3> QED
      BY <1>5, <1>6, <1>9, <2>5
  <2>2. s.ordinarie > p.current
    BY <1>1, <1>2, <1>6, TodayIsOnTheShelf
  <2>3. {v \in Charged(p) : v > p.current} = {s.ordinarie}
    BY <2>1, <2>2
  <2>4. Min({s.ordinarie}) = s.ordinarie
    BY <1>1, LowestIs
  <2> QED
    BY <1>1, <1>2, <1>6, <2>3, <2>4, AgainstIsHonest DEF LykoOrdinarie
<1>7. CASE ~Reduced(s)
  <2>1. Charged(p) = {}
    BY <1>5, <1>7, <1>9
  <2>2. LykoOrdinarie(p) = NoPrice
    BY <2>1 DEF LykoOrdinarie
  <2> QED
    BY <1>1, <1>2, <1>7, <2>2, AgainstIsHonest DEF NoPrice
<1> QED
  BY <1>6, <1>7

\* A foreign block tells one of the article's prices at least, or it is refused.
LEMMA ClasOhlsonIsHonest ==
  ASSUME NEW s \in Shelves, NEW p \in ClasOhlsonPages(s), BlockAgrees(p), NEW q \in Block(p)
  PROVE  PaidOn(q, s) /\ (~p.block.foreign => Honest(q, s))
<1> DEFINE t == PieceToday(s)
<1>1. s.ordinarie \in Nat \ {0}
  BY OnAShelf
<1>2. p.jsonld \in JsonLdOf(s, t)
  BY DEF ClasOhlsonPages
<1>3. /\ p.block.old \in Nat
      /\ ~p.block.foreign =>
           /\ p.block.current = t
           /\ p.block.old = IF Reduced(s) THEN s.ordinarie ELSE NoPrice
  <2>1. p.block \in {[current |-> t, foreign |-> FALSE,
                      old |-> IF Reduced(s) THEN s.ordinarie ELSE NoPrice]}
                    \cup [current : Prices, foreign : {TRUE}, old : {NoPrice} \cup Ordinarie]
    BY DEF ClasOhlsonPages
  <2> HIDE DEF t
  <2>2. CASE p.block = [current |-> t, foreign |-> FALSE,
                        old |-> IF Reduced(s) THEN s.ordinarie ELSE NoPrice]
    BY <1>1, <2>2 DEF NoPrice
  <2>3. CASE p.block \in [current : Prices, foreign : {TRUE}, old : {NoPrice} \cup Ordinarie]
    <3>3. p.block.foreign \in {TRUE}
      BY <2>3
    <3>1. p.block.old \in {NoPrice} \cup Ordinarie
      BY <2>3
    <3>2. p.block.old \in Nat
      BY <3>1, OffersAssumption DEF NoPrice
    <3> QED
      BY <3>2, <3>3, Zenon
  <2> QED
    BY <2>1, <2>2, <2>3
<1>4. PICK base \in JsonLd(p) : TRUE
  <2>1. p.jsonld.price = t /\ t # NoPrice
    BY <1>2, TodayIsOnTheShelf DEF JsonLdOf, NoPrice
  <2> QED
    BY <2>1 DEF JsonLd, When
<1>5. \A b \in JsonLd(p) :
        /\ Honest(b, s) /\ b.price \in {s.ordinarie, t} /\ p.block.current = b.price
        /\ ~Reduced(s) => b.price = s.ordinarie /\ b.offer = NoPrice
  BY <1>2, JsonLdIsHonest DEF BlockAgrees
<1>6. p.block.current \in {s.ordinarie, t}
  BY <1>4, <1>5
<1>7. t \in Nat \ {0} /\ t <= s.ordinarie /\ (t = s.ordinarie \/ InCampaign(t, s))
      /\ (Reduced(s) <=> t < s.ordinarie)
  BY TodayIsOnTheShelf
<1> HIDE DEF t
<1>8. CASE p.block.old > p.block.current
  <2>1. q \in Found(p.block.old, p.block.current)
    BY <1>8 DEF Block, Against
  <2>2. q.tier = "own" /\ q.price = p.block.old /\ q.offer = p.block.current /\ q.measure = NoPrice
    BY <2>1 DEF Found
  <2>3. PaidOn(q, s)
    BY <1>1, <1>6, <1>7, <2>2 DEF PaidOn, NoPrice
  <2>4. ASSUME ~p.block.foreign PROVE Honest(q, s)
    <3>1. p.block.current = t /\ t < s.ordinarie /\ p.block.old = s.ordinarie
      BY <1>1, <1>3, <1>7, <1>8, <2>4 DEF NoPrice
    <3> QED
      BY <1>7, <2>1, <3>1, FoundIsHonest
  <2> QED
    BY <2>3, <2>4
<1>9. CASE ~(p.block.old > p.block.current)
  <2>1. PICK b \in JsonLd(p) : q = [b EXCEPT !.tier = "own"]
    BY <1>9 DEF Block
  <2>2. b.price = p.block.current /\ Honest(b, s)
    BY <1>5
  <2>3. b = [tier |-> "jsonld", price |-> b.price, offer |-> b.offer, measure |-> NoPrice]
    BY <1>2, JsonLdIsHonest DEF t
  <2>4. q.tier = "own" /\ q.price = b.price /\ q.offer = b.offer /\ q.measure = NoPrice
    BY <2>1, <2>3
  <2>5. PaidOn(q, s)
    BY <2>2, <2>4 DEF Honest, PaidOn
  <2>6. ASSUME ~p.block.foreign PROVE Honest(q, s)
    <3>1. ~Reduced(s)
      BY <1>1, <1>3, <1>7, <1>9, <2>6
    <3>2. b.price = s.ordinarie /\ b.offer = NoPrice
      BY <1>5, <3>1
    <3> QED
      BY <2>4, <2>5, <3>2 DEF Honest, CutOn, StandsOn
  <2> QED
    BY <2>5, <2>6
<1> QED
  BY <1>8, <1>9

\* JYSK: the variant that is the article's own, beside the struck-through price.
LEMMA JyskIsHonest ==
  ASSUME NEW s \in Shelves, NEW p \in JyskPages(s), Identified(p), NEW q \in JyskPoint(p)
  PROVE  Honest(q, s)
<1> DEFINE t == PieceToday(s)
           S == {o \in JyskOffers(p) : o < s.ordinarie}
<1>1. s.ordinarie \in Nat \ {0} /\ \A d \in s.campaigns : d.units \in Nat \ {0} /\ d.total \in Nat \ {0}
  BY OnAShelf
<1>2. p.variant.price = t
  <2>1. p.variant.anchored => p.variant.price = t
    <3>1. p.variant \in {[anchored |-> TRUE, price |-> t]} \cup [anchored : {FALSE}, price : Prices]
      BY DEF JyskPages
    <3> HIDE DEF t
    <3>2. p.variant.anchored \in {FALSE} \/ p.variant.price = t
      <4>1. CASE p.variant = [anchored |-> TRUE, price |-> t]
        BY <4>1
      <4>2. CASE p.variant \in [anchored : {FALSE}, price : Prices]
        BY <4>2
      <4> QED
        BY <3>1, <4>1, <4>2
    <3> QED
      BY <3>2, Zenon
  <2>2. p.printed \in {NoPrice, t}
    BY DEF JyskPages
  <2> QED
    BY <2>1, <2>2 DEF Identified
<1>3. p.ordinarie = IF Reduced(s) THEN s.ordinarie ELSE NoPrice
  BY DEF JyskPages
<1>4. p.headline.units = 0 \/ p.headline \in s.campaigns
  BY DEF JyskPages, Multis
<1>5. /\ t \in Nat \ {0} /\ t <= s.ordinarie /\ (Reduced(s) <=> t < s.ordinarie)
      /\ Reduced(s) => InCampaign(t, s)
  BY TodayIsOnTheShelf
<1> HIDE DEF t
<1>6. Max({p.variant.price, p.ordinarie}) = s.ordinarie
  <2> DEFINE S0 == {p.variant.price, p.ordinarie}
  <2>1. S0 \subseteq 0..s.ordinarie /\ s.ordinarie \in S0 /\ S0 # {}
    <3>1. CASE Reduced(s)
      BY <1>1, <1>2, <1>3, <1>5, <3>1
    <3>2. CASE ~Reduced(s)
      BY <1>1, <1>2, <1>3, <1>5, <3>2 DEF NoPrice
    <3> QED
      BY <3>1, <3>2
  <2> HIDE DEF S0
  <2>2. Max(S0) \in S0 /\ \A x \in S0 : x <= Max(S0)
    BY <1>1, <2>1, HighestIs
  <2>3. Max(S0) \in 0..s.ordinarie
    BY <2>1, <2>2
  <2>4. s.ordinarie <= Max(S0)
    BY <2>1, <2>2
  <2>5. Max(S0) = s.ordinarie
    BY <1>1, <2>3, <2>4
  <2> QED
    BY <2>5 DEF S0
<1>7. ASSUME NEW x \in JyskOffers(p) PROVE x \in Nat /\ InCampaign(x, s)
  <2>1. CASE x = t /\ p.ordinarie > t
    <3>1. Reduced(s)
      BY <1>3, <1>5, <2>1 DEF NoPrice
    <3> QED
      BY <1>5, <2>1, <3>1
  <2>2. CASE p.headline.units > 0 /\ x = HalfUp(p.headline.total, p.headline.units)
    <3>1. p.headline \in s.campaigns
      BY <1>4, <2>2
    <3>2. p.headline.units \in Nat \ {0} /\ p.headline.total \in Nat
      BY <1>1, <3>1
    <3>3. x \in Nat /\ Takes(p.headline, x)
      BY <2>2, <3>2, HalfUpIsNear DEF Takes
    <3> QED
      BY <3>1, <3>3 DEF InCampaign
  <2> QED
    BY <1>2, <2>1, <2>2 DEF JyskOffers, When
<1>8. S \subseteq Nat /\ \A x \in S : InCampaign(x, s) /\ x < s.ordinarie
  BY <1>7
<1>9. q \in Found(s.ordinarie, Highest(S))
  BY <1>6 DEF JyskPoint
<1> HIDE DEF S
<1>10. Highest(S) = NoPrice \/ (Highest(S) < s.ordinarie /\ InCampaign(Highest(S), s))
  BY <1>8, HighestIsOne
<1> QED
  BY <1>9, <1>10, FoundIsHonest

\* The butiksblad: both prices shown are those of one promotion.
LEMMA BladIsHonest ==
  ASSUME NEW s \in Shelves, NEW p \in BladPages(s), NEW q \in BladOffers(p)
  PROVE  Honest(q, s)
<1>1. PICK x \in p.promotions :
        /\ x.price # NoPrice
        /\ p.ordinarie = NoPrice \/ x.price < p.ordinarie
        /\ q = [tier |-> "blad", price |-> p.ordinarie, offer |-> x.price, measure |-> PerMeasure(x, p)]
  BY DEF BladOffers
<1>2. q.tier = "blad" /\ q.price = p.ordinarie /\ q.offer = x.price /\ q.measure = PerMeasure(x, p)
  BY <1>1
<1>3. PICK d \in s.campaigns :
        /\ x.price \in {NoPrice, HalfUp(d.total, d.units)}
        /\ x.measure \in {NoPrice} \cup
             When(d.total % (d.units * s.weight) = 0, {d.total \div (d.units * s.weight)})
  <2> DEFINE Worth(d) == When(d.total % (d.units * s.weight) = 0, {d.total \div (d.units * s.weight)})
             Offered(d) == [price : {NoPrice, HalfUp(d.total, d.units)}, measure : {NoPrice} \cup Worth(d)]
             Printed == {f \in [s.campaigns -> UNION {Offered(d) : d \in s.campaigns}] :
                           \A d \in s.campaigns : f[d] \in Offered(d)}
  <2>1. p.promotions \in {{f[d] : d \in s.campaigns} : f \in Printed}
    BY DEF BladPages
  <2>2. PICK f \in Printed : p.promotions = {f[d] : d \in s.campaigns}
    BY <2>1
  <2>3. PICK d \in s.campaigns : x = f[d]
    BY <2>2
  <2>4. x \in Offered(d)
    BY <2>2, <2>3
  <2> QED
    BY <2>4
<1>4. d.units \in Nat \ {0} /\ d.total \in Nat \ {0} /\ s.weight \in Nat \ {0}
  BY OnAShelf
<1>5. x.price = HalfUp(d.total, d.units) /\ x.price \in Nat /\ Takes(d, x.price)
  BY <1>1, <1>3, <1>4, HalfUpIsNear DEF Takes
<1>6. p.package \in {NoPrice, s.weight}
  BY DEF BladPages
<1>7. q.measure # NoPrice => 2 * (q.measure * s.weight - q.offer) \in (-s.weight)..s.weight
  <2>1. CASE x.measure # NoPrice
    <3> DEFINE m == d.total \div (d.units * s.weight)
    <3>1. d.total % (d.units * s.weight) = 0 /\ x.measure = m
      BY <1>3, <2>1 DEF When
    <3>2. d.units * s.weight \in Nat \ {0}
      BY <1>4
    <3>3. m \in Nat /\ d.total = m * (d.units * s.weight)
      BY <1>4, <3>1, <3>2, ExactDivision
    <3> HIDE DEF m
    <3>4. m * s.weight \in Nat /\ d.total = (m * s.weight) * d.units
      BY <1>4, <3>3
    <3>5. x.price = m * s.weight
      BY <1>4, <1>5, <3>4, HalfUpIsExact
    <3>6. q.measure = m /\ q.offer = m * s.weight
      BY <1>2, <2>1, <3>1, <3>5 DEF PerMeasure
    <3> QED
      BY <1>4, <3>4, <3>6
  <2>2. CASE x.measure = NoPrice /\ p.package # NoPrice
    <3>1. q.measure = HalfUp(x.price, s.weight)
      BY <1>2, <1>6, <2>2 DEF PerMeasure
    <3> QED
      BY <1>2, <1>4, <1>5, <3>1, HalfUpIsNear
  <2>3. CASE x.measure = NoPrice /\ p.package = NoPrice
    BY <1>2, <2>3 DEF PerMeasure
  <2> QED
    BY <2>1, <2>2, <2>3
<1> QED
  BY <1>1, <1>2, <1>5, <1>7 DEF Honest, PaidOn, CutOn, StandsOn, InCampaign

-----------------------------------------------------------------------------
(* Offers: the day. *)

\* Nothing is recorded of a closed shop; of an open one what is recorded is sound.
OffersInv ==
  /\ IF page = NoPage THEN shelf = Closed /\ point = NoPoint
     ELSE shelf \in Shelves /\ page \in Pages(shelf)
  /\ point # NoPoint => Sound(point, page, shelf)

\* A store's answer, from its own tier or from JSON-LD.
LEMMA RecordsHonestly ==
  ASSUME OffersInv, NEW store, NEW own, Records(store, own), store # "none",
         \A q \in own : Sound(q, page, shelf),
         own = {} => \E c \in {shelf.ordinarie, PieceToday(shelf)} :
                       page.jsonld \in JsonLdOf(shelf, c) \/ page.jsonld = [price |-> NoPrice, list |-> NoPrice]
  PROVE  OffersInv'
<1>1. page # NoPage /\ shelf \in Shelves /\ page \in Pages(shelf)
  BY DEF OffersInv, Records, NoPage
<1>2. UNCHANGED <<shelf, page>> /\ point' \in (IF own # {} THEN own ELSE JsonLd(page))
  BY DEF Records
<1>3. Sound(point', page, shelf)
  <2>1. CASE own # {}
    BY <1>2, <2>1
  <2>2. CASE own = {}
    <3>1. PICK c \in {shelf.ordinarie, PieceToday(shelf)} :
            page.jsonld \in JsonLdOf(shelf, c) \/ page.jsonld = [price |-> NoPrice, list |-> NoPrice]
      BY <2>2
    <3>2. point' \in JsonLd(page)
      BY <1>2, <2>2
    <3>3. page.jsonld \in JsonLdOf(shelf, c)
      BY <3>1, <3>2 DEF JsonLd, When
    <3> QED
      BY <1>1, <3>2, <3>3, JsonLdIsHonest DEF Sound
  <2> QED
    BY <2>1, <2>2
<1> QED
  BY <1>1, <1>2, <1>3 DEF OffersInv

LEMMA OffersStart == OffersInit => OffersInv
BY DEF OffersInit, OffersInv

\* No store's page is taken for another's.
LEMMA OnItsPage ==
  ASSUME OffersInv, page.store # "none"
  PROVE  /\ shelf \in Shelves
         /\ page.store = "willys" => page \in WillysPages(shelf)
         /\ page.store = "ica" => page \in IcaPages(shelf)
         /\ page.store = "rusta" => page \in RustaPages(shelf)
         /\ page.store = "lyko" => page \in LykoPages(shelf)
         /\ page.store = "clasohlson" => page \in ClasOhlsonPages(shelf)
         /\ page.store = "jysk" => page \in JyskPages(shelf)
         /\ page.store = "blad" => page \in BladPages(shelf)
<1>1. page # NoPage
  BY DEF NoPage
<1>2. shelf \in Shelves /\ page \in Pages(shelf)
  BY <1>1 DEF OffersInv
<1> QED
  BY <1>2, PagesTellTheirStore

LEMMA OffersStep == OffersInv /\ [OffersNext]_offersVars => OffersInv'
<1> SUFFICES ASSUME OffersInv, [OffersNext]_offersVars PROVE OffersInv'
  OBVIOUS
<1>1. CASE Opens
  <2>1. shelf' \in Shelves /\ page' \in Pages(shelf') /\ point' = NoPoint
    BY <1>1 DEF Opens, OffersInv
  <2>2. page'.store # "none"
    BY <2>1, PagesTellTheirStore
  <2>3. page' # NoPage
    BY <2>2 DEF NoPage
  <2> QED
    BY <2>1, <2>3 DEF OffersInv
<1>2. CASE Closes
  BY <1>2 DEF Closes, OffersInv
<1>3. CASE Willys
  <2> DEFINE own == Found(page.priceValue, Cut(page.priceValue, WillysOffer(page)))
  <2>1. page.store = "willys" /\ Records("willys", own)
    BY <1>3 DEF Willys, Records
  <2>2. shelf \in Shelves /\ page \in WillysPages(shelf)
    BY <2>1, OnItsPage
  <2>3. \A q \in own : Honest(q, shelf)
    BY <2>2, WillysIsHonest
  <2>4. own # {}
    BY DEF Found
  <2> HIDE DEF own
  <2> QED
    BY <2>1, <2>3, <2>4, RecordsHonestly DEF Sound
<1>4. CASE Ica
  <2> DEFINE own == IF page.found THEN Found(page.price, IcaOffer(page)) ELSE {}
  <2>1. page.store = "ica" /\ Records("ica", own)
    BY <1>4 DEF Ica, Records
  <2>2. shelf \in Shelves /\ page \in IcaPages(shelf)
    BY <2>1, OnItsPage
  <2>3. \A q \in own : Sound(q, page, shelf)
    BY <2>1, <2>2, IcaIsHonest DEF Sound
  <2>4. page.jsonld \in JsonLdOf(shelf, shelf.ordinarie)
    BY <2>2 DEF IcaPages
  <2> HIDE DEF own
  <2> QED
    BY <2>1, <2>3, <2>4, RecordsHonestly
<1>5. CASE Rusta
  <2> DEFINE own == IF page.found THEN Against(page.current, page.original) ELSE {}
  <2>1. page.store = "rusta" /\ Records("rusta", own)
    BY <1>5 DEF Rusta, Records
  <2>2. shelf \in Shelves /\ page \in RustaPages(shelf)
    BY <2>1, OnItsPage
  <2>3. \A q \in own : Honest(q, shelf)
    BY <2>2, RustaIsHonest
  <2>4. page.jsonld \in JsonLdOf(shelf, PieceToday(shelf))
    BY <2>2 DEF RustaPages
  <2> HIDE DEF own
  <2> QED
    BY <2>1, <2>3, <2>4, RecordsHonestly DEF Sound
<1>6. CASE Lyko
  <2> DEFINE own == IF page.found THEN Against(page.current, LykoOrdinarie(page)) ELSE {}
  <2>1. page.store = "lyko" /\ Records("lyko", own)
    BY <1>6 DEF Lyko, Records
  <2>2. shelf \in Shelves /\ page \in LykoPages(shelf)
    BY <2>1, OnItsPage
  <2>3. \A q \in own : Honest(q, shelf)
    BY <2>2, LykoIsHonest
  <2>4. page.jsonld \in JsonLdOf(shelf, PieceToday(shelf))
    BY <2>2 DEF LykoPages
  <2> HIDE DEF own
  <2> QED
    BY <2>1, <2>3, <2>4, RecordsHonestly DEF Sound
<1>7. CASE ClasOhlson
  <2> DEFINE own == IF BlockAgrees(page) /\ (page.block.old # NoPrice \/ page.comparison)
                    THEN Block(page) ELSE {}
  <2>1. page.store = "clasohlson" /\ Records("clasohlson", own)
    BY <1>7 DEF ClasOhlson, Records
  <2>2. shelf \in Shelves /\ page \in ClasOhlsonPages(shelf)
    BY <2>1, OnItsPage
  <2>3. \A q \in own : Sound(q, page, shelf)
    BY <2>1, <2>2, ClasOhlsonIsHonest DEF Sound
  <2>4. page.jsonld \in JsonLdOf(shelf, PieceToday(shelf))
    BY <2>2 DEF ClasOhlsonPages
  <2> HIDE DEF own
  <2> QED
    BY <2>1, <2>3, <2>4, RecordsHonestly
<1>8. CASE Jysk
  <2> DEFINE own == IF Identified(page) THEN JyskPoint(page) ELSE {}
  <2>1. page.store = "jysk" /\ Records("jysk", own)
    BY <1>8 DEF Jysk, Records
  <2>2. shelf \in Shelves /\ page \in JyskPages(shelf)
    BY <2>1, OnItsPage
  <2>3. \A q \in own : Honest(q, shelf)
    BY <2>2, JyskIsHonest
  <2>4. \/ page.jsonld \in JsonLdOf(shelf, PieceToday(shelf))
        \/ page.jsonld = [price |-> NoPrice, list |-> NoPrice]
    BY <2>2 DEF JyskPages
  <2> HIDE DEF own
  <2> QED
    BY <2>1, <2>3, <2>4, RecordsHonestly DEF Sound
<1>9. CASE Blad
  <2>3. page.store = "blad"
    BY <1>9 DEF Blad
  <2>4. shelf \in Shelves /\ page \in BladPages(shelf)
    BY <2>3, OnItsPage
  <2>1. shelf \in Shelves /\ page \in BladPages(shelf) /\ page # NoPage /\ page \in Pages(shelf)
    BY <2>3, <2>4 DEF NoPage, Pages
  <2>2. Honest(point', shelf) /\ UNCHANGED <<shelf, page>>
    <3>1. point' \in BladOffers(page) /\ UNCHANGED <<shelf, page>>
      BY <1>9 DEF Blad
    <3> QED
      BY <2>1, <3>1, BladIsHonest
  <2> QED
    BY <2>1, <2>2 DEF OffersInv, Sound
<1>10. CASE UNCHANGED offersVars
  BY <1>10 DEF offersVars, OffersInv
<1> QED
  BY <1>1, <1>2, <1>3, <1>4, <1>5, <1>6, <1>7, <1>8, <1>9, <1>10 DEF OffersNext

LEMMA OffersAlways == OffersSpec => []OffersInv
<1> QED
  BY OffersStart, OffersStep, PTL DEF OffersSpec

LEMMA WhatHonestyIs ==
  OffersInv => PaidIsOnTheShelf /\ OffersAreCuts /\ OrdinarieStands
<1> SUFFICES ASSUME OffersInv, point # NoPoint
             PROVE  PaidIsOnTheShelf /\ OffersAreCuts /\ OrdinarieStands
  BY DEF PaidIsOnTheShelf, OffersAreCuts, OrdinarieStands
<1>1. CASE Honest(point, shelf)
  BY <1>1 DEF PaidOn, CutOn, StandsOn, Honest, InCampaign, PaidIsOnTheShelf, OffersAreCuts,
     OrdinarieStands
<1>2. CASE PaidOn(point, shelf) /\ Mistaken
  BY <1>2 DEF PaidOn, InCampaign, PaidIsOnTheShelf, OffersAreCuts, OrdinarieStands
<1>3. CASE HonestBut(point, shelf) /\ SavingTakenForPrice
  BY <1>3 DEF HonestBut, StandsOn, PaidIsOnTheShelf, OffersAreCuts, OrdinarieStands
<1> QED
  BY <1>1, <1>2, <1>3 DEF OffersInv, Sound, Mistaken, SavingTakenForPrice

\* What a point says one pays is what the shelf takes, ordinarily or in one of
\* its campaigns, whichever of the extractors has answered; but for ICA's
\* _parse_promotion, which takes a saving per kilo for a price per kilo.
THEOREM PaidPricesAreOnTheShelf == OffersSpec => []PaidIsOnTheShelf
<1> QED
  BY OffersAlways, WhatHonestyIs, PTL

\* An offer is cheaper than what it is set against, and a campaign of the shelf
\* unless ICA's _parse_promotion has made it of a saving per kilo; the price per
\* measure beside it is that of the same campaign.
THEOREM OffersAreRealCuts == OffersSpec => []OffersAreCuts
<1> QED
  BY OffersAlways, WhatHonestyIs, PTL

\* As long as a store's own tier answers, the regular price is the store's own.
THEOREM RegularPricesStand == OffersSpec => []OrdinarieStands
<1> QED
  BY OffersAlways, WhatHonestyIs, PTL

-----------------------------------------------------------------------------
(* Stats: the looks and their order. *)

\* What a look at a link is.
LEMMA LooksAre ==
  ASSUME RowsInv, NEW L \in SUBSET Link
  PROVE  /\ \A x \in Looks(L) :
              /\ x.link \in L /\ x.nr \in 1..Len(points[x.link])
              /\ x = [link |-> x.link, nr |-> x.nr, at |-> points[x.link][x.nr].at,
                      offer |-> points[x.link][x.nr].offer,
                      unit |-> Unit(x.link, points[x.link][x.nr])]
              /\ x.at \in Nat /\ x.offer \in BOOLEAN /\ x.unit \in Nat \cup {None}
              /\ x.unit = None <=> quantity[x.link] = None
         /\ \A l \in L : \A i \in 1..Len(points[l]) :
              [link |-> l, nr |-> i, at |-> points[l][i].at, offer |-> points[l][i].offer,
               unit |-> Unit(l, points[l][i])] \in Looks(L)
<1>1. \A l \in Link : points[l] \in Seq(Point) /\ quantity[l] \in MaybeAmount
  BY DEF RowsInv, TypeOK
<1>2. ASSUME NEW l \in Link, NEW i \in 1..Len(points[l])
      PROVE  /\ points[l][i].at \in Nat /\ points[l][i].offer \in BOOLEAN
             /\ Unit(l, points[l][i]) \in Nat \cup {None}
             /\ Unit(l, points[l][i]) = None <=> quantity[l] = None
  <2>1. points[l][i].at \in Nat /\ points[l][i].paid \in Price
    BY DEF RowsInv, Ordered
  <2>2. points[l][i] \in Point
    BY <1>1
  <2>3. points[l][i].offer \in BOOLEAN
    BY <2>2 DEF Point
  <2>4. CASE quantity[l] = None
    BY <2>1, <2>3, <2>4 DEF Unit
  <2>5. CASE quantity[l] # None
    <3>1. quantity[l] \in Nat \ {0} /\ points[l][i].paid \in Nat /\ Scale \in Nat
      BY <1>1, <2>1, <2>5, Days, StatsAssumption DEF MaybeAmount
    <3>2. Scale \div quantity[l] \in Nat
      BY <3>1
    <3> DEFINE k == Scale \div quantity[l]
               q == points[l][i].paid
    <3> HIDE DEF k, q
    <3>3. k \in Nat /\ q \in Nat
      BY <3>1, <3>2 DEF k, q
    <3>4. q * k \in Nat
      BY <3>3
    <3>5. Unit(l, points[l][i]) = q * k
      BY <2>5 DEF Unit, k, q
    <3> QED
      BY <2>1, <2>3, <2>5, <3>4, <3>5, NoneIsNoNumber
  <2> QED
    BY <2>4, <2>5
<1>3. ASSUME NEW x \in Looks(L)
      PROVE  /\ x.link \in L /\ x.nr \in 1..Len(points[x.link])
             /\ x = [link |-> x.link, nr |-> x.nr, at |-> points[x.link][x.nr].at,
                     offer |-> points[x.link][x.nr].offer,
                     unit |-> Unit(x.link, points[x.link][x.nr])]
             /\ x.at = points[x.link][x.nr].at /\ x.offer = points[x.link][x.nr].offer
             /\ x.unit = Unit(x.link, points[x.link][x.nr])
  <2>1. PICK l \in L : \E i \in 1..Len(points[l]) :
          x = [link |-> l, nr |-> i, at |-> points[l][i].at, offer |-> points[l][i].offer,
               unit |-> Unit(l, points[l][i])]
    BY DEF Looks
  <2> QED
    BY <2>1
<1>4. \A l \in L : \A i \in 1..Len(points[l]) :
        [link |-> l, nr |-> i, at |-> points[l][i].at, offer |-> points[l][i].offer,
         unit |-> Unit(l, points[l][i])] \in Looks(L)
  BY DEF Looks
<1> QED
  BY <1>2, <1>3, <1>4

\* There are finitely many.
LEMMA LooksAreFinite == ASSUME RowsInv PROVE IsFiniteSet(Looks(Link))
<1> DEFINE row(l, i) == [link |-> l, nr |-> i, at |-> points[l][i].at,
                         offer |-> points[l][i].offer, unit |-> Unit(l, points[l][i])]
           of(l) == {row(l, i) : i \in 1..Len(points[l])}
           sets == {of(l) : l \in Link}
<1>1. ASSUME NEW l \in Link PROVE IsFiniteSet(of(l))
  <2> DEFINE f == [i \in 1..Len(points[l]) |-> row(l, i)]
  <2>1. Len(points[l]) \in Nat
    BY DEF RowsInv, TypeOK
  <2>2. f \in Surjection(1..Len(points[l]), of(l))
    BY DEF Surjection
  <2>3. IsFiniteSet(1..Len(points[l]))
    BY <2>1, FS_Interval
  <2> HIDE DEF f, of
  <2> QED
    BY <2>2, <2>3, FS_Surjection
<1>2. IsFiniteSet(sets)
  <2> DEFINE g == [l \in Link |-> of(l)]
  <2> HIDE DEF of
  <2>1. g \in Surjection(Link, sets)
    BY DEF Surjection
  <2>2. IsFiniteSet(Link)
    BY StatsAssumption
  <2> HIDE DEF g, sets
  <2> QED
    BY <2>1, <2>2, FS_Surjection
<1>3. Looks(Link) = UNION sets
  BY DEF Looks
<1>4. \A s \in sets : IsFiniteSet(s)
  BY <1>1
<1> QED
  BY <1>2, <1>3, <1>4, FS_UNION

\* An order names every look once, oldest first.
LEMMA OrdersAre ==
  ASSUME RowsInv, NEW order \in Orders(Link)
  PROVE  /\ Len(order) \in Nat /\ DOMAIN order = 1..Len(order)
         /\ \A i \in 1..Len(order) : order[i] \in Looks(Link)
         /\ \A x \in Looks(Link) : \E i \in 1..Len(order) : order[i] = x
         /\ \A i, j \in 1..Len(order) : order[i] = order[j] => i = j
         /\ \A i, j \in 1..Len(order) : i <= j => order[i].at <= order[j].at
<1> DEFINE looks == Looks(Link)
           n == Cardinality(looks)
<1>1. n \in Nat
  BY LooksAreFinite, FS_CardinalityType
<1>2. /\ order \in [1..n -> looks]
      /\ \A i \in (1..n) \ {1} : order[i - 1].at <= order[i].at
      /\ \A x \in looks : \E i \in 1..n : order[i] = x
  BY DEF Orders
<1>3. \A x \in looks : x.at \in Nat
  BY LooksAre
<1>4. \A i, j \in 1..n : order[i] = order[j] => i = j
  <2>1. IsFiniteSet(1..n) /\ Cardinality(1..n) = n /\ IsFiniteSet(looks)
    BY <1>1, FS_Interval, LooksAreFinite
  <2> HIDE DEF looks
  <2>2. order \in Surjection(1..n, looks)
    BY <1>2 DEF Surjection
  <2>3. order \in Injection(1..n, looks)
    BY <2>1, <2>2, FS_SurjSameCardinalityImpliesInj
  <2> QED
    BY <2>3 DEF Injection, IsInjective
<1> HIDE DEF looks, n
<1>5. order \in Seq(looks) /\ Len(order) = n
  BY <1>1, <1>2, LenProperties
<1>6. \A i, j \in 1..n : i <= j => order[i].at <= order[j].at
  <2> SUFFICES ASSUME NEW i \in 1..n, NEW j \in 1..n, i <= j
               PROVE  order[i].at <= order[j].at
    OBVIOUS
  <2> DEFINE S == {k \in Nat : i + k <= n => order[i].at <= order[i + k].at}
  <2>1. \A k \in 1..n : order[k].at \in Nat
    BY <1>2, <1>3
  <2>2. 0 \in S
    BY <2>1
  <2>3. ASSUME NEW k \in 1..n, k - 1 \in S PROVE k \in S
    <3> SUFFICES ASSUME i + k <= n PROVE order[i].at <= order[i + k].at
      OBVIOUS
    <3>1. i + k \in (1..n) \ {1} /\ i + k - 1 \in 1..n /\ i + (k - 1) = i + k - 1
      BY <1>1
    <3>2. order[i].at <= order[i + k - 1].at
      BY <1>1, <2>3, <3>1
    <3>3. order[i + k - 1].at <= order[i + k].at
      BY <1>2, <3>1
    <3> QED
      BY <2>1, <3>1, <3>2, <3>3
  <2> HIDE DEF S
  <2>4. \A k \in 0..n : k \in S
    BY <1>1, <2>2, <2>3, StepByStep
  <2>5. j - i \in 0..n /\ i + (j - i) = j
    BY <1>1
  <2>6. j - i \in S
    BY <2>4, <2>5
  <2> QED
    BY <2>5, <2>6 DEF S
<1> QED
  BY <1>1, <1>2, <1>4, <1>5, <1>6 DEF looks

\* What is no smaller than any other is the greatest, and conversely.
LEMMA MaxOf ==
  ASSUME NEW S, S \subseteq Int, NEW m \in S, \A y \in S : y <= m
  PROVE  Max(S) = m
<1>1. \E x \in S : \A y \in S : x >= y
  OBVIOUS
<1>2. Max(S) \in S /\ \A y \in S : Max(S) >= y
  BY <1>1 DEF Max
<1>3. Max(S) \in Int /\ m \in Int /\ Max(S) >= m /\ Max(S) <= m
  BY <1>2
<1> QED
  BY <1>3

LEMMA MinimumOf ==
  ASSUME NEW S, S \subseteq Int, NEW m \in S, \A y \in S : m <= y
  PROVE  Minimum(S) = m
<1>1. \E x \in S : \A y \in S : x <= y
  OBVIOUS
<1>2. Minimum(S) \in S /\ \A y \in S : Minimum(S) <= y
  BY <1>1 DEF Minimum
<1>3. Minimum(S) \in Int /\ m \in Int /\ Minimum(S) <= m /\ m <= Minimum(S)
  BY <1>2
<1> QED
  BY <1>3

\* Of positions there is always a last one.
LEMMA LastOf ==
  ASSUME NEW n \in Nat, NEW S, S \subseteq 1..n, S # {}
  PROVE  Max(S) \in S /\ \A y \in S : y <= Max(S)
<1>1. S \subseteq 0..n
  OBVIOUS
<1> QED
  BY <1>1, HighestIs

-----------------------------------------------------------------------------
(* Stats: what the walks carry forward. *)

\* What a walk over the period has passed when it is through with n looks, and
\* what each of the links A asked when it was last passed.
Passed(order, start, n) == {i \in 1..Len(order) : i <= n \/ order[i].at < start}
Of(order, S, l) == {i \in S : order[i].link = l}
Carried(order, S, A) ==
  [l \in Link |-> IF l \notin A \/ Of(order, S, l) = {} THEN None
                  ELSE order[Max(Of(order, S, l))].unit]

LEMMA CarriedType ==
  ASSUME RowsInv, NEW order \in Orders(Link), NEW S \in SUBSET (1..Len(order)), NEW A
  PROVE  Carried(order, S, A) \in [Link -> Nat \cup {None}]
<1>1. ASSUME NEW l \in Link, Of(order, S, l) # {}
      PROVE  order[Max(Of(order, S, l))].unit \in Nat \cup {None}
  <2>1. Max(Of(order, S, l)) \in Of(order, S, l)
    <3> DEFINE T == Of(order, S, l)
    <3>1. T \subseteq 1..Len(order) /\ Len(order) \in Nat /\ T # {}
      BY <1>1, OrdersAre DEF Of
    <3> HIDE DEF T
    <3>2. Max(T) \in T
      BY <3>1, LastOf
    <3> QED
      BY <3>2 DEF T
  <2>2. Max(Of(order, S, l)) \in 1..Len(order)
    BY <2>1 DEF Of
  <2>3. order[Max(Of(order, S, l))] \in Looks(Link)
    BY <2>2, OrdersAre
  <2> QED
    BY <2>3, LooksAre
<1> QED
  BY <1>1 DEF Carried

\* One more look replaces what its link asked, unless the link has no amount.
LEMMA CarriedStep ==
  ASSUME RowsInv, NEW order \in Orders(Link), NEW A, NEW n \in 1..Len(order),
         NEW S \in SUBSET (1..(n - 1))
  PROVE  Carried(order, S \cup {n}, A) =
           IF order[n].link \notin A \/ order[n].unit = None THEN Carried(order, S, A)
           ELSE [Carried(order, S, A) EXCEPT ![order[n].link] = order[n].unit]
<1> DEFINE x == order[n]
           R == S \cup {n}
<1>0. Len(order) \in Nat /\ S \in SUBSET (1..Len(order)) /\ S \subseteq 1..(n-1)
  BY OrdersAre
<1>1. x \in Looks(Link) /\ x.link \in Link
  BY OrdersAre, LooksAre
<1>2. \A l \in Link : l # x.link => Of(order, R, l) = Of(order, S, l)
  BY DEF Of
<1>3. Of(order, R, x.link) # {} /\ Max(Of(order, R, x.link)) = n
  <2> DEFINE T == Of(order, R, x.link)
  <2>1. n \in T
    BY DEF Of
  <2>3. \A y \in T : y \in Int /\ y <= n
    BY <1>0 DEF Of
  <2> HIDE DEF T
  <2>4. T \subseteq Int
    BY <2>3
  <2>2. Max(T) = n
    BY <2>1, <2>3, <2>4, MaxOf
  <2> QED
    BY <2>1, <2>2 DEF T
<1>4. CASE x.link \notin A
  BY <1>2, <1>4 DEF Carried
<1>5. CASE x.unit = None
  <2>1. quantity[x.link] = None
    BY <1>1, <1>5, LooksAre
  <2>2. \A i \in 1..Len(order) : order[i].link = x.link => order[i].unit = None
    BY <2>1, OrdersAre, LooksAre
  <2>3. Of(order, S, x.link) # {} => order[Max(Of(order, S, x.link))].unit = None
    <3> DEFINE T == Of(order, S, x.link)
    <3> SUFFICES ASSUME T # {} PROVE order[Max(T)].unit = None
      OBVIOUS
    <3>1. T \subseteq 1..Len(order) /\ \A i \in T : order[i].unit = None
      BY <1>0, <2>2 DEF Of
    <3> HIDE DEF T
    <3>2. Max(T) \in T
      BY <1>0, <3>1, LastOf
    <3> QED
      BY <3>1, <3>2
  <2>4. \A l \in Link : Carried(order, R, A)[l] = Carried(order, S, A)[l]
    BY <1>2, <1>3, <1>5, <2>3 DEF Carried
  <2> QED
    BY <1>5, <2>4 DEF Carried
<1>6. CASE x.link \in A /\ x.unit # None
  <2> DEFINE c == Carried(order, S, A)
             d == Carried(order, R, A)
             e == [c EXCEPT ![x.link] = x.unit]
  <2>1. c \in [Link -> Nat \cup {None}]
    BY <1>0, CarriedType
  <2>2. d = [l \in Link |-> d[l]]
    BY DEF Carried
  <2>3. \A l \in Link : l # x.link => d[l] = c[l]
    BY <1>2 DEF Carried
  <2>4. d[x.link] = x.unit
    BY <1>1, <1>3, <1>6 DEF Carried
  <2>5. e = [l \in Link |-> e[l]] /\ \A l \in Link : e[l] = IF l = x.link THEN x.unit ELSE c[l]
    BY <2>1
  <2> HIDE DEF c, d, e
  <2>6. \A l \in Link : d[l] = e[l]
    BY <2>3, <2>4, <2>5
  <2>7. d = e
    BY <2>2, <2>5, <2>6
  <2> QED
    BY <1>6, <2>7 DEF c, d, e
<1> QED
  BY <1>4, <1>5, <1>6

\* What lies before the n-th look of a period has been passed when it comes.
LEMMA PassedStep ==
  ASSUME RowsInv, NEW order \in Orders(Link), NEW start \in Nat, NEW n \in 1..Len(order)
  PROVE  /\ Passed(order, start, n) = Passed(order, start, n - 1) \cup {n}
         /\ order[n].at < start => Passed(order, start, n) = Passed(order, start, n - 1)
         /\ order[n].at >= start =>
              /\ Passed(order, start, n - 1) = 1..(n - 1)
              /\ Passed(order, start, n) = 1..n
<1>1. /\ Len(order) \in Nat
      /\ \A i \in 1..Len(order) : order[i].at \in Nat
      /\ \A i, j \in 1..Len(order) : i <= j => order[i].at <= order[j].at
  BY OrdersAre, LooksAre
<1>2. \A i \in 1..Len(order) : i <= n <=> i <= n - 1 \/ i = n
  BY <1>1
<1>3. order[n].at >= start => \A i \in 1..Len(order) : order[i].at < start => i <= n - 1
  BY <1>1
<1>4. 1..n \subseteq 1..Len(order) /\ 1..(n-1) \subseteq 1..Len(order)
  BY <1>1
<1>5. Passed(order, start, n) = Passed(order, start, n - 1) \cup {n}
  BY <1>2 DEF Passed
<1>6. order[n].at < start => Passed(order, start, n) = Passed(order, start, n - 1)
  BY <1>2 DEF Passed
<1>7. order[n].at >= start => Passed(order, start, n - 1) = 1..(n - 1)
  BY <1>1, <1>3, <1>4 DEF Passed
<1>8. 1..n = (1..(n - 1)) \cup {n}
  BY <1>1
<1> QED
  BY <1>5, <1>6, <1>7, <1>8

-----------------------------------------------------------------------------
(* Stats: the two walks. *)

\* One look on the walk of build_statistics.
StatStep(order, start, walk, n) ==
  IF order[n].at < start \/ order[n].link \notin StatLinks THEN walk
  ELSE Counted(walk, order[n])

IsStatWalk(order, start, walk) ==
  /\ walk[0] = [series |-> Seeded(order, start), stores |-> [s \in Shop |-> NoOffers]]
  /\ \A n \in 1..Len(order) : walk[n] = StatStep(order, start, walk[n - 1], n)
  /\ BuildStatistics(order, start) = walk[Len(order)]

LEMMA StatWalk ==
  ASSUME RowsInv, NEW order \in Orders(Link), NEW start
  PROVE  \E walk : IsStatWalk(order, start, walk)
<1> DEFINE N == Len(order)
           a == [series |-> Seeded(order, start), stores |-> [s \in Shop |-> NoOffers]]
           G(w, n) == StatStep(order, start, w, n)
           F(w) == [n \in 0..N |-> IF n = 0 THEN a ELSE G(w[n - 1], n)]
           done == {n \in 0..N : \E g : g = [m \in 0..n |-> IF m = 0 THEN a ELSE G(g[m - 1], m)]}
<1>1. N \in Nat
  BY OrdersAre
<1>2. BuildStatistics(order, start) = (CHOOSE w : w = F(w))[N]
  BY DEF BuildStatistics, StatStep
<1> HIDE DEF a, G, N
<1>3. 0 \in done
  <2> DEFINE g == [m \in 0..0 |-> a]
  <2>1. g = [m \in 0..0 |-> IF m = 0 THEN a ELSE G(g[m - 1], m)]
    OBVIOUS
  <2> HIDE DEF g
  <2>2. \E f : f = [m \in 0..0 |-> IF m = 0 THEN a ELSE G(f[m - 1], m)]
    BY <2>1
  <2>3. 0 \in 0..N
    BY <1>1
  <2> QED
    BY <2>2, <2>3, Zenon
<1>4. ASSUME NEW n \in 1..N, n - 1 \in done PROVE n \in done
  <2>1. PICK g : g = [m \in 0..(n - 1) |-> IF m = 0 THEN a ELSE G(g[m - 1], m)]
    BY <1>4
  <2> DEFINE h == [m \in 0..n |-> IF m = 0 THEN a ELSE G(g[m - 1], m)]
  <2>3. \A m \in 0..n : m # 0 => m - 1 \in 0..(n - 1)
    BY <1>1
  <2>2. \A k \in 0..(n - 1) : h[k] = g[k]
    <3>1. \A k \in 0..(n - 1) : k \in 0..n
      BY <1>1
    <3>2. \A k \in 0..(n - 1) : g[k] = IF k = 0 THEN a ELSE G(g[k - 1], k)
      BY <2>1
    <3> QED
      BY <3>1, <3>2
  <2>4. h = [m \in 0..n |-> IF m = 0 THEN a ELSE G(h[m - 1], m)]
    BY <2>2, <2>3
  <2> HIDE DEF h
  <2> QED
    BY <1>1, <2>4
<1>5. N \in done
  <2> HIDE DEF done
  <2> QED
    BY <1>1, <1>3, <1>4, StepByStep
<1>6. \E w : w = F(w)
  BY <1>5
<1>7. PICK w : w = F(w) /\ BuildStatistics(order, start) = w[N]
  BY <1>2, <1>6
<1>8. w[0] = a
  BY <1>1, <1>7
<1>9. \A n \in 1..N : w[n] = G(w[n - 1], n)
  BY <1>1, <1>7
<1> QED
  BY <1>7, <1>8, <1>9 DEF a, G, N, IsStatWalk

\* One look on the walk of product_offer_occasions.
\* The same for product_offer_occasions.
IsOccasionWalk(order, start, walk) ==
  /\ walk[0] = [series |-> NewSeries, rows |-> {}]
  /\ \A n \in 1..Len(order) : walk[n] = OccasionStep(walk[n - 1], order[n], start)
  /\ OfferOccasions(order, start) = walk[Len(order)].rows

LEMMA OccasionWalk ==
  ASSUME RowsInv, NEW order \in Orders(Link), NEW start
  PROVE  \E walk : IsOccasionWalk(order, start, walk)
<1> DEFINE N == Len(order)
           a == [series |-> NewSeries, rows |-> {}]
           G(w, n) == OccasionStep(w, order[n], start)
           F(w) == [n \in 0..N |-> IF n = 0 THEN a ELSE G(w[n - 1], n)]
           done == {n \in 0..N : \E g : g = [m \in 0..n |-> IF m = 0 THEN a ELSE G(g[m - 1], m)]}
<1>1. N \in Nat
  BY OrdersAre
<1>2. OfferOccasions(order, start) = (CHOOSE w : w = F(w))[N].rows
  BY DEF OfferOccasions
<1> HIDE DEF a, G, N
<1>3. 0 \in done
  <2> DEFINE g == [m \in 0..0 |-> a]
  <2>1. g = [m \in 0..0 |-> IF m = 0 THEN a ELSE G(g[m - 1], m)]
    OBVIOUS
  <2> HIDE DEF g
  <2>2. \E f : f = [m \in 0..0 |-> IF m = 0 THEN a ELSE G(f[m - 1], m)]
    BY <2>1
  <2>3. 0 \in 0..N
    BY <1>1
  <2> QED
    BY <2>2, <2>3, Zenon
<1>4. ASSUME NEW n \in 1..N, n - 1 \in done PROVE n \in done
  <2>1. PICK g : g = [m \in 0..(n - 1) |-> IF m = 0 THEN a ELSE G(g[m - 1], m)]
    BY <1>4
  <2> DEFINE h == [m \in 0..n |-> IF m = 0 THEN a ELSE G(g[m - 1], m)]
  <2>3. \A m \in 0..n : m # 0 => m - 1 \in 0..(n - 1)
    BY <1>1
  <2>2. \A k \in 0..(n - 1) : h[k] = g[k]
    <3>1. \A k \in 0..(n - 1) : k \in 0..n
      BY <1>1
    <3>2. \A k \in 0..(n - 1) : g[k] = IF k = 0 THEN a ELSE G(g[k - 1], k)
      BY <2>1
    <3> QED
      BY <3>1, <3>2
  <2>4. h = [m \in 0..n |-> IF m = 0 THEN a ELSE G(h[m - 1], m)]
    BY <2>2, <2>3
  <2> HIDE DEF h
  <2> QED
    BY <1>1, <2>4
<1>5. N \in done
  <2> HIDE DEF done
  <2> QED
    BY <1>1, <1>3, <1>4, StepByStep
<1>6. \E w : w = F(w)
  BY <1>5
<1>7. PICK w : w = F(w) /\ OfferOccasions(order, start) = w[N].rows
  BY <1>2, <1>6
<1>8. w[0] = a
  BY <1>1, <1>7
<1>9. \A n \in 1..N : w[n] = G(w[n - 1], n)
  BY <1>1, <1>7
<1> QED
  BY <1>7, <1>8, <1>9 DEF a, G, N, IsOccasionWalk

-----------------------------------------------------------------------------
(* Stats: what was asked, and the trend. *)

MaybePrice == Nat \cup {None}

\* What the cheapest link asks.
LEMMA BestIs ==
  ASSUME NEW c \in [Link -> MaybePrice]
  PROVE  /\ Best(c) \in MaybePrice
         /\ Best(c) = None <=> \A l \in Link : c[l] = None
         /\ Best(c) # None => /\ Best(c) \in Nat
                              /\ \E l \in Link : c[l] = Best(c)
                              /\ \A l \in Link : c[l] # None => Best(c) <= c[l]
<1> DEFINE known == {c[l] : l \in Link} \ {None}
<1>1. known \subseteq Nat
  BY DEF MaybePrice
<1>2. Best(c) = IF known = {} THEN None ELSE Minimum(known)
  BY DEF Best
<1>3. CASE known = {}
  <2>1. \A l \in Link : c[l] = None
    BY <1>3
  <2> QED
    BY <1>2, <1>3, <2>1 DEF MaybePrice
<1>4. CASE known # {}
  <2>1. Minimum(known) \in known /\ \A y \in known : Minimum(known) <= y
    <3> HIDE DEF known
    <3> QED
      BY <1>1, <1>4, MinimumIs
  <2>2. Best(c) = Minimum(known)
    BY <1>2, <1>4
  <2>3. Best(c) \in Nat /\ Best(c) # None
    BY <1>1, <2>1, <2>2, NoneIsNoNumber
  <2>4. \E l \in Link : c[l] = Best(c)
    BY <2>1, <2>2
  <2>5. \A l \in Link : c[l] # None => Best(c) <= c[l]
    BY <2>1, <2>2
  <2> QED
    BY <2>3, <2>4, <2>5 DEF MaybePrice
<1> QED
  BY <1>3, <1>4

\* Where no two points are tied, an instant tells the look.
LEMMA LooksApart ==
  ASSUME RowsInv, NEW L \in SUBSET Link, ~Tied(L), NEW x \in Looks(L), NEW y \in Looks(L),
         x.at = y.at
  PROVE  x = y
<1> DEFINE look(z) == [link |-> z.link, nr |-> z.nr, at |-> points[z.link][z.nr].at,
                       offer |-> points[z.link][z.nr].offer,
                       unit |-> Unit(z.link, points[z.link][z.nr])]
<1>1. \A z \in Looks(L) : z.link \in L /\ z.nr \in 1..Len(points[z.link]) /\ z = look(z)
  BY LooksAre
<1>2. x.at = points[x.link][x.nr].at /\ y.at = points[y.link][y.nr].at
  <2>1. look(x).at = points[x.link][x.nr].at /\ look(y).at = points[y.link][y.nr].at
    OBVIOUS
  <2> QED
    BY <1>1, <2>1
<1>3. \A l, m \in L : \A i \in 1..Len(points[l]), j \in 1..Len(points[m]) :
        points[l][i].at = points[m][j].at => <<l, i>> = <<m, j>>
  BY DEF Tied
<1>4. x.link = y.link /\ x.nr = y.nr
  <2>1. /\ x.link \in L /\ x.nr \in 1..Len(points[x.link])
        /\ y.link \in L /\ y.nr \in 1..Len(points[y.link])
    BY <1>1
  <2>2. points[x.link][x.nr].at = points[y.link][y.nr].at
    BY <1>2
  <2> HIDE DEF look
  <2> QED
    BY <1>3, <2>1, <2>2
<1>5. look(x) = look(y)
  BY <1>4
<1> QED
  BY <1>1, <1>5

\* No two looks of different links at one instant, nor of one link.
LEMMA Untied ==
  ASSUME RowsInv, ~Tied(Link), NEW order \in Orders(Link), NEW i \in 1..Len(order),
         NEW j \in 1..Len(order), i < j
  PROVE  order[i].at < order[j].at
<1>1. order[i].at \in Nat /\ order[j].at \in Nat /\ order[i].at <= order[j].at
  BY OrdersAre, LooksAre
<1>2. order[i] # order[j] /\ order[i] \in Looks(Link) /\ order[j] \in Looks(Link)
  BY OrdersAre
<1>3. order[i].at # order[j].at
  BY <1>2, LooksApart
<1> QED
  BY <1>1, <1>3

\* What is carried of the looks up to an instant is what was asked at it.
LEMMA CarriedIsAsked ==
  ASSUME RowsInv, ~Tied(Link), NEW order \in Orders(Link), NEW t \in Int
  PROVE  LET S == {i \in 1..Len(order) : order[i].at <= t}
         IN  Best(Carried(order, S, StatLinks)) = CheapestAt(t)
<1> DEFINE S == {i \in 1..Len(order) : order[i].at <= t}
           c == Carried(order, S, StatLinks)
           seen(l) == {x \in Looks({l} \cap StatLinks) : x.at <= t}
           asked(l) == {x.unit : x \in {y \in seen(l) : \A z \in seen(l) : z.at <= y.at}} \ {None}
           known == UNION {asked(l) : l \in Link}
<1>1. CheapestAt(t) = IF known = {} THEN None ELSE Minimum(known)
  BY DEF CheapestAt
<1>2. Best(c) = IF {c[l] : l \in Link} \ {None} = {} THEN None ELSE Minimum({c[l] : l \in Link} \ {None})
  BY DEF Best
<1>3. ASSUME NEW l \in Link PROVE asked(l) = {c[l]} \ {None}
  <2>1. CASE l \notin StatLinks
    <3>1. c[l] = None
      BY <2>1 DEF Carried
    <3>2. {l} \cap StatLinks = {}
      BY <2>1
    <3>3. Looks({}) = {}
      BY DEF Looks
    <3>4. seen(l) = {}
      BY <3>2, <3>3
    <3> HIDE DEF seen
    <3> QED
      BY <3>1, <3>4
  <2>2. CASE l \in StatLinks
    <3> DEFINE T == Of(order, S, l)
    <3>1. {l} \cap StatLinks = {l}
      BY <2>2
    <3>2. \A x : x \in Looks({l}) <=> x \in Looks(Link) /\ x.link = l
      <4>1. \A x \in Looks({l}) : x \in Looks(Link)
        BY DEF Looks
      <4>2. \A x \in Looks({l}) : x.link = l
        BY LooksAre
      <4>3. \A x \in Looks(Link) : x.link = l => x \in Looks({l})
        BY LooksAre
      <4> QED
        BY <4>1, <4>2, <4>3
    <3>3. \A x : x \in seen(l) <=> x \in Looks(Link) /\ x.link = l /\ x.at <= t
      BY <3>1, <3>2
    <3>4. \A i \in T : order[i] \in seen(l)
      BY <3>3, OrdersAre DEF Of
    <3>5. \A x \in seen(l) : \E i \in T : order[i] = x
      BY <3>3, OrdersAre DEF Of
    <3>6. T \subseteq 1..Len(order) /\ Len(order) \in Nat
      BY OrdersAre DEF Of
    <3>7. c[l] = IF T = {} THEN None ELSE order[Max(T)].unit
      BY <2>2 DEF Carried
    <3> HIDE DEF S, T, c, seen
    <3>8. CASE T = {}
      BY <3>5, <3>7, <3>8
    <3>9. CASE T # {}
      <4> DEFINE m == Max(T)
      <4>1. m \in T /\ \A i \in T : i <= m
        BY <3>6, <3>9, LastOf
      <4> HIDE DEF m
      <4>2. ASSUME NEW i \in T PROVE order[i].at <= order[m].at /\ (order[m].at <= order[i].at => i = m)
        <5>1. i \in 1..Len(order) /\ m \in 1..Len(order) /\ i \in Int /\ m \in Int
          BY <3>6, <4>1
        <5>2. order[i].at \in Nat /\ order[m].at \in Nat
          BY <5>1, OrdersAre, LooksAre
        <5>3. i <= m
          BY <4>1
        <5>4. i < m => order[i].at < order[m].at
          BY <5>1, Untied
        <5> QED
          BY <5>1, <5>2, <5>3, <5>4
      <4>3. {y \in seen(l) : \A z \in seen(l) : z.at <= y.at} = {order[m]}
        <5>1. order[m] \in seen(l) /\ \A z \in seen(l) : z.at <= order[m].at
          BY <3>4, <3>5, <4>1, <4>2
        <5>2. ASSUME NEW y \in seen(l), \A z \in seen(l) : z.at <= y.at PROVE y = order[m]
          BY <3>5, <4>2, <5>1, <5>2
        <5> QED
          BY <5>1, <5>2
      <4>4. c[l] = order[m].unit
        BY <3>7, <3>9 DEF m
      <4> QED
        BY <4>3, <4>4
    <3> QED
      BY <3>8, <3>9
  <2> QED
    BY <2>1, <2>2
<1>4. known = {c[l] : l \in Link} \ {None}
  <2> HIDE DEF asked, c
  <2> QED
    BY <1>3
<1>5. Best(c) = CheapestAt(t)
  <2> HIDE DEF known, c
  <2> QED
    BY <1>1, <1>2, <1>4, Zenon
<1> QED
  BY <1>5

Series ==
  [current : [Link -> MaybePrice], baseline : MaybePrice, first : MaybePrice, last : MaybePrice,
   low : MaybePrice, high : MaybePrice, stamps : SUBSET Nat]

LEMMA AddIs ==
  ASSUME NEW s \in Series, NEW x, x.link \in Link, x.at \in Nat, x.unit \in MaybePrice
  PROVE  LET c == [s.current EXCEPT ![x.link] = x.unit]
             best == Best(c)
             t == Add(s, x)
         IN  /\ t \in Series
             /\ x.unit = None => t = s
             /\ x.unit # None =>
                  /\ c \in [Link -> MaybePrice] /\ best \in Nat
                  /\ t.current = c /\ t.baseline = s.baseline /\ t.last = best
                  /\ t.stamps = s.stamps \cup {x.at}
                  /\ t.first = IF s.first = None THEN best ELSE s.first
                  /\ t.low = IF s.low = None THEN best ELSE Minimum({s.low, best})
                  /\ t.high = IF s.high = None THEN best ELSE Max({s.high, best})
<1> DEFINE c == [s.current EXCEPT ![x.link] = x.unit]
           best == Best(c)
           t == Add(s, x)
           low == IF s.low = None THEN best ELSE Minimum({s.low, best})
           high == IF s.high = None THEN best ELSE Max({s.high, best})
           first == IF s.first = None THEN best ELSE s.first
<1>1. CASE x.unit = None
  BY <1>1 DEF Add
<1>2. CASE x.unit # None
  <2>1. c \in [Link -> MaybePrice] /\ c[x.link] = x.unit
    BY DEF Series
  <2>2. best \in Nat
    <3> HIDE DEF c
    <3> QED
      BY <1>2, <2>1, BestIs
  <2>3. t = [s EXCEPT !.current = c, !.last = best, !.stamps = @ \cup {x.at},
                      !.first = IF @ = None THEN best ELSE @,
                      !.low = IF @ = None THEN best ELSE Minimum({@, best}),
                      !.high = IF @ = None THEN best ELSE Max({@, best})]
    BY <1>2 DEF Add
  <2> HIDE DEF c, best, t
  <2>4. s.first \in MaybePrice /\ s.low \in MaybePrice /\ s.high \in MaybePrice /\ s.baseline \in MaybePrice
        /\ s.stamps \in SUBSET Nat
    BY DEF Series
  <2>5. low \in Nat
    <3>1. CASE s.low = None
      BY <2>2, <3>1
    <3>2. CASE s.low # None
      <4>1. {s.low, best} \subseteq Nat
        BY <2>2, <2>4, <3>2 DEF MaybePrice
      <4>2. Minimum({s.low, best}) \in {s.low, best}
        BY <4>1, MinimumIs
      <4> QED
        BY <3>2, <4>1, <4>2
    <3> QED
      BY <3>1, <3>2
  <2>6. high \in Nat
    <3>1. CASE s.high = None
      BY <2>2, <3>1
    <3>2. CASE s.high # None
      <4>1. s.high \in Nat
        BY <2>4, <3>2 DEF MaybePrice
      <4>2. CASE s.high <= best
        <5>1. Max({s.high, best}) = best
          BY <2>2, <4>1, <4>2, MaxOf
        <5> QED
          BY <2>2, <3>2, <5>1
      <4>3. CASE best <= s.high
        <5>1. Max({s.high, best}) = s.high
          BY <2>2, <4>1, <4>3, MaxOf
        <5> QED
          BY <3>2, <4>1, <5>1
      <4> QED
        BY <2>2, <4>1, <4>2, <4>3
    <3> QED
      BY <3>1, <3>2
  <2>7. t = [s EXCEPT !.current = c, !.last = best, !.stamps = s.stamps \cup {x.at},
                      !.first = first, !.low = low, !.high = high]
    BY <2>3 DEF Series
  <2>8. first \in MaybePrice
    BY <2>2, <2>4 DEF MaybePrice
  <2> HIDE DEF low, high, first
  <2>9. /\ t.current = c /\ t.baseline = s.baseline /\ t.last = best
        /\ t.stamps = s.stamps \cup {x.at} /\ t.first = first /\ t.low = low /\ t.high = high
    BY <2>7 DEF Series
  <2>10. t \in Series
    <3>1. s.stamps \cup {x.at} \in SUBSET Nat
      BY <2>4
    <3>2. low \in MaybePrice /\ high \in MaybePrice /\ best \in MaybePrice
      BY <2>2, <2>5, <2>6 DEF MaybePrice
    <3> QED
      BY <2>1, <2>4, <2>7, <2>8, <3>1, <3>2 DEF Series
  <2> QED
    BY <1>2, <2>1, <2>2, <2>9, <2>10 DEF c, best, t, low, high, first
<1> QED
  BY <1>1, <1>2

\* What the seeds leave.
LEMMA SeededIs ==
  ASSUME RowsInv, NEW order \in Orders(Link), NEW start \in Nat
  PROVE  LET c == Carried(order, Passed(order, start, 0), StatLinks)
             s == Seeded(order, start)
         IN  /\ s \in Series /\ s.current = c
             /\ s.baseline = Best(c) /\ s.last = Best(c) /\ s.low = Best(c) /\ s.high = Best(c)
             /\ s.first = None /\ s.stamps = {}
<1> DEFINE S == Passed(order, start, 0)
           c == Carried(order, S, StatLinks)
           s == Seeded(order, start)
           r == [NewSeries EXCEPT !.current = c]
           before(l) == {i \in DOMAIN order : order[i].link = l /\ order[i].at < start}
           seed(l) == IF l \notin StatLinks \/ before(l) = {} THEN None
                      ELSE order[Max(before(l))].unit
<1>1. \A l \in Link : before(l) = Of(order, S, l)
  <2>1. DOMAIN order = 1..Len(order) /\ Len(order) \in Nat
    BY OrdersAre
  <2>2. \A i \in 1..Len(order) : ~(i <= 0)
    BY <2>1
  <2> QED
    BY <2>1, <2>2 DEF Of, Passed
<1>2. [l \in Link |-> seed(l)] = c
  <2> HIDE DEF before
  <2> QED
    BY <1>1 DEF Carried
<1>3. s = CloseSeed(r)
  <2>1. s = CloseSeed([NewSeries EXCEPT !.current = [l \in Link |-> seed(l)]])
    BY DEF Seeded
  <2> HIDE DEF seed, c, s
  <2> QED
    BY <1>2, <2>1
<1>4. c \in [Link -> MaybePrice]
  <2>1. S \in SUBSET (1..Len(order))
    BY DEF Passed
  <2> HIDE DEF S
  <2> QED
    BY <2>1, CarriedType DEF MaybePrice
<1>5. Best(c) \in MaybePrice
  <2> HIDE DEF c
  <2> QED
    BY <1>4, BestIs
<1> HIDE DEF c, s
<1>6. r = [current |-> c, baseline |-> None, first |-> None, last |-> None,
           low |-> None, high |-> None, stamps |-> {}]
  BY DEF NewSeries
<1>7. CASE Best(c) = None
  <2>1. s = r
    BY <1>3, <1>6, <1>7 DEF CloseSeed
  <2>2. r \in Series
    BY <1>4, <1>6 DEF Series, MaybePrice
  <2> HIDE DEF r
  <2> QED
    BY <1>6, <1>7, <2>1, <2>2 DEF c, s
<1>8. CASE Best(c) # None
  <2>1. s = [r EXCEPT !.baseline = Best(c), !.last = Best(c), !.low = Best(c), !.high = Best(c)]
    BY <1>3, <1>6, <1>8 DEF CloseSeed
  <2> HIDE DEF r
  <2>2. s = [current |-> c, baseline |-> Best(c), first |-> None, last |-> Best(c),
             low |-> Best(c), high |-> Best(c), stamps |-> {}]
    BY <1>6, <2>1
  <2>3. s \in Series
    BY <1>4, <1>5, <2>2 DEF Series, MaybePrice
  <2> QED
    BY <2>2, <2>3 DEF c, s
<1> QED
  BY <1>7, <1>8

\* What build_statistics carries.
LEMMA StatCurrent ==
  ASSUME RowsInv, NEW order \in Orders(Link), NEW start \in Nat, NEW walk,
         IsStatWalk(order, start, walk)
  PROVE  \A n \in 0..Len(order) :
           /\ walk[n].series \in Series
           /\ walk[n].series.current = Carried(order, Passed(order, start, n), StatLinks)
<1> DEFINE N == Len(order)
           C(n) == Carried(order, Passed(order, start, n), StatLinks)
           good == {n \in 0..N : walk[n].series \in Series /\ walk[n].series.current = C(n)}
<1>1. N \in Nat
  BY OrdersAre
<1>2. 0 \in good
  BY <1>1, SeededIs DEF IsStatWalk
<1>3. ASSUME NEW n \in 1..N, n - 1 \in good PROVE n \in good
  <2> DEFINE x == order[n]
             w == walk[n - 1]
  <2>1. w.series \in Series /\ w.series.current = C(n - 1)
    BY <1>3
  <2>2. walk[n] = StatStep(order, start, w, n)
    BY DEF IsStatWalk
  <2>3. x \in Looks(Link) /\ x.link \in Link /\ x.at \in Nat /\ x.unit \in MaybePrice
    BY OrdersAre, LooksAre DEF MaybePrice
  <2>4. CASE x.at < start
    <3>1. walk[n] = w
      BY <2>2, <2>4 DEF StatStep
    <3>2. C(n) = C(n - 1)
      BY <2>4, PassedStep
    <3> QED
      BY <1>1, <2>1, <3>1, <3>2
  <2>5. CASE x.at >= start
    <3>1. C(n) = IF x.link \notin StatLinks \/ x.unit = None THEN C(n - 1)
                 ELSE [C(n - 1) EXCEPT ![x.link] = x.unit]
      <4> DEFINE S == Passed(order, start, n - 1)
      <4>1. S = 1..(n - 1) /\ Passed(order, start, n) = S \cup {n}
        BY <2>5, PassedStep
      <4> HIDE DEF S
      <4>2. S \in SUBSET (1..(n - 1))
        BY <4>1
      <4> QED
        BY <4>1, <4>2, CarriedStep DEF S
    <3> HIDE DEF C
    <3>2. CASE x.link \notin StatLinks
      <4>1. walk[n] = w
        BY <2>2, <3>2 DEF StatStep
      <4> QED
        BY <1>1, <2>1, <3>1, <3>2, <4>1
    <3>3. CASE x.link \in StatLinks
      <4>1. walk[n] = Counted(w, x)
        BY <2>2, <2>3, <2>5, <3>3 DEF StatStep
      <4>2. walk[n].series = Add(w.series, x)
        BY <4>1 DEF Counted
      <4> DEFINE s == w.series
      <4> HIDE DEF s, x, w
      <4>3. Add(s, x) \in Series
        BY <2>1, <2>3, AddIs DEF s
      <4>4. Add(s, x).current = IF x.unit = None THEN s.current ELSE [s.current EXCEPT ![x.link] = x.unit]
        BY <2>1, <2>3, AddIs DEF s
      <4>5. Add(s, x).current = C(n)
        BY <2>1, <3>1, <3>3, <4>4 DEF s
      <4> QED
        BY <1>1, <4>2, <4>3, <4>5 DEF s
    <3> QED
      BY <3>2, <3>3
  <2> QED
    BY <2>3, <2>4, <2>5
<1> HIDE DEF good
<1>4. \A n \in 0..N : n \in good
  BY <1>1, <1>2, <1>3, StepByStep
<1> QED
  BY <1>4 DEF good

\* The instants a price was seen at, of the first n looks inside the period, and
\* what a series says of them.
Inside(order, start, n) ==
  {order[i].at : i \in {j \in 1..n : /\ order[j].at >= start /\ order[j].link \in StatLinks
                                     /\ order[j].unit # None}}
Span(start, T) == ({CheapestAt(t) : t \in T} \cup {CheapestAt(start - 1)}) \ {None}
Tells(s, start, T) ==
  /\ s.stamps = T /\ s.baseline = CheapestAt(start - 1)
  /\ T = {} => s.first = None /\ s.last = CheapestAt(start - 1)
  /\ T # {} => /\ \E m \in T : (\A u \in T : m <= u) /\ s.first = CheapestAt(m)
               /\ \E m \in T : (\A u \in T : u <= m) /\ s.last = CheapestAt(m)
  /\ Span(start, T) = {} => s.low = None /\ s.high = None
  /\ Span(start, T) # {} => /\ s.low \in Span(start, T) /\ s.high \in Span(start, T)
                            /\ \A y \in Span(start, T) : s.low <= y /\ y <= s.high

\* One more look inside the period.
LEMMA TellsStep ==
  ASSUME NEW start \in Nat, NEW s \in Series, NEW T \in SUBSET Nat, Tells(s, start, T),
         NEW x, x.link \in Link, x.at \in Nat, x.unit \in Nat, x.unit # None,
         Best([s.current EXCEPT ![x.link] = x.unit]) = CheapestAt(x.at),
         \A u \in T : u < x.at /\ CheapestAt(u) \in Nat,
         CheapestAt(start - 1) \in MaybePrice
  PROVE  Tells(Add(s, x), start, T \cup {x.at})
<1> DEFINE t == Add(s, x)
           a == x.at
           best == CheapestAt(a)
           V == T \cup {a}
           P == Span(start, T)
           Q == Span(start, V)
<1>0. x.unit \in MaybePrice
  BY DEF MaybePrice
<1>1. /\ best \in Nat /\ t.baseline = s.baseline /\ t.last = best
      /\ t.stamps = s.stamps \cup {a}
      /\ t.first = IF s.first = None THEN best ELSE s.first
      /\ t.low = IF s.low = None THEN best ELSE Minimum({s.low, best})
      /\ t.high = IF s.high = None THEN best ELSE Max({s.high, best})
  <2> DEFINE c == [s.current EXCEPT ![x.link] = x.unit]
  <2>1. /\ Best(c) \in Nat /\ t.baseline = s.baseline /\ t.last = Best(c)
        /\ t.stamps = s.stamps \cup {a}
        /\ t.first = IF s.first = None THEN Best(c) ELSE s.first
        /\ t.low = IF s.low = None THEN Best(c) ELSE Minimum({s.low, Best(c)})
        /\ t.high = IF s.high = None THEN Best(c) ELSE Max({s.high, Best(c)})
    BY <1>0, AddIs
  <2>2. Best(c) = best
    OBVIOUS
  <2> HIDE DEF c, best, t
  <2> QED
    BY <2>1, <2>2
<1>2. best # None
  BY <1>1, NoneIsNoNumber
<1>3. Q = P \cup {best} /\ P \subseteq Nat
  BY <1>2 DEF Span, MaybePrice
<1>4. /\ s.stamps = T /\ s.baseline = CheapestAt(start - 1)
      /\ T = {} => s.first = None /\ s.last = CheapestAt(start - 1)
      /\ T # {} => /\ \E m \in T : (\A u \in T : m <= u) /\ s.first = CheapestAt(m)
                   /\ \E m \in T : (\A u \in T : u <= m) /\ s.last = CheapestAt(m)
      /\ P = {} => s.low = None /\ s.high = None
      /\ P # {} => /\ s.low \in P /\ s.high \in P
                   /\ \A y \in P : s.low <= y /\ y <= s.high
  BY DEF Tells
<1> HIDE DEF t, best, P, Q
<1>5. \E m \in V : (\A u \in V : m <= u) /\ t.first = CheapestAt(m)
  <2>1. CASE T = {}
    BY <1>1, <1>4, <2>1 DEF best
  <2>2. CASE T # {}
    <3>1. PICK m \in T : (\A u \in T : m <= u) /\ s.first = CheapestAt(m)
      BY <1>4, <2>2
    <3>2. s.first \in Nat /\ s.first # None
      BY <3>1, NoneIsNoNumber
    <3>3. \A u \in V : m <= u
      BY <3>1
    <3> QED
      BY <1>1, <3>1, <3>2, <3>3
  <2> QED
    BY <2>1, <2>2
<1>6. \E m \in V : (\A u \in V : u <= m) /\ t.last = CheapestAt(m)
  BY <1>1 DEF best
<1>7. /\ Q # {} /\ t.low \in Q /\ t.high \in Q
      /\ \A y \in Q : t.low <= y /\ y <= t.high
  <2>1. CASE P = {}
    BY <1>1, <1>3, <1>4, <2>1
  <2>2. CASE P # {}
    <3>1. /\ s.low \in Nat /\ s.low # None /\ s.high \in Nat /\ s.high # None
          /\ s.low \in P /\ s.high \in P
          /\ \A y \in P : s.low <= y /\ y <= s.high
      <4>1. /\ s.low \in P /\ s.high \in P
            /\ \A y \in P : s.low <= y /\ y <= s.high
        BY <1>4, <2>2
      <4>2. s.low \in Nat /\ s.high \in Nat
        BY <1>3, <4>1
      <4> QED
        BY <4>1, <4>2, NoneIsNoNumber
    <3>2. /\ t.low = IF s.low <= best THEN s.low ELSE best
      <4>1. CASE s.low <= best
        <5>1. Minimum({s.low, best}) = s.low
          <6>1. {s.low, best} \subseteq Int /\ \A y \in {s.low, best} : s.low <= y
            BY <1>1, <3>1, <4>1
          <6> QED
            BY <6>1, MinimumOf
        <5> QED
          BY <1>1, <3>1, <4>1, <5>1
      <4>2. CASE ~(s.low <= best)
        <5>1. best <= s.low
          BY <1>1, <3>1, <4>2
        <5>2. Minimum({s.low, best}) = best
          BY <1>1, <3>1, <5>1, MinimumOf
        <5> QED
          BY <1>1, <3>1, <4>2, <5>2
      <4> QED
        BY <4>1, <4>2
    <3>3. t.high = IF best <= s.high THEN s.high ELSE best
      <4>1. CASE best <= s.high
        <5>1. Max({s.high, best}) = s.high
          BY <1>1, <3>1, <4>1, MaxOf
        <5> QED
          BY <1>1, <3>1, <4>1, <5>1
      <4>2. CASE ~(best <= s.high)
        <5>1. s.high <= best
          BY <1>1, <3>1, <4>2
        <5>2. Max({s.high, best}) = best
          BY <1>1, <3>1, <5>1, MaxOf
        <5> QED
          BY <1>1, <3>1, <4>2, <5>2
      <4> QED
        BY <4>1, <4>2
    <3>4. t.low \in Q /\ t.high \in Q
      BY <1>3, <3>1, <3>2, <3>3
    <3>5. \A y \in P : t.low <= y /\ y <= t.high
      BY <1>1, <1>3, <3>1, <3>2, <3>3
    <3>6. t.low <= best /\ best <= t.high
      BY <1>1, <3>1, <3>2, <3>3
    <3> QED
      BY <1>3, <3>4, <3>5, <3>6
  <2> QED
    BY <2>1, <2>2
<1> QED
  BY <1>1, <1>4, <1>5, <1>6, <1>7 DEF Tells, t, Q

\* What is asked at an instant is a price or nothing, and a price once one was seen.
LEMMA CheapestAtIs ==
  ASSUME RowsInv, ~Tied(Link), NEW order \in Orders(Link), NEW t \in Int
  PROVE  /\ CheapestAt(t) \in MaybePrice
         /\ CheapestAt(t) # None <=>
              \E x \in Looks(Link) : x.at <= t /\ x.link \in StatLinks /\ x.unit # None
<1> DEFINE S == {i \in 1..Len(order) : order[i].at <= t}
           c == Carried(order, S, StatLinks)
<1>1. S \in SUBSET (1..Len(order)) /\ Len(order) \in Nat
  BY OrdersAre
<1>2. Best(c) = CheapestAt(t)
  BY CarriedIsAsked
<1> HIDE DEF S
<1>3. c \in [Link -> MaybePrice]
  BY <1>1, CarriedType DEF MaybePrice
<1>4. \A l \in Link : c[l] = IF l \notin StatLinks \/ Of(order, S, l) = {} THEN None
                             ELSE order[Max(Of(order, S, l))].unit
  BY DEF Carried
<1> HIDE DEF c
<1>5. CheapestAt(t) \in MaybePrice /\ (CheapestAt(t) # None <=> \E l \in Link : c[l] # None)
  BY <1>2, <1>3, BestIs
<1>6. ASSUME NEW l \in Link, c[l] # None
      PROVE  \E x \in Looks(Link) : x.at <= t /\ x.link \in StatLinks /\ x.unit # None
  <2> DEFINE R == Of(order, S, l)
  <2>1. l \in StatLinks /\ R # {} /\ c[l] = order[Max(R)].unit
    BY <1>4, <1>6
  <2>2. R \subseteq 1..Len(order) /\ \A i \in R : order[i].at <= t /\ order[i].link = l
    BY <1>1 DEF Of, S
  <2> HIDE DEF R
  <2>3. Max(R) \in R
    BY <1>1, <2>1, <2>2, LastOf
  <2>4. order[Max(R)] \in Looks(Link)
    BY <2>2, <2>3, OrdersAre
  <2> QED
    BY <1>6, <2>1, <2>2, <2>3, <2>4
<1>7. ASSUME NEW x \in Looks(Link), x.at <= t, x.link \in StatLinks, x.unit # None
      PROVE  \E l \in Link : c[l] # None
  <2>1. PICK i \in 1..Len(order) : order[i] = x
    BY OrdersAre
  <2> DEFINE R == Of(order, S, x.link)
  <2>2. i \in R
    BY <1>7, <2>1 DEF Of, S
  <2>3. x.link \in Link /\ quantity[x.link] # None
    BY <1>7, LooksAre
  <2>4. R \subseteq 1..Len(order) /\ \A j \in R : order[j].link = x.link
    BY <1>1 DEF Of
  <2>5. c[x.link] = order[Max(R)].unit
    BY <1>4, <1>7, <2>2, <2>3
  <2> HIDE DEF R
  <2>6. Max(R) \in R
    BY <1>1, <2>2, <2>4, LastOf
  <2>7. order[Max(R)] \in Looks(Link) /\ order[Max(R)].link = x.link
    BY <2>4, <2>6, OrdersAre
  <2>8. order[Max(R)].unit # None
    BY <2>3, <2>7, LooksAre
  <2> QED
    BY <2>3, <2>5, <2>8
<1> QED
  BY <1>5, <1>6, <1>7

\* What the walk tells of the period so far.
LEMMA StatTells ==
  ASSUME RowsInv, ~Tied(Link), NEW order \in Orders(Link), NEW start \in Nat, NEW walk,
         IsStatWalk(order, start, walk)
  PROVE  \A n \in 0..Len(order) : Tells(walk[n].series, start, Inside(order, start, n))
<1> DEFINE N == Len(order)
           T(n) == Inside(order, start, n)
           good == {n \in 0..N : Tells(walk[n].series, start, T(n))}
<1>1. /\ N \in Nat /\ start - 1 \in Int
      /\ \A i \in 1..N : /\ order[i] \in Looks(Link) /\ order[i].link \in Link
                         /\ order[i].at \in Nat /\ order[i].unit \in MaybePrice
  BY OrdersAre, LooksAre DEF MaybePrice
<1>2. 0 \in good
  <2> DEFINE s == Seeded(order, start)
             P == Passed(order, start, 0)
             c == Carried(order, P, StatLinks)
             opening == CheapestAt(start - 1)
  <2>1. P = {i \in 1..N : order[i].at <= start - 1}
    BY <1>1 DEF Passed
  <2>2. Best(c) = opening
    <3> HIDE DEF P
    <3> QED
      BY <1>1, <2>1, CarriedIsAsked
  <2>3. /\ s.baseline = Best(c) /\ s.last = Best(c) /\ s.low = Best(c) /\ s.high = Best(c)
        /\ s.first = None /\ s.stamps = {}
    BY SeededIs
  <2>4. T(0) = {}
    BY DEF Inside
  <2>5. Span(start, {}) = {opening} \ {None}
    BY DEF Span
  <2>6. opening \in MaybePrice
    BY <1>1, CheapestAtIs
  <2> HIDE DEF c, opening, s
  <2>7. opening # None => opening <= opening
    BY <2>6 DEF MaybePrice
  <2>8. Tells(s, start, {})
    BY <2>2, <2>3, <2>5, <2>7 DEF Tells, opening
  <2>9. walk[0].series = s
    BY DEF IsStatWalk, s
  <2> QED
    <3>1. Tells(walk[0].series, start, T(0))
      BY <2>4, <2>8, <2>9, Zenon
    <3>2. 0 \in 0..N
      BY <1>1
    <3> QED
      BY <3>1, <3>2
<1>3. ASSUME NEW n \in 1..N, n - 1 \in good PROVE n \in good
  <2> DEFINE x == order[n]
             w == walk[n - 1]
             C(m) == Carried(order, Passed(order, start, m), StatLinks)
  <2>1. /\ Tells(w.series, start, T(n - 1)) /\ n - 1 \in 0..N /\ n \in 0..N
        /\ 1..(n - 1) \subseteq 1..N
    BY <1>1, <1>3
  <2>2. /\ w.series \in Series /\ w.series.current = C(n - 1)
        /\ walk[n].series \in Series /\ walk[n].series.current = C(n)
    BY <2>1, StatCurrent
  <2>3. walk[n] = StatStep(order, start, w, n)
    BY DEF IsStatWalk
  <2>4. \A j \in 1..n : j \in 1..(n - 1) \/ j = n
    BY <1>1
  <2>5. CASE x.at < start \/ x.link \notin StatLinks \/ x.unit = None
    <3>1. T(n) = T(n - 1)
      <4>1. \A j \in 1..n : (/\ order[j].at >= start /\ order[j].link \in StatLinks
                             /\ order[j].unit # None) => j \in 1..(n - 1)
        BY <1>1, <2>4, <2>5
      <4>2. 1..(n - 1) \subseteq 1..n
        BY <1>1
      <4> QED
        BY <4>1, <4>2 DEF Inside
    <3>2. walk[n].series = w.series
      <4>1. CASE x.at < start \/ x.link \notin StatLinks
        BY <2>3, <4>1 DEF StatStep
      <4>2. CASE ~(x.at < start) /\ x.link \in StatLinks /\ x.unit = None
        <5>1. walk[n] = Counted(w, x)
          BY <2>3, <4>2 DEF StatStep
        <5>2. walk[n].series = Add(w.series, x)
          BY <5>1 DEF Counted
        <5> QED
          BY <4>2, <5>2 DEF Add
      <4> QED
        BY <2>5, <4>1, <4>2
    <3> QED
      BY <2>1, <3>1, <3>2
  <2>6. CASE x.at >= start /\ x.link \in StatLinks /\ x.unit # None
    <3>1. x.unit \in Nat /\ x.at \in Nat /\ x.link \in Link /\ x.unit \in MaybePrice
      BY <1>1, <2>6 DEF MaybePrice
    <3>2. T(n) = T(n - 1) \cup {x.at}
      <4>1. n \in 1..n /\ 1..(n - 1) \subseteq 1..n
        BY <1>1
      <4>2. T(n) \subseteq T(n - 1) \cup {x.at}
        BY <2>4 DEF Inside
      <4>3. x.at \in T(n)
        BY <2>6, <4>1 DEF Inside
      <4>4. T(n - 1) \subseteq T(n)
        BY <4>1 DEF Inside
      <4> QED
        BY <4>2, <4>3, <4>4
    <3>3. walk[n].series = Add(w.series, x)
      <4>1. walk[n] = Counted(w, x)
        BY <1>1, <2>3, <2>6 DEF StatStep
      <4> QED
        BY <4>1 DEF Counted
    <3>4. [w.series.current EXCEPT ![x.link] = x.unit] = C(n)
      <4> DEFINE s == w.series
      <4>1. s \in Series /\ walk[n].series = Add(s, x)
        BY <2>2, <3>3
      <4> HIDE DEF s, x
      <4>2. Add(s, x).current = [s.current EXCEPT ![x.link] = x.unit]
        BY <2>6, <3>1, <4>1, AddIs
      <4>3. [s.current EXCEPT ![x.link] = x.unit] = walk[n].series.current
        BY <4>1, <4>2
      <4> QED
        BY <2>2, <4>3, Zenon DEF s
    <3>5. Best(C(n)) = CheapestAt(x.at)
      <4>1. Passed(order, start, n) = 1..n
        BY <2>6, PassedStep
      <4>2. \A j \in 1..N : j <= n => order[j].at <= x.at
        BY OrdersAre
      <4>3. \A j \in 1..N : n < j => x.at < order[j].at
        BY Untied
      <4>4. 1..n = {i \in 1..N : order[i].at <= x.at}
        <5>1. \A j \in 1..N : order[j].at <= x.at => j <= n
          BY <1>1, <4>3
        <5>2. \A j \in 1..n : j \in 1..N /\ j <= n
          BY <1>1
        <5>3. \A j \in 1..N : j <= n => j \in 1..n
          BY <1>1
        <5> QED
          BY <4>2, <5>1, <5>2, <5>3
      <4>5. x.at \in Int
        BY <3>1
      <4> QED
        BY <4>1, <4>4, <4>5, CarriedIsAsked
    <3>6. ASSUME NEW u \in T(n - 1)
          PROVE  u \in Nat /\ u < x.at /\ CheapestAt(u) \in Nat
      <4>1. PICK i \in 1..(n - 1) : /\ order[i].link \in StatLinks /\ order[i].unit # None
                                    /\ u = order[i].at
        BY DEF Inside
      <4>2. i \in 1..N /\ i < n
        BY <1>1, <4>1
      <4>3. u \in Nat /\ u < x.at
        BY <1>1, <4>1, <4>2, Untied
      <4>4. u \in Int /\ u <= u
        BY <4>3
      <4>5. CheapestAt(u) \in MaybePrice /\ CheapestAt(u) # None
        BY <1>1, <4>1, <4>2, <4>4, CheapestAtIs
      <4> QED
        BY <4>3, <4>5 DEF MaybePrice
    <3>7. CheapestAt(start - 1) \in MaybePrice
      BY <1>1, CheapestAtIs
    <3>8. T(n - 1) \in SUBSET Nat
      BY <3>6
    <3> DEFINE s == w.series
               V == T(n - 1)
    <3>9. /\ s \in Series /\ Tells(s, start, V)
          /\ Best([s.current EXCEPT ![x.link] = x.unit]) = CheapestAt(x.at)
      BY <2>1, <2>2, <3>4, <3>5
    <3> HIDE DEF s, V, x
    <3>10. Tells(Add(s, x), start, V \cup {x.at})
      BY <2>6, <3>1, <3>6, <3>7, <3>8, <3>9, TellsStep DEF V
    <3> QED
      BY <2>1, <3>2, <3>3, <3>10 DEF V, s
  <2> QED
    BY <1>1, <2>5, <2>6
<1> HIDE DEF good
<1>4. \A n \in 0..N : n \in good
  BY <1>1, <1>2, <1>3, StepByStep
<1> QED
  BY <1>4 DEF good

\* Two different members make a set of two or more.
LEMMA TwoAreTwo ==
  ASSUME NEW S, IsFiniteSet(S), NEW a \in S, NEW b \in S, a # b
  PROVE  Cardinality(S) >= 2
<1>1. IsFiniteSet({a}) /\ Cardinality({a}) = 1
  BY FS_Singleton
<1>2. Cardinality({a} \cup {b}) = 2
  BY <1>1, FS_AddElement
<1>3. {a} \cup {b} \in SUBSET S
  OBVIOUS
<1>4. Cardinality({a} \cup {b}) <= Cardinality(S)
  BY <1>3, FS_Subset
<1>5. Cardinality(S) \in Nat
  BY FS_CardinalityType
<1> QED
  BY <1>2, <1>4, <1>5

\* A period begins on a day that is counted.
LEMMA StartsAreNat == ASSUME RowsInv PROVE Starts \subseteq Nat
<1>1. now \in Int /\ StatsWindow \in Nat
  BY StatsAssumption DEF RowsInv, TypeOK
<1> DEFINE d == now - StatsWindow
<1>2. d \in Int
  BY <1>1
<1>3. Max({0, d}) \in Nat
  <2> HIDE DEF d
  <2>1. CASE d <= 0
    <3>1. Max({0, d}) = 0
      BY <1>2, <2>1, MaxOf
    <3> QED
      BY <3>1
  <2>2. CASE 0 <= d
    <3>1. Max({0, d}) = d
      BY <1>2, <2>2, MaxOf
    <3> QED
      BY <1>2, <2>2, <3>1
  <2> QED
    BY <1>2, <2>1, <2>2
<1> QED
  BY <1>3 DEF Starts

\* The trend that is printed is that of what the cheapest shelf asked.
LEMMA TrendIsTold == ASSUME RowsInv PROVE TrendIsWhatWasAsked
<1> SUFFICES ASSUME ~Tied(Link), NEW order \in Orders(Link), NEW start \in Starts
             PROVE  LET s == BuildStatistics(order, start).series
                        opening == CheapestAt(start - 1)
                        looks == {x.at : x \in {y \in Looks(StatLinks) : y.unit # None}}
                        inside == {t \in looks : t >= start}
                        span == ({CheapestAt(t) : t \in inside} \cup {opening}) \ {None}
                    IN  /\ ChangeStated(s) <=> inside # {} /\ Cardinality(looks) >= 2
                        /\ ChangeStated(s) =>
                             /\ s.last = CheapestAt(Max(inside))
                             /\ StartValue(s) = IF opening # None THEN opening
                                                ELSE CheapestAt(Minimum(inside))
                        /\ looks # {} => s.low = Minimum(span) /\ s.high = Max(span)
  BY DEF TrendIsWhatWasAsked
<1> DEFINE s == BuildStatistics(order, start).series
           opening == CheapestAt(start - 1)
           looks == {x.at : x \in {y \in Looks(StatLinks) : y.unit # None}}
           inside == {t \in looks : t >= start}
           span == ({CheapestAt(t) : t \in inside} \cup {opening}) \ {None}
           N == Len(order)
           priced == {i \in 1..N : order[i].link \in StatLinks /\ order[i].unit # None}
<1>1. start \in Nat
  BY StartsAreNat
<1>2. N \in Nat /\ \A i \in 1..N : order[i].at \in Nat /\ order[i].unit \in MaybePrice
  BY OrdersAre, LooksAre DEF MaybePrice
<1>3. looks = {order[i].at : i \in priced}
  <2>1. \A x : x \in Looks(StatLinks) <=> x \in Looks(Link) /\ x.link \in StatLinks
    <3>1. StatLinks \subseteq Link
      BY DEF StatLinks
    <3>2. \A x \in Looks(StatLinks) : x \in Looks(Link)
      BY <3>1 DEF Looks
    <3>3. \A x \in Looks(StatLinks) : x.link \in StatLinks
      BY <3>1, LooksAre
    <3>4. \A x \in Looks(Link) : x.link \in StatLinks => x \in Looks(StatLinks)
      BY <3>1, LooksAre
    <3> QED
      BY <3>2, <3>3, <3>4
  <2>2. \A i \in priced : order[i] \in Looks(StatLinks) /\ order[i].unit # None
    BY <2>1, OrdersAre
  <2>3. ASSUME NEW x \in Looks(StatLinks), x.unit # None
        PROVE  \E i \in priced : x = order[i]
    BY <2>1, <2>3, OrdersAre
  <2> HIDE DEF priced
  <2>4. \A t \in looks : \E i \in priced : t = order[i].at
    BY <2>3
  <2>5. \A i \in priced : order[i].at \in looks
    BY <2>2
  <2> QED
    BY <2>4, <2>5
<1>4. inside = Inside(order, start, N)
  <2> HIDE DEF looks
  <2> QED
    BY <1>3 DEF Inside
<1>5. IsFiniteSet(looks)
  <2>1. IsFiniteSet(1..N)
    BY <1>2, FS_Interval
  <2>2. IsFiniteSet(priced)
    <3>1. priced \in SUBSET (1..N)
      OBVIOUS
    <3> HIDE DEF priced
    <3> QED
      BY <2>1, <3>1, FS_Subset
  <2> DEFINE f == [i \in priced |-> order[i].at]
  <2> HIDE DEF looks, priced
  <2>3. f \in Surjection(priced, looks)
    BY <1>3 DEF Surjection
  <2> HIDE DEF f
  <2> QED
    BY <2>2, <2>3, FS_Surjection
<1>6. looks \subseteq Nat
  <2> HIDE DEF looks
  <2> QED
    BY <1>2, <1>3
<1>7. Tells(s, start, inside)
  <2>1. PICK walk : IsStatWalk(order, start, walk)
    BY StatWalk
  <2>2. s = walk[N].series
    BY <2>1 DEF IsStatWalk
  <2>3. N \in 0..N
    BY <1>2
  <2> HIDE DEF inside, s
  <2> QED
    BY <1>1, <1>4, <2>1, <2>2, <2>3, StatTells
<1>8. span = Span(start, inside)
  BY DEF Span
<1>9. ASSUME NEW t \in Int
      PROVE  CheapestAt(t) \in MaybePrice /\ (CheapestAt(t) # None <=> \E u \in looks : u <= t)
  <2>1. /\ CheapestAt(t) \in MaybePrice
        /\ CheapestAt(t) # None <=>
              \E x \in Looks(Link) : x.at <= t /\ x.link \in StatLinks /\ x.unit # None
    BY CheapestAtIs
  <2>2. (\E x \in Looks(Link) : x.at <= t /\ x.link \in StatLinks /\ x.unit # None)
          <=> \E i \in priced : order[i].at <= t
    BY OrdersAre
  <2>3. (\E i \in priced : order[i].at <= t) <=> \E u \in looks : u <= t
    <3> HIDE DEF looks, priced
    <3> QED
      BY <1>3
  <2> QED
    BY <2>1, <2>2, <2>3
<1>10. opening \in MaybePrice /\ (opening # None <=> \E u \in looks : u < start)
  <2>1. start - 1 \in Int
    BY <1>1
  <2>2. \A u \in looks : u < start <=> u <= start - 1
    BY <1>1, <1>6
  <2> HIDE DEF looks
  <2> QED
    BY <1>9, <2>1, <2>2
<1>11. \A t \in looks : CheapestAt(t) \in Nat /\ CheapestAt(t) # None
  <2> SUFFICES ASSUME NEW t \in looks PROVE CheapestAt(t) \in Nat /\ CheapestAt(t) # None
    OBVIOUS
  <2>1. t \in Nat /\ t <= t
    BY <1>6
  <2> HIDE DEF looks
  <2>2. CheapestAt(t) \in MaybePrice /\ CheapestAt(t) # None
    BY <1>9, <2>1
  <2> QED
    BY <2>2 DEF MaybePrice
<1>12. \A t : t \in inside <=> t \in looks /\ t >= start
  <2> HIDE DEF looks
  <2> QED
    OBVIOUS
<1>13. span = ({CheapestAt(t) : t \in inside} \cup {opening}) \ {None}
  OBVIOUS
<1> HIDE DEF s, looks, inside, opening, span
<1>14. /\ s.stamps = inside /\ s.baseline = opening
       /\ inside # {} => /\ \E m \in inside : (\A u \in inside : m <= u) /\ s.first = CheapestAt(m)
                         /\ \E m \in inside : (\A u \in inside : u <= m) /\ s.last = CheapestAt(m)
       /\ span # {} => /\ s.low \in span /\ s.high \in span
                       /\ \A y \in span : s.low <= y /\ y <= s.high
  BY <1>7, <1>8 DEF Tells, opening
<1>15. inside \subseteq looks /\ inside \subseteq Int
  <2>1. inside \subseteq looks
    BY <1>12
  <2> QED
    BY <1>6, <2>1
<1>16. ChangeStated(s) <=> inside # {} /\ Cardinality(looks) >= 2
  <2>1. inside # {} => StartValue(s) # None /\ s.last # None
    BY <1>11, <1>14, <1>15 DEF StartValue
  <2>2. ChangeStated(s) <=> inside # {} /\ (opening # None \/ Cardinality(inside) >= 2)
    BY <1>14, <2>1 DEF ChangeStated
  <2>3. CASE opening = None
    <3>1. inside = looks
      <4>1. \A u \in looks : u \in Nat /\ ~(u < start)
        BY <1>6, <1>10, <2>3
      <4>2. \A u \in looks : u >= start
        BY <1>1, <4>1
      <4> QED
        BY <1>12, <4>2
    <3> QED
      BY <2>2, <2>3, <3>1
  <2>4. CASE opening # None
    <3>1. PICK u \in looks : u < start
      BY <1>10, <2>4
    <3>2. ASSUME inside # {} PROVE Cardinality(looks) >= 2
      <4>1. PICK v \in inside : TRUE
        BY <3>2
      <4>2. v \in looks /\ v >= start /\ u # v
        BY <1>1, <1>6, <1>12, <3>1, <4>1
      <4> QED
        BY <1>5, <3>1, <4>2, TwoAreTwo
    <3> QED
      BY <2>2, <2>4, <3>2
  <2> QED
    BY <2>3, <2>4
<1>17. ASSUME ChangeStated(s)
       PROVE  /\ s.last = CheapestAt(Max(inside))
              /\ StartValue(s) = IF opening # None THEN opening ELSE CheapestAt(Minimum(inside))
  <2>1. inside # {}
    BY <1>14, <1>17 DEF ChangeStated
  <2>2. PICK m \in inside : (\A u \in inside : m <= u) /\ s.first = CheapestAt(m)
    BY <1>14, <2>1
  <2>3. PICK k \in inside : (\A u \in inside : u <= k) /\ s.last = CheapestAt(k)
    BY <1>14, <2>1
  <2>4. Minimum(inside) = m
    BY <1>15, <2>2, MinimumOf
  <2>5. Max(inside) = k
    BY <1>15, <2>3, MaxOf
  <2> QED
    BY <1>14, <2>2, <2>3, <2>4, <2>5 DEF StartValue
<1>18. ASSUME looks # {} PROVE s.low = Minimum(span) /\ s.high = Max(span)
  <2>1. span # {}
    <3>1. PICK t \in looks : TRUE
      BY <1>18
    <3>2. CASE t < start
      BY <1>10, <1>13, <3>1, <3>2
    <3>3. CASE t >= start
      BY <1>11, <1>12, <1>13, <3>1, <3>3
    <3> QED
      BY <1>1, <1>6, <3>2, <3>3
  <2>2. span \subseteq Int
    <3>1. \A t \in inside : CheapestAt(t) \in Int
      BY <1>11, <1>15
    <3>2. opening # None => opening \in Int
      BY <1>10 DEF MaybePrice
    <3> QED
      BY <1>13, <3>1, <3>2
  <2>3. Minimum(span) = s.low
    BY <1>14, <2>1, <2>2, MinimumOf
  <2>4. Max(span) = s.high
    BY <1>14, <2>1, <2>2, MaxOf
  <2> QED
    BY <2>3, <2>4
<1> QED
  BY <1>16, <1>17, <1>18 DEF s, looks, inside, opening, span

\* The change, low and high that are printed for a period are those of what the
\* cheapest active shelf asked over it: _ProductSeries carries forward what each
\* link was last seen at, from before the period too, and forgets nothing.
THEOREM TrendsAreAsAsked == Spec => []TrendIsWhatWasAsked
<1>1. RowsInv => TrendIsWhatWasAsked
  BY TrendIsTold
<1> QED
  BY <1>1, RowsAlways, PTL

-----------------------------------------------------------------------------
(* Stats: the campaigns. *)

\* What product_offer_occasions carries, of all links.
LEMMA OccasionCurrent ==
  ASSUME RowsInv, NEW order \in Orders(Link), NEW start \in Nat, NEW walk,
         IsOccasionWalk(order, start, walk)
  PROVE  \A n \in 0..Len(order) :
           /\ walk[n].series \in Series
           /\ walk[n].series.current = Carried(order, 1..n, Link)
<1> DEFINE N == Len(order)
           C(n) == Carried(order, 1..n, Link)
           good == {n \in 0..N : walk[n].series \in Series /\ walk[n].series.current = C(n)}
<1>1. N \in Nat
  BY OrdersAre
<1>2. 0 \in good
  <2>1. walk[0].series = NewSeries
    BY DEF IsOccasionWalk
  <2>2. NewSeries \in Series /\ NewSeries.current = [l \in Link |-> None]
    BY DEF NewSeries, Unpriced, Series, MaybePrice
  <2>3. C(0) = [l \in Link |-> None]
    BY DEF Carried, Of
  <2>4. walk[0].series \in Series /\ walk[0].series.current = C(0)
    BY <2>1, <2>2, <2>3, Zenon
  <2>5. 0 \in 0..N
    BY <1>1
  <2> QED
    BY <2>4, <2>5
<1>3. ASSUME NEW n \in 1..N, n - 1 \in good PROVE n \in good
  <2> DEFINE x == order[n]
             w == walk[n - 1]
             s == w.series
  <2>1. s \in Series /\ s.current = C(n - 1)
    BY <1>3
  <2>2. walk[n] = OccasionStep(w, x, start)
    BY DEF IsOccasionWalk
  <2>3. x \in Looks(Link) /\ x.link \in Link /\ x.at \in Nat /\ x.unit \in MaybePrice
    BY OrdersAre, LooksAre DEF MaybePrice
  <2>4. C(n) = IF x.unit = None THEN C(n - 1) ELSE [C(n - 1) EXCEPT ![x.link] = x.unit]
    <3> DEFINE S == 1..(n - 1)
    <3>1. 1..n = S \cup {n}
      BY <1>1
    <3> HIDE DEF S
    <3>2. S \in SUBSET (1..(n - 1))
      BY DEF S
    <3>3. Carried(order, S \cup {n}, Link) =
            IF x.link \notin Link \/ x.unit = None THEN Carried(order, S, Link)
            ELSE [Carried(order, S, Link) EXCEPT ![x.link] = x.unit]
      BY <3>2, CarriedStep
    <3> QED
      BY <2>3, <3>1, <3>3 DEF S
  <2> HIDE DEF C
  <2>5. walk[n].series = IF x.at < start THEN Seed(s, x) ELSE Add(s, x)
    BY <2>2 DEF OccasionStep
  <2>6. Seed(s, x) \in Series /\ Seed(s, x).current = C(n)
    <3>1. CASE x.unit = None
      BY <2>1, <2>4, <3>1 DEF Seed
    <3>2. CASE x.unit # None
      <4> DEFINE c == [s.current EXCEPT ![x.link] = x.unit]
      <4>1. c \in [Link -> MaybePrice] /\ c = C(n)
        BY <2>1, <2>3, <2>4, <3>2 DEF Series
      <4>2. Seed(s, x) = [s EXCEPT !.current = c]
        BY <2>1, <3>2 DEF Seed, Series
      <4> HIDE DEF c, s
      <4>3. [s EXCEPT !.current = c] \in Series /\ [s EXCEPT !.current = c].current = c
        BY <2>1, <4>1 DEF Series
      <4> QED
        BY <4>1, <4>2, <4>3
    <3> QED
      BY <3>1, <3>2
  <2>7. Add(s, x) \in Series /\ Add(s, x).current = C(n)
    <3> HIDE DEF s, x
    <3>1. Add(s, x) \in Series
      BY <2>1, <2>3, AddIs
    <3>2. Add(s, x).current = IF x.unit = None THEN s.current ELSE [s.current EXCEPT ![x.link] = x.unit]
      BY <2>1, <2>3, AddIs
    <3> QED
      BY <2>1, <2>4, <3>1, <3>2
  <2> QED
    BY <1>1, <2>5, <2>6, <2>7
<1> HIDE DEF good
<1>4. \A n \in 0..N : n \in good
  BY <1>1, <1>2, <1>3, StepByStep
<1> QED
  BY <1>4 DEF good

\* How the n-th look is judged against what the links A asked before it.
Judgement(order, A, n) ==
  WasCheapest(order[n].unit,
              Best([Carried(order, 1..(n - 1), A) EXCEPT ![order[n].link] = None]))

\* The campaigns among the first n looks, and those a store is counted for.
Campaigns(order, start, n) == {i \in 1..n : order[i].at >= start /\ order[i].offer}
Counts(order, start, n, s) ==
  {i \in Campaigns(order, start, n) : order[i].link \in StatLinks /\ StoreOf[order[i].link] = s}

\* The rows of a product's table.
LEMMA OccasionRows ==
  ASSUME RowsInv, NEW order \in Orders(Link), NEW start \in Nat
  PROVE  OfferOccasions(order, start) =
           {[look |-> order[i], verdict |-> Judgement(order, Link, i)] :
              i \in Campaigns(order, start, Len(order))}
<1> DEFINE N == Len(order)
           row(i) == [look |-> order[i], verdict |-> Judgement(order, Link, i)]
           R(n) == {row(i) : i \in Campaigns(order, start, n)}
<1>1. N \in Nat /\ \A i \in 1..N : order[i].at \in Nat /\ order[i].offer \in BOOLEAN
  BY OrdersAre, LooksAre
<1>2. PICK walk : IsOccasionWalk(order, start, walk)
  BY OccasionWalk
<1> DEFINE good == {n \in 0..N : walk[n].rows = R(n)}
<1>3. 0 \in good
  <2>1. walk[0].rows = {}
    BY <1>2 DEF IsOccasionWalk
  <2>2. Campaigns(order, start, 0) = {}
    BY DEF Campaigns
  <2> QED
    BY <1>1, <2>1, <2>2
<1>4. ASSUME NEW n \in 1..N, n - 1 \in good PROVE n \in good
  <2> DEFINE x == order[n]
             w == walk[n - 1]
  <2>1. w.rows = R(n - 1) /\ n - 1 \in 0..N /\ n \in 0..N
    BY <1>1, <1>4
  <2>2. walk[n] = OccasionStep(w, x, start)
    BY <1>2 DEF IsOccasionWalk
  <2>3. w.series.current = Carried(order, 1..(n - 1), Link)
    BY <1>2, <2>1, OccasionCurrent
  <2>4. 1..n = (1..(n - 1)) \cup {n}
    BY <1>1
  <2>5. CASE x.at < start \/ ~x.offer
    <3>1. walk[n].rows = w.rows
      BY <2>2, <2>5 DEF OccasionStep
    <3>2. ~(x.at >= start /\ x.offer)
      BY <1>1, <2>5
    <3>3. Campaigns(order, start, n) = Campaigns(order, start, n - 1)
      BY <2>4, <3>2 DEF Campaigns
    <3> QED
      BY <2>1, <3>1, <3>3
  <2>6. CASE x.at >= start /\ x.offer
    <3>1. ~(x.at < start)
      BY <1>1, <2>6
    <3>2. walk[n].rows = w.rows \cup
            {[look |-> x, verdict |-> WasCheapest(x.unit, BestExcluding(w.series, x.link))]}
      BY <2>2, <2>6, <3>1 DEF OccasionStep
    <3>3. BestExcluding(w.series, x.link) = Best([Carried(order, 1..(n - 1), Link) EXCEPT ![x.link] = None])
      BY <2>3 DEF BestExcluding
    <3>4. walk[n].rows = w.rows \cup {row(n)}
      BY <3>2, <3>3 DEF Judgement
    <3>5. Campaigns(order, start, n) = Campaigns(order, start, n - 1) \cup {n}
      BY <2>4, <2>6 DEF Campaigns
    <3> HIDE DEF row
    <3>6. R(n) = R(n - 1) \cup {row(n)}
      BY <3>5
    <3> QED
      BY <2>1, <3>4, <3>6
  <2> QED
    BY <1>1, <2>5, <2>6
<1> HIDE DEF good
<1>5. \A n \in 0..N : n \in good
  BY <1>1, <1>3, <1>4, StepByStep
<1>6. walk[N].rows = R(N)
  BY <1>1, <1>5 DEF good
<1> QED
  BY <1>2, <1>6 DEF IsOccasionWalk

\* The campaigns of a store, and how many of them were judged and found cheapest.
Tally(order, C) ==
  [offers |-> Cardinality(C),
   judged |-> Cardinality({i \in C : Judgement(order, StatLinks, i) # "unjudged"}),
   cheapest |-> Cardinality({i \in C : Judgement(order, StatLinks, i) = "cheapest"})]

\* One more campaign.
LEMMA TallyStep ==
  ASSUME NEW order, NEW C, IsFiniteSet(C), NEW n, n \notin C
  PROVE  Tally(order, C \cup {n}) = Judged(Tally(order, C), Judgement(order, StatLinks, n))
<1> DEFINE v(i) == Judgement(order, StatLinks, i)
           J(S) == {i \in S : v(i) # "unjudged"}
           B(S) == {i \in S : v(i) = "cheapest"}
           D == C \cup {n}
<1> HIDE DEF v
<1>1. Cardinality(D) = Cardinality(C) + 1 /\ Cardinality(C) \in Nat
  BY FS_AddElement, FS_CardinalityType
<1>2. Cardinality(J(D)) = Cardinality(J(C)) + (IF v(n) # "unjudged" THEN 1 ELSE 0)
  <2>1. J(C) \in SUBSET C /\ n \notin J(C)
    OBVIOUS
  <2>2. J(D) = IF v(n) # "unjudged" THEN J(C) \cup {n} ELSE J(C)
    OBVIOUS
  <2> HIDE DEF J
  <2>3. IsFiniteSet(J(C))
    BY <2>1, FS_Subset
  <2>4. Cardinality(J(C) \cup {n}) = Cardinality(J(C)) + 1 /\ Cardinality(J(C)) \in Nat
    BY <2>1, <2>3, FS_AddElement, FS_CardinalityType
  <2> QED
    BY <2>2, <2>4
<1>3. Cardinality(B(D)) = Cardinality(B(C)) + (IF v(n) = "cheapest" THEN 1 ELSE 0)
  <2>1. B(C) \in SUBSET C /\ n \notin B(C)
    OBVIOUS
  <2>2. B(D) = IF v(n) = "cheapest" THEN B(C) \cup {n} ELSE B(C)
    OBVIOUS
  <2> HIDE DEF B
  <2>3. IsFiniteSet(B(C))
    BY <2>1, FS_Subset
  <2>4. Cardinality(B(C) \cup {n}) = Cardinality(B(C)) + 1 /\ Cardinality(B(C)) \in Nat
    BY <2>1, <2>3, FS_AddElement, FS_CardinalityType
  <2> QED
    BY <2>2, <2>4
<1>4. /\ Tally(order, C) = [offers |-> Cardinality(C), judged |-> Cardinality(J(C)), cheapest |-> Cardinality(B(C))]
      /\ Tally(order, D) = [offers |-> Cardinality(D), judged |-> Cardinality(J(D)), cheapest |-> Cardinality(B(D))]
  BY DEF Tally, v
<1> HIDE DEF J, B, D
<1>5. Tally(order, D) = Judged(Tally(order, C), v(n))
  BY <1>1, <1>2, <1>3, <1>4 DEF Judged
<1> QED
  BY <1>5 DEF D, v

\* The numbers build_statistics gives the stores.
LEMMA StoreTallies ==
  ASSUME RowsInv, NEW order \in Orders(Link), NEW start \in Nat
  PROVE  BuildStatistics(order, start).stores =
           [s \in Shop |-> Tally(order, Counts(order, start, Len(order), s))]
<1> DEFINE N == Len(order)
           K(n, s) == Counts(order, start, n, s)
           R(n) == [s \in Shop |-> Tally(order, K(n, s))]
<1>1. N \in Nat /\ \A i \in 1..N : order[i].at \in Nat /\ order[i].offer \in BOOLEAN
                                   /\ order[i].link \in Link
  BY OrdersAre, LooksAre
<1>2. PICK walk : IsStatWalk(order, start, walk)
  BY StatWalk
<1> DEFINE good == {n \in 0..N : walk[n].stores = R(n)}
<1>3. 0 \in good
  <2>1. walk[0].stores = [s \in Shop |-> NoOffers]
    BY <1>2 DEF IsStatWalk
  <2>2. \A s \in Shop : K(0, s) = {}
    BY DEF Counts, Campaigns
  <2>3. Tally(order, {}) = NoOffers
    <3>1. \A S : S \subseteq {} => Cardinality(S) = 0
      <4>1. Cardinality({}) = 0
        BY FS_EmptySet
      <4>2. \A S : S \subseteq {} => S = {}
        OBVIOUS
      <4> QED
        BY <4>1, <4>2, Zenon
    <3>2. /\ {i \in {} : Judgement(order, StatLinks, i) # "unjudged"} \subseteq {}
          /\ {i \in {} : Judgement(order, StatLinks, i) = "cheapest"} \subseteq {}
          /\ {} \subseteq {}
      OBVIOUS
    <3> QED
      BY <3>1, <3>2, Zenon DEF Tally, NoOffers
  <2> HIDE DEF K
  <2>4. R(0) = [s \in Shop |-> NoOffers]
    BY <2>2, <2>3
  <2>5. walk[0].stores = R(0) /\ 0 \in 0..N
    BY <1>1, <2>1, <2>4
  <2> QED
    BY <2>5
<1>4. ASSUME NEW n \in 1..N, n - 1 \in good PROVE n \in good
  <2> DEFINE x == order[n]
             w == walk[n - 1]
             v == Judgement(order, StatLinks, n)
  <2>1. w.stores = R(n - 1) /\ n - 1 \in 0..N /\ n \in 0..N
    BY <1>1, <1>4
  <2>2. walk[n] = StatStep(order, start, w, n)
    BY <1>2 DEF IsStatWalk
  <2>3. w.series.current = Carried(order, Passed(order, start, n - 1), StatLinks)
    BY <1>2, <2>1, StatCurrent
  <2>4. 1..n = (1..(n - 1)) \cup {n}
    BY <1>1
  <2>5. CASE x.at < start \/ x.link \notin StatLinks \/ ~x.offer
    <3>1. walk[n].stores = w.stores
      <4>1. CASE x.at < start \/ x.link \notin StatLinks
        BY <2>2, <4>1 DEF StatStep
      <4>2. CASE ~(x.at < start \/ x.link \notin StatLinks) /\ ~x.offer
        <5>1. walk[n] = Counted(w, x)
          BY <2>2, <4>2 DEF StatStep
        <5> QED
          BY <4>2, <5>1 DEF Counted
      <4> QED
        BY <2>5, <4>1, <4>2
    <3>2. ~(x.at >= start /\ x.offer /\ x.link \in StatLinks)
      BY <1>1, <2>5
    <3>3. \A s \in Shop : K(n, s) = K(n - 1, s)
      BY <2>4, <3>2 DEF Counts, Campaigns
    <3> HIDE DEF K
    <3>4. R(n) = R(n - 1)
      BY <3>3
    <3> QED
      BY <2>1, <3>1, <3>4
  <2>6. CASE x.at >= start /\ x.link \in StatLinks /\ x.offer
    <3> DEFINE t == StoreOf[x.link]
    <3>1. walk[n] = Counted(w, x)
      <4>1. ~(x.at < start)
        BY <1>1, <2>6
      <4> QED
        BY <2>2, <2>6, <4>1 DEF StatStep
    <3>2. walk[n].stores = [w.stores EXCEPT ![t] =
                              Judged(@, WasCheapest(x.unit, BestExcluding(w.series, x.link)))]
      BY <2>6, <3>1 DEF Counted
    <3>3. WasCheapest(x.unit, BestExcluding(w.series, x.link)) = v
      <4>1. Passed(order, start, n - 1) = 1..(n - 1)
        BY <2>6, PassedStep
      <4> QED
        BY <2>3, <4>1 DEF BestExcluding, Judgement
    <3>4. t \in Shop
      BY <1>1 DEF Shop
    <3>5. \A s \in Shop : s # t => K(n, s) = K(n - 1, s)
      BY <2>4 DEF Counts, Campaigns
    <3>6. K(n, t) = K(n - 1, t) \cup {n}
      BY <2>4, <2>6 DEF Counts, Campaigns
    <3>7. IsFiniteSet(K(n - 1, t)) /\ n \notin K(n - 1, t)
      <4> DEFINE m == n - 1
      <4>1. m \in Int /\ n \notin 1..m
        BY <1>1
      <4> HIDE DEF m
      <4>2. IsFiniteSet(1..m)
        BY <4>1, FS_Interval
      <4>3. Counts(order, start, m, t) \in SUBSET (1..m)
        BY DEF Counts, Campaigns
      <4>4. IsFiniteSet(Counts(order, start, m, t))
        BY <4>2, <4>3, FS_Subset
      <4> QED
        BY <4>1, <4>3, <4>4 DEF m
    <3> HIDE DEF K, v, t
    <3>8. Tally(order, K(n, t)) = Judged(Tally(order, K(n - 1, t)), v)
      BY <3>6, <3>7, TallyStep DEF v
    <3>9. walk[n].stores = [R(n - 1) EXCEPT ![t] = Judged(@, v)]
      BY <2>1, <3>2, <3>3
    <3>10. R(n) = [R(n - 1) EXCEPT ![t] = Judged(@, v)]
      BY <3>4, <3>5, <3>8
    <3> QED
      BY <2>1, <3>9, <3>10
  <2> QED
    BY <1>1, <2>5, <2>6
<1> HIDE DEF good
<1>5. \A n \in 0..N : n \in good
  BY <1>1, <1>3, <1>4, StepByStep
<1>6. walk[N].stores = R(N)
  BY <1>1, <1>5 DEF good
<1> QED
  BY <1>2, <1>6 DEF IsStatWalk

\* Distinct rows are as many as what they stand for.
LEMMA RowsAreAsMany ==
  ASSUME NEW I, IsFiniteSet(I), NEW V, NEW f \in [I -> V], \A i, j \in I : f[i] = f[j] => i = j
  PROVE  Cardinality({f[i] : i \in I}) = Cardinality(I)
<1> DEFINE T == {f[i] : i \in I}
<1>1. f \in [I -> T]
  OBVIOUS
<1>2. f \in Surjection(I, T) /\ f \in Injection(I, T)
  BY <1>1 DEF Surjection, Injection, IsInjective
<1> HIDE DEF T
<1> QED
  BY <1>1, <1>2, FS_Surjection DEF T

\* The number of a store's campaigns and the rows of the table agree.
LEMMA CampaignsAgree == ASSUME RowsInv PROVE CampaignsAreCountedAlike
<1> SUFFICES ASSUME ~Tied(Link), NEW order \in Orders(Link), NEW start \in Starts
             PROVE  LET rows == OfferOccasions(order, start)
                        stores == BuildStatistics(order, start).stores
                        of(s) == {r \in rows : r.look.link \in StatLinks /\ StoreOf[r.look.link] = s}
                        retired == \E x \in Looks(Link \ StatLinks) : x.unit # None
                    IN  /\ {r.look : r \in rows} = {x \in HistoryRows(start) : x.offer}
                        /\ \A s \in Shop :
                             /\ stores[s].offers = Cardinality(of(s))
                             /\ \/ retired
                                \/ /\ stores[s].judged = Cardinality({r \in of(s) : r.verdict # "unjudged"})
                                   /\ stores[s].cheapest = Cardinality({r \in of(s) : r.verdict = "cheapest"})
  BY DEF CampaignsAreCountedAlike
<1> DEFINE N == Len(order)
           rows == OfferOccasions(order, start)
           stores == BuildStatistics(order, start).stores
           of(s) == {r \in rows : r.look.link \in StatLinks /\ StoreOf[r.look.link] = s}
           retired == \E x \in Looks(Link \ StatLinks) : x.unit # None
           C == Campaigns(order, start, N)
           K(s) == Counts(order, start, N, s)
           v(i) == Judgement(order, Link, i)
           row == [i \in C |-> [look |-> order[i], verdict |-> v(i)]]
<1>1. start \in Nat
  BY StartsAreNat
<1>2. /\ N \in Nat /\ \A i \in 1..N : order[i] \in Looks(Link) /\ order[i].link \in Link
      /\ \A i, j \in 1..N : order[i] = order[j] => i = j
  BY OrdersAre, LooksAre
<1>3. rows = {row[i] : i \in C}
  <2>1. rows = {[look |-> order[i], verdict |-> v(i)] : i \in C}
    BY <1>1, OccasionRows
  <2> HIDE DEF rows, C, v
  <2> QED
    BY <2>1
<1>4. \A s \in Shop : stores[s] = Tally(order, K(s))
  BY <1>1, StoreTallies
<1>5. {r.look : r \in rows} = {x \in HistoryRows(start) : x.offer}
  <2>1. {r.look : r \in rows} = {order[i] : i \in C}
    <3>1. \A i \in C : row[i].look = order[i]
      OBVIOUS
    <3> HIDE DEF rows, C, row
    <3> QED
      BY <1>3, <3>1
  <2>2. {order[i] : i \in C} = {x \in HistoryRows(start) : x.offer}
    <3>1. \A i \in C : order[i] \in HistoryRows(start) /\ order[i].offer
      BY <1>2 DEF Campaigns, HistoryRows
    <3>2. ASSUME NEW x \in HistoryRows(start), x.offer PROVE \E i \in C : order[i] = x
      <4>1. x \in Looks(Link) /\ x.at >= start
        BY DEF HistoryRows
      <4>2. PICK i \in 1..N : order[i] = x
        BY <4>1, OrdersAre
      <4> QED
        BY <3>2, <4>1, <4>2 DEF Campaigns
    <3> HIDE DEF C
    <3> QED
      BY <3>1, <3>2
  <2> QED
    BY <2>1, <2>2
<1>6. ~retired => \A i \in C : Judgement(order, StatLinks, i) = v(i)
  <2> SUFFICES ASSUME ~retired, NEW i \in C PROVE Judgement(order, StatLinks, i) = v(i)
    OBVIOUS
  <2> DEFINE S == 1..(i - 1)
  <2>1. i \in 1..N /\ S \subseteq 1..N
    BY <1>2 DEF Campaigns
  <2>2. ASSUME NEW l \in Link, l \notin StatLinks, Of(order, S, l) # {}
        PROVE  order[Max(Of(order, S, l))].unit = None
    <3> DEFINE R == Of(order, S, l)
    <3>1. R \subseteq 1..N /\ \A j \in R : order[j].link = l
      BY <2>1 DEF Of
    <3> HIDE DEF R
    <3>2. R # {}
      BY <2>2 DEF R
    <3>3. Max(R) \in R
      BY <1>2, <3>1, <3>2, LastOf
    <3>4. order[Max(R)] \in Looks(Link) /\ order[Max(R)].link = l
      BY <1>2, <3>1, <3>3
    <3>5. order[Max(R)] \in Looks(Link \ StatLinks)
      <4>1. Link \ StatLinks \in SUBSET Link
        OBVIOUS
      <4>2. l \in Link \ StatLinks
        BY <2>2
      <4> HIDE DEF R
      <4> QED
        BY <3>4, <4>1, <4>2, LooksAre
    <3> QED
      BY <3>5 DEF R
  <2> HIDE DEF S
  <2>3. Carried(order, S, StatLinks) = Carried(order, S, Link)
    BY <2>2 DEF Carried
  <2> QED
    BY <2>3 DEF Judgement, S
<1>7. /\ IsFiniteSet(C) /\ C \subseteq 1..N
      /\ \A i, j \in C : row[i] = row[j] => i = j
  <2>0. IsFiniteSet(1..N)
    BY <1>2, FS_Interval
  <2>1. C \in SUBSET (1..N) /\ IsFiniteSet(1..N)
    BY <2>0 DEF Campaigns
  <2> HIDE DEF C, v
  <2>2. IsFiniteSet(C)
    BY <2>1, FS_Subset
  <2>3. \A i, j \in C : row[i] = row[j] => order[i] = order[j]
    <3>1. \A i \in C : row[i].look = order[i]
      OBVIOUS
    <3> HIDE DEF row
    <3> QED
      BY <3>1
  <2> HIDE DEF row
  <2> QED
    BY <1>2, <2>1, <2>2, <2>3
<1>8. \A i \in C : row[i].look = order[i] /\ row[i].verdict = v(i)
  <2> HIDE DEF C, v
  <2> QED
    OBVIOUS
<1>9. DOMAIN row = C
  OBVIOUS
<1>10. ASSUME NEW I \in SUBSET C PROVE Cardinality({row[i] : i \in I}) = Cardinality(I)
  <2> DEFINE f == [i \in I |-> row[i]]
  <2> HIDE DEF row, C
  <2>1. IsFiniteSet(I)
    BY <1>7, FS_Subset
  <2> DEFINE V == {row[i] : i \in I}
  <2>2. f \in [I -> V] /\ \A i, j \in I : f[i] = f[j] => i = j
    BY <1>7
  <2>3. {f[i] : i \in I} = {row[i] : i \in I}
    OBVIOUS
  <2> HIDE DEF f, V
  <2>4. Cardinality({f[i] : i \in I}) = Cardinality(I)
    BY <2>1, <2>2, RowsAreAsMany
  <2> QED
    BY <2>3, <2>4
<1>11. ASSUME NEW s \in Shop
       PROVE  /\ stores[s].offers = Cardinality(of(s))
              /\ \/ retired
                 \/ /\ stores[s].judged = Cardinality({r \in of(s) : r.verdict # "unjudged"})
                    /\ stores[s].cheapest = Cardinality({r \in of(s) : r.verdict = "cheapest"})
  <2> DEFINE I == K(s)
             J == {i \in I : Judgement(order, StatLinks, i) # "unjudged"}
             B == {i \in I : Judgement(order, StatLinks, i) = "cheapest"}
  <2>1. \A i : i \in I <=> i \in C /\ order[i].link \in StatLinks /\ StoreOf[order[i].link] = s
    BY DEF Counts
  <2>2. stores[s] = [offers |-> Cardinality(I), judged |-> Cardinality(J), cheapest |-> Cardinality(B)]
    BY <1>4 DEF Tally
  <2> HIDE DEF stores, C, K, row, v, retired, I, rows
  <2>3. I \in SUBSET C /\ J \in SUBSET C /\ B \in SUBSET C
    BY <2>1
  <2>4. of(s) = {row[i] : i \in I}
    BY <1>3, <1>8, <2>1
  <2>5. ASSUME ~retired
        PROVE  /\ {r \in of(s) : r.verdict # "unjudged"} = {row[i] : i \in J}
               /\ {r \in of(s) : r.verdict = "cheapest"} = {row[i] : i \in B}
    <3>1. \A i \in I : row[i].verdict = Judgement(order, StatLinks, i)
      BY <1>6, <1>8, <2>3, <2>5
    <3> HIDE DEF of
    <3> QED
      BY <2>4, <3>1
  <2> HIDE DEF of, J, B
  <2> QED
    BY <1>10, <2>2, <2>3, <2>4, <2>5
<1> HIDE DEF rows, stores, of, retired
<1>12. /\ {r.look : r \in rows} = {x \in HistoryRows(start) : x.offer}
       /\ \A s \in Shop :
            /\ stores[s].offers = Cardinality(of(s))
            /\ \/ retired
               \/ /\ stores[s].judged = Cardinality({r \in of(s) : r.verdict # "unjudged"})
                  /\ stores[s].cheapest = Cardinality({r \in of(s) : r.verdict = "cheapest"})
  BY <1>5, <1>11
<1> QED
  BY <1>12 DEF rows, stores, of, retired

\* The campaigns a store is counted for, the rows of the product's table and the
\* rings of its chart are the same, and judged alike: the two walks carry the
\* same prices when no retired link has any.
THEOREM CampaignsAreTheSame == Spec => []CampaignsAreCountedAlike
<1>1. RowsInv => CampaignsAreCountedAlike
  BY CampaignsAgree
<1> QED
  BY <1>1, RowsAlways, PTL

-----------------------------------------------------------------------------
(* Stats: what the views make of the present. *)

\* Of two shelves, the cheaper per unit is not rounded above the other.
LEMMA RoundingKeepsOrder ==
  ASSUME NEW p \in Nat, NEW q \in Nat, NEW a \in Nat \ {0}, NEW b \in Nat \ {0},
         NEW A \in Nat \ {0}, NEW B \in Nat \ {0}, a * A = b * B, p * A <= q * B
  PROVE  (2 * p + a) \div (2 * a) <= (2 * q + b) \div (2 * b)
<1> DEFINE m == 2 * p + a
           n == 2 * q + b
           c == 2 * a
           d == 2 * b
           u == m \div c
           v == n \div d
<1>1. m \in Nat /\ n \in Nat /\ c \in Nat \ {0} /\ d \in Nat \ {0}
  OBVIOUS
<1>2. u \in Nat /\ v \in Nat /\ u * c <= m /\ n < v * d + d
  <2> HIDE DEF m, n, c, d
  <2> QED
    BY <1>1
<1>3. SUFFICES ASSUME v + 1 <= u PROVE FALSE
  <2> HIDE DEF u, v
  <2>1. u <= v
    BY <1>2, <1>3
  <2> QED
    BY <2>1 DEF u, v
<1> DEFINE w == 2 * u - 1
<1> HIDE DEF u, v
<1>4. w \in Nat
  BY <1>2, <1>3
<1>5. a * w <= 2 * p
  <2>1. a * w = u * c - a
    BY <1>2
  <2>2. u * c \in Nat /\ a * w \in Int
    BY <1>1, <1>2, <1>4
  <2> HIDE DEF w, c
  <2> QED
    BY <1>2, <2>1, <2>2
<1>6. 2 * q < b * w
  <2>1. (v + 1) * d <= u * d
    <3> HIDE DEF d
    <3> QED
      BY <1>1, <1>2, <1>3
  <2>2. (v + 1) * d = v * d + d
    <3> HIDE DEF d
    <3> QED
      BY <1>1, <1>2
  <2>3. b * w = u * d - b
    BY <1>2
  <2>4. v * d \in Nat /\ u * d \in Nat /\ b * w \in Int
    BY <1>1, <1>2, <1>4
  <2>5. n < u * d
    <3> HIDE DEF n, d
    <3> QED
      BY <1>1, <1>2, <2>1, <2>2, <2>4
  <2> HIDE DEF d, w
  <2> QED
    BY <2>3, <2>4, <2>5
<1> HIDE DEF w
<1> DEFINE S == a * A
<1>7. (a * w) * A <= (2 * p) * A
  <2> DEFINE x == a * w
             y == 2 * p
  <2>1. x \in Nat /\ y \in Nat /\ x <= y
    BY <1>4, <1>5
  <2> HIDE DEF x, y
  <2>2. x * A <= y * A
    BY <2>1
  <2> QED
    BY <2>2 DEF x, y
<1>8. (2 * q) * B < (b * w) * B
  <2> DEFINE x == 2 * q
             y == b * w
  <2>1. x \in Nat /\ y \in Nat /\ x + 1 <= y
    BY <1>4, <1>6
  <2> HIDE DEF x, y
  <2>2. (x + 1) * B <= y * B /\ (x + 1) * B = x * B + B /\ x * B \in Nat /\ y * B \in Nat
    BY <2>1
  <2>3. x * B < y * B
    BY <2>2
  <2> QED
    BY <2>3 DEF x, y
<1>9. (a * w) * A = S * w /\ (b * w) * B = S * w
  <2>1. (a * w) * A = (a * A) * w
    BY <1>4
  <2>2. (b * w) * B = (b * B) * w
    BY <1>4
  <2> QED
    BY <2>1, <2>2
<1>10. (2 * p) * A = 2 * (p * A) /\ (2 * q) * B = 2 * (q * B)
  OBVIOUS
<1> DEFINE P == p * A
           Q == q * B
<1>11. P \in Nat /\ Q \in Nat /\ P <= Q /\ S * w \in Nat
  BY <1>4
<1>12. S * w <= 2 * P /\ 2 * Q < S * w
  BY <1>7, <1>8, <1>9, <1>10
<1> HIDE DEF P, Q, S
<1> QED
  BY <1>11, <1>12

\* So what the buy list says keeps the order of the statistics.
LEMMA AsksKeepOrder ==
  ASSUME RowsInv, NEW l \in Link, NEW m \in Link, Priced(l), Priced(m),
         quantity[l] # None, quantity[m] # None, Unit(l, Latest(l)) <= Unit(m, Latest(m))
  PROVE  Asks(l) <= Asks(m)
<1> DEFINE k(n) == Scale \div quantity[n]
<1>1. ASSUME NEW n \in Link, Priced(n), quantity[n] # None
      PROVE  /\ Latest(n).paid \in Nat /\ quantity[n] \in Nat \ {0}
             /\ k(n) \in Nat \ {0} /\ quantity[n] * k(n) = Scale
             /\ Unit(n, Latest(n)) = Latest(n).paid * k(n)
             /\ Asks(n) = (2 * Latest(n).paid + quantity[n]) \div (2 * quantity[n])
  <2>1. points[n] \in Seq(Point) /\ quantity[n] \in Amount
    BY <1>1 DEF RowsInv, TypeOK, MaybeAmount
  <2>2. Latest(n) = points[n][1] /\ 1 \in 1..Len(points[n])
    BY <1>1, <2>1 DEF Priced, Latest
  <2>3. Latest(n).paid \in Nat
    BY <2>2, Days DEF RowsInv, Ordered
  <2>4. quantity[n] \in Nat \ {0} /\ Scale \in Nat \ {0} /\ Scale % quantity[n] = 0
    BY <2>1, Days, StatsAssumption
  <2> DEFINE a == quantity[n]
             j == Scale \div a
  <2> HIDE DEF a
  <2>5. a \in Nat \ {0} /\ Scale % a = 0 /\ Scale \in Nat \ {0}
    BY <2>4 DEF a
  <2>6. j \in Nat /\ Scale = j * a
    BY <2>5, ExactDivision
  <2> HIDE DEF j
  <2>7. j # 0 /\ a * j = Scale
    <3>1. j = 0 => j * a = 0
      BY <2>5
    <3>2. j * a = a * j
      BY <2>5, <2>6
    <3> QED
      BY <2>5, <2>6, <3>1, <3>2
  <2>8. Unit(n, Latest(n)) = Latest(n).paid * k(n)
    BY <1>1 DEF Unit
  <2>9. Asks(n) = (2 * Latest(n).paid + quantity[n]) \div (2 * quantity[n])
    BY <1>1 DEF Asks, UnitPrice
  <2>10. k(n) \in Nat \ {0} /\ quantity[n] * k(n) = Scale
    BY <2>6, <2>7 DEF j, a
  <2> QED
    BY <2>3, <2>4, <2>8, <2>9, <2>10
<1> HIDE DEF k
<1>2. /\ quantity[l] * k(l) = quantity[m] * k(m)
      /\ Latest(l).paid * k(l) <= Latest(m).paid * k(m)
  BY <1>1
<1> DEFINE p == Latest(l).paid
           q == Latest(m).paid
           a == quantity[l]
           b == quantity[m]
           A == k(l)
           B == k(m)
<1>3. /\ p \in Nat /\ q \in Nat /\ a \in Nat \ {0} /\ b \in Nat \ {0}
      /\ A \in Nat \ {0} /\ B \in Nat \ {0} /\ a * A = b * B /\ p * A <= q * B
      /\ Asks(l) = (2 * p + a) \div (2 * a) /\ Asks(m) = (2 * q + b) \div (2 * b)
  BY <1>1, <1>2
<1> HIDE DEF p, q, a, b, A, B
<1> QED
  BY <1>3, RoundingKeepsOrder

\* Where no two points of a link bear one instant, its latest look is the last
\* in any order, and what get_product finds at that instant.
LEMMA LatestIsLast ==
  ASSUME RowsInv, NEW order \in Orders(Link), NEW l \in Link, ~Tied({l})
  PROVE  LET T == Of(order, 1..Len(order), l)
             last == [link |-> l, nr |-> 1, at |-> Latest(l).at, offer |-> Latest(l).offer,
                      unit |-> Unit(l, Latest(l))]
         IN  /\ ~Priced(l) => T = {}
             /\ Priced(l) => T # {} /\ order[Max(T)] = last
             /\ Priced(l) => {y \in Looks({l}) : y.at = Latest(l).at} = {last}
<1> DEFINE N == Len(order)
           T == Of(order, 1..N, l)
           last == [link |-> l, nr |-> 1, at |-> Latest(l).at, offer |-> Latest(l).offer,
                    unit |-> Unit(l, Latest(l))]
<1>1. /\ N \in Nat /\ \A i \in 1..N : order[i] \in Looks(Link) /\ order[i].at \in Nat
      /\ \A i, j \in 1..N : i <= j => order[i].at <= order[j].at
      /\ T \subseteq 1..N
  BY OrdersAre, LooksAre DEF Of
<1>2. \A x : x \in Looks({l}) <=> x \in Looks(Link) /\ x.link = l
  <2>1. {l} \in SUBSET Link
    OBVIOUS
  <2>2. \A x \in Looks({l}) : x \in Looks(Link)
    BY DEF Looks
  <2>3. \A x \in Looks({l}) : x.link = l
    BY <2>1, LooksAre
  <2>4. \A x \in Looks(Link) : x.link = l => x \in Looks({l})
    BY <2>1, LooksAre
  <2> QED
    BY <2>2, <2>3, <2>4
<1>3. \A i \in T : i \in 1..N /\ order[i] \in Looks({l})
  BY <1>1, <1>2 DEF Of
<1>4. \A x \in Looks({l}) : \E i \in T : order[i] = x
  <2> SUFFICES ASSUME NEW x \in Looks({l}) PROVE \E i \in T : order[i] = x
    OBVIOUS
  <2>1. x \in Looks(Link) /\ x.link = l
    BY <1>2
  <2>2. PICK i \in 1..N : order[i] = x
    BY <2>1, OrdersAre
  <2> QED
    BY <2>1, <2>2 DEF Of
<1>5. points[l] \in Seq(Point)
  BY DEF RowsInv, TypeOK
<1>6. ASSUME ~Priced(l) PROVE T = {}
  <2>1. \A x \in Looks({l}) : FALSE
    <3>1. Len(points[l]) = 0
      BY <1>5, <1>6 DEF Priced
    <3>2. {l} \in SUBSET Link
      OBVIOUS
    <3> QED
      BY <3>1, <3>2, LooksAre
  <2> QED
    BY <1>3, <2>1
<1>7. ASSUME Priced(l)
      PROVE  /\ T # {} /\ order[Max(T)] = last
             /\ {y \in Looks({l}) : y.at = Latest(l).at} = {last}
  <2>1. Latest(l) = points[l][1] /\ 1 \in 1..Len(points[l])
    BY <1>5, <1>7 DEF Priced, Latest
  <2>2. last \in Looks({l})
    BY <2>1, LooksAre
  <2>3. \A y \in Looks({l}) : y.at <= last.at
    <3> SUFFICES ASSUME NEW y \in Looks({l}) PROVE y.at <= last.at
      OBVIOUS
    <3>1. {l} \in SUBSET Link
      OBVIOUS
    <3>2. y.link = l /\ y.nr \in 1..Len(points[l])
      BY <3>1, LooksAre
    <3>3. y.at = points[l][y.nr].at
      <4>1. y = [link |-> y.link, nr |-> y.nr, at |-> points[y.link][y.nr].at,
                 offer |-> points[y.link][y.nr].offer, unit |-> Unit(y.link, points[y.link][y.nr])]
        BY <3>1, LooksAre
      <4> QED
        BY <3>2, <4>1
    <3>4. 1 <= y.nr
      BY <1>5, <3>2
    <3>5. points[l][y.nr].at <= points[l][1].at
      BY <2>1, <3>2, <3>4 DEF RowsInv, Ordered
    <3> QED
      BY <2>1, <3>3, <3>5
  <2>4. \A y \in Looks({l}) : y.at = last.at => y = last
    BY <2>2, LooksApart
  <2>5. last.at = Latest(l).at
    OBVIOUS
  <2> DEFINE m == Max(T)
  <2> HIDE DEF last, T
  <2>6. PICK i \in T : order[i] = last
    BY <1>4, <2>2
  <2>7. m \in T /\ i <= m
    BY <1>1, <2>6, LastOf
  <2> HIDE DEF m
  <2>8. order[m] \in Looks({l}) /\ order[m].at \in Nat /\ order[i].at \in Nat /\ order[i].at <= order[m].at
    BY <1>1, <1>3, <2>6, <2>7
  <2>9. order[m].at <= last.at
    BY <2>3, <2>8
  <2>10. order[m] = last
    BY <2>4, <2>6, <2>8, <2>9
  <2>11. {y \in Looks({l}) : y.at = Latest(l).at} = {last}
    BY <2>2, <2>4, <2>5
  <2> QED
    BY <2>6, <2>10, <2>11 DEF m
<1> QED
  BY <1>6, <1>7

\* All of history carries what the active links ask now; the lists show what
\* every link does.
LEMMA ViewsAre ==
  ASSUME RowsInv, NEW order \in Orders(Link), \A l \in Link : ~Tied({l})
  PROVE  /\ BuildStatistics(order, 0).series.current =
              [l \in Link |-> IF l \in StatLinks THEN ListAsks[l] ELSE None]
         /\ \A asks \in DetailAsks \cup {ListAsks} : asks = ListAsks
         /\ ListAsks \in [Link -> MaybePrice]
<1> DEFINE N == Len(order)
           S == 1..N
           last(l) == [link |-> l, nr |-> 1, at |-> Latest(l).at, offer |-> Latest(l).offer,
                       unit |-> Unit(l, Latest(l))]
<1>1. N \in Nat /\ \A i \in S : order[i].at \in Nat
  BY OrdersAre, LooksAre
<1>2. BuildStatistics(order, 0).series.current = Carried(order, S, StatLinks)
  <2>1. PICK walk : IsStatWalk(order, 0, walk)
    BY StatWalk
  <2>2. N \in 0..N /\ 0 \in Nat
    BY <1>1
  <2>3. walk[N].series.current = Carried(order, Passed(order, 0, N), StatLinks)
    BY <2>1, <2>2, StatCurrent
  <2>4. Passed(order, 0, N) = S
    BY <1>1 DEF Passed
  <2>5. BuildStatistics(order, 0) = walk[N]
    BY <2>1 DEF IsStatWalk
  <2> HIDE DEF S
  <2> QED
    BY <2>3, <2>4, <2>5
<1>3. ASSUME NEW l \in Link
      PROVE  /\ ~Priced(l) => Of(order, S, l) = {}
             /\ Priced(l) => /\ Of(order, S, l) # {}
                             /\ order[Max(Of(order, S, l))].unit = Unit(l, Latest(l))
             /\ Priced(l) => {y \in Looks({l}) : y.at = Latest(l).at} = {last(l)}
  <2> DEFINE T == Of(order, S, l)
             x == last(l)
  <2>1. /\ ~Priced(l) => T = {}
        /\ Priced(l) => T # {} /\ order[Max(T)] = x
        /\ Priced(l) => {y \in Looks({l}) : y.at = Latest(l).at} = {x}
    BY LatestIsLast
  <2>2. x.unit = Unit(l, Latest(l))
    OBVIOUS
  <2> HIDE DEF x, T
  <2>3. Priced(l) => order[Max(T)].unit = Unit(l, Latest(l))
    BY <2>1, <2>2
  <2> QED
    BY <2>1, <2>3 DEF x, T
<1> HIDE DEF S
<1>4. ASSUME NEW l \in Link
      PROVE  Carried(order, S, StatLinks)[l] = IF l \in StatLinks THEN ListAsks[l] ELSE None
  BY <1>3 DEF Carried, ListAsks
<1>5. Carried(order, S, StatLinks) = [l \in Link |-> IF l \in StatLinks THEN ListAsks[l] ELSE None]
  <2>1. Carried(order, S, StatLinks) = [l \in Link |-> Carried(order, S, StatLinks)[l]]
    BY DEF Carried
  <2> QED
    BY <1>4, <2>1
<1>6. ASSUME NEW asks \in DetailAsks PROVE asks = ListAsks
  <2> DEFINE ask(l) == IF Priced(l) THEN {x.unit : x \in {y \in Looks({l}) : y.at = Latest(l).at}}
                       ELSE {None}
             asked == [l \in Link |-> ask(l)]
             V == UNION {asked[l] : l \in Link}
  <2>1. asks \in {a \in [Link -> V] : \A l \in Link : a[l] \in asked[l]}
    BY DEF DetailAsks
  <2>2. \A l \in Link : ask(l) = {ListAsks[l]}
    <3> SUFFICES ASSUME NEW l \in Link PROVE ask(l) = {ListAsks[l]}
      OBVIOUS
    <3>1. CASE Priced(l)
      <4>1. {y \in Looks({l}) : y.at = Latest(l).at} = {last(l)}
        BY <1>3, <3>1
      <4>2. ask(l) = {x.unit : x \in {last(l)}}
        BY <3>1, <4>1
      <4>3. ListAsks[l] = Unit(l, Latest(l))
        BY <3>1 DEF ListAsks
      <4>4. {x.unit : x \in {last(l)}} = {Unit(l, Latest(l))}
        OBVIOUS
      <4> QED
        BY <4>2, <4>3, <4>4
    <3>2. CASE ~Priced(l)
      BY <3>2 DEF ListAsks
    <3> QED
      BY <3>1, <3>2
  <2> HIDE DEF ask, V
  <2>3. asks \in [Link -> V] /\ \A l \in Link : asks[l] = ListAsks[l]
    BY <2>1, <2>2
  <2>4. ListAsks = [l \in Link |-> ListAsks[l]]
    BY DEF ListAsks
  <2> QED
    BY <2>3, <2>4
<1>7. ListAsks \in [Link -> MaybePrice]
  <2>1. \A l \in Link : ListAsks[l] \in MaybePrice
    <3> SUFFICES ASSUME NEW l \in Link PROVE ListAsks[l] \in MaybePrice
      OBVIOUS
    <3>1. CASE Priced(l)
      <4>1. last(l) \in Looks({l})
        BY <1>3, <3>1
      <4>2. last(l).unit \in MaybePrice
        <5>1. {l} \in SUBSET Link
          OBVIOUS
        <5> HIDE DEF last
        <5> QED
          BY <4>1, <5>1, LooksAre DEF MaybePrice
      <4> QED
        BY <3>1, <4>2 DEF ListAsks
    <3>2. CASE ~Priced(l)
      BY <3>2 DEF ListAsks, MaybePrice
    <3> QED
      BY <3>1, <3>2
  <2>2. ListAsks = [l \in Link |-> ListAsks[l]]
    BY DEF ListAsks
  <2> QED
    BY <2>1, <2>2
<1> QED
  BY <1>2, <1>5, <1>6, <1>7

\* What the lists put first is what SQL does.
LEMMA ListsAgree ==
  ASSUME RowsInv, ListAsks \in [Link -> MaybePrice]
  PROVE  /\ SortedFirst(ListAsks) = RankedFirst
         /\ Cheapest(ListAsks) # {} => RankedFirst = Cheapest(ListAsks)
<1> DEFINE a == ListAsks
           unit == [l \in Link |-> IF Priced(l) THEN Unit(l, Latest(l)) ELSE None]
           before(l, m) == unit[l] # None /\ (unit[m] = None \/ unit[l] < unit[m])
           ranked == {l \in Link : Exists(l)}
<1>1. \A l \in Link : a[l] = unit[l]
  BY DEF ListAsks
<1>2. \A l \in Link : a[l] # None => l \in ranked
  <2> SUFFICES ASSUME NEW l \in Link, a[l] # None PROVE l \in ranked
    OBVIOUS
  <2>1. Priced(l)
    BY DEF ListAsks
  <2> QED
    BY <2>1 DEF Priced, Exists, RowsInv, Ordered
<1>3. RankedFirst = {l \in ranked : \A m \in ranked : ~before(m, l)}
  BY DEF RankedFirst
<1>4. Cheapest(a) = {l \in Link : a[l] # None /\ a[l] = Best(a)}
  BY DEF Cheapest
<1>5. SortedFirst(a) = IF Best(a) # None THEN Cheapest(a) ELSE ranked
  BY DEF SortedFirst
<1> HIDE DEF a, unit, ranked
<1>6. a \in [Link -> MaybePrice] /\ ranked \subseteq Link
  BY DEF a, ranked
<1>7. /\ Best(a) = None <=> \A l \in Link : a[l] = None
      /\ Best(a) # None => /\ Best(a) \in Nat
                           /\ \E l \in Link : a[l] = Best(a)
                           /\ \A l \in Link : a[l] # None => Best(a) <= a[l]
  BY <1>6, BestIs
<1>8. CASE Best(a) = None
  <2>1. \A l \in Link : unit[l] = None
    BY <1>1, <1>7, <1>8
  <2>2. RankedFirst = ranked
    BY <1>3, <1>6, <2>1
  <2>3. Cheapest(a) = {}
    BY <1>4, <1>8
  <2> QED
    BY <1>5, <1>8, <2>2, <2>3 DEF a
<1>9. CASE Best(a) # None
  <2>1. PICK k \in Link : a[k] = Best(a)
    BY <1>7, <1>9
  <2>2. k \in ranked /\ unit[k] = Best(a) /\ Best(a) \in Nat
    BY <1>1, <1>2, <1>7, <1>9, <2>1
  <2>3. ASSUME NEW l \in Cheapest(a) PROVE l \in RankedFirst
    <3>1. l \in Link /\ a[l] # None /\ unit[l] = Best(a) /\ l \in ranked
      BY <1>1, <1>2, <1>4
    <3>2. ASSUME NEW m \in ranked, before(m, l) PROVE FALSE
      <4>1. unit[m] # None /\ unit[m] < Best(a) /\ m \in Link
        BY <1>6, <1>9, <3>1, <3>2
      <4>2. a[m] \in Nat /\ Best(a) <= a[m]
        BY <1>1, <1>6, <1>7, <1>9, <4>1 DEF MaybePrice
      <4> QED
        BY <1>1, <2>2, <4>1, <4>2
    <3> QED
      BY <1>3, <3>1, <3>2
  <2>4. ASSUME NEW l \in RankedFirst PROVE l \in Cheapest(a)
    <3>1. l \in ranked /\ l \in Link /\ ~before(k, l)
      BY <1>3, <1>6, <2>2
    <3>2. unit[l] # None /\ ~(Best(a) < unit[l])
      BY <1>9, <2>2, <3>1
    <3>3. a[l] \in Nat /\ Best(a) <= a[l] /\ a[l] # None
      BY <1>1, <1>6, <1>7, <1>9, <3>1, <3>2 DEF MaybePrice
    <3>4. a[l] = Best(a)
      BY <1>1, <2>2, <3>1, <3>2, <3>3
    <3> QED
      BY <1>4, <3>1, <3>3, <3>4
  <2>5. RankedFirst = Cheapest(a)
    BY <2>3, <2>4
  <2> QED
    BY <1>5, <1>9, <2>5 DEF a
<1> QED
  BY <1>8, <1>9

\* The stores that win are those of the cheapest links.
LEMMA WinnersAre ==
  ASSUME NEW c \in [Link -> MaybePrice], \A l \in Link : c[l] # None => l \in StatLinks,
         Winners(c) # {}
  PROVE  Winners(c) = {StoreOf[l] : l \in Cheapest(c)}
<1> DEFINE priced == {l \in StatLinks : c[l] # None}
           rivals == {StoreOf[l] : l \in priced}
           asks(s) == {c[l] : l \in {m \in priced : StoreOf[m] = s}}
           best(s) == Minimum(asks(s))
<1>1. Winners(c) = {s \in rivals : \A r \in rivals \ {s} : best(s) <= best(r)}
  BY DEF Winners
<1>2. \A l : l \in priced <=> l \in Link /\ c[l] # None
  BY DEF StatLinks
<1>3. \A l \in priced : c[l] \in Nat
  BY <1>2 DEF MaybePrice
<1> HIDE DEF priced
<1>4. ASSUME NEW s \in rivals
      PROVE  /\ best(s) \in Nat
             /\ \E l \in priced : StoreOf[l] = s /\ c[l] = best(s)
             /\ \A l \in priced : StoreOf[l] = s => best(s) <= c[l]
  <2> DEFINE A == asks(s)
  <2>1. A \subseteq Nat /\ A # {}
    BY <1>3, <1>4
  <2> HIDE DEF A
  <2>2. Minimum(A) \in A /\ Minimum(A) \in Nat /\ \A y \in A : Minimum(A) <= y
    BY <2>1, MinimumIs
  <2> USE DEF A
  <2>3. \E l \in priced : StoreOf[l] = s /\ c[l] = best(s)
    BY <2>2
  <2>4. \A l \in priced : StoreOf[l] = s => best(s) <= c[l]
    BY <2>2
  <2> QED
    BY <2>2, <2>3, <2>4
<1>5. /\ Best(c) = None <=> \A l \in Link : c[l] = None
      /\ Best(c) # None => /\ Best(c) \in Nat
                           /\ \E l \in Link : c[l] = Best(c)
                           /\ \A l \in Link : c[l] # None => Best(c) <= c[l]
  BY BestIs
<1> DEFINE W == Winners(c)
           B == {StoreOf[l] : l \in Cheapest(c)}
<1> HIDE DEF best
<1>6. ASSUME NEW s \in W PROVE s \in B
  <2>1. s \in rivals /\ \A r \in rivals \ {s} : best(s) <= best(r)
    BY <1>1
  <2>2. PICK l \in priced : StoreOf[l] = s /\ c[l] = best(s)
    BY <1>4, <2>1
  <2>3. Best(c) # None
    BY <1>2, <1>5, <2>2
  <2>4. PICK k \in Link : c[k] = Best(c)
    BY <1>5, <2>3
  <2>5. k \in priced /\ StoreOf[k] \in rivals
    BY <1>2, <2>3, <2>4
  <2>6. best(StoreOf[k]) <= c[k] /\ best(StoreOf[k]) \in Nat
    BY <1>4, <2>5
  <2>7. best(s) <= best(StoreOf[k]) /\ best(s) \in Nat
    BY <1>4, <2>1, <2>5, <2>6
  <2>8. c[l] <= Best(c) /\ c[l] \in Nat /\ Best(c) \in Nat
    BY <1>5, <2>2, <2>3, <2>4, <2>6, <2>7
  <2>9. l \in Link /\ c[l] # None /\ Best(c) <= c[l]
    BY <1>2, <1>5, <2>2, <2>3
  <2>10. c[l] = Best(c)
    BY <2>8, <2>9
  <2>11. l \in Cheapest(c)
    BY <2>9, <2>10 DEF Cheapest
  <2> QED
    BY <2>2, <2>11
<1>7. ASSUME NEW s \in B PROVE s \in W
  <2>1. PICK l \in Link : c[l] # None /\ c[l] = Best(c) /\ s = StoreOf[l]
    BY DEF Cheapest
  <2>2. l \in priced /\ s \in rivals
    BY <1>2, <2>1
  <2>3. best(s) <= c[l] /\ best(s) \in Nat
    BY <1>4, <2>1, <2>2
  <2>4. ASSUME NEW r \in rivals PROVE best(s) <= best(r)
    <3>1. PICK k \in priced : StoreOf[k] = r /\ c[k] = best(r)
      BY <1>4
    <3>2. c[l] <= c[k] /\ c[l] \in Nat /\ c[k] \in Nat
      BY <1>2, <1>3, <1>5, <2>1, <2>2, <3>1
    <3> QED
      BY <2>3, <3>1, <3>2
  <2> QED
    BY <1>1, <2>2, <2>4
<1> QED
  BY <1>6, <1>7

\* The pages that name the cheapest agree.
LEMMA AllViewsAgree == ASSUME RowsInv PROVE ViewsAgree
<1> SUFFICES ASSUME \A l \in Active : quantity[l] # None => Shelf(l), \A l \in Link : ~Tied({l}),
                    NEW current \in {BuildStatistics(order, 0).series.current : order \in Orders(Link)},
                    NEW asks \in DetailAsks \cup {ListAsks}
             PROVE  LET best == Cheapest(current)
                        retired == \E l \in Link \ StatLinks : asks[l] # None
                    IN  /\ SortedFirst(asks) = RankedFirst
                        /\ TrackedBest(asks) = Best(current)
                        /\ best # {} => retired \/ RankedFirst = best
                        /\ Winners(current) # {} => Winners(current) = {StoreOf[l] : l \in best}
                        /\ \A l \in OnOffer :
                             /\ l \in best => Verdict(Asks(l), Alternatives(l)) # "worse"
                             /\ Verdict(Asks(l), Alternatives(l)) = "best" =>
                                  \A m \in best : Asks(l) = Asks(m)
  BY DEF ViewsAgree
<1> DEFINE best == Cheapest(current)
           retired == \E l \in Link \ StatLinks : asks[l] # None
<1>1. /\ current = [l \in Link |-> IF l \in StatLinks THEN asks[l] ELSE None]
      /\ asks = ListAsks /\ asks \in [Link -> MaybePrice]
  <2>1. PICK order \in Orders(Link) : current = BuildStatistics(order, 0).series.current
    OBVIOUS
  <2>2. /\ BuildStatistics(order, 0).series.current =
              [l \in Link |-> IF l \in StatLinks THEN ListAsks[l] ELSE None]
        /\ \A a \in DetailAsks \cup {ListAsks} : a = ListAsks
        /\ ListAsks \in [Link -> MaybePrice]
    BY ViewsAre
  <2> QED
    BY <2>1, <2>2
<1>2. current \in [Link -> MaybePrice] /\ \A l \in Link : current[l] # None => l \in StatLinks
  BY <1>1 DEF MaybePrice
<1>3. SortedFirst(asks) = RankedFirst /\ (Cheapest(asks) # {} => RankedFirst = Cheapest(asks))
  BY <1>1, ListsAgree
<1>4. TrackedBest(asks) = Best(current)
  BY <1>1 DEF TrackedBest
<1>5. best # {} => retired \/ RankedFirst = best
  <2> SUFFICES ASSUME best # {}, ~retired PROVE RankedFirst = best
    OBVIOUS
  <2>1. \A l \in Link : current[l] = asks[l]
    BY <1>1
  <2>2. current = asks
    BY <1>1, <1>2, <2>1
  <2> QED
    BY <1>3, <2>2
<1>6. Winners(current) # {} => Winners(current) = {StoreOf[l] : l \in best}
  BY <1>2, WinnersAre
<1>7. \A m \in Link : Priced(m) => asks[m] = Unit(m, Latest(m))
  BY <1>1 DEF ListAsks
<1>8. ASSUME NEW l \in Active, quantity[l] # None
      PROVE  /\ l \in Link /\ Priced(l) /\ current[l] = Unit(l, Latest(l)) /\ current[l] # None
             /\ Asks(l) \in Nat /\ Asks(l) # None /\ Shelf(l)
  <2>1. l \in Link /\ Priced(l) /\ l \in StatLinks
    BY DEF Active, StatLinks
  <2>2. current[l] = Unit(l, Latest(l))
    BY <1>1, <1>7, <2>1
  <2>3. Asks(l) \in Nat
    BY <1>8, <2>1, AsksType
  <2>4. Unit(l, Latest(l)) # None
    <3> DEFINE x == [link |-> l, nr |-> 1, at |-> points[l][1].at, offer |-> points[l][1].offer,
                     unit |-> Unit(l, points[l][1])]
    <3>1. points[l] \in Seq(Point)
      BY <2>1 DEF RowsInv, TypeOK
    <3>2. Latest(l) = points[l][1] /\ 1 \in 1..Len(points[l])
      BY <2>1, <3>1 DEF Priced, Latest
    <3>3. Link \in SUBSET Link
      OBVIOUS
    <3>4. x \in Looks(Link)
      BY <2>1, <3>2, <3>3, LooksAre
    <3>5. x.unit = Unit(l, Latest(l)) /\ x.link = l
      BY <3>2
    <3> HIDE DEF x
    <3> QED
      BY <1>8, <3>3, <3>4, <3>5, LooksAre
  <2>5. Shelf(l)
    BY <1>8, <2>1
  <2>6. Asks(l) # None
    BY <2>3, NoneIsNoNumber
  <2> QED
    BY <2>1, <2>2, <2>3, <2>4, <2>5, <2>6
<1>9. ASSUME NEW m \in best
      PROVE  /\ m \in Active /\ quantity[m] # None
             /\ \A k \in Active : quantity[k] # None => Asks(m) <= Asks(k)
  <2>1. m \in Link /\ current[m] # None /\ current[m] = Best(current)
    BY DEF Cheapest
  <2>2. m \in StatLinks /\ asks[m] # None
    BY <1>1, <2>1
  <2>3. Priced(m)
    BY <1>1, <2>1, <2>2 DEF ListAsks
  <2>4. m \in Active /\ quantity[m] # None
    <3>1. Unit(m, Latest(m)) # None
      BY <1>7, <2>1, <2>2, <2>3
    <3> QED
      BY <2>1, <2>2, <2>3, <3>1 DEF Active, StatLinks, Unit
  <2>5. ASSUME NEW k \in Active, quantity[k] # None PROVE Asks(m) <= Asks(k)
    <3>1. Best(current) <= current[k]
      BY <1>2, <1>8, <2>1, <2>5, BestIs
    <3>2. Unit(m, Latest(m)) <= Unit(k, Latest(k))
      BY <1>8, <2>1, <2>4, <2>5, <3>1
    <3> QED
      BY <1>8, <2>4, <2>5, <3>2, AsksKeepOrder
  <2> QED
    BY <2>4, <2>5
<1>10. ASSUME NEW l \in OnOffer
       PROVE  /\ l \in best => Verdict(Asks(l), Alternatives(l)) # "worse"
              /\ Verdict(Asks(l), Alternatives(l)) = "best" => \A m \in best : Asks(l) = Asks(m)
  <2> DEFINE A == Alternatives(l)
  <2>1. l \in Active /\ l \in Link
    BY DEF OnOffer, Active
  <2>2. A \subseteq Nat /\ \A u \in A : \E m \in Link \ {l} : Shelf(m) /\ Asks(m) = u
    BY <2>1, AsksType
  <2>3. \A m \in Link \ {l} : Shelf(m) => Asks(m) \in A
    BY <2>1, AsksType
  <2> HIDE DEF A, best
  <2>4. A # {} => Minimum(A) \in A /\ \A y \in A : Minimum(A) <= y
    BY <2>2, MinimumIs
  <2>5. ASSUME l \in best PROVE Verdict(Asks(l), A) # "worse"
    <3> SUFFICES ASSUME A # {} PROVE Asks(l) <= Minimum(A)
      BY DEF Verdict
    <3>1. PICK m \in Link \ {l} : Shelf(m) /\ Asks(m) = Minimum(A)
      BY <2>2, <2>4
    <3>2. m \in Active /\ quantity[m] # None
      BY <3>1 DEF Shelf
    <3> QED
      BY <1>9, <2>5, <3>1, <3>2
  <2>6. ASSUME Verdict(Asks(l), A) = "best", NEW m \in best PROVE Asks(l) = Asks(m)
    <3>1. Asks(l) # None /\ A # {} /\ Asks(l) <= Minimum(A)
      BY <2>6 DEF Verdict
    <3>2. m \in Active /\ quantity[m] # None
      BY <1>9
    <3>3. quantity[l] # None
      BY <3>1 DEF Asks, UnitPrice
    <3>4. Asks(m) <= Asks(l) /\ Asks(m) \in Nat /\ Asks(l) \in Nat
      BY <1>8, <1>9, <2>1, <3>2, <3>3
    <3>5. CASE m = l
      BY <3>5
    <3>6. CASE m # l
      <4>1. Asks(m) \in A
        BY <1>8, <2>3, <3>2, <3>6
      <4>2. Minimum(A) <= Asks(m) /\ Minimum(A) \in Nat
        BY <2>2, <2>4, <4>1
      <4> QED
        BY <3>1, <3>4, <4>2
    <3> QED
      BY <3>5, <3>6
  <2> QED
    BY <2>5, <2>6 DEF A
<1> HIDE DEF best, retired
<1>11. /\ SortedFirst(asks) = RankedFirst
       /\ TrackedBest(asks) = Best(current)
       /\ best # {} => retired \/ RankedFirst = best
       /\ Winners(current) # {} => Winners(current) = {StoreOf[l] : l \in best}
       /\ \A l \in OnOffer :
            /\ l \in best => Verdict(Asks(l), Alternatives(l)) # "worse"
            /\ Verdict(Asks(l), Alternatives(l)) = "best" => \A m \in best : Asks(l) = Asks(m)
  BY <1>3, <1>4, <1>5, <1>6, <1>10
<1> QED
  BY <1>11 DEF best, retired

\* The pages never name different prices as the cheapest, up to the rounding of
\* the buy list's, where all active links answer, have something on the shelf and
\* no two points at one instant.
THEOREM ViewsNameTheSame == Spec => []ViewsAgree
<1>1. RowsInv => ViewsAgree
  BY AllViewsAgree
<1> QED
  BY <1>1, RowsAlways, PTL
=============================================================================
