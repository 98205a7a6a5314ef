------------------------------- MODULE Offers -------------------------------
(***************************************************************************)
(* What the extractors of domain/extractors/ make of a product's price.    *)
(* A shop has an ordinary price and campaigns (so many units for so much); *)
(* every store publishes them in a shape of its own, and the tracker       *)
(* records what one unit costs ordinarily (price_sek) and on offer         *)
(* (offer_price_sek), or no offer.  An offer of a butiksblad that an       *)
(* operator asks about (domain/blad.py) is read the same way, and answered *)
(* instead of recorded.                                                    *)
(*                                                                         *)
(* What a store publishes of its shelf is external: the sets ...Pages hold *)
(* the shapes that the extractors' comments and tests describe.  How text  *)
(* and markup are searched is left out; which number is taken for which,   *)
(* what is compared, refused and handed on to JSON-LD is not.              *)
(***************************************************************************)
EXTENDS Integers, FiniteSetsExt

CONSTANTS Ordinarie,     \* ordinary prices
          Weights,       \* of a package, in the measure of the unit price
          MaxUnits,      \* of a campaign
          MaxTotal,      \* of a campaign
          MaxCampaigns   \* at a time

ASSUME OffersAssumption ==
  /\ Ordinarie \subseteq Nat \ {0} /\ Weights \subseteq Nat \ {0}
  /\ {MaxUnits, MaxTotal, MaxCampaigns} \subseteq Nat \ {0}

VARIABLES shelf,   \* the price and the campaigns of a day
          page,    \* what the store publishes of them
          point    \* what a check records, or the operator is told

offersVars == <<shelf, page, point>>

\* Prices are whole numbers of the smallest coin, and 0 is no price.
NoPrice == 0
Prices == 1..Max(Ordinarie \cup {MaxTotal})
Campaign == {d \in [units : 1..MaxUnits, total : 1..MaxTotal] : d.total >= d.units}
Shelves == [ordinarie : Ordinarie, weight : Weights,
          campaigns : UNION {kSubset(k, Campaign) : k \in 0..MaxCampaigns}]
Tier == {"own", "jsonld", "blad"}
Points == [tier : Tier, price : {NoPrice} \cup Prices, offer : {NoPrice} \cup Prices,
          measure : {NoPrice} \cup Prices]      \* what the blad comes to per kilo or litre

Closed == [ordinarie |-> NoPrice]
NoPage == [store |-> "none"]
NoPoint == [tier |-> "none"]

OffersInit == shelf = Closed /\ page = NoPage /\ point = NoPoint

HalfUp(total, units) == (2 * total + units) \div (2 * units)
When(condition, set) == IF condition THEN set ELSE {}
Highest(prices) == IF prices = {} THEN NoPrice ELSE Max(prices)
Found(price, offer) == {[tier |-> "own", price |-> price, offer |-> offer, measure |-> NoPrice]}

-----------------------------------------------------------------------------
(* What a store publishes. *)

Singles(s) == {d \in s.campaigns : d.units = 1}
Multis(s) == s.campaigns \ Singles(s)

\* What one piece costs today, without a condition.
PieceToday(s) == Min({s.ordinarie} \cup {d.total : d \in Singles(s)})
Reduced(s) == PieceToday(s) < s.ordinarie

\* schema.org: today's price, and the struck-through one or not.
JsonLdOf(s, current) ==
  [price : {current}, list : {NoPrice} \cup When(current < s.ordinarie, {s.ordinarie})]

\* The Willys API: a promotion has its price per unit, unless it lacks one; the
\* saving is that of all the units of one of them.
WillysPages(s) ==
  [store : {"willys"}, priceValue : {s.ordinarie},
   promotions : {{[count |-> d.units, total |-> IF d \in priced THEN d.total ELSE NoPrice]
                    : d \in s.campaigns} : priced \in SUBSET s.campaigns},
   savings : {NoPrice} \cup {d.units * s.ordinarie - d.total :
                            d \in {c \in s.campaigns : c.total < c.units * s.ordinarie}}]

\* The words of a promotion at ICA, which may fit several of the patterns: "N för"
\* or not, an amount, per kilo or not, "spara" or not; and the quantity the
\* promotion requires, or none.  "3 för 95 kr", which may speak of another number
\* of units than the promotion; "20 kr", also of several units together;
\* "109 kr/kg"; "2 för 20 kr/kg", of one of the two or of both; "spara 10 kr" and
\* "spara 10 kr/kg".
Labels(s, d) ==
  LET Label(units, amount, measure, saving, quantity) ==
        [units |-> units, amount |-> amount, measure |-> measure,
         saving |-> saving, quantity |-> quantity]
      told == {NoPrice, d.units}
      Exactly(a, b) == When(a % b = 0, {a \div b})
      perKilo == Exactly(d.total, d.units * s.weight)
      saved == d.units * s.ordinarie - d.total
  IN  {Label(d.units, d.total, FALSE, saving, q) : saving \in BOOLEAN, q \in told}
      \cup {Label(u, d.total, FALSE, FALSE, d.units) : u \in 2..MaxUnits}
      \cup {Label(0, d.total, FALSE, FALSE, d.units)}
      \cup {Label(0, v, TRUE, FALSE, q) : v \in perKilo, q \in told}
      \cup {Label(d.units, v, TRUE, FALSE, q) :
              v \in perKilo \cup Exactly(d.total, s.weight), q \in told}
      \cup When(saved > 0,
                {Label(0, saved, FALSE, TRUE, q) : q \in told}
                \cup {Label(0, v, TRUE, TRUE, q) :
                        v \in Exactly(saved, d.units * s.weight), q \in told})

\* One promotion of each campaign, and a printed unit price in some measure.
IcaPages(s) ==
  LET Worded == {f \in [s.campaigns -> UNION {Labels(s, d) : d \in s.campaigns}] :
                   \A d \in s.campaigns : f[d] \in Labels(s, d)}
  IN  [store : {"ica"}, found : BOOLEAN, price : {s.ordinarie},
       promotions : {{f[d] : d \in s.campaigns} : f \in Worded},
       unitPrice : {[amount |-> NoPrice, measure |-> "none"],
                    [amount |-> s.ordinarie, measure |-> "st"]}
                   \cup When(s.ordinarie % s.weight = 0,
                             {[amount |-> s.ordinarie \div s.weight, measure |-> "kg"]}),
       jsonld : JsonLdOf(s, s.ordinarie)]

RustaPages(s) ==
  [store : {"rusta"}, found : BOOLEAN, current : {PieceToday(s)},
   original : {s.ordinarie} \cup When(~Reduced(s), {NoPrice}),
   jsonld : JsonLdOf(s, PieceToday(s))]

\* Other prices to compare with: its own only beside a reduced one, the
\* manufacturer's and that of a kit's parts at any time.
LykoPages(s) ==
  LET own == [type : {"ordinary", "withoutcampaign"}, value : {s.ordinarie}]
      others == [type : {"recommended", "packagecontentsum"}, value : Ordinarie]
  IN  [store : {"lyko"}, found : BOOLEAN, current : {PieceToday(s)},
       comparisonPrices : {o \cup r : o \in IF Reduced(s) THEN (SUBSET own) \ {{}} ELSE {{}},
                                      r \in SUBSET others},
       jsonld : JsonLdOf(s, PieceToday(s))]

\* A price block that carries the article's digits, and may be a sibling's.
ClasOhlsonPages(s) ==
  LET blocks == {[current |-> PieceToday(s), foreign |-> FALSE,
                  old |-> IF Reduced(s) THEN s.ordinarie ELSE NoPrice]}
                \cup [current : Prices, foreign : {TRUE}, old : {NoPrice} \cup Ordinarie]
  IN  [store : {"clasohlson"}, block : blocks, comparison : BOOLEAN,
       jsonld : JsonLdOf(s, PieceToday(s))]

\* The variant in the page's data: that of the article the address names, or the
\* first one; the price block: the piece price, the struck one, a "2 for 369".
JyskPages(s) ==
  LET variants == {[anchored |-> TRUE, price |-> PieceToday(s)]}
                  \cup [anchored : {FALSE}, price : Prices]
  IN  [store : {"jysk"}, variant : variants, printed : {NoPrice, PieceToday(s)},
       ordinarie : {IF Reduced(s) THEN s.ordinarie ELSE NoPrice},
       headline : {[units |-> 0, total |-> NoPrice]} \cup Multis(s),
       jsonld : JsonLdOf(s, PieceToday(s)) \cup {[price |-> NoPrice, list |-> NoPrice]}]

\* The butiksblad at Willys: a promotion with its price per unit and its price
\* per measure, where it has them; the ordinary price and the package, too.
BladPages(s) ==
  LET Worth(d) == When(d.total % (d.units * s.weight) = 0, {d.total \div (d.units * s.weight)})
      Promotions(d) == [price : {NoPrice, HalfUp(d.total, d.units)}, measure : {NoPrice} \cup Worth(d)]
      Printed == {f \in [s.campaigns -> UNION {Promotions(d) : d \in s.campaigns}] :
                    \A d \in s.campaigns : f[d] \in Promotions(d)}
  IN  [store : {"blad"}, ordinarie : {NoPrice, s.ordinarie}, package : {NoPrice, s.weight},
       promotions : {{f[d] : d \in s.campaigns} : f \in Printed}]

Pages(s) == WillysPages(s) \cup IcaPages(s) \cup RustaPages(s) \cup LykoPages(s)
            \cup ClasOhlsonPages(s) \cup JyskPages(s) \cup BladPages(s)

\* A store sets its prices for the day and says so.
Opens ==
  /\ page = NoPage
  /\ shelf' \in Shelves
  /\ page' \in Pages(shelf')
  /\ UNCHANGED point

Closes ==
  /\ page # NoPage
  /\ shelf' = Closed /\ page' = NoPage /\ point' = NoPoint

-----------------------------------------------------------------------------
(* What the tracker makes of it. *)

\* JsonLdExtractor: a higher struck-through price makes today's price an offer.
JsonLd(p) ==
  LET q == p.jsonld
      base == [tier |-> "jsonld", price |-> q.price, offer |-> NoPrice, measure |-> NoPrice]
  IN  When(q.price # NoPrice,
           {IF q.list > q.price THEN [base EXCEPT !.price = q.list, !.offer = q.price] ELSE base})

\* The store's own tier, or else JSON-LD; without either there is no point.
Records(store, own) ==
  /\ page.store = store /\ point = NoPoint
  /\ point' \in IF own # {} THEN own ELSE JsonLd(page)
  /\ UNCHANGED <<shelf, page>>

\* Mutant of Cut: a campaign is an offer at any price.
CutAtAnyPrice(price, offer) == offer

\* An offer is what one pays: below the ordinary price, or none.
Cut(price, offer) == IF offer \in 1..(price - 1) THEN offer ELSE NoPrice

HasMultiBuy(p) == \E d \in p.promotions : d.count > 1

PromotionOffer(p) ==
  Highest({HalfUp(d.total, d.count) : d \in {x \in p.promotions : x.total # NoPrice}})

WillysOffer(p) ==
  IF PromotionOffer(p) # NoPrice THEN PromotionOffer(p)
  ELSE IF p.savings > 0 /\ ~HasMultiBuy(p) THEN p.priceValue - p.savings ELSE NoPrice

Willys == Records("willys", Found(page.priceValue, Cut(page.priceValue, WillysOffer(page))))

\* Mutant of PerKilo: the words that go with the price are not looked at.
PerKiloWhateverElse(l, p) ==
  IF p.unitPrice.measure = "kg" THEN HalfUp(l.amount * p.price, p.unitPrice.amount) ELSE NoPrice

\* A price per measure, worked out for the package; not one that mixes bases.
PerKilo(l, p) ==
  IF l.units = 0 /\ l.quantity <= 1 /\ p.unitPrice.measure = "kg"
  THEN HalfUp(l.amount * p.price, p.unitPrice.amount) ELSE NoPrice

\* A multi-buy, unless the promotion contradicts it.
MultiBuy(l) ==
  IF l.quantity \in {NoPrice, l.units} THEN HalfUp(l.amount, l.units) ELSE NoPrice

\* A bare price, neither a saving nor of several units.
Single(l) == IF ~l.saving /\ l.quantity <= 1 THEN l.amount ELSE NoPrice

\* _parse_promotion: the first pattern that is found decides, and only the last one
\* asks for the words of a saving.
Parsed(l, p) ==
  IF l.measure THEN PerKilo(l, p) ELSE IF l.units > 0 THEN MultiBuy(l) ELSE Single(l)

BestOffer(p) == Highest({Parsed(l, p) : l \in p.promotions})

\* A cut to less than a fifth is taken for a misread label.
IcaOffer(p) == IF 5 * BestOffer(p) < p.price THEN NoPrice ELSE Cut(p.price, BestOffer(p))

Ica == Records("ica", IF page.found THEN Found(page.price, IcaOffer(page)) ELSE {})

\* A higher price beside today's is the ordinary one.
Against(current, ordinarie) ==
  IF ordinarie > current THEN Found(ordinarie, current) ELSE Found(current, NoPrice)

Rusta == Records("rusta", IF page.found THEN Against(page.current, page.original) ELSE {})

\* Mutant of Charged: whatever the store compares with was once its price.
ChargedByAnyone(p) == {c.value : c \in p.comparisonPrices}

Charged(p) == {c.value : c \in {x \in p.comparisonPrices : x.type \in {"ordinary", "withoutcampaign"}}}

LykoOrdinarie(p) ==
  LET above == {v \in Charged(p) : v > p.current} IN IF above = {} THEN NoPrice ELSE Min(above)

Lyko == Records("lyko", IF page.found THEN Against(page.current, LykoOrdinarie(page)) ELSE {})

\* Mutant of BlockAgrees: the article's digits are enough.
BlockAgreesByDigits(p) == TRUE

\* The block must tell the price that the page's data come to.
BlockAgrees(p) == \A base \in JsonLd(p) : p.block.current = base.price

Block(p) ==
  IF p.block.old > p.block.current THEN Against(p.block.current, p.block.old)
  ELSE {[base EXCEPT !.tier = "own"] : base \in JsonLd(p)}

ClasOhlson ==
  Records("clasohlson",
    IF BlockAgrees(page) /\ (page.block.old # NoPrice \/ page.comparison) THEN Block(page) ELSE {})

\* The variant is the article's own, or the printed piece price is its price.
Identified(p) ==
  /\ p.printed \in {NoPrice, p.variant.price}
  /\ p.variant.anchored \/ p.printed # NoPrice

JyskOffers(p) ==
  When(p.ordinarie > p.variant.price, {p.variant.price})
  \cup When(p.headline.units > 0, {HalfUp(p.headline.total, p.headline.units)})

JyskPoint(p) ==
  LET regular == Max({p.variant.price, p.ordinarie})
  IN  Found(regular, Highest({o \in JyskOffers(p) : o < regular}))

Jysk == Records("jysk", IF Identified(page) THEN JyskPoint(page) ELSE {})

\* offer_unit_price: as printed beside the price, or worked out from the package.
PerMeasure(promotion, p) ==
  IF promotion.measure # NoPrice THEN promotion.measure
  ELSE IF p.package # NoPrice THEN HalfUp(promotion.price, p.package) ELSE NoPrice

\* parse_offline_offer: the promotion of the highest price, with what is printed
\* beside that one; none, or none below the ordinary price, is no offer.
BladOffers(p) ==
  LET priced == {x \in p.promotions : x.price # NoPrice}
      best == {x \in priced : \A y \in priced : y.price <= x.price}
  IN  {[tier |-> "blad", price |-> p.ordinarie, offer |-> x.price, measure |-> PerMeasure(x, p)]
         : x \in {y \in best : p.ordinarie = NoPrice \/ y.price < p.ordinarie}}

Blad ==
  /\ page.store = "blad" /\ point = NoPoint
  /\ point' \in BladOffers(page)
  /\ UNCHANGED <<shelf, page>>

OffersNext == Blad \/ Opens \/ Willys \/ Ica \/ Rusta \/ Lyko \/ ClasOhlson \/ Jysk \/ Closes

OffersSpec == OffersInit /\ [][OffersNext]_offersVars

-----------------------------------------------------------------------------
OffersTypeOK ==
  /\ shelf \in Shelves \cup {Closed}
  /\ page = NoPage <=> shelf = Closed
  /\ point \in Points \cup {NoPoint}

\* Buying as many units as the campaign asks for comes to its total, but for
\* the rounding of one unit's price.
Takes(d, price) ==
  2 * (price * d.units - d.total) \in (-d.units)..d.units

\* A block of another article with the same price, which nothing tells apart.
Mistaken == page.store = "clasohlson" /\ page.block.foreign

\* "Spara 10 kr/kg" at ICA is read as a price of 10 kr/kg: the price per measure is
\* looked for before the words of a saving are.
SavingTakenForPrice ==
  page.store = "ica" /\ \E l \in page.promotions :
    l.measure /\ l.saving /\ point.offer = Parsed(l, page)

\* What a point says one pays is what the shelf takes, ordinarily or in one of
\* its campaigns: but for a saving per kilo at ICA, no price is made up from a
\* saving, another article, a label of several units or a price per kilo.
PaidIsOnTheShelf ==
  point # NoPoint =>
    LET paid == IF point.offer # NoPrice THEN point.offer ELSE point.price
    IN  \/ paid = shelf.ordinarie
        \/ \E d \in shelf.campaigns : Takes(d, paid)
        \/ point.offer # NoPrice /\ SavingTakenForPrice

\* An offer is cheaper than the price it is set against, a multi-buy dearer than
\* single pieces being none, and but for a saving per kilo at ICA it is a campaign
\* of the shelf.  The price per measure beside it is that of the same campaign.
OffersAreCuts ==
  point # NoPoint /\ point.offer # NoPrice /\ ~Mistaken =>
    /\ point.price = NoPrice \/ point.offer < point.price
    /\ SavingTakenForPrice \/ \E d \in shelf.campaigns : Takes(d, point.offer)
    /\ point.measure # NoPrice =>
         2 * (point.measure * shelf.weight - point.offer) \in (-shelf.weight)..shelf.weight

\* As long as a store's own tier answers, the regular price is the store's own,
\* during a campaign too: neither the campaign's price nor a manufacturer's
\* recommendation passes for it.
OrdinarieStands ==
  point # NoPoint /\ point.tier = "own" /\ ~Mistaken => point.price = shelf.ordinarie
=============================================================================
