------------------------------ MODULE Catalogue ------------------------------
(***************************************************************************)
(* The rows of the catalogue and the handlers of api/admin.py that write   *)
(* them: products, links, watches, and quick_add, whose several commits    *)
(* (the product, its link, the links of the sister shops) other requests   *)
(* come between.                                                           *)
(*                                                                         *)
(* A product's name stands for its name and brand, which nothing keeps     *)
(* unique; a link is its URL, which the database does.  What a watch wants *)
(* is left out: the watches of a product are counted per address.          *)
(***************************************************************************)
EXTENDS Integers, FiniteSets

CONSTANTS Product, Name, Url, Email, Reading,
          Siblings,    \* the sister shops' pages of a page
          Handler,     \* quick-add requests under way at once
          MaxWatches,  \* bound on the watches of one product and address
          MaxEdits,    \* bound on the requests that write rows
          MaxMishaps   \* bound on requests that are cut off

NoProduct == "no product"
NoName == "no name"

ASSUME CatalogueAssumption ==
  /\ NoProduct \notin Product /\ NoName \notin Name
  /\ IsFiniteSet(Product) /\ Url # {}
  /\ Siblings \in [Url -> SUBSET Url]
  /\ MaxWatches \in Nat /\ MaxEdits \in Nat /\ MaxMishaps \in Nat

VARIABLES product,   \* the rows: a name, or NoName where there is no row
          link,      \* the product a page belongs to, and its price points
          watch,     \* how many watches a product has per address
          quickAdd,  \* the quick-add requests
          unlinked,  \* history: products made by a quick-add and never linked
          edits, mishaps   \* how many there have been

rows == <<product, link, watch>>
cvars == <<rows, quickAdd, unlinked, edits, mishaps>>

NoLink == [of |-> NoProduct, readings |-> {}]
Live(p) == product[p] # NoName
Tracked(u) == link[u].of # NoProduct
\* An id is drawn once: not one that a request under way still holds.
Fresh(p) == ~Live(p) /\ \A h \in Handler : quickAdd[h].product # p
Idle == [pc |-> "idle", product |-> NoProduct, url |-> CHOOSE u \in Url : TRUE,
         made |-> FALSE, todo |-> {}]

Edit == edits < MaxEdits /\ edits' = edits + 1
Mishap == mishaps < MaxMishaps /\ mishaps' = mishaps + 1

Linked(u, p) == link' = [link EXCEPT ![u] = [of |-> p, readings |-> {}]]

\* The cascades of a product's row: its links with their points, its watches.
Deleted(p) ==
  /\ product' = [product EXCEPT ![p] = NoName]
  /\ link' = [u \in Url |-> IF link[u].of = p THEN NoLink ELSE link[u]]
  /\ watch' = [watch EXCEPT ![p] = [e \in Email |-> 0]]
  /\ unlinked' = unlinked \ {p}

-----------------------------------------------------------------------------
Init ==
  /\ product = [p \in Product |-> NoName]
  /\ link = [u \in Url |-> NoLink]
  /\ watch = [p \in Product |-> [e \in Email |-> 0]]
  /\ quickAdd = [h \in Handler |-> Idle]
  /\ unlinked = {} /\ edits = 0 /\ mishaps = 0

CreateProduct(p, n) ==
  /\ Edit /\ Fresh(p)
  /\ product' = [product EXCEPT ![p] = n]
  /\ UNCHANGED <<link, watch, quickAdd, unlinked, mishaps>>

UpdateProduct(p, n) ==
  /\ Edit /\ Live(p) /\ product[p] # n
  /\ product' = [product EXCEPT ![p] = n]
  /\ UNCHANGED <<link, watch, quickAdd, unlinked, mishaps>>

DeleteProduct(p) ==
  /\ Edit /\ Live(p)
  /\ Deleted(p)
  /\ UNCHANGED <<quickAdd, mishaps>>

LinkProduct(p, u) ==
  /\ Edit /\ Live(p) /\ ~Tracked(u)
  /\ Linked(u, p)
  /\ unlinked' = unlinked \ {p}
  /\ UNCHANGED <<product, watch, quickAdd, mishaps>>

Unlink(u) ==
  /\ Edit /\ Tracked(u)
  /\ link' = [link EXCEPT ![u] = NoLink]
  /\ UNCHANGED <<product, watch, quickAdd, unlinked, mishaps>>

CreateWatch(p, e) ==
  /\ Edit /\ Live(p) /\ watch[p][e] < MaxWatches
  /\ watch' = [watch EXCEPT ![p][e] = @ + 1]
  /\ UNCHANGED <<product, link, quickAdd, unlinked, mishaps>>

DeleteWatch(p, e) ==
  /\ Edit /\ watch[p][e] > 0
  /\ watch' = [watch EXCEPT ![p][e] = @ - 1]
  /\ UNCHANGED <<product, link, quickAdd, unlinked, mishaps>>

\* A check of the link, the first or a later one, finds a price.
Check(u, r) ==
  /\ Edit /\ Tracked(u) /\ r \notin link[u].readings
  /\ link' = [link EXCEPT ![u].readings = @ \cup {r}]
  /\ UNCHANGED <<product, watch, quickAdd, unlinked, mishaps>>

EditStep ==
  \/ \E p \in Product, n \in Name : CreateProduct(p, n) \/ UpdateProduct(p, n)
  \/ \E p \in Product, u \in Url : LinkProduct(p, u)
  \/ \E p \in Product, e \in Email : CreateWatch(p, e) \/ DeleteWatch(p, e)
  \/ \E p \in Product : DeleteProduct(p)
  \/ \E u \in Url, r \in Reading : Check(u, r)
  \/ \E u \in Url : Unlink(u)

-----------------------------------------------------------------------------
At(h, pc) == quickAdd[h].pc = pc
MovesTo(h, pc) == quickAdd' = [quickAdd EXCEPT ![h].pc = pc]
Ends(h) == quickAdd' = [quickAdd EXCEPT ![h] = Idle]

\* The page is not tracked yet; its product is committed before its link.
QuickAddNew(h, p, n, u) ==
  /\ Edit /\ At(h, "idle") /\ ~Tracked(u) /\ Fresh(p)
  /\ product' = [product EXCEPT ![p] = n]
  /\ quickAdd' = [quickAdd EXCEPT ![h] = [pc |-> "linking", product |-> p, url |-> u,
                                          made |-> TRUE, todo |-> {}]]
  /\ unlinked' = unlinked \cup {p}
  /\ UNCHANGED <<link, watch, mishaps>>

QuickAddExisting(h, p, u) ==
  /\ Edit /\ At(h, "idle") /\ ~Tracked(u) /\ Live(p)
  /\ quickAdd' = [quickAdd EXCEPT ![h] = [pc |-> "linking", product |-> p, url |-> u,
                                          made |-> FALSE, todo |-> {}]]
  /\ UNCHANGED <<rows, unlinked, mishaps>>

Linkable(h, u) == ~Tracked(u) /\ Live(quickAdd[h].product)

\* The link is committed; add_siblings may ask for the sister shops'.
QuickAddLinks(h, todo) ==
  /\ At(h, "linking") /\ Linkable(h, quickAdd[h].url)
  /\ Linked(quickAdd[h].url, quickAdd[h].product)
  /\ quickAdd' = [quickAdd EXCEPT ![h].pc = "siblings", ![h].todo = todo]
  /\ unlinked' = unlinked \ {quickAdd[h].product}
  /\ UNCHANGED <<product, watch, edits, mishaps>>

\* Mutant of Retreats: only the duplicate is compensated.
RetreatsFromDuplicate(h) ==
  IF quickAdd[h].made /\ Tracked(quickAdd[h].url) THEN MovesTo(h, "undoing") ELSE Ends(h)

\* A product this request made is deleted again.
Retreats(h) == IF quickAdd[h].made THEN MovesTo(h, "undoing") ELSE Ends(h)

\* The insert violates the URL's uniqueness or the product's reference.
QuickAddRefused(h) ==
  /\ At(h, "linking") /\ ~Linkable(h, quickAdd[h].url)
  /\ Retreats(h)
  /\ UNCHANGED <<rows, unlinked, edits, mishaps>>

\* Any other exception of the insert.
QuickAddFails(h) ==
  /\ At(h, "linking")
  /\ Retreats(h)
  /\ UNCHANGED <<rows, unlinked, edits, mishaps>>

\* delete_product, with whatever has been attached to the product meanwhile.
QuickAddUndoes(h) ==
  /\ At(h, "undoing")
  /\ Deleted(quickAdd[h].product)
  /\ Ends(h)
  /\ UNCHANGED <<edits, mishaps>>

\* A sister shop's page: a link if it can be, a word in the answer if not.
QuickAddSibling(h, u) ==
  /\ At(h, "siblings") /\ u \in quickAdd[h].todo
  /\ IF Linkable(h, u)
     THEN Linked(u, quickAdd[h].product) /\ unlinked' = unlinked \ {quickAdd[h].product}
     ELSE UNCHANGED <<link, unlinked>>
  /\ quickAdd' = [quickAdd EXCEPT ![h].todo = @ \ {u}]
  /\ UNCHANGED <<product, watch, edits, mishaps>>

QuickAddDone(h) ==
  /\ At(h, "siblings") /\ quickAdd[h].todo = {}
  /\ Ends(h)
  /\ UNCHANGED <<rows, unlinked, edits, mishaps>>

\* The request is cut off between two commits, or its compensation fails.
QuickAddDies(h) ==
  /\ ~At(h, "idle")
  /\ Mishap
  /\ Ends(h)
  /\ UNCHANGED <<rows, unlinked, edits>>

QuickAddStep ==
  \E h \in Handler :
     \/ \E p \in Product, u \in Url :
           QuickAddExisting(h, p, u) \/ \E n \in Name : QuickAddNew(h, p, n, u)
     \/ \E todo \in {{}, Siblings[quickAdd[h].url]} : QuickAddLinks(h, todo)
     \/ QuickAddRefused(h) \/ QuickAddFails(h) \/ QuickAddUndoes(h)
     \/ \E u \in Url : QuickAddSibling(h, u)
     \/ QuickAddDone(h) \/ QuickAddDies(h)

Next == EditStep \/ QuickAddStep

Spec == Init /\ [][Next]_cvars

-----------------------------------------------------------------------------
TypeOK ==
  /\ product \in [Product -> Name \cup {NoName}]
  /\ link \in [Url -> [of : Product \cup {NoProduct}, readings : SUBSET Reading]]
  /\ watch \in [Product -> [Email -> Nat]]
  /\ quickAdd \in [Handler -> [pc : {"idle", "linking", "undoing", "siblings"},
                               product : Product \cup {NoProduct}, url : Url,
                               made : BOOLEAN, todo : SUBSET Url]]
  /\ \A h \in Handler : ~At(h, "idle") => quickAdd[h].product \in Product
  /\ unlinked \subseteq Product
  /\ edits \in Nat /\ mishaps \in Nat

\* A quick-add that will still link the product it made, or delete it.
Holds(h, p) ==
  /\ At(h, "linking") \/ At(h, "undoing")
  /\ quickAdd[h].made /\ quickAdd[h].product = p
Orphans == {p \in unlinked : \A h \in Handler : ~Holds(h, p)}

\* "A duplicate URL cannot leave an orphaned just-created product behind":
\* whoever takes the page between the check and the insert, and whatever else
\* the insert runs into, a product without a link is left only by a request
\* that was cut off, one product each.
OrphansArePaidFor == Cardinality(Orphans) <= mishaps
=============================================================================
