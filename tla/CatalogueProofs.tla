--------------------------- MODULE CatalogueProofs ---------------------------
(***************************************************************************)
(* Proofs about Catalogue, and about Catalogue under backups and imports.  *)
(***************************************************************************)
EXTENDS Backup, FiniteSetTheorems, TLAPS

\* What OrphansArePaidFor needs to know of the state, whoever else writes rows.
OrphanInv ==
  /\ quickAdd \in [Handler -> [pc : {"idle", "linking", "undoing", "siblings"},
                               product : Product \cup {NoProduct}, url : Url,
                               made : BOOLEAN, todo : SUBSET Url]]
  /\ \A h \in Handler : ~At(h, "idle") => quickAdd[h].product \in Product
  /\ unlinked \subseteq Product
  /\ mishaps \in Nat
  /\ OrphansArePaidFor

LEMMA IdleIsARequest ==
  Idle \in [pc : {"idle", "linking", "undoing", "siblings"},
            product : Product \cup {NoProduct}, url : Url, made : BOOLEAN, todo : SUBSET Url]
<1>1. (CHOOSE u \in Url : TRUE) \in Url
  BY CatalogueAssumption
<1> QED
  BY <1>1 DEF Idle

-----------------------------------------------------------------------------
\* A step that makes no orphan leaves their number paid for.
LEMMA FewerOrphans ==
  ASSUME OrphanInv, Orphans' \subseteq Orphans, mishaps' = mishaps
  PROVE  OrphansArePaidFor'
<1>1. IsFiniteSet(Orphans)
  BY CatalogueAssumption, FS_Subset DEF Orphans, OrphanInv
<1>2. Cardinality(Orphans') <= Cardinality(Orphans)
  BY <1>1, FS_Subset
<1>3. IsFiniteSet(Orphans')
  BY <1>1, FS_Subset
<1>4. Cardinality(Orphans) \in Nat /\ Cardinality(Orphans') \in Nat
  BY <1>1, <1>3, FS_CardinalityType
<1> QED
  BY <1>2, <1>4 DEF OrphansArePaidFor, OrphanInv

\* A request that is cut off leaves at most the product it made.
LEMMA OneOrphanPerMishap ==
  ASSUME OrphanInv, NEW p, Orphans' \subseteq Orphans \cup {p}, mishaps' = mishaps + 1
  PROVE  OrphansArePaidFor'
<1>1. IsFiniteSet(Orphans)
  BY CatalogueAssumption, FS_Subset DEF Orphans, OrphanInv
<1>2. Cardinality(Orphans) \in Nat
  BY <1>1, FS_CardinalityType
<1>3. /\ IsFiniteSet(Orphans \cup {p})
      /\ Cardinality(Orphans \cup {p}) <= Cardinality(Orphans) + 1
  <2>1. CASE p \in Orphans
    <3>1. Orphans \cup {p} = Orphans
      BY <2>1
    <3>2. Cardinality(Orphans \cup {p}) = Cardinality(Orphans)
      BY <3>1
    <3>3. IsFiniteSet(Orphans \cup {p})
      BY <1>1, <3>1
    <3> QED
      BY <1>2, <3>2, <3>3
  <2>2. CASE p \notin Orphans
    <3>1. /\ IsFiniteSet(Orphans \cup {p})
          /\ Cardinality(Orphans \cup {p}) = Cardinality(Orphans) + 1
      BY <1>1, <2>2, FS_AddElement
    <3> QED
      BY <1>2, <3>1
  <2> QED
    BY <2>1, <2>2
<1>4. IsFiniteSet(Orphans') /\ Cardinality(Orphans') <= Cardinality(Orphans \cup {p})
  BY <1>3, FS_Subset
<1>5. Cardinality(Orphans') \in Nat /\ Cardinality(Orphans \cup {p}) \in Nat
  BY <1>3, <1>4, FS_CardinalityType
<1> QED
  BY <1>2, <1>3, <1>4, <1>5 DEF OrphansArePaidFor, OrphanInv

-----------------------------------------------------------------------------
\* The requests that no quick-add is part of take products out of unlinked.
LEMMA EditsKeepOrphansPaidFor ==
  ASSUME OrphanInv, unlinked' \subseteq unlinked, UNCHANGED <<quickAdd, mishaps>>
  PROVE  OrphanInv'
<1>1. Orphans' \subseteq Orphans
  BY DEF Orphans, Holds, At
<1>2. OrphansArePaidFor'
  BY <1>1, FewerOrphans
<1> QED
  BY <1>2 DEF OrphanInv, At

LEMMA EditStepKeepsOrphansPaidFor ==
  ASSUME OrphanInv, EditStep PROVE OrphanInv'
<1>1. unlinked' \subseteq unlinked /\ UNCHANGED <<quickAdd, mishaps>>
  BY DEF EditStep, CreateProduct, UpdateProduct, LinkProduct, CreateWatch, DeleteWatch,
         DeleteProduct, Deleted, Check, Unlink
<1> QED
  BY <1>1, EditsKeepOrphansPaidFor

LEMMA QuickAddKeepsOrphansPaidFor ==
  ASSUME OrphanInv, QuickAddStep PROVE OrphanInv'
<1> PICK h \in Handler :
     \/ \E p \in Product, u \in Url :
           QuickAddExisting(h, p, u) \/ \E n \in Name : QuickAddNew(h, p, n, u)
     \/ \E todo \in {{}, Siblings[quickAdd[h].url]} : QuickAddLinks(h, todo)
     \/ QuickAddRefused(h) \/ QuickAddFails(h) \/ QuickAddUndoes(h)
     \/ \E u \in Url : QuickAddSibling(h, u)
     \/ QuickAddDone(h) \/ QuickAddDies(h)
  BY DEF QuickAddStep
<1>1. ASSUME NEW p \in Product, NEW u \in Url, QuickAddExisting(h, p, u) PROVE OrphanInv'
  <2>1. Orphans' \subseteq Orphans
    BY <1>1 DEF QuickAddExisting, Orphans, Holds, At, OrphanInv
  <2>2. OrphansArePaidFor'
    BY <1>1, <2>1, FewerOrphans DEF QuickAddExisting
  <2> QED
    BY <1>1, <2>2 DEF QuickAddExisting, OrphanInv, At
<1>2. ASSUME NEW p \in Product, NEW u \in Url, NEW n \in Name, QuickAddNew(h, p, n, u)
      PROVE  OrphanInv'
  <2>1. Holds(h, p)'
    BY <1>2 DEF QuickAddNew, Holds, At, OrphanInv
  <2>2. Orphans' \subseteq Orphans
    BY <1>2, <2>1 DEF QuickAddNew, Orphans, Holds, At, OrphanInv
  <2>3. OrphansArePaidFor'
    BY <1>2, <2>2, FewerOrphans DEF QuickAddNew
  <2> QED
    BY <1>2, <2>3 DEF QuickAddNew, OrphanInv, At
<1>3. ASSUME NEW todo \in {{}, Siblings[quickAdd[h].url]}, QuickAddLinks(h, todo)
      PROVE  OrphanInv'
  <2>1. todo \subseteq Url
    BY CatalogueAssumption DEF OrphanInv
  <2>2. Orphans' \subseteq Orphans
    BY <1>3 DEF QuickAddLinks, Orphans, Holds, At, OrphanInv
  <2>3. OrphansArePaidFor'
    BY <1>3, <2>2, FewerOrphans DEF QuickAddLinks
  <2> QED
    BY <1>3, <2>1, <2>3 DEF QuickAddLinks, OrphanInv, At
<1>4. CASE QuickAddRefused(h) \/ QuickAddFails(h)
  <2>1. At(h, "linking") /\ Retreats(h) /\ UNCHANGED <<unlinked, mishaps>>
    BY <1>4 DEF QuickAddRefused, QuickAddFails
  <2>2. Orphans' \subseteq Orphans
    BY <2>1 DEF Retreats, MovesTo, Ends, Idle, Orphans, Holds, At, OrphanInv
  <2>3. OrphansArePaidFor'
    BY <2>1, <2>2, FewerOrphans
  <2>4. CASE quickAdd[h].made
    BY <2>1, <2>3, <2>4 DEF Retreats, MovesTo, OrphanInv, At
  <2>5. CASE ~quickAdd[h].made
    BY <2>1, <2>3, <2>5, IdleIsARequest DEF Retreats, Ends, Idle, OrphanInv, At
  <2> QED
    BY <2>4, <2>5
<1>5. CASE QuickAddUndoes(h)
  <2>1. Orphans' \subseteq Orphans
    BY <1>5 DEF QuickAddUndoes, Deleted, Ends, Idle, Orphans, Holds, At, OrphanInv
  <2>2. OrphansArePaidFor'
    BY <1>5, <2>1, FewerOrphans DEF QuickAddUndoes
  <2> QED
    BY <1>5, <2>2, IdleIsARequest DEF QuickAddUndoes, Deleted, Ends, Idle, OrphanInv, At
<1>6. ASSUME NEW u \in Url, QuickAddSibling(h, u) PROVE OrphanInv'
  <2>1. unlinked' \subseteq unlinked
    BY <1>6 DEF QuickAddSibling
  <2>2. Orphans' \subseteq Orphans
    BY <1>6, <2>1 DEF QuickAddSibling, Orphans, Holds, At, OrphanInv
  <2>3. OrphansArePaidFor'
    BY <1>6, <2>2, FewerOrphans DEF QuickAddSibling
  <2> QED
    BY <1>6, <2>1, <2>3 DEF QuickAddSibling, OrphanInv, At
<1>7. CASE QuickAddDone(h)
  <2>1. Orphans' \subseteq Orphans
    BY <1>7 DEF QuickAddDone, Ends, Idle, Orphans, Holds, At, OrphanInv
  <2>2. OrphansArePaidFor'
    BY <1>7, <2>1, FewerOrphans DEF QuickAddDone
  <2> QED
    BY <1>7, <2>2, IdleIsARequest DEF QuickAddDone, Ends, Idle, OrphanInv, At
<1>8. CASE QuickAddDies(h)
  <2>1. Orphans' \subseteq Orphans \cup {quickAdd[h].product}
    BY <1>8 DEF QuickAddDies, Ends, Idle, Orphans, Holds, At, OrphanInv
  <2>2. OrphansArePaidFor'
    BY <1>8, <2>1, OneOrphanPerMishap DEF QuickAddDies, Mishap
  <2> QED
    BY <1>8, <2>2, IdleIsARequest
    DEF QuickAddDies, Mishap, Ends, Idle, OrphanInv, At
<1> QED
  BY <1>1, <1>2, <1>3, <1>4, <1>5, <1>6, <1>7, <1>8

LEMMA NoOrphansAtFirst == ASSUME Init PROVE OrphanInv
<1>1. Orphans = {}
  BY DEF Init, Orphans
<1>2. OrphansArePaidFor
  BY <1>1, FS_EmptySet DEF Init, OrphansArePaidFor
<1> QED
  BY <1>2, IdleIsARequest DEF Init, OrphanInv, At, Idle

-----------------------------------------------------------------------------
\* A product that a quick-add made and never linked is left only by a request
\* that was cut off, however many requests run at once and whatever rows the
\* others write: the compensation covers every way the link can fail.
THEOREM QuickAddLeavesNoOrphan == Spec => []OrphansArePaidFor
<1>1. OrphanInv /\ [Next]_cvars => OrphanInv'
  <2>1. ASSUME OrphanInv, UNCHANGED cvars PROVE OrphanInv'
    BY <2>1 DEF cvars, OrphanInv, OrphansArePaidFor, Orphans, Holds, At
  <2> QED
    BY <2>1, EditStepKeepsOrphansPaidFor, QuickAddKeepsOrphansPaidFor DEF Next
<1>2. OrphanInv => OrphansArePaidFor
  BY DEF OrphanInv
<1> QED
  BY <1>1, <1>2, NoOrphansAtFirst, PTL DEF Spec

LEMMA BackupKeepsOrphansPaidFor ==
  ASSUME OrphanInv, [BNext]_bvars PROVE OrphanInv'
<1>1. CASE Elsewhere
  BY <1>1, EditStepKeepsOrphansPaidFor, QuickAddKeepsOrphansPaidFor DEF Elsewhere
<1>2. CASE ExportStep
  <2>1. unlinked' \subseteq unlinked /\ UNCHANGED <<quickAdd, mishaps>>
    BY <1>2 DEF ExportStep, ExportBegins, ExportEntry, ExportEntriesRead, ExportHistory,
                ExportEnds, cvars
  <2> QED
    BY <2>1, EditsKeepOrphansPaidFor
<1>3. CASE ImportStep
  <2>1. unlinked' \subseteq unlinked /\ UNCHANGED <<quickAdd, mishaps>>
    BY <1>3 DEF ImportStep, ImportBegins, ImportEntry, ImportHistory, ImportCommits,
                ImportFails, ImportDies, cvars
  <2> QED
    BY <2>1, EditsKeepOrphansPaidFor
<1>4. CASE StartAfresh
  BY <1>4, EditsKeepOrphansPaidFor DEF StartAfresh
<1>5. CASE UNCHANGED bvars
  BY <1>5, EditsKeepOrphansPaidFor DEF bvars, cvars
<1> QED
  BY <1>1, <1>2, <1>3, <1>4, <1>5 DEF BNext

\* The same beside exports and imports, and over the loss of a database.
THEOREM ImportsLeaveNoOrphan == BSpec => []OrphansArePaidFor
<1>1. BInit => OrphanInv
  BY NoOrphansAtFirst DEF BInit
<1>2. OrphanInv /\ [BNext]_bvars => OrphanInv'
  BY BackupKeepsOrphansPaidFor
<1>3. OrphanInv => OrphansArePaidFor
  BY DEF OrphanInv
<1> QED
  BY <1>1, <1>2, <1>3, PTL DEF BSpec

-----------------------------------------------------------------------------
LEMMA CascadesKeepTypes ==
  ASSUME TypeOK, NEW p \in Product, Deleted(p)
  PROVE  /\ product' \in [Product -> Name \cup {NoName}]
         /\ link' \in [Url -> [of : Product \cup {NoProduct}, readings : SUBSET Reading]]
         /\ watch' \in [Product -> [Email -> Nat]]
         /\ unlinked' \subseteq Product
<1>1. [e \in Email |-> 0] \in [Email -> Nat]
  OBVIOUS
<1> QED
  BY <1>1 DEF TypeOK, Deleted, NoLink

LEMMA LinkingKeepsTypes ==
  ASSUME TypeOK, NEW u \in Url, NEW p \in Product, Linked(u, p)
  PROVE  link' \in [Url -> [of : Product \cup {NoProduct}, readings : SUBSET Reading]]
BY DEF TypeOK, Linked

LEMMA EditsKeepTypes == ASSUME TypeOK, EditStep PROVE TypeOK'
<1>1. ASSUME NEW p \in Product, NEW n \in Name, CreateProduct(p, n) \/ UpdateProduct(p, n)
      PROVE  TypeOK'
  BY <1>1 DEF TypeOK, CreateProduct, UpdateProduct, Edit, At
<1>2. ASSUME NEW p \in Product, NEW u \in Url, LinkProduct(p, u) PROVE TypeOK'
  BY <1>2, LinkingKeepsTypes DEF TypeOK, LinkProduct, Edit, At
<1>3. ASSUME NEW p \in Product, NEW e \in Email, CreateWatch(p, e) PROVE TypeOK'
  <2>1. watch' \in [Product -> [Email -> Nat]]
    BY <1>3 DEF TypeOK, CreateWatch
  <2> QED
    BY <1>3, <2>1 DEF TypeOK, CreateWatch, Edit, At
<1>4. ASSUME NEW p \in Product, NEW e \in Email, DeleteWatch(p, e) PROVE TypeOK'
  <2>1. watch[p][e] - 1 \in Nat
    BY <1>4 DEF TypeOK, DeleteWatch
  <2>2. watch' \in [Product -> [Email -> Nat]]
    BY <1>4, <2>1 DEF TypeOK, DeleteWatch
  <2> QED
    BY <1>4, <2>2 DEF TypeOK, DeleteWatch, Edit, At
<1>5. ASSUME NEW p \in Product, DeleteProduct(p) PROVE TypeOK'
  BY <1>5, CascadesKeepTypes DEF TypeOK, DeleteProduct, Edit, At
<1>6. ASSUME NEW u \in Url, NEW r \in Reading, Check(u, r) PROVE TypeOK'
  <2> DEFINE checked == [link[u] EXCEPT !.readings = @ \cup {r}]
  <2>1. checked \in [of : Product \cup {NoProduct}, readings : SUBSET Reading]
    <3>1. link[u] \in [of : Product \cup {NoProduct}, readings : SUBSET Reading]
      BY DEF TypeOK
    <3>2. link[u].readings \cup {r} \in SUBSET Reading
      BY <3>1
    <3> QED
      BY <3>1, <3>2
  <2>2. link' = [link EXCEPT ![u] = checked]
    BY <1>6 DEF Check
  <2>3. link' \in [Url -> [of : Product \cup {NoProduct}, readings : SUBSET Reading]]
    <3> HIDE DEF checked
    <3> QED
      BY <2>1, <2>2 DEF TypeOK
  <2> QED
    BY <1>6, <2>3 DEF TypeOK, Check, Edit, At
<1>7. ASSUME NEW u \in Url, Unlink(u) PROVE TypeOK'
  BY <1>7 DEF TypeOK, Unlink, NoLink, Edit, At
<1> QED
  BY <1>1, <1>2, <1>3, <1>4, <1>5, <1>6, <1>7 DEF EditStep

LEMMA QuickAddsKeepTypes == ASSUME TypeOK, QuickAddStep PROVE TypeOK'
<1> PICK h \in Handler :
     \/ \E p \in Product, u \in Url :
           QuickAddExisting(h, p, u) \/ \E n \in Name : QuickAddNew(h, p, n, u)
     \/ \E todo \in {{}, Siblings[quickAdd[h].url]} : QuickAddLinks(h, todo)
     \/ QuickAddRefused(h) \/ QuickAddFails(h) \/ QuickAddUndoes(h)
     \/ \E u \in Url : QuickAddSibling(h, u)
     \/ QuickAddDone(h) \/ QuickAddDies(h)
  BY DEF QuickAddStep
<1>1. ASSUME NEW p \in Product, NEW u \in Url, QuickAddExisting(h, p, u) PROVE TypeOK'
  BY <1>1 DEF QuickAddExisting, TypeOK, Edit, At, rows
<1>2. ASSUME NEW p \in Product, NEW u \in Url, NEW n \in Name, QuickAddNew(h, p, n, u)
      PROVE  TypeOK'
  BY <1>2 DEF QuickAddNew, TypeOK, Edit, At
<1>3. ASSUME NEW todo \in {{}, Siblings[quickAdd[h].url]}, QuickAddLinks(h, todo) PROVE TypeOK'
  <2>1. /\ quickAdd[h].url \in Url /\ quickAdd[h].product \in Product
        /\ Linked(quickAdd[h].url, quickAdd[h].product)
    BY <1>3 DEF QuickAddLinks, TypeOK, At
  <2>2. todo \subseteq Url
    BY <2>1, CatalogueAssumption
  <2>3. link' \in [Url -> [of : Product \cup {NoProduct}, readings : SUBSET Reading]]
    BY <2>1, LinkingKeepsTypes
  <2> QED
    BY <1>3, <2>2, <2>3 DEF QuickAddLinks, TypeOK, At
<1>4. CASE QuickAddRefused(h) \/ QuickAddFails(h)
  <2>1. At(h, "linking") /\ Retreats(h) /\ UNCHANGED <<rows, unlinked, edits, mishaps>>
    BY <1>4 DEF QuickAddRefused, QuickAddFails
  <2>2. CASE quickAdd[h].made
    <3>1. quickAdd' = [quickAdd EXCEPT ![h].pc = "undoing"]
      BY <2>1, <2>2 DEF Retreats, MovesTo
    <3>2. \A g \in Handler : /\ quickAdd'[g].product = quickAdd[g].product
                             /\ ~At(g, "idle")' => ~At(g, "idle")
      BY <2>1, <3>1 DEF TypeOK, At
    <3>3. quickAdd' \in [Handler -> [pc : {"idle", "linking", "undoing", "siblings"},
                                    product : Product \cup {NoProduct}, url : Url,
                                    made : BOOLEAN, todo : SUBSET Url]]
      BY <3>1 DEF TypeOK
    <3> QED
      BY <2>1, <3>2, <3>3 DEF TypeOK, rows
  <2>3. CASE ~quickAdd[h].made
    <3>1. quickAdd' = [quickAdd EXCEPT ![h] = Idle]
      BY <2>1, <2>3 DEF Retreats, Ends
    <3>2. \A g \in Handler : ~At(g, "idle")' =>
            ~At(g, "idle") /\ quickAdd'[g].product = quickAdd[g].product
      BY <3>1 DEF TypeOK, At, Idle
    <3>3. quickAdd' \in [Handler -> [pc : {"idle", "linking", "undoing", "siblings"},
                                    product : Product \cup {NoProduct}, url : Url,
                                    made : BOOLEAN, todo : SUBSET Url]]
      BY <3>1, IdleIsARequest DEF TypeOK
    <3> QED
      BY <2>1, <3>2, <3>3 DEF TypeOK, rows
  <2> QED
    BY <2>2, <2>3
<1>5. CASE QuickAddUndoes(h)
  <2>1. quickAdd[h].product \in Product /\ Deleted(quickAdd[h].product)
    BY <1>5 DEF QuickAddUndoes, TypeOK, At
  <2> QED
    BY <1>5, <2>1, CascadesKeepTypes, IdleIsARequest DEF QuickAddUndoes, Ends, Idle, TypeOK, At
<1>6. ASSUME NEW u \in Url, QuickAddSibling(h, u) PROVE TypeOK'
  <2>1. quickAdd[h].product \in Product
    BY <1>6 DEF QuickAddSibling, TypeOK, At
  <2>2. /\ link' \in [Url -> [of : Product \cup {NoProduct}, readings : SUBSET Reading]]
        /\ unlinked' \subseteq Product
    BY <1>6, <2>1, LinkingKeepsTypes DEF QuickAddSibling, TypeOK
  <2> QED
    BY <1>6, <2>2 DEF QuickAddSibling, TypeOK, At
<1>7. CASE QuickAddDone(h)
  BY <1>7, IdleIsARequest DEF QuickAddDone, Ends, Idle, TypeOK, At, rows
<1>8. CASE QuickAddDies(h)
  BY <1>8, IdleIsARequest DEF QuickAddDies, Mishap, Ends, Idle, TypeOK, At, rows
<1> QED
  BY <1>1, <1>2, <1>3, <1>4, <1>5, <1>6, <1>7, <1>8

LEMMA TypedAtFirst == ASSUME Init PROVE TypeOK
<1>1. [e \in Email |-> 0] \in [Email -> Nat]
  OBVIOUS
<1> QED
  BY <1>1, IdleIsARequest DEF Init, TypeOK, NoLink, At, Idle

\* The rows and the requests keep their types, for any products, pages,
\* addresses and number of requests at once.
THEOREM CatalogueTypeCorrect == Spec => []TypeOK
<1>1. TypeOK /\ [Next]_cvars => TypeOK'
  <2>1. ASSUME TypeOK, UNCHANGED cvars PROVE TypeOK'
    BY <2>1 DEF cvars, rows, TypeOK, At
  <2> QED
    BY <2>1, EditsKeepTypes, QuickAddsKeepTypes DEF Next
<1> QED
  BY <1>1, TypedAtFirst, PTL DEF Spec

-----------------------------------------------------------------------------
LEMMA EmptyCopies == Blank \in Copies
<1>1. NoEntry \in [name : Name \cup {NoName}, urls : SUBSET Url, emails : [Email -> Nat]]
  BY DEF NoEntry
<1> QED
  BY <1>1 DEF Blank, Copies

Imports == [pc : {"idle", "merging", "committing"}, mode : {"merge", "replace"},
            todo : SUBSET Product, dropped : [Product -> [Email -> Nat]],
            wrote : [names : [Product -> Name \cup {NoName}],
                     links : [Url -> Product \cup {NoProduct}],
                     watches : [Product -> [Email -> Nat]],
                     points : SUBSET (Url \X Reading)]]

LEMMA NoImportIsOne == NoImport \in Imports
<1>1. [p \in Product |-> [e \in Email |-> 0]] \in [Product -> [Email -> Nat]]
  OBVIOUS
<1> QED
  BY <1>1 DEF NoImport, NothingWritten, Imports

LEMMA ExportsKeepTypes == ASSUME BTypeOK, ExportStep PROVE BTypeOK'
<1>0. TypeOK'
  BY DEF BTypeOK, TypeOK, ExportStep, ExportBegins, ExportEntry, ExportEntriesRead,
         ExportHistory, ExportEnds, cvars, rows, At
<1>1. CASE ExportBegins
  <2>1. [Blank EXCEPT !.entry = [p \in Product |-> [NoEntry EXCEPT !.name = product[p]]]]
          \in Copies
    BY EmptyCopies DEF Blank, NoEntry, Copies, BTypeOK, TypeOK
  <2> QED
    BY <1>0, <1>1, <2>1 DEF ExportBegins, BTypeOK
<1>2. ASSUME NEW p \in Product, ExportEntry(p) PROVE BTypeOK'
  <2> DEFINE entry == [name |-> export.draft.entry[p].name,
                      urls |-> {u \in Url : link[u].of = p}, emails |-> watch[p]]
             entries == [export.draft.entry EXCEPT ![p] = entry]
             draft == [export.draft EXCEPT !.entry = entries]
  <2>1. export.draft.entry[p].name \in Name \cup {NoName} /\ watch[p] \in [Email -> Nat]
    BY DEF Copies, BTypeOK, TypeOK
  <2>2. entry \in [name : Name \cup {NoName}, urls : SUBSET Url, emails : [Email -> Nat]]
    BY <2>1
  <2>3. entries \in [Product -> [name : Name \cup {NoName}, urls : SUBSET Url,
                                emails : [Email -> Nat]]]
    <3> HIDE DEF entry
    <3> QED
      BY <2>2 DEF Copies, BTypeOK
  <2>4. draft \in Copies
    <3> HIDE DEF entries
    <3> QED
      BY <2>3 DEF Copies, BTypeOK
  <2>5. export' = [export EXCEPT !.todo = @ \ {p}, !.draft = draft]
    BY <1>2 DEF ExportEntry
  <2>6. export' \in [pc : {"idle", "entries", "history"}, todo : SUBSET Product, draft : Copies]
    <3> HIDE DEF draft
    <3> QED
      BY <2>4, <2>5 DEF BTypeOK
  <2>7. UNCHANGED <<file, import, touched>>
    BY <1>2 DEF ExportEntry
  <2> QED
    BY <1>0, <2>6, <2>7 DEF BTypeOK
<1>3. CASE ExportEntriesRead
  BY <1>0, <1>3 DEF ExportEntriesRead, BTypeOK, Entries
<1>4. ASSUME NEW p \in Product, ExportHistory(p) PROVE BTypeOK'
  BY <1>0, <1>4 DEF ExportHistory, BTypeOK, Copies
<1>5. CASE ExportEnds
  BY <1>0, <1>5, EmptyCopies DEF ExportEnds, BTypeOK
<1> QED
  BY <1>1, <1>2, <1>3, <1>4, <1>5 DEF ExportStep

LEMMA QueriesAreTyped ==
  ASSUME BTypeOK, NEW p \in Product
  PROVE  /\ NameSeen(p) \in Name \cup {NoName}
         /\ \A e \in Email : WatchesSeen(p, e) \in Nat
BY DEF BTypeOK, TypeOK, NameSeen, WatchesSeen, Wrote

LEMMA ImportsKeepTypes == ASSUME BTypeOK, ImportStep PROVE BTypeOK'
<1>1. ASSUME NEW mode \in {"merge", "replace"}, ImportBegins(mode) PROVE BTypeOK'
  <2>1. import' \in Imports
    BY <1>1, NoImportIsOne
    DEF ImportBegins, BTypeOK, TypeOK, Imports, Entries, NoImport, NothingWritten
  <2> QED
    BY <1>1, <2>1 DEF ImportBegins, BTypeOK, TypeOK, Imports, cvars, rows, At
<1>2. ASSUME NEW p \in Product, NEW q \in Product, ImportEntry(p, q) PROVE BTypeOK'
  <2> DEFINE entry == file.entry[p]
             same == Named(entry.name)
             names == [import.wrote.names EXCEPT ![q] = IF same = {} THEN entry.name ELSE @]
             links == [u \in Url |-> IF u \in entry.urls /\ ~LinkSeen(u) THEN q
                                     ELSE import.wrote.links[u]]
             added == [e \in Email |-> import.wrote.watches[q][e] +
                         (IF entry.emails[e] > 0 /\ WatchesSeen(q, e) = 0 THEN 1 ELSE 0)]
             watches == [import.wrote.watches EXCEPT ![q] = added]
             wrote == [import.wrote EXCEPT !.names = names, !.links = links, !.watches = watches]
  <2>1. names \in [Product -> Name \cup {NoName}]
    BY DEF BTypeOK, Copies
  <2>2. links \in [Url -> Product \cup {NoProduct}]
    BY DEF BTypeOK
  <2>3. watches \in [Product -> [Email -> Nat]]
    <3>1. added \in [Email -> Nat]
      BY DEF BTypeOK
    <3> HIDE DEF added
    <3> QED
      BY <3>1 DEF BTypeOK
  <2>4. import' = [import EXCEPT !.todo = @ \ {p}, !.wrote = wrote]
    BY <1>2 DEF ImportEntry, BTypeOK, Wrote
  <2>5. import' \in Imports
    <3> HIDE DEF names, links, watches
    <3>1. wrote \in [names : [Product -> Name \cup {NoName}],
                    links : [Url -> Product \cup {NoProduct}],
                    watches : [Product -> [Email -> Nat]],
                    points : SUBSET (Url \X Reading)]
      BY <2>1, <2>2, <2>3 DEF BTypeOK
    <3> HIDE DEF wrote
    <3> QED
      BY <2>4, <3>1 DEF BTypeOK, Imports
  <2>6. UNCHANGED <<cvars, file, export, touched>>
    BY <1>2 DEF ImportEntry
  <2>7. TypeOK'
    BY <2>6 DEF BTypeOK, TypeOK, cvars, rows, At
  <2> QED
    BY <2>5, <2>6, <2>7 DEF BTypeOK, Imports
<1>3. CASE ImportHistory
  BY <1>3 DEF ImportHistory, BTypeOK, TypeOK, Copies, cvars, rows, At
<1>4. CASE ImportCommits
  <2>1. product' \in [Product -> Name \cup {NoName}]
    BY <1>4, QueriesAreTyped DEF ImportCommits
  <2>2. watch' \in [Product -> [Email -> Nat]]
    BY <1>4, QueriesAreTyped DEF ImportCommits
  <2>3. link' \in [Url -> [of : Product \cup {NoProduct}, readings : SUBSET Reading]]
    BY <1>4 DEF ImportCommits, BTypeOK, TypeOK, Wrote
  <2>4. TypeOK'
    BY <1>4, <2>1, <2>2, <2>3 DEF ImportCommits, BTypeOK, TypeOK, At
  <2> QED
    BY <1>4, <2>4, NoImportIsOne DEF ImportCommits, BTypeOK, Imports
<1>5. CASE ImportFails \/ ImportDies
  BY <1>5, NoImportIsOne
  DEF ImportFails, ImportDies, BTypeOK, TypeOK, Imports, cvars, rows, At
<1> QED
  BY <1>1, <1>2, <1>3, <1>4, <1>5 DEF ImportStep

LEMMA BackupsKeepTypes == ASSUME BTypeOK, [BNext]_bvars PROVE BTypeOK'
<1>1. CASE Elsewhere
  <2>1. TypeOK'
    BY <1>1, EditsKeepTypes, QuickAddsKeepTypes DEF Elsewhere, BTypeOK
  <2> QED
    BY <1>1, <2>1 DEF Elsewhere, BTypeOK
<1>2. CASE StartAfresh
  <2>1. [p \in Product |-> [e \in Email |-> 0]] \in [Product -> [Email -> Nat]]
    OBVIOUS
  <2>2. TypeOK'
    BY <1>2, <2>1 DEF StartAfresh, BTypeOK, TypeOK, NoLink, At
  <2> QED
    BY <1>2, <2>2 DEF StartAfresh, BTypeOK
<1>3. CASE UNCHANGED bvars
  BY <1>3 DEF bvars, cvars, rows, BTypeOK, TypeOK, At
<1> QED
  BY <1>1, <1>2, <1>3, ExportsKeepTypes, ImportsKeepTypes DEF BNext

\* Files, exports and imports keep their types, and so do the rows that an
\* import writes: an import never counts a watch below nought.
THEOREM BackupTypeCorrect == BSpec => []BTypeOK
<1>1. BInit => BTypeOK
  BY TypedAtFirst, EmptyCopies, NoImportIsOne DEF BInit, BTypeOK, Imports
<1>2. BTypeOK /\ [BNext]_bvars => BTypeOK'
  BY BackupsKeepTypes
<1> QED
  BY <1>1, <1>2, PTL DEF BSpec

-----------------------------------------------------------------------------
\* What a backup says is in the rows.
Stored(f) ==
  /\ \A p \in Entries(f) : \E q \in Product :
       /\ product[q] = f.entry[p].name
       /\ \A e \in Email : f.entry[p].emails[e] > 0 => watch[q][e] > 0
  /\ \A p \in Entries(f) : \A u \in f.entry[p].urls : Tracked(u)
  /\ \A x \in f.history : Tracked(x[1]) => x[2] \in link[x[1]].readings

\* The draft of an export that nothing was written beside says what is there.
DraftIsTrue ==
  /\ \A p \in Product :
       /\ export.draft.entry[p].name = product[p]
       /\ \A u \in export.draft.entry[p].urls : link[u].of = p
       /\ \A e \in Email : export.draft.entry[p].emails[e] > 0 => watch[p][e] > 0
  /\ \A x \in export.draft.history : x[2] \in link[x[1]].readings

\* The pages an import has linked are those of a product of that name.
OwnPages ==
  \A u \in Url : Wrote.links[u] # NoProduct =>
    \E p \in Entries(file) : /\ u \in file.entry[p].urls
                             /\ NameSeen(Wrote.links[u]) = file.entry[p].name

\* The entries an import is done with are among the rows it sees.
EntriesAreSeen ==
  /\ import.todo \subseteq Entries(file)
  /\ \A p \in Entries(file) \ import.todo : \E q \in Product :
       /\ NameSeen(q) = file.entry[p].name
       /\ \A e \in Email : file.entry[p].emails[e] > 0 => WatchesSeen(q, e) > 0
  /\ \A p \in Entries(file) \ import.todo : \A u \in file.entry[p].urls : LinkSeen(u)
  /\ OwnPages
  /\ import.pc = "committing" =>
       /\ import.todo = {}
       /\ \A x \in file.history : LinkSeen(x[1]) =>
            x \in Wrote.points \/ x[2] \in link[x[1]].readings

BackupInv ==
  /\ BTypeOK
  /\ import.pc # "idle" => export.pc = "idle"
  /\ export.pc # "idle" /\ "export" \notin touched => DraftIsTrue
  /\ "file" \notin touched => Stored(file)
  /\ import.pc # "idle" /\ "import" \notin touched => EntriesAreSeen
  /\ import.mode = "merge" => import.dropped = NoImport.dropped
  /\ import.pc # "idle" /\ import.mode = "merge" /\ touched \cap {"file", "import"} = {} =>
       Wrote = NothingWritten

LEMMA ExportsStayTrue ==
  ASSUME BackupInv, BTypeOK', ExportStep PROVE BackupInv'
<1> USE DEF BackupInv
<1>0. /\ UNCHANGED <<product, link, watch, import>>
      /\ import.pc = "idle"
  BY DEF ExportStep, ExportBegins, ExportEntry, ExportEntriesRead, ExportHistory, ExportEnds,
         cvars, rows
<1>1. CASE ExportBegins
  <2> DEFINE named(p) == [NoEntry EXCEPT !.name = product[p]]
             draft == [Blank EXCEPT !.entry = [p \in Product |-> named(p)]]
  <2>1. \A p \in Product : /\ draft.entry[p].name = product[p]
                           /\ draft.entry[p].urls = {}
                           /\ \A e \in Email : draft.entry[p].emails[e] = 0
    <3>1. draft.entry = [p \in Product |-> named(p)]
      <4> HIDE DEF named
      <4> QED
        BY DEF Blank
    <3>2. \A p \in Product : /\ named(p).name = product[p] /\ named(p).urls = {}
                             /\ \A e \in Email : named(p).emails[e] = 0
      BY DEF NoEntry
    <3> HIDE DEF draft, named
    <3> QED
      BY <3>1, <3>2
  <2>2. draft.history = {} /\ export'.draft = draft
    BY <1>1 DEF ExportBegins, Blank
  <2>3. DraftIsTrue'
    <3> HIDE DEF draft
    <3> QED
      BY <1>0, <2>1, <2>2 DEF DraftIsTrue
  <2> QED
    BY <1>0, <1>1, <2>3 DEF ExportBegins, Stored, Tracked
<1>2. ASSUME NEW p \in Product, ExportEntry(p) PROVE BackupInv'
  <2>1. ASSUME DraftIsTrue PROVE DraftIsTrue'
    <3> DEFINE read == [name |-> export.draft.entry[p].name,
                       urls |-> {u \in Url : link[u].of = p}, emails |-> watch[p]]
    <3>1. \A q \in Product : export'.draft.entry[q] = IF q = p THEN read ELSE export.draft.entry[q]
      <4>1. export'.draft.entry = [export.draft.entry EXCEPT ![p] = read]
        BY <1>2 DEF ExportEntry, BTypeOK, Copies
      <4> HIDE DEF read
      <4> QED
        BY <4>1 DEF BTypeOK, Copies
    <3>2. export'.draft.history = export.draft.history
      BY <1>2 DEF ExportEntry, BTypeOK, Copies
    <3>3. ASSUME NEW q \in Product
          PROVE  /\ export'.draft.entry[q].name = product[q]
                 /\ \A u \in export'.draft.entry[q].urls : link[u].of = q
                 /\ \A e \in Email : export'.draft.entry[q].emails[e] > 0 => watch[q][e] > 0
      <4>1. CASE q = p
        <5>1. export'.draft.entry[q] = read
          BY <3>1, <4>1
        <5>2. export.draft.entry[p].name = product[p]
          BY <2>1 DEF DraftIsTrue
        <5> QED
          BY <4>1, <5>1, <5>2
      <4>2. CASE q # p
        <5>1. export'.draft.entry[q] = export.draft.entry[q]
          BY <3>1, <4>2
        <5> QED
          BY <2>1, <5>1 DEF DraftIsTrue
      <4> QED
        BY <4>1, <4>2
    <3>4. /\ \A x \in export'.draft.history : x[2] \in link[x[1]].readings
          /\ product' = product /\ link' = link /\ watch' = watch
      BY <1>0, <2>1, <3>2 DEF DraftIsTrue
    <3> QED
      BY <3>3, <3>4 DEF DraftIsTrue
  <2> QED
    BY <1>0, <1>2, <2>1 DEF ExportEntry, Stored, Tracked
<1>3. CASE ExportEntriesRead
  <2>1. export'.draft = export.draft
    BY <1>3 DEF ExportEntriesRead, BTypeOK
  <2> QED
    BY <1>0, <1>3, <2>1 DEF ExportEntriesRead, DraftIsTrue, Stored, Tracked
<1>4. ASSUME NEW p \in Product, ExportHistory(p) PROVE BackupInv'
  <2>1. ASSUME DraftIsTrue PROVE DraftIsTrue'
    <3>1. /\ export'.draft.entry = export.draft.entry
          /\ export'.draft.history = export.draft.history \cup
               {x \in Url \X Reading : link[x[1]].of = p /\ x[2] \in link[x[1]].readings}
      BY <1>4 DEF ExportHistory, BTypeOK, Copies
    <3> QED
      BY <1>0, <2>1, <3>1 DEF DraftIsTrue
  <2> QED
    BY <1>0, <1>4, <2>1 DEF ExportHistory, Stored, Tracked
<1>5. CASE ExportEnds
  <2>1. ASSUME DraftIsTrue PROVE Stored(file)'
    <3>1. file' = export.draft
      BY <1>5 DEF ExportEnds
    <3>2. \A p \in Product : \A u \in file'.entry[p].urls : link[u].of = p
      BY <2>1, <3>1 DEF DraftIsTrue
    <3> QED
      BY <1>0, <2>1, <3>1, <3>2, CatalogueAssumption DEF DraftIsTrue, Stored, Entries, Tracked
  <2> QED
    BY <1>0, <1>5, <2>1 DEF ExportEnds
<1> QED
  BY <1>1, <1>2, <1>3, <1>4, <1>5 DEF ExportStep

-----------------------------------------------------------------------------
\* What an import that has written nothing yet sees is what is there.
LEMMA NothingWrittenSeesTheRows ==
  ASSUME BTypeOK, Wrote = NothingWritten, import.dropped = NoImport.dropped
  PROVE  /\ \A p \in Product : NameSeen(p) = product[p]
         /\ \A u \in Url : LinkSeen(u) <=> Tracked(u)
         /\ \A p \in Product, e \in Email : WatchesSeen(p, e) = watch[p][e]
BY DEF BTypeOK, TypeOK, NothingWritten, NoImport, NameSeen, LinkSeen, WatchesSeen

\* Of one name there is one row only where the lookup does not raise.
LEMMA NamesAreLookedUp ==
  ASSUME NEW p \in Product, ~Ambiguous(p),
         NEW q \in Named(file.entry[p].name), NEW r \in Named(file.entry[p].name)
  PROVE  q = r
<1> DEFINE same == Named(file.entry[p].name)
<1>1. IsFiniteSet(same)
  BY CatalogueAssumption, FS_Subset DEF Named
<1>2. SUFFICES ASSUME q # r PROVE FALSE
  OBVIOUS
<1>3. {q, r} \subseteq same /\ Cardinality({q, r}) = 2
  <2>1. Cardinality({q}) = 1 /\ IsFiniteSet({q})
    BY FS_Singleton
  <2>2. Cardinality({q} \cup {r}) = Cardinality({q}) + 1
    BY <1>2, <2>1, FS_AddElement
  <2>3. {q} \cup {r} = {q, r}
    OBVIOUS
  <2> QED
    BY <2>1, <2>2, <2>3
<1>4. Cardinality({q, r}) <= Cardinality(same)
  BY <1>1, <1>3, FS_Subset
<1>5. Cardinality(same) \in Nat
  BY <1>1, FS_CardinalityType
<1> QED
  BY <1>3, <1>4, <1>5 DEF Ambiguous

\* What one entry of the file changes in the import.
LEMMA EntryWrites ==
  ASSUME BTypeOK, NEW p \in Product, NEW q \in Product, ImportEntry(p, q)
  PROVE  LET entry == file.entry[p]
             same == Named(entry.name)
         IN  /\ import.pc = "merging" /\ p \in import.todo /\ ~Ambiguous(p)
             /\ IF same # {} THEN q \in same ELSE NameSeen(q) = NoName /\ Fresh(q)
             /\ import'.pc = import.pc /\ import'.mode = import.mode
             /\ import'.todo = import.todo \ {p} /\ import'.dropped = import.dropped
             /\ Wrote'.names = [Wrote.names EXCEPT ![q] = IF same = {} THEN entry.name ELSE @]
             /\ Wrote'.links = [u \in Url |-> IF u \in entry.urls /\ ~LinkSeen(u) THEN q
                                              ELSE Wrote.links[u]]
             /\ Wrote'.watches = [Wrote.watches EXCEPT ![q] = [e \in Email |->
                  @[e] + (IF entry.emails[e] > 0 /\ WatchesSeen(q, e) = 0 THEN 1 ELSE 0)]]
             /\ Wrote'.points = Wrote.points
             /\ UNCHANGED <<product, link, watch, file, export, touched>>
BY DEF ImportEntry, BTypeOK, Wrote, cvars, rows

LEMMA EntriesBecomeSeen ==
  ASSUME BackupInv, NEW p \in Product, NEW q \in Product, ImportEntry(p, q), EntriesAreSeen
  PROVE  EntriesAreSeen'
<1> USE DEF BackupInv
<1> DEFINE entry == file.entry[p]
           same == Named(entry.name)
<1>1. /\ import.pc = "merging" /\ p \in import.todo /\ UNCHANGED <<product, link, watch, file>>
      /\ ~Ambiguous(p)
      /\ IF same # {} THEN q \in same ELSE NameSeen(q) = NoName /\ Fresh(q)
      /\ import'.todo = import.todo \ {p} /\ import'.pc = import.pc
      /\ import'.dropped = import.dropped
      /\ import'.wrote.names =
           [import.wrote.names EXCEPT ![q] = IF same = {} THEN entry.name ELSE @]
      /\ import'.wrote.links = [u \in Url |-> IF u \in entry.urls /\ ~LinkSeen(u) THEN q
                                              ELSE import.wrote.links[u]]
      /\ import'.wrote.watches = [import.wrote.watches EXCEPT ![q] = [e \in Email |->
           @[e] + (IF entry.emails[e] > 0 /\ WatchesSeen(q, e) = 0 THEN 1 ELSE 0)]]
  BY EntryWrites DEF Wrote
<1>2. p \in Entries(file) /\ entry.name # NoName
  BY <1>1 DEF EntriesAreSeen, Entries
<1>3. \A r \in Product : NameSeen(r) # NoName => NameSeen(r)' = NameSeen(r)
  BY <1>1 DEF NameSeen, Wrote, Named, BTypeOK
<1>4. NameSeen(q)' = entry.name
  BY <1>1, <1>2 DEF NameSeen, Wrote, Named, BTypeOK
<1>5. \A r \in Product, e \in Email : WatchesSeen(r, e) > 0 => WatchesSeen(r, e)' > 0
  BY <1>1 DEF WatchesSeen, Wrote, BTypeOK, TypeOK
<1>6. \A e \in Email : entry.emails[e] > 0 => WatchesSeen(q, e)' > 0
  <2> SUFFICES ASSUME NEW e \in Email, entry.emails[e] > 0 PROVE WatchesSeen(q, e)' > 0
    OBVIOUS
  <2>1. CASE WatchesSeen(q, e) > 0
    BY <1>5, <2>1
  <2>2. CASE WatchesSeen(q, e) = 0
    BY <1>1, <2>2 DEF WatchesSeen, Wrote, BTypeOK, TypeOK
  <2> QED
    BY <2>1, <2>2, QueriesAreTyped
<1>7. \A r \in Entries(file) \ import'.todo : \E t \in Product :
        /\ NameSeen(t)' = file.entry[r].name
        /\ \A e \in Email : file.entry[r].emails[e] > 0 => WatchesSeen(t, e)' > 0
  <2> SUFFICES ASSUME NEW r \in Entries(file) \ import'.todo
               PROVE  \E t \in Product :
                        /\ NameSeen(t)' = file.entry[r].name
                        /\ \A e \in Email : file.entry[r].emails[e] > 0 => WatchesSeen(t, e)' > 0
    OBVIOUS
  <2>1. CASE r = p
    BY <1>4, <1>6, <2>1
  <2>2. CASE r # p
    <3>1. PICK t \in Product :
            /\ NameSeen(t) = file.entry[r].name
            /\ \A e \in Email : file.entry[r].emails[e] > 0 => WatchesSeen(t, e) > 0
      BY <1>1, <2>2 DEF EntriesAreSeen
    <3>2. NameSeen(t)' = file.entry[r].name
      BY <1>3, <3>1 DEF Entries
    <3> QED
      BY <1>5, <3>1, <3>2
  <2> QED
    BY <2>1, <2>2
<1>8. \A u \in Url : LinkSeen(u) \/ u \in entry.urls => LinkSeen(u)'
  BY <1>1, CatalogueAssumption DEF LinkSeen, Tracked, Wrote
<1>9. OwnPages'
  <2> SUFFICES ASSUME NEW u \in Url, Wrote'.links[u] # NoProduct
               PROVE  \E r \in Entries(file) : /\ u \in file.entry[r].urls
                                               /\ NameSeen(Wrote.links[u])' = file.entry[r].name
    BY <1>1 DEF OwnPages, Entries
  <2>1. CASE u \in entry.urls /\ ~LinkSeen(u)
    <3>1. Wrote'.links[u] = q
      BY <1>1, <2>1 DEF Wrote
    <3>2. NameSeen(Wrote.links[u])' = entry.name
      BY <1>4, <3>1 DEF NameSeen
    <3> QED
      BY <1>2, <2>1, <3>2
  <2>2. CASE ~(u \in entry.urls /\ ~LinkSeen(u))
    <3>1. Wrote'.links[u] = Wrote.links[u] /\ Wrote.links[u] \in Product
      BY <1>1, <2>2 DEF Wrote, BTypeOK
    <3>2. PICK r \in Entries(file) : /\ u \in file.entry[r].urls
                                     /\ NameSeen(Wrote.links[u]) = file.entry[r].name
      BY <3>1, CatalogueAssumption DEF EntriesAreSeen, OwnPages
    <3>3. NameSeen(Wrote.links[u])' = NameSeen(Wrote.links[u])
      <4>1. NameSeen(Wrote.links[u]) # NoName
        BY <3>2 DEF Entries
      <4> QED
        BY <1>3, <3>1, <4>1 DEF NameSeen
    <3> QED
      BY <3>2, <3>3
  <2> QED
    BY <2>1, <2>2
<1>10. \A r \in Entries(file) \ import'.todo : \A u \in file.entry[r].urls : LinkSeen(u)'
  BY <1>1, <1>8 DEF EntriesAreSeen, BTypeOK, Copies, Entries
<1>11. Entries(file)' = Entries(file) /\ import'.todo \subseteq Entries(file)
  BY <1>1 DEF Entries, EntriesAreSeen
<1> QED
  BY <1>1, <1>7, <1>9, <1>10, <1>11 DEF EntriesAreSeen

\* Nothing is added to rows that hold all the file says.
LEMMA StoredEntriesAddNothing ==
  ASSUME BackupInv, BTypeOK', NEW p \in Product, NEW q \in Product, ImportEntry(p, q),
         EntriesAreSeen, Stored(file), Wrote = NothingWritten, import.mode = "merge"
  PROVE  Wrote' = NothingWritten
<1> USE DEF BackupInv
<1> DEFINE entry == file.entry[p]
           same == Named(entry.name)
<1>1. /\ p \in Entries(file) /\ ~Ambiguous(p)
      /\ IF same # {} THEN q \in same ELSE NameSeen(q) = NoName /\ Fresh(q)
  BY DEF ImportEntry, EntriesAreSeen
<1>2. /\ \A r \in Product : NameSeen(r) = product[r]
      /\ \A u \in Url : LinkSeen(u) <=> Tracked(u)
      /\ \A r \in Product, e \in Email : WatchesSeen(r, e) = watch[r][e]
  BY NothingWrittenSeesTheRows
<1>3. PICK r \in Product : /\ product[r] = entry.name
                           /\ \A e \in Email : entry.emails[e] > 0 => watch[r][e] > 0
  BY <1>1 DEF Stored
<1>4. r \in same
  BY <1>2, <1>3 DEF Named
<1>5. q = r
  BY <1>1, <1>4, NamesAreLookedUp
<1>6. \A e \in Email : ~(entry.emails[e] > 0 /\ WatchesSeen(q, e) = 0)
  BY <1>2, <1>3, <1>5
<1>7. \A u \in Url : ~(u \in entry.urls /\ ~LinkSeen(u))
  BY <1>1, <1>2 DEF Stored
<1>8. /\ Wrote'.names = [Wrote.names EXCEPT ![q] = IF same = {} THEN entry.name ELSE @]
      /\ Wrote'.links = [u \in Url |-> IF u \in entry.urls /\ ~LinkSeen(u) THEN q
                                       ELSE Wrote.links[u]]
      /\ Wrote'.watches = [Wrote.watches EXCEPT ![q] = [e \in Email |->
           @[e] + (IF entry.emails[e] > 0 /\ WatchesSeen(q, e) = 0 THEN 1 ELSE 0)]]
      /\ Wrote'.points = Wrote.points
  BY EntryWrites
<1> HIDE DEF entry, same
<1>9. Wrote'.names = Wrote.names
  BY <1>4, <1>8 DEF BTypeOK, Wrote
<1>10. Wrote'.links = Wrote.links
  BY <1>7, <1>8 DEF BTypeOK, Wrote
<1>11. Wrote'.watches = Wrote.watches
  BY <1>6, <1>8 DEF BTypeOK, Wrote
<1>12. Wrote' = [names |-> Wrote'.names, links |-> Wrote'.links, watches |-> Wrote'.watches,
                points |-> Wrote'.points]
  BY DEF BTypeOK, Wrote
<1> QED
  BY <1>8, <1>9, <1>10, <1>11, <1>12 DEF NothingWritten

LEMMA ImportsAreSeen ==
  ASSUME BackupInv, BTypeOK', ImportStep, ~ImportCommits PROVE BackupInv'
<1> USE DEF BackupInv
<1>0. UNCHANGED <<product, link, watch, file, export>>
  BY DEF ImportStep, ImportBegins, ImportEntry, ImportHistory, ImportFails, ImportDies, cvars, rows
<1>1. ASSUME NEW mode \in {"merge", "replace"}, ImportBegins(mode) PROVE BackupInv'
  <2>1. /\ import'.pc = "merging" /\ import'.mode = mode /\ import'.todo = Entries(file)
        /\ import'.dropped = IF mode = "replace" THEN watch ELSE NoImport.dropped
        /\ import'.wrote = NothingWritten
        /\ export.pc = "idle" /\ touched' = touched \ {"import"}
    BY <1>1 DEF ImportBegins, NoImport
  <2>2. EntriesAreSeen'
    BY <1>0, <2>1 DEF EntriesAreSeen, Entries, OwnPages, Wrote, NothingWritten
  <2> QED
    BY <1>0, <2>1, <2>2 DEF Stored, Entries, Tracked, Wrote, NoImport, NothingWritten
<1>2. ASSUME NEW p \in Product, NEW q \in Product, ImportEntry(p, q) PROVE BackupInv'
  <2>1. /\ import'.pc = import.pc /\ import'.mode = import.mode /\ import.pc = "merging"
        /\ import'.dropped = import.dropped /\ touched' = touched
    BY <1>2, EntryWrites
  <2>2. ASSUME EntriesAreSeen PROVE EntriesAreSeen'
    BY <1>2, <2>2, EntriesBecomeSeen
  <2>3. ASSUME EntriesAreSeen, Stored(file), Wrote = NothingWritten, import.mode = "merge"
        PROVE  Wrote' = NothingWritten
    BY <1>2, <2>3, StoredEntriesAddNothing
  <2> QED
    BY <1>0, <2>1, <2>2, <2>3 DEF Stored, Entries, Tracked, NoImport, NothingWritten
<1>3. CASE ImportHistory
  <2>1. /\ import.pc = "merging" /\ import.todo = {} /\ import'.pc = "committing"
        /\ import'.mode = import.mode /\ import'.todo = import.todo
        /\ import'.dropped = import.dropped /\ touched' = touched
        /\ Wrote' = [Wrote EXCEPT !.points = {x \in file.history :
                       LinkSeen(x[1]) /\ x[2] \notin link[x[1]].readings}]
    BY <1>3 DEF ImportHistory, BTypeOK, Wrote
  <2>2. /\ Wrote'.names = Wrote.names /\ Wrote'.links = Wrote.links
        /\ Wrote'.watches = Wrote.watches
        /\ Wrote'.points = {x \in file.history :
                              LinkSeen(x[1]) /\ x[2] \notin link[x[1]].readings}
    BY <2>1 DEF BTypeOK, Wrote
  <2>3. ASSUME EntriesAreSeen PROVE EntriesAreSeen'
    BY <1>0, <2>1, <2>2, <2>3
    DEF EntriesAreSeen, Entries, OwnPages, NameSeen, WatchesSeen, LinkSeen, Tracked
  <2>4. ASSUME Stored(file), Wrote = NothingWritten PROVE Wrote' = NothingWritten
    <3>1. Wrote'.points = {}
      BY <2>2, <2>4 DEF Stored, LinkSeen, Tracked, NothingWritten, BTypeOK, Copies
    <3> QED
      BY <2>1, <2>2, <2>4, <3>1 DEF NothingWritten
  <2> QED
    BY <1>0, <2>1, <2>3, <2>4 DEF Stored, Entries, Tracked, NoImport, NothingWritten
<1>4. CASE ImportFails \/ ImportDies
  BY <1>0, <1>4 DEF ImportFails, ImportDies, Stored, Entries, Tracked, NoImport, NothingWritten
<1> QED
  BY <1>1, <1>2, <1>3, <1>4 DEF ImportStep

-----------------------------------------------------------------------------
\* The rows after a commit are those the import saw.
LEMMA CommitsWhatIsSeen ==
  ASSUME BTypeOK, ImportCommits
  PROVE  /\ \A p \in Product : product'[p] = NameSeen(p)
         /\ \A p \in Product, e \in Email : watch'[p][e] = WatchesSeen(p, e)
         /\ \A u \in Url : /\ Tracked(u)' <=> LinkSeen(u)
                           /\ Wrote.links[u] # NoProduct => link'[u].of = Wrote.links[u]
                           /\ link[u].readings \subseteq link'[u].readings
         /\ \A x \in Wrote.points : x[2] \in link'[x[1]].readings
         /\ UNCHANGED <<file, export>>
<1>1. /\ product' = [p \in Product |-> NameSeen(p)]
      /\ watch' = [p \in Product |-> [e \in Email |-> WatchesSeen(p, e)]]
      /\ UNCHANGED <<file, export>>
  BY DEF ImportCommits
<1>2. \A u \in Url :
        /\ link'[u].of = IF Wrote.links[u] # NoProduct THEN Wrote.links[u] ELSE link[u].of
        /\ link'[u].readings = link[u].readings \cup {r \in Reading : <<u, r>> \in Wrote.points}
  BY DEF ImportCommits
<1>3. \A x \in Wrote.points : x[1] \in Url /\ x[2] \in Reading /\ x = <<x[1], x[2]>>
  BY DEF BTypeOK, Wrote
<1>4. \A x \in Wrote.points : x[2] \in link'[x[1]].readings
  BY <1>2, <1>3
<1> QED
  BY <1>1, <1>2, <1>4 DEF Tracked, LinkSeen

LEMMA CommitStores ==
  ASSUME BackupInv, ImportCommits, EntriesAreSeen
  PROVE  /\ Stored(file)'
         /\ \A p \in Entries(file) : \A u \in file.entry[p].urls :
              \/ Tracked(u)
              \/ \E q \in Entries(file) : /\ u \in file.entry[q].urls
                                          /\ product'[link'[u].of] = file.entry[q].name
<1> USE DEF BackupInv
<1>1. import.pc = "committing" /\ import.todo = {}
  BY DEF ImportCommits, EntriesAreSeen
<1>2. ASSUME NEW p \in Entries(file)
      PROVE  \E q \in Product : /\ product'[q] = file.entry[p].name
                                /\ \A e \in Email : file.entry[p].emails[e] > 0 => watch'[q][e] > 0
  BY <1>1, CommitsWhatIsSeen DEF EntriesAreSeen
<1>3. ASSUME NEW p \in Entries(file), NEW u \in file.entry[p].urls
      PROVE  /\ u \in Url
             /\ Tracked(u)'
             /\ \/ Tracked(u)
                \/ \E q \in Entries(file) : /\ u \in file.entry[q].urls
                                            /\ product'[link'[u].of] = file.entry[q].name
  <2>1. u \in Url
    BY DEF BTypeOK, Copies, Entries
  <2>2. LinkSeen(u)
    BY <1>1 DEF EntriesAreSeen
  <2>3. Tracked(u) \/ Wrote.links[u] # NoProduct
    BY <2>2 DEF LinkSeen
  <2>4. ASSUME Wrote.links[u] # NoProduct
        PROVE  \E q \in Entries(file) : /\ u \in file.entry[q].urls
                                        /\ product'[link'[u].of] = file.entry[q].name
    <3>1. Wrote.links[u] \in Product
      BY <2>1, <2>4 DEF BTypeOK, Wrote
    <3>2. product'[link'[u].of] = NameSeen(Wrote.links[u])
      BY <2>1, <2>4, <3>1, CommitsWhatIsSeen
    <3> QED
      BY <2>1, <2>4, <3>2 DEF EntriesAreSeen, OwnPages
  <2> QED
    BY <2>1, <2>2, <2>3, <2>4, CommitsWhatIsSeen
<1>4. ASSUME NEW x \in file.history, Tracked(x[1])' PROVE x[2] \in link'[x[1]].readings
  <2>1. x[1] \in Url
    BY DEF BTypeOK, Copies
  <2>2. LinkSeen(x[1])
    BY <1>4, <2>1, CommitsWhatIsSeen
  <2> QED
    BY <1>1, <2>1, <2>2, CommitsWhatIsSeen DEF EntriesAreSeen
<1>5. Entries(file)' = Entries(file) /\ file' = file
  BY CommitsWhatIsSeen DEF Entries
<1>6. Stored(file)'
  BY <1>2, <1>3, <1>4, <1>5 DEF Stored
<1> QED
  BY <1>3, <1>6

\* A commit of an import that wrote nothing changes nothing.
LEMMA NothingWrittenCommitsNothing ==
  ASSUME BTypeOK, ImportCommits, Wrote = NothingWritten, import.dropped = NoImport.dropped
  PROVE  UNCHANGED rows
<1>1. /\ product' = [p \in Product |-> NameSeen(p)]
      /\ watch' = [p \in Product |-> [e \in Email |-> WatchesSeen(p, e)]]
      /\ link' = [u \in Url |->
           [of |-> IF Wrote.links[u] # NoProduct THEN Wrote.links[u] ELSE link[u].of,
            readings |-> link[u].readings \cup {r \in Reading : <<u, r>> \in Wrote.points}]]
  BY DEF ImportCommits
<1>2. product' = product
  BY <1>1, NothingWrittenSeesTheRows DEF BTypeOK, TypeOK
<1>3. watch' = watch
  <2>1. ASSUME NEW p \in Product PROVE watch'[p] = watch[p]
    <3>1. \A e \in Email : WatchesSeen(p, e) = watch[p][e]
      BY NothingWrittenSeesTheRows
    <3>2. watch[p] \in [Email -> Nat] /\ watch'[p] = [e \in Email |-> WatchesSeen(p, e)]
      BY <1>1 DEF BTypeOK, TypeOK
    <3> QED
      BY <3>1, <3>2
  <2> QED
    BY <1>1, <2>1 DEF BTypeOK, TypeOK
<1>4. link' = link
  <2>1. ASSUME NEW u \in Url PROVE link'[u] = link[u]
    <3>1. link[u] \in [of : Product \cup {NoProduct}, readings : SUBSET Reading]
      BY DEF BTypeOK, TypeOK
    <3>2. link'[u] = [of |-> link[u].of, readings |-> link[u].readings]
      BY <1>1 DEF NothingWritten
    <3> QED
      BY <3>1, <3>2
  <2> QED
    BY <1>1, <2>1 DEF BTypeOK, TypeOK
<1> QED
  BY <1>2, <1>3, <1>4 DEF rows

LEMMA CommitsKeepBackups ==
  ASSUME BackupInv, BTypeOK', ImportCommits PROVE BackupInv'
<1>1. /\ file' = file /\ export' = export /\ import' = NoImport /\ import.pc # "idle"
      /\ touched' = {"export"} \cup (IF "import" \in touched THEN {"file"} ELSE {})
  BY DEF ImportCommits
<1>2. "file" \notin touched' => Stored(file)'
  BY <1>1, CommitStores DEF BackupInv
<1>3. export.pc = "idle"
  BY <1>1 DEF BackupInv
<1> QED
  BY <1>1, <1>2, <1>3 DEF BackupInv, NoImport

\* Other writers either leave the rows as they are or are remembered in touched.
LEMMA OthersKeepBackups ==
  ASSUME BackupInv, BTypeOK', Elsewhere \/ StartAfresh \/ UNCHANGED bvars PROVE BackupInv'
<1> USE DEF BackupInv
<1>1. CASE rows' = rows /\ touched' = touched /\ UNCHANGED <<file, export, import>>
  BY <1>1 DEF rows, DraftIsTrue, Stored, EntriesAreSeen, OwnPages, Entries, Tracked, NameSeen,
              LinkSeen, WatchesSeen, Wrote, NoImport, NothingWritten
<1>2. CASE touched' = {"export", "import", "file"} /\ UNCHANGED <<file, export, import>>
  BY <1>2 DEF NoImport
<1>3. CASE StartAfresh
  BY <1>3 DEF StartAfresh, NoImport
<1> QED
  BY <1>1, <1>2, <1>3 DEF Elsewhere, bvars, cvars

LEMMA BackupStep == ASSUME BackupInv, [BNext]_bvars PROVE BackupInv'
<1>1. BTypeOK'
  BY BackupsKeepTypes DEF BackupInv
<1> QED
  BY <1>1, ExportsStayTrue, ImportsAreSeen, CommitsKeepBackups, OthersKeepBackups DEF BNext

LEMMA BackupInvariant == BSpec => []BackupInv
<1>1. BInit => BackupInv
  <2>1. BInit => BTypeOK
    BY TypedAtFirst, EmptyCopies, NoImportIsOne DEF BInit, BTypeOK, Imports
  <2> QED
    BY <2>1 DEF BInit, BackupInv, NoImport
<1>2. BackupInv /\ [BNext]_bvars => BackupInv'
  BY BackupStep
<1> QED
  BY <1>1, <1>2, PTL DEF BSpec

\* An import nobody disturbs brings back every product, page, watched address
\* and reading of the file, torn or not, whatever was in the database.
THEOREM BackupsAreRestored == BSpec => NothingSavedIsLost
<1>1. ASSUME BackupInv, ImportCommits, "import" \notin touched
      PROVE  /\ \A p \in Entries(file) : \E q \in Product :
                  /\ product'[q] = file.entry[p].name
                  /\ \A e \in Email : file.entry[p].emails[e] > 0 => watch'[q][e] > 0
             /\ \A p \in Entries(file) : \A u \in file.entry[p].urls :
                  \/ Tracked(u)
                  \/ \E q \in Entries(file) : /\ u \in file.entry[q].urls
                                              /\ product'[link'[u].of] = file.entry[q].name
             /\ \A x \in file.history :
                  link'[x[1]].of # NoProduct => x[2] \in link'[x[1]].readings
  <2>1. import.pc = "committing" /\ file' = file
    BY <1>1 DEF ImportCommits
  <2>2. EntriesAreSeen
    BY <1>1, <2>1 DEF BackupInv
  <2>3. Stored(file)'
    BY <1>1, <2>2, CommitStores
  <2> QED
    BY <1>1, <2>1, <2>2, <2>3, CommitStores DEF Stored, Entries, Tracked
<1> QED
  BY <1>1, BackupInvariant, PTL DEF BSpec, NothingSavedIsLost

\* A merge of the file that was imported last, or just read from these rows,
\* leaves every row as it is.
THEOREM ImportsAreIdempotent == BSpec => ImportingAgainAddsNothing
<1>1. ASSUME BackupInv, ImportCommits, import.mode = "merge",
             touched \cap {"file", "import"} = {}
      PROVE  UNCHANGED rows
  <2>1. import.pc = "committing"
    BY <1>1 DEF ImportCommits
  <2>2. BTypeOK /\ Wrote = NothingWritten /\ import.dropped = NoImport.dropped
    BY <1>1, <2>1 DEF BackupInv
  <2> QED
    BY <1>1, <2>2, NothingWrittenCommitsNothing
<1> QED
  BY <1>1, BackupInvariant, PTL DEF BSpec, ImportingAgainAddsNothing
=============================================================================
