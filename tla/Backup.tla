-------------------------------- MODULE Backup --------------------------------
(***************************************************************************)
(* export_data and import_data of api/admin.py over the catalogue: a       *)
(* backup is read product by product while other requests write, and an    *)
(* import is one transaction that reads what is committed with what it has *)
(* written itself, and loses everything if its commit does.                *)
(*                                                                         *)
(* One operator: one export or import at a time.  Fields that are copied   *)
(* as they are (labels, amounts, schedules, prices) are left out, with the *)
(* rules that drop an invalid one; a file is one this code has written,    *)
(* with its history.                                                       *)
(***************************************************************************)
EXTENDS Catalogue

VARIABLES file,      \* the last complete backup
          export,    \* the one being read
          import,    \* the import under way, with the rows it has written
          touched    \* history: which of "export", "import" and "file" the rows
                     \* have moved away from since it began, or was last true

bvars == <<cvars, file, export, import, touched>>

NoEntry == [name |-> NoName, urls |-> {}, emails |-> [e \in Email |-> 0]]
Blank == [entry |-> [p \in Product |-> NoEntry], history |-> {}]
NothingWritten == [names |-> [p \in Product |-> NoName], links |-> [u \in Url |-> NoProduct],
                   watches |-> [p \in Product |-> [e \in Email |-> 0]], points |-> {}]
NoImport == [pc |-> "idle", mode |-> "merge", todo |-> {},
             dropped |-> [p \in Product |-> [e \in Email |-> 0]], wrote |-> NothingWritten]

Entries(f) == {p \in Product : f.entry[p].name # NoName}

-----------------------------------------------------------------------------
\* The products are listed first; each one's links and watches are read later.
ExportBegins ==
  /\ export.pc = "idle" /\ import.pc = "idle"
  /\ export' = [pc |-> "entries", todo |-> {p \in Product : Live(p)},
                draft |-> [Blank EXCEPT !.entry = [p \in Product |->
                             [NoEntry EXCEPT !.name = product[p]]]]]
  /\ touched' = touched \ {"export"}
  /\ UNCHANGED <<cvars, file, import>>

ExportEntry(p) ==
  /\ export.pc = "entries" /\ p \in export.todo
  /\ export' = [export EXCEPT !.todo = @ \ {p},
                  !.draft.entry[p] = [name |-> @.name, urls |-> {u \in Url : link[u].of = p},
                                      emails |-> watch[p]]]
  /\ UNCHANGED <<cvars, file, import, touched>>

ExportEntriesRead ==
  /\ export.pc = "entries" /\ export.todo = {}
  /\ export' = [export EXCEPT !.pc = "history", !.todo = Entries(export.draft)]
  /\ UNCHANGED <<cvars, file, import, touched>>

ExportHistory(p) ==
  /\ export.pc = "history" /\ p \in export.todo
  /\ export' = [export EXCEPT !.todo = @ \ {p},
                  !.draft.history = @ \cup {x \in Url \X Reading :
                                    link[x[1]].of = p /\ x[2] \in link[x[1]].readings}]
  /\ UNCHANGED <<cvars, file, import, touched>>

\* The answer is downloaded.
ExportEnds ==
  /\ export.pc = "history" /\ export.todo = {}
  /\ file' = export.draft
  /\ export' = [pc |-> "idle", todo |-> {}, draft |-> Blank]
  /\ touched' = (touched \ {"file"}) \cup (IF "export" \in touched THEN {"file"} ELSE {})
  /\ UNCHANGED <<cvars, import>>

-----------------------------------------------------------------------------
\* What the import's own queries see.
Wrote == import.wrote
NameSeen(p) == IF Wrote.names[p] # NoName THEN Wrote.names[p] ELSE product[p]
LinkSeen(u) == Tracked(u) \/ Wrote.links[u] # NoProduct
WatchesSeen(p, e) ==
  LET kept == watch[p][e] - import.dropped[p][e]
  IN  (IF kept > 0 THEN kept ELSE 0) + Wrote.watches[p][e]
Named(n) == {p \in Product : NameSeen(p) = n}

\* "replace" deletes the watches in the import's own transaction.
ImportBegins(mode) ==
  /\ import.pc = "idle" /\ export.pc = "idle" /\ Entries(file) # {}
  /\ import' = [NoImport EXCEPT !.pc = "merging", !.mode = mode, !.todo = Entries(file),
                  !.dropped = IF mode = "replace" THEN watch ELSE @]
  /\ touched' = touched \ {"import"}
  /\ UNCHANGED <<cvars, file, export>>

\* Two products of that name, or two watches of that address on the product:
\* scalar_one_or_none raises.
Ambiguous(p) ==
  LET same == Named(file.entry[p].name)
  IN  \/ Cardinality(same) > 1
      \/ \E q \in same, e \in Email : file.entry[p].emails[e] > 0 /\ WatchesSeen(q, e) > 1

\* Mutant of ImportEntry: the watches are not looked up.
ImportEntryAnew(p, q) ==
  LET entry == file.entry[p]
      same == Named(entry.name)
  IN  /\ import.pc = "merging" /\ p \in import.todo
      /\ ~Ambiguous(p)
      /\ IF same # {} THEN q \in same ELSE NameSeen(q) = NoName /\ Fresh(q)
      /\ import' = [import EXCEPT !.todo = @ \ {p},
           !.wrote.names[q] = IF same = {} THEN entry.name ELSE @,
           !.wrote.links = [u \in Url |-> IF u \in entry.urls /\ ~LinkSeen(u) THEN q
                                          ELSE Wrote.links[u]],
           !.wrote.watches[q] = [e \in Email |->
               @[e] + (IF entry.emails[e] > 0 THEN 1 ELSE 0)]]
      /\ UNCHANGED <<cvars, file, export, touched>>

\* One product of the file: the row of its name or a new one, the pages nobody
\* tracks, the addresses that have no watch yet.
ImportEntry(p, q) ==
  LET entry == file.entry[p]
      same == Named(entry.name)
  IN  /\ import.pc = "merging" /\ p \in import.todo
      /\ ~Ambiguous(p)
      /\ IF same # {} THEN q \in same ELSE NameSeen(q) = NoName /\ Fresh(q)
      /\ import' = [import EXCEPT !.todo = @ \ {p},
           !.wrote.names[q] = IF same = {} THEN entry.name ELSE @,
           !.wrote.links = [u \in Url |-> IF u \in entry.urls /\ ~LinkSeen(u) THEN q
                                          ELSE Wrote.links[u]],
           !.wrote.watches[q] = [e \in Email |->
               @[e] + (IF entry.emails[e] > 0 /\ WatchesSeen(q, e) = 0 THEN 1 ELSE 0)]]
      /\ UNCHANGED <<cvars, file, export, touched>>

\* Mutant of ImportHistory: links of this import have no id to key on yet.
ImportHistoryUnflushed ==
  /\ import.pc = "merging" /\ import.todo = {}
  /\ import' = [import EXCEPT !.pc = "committing",
                  !.wrote.points = {x \in file.history :
                                   Tracked(x[1]) /\ x[2] \notin link[x[1]].readings}]
  /\ UNCHANGED <<cvars, file, export, touched>>

\* The readings of pages that have a link, and are not there already.
ImportHistory ==
  /\ import.pc = "merging" /\ import.todo = {}
  /\ import' = [import EXCEPT !.pc = "committing",
                  !.wrote.points = {x \in file.history :
                                   LinkSeen(x[1]) /\ x[2] \notin link[x[1]].readings}]
  /\ UNCHANGED <<cvars, file, export, touched>>

\* A row it wrote refers to one that is gone, or its page has been taken.
Conflict ==
  \/ \E u \in Url : /\ Wrote.links[u] # NoProduct
                    /\ Tracked(u) \/ NameSeen(Wrote.links[u]) = NoName
  \/ \E p \in Product, e \in Email : Wrote.watches[p][e] > 0 /\ NameSeen(p) = NoName
  \/ \E u \in Url, r \in Reading : <<u, r>> \in Wrote.points /\ ~LinkSeen(u)

ImportCommits ==
  /\ import.pc = "committing" /\ ~Conflict
  /\ product' = [p \in Product |-> NameSeen(p)]
  /\ link' = [u \in Url |->
       [of |-> IF Wrote.links[u] # NoProduct THEN Wrote.links[u] ELSE link[u].of,
        readings |-> link[u].readings \cup {r \in Reading : <<u, r>> \in Wrote.points}]]
  /\ watch' = [p \in Product |-> [e \in Email |-> WatchesSeen(p, e)]]
  /\ unlinked' = unlinked \ {Wrote.links[u] : u \in Url}
  /\ import' = NoImport
  /\ touched' = {"export"} \cup (IF "import" \in touched THEN {"file"} ELSE {})
  /\ UNCHANGED <<quickAdd, edits, mishaps, file, export>>

\* An exception, of the queries or of the commit: everything is rolled back.
ImportFails ==
  /\ \/ import.pc = "merging" /\ \E p \in import.todo : Ambiguous(p)
     \/ import.pc = "committing" /\ Conflict
  /\ import' = NoImport
  /\ UNCHANGED <<cvars, file, export, touched>>

ImportDies ==
  /\ import.pc # "idle"
  /\ import' = NoImport
  /\ UNCHANGED <<cvars, file, export, touched>>

-----------------------------------------------------------------------------
\* The other requests; the id of a new row is none that an import has drawn or
\* an export has listed.
Elsewhere ==
  /\ EditStep \/ QuickAddStep
  /\ \A p \in Product :
       Wrote.names[p] # NoName \/ export.draft.entry[p].name # NoName =>
         (product'[p] # NoName => Live(p))
  /\ touched' = IF rows' = rows THEN touched ELSE {"export", "import", "file"}
  /\ UNCHANGED <<file, export, import>>

\* The database is lost, and the service set up anew.
StartAfresh ==
  /\ export.pc = "idle" /\ import.pc = "idle"
  /\ \A h \in Handler : At(h, "idle")
  /\ product' = [p \in Product |-> NoName]
  /\ link' = [u \in Url |-> NoLink]
  /\ watch' = [p \in Product |-> [e \in Email |-> 0]]
  /\ unlinked' = {}
  /\ touched' = touched \cup {"file"}
  /\ UNCHANGED <<quickAdd, edits, mishaps, file, export, import>>

BInit ==
  /\ Init
  /\ file = Blank
  /\ export = [pc |-> "idle", todo |-> {}, draft |-> Blank]
  /\ import = NoImport
  /\ touched = {"export", "import", "file"}

ExportStep ==
  \/ ExportBegins \/ ExportEntriesRead \/ ExportEnds
  \/ \E p \in Product : ExportEntry(p) \/ ExportHistory(p)
ImportStep ==
  \/ \E mode \in {"merge", "replace"} : ImportBegins(mode)
  \/ \E p, q \in Product : ImportEntry(p, q)
  \/ ImportHistory \/ ImportCommits \/ ImportFails \/ ImportDies

BNext == Elsewhere \/ ExportStep \/ ImportStep \/ StartAfresh

BSpec == BInit /\ [][BNext]_bvars

-----------------------------------------------------------------------------
Copies == [entry : [Product -> [name : Name \cup {NoName}, urls : SUBSET Url,
                                emails : [Email -> Nat]]],
           history : SUBSET (Url \X Reading)]
BTypeOK ==
  /\ TypeOK
  /\ file \in Copies
  /\ export \in [pc : {"idle", "entries", "history"}, todo : SUBSET Product, draft : Copies]
  /\ import \in [pc : {"idle", "merging", "committing"}, mode : {"merge", "replace"},
                 todo : SUBSET Product, dropped : [Product -> [Email -> Nat]],
                 wrote : [names : [Product -> Name \cup {NoName}],
                          links : [Url -> Product \cup {NoProduct}],
                          watches : [Product -> [Email -> Nat]],
                          points : SUBSET (Url \X Reading)]]
  /\ touched \subseteq {"export", "import", "file"}

\* A backup, torn by concurrent edits or not, is complete for what it says: an
\* import nobody disturbs brings back every product, page, watched address and
\* reading of the file.  A page the file lists, but that another product has
\* by now, stays with that one.
NothingSavedIsLost ==
  [][ImportCommits /\ "import" \notin touched =>
       /\ \A p \in Entries(file) : \E q \in Product :
            /\ product'[q] = file.entry[p].name
            /\ \A e \in Email : file.entry[p].emails[e] > 0 => watch'[q][e] > 0
       /\ \A p \in Entries(file) : \A u \in file.entry[p].urls :
            \/ Tracked(u)
            \/ \E q \in Entries(file) : /\ u \in file.entry[q].urls
                                        /\ product'[link'[u].of] = file.entry[q].name
       /\ \A x \in file.history :
            link'[x[1]].of # NoProduct => x[2] \in link'[x[1]].readings]_bvars

\* Importing the same file again, or a file onto what it was just read from,
\* adds nothing and takes nothing away.
ImportingAgainAddsNothing ==
  [][ImportCommits /\ import.mode = "merge" /\ touched \cap {"file", "import"} = {} =>
       UNCHANGED rows]_bvars
=============================================================================
