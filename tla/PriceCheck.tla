----------------------------- MODULE PriceCheck -----------------------------
(***************************************************************************)
(* What one price check of a link goes through between the breaker and the *)
(* commit: perform_price_check of domain/service.py, from the first        *)
(* request for the page (infra/fetcher.py), down the extraction ladder     *)
(* (domain/parser.py) and the look into the butik's leaflet                *)
(* (infra/ica_leaflet.py), to the row that says how it ended               *)
(* (infra/check_log.py), which domain/link_health.py judges the link by.   *)
(*                                                                         *)
(* Checks of the scheduler and of operators run side by side; an action is *)
(* the code between two awaits.  The leaflet cache and its lock are the    *)
(* process's.  What a price then does is in LinkRow, Alerts and Deals.     *)
(***************************************************************************)
EXTENDS Integers, Sequences, FiniteSets

CONSTANTS Check,         \* checks at a time
          Link,
          Api,           \* links of stores with an API of their own
          PageState,     \* links of stores whose pages carry structured state
          Leafleted,     \* of those, the links of the butik whose leaflet is known
          Nobody,        \* no check
          MaxTries,      \* one more than _RETRY_DELAYS_SECONDS
          BrokenAfter,   \* BROKEN_AFTER_ATTEMPTS
          LastDay,       \* bound on time
          MaxChecks      \* bound on checks

Day == 1..LastDay

ASSUME PriceCheckAssumption ==
  /\ Link # {} /\ Api \subseteq Link /\ PageState \subseteq Link /\ Leafleted \subseteq PageState
  /\ Api \cap PageState = {}
  /\ Nobody \notin Check
  /\ {MaxTries, BrokenAfter, LastDay} \subseteq Nat \ {0} /\ MaxChecks \in Nat

VARIABLES pc,          \* where a check waits
          job,         \* what it knows
          attempts,    \* check_attempts of a link, newest first
          cache,       \* the leaflet as last read
          lock,        \* who is reading it
          walled,      \* the leaflet's host is cooling down
          today,       \* the local date
          advertised,  \* external: the offers a leaflet carries on a day
          begun,       \* how many checks have begun
          refused,     \* history: checks of a link without a price since its last
                       \* price, that no wall kept from an answer
          okLost,      \* history: the row of its last price was lost
          read         \* history: leaflets read, by the day they were asked for

leafletVars == <<cache, lock, walled, read>>
logVars == <<attempts, refused, okLost>>
dayVars == <<today, advertised>>
checkVars == <<pc, job, leafletVars, logVars, dayVars, begun>>

Outcome == {"ok", "blocked", "fetch_failed", "no_price", "error"}
Tier == {"none", "api", "page", "jsonld"}
Job == [link : Link, tries : 0..MaxTries, outcome : Outcome \cup {"none"}, tier : Tier,
        wall : BOOLEAN, gone : BOOLEAN,              \* what the store has said
        flag : {"unknown", "in", "out"},
        since : Day]                                 \* it began, or asked for a leaflet
Unread == [kind |-> "empty", day |-> 1, offers |-> {}]

\* Its fields are set when a check begins.
NoJob == [link |-> CHOOSE l \in Link : TRUE, tries |-> 0, outcome |-> "none", tier |-> "none",
          wall |-> FALSE, gone |-> FALSE, flag |-> "unknown", since |-> 1]

CheckInit ==
  /\ pc = [c \in Check |-> "idle"] /\ job = [c \in Check |-> NoJob]
  /\ attempts = [l \in Link |-> <<>>]
  /\ cache = Unread /\ lock = Nobody /\ walled = FALSE
  /\ today = 1
  /\ advertised \in [Day -> SUBSET Leafleted]
  /\ begun = 0
  /\ refused = [l \in Link |-> 0]
  /\ okLost = [l \in Link |-> FALSE]
  /\ read = [d \in Day |-> 0]

LinkOf(c) == job[c].link
Goto(c, p) == pc' = [pc EXCEPT ![c] = p]

\* The check is over but for its row.
Ends(c, outcome) ==
  /\ Goto(c, "log")
  /\ job' = [job EXCEPT ![c].outcome = outcome]

\* No step down the ladder touches anything but its own check.
Alone == UNCHANGED <<leafletVars, logVars, dayVars, begun>>

-----------------------------------------------------------------------------
(* The page: WebFetcher.fetch. *)

Begin(c, l) ==
  /\ pc[c] = "idle" /\ begun < MaxChecks
  /\ begun' = begun + 1
  /\ Goto(c, "page")
  /\ job' = [job EXCEPT ![c] = [NoJob EXCEPT !.link = l, !.since = today]]
  /\ UNCHANGED <<leafletVars, logVars, dayVars>>

\* A status the bot walls answer with: no second try.
PageWalled(c) ==
  /\ pc[c] = "page"
  /\ Goto(c, "log")
  /\ job' = [job EXCEPT ![c].outcome = "blocked", ![c].wall = TRUE]
  /\ Alone

\* Another client error, or a page without any text.
PageRefused(c) == pc[c] = "page" /\ Ends(c, "fetch_failed") /\ Alone

\* Mutant of PageFails: a row per request.
PageFailsLogged(c) ==
  /\ pc[c] = "page"
  /\ IF job[c].tries + 1 < MaxTries
     THEN job' = [job EXCEPT ![c].tries = @ + 1] /\ UNCHANGED pc
     ELSE Ends(c, "fetch_failed")
  /\ attempts' = [attempts EXCEPT ![LinkOf(c)] = <<"fetch_failed">> \o @]
  /\ UNCHANGED <<leafletVars, refused, okLost, dayVars, begun>>

\* A server error, an empty body, no answer: again, a few times.
PageFails(c) ==
  /\ pc[c] = "page"
  /\ IF job[c].tries + 1 < MaxTries
     THEN job' = [job EXCEPT ![c].tries = @ + 1] /\ UNCHANGED pc
     ELSE Ends(c, "fetch_failed")
  /\ Alone

PageServed(c) ==
  /\ pc[c] = "page"
  /\ Goto(c, IF LinkOf(c) \in Api THEN "api" ELSE "ladder")
  /\ UNCHANGED job
  /\ Alone

-----------------------------------------------------------------------------
(* The ladder: PriceParser.extract_price. *)

Finds(c, tier, next) ==
  /\ Goto(c, next)
  /\ job' = [job EXCEPT ![c].outcome = "ok", ![c].tier = tier]

IsGone(c) ==
  /\ Goto(c, "log")
  /\ job' = [job EXCEPT ![c].outcome = "no_price", ![c].gone = TRUE]

\* Mutant of ApiWalled: a wall is one more exception, and the page is tried.
ApiWalledGoesOn(c) ==
  /\ pc[c] = "api"
  /\ Goto(c, "ladder")
  /\ job' = [job EXCEPT ![c].wall = TRUE]
  /\ Alone

\* The wall stands before the API, behind a page that was served all the same.
ApiWalled(c) ==
  /\ pc[c] = "api"
  /\ Goto(c, "log")
  /\ job' = [job EXCEPT ![c].outcome = "blocked", ![c].wall = TRUE]
  /\ Alone

ApiGone(c) == pc[c] = "api" /\ IsGone(c) /\ Alone
ApiAnswers(c) == pc[c] = "api" /\ Finds(c, "api", "log") /\ Alone

\* No code, no answer or an exception: on to the page.  An answer without a price
\* is returned and ends the check as no_price; it does so here by NothingReads.
ApiMisses(c) == pc[c] = "api" /\ Goto(c, "ladder") /\ UNCHANGED job /\ Alone

StateGone(c) ==
  /\ pc[c] = "ladder" /\ LinkOf(c) \in PageState
  /\ IsGone(c)
  /\ Alone

\* An offer of the butik that has a leaflet is looked up in it.
StateAnswers(c, offer) ==
  /\ pc[c] = "ladder" /\ LinkOf(c) \in PageState
  /\ Finds(c, "page", IF offer /\ LinkOf(c) \in Leafleted THEN "leaflet" ELSE "log")
  /\ Alone

JsonLdAnswers(c) == pc[c] = "ladder" /\ Finds(c, "jsonld", "log") /\ Alone
NothingReads(c) == pc[c] = "ladder" /\ Ends(c, "no_price") /\ Alone

\* What no tier catches, or what a price runs into on its way to a point.
Escapes(c) == pc[c] = "ladder" /\ Ends(c, "error") /\ Alone

-----------------------------------------------------------------------------
(* The leaflet: IcaLeafletCache.offers_for and annotate_extraction. *)

\* Mutant of Fresh: a leaflet is good for a day and a night.
FreshForADay ==
  \/ cache.kind = "read" /\ today <= cache.day + 1
  \/ cache.kind = "failed"

\* A leaflet is good for the local day it was asked for, a failure for a while.
Fresh == cache.kind = "failed" \/ (cache.kind = "read" /\ cache.day = today)

\* An unread leaflet says nothing of an offer.
Noted(c, leaflet) ==
  /\ cache' = leaflet
  /\ Goto(c, "log")
  /\ job' = [job EXCEPT ![c].flag =
               IF leaflet.kind # "read" THEN "unknown"
               ELSE IF LinkOf(c) \in leaflet.offers THEN "in" ELSE "out"]
  /\ UNCHANGED <<logVars, dayVars, begun>>

Failed == [Unread EXCEPT !.kind = "failed"]

\* From the cache, or, while the host cools down, from nowhere.
LeafletKnown(c) ==
  /\ pc[c] = "leaflet" /\ lock = Nobody
  /\ Fresh \/ walled
  /\ Noted(c, IF Fresh THEN cache ELSE Failed)
  /\ UNCHANGED <<lock, walled, read>>

\* Mutant of LeafletAsked: whoever finds the cache stale asks.
LeafletAskedByAnyone(c) ==
  /\ pc[c] = "leaflet"
  /\ ~Fresh /\ ~walled
  /\ Goto(c, "reading")
  /\ job' = [job EXCEPT ![c].since = today]
  /\ UNCHANGED <<leafletVars, logVars, dayVars, begun>>

\* The lock is held from the look at the cache until the answer is in it.
LeafletAsked(c) ==
  /\ pc[c] = "leaflet" /\ lock = Nobody
  /\ ~Fresh /\ ~walled
  /\ lock' = c
  /\ Goto(c, "reading")
  /\ job' = [job EXCEPT ![c].since = today]
  /\ UNCHANGED <<cache, walled, read, logVars, dayVars, begun>>

LeafletRead(c) ==
  /\ pc[c] = "reading"
  /\ lock' = Nobody
  /\ read' = [read EXCEPT ![job[c].since] = @ + 1]
  /\ Noted(c, [kind |-> "read", day |-> job[c].since, offers |-> advertised[today]])
  /\ UNCHANGED walled

\* A wall, no answer, or a page without readable offers.
LeafletFails(c) ==
  /\ pc[c] = "reading"
  /\ lock' = Nobody
  /\ walled' \in {walled, TRUE}
  /\ Noted(c, Failed)
  /\ UNCHANGED read

-----------------------------------------------------------------------------
(* The row: CheckAttemptLog.record, and link_health. *)

\* The row goes in by a transaction of its own, or is lost without a word.
Log(c) ==
  LET l == LinkOf(c)
      outcome == job[c].outcome
  IN  /\ pc[c] = "log"
      /\ Goto(c, "idle")
      /\ refused' = [refused EXCEPT ![l] = IF job[c].wall THEN @
                                           ELSE IF outcome = "ok" THEN 0 ELSE @ + 1]
      /\ \/ /\ attempts' = [attempts EXCEPT ![l] = <<outcome>> \o @]
            /\ okLost' = [okLost EXCEPT ![l] = @ /\ outcome # "ok"]
         \/ /\ okLost' = [okLost EXCEPT ![l] = @ \/ outcome = "ok"]
            /\ UNCHANGED attempts
      /\ job' = [job EXCEPT ![c] = NoJob]
      /\ UNCHANGED <<leafletVars, dayVars, begun>>

\* A request is cancelled: no row, and the lock is free again.
Cancelled(c) ==
  /\ pc[c] # "idle"
  /\ Goto(c, "idle")
  /\ job' = [job EXCEPT ![c] = NoJob]
  /\ lock' = IF lock = c THEN Nobody ELSE lock
  /\ UNCHANGED <<cache, walled, read, logVars, dayVars, begun>>

Counts(outcome) == outcome # "blocked"

\* Mutant of Broken: walls count.
BrokenByWalls(l) ==
  /\ Len(attempts[l]) >= BrokenAfter
  /\ \A i \in 1..BrokenAfter : attempts[l][i] # "ok"

\* The newest attempts that no wall cut off: the rows by their row_number().
Recent(l) ==
  LET answered == {i \in 1..Len(attempts[l]) : Counts(attempts[l][i])}
  IN  {i \in answered : Cardinality({j \in answered : j <= i}) <= BrokenAfter}

\* broken_links: there are enough of them, and all have failed.
Broken(l) ==
  /\ Cardinality(Recent(l)) >= BrokenAfter
  /\ \A i \in Recent(l) : attempts[l][i] # "ok"

-----------------------------------------------------------------------------
(* Time. *)

Midnight ==
  /\ today < LastDay
  /\ today' = today + 1
  /\ UNCHANGED <<pc, job, leafletVars, logVars, advertised, begun>>

FailureForgotten ==
  /\ cache.kind = "failed"
  /\ cache' = Unread
  /\ UNCHANGED <<pc, job, lock, walled, read, logVars, dayVars, begun>>

LeafletCoolsDown ==
  /\ walled
  /\ walled' = FALSE
  /\ UNCHANGED <<pc, job, cache, lock, read, logVars, dayVars, begun>>

CheckStep(c) ==
  \/ \E l \in Link : Begin(c, l)
  \/ PageWalled(c) \/ PageRefused(c) \/ PageFails(c) \/ PageServed(c)
  \/ ApiWalled(c) \/ ApiGone(c) \/ ApiAnswers(c) \/ ApiMisses(c)
  \/ StateGone(c) \/ (\E offer \in BOOLEAN : StateAnswers(c, offer))
  \/ JsonLdAnswers(c) \/ NothingReads(c) \/ Escapes(c)
  \/ LeafletKnown(c) \/ LeafletAsked(c) \/ LeafletRead(c) \/ LeafletFails(c)
  \/ Log(c) \/ Cancelled(c)

CheckNext == (\E c \in Check : CheckStep(c)) \/ Midnight \/ FailureForgotten \/ LeafletCoolsDown

CheckSpec == CheckInit /\ [][CheckNext]_checkVars

-----------------------------------------------------------------------------
CheckTypeOK ==
  /\ pc \in [Check -> {"idle", "page", "api", "ladder", "leaflet", "reading", "log"}]
  /\ job \in [Check -> Job]
  /\ attempts \in [Link -> Seq(Outcome)]
  /\ cache \in [kind : {"empty", "read", "failed"}, day : Day, offers : SUBSET Leafleted]
  /\ lock \in Check \cup {Nobody}
  /\ walled \in BOOLEAN
  /\ today \in Day /\ advertised \in [Day -> SUBSET Leafleted]
  /\ begun \in 0..MaxChecks
  /\ refused \in [Link -> Nat] /\ okLost \in [Link -> BOOLEAN]
  /\ read \in [Day -> Nat]

\* What the store itself has said ends the check, whichever of its tiers said
\* it: a wall is reported as a wall, never as a page without a price, or the
\* breaker would forgive the store its strikes; a product that is gone has no
\* price, whatever a lower tier still reads on the page.  A wall at the leaflet's
\* host is not the store's word: it only leaves the offer unannotated.
LastWordStands ==
  \A c \in Check : pc[c] = "log" =>
    /\ job[c].wall <=> job[c].outcome = "blocked"
    /\ job[c].gone => job[c].outcome = "no_price"

\* A link is called broken only when as many checks of its own came to nothing
\* since the last price, walls on any of its requests not counted; unless the
\* log lost the row of that price.
BrokenMeansRefused ==
  \A l \in Link : Broken(l) => refused[l] >= BrokenAfter \/ okLost[l]

\* What a point says of the leaflet is what the leaflet said on a day between
\* the beginning of the check, or the moment it asked for the leaflet itself,
\* and its end, whoever has read it.
LeafletVerdictIsTodays ==
  \A c \in Check : pc[c] = "log" /\ job[c].flag # "unknown" =>
    \E d \in job[c].since..today :
      (job[c].flag = "in") <=> (LinkOf(c) \in advertised[d])

\* However many checks find the cache stale at once, a day's leaflet is read
\* once.
OneLeafletADay == \A d \in Day : read[d] <= 1

\* The check as OneCheck has it.
Busy(c) == pc[c] # "idle"
On == [c \in Check |-> IF Busy(c) THEN {LinkOf(c)} ELSE {}]
Word == [c \in Check |-> IF Busy(c) /\ job[c].wall THEN "wall"
                         ELSE IF Busy(c) /\ job[c].gone THEN "gone" ELSE "none"]

Promise == INSTANCE OneCheck WITH on <- On, word <- Word, log <- attempts

\* However many requests, retries, tiers and leaflets it takes, a check that
\* others run beside is one thing: it ends once, as the store's last word has
\* it, with at most one row, in the log of its own link.
ChecksAreWhole == Promise!Spec
=============================================================================
