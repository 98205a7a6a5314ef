-------------------------- MODULE PriceCheckProofs --------------------------
(***************************************************************************)
(* What TLAPS proves of a price check, for any number of checks at a time, *)
(* any links and stores, any number of tries and any length of time; and,  *)
(* at the end, of the breaker every check answers to, for any stores and   *)
(* every ladder of cooldowns that climbs to its ceiling.                   *)
(***************************************************************************)
EXTENDS PriceCheck, StoreBlockHistory, FiniteSetTheorems, TLAPS

-----------------------------------------------------------------------------
(* Types, and what a check knows at each of its awaits. *)

Place == {"idle", "page", "api", "ladder", "leaflet", "reading", "log"}
UnderWay == {"page", "api", "ladder"}

\* Up to its end a check has heard no last word; past the ladder it has a price.
SaidAt(p, j) ==
  /\ p \in {"page", "api", "ladder", "leaflet", "reading"} => j.wall = FALSE /\ j.gone = FALSE
  /\ p \in {"leaflet", "reading"} => j.outcome = "ok"
  /\ p = "log" =>
       /\ j.outcome \in Outcome
       /\ j.wall = TRUE <=> j.outcome = "blocked"
       /\ j.gone = TRUE => j.outcome = "no_price"

SaidInv == CheckTypeOK /\ \A c \in Check : SaidAt(pc[c], job[c])

\* A check's job beside the leaflet: it began before now, it has noted nothing
\* before its end, the leaflet it reads has not been read since it asked, and
\* what it notes was so on one of its days.
NotedAt(p, j) ==
  /\ p # "idle" => j.since <= today
  /\ p \notin {"idle", "log"} => j.flag = "unknown"
  /\ p = "reading" => \A d \in Day : j.since <= d => read[d] = 0
  /\ p = "log" /\ j.flag # "unknown" =>
       \E d \in j.since..today : (j.flag = "in") <=> (j.link \in advertised[d])

\* One check reads at a time.
LockInv == \A c \in Check : pc[c] = "reading" <=> lock = c

\* A leaflet that has been read today is in the cache, and what is there is what
\* the leaflet said on a day since it was asked for.
CacheInv ==
  /\ \A d \in Day : read[d] <= 1 /\ (today < d => read[d] = 0)
  /\ read[today] # 0 => cache.kind = "read" /\ cache.day = today
  /\ cache.kind = "read" =>
       \E d \in cache.day..today : cache.offers = advertised[d]

LeafletInv == LockInv /\ CacheInv /\ \A c \in Check : NotedAt(pc[c], job[c])

Inv == SaidInv /\ LeafletInv

\* What a step of a check that has not come to the leaflet leaves alone of its job.
Keeps(k, j) == k.since = j.since /\ k.flag = j.flag /\ k.link = j.link

\* What is known of a check before it begins is of the right type.
LEMMA NoJobType == NoJob \in Job
<1>1. (CHOOSE l \in Link : TRUE) \in Link
  BY PriceCheckAssumption
<1> QED
  BY <1>1, PriceCheckAssumption DEF NoJob, Job, Outcome, Tier, Day

\* A step that moves one check on and touches nothing but its job.
LEMMA OwnStep ==
  ASSUME SaidInv, NEW c \in Check, NEW p \in Place, NEW j \in Job,
         pc' = [pc EXCEPT ![c] = p], job' = [job EXCEPT ![c] = j],
         SaidAt(p, j)
  PROVE  /\ pc' \in [Check -> Place] /\ job' \in [Check -> Job]
         /\ \A d \in Check : SaidAt(pc'[d], job'[d])
<1>1. pc \in [Check -> Place] /\ job \in [Check -> Job]
  BY DEF SaidInv, CheckTypeOK, Place
<1>2. ASSUME NEW d \in Check PROVE SaidAt(pc'[d], job'[d])
  <2>1. CASE d = c
    BY <1>1, <2>1
  <2>2. CASE d # c
    BY <1>1, <2>2 DEF SaidInv
  <2> QED
    BY <2>1, <2>2
<1> QED
  BY <1>1, <1>2

\* The same, when nothing else moves.
LEMMA AloneStep ==
  ASSUME Inv, Alone, NEW c \in Check, pc[c] \in UnderWay,
         NEW p \in UnderWay \cup {"leaflet", "log"}, NEW j \in Job,
         pc' = [pc EXCEPT ![c] = p], job' = [job EXCEPT ![c] = j],
         SaidAt(p, j), Keeps(j, job[c])
  PROVE  Inv'
<1>0. p \in Place /\ pc \in [Check -> Place] /\ job \in [Check -> Job]
  BY DEF UnderWay, Place, Inv, SaidInv, CheckTypeOK
<1>1. /\ pc' \in [Check -> Place] /\ job' \in [Check -> Job]
      /\ \A d \in Check : SaidAt(pc'[d], job'[d])
  BY <1>0, OwnStep DEF Inv
<1>2. SaidInv'
  BY <1>1 DEF Inv, SaidInv, CheckTypeOK, Alone, leafletVars, logVars, dayVars, Place
<1>3. LockInv'
  BY <1>0 DEF Inv, LeafletInv, LockInv, Alone, leafletVars, UnderWay
<1>4. CacheInv'
  BY DEF Inv, LeafletInv, CacheInv, Alone, leafletVars, dayVars
<1>5. ASSUME NEW d \in Check PROVE NotedAt(pc[d], job[d])'
  <2>1. UNCHANGED <<today, read, advertised>> /\ NotedAt(pc[d], job[d])
    BY DEF Inv, LeafletInv, Alone, leafletVars, dayVars
  <2>2. CASE d = c
    <3>1. pc'[c] = p /\ job'[c] = j
      BY <1>0
    <3>2. j.flag = "unknown" /\ j.since <= today
      BY <2>1, <2>2 DEF NotedAt, UnderWay, Keeps
    <3> QED
      BY <2>1, <2>2, <3>1, <3>2 DEF NotedAt, UnderWay
  <2>3. CASE d # c
    <3>1. pc'[d] = pc[d] /\ job'[d] = job[d]
      BY <1>0, <2>3
    <3> QED
      BY <2>1, <3>1 DEF NotedAt
  <2> QED
    BY <2>2, <2>3
<1> QED
  BY <1>2, <1>3, <1>4, <1>5 DEF Inv, LeafletInv

\* What the steps do to a job.
LEMMA JobOutcome ==
  ASSUME NEW j \in Job, NEW o \in Outcome
  PROVE  LET k == [j EXCEPT !.outcome = o]
         IN  k \in Job /\ k.outcome = o /\ k.wall = j.wall /\ k.gone = j.gone /\ Keeps(k, j)
  BY DEF Job, Keeps
\* A wall has answered.
LEMMA JobWalled ==
  ASSUME NEW j \in Job
  PROVE  LET k == [j EXCEPT !.outcome = "blocked", !.wall = TRUE]
         IN  k \in Job /\ k.outcome = "blocked" /\ k.wall = TRUE /\ k.gone = j.gone /\ Keeps(k, j)
  BY DEF Job, Outcome, Keeps
\* The product is gone.
LEMMA JobGone ==
  ASSUME NEW j \in Job
  PROVE  LET k == [j EXCEPT !.outcome = "no_price", !.gone = TRUE]
         IN  k \in Job /\ k.outcome = "no_price" /\ k.wall = j.wall /\ k.gone = TRUE /\ Keeps(k, j)
  BY DEF Job, Outcome, Keeps
\* A tier has read a price.
LEMMA JobFound ==
  ASSUME NEW j \in Job, NEW t \in Tier
  PROVE  LET k == [j EXCEPT !.outcome = "ok", !.tier = t]
         IN  k \in Job /\ k.outcome = "ok" /\ k.wall = j.wall /\ k.gone = j.gone /\ Keeps(k, j)
  BY DEF Job, Outcome, Keeps
\* One more try.
LEMMA JobTried ==
  ASSUME NEW j \in Job, j.tries + 1 < MaxTries
  PROVE  LET k == [j EXCEPT !.tries = @ + 1]
         IN  k \in Job /\ k.outcome = j.outcome /\ k.wall = j.wall /\ k.gone = j.gone /\ Keeps(k, j)
  BY PriceCheckAssumption DEF Job, Keeps

\* The shapes of the steps down the ladder.
\* On to the next tier.
LEMMA MovesOn ==
  ASSUME Inv, Alone, NEW c \in Check, pc[c] \in UnderWay, NEW p \in UnderWay,
         Goto(c, p), UNCHANGED job
  PROVE  Inv'
<1>1. job[c] \in Job /\ job' = [job EXCEPT ![c] = job[c]] /\ Keeps(job[c], job[c])
  BY DEF Inv, SaidInv, CheckTypeOK, Keeps
<1>2. SaidAt(p, job[c])
  BY DEF Inv, SaidInv, SaidAt, UnderWay
<1>3. pc' = [pc EXCEPT ![c] = p]
  BY DEF Goto, UnderWay, Place
<1> QED
  BY <1>1, <1>2, <1>3, AloneStep

\* The check ends without a price.
LEMMA EndsWithout ==
  ASSUME Inv, Alone, NEW c \in Check, pc[c] \in UnderWay,
         NEW o \in {"fetch_failed", "no_price", "error"}, Ends(c, o)
  PROVE  Inv'
<1> DEFINE j == [job[c] EXCEPT !.outcome = o]
<1>1. job[c] \in Job /\ job \in [Check -> Job]
  BY DEF Inv, SaidInv, CheckTypeOK
<1>2. j \in Job /\ j.outcome = o /\ j.wall = job[c].wall /\ j.gone = job[c].gone /\ Keeps(j, job[c])
  <2>1. o \in Outcome
    BY DEF Outcome
  <2> QED
    BY <1>1, <2>1, JobOutcome
<1>3. job' = [job EXCEPT ![c] = j] /\ pc' = [pc EXCEPT ![c] = "log"]
  BY <1>1 DEF Ends, Goto
<1>4. SaidAt("log", j)
  BY <1>2 DEF Inv, SaidInv, SaidAt, UnderWay, Outcome
<1> HIDE DEF j
<1> QED
  BY <1>2, <1>3, <1>4, AloneStep DEF UnderWay

\* The check ends at a wall.
LEMMA EndsAtAWall ==
  ASSUME Inv, Alone, NEW c \in Check, pc[c] \in UnderWay, Goto(c, "log"),
         job' = [job EXCEPT ![c].outcome = "blocked", ![c].wall = TRUE]
  PROVE  Inv'
<1> DEFINE j == [job[c] EXCEPT !.outcome = "blocked", !.wall = TRUE]
<1>1. job[c] \in Job /\ job \in [Check -> Job]
  BY DEF Inv, SaidInv, CheckTypeOK
<1>2. j \in Job /\ j.outcome = "blocked" /\ j.wall = TRUE /\ j.gone = job[c].gone /\ Keeps(j, job[c])
  BY <1>1, JobWalled
<1>3. job' = [job EXCEPT ![c] = j] /\ pc' = [pc EXCEPT ![c] = "log"]
  BY <1>1 DEF Goto
<1>4. SaidAt("log", j)
  BY <1>2 DEF Inv, SaidInv, SaidAt, UnderWay, Outcome
<1> HIDE DEF j
<1> QED
  BY <1>2, <1>3, <1>4, AloneStep DEF UnderWay

\* The store says that the product is gone.
LEMMA EndsGone ==
  ASSUME Inv, Alone, NEW c \in Check, pc[c] \in UnderWay, IsGone(c)
  PROVE  Inv'
<1> DEFINE j == [job[c] EXCEPT !.outcome = "no_price", !.gone = TRUE]
<1>1. job[c] \in Job /\ job \in [Check -> Job]
  BY DEF Inv, SaidInv, CheckTypeOK
<1>2. j \in Job /\ j.outcome = "no_price" /\ j.wall = job[c].wall /\ j.gone = TRUE /\ Keeps(j, job[c])
  BY <1>1, JobGone
<1>3. job' = [job EXCEPT ![c] = j] /\ pc' = [pc EXCEPT ![c] = "log"]
  BY <1>1 DEF IsGone, Goto
<1>4. SaidAt("log", j)
  BY <1>2 DEF Inv, SaidInv, SaidAt, UnderWay, Outcome
<1> HIDE DEF j
<1> QED
  BY <1>2, <1>3, <1>4, AloneStep DEF UnderWay

\* A tier reads a price.
LEMMA FindsAPrice ==
  ASSUME Inv, Alone, NEW c \in Check, pc[c] \in UnderWay, NEW t \in Tier,
         NEW p \in {"log", "leaflet"}, Finds(c, t, p)
  PROVE  Inv'
<1> DEFINE j == [job[c] EXCEPT !.outcome = "ok", !.tier = t]
<1>1. job[c] \in Job /\ job \in [Check -> Job]
  BY DEF Inv, SaidInv, CheckTypeOK
<1>2. j \in Job /\ j.outcome = "ok" /\ j.wall = job[c].wall /\ j.gone = job[c].gone /\ Keeps(j, job[c])
  BY <1>1, JobFound
<1>3. job' = [job EXCEPT ![c] = j] /\ pc' = [pc EXCEPT ![c] = p]
  BY <1>1 DEF Finds, Goto
<1>4. SaidAt(p, j)
  BY <1>2 DEF Inv, SaidInv, SaidAt, UnderWay, Outcome
<1> HIDE DEF j
<1> QED
  BY <1>2, <1>3, <1>4, AloneStep DEF UnderWay

\* The steps of a check at its page and on the ladder.
LEMMA LadderStep ==
  ASSUME Inv, NEW c \in Check,
         \/ PageWalled(c) \/ PageRefused(c) \/ PageFails(c) \/ PageServed(c)
         \/ ApiWalled(c) \/ ApiGone(c) \/ ApiAnswers(c) \/ ApiMisses(c)
         \/ StateGone(c) \/ (\E offer \in BOOLEAN : StateAnswers(c, offer))
         \/ JsonLdAnswers(c) \/ NothingReads(c) \/ Escapes(c)
  PROVE  Inv'
<1>1. CASE PageWalled(c) \/ ApiWalled(c)
  BY <1>1, EndsAtAWall DEF PageWalled, ApiWalled, UnderWay, Goto
<1>2. CASE PageRefused(c) \/ NothingReads(c) \/ Escapes(c)
  BY <1>2, EndsWithout DEF PageRefused, NothingReads, Escapes, UnderWay
<1>3. CASE PageFails(c)
  <2>1. CASE job[c].tries + 1 < MaxTries
    <3> DEFINE j == [job[c] EXCEPT !.tries = @ + 1]
    <3>1. job[c] \in Job /\ job \in [Check -> Job] /\ pc \in [Check -> Place]
      BY DEF Inv, SaidInv, CheckTypeOK, Place
    <3>2. j \in Job /\ j.outcome = job[c].outcome /\ j.wall = job[c].wall /\ j.gone = job[c].gone /\ Keeps(j, job[c])
      BY <2>1, <3>1, JobTried
    <3>3. job' = [job EXCEPT ![c] = j] /\ pc' = [pc EXCEPT ![c] = "page"] /\ pc[c] = "page"
      BY <1>3, <2>1, <3>1 DEF PageFails
    <3>4. SaidAt("page", j)
      BY <3>2, <3>3 DEF Inv, SaidInv, SaidAt
    <3>5. Alone
      BY <1>3 DEF PageFails
    <3> HIDE DEF j
    <3> QED
      BY <3>2, <3>3, <3>4, <3>5, AloneStep DEF UnderWay
  <2>2. CASE ~(job[c].tries + 1 < MaxTries)
    BY <1>3, <2>2, EndsWithout DEF PageFails, UnderWay
  <2> QED
    BY <2>1, <2>2
<1>4. CASE PageServed(c) \/ ApiMisses(c)
  <2>1. PICK p \in UnderWay : Goto(c, p)
    BY <1>4 DEF PageServed, ApiMisses, UnderWay
  <2> QED
    BY <1>4, <2>1, MovesOn DEF PageServed, ApiMisses, UnderWay
<1>5. CASE ApiGone(c) \/ StateGone(c)
  BY <1>5, EndsGone DEF ApiGone, StateGone, UnderWay
<1>6. CASE ApiAnswers(c) \/ JsonLdAnswers(c)
  BY <1>6, FindsAPrice DEF ApiAnswers, JsonLdAnswers, UnderWay, Tier
<1>7. ASSUME NEW offer \in BOOLEAN, StateAnswers(c, offer) PROVE Inv'
  <2>1. PICK p \in {"log", "leaflet"} : Finds(c, "page", p)
    BY <1>7 DEF StateAnswers
  <2> QED
    BY <1>7, <2>1, FindsAPrice DEF StateAnswers, UnderWay, Tier
<1> QED
  BY <1>1, <1>2, <1>3, <1>4, <1>5, <1>6, <1>7

-----------------------------------------------------------------------------
(* The beginning, the leaflet, the row and time. *)

\* What the other checks have noted stays true when one check moves on, if no
\* other check reads or nothing has been read.
LEMMA OthersNoted ==
  ASSUME Inv, NEW c \in Check, NEW p \in Place, NEW j \in Job,
         pc' = [pc EXCEPT ![c] = p], job' = [job EXCEPT ![c] = j],
         UNCHANGED <<today, advertised>>,
         lock = c \/ UNCHANGED read,
         NEW d \in Check, d # c
  PROVE  NotedAt(pc[d], job[d])'
<1>1. pc'[d] = pc[d] /\ job'[d] = job[d]
  BY DEF Inv, SaidInv, CheckTypeOK, Place
<1>2. NotedAt(pc[d], job[d])
  BY DEF Inv, LeafletInv
<1>3. pc[d] = "reading" => UNCHANGED read
  BY DEF Inv, LeafletInv, LockInv
<1> QED
  BY <1>1, <1>2, <1>3 DEF NotedAt

\* A check begins with nothing known but its link and its day.
LEMMA BeginStep ==
  ASSUME Inv, NEW c \in Check, NEW l \in Link, Begin(c, l)
  PROVE  Inv'
<1> DEFINE j == [NoJob EXCEPT !.link = l, !.since = today]
<1>0. /\ pc \in [Check -> Place] /\ job \in [Check -> Job] /\ today \in Day
      /\ begun \in 0..MaxChecks /\ MaxChecks \in Nat
  BY PriceCheckAssumption DEF Inv, SaidInv, CheckTypeOK, Place
<1>1. j \in Job /\ j.wall = FALSE /\ j.gone = FALSE /\ j.flag = "unknown" /\ j.since = today
  BY <1>0, NoJobType DEF NoJob, Job
<1>2. job' = [job EXCEPT ![c] = j] /\ pc' = [pc EXCEPT ![c] = "page"] /\ pc[c] = "idle"
  BY DEF Begin, Goto
<1>3. SaidAt("page", j)
  BY <1>1 DEF SaidAt
<1> HIDE DEF j
<1>4. UNCHANGED <<leafletVars, logVars, dayVars>>
  BY DEF Begin
<1>5. begun' \in 0..MaxChecks
  BY <1>0 DEF Begin
<1>6. SaidInv'
  <2>1. /\ pc' \in [Check -> Place] /\ job' \in [Check -> Job]
        /\ \A d \in Check : SaidAt(pc'[d], job'[d])
    BY <1>1, <1>2, <1>3, OwnStep DEF Inv, Place
  <2> QED
    BY <1>4, <1>5, <2>1 DEF Inv, SaidInv, CheckTypeOK, leafletVars, logVars, dayVars, Place
<1>7. LockInv' /\ CacheInv'
  BY <1>0, <1>2, <1>4 DEF Inv, LeafletInv, LockInv, CacheInv, leafletVars, dayVars
<1>8. NotedAt(pc[c], job[c])'
  BY <1>0, <1>1, <1>2, <1>4 DEF NotedAt, dayVars, Day
<1>9. ASSUME NEW d \in Check, d # c PROVE NotedAt(pc[d], job[d])'
  BY <1>1, <1>2, <1>4, <1>9, OthersNoted DEF Place, dayVars, leafletVars
<1> QED
  BY <1>6, <1>7, <1>8, <1>9 DEF Inv, LeafletInv

\* The row is written, or not, and the check is over.
LEMMA LogStep ==
  ASSUME Inv, NEW c \in Check, Log(c)
  PROVE  Inv'
<1>0. /\ pc \in [Check -> Place] /\ job \in [Check -> Job]
      /\ attempts \in [Link -> Seq(Outcome)]
      /\ refused \in [Link -> Nat] /\ okLost \in [Link -> BOOLEAN]
      /\ job[c].link \in Link
  BY DEF Inv, SaidInv, CheckTypeOK, Place, Job
<1>1. job' = [job EXCEPT ![c] = NoJob] /\ pc' = [pc EXCEPT ![c] = "idle"] /\ pc[c] = "log"
  BY DEF Log, Goto
<1>2. job[c].outcome \in Outcome
  BY <1>1 DEF Inv, SaidInv, SaidAt
<1>3. UNCHANGED <<leafletVars, dayVars, begun>>
  BY DEF Log
<1>4. attempts' \in [Link -> Seq(Outcome)]
  <2>1. <<job[c].outcome>> \o attempts[job[c].link] \in Seq(Outcome)
    BY <1>0, <1>2
  <2>2. \/ attempts' = [attempts EXCEPT ![job[c].link] =
                          <<job[c].outcome>> \o attempts[job[c].link]]
        \/ attempts' = attempts
    BY DEF Log, LinkOf
  <2> QED
    BY <1>0, <2>1, <2>2
<1>5. refused' \in [Link -> Nat]
  BY <1>0 DEF Log, LinkOf
<1>6. okLost' \in [Link -> BOOLEAN]
  <2>1. PICK b \in BOOLEAN : okLost' = [okLost EXCEPT ![job[c].link] = b]
    BY <1>0 DEF Log, LinkOf
  <2> QED
    BY <1>0, <2>1
<1>7. SaidInv'
  <2>1. SaidAt("idle", NoJob)
    BY DEF SaidAt
  <2>2. /\ pc' \in [Check -> Place] /\ job' \in [Check -> Job]
        /\ \A d \in Check : SaidAt(pc'[d], job'[d])
    BY <1>1, <2>1, NoJobType, OwnStep DEF Inv, Place
  <2> QED
    BY <1>3, <1>4, <1>5, <1>6, <2>2 DEF Inv, SaidInv, CheckTypeOK, leafletVars, dayVars, Place
<1>8. LockInv' /\ CacheInv'
  BY <1>0, <1>1, <1>3 DEF Inv, LeafletInv, LockInv, CacheInv, leafletVars, dayVars
<1>9. NotedAt(pc[c], job[c])'
  BY <1>0, <1>1 DEF NotedAt
<1>10. ASSUME NEW d \in Check, d # c PROVE NotedAt(pc[d], job[d])'
  BY <1>1, <1>3, <1>10, NoJobType, OthersNoted DEF Place, dayVars, leafletVars
<1> QED
  BY <1>7, <1>8, <1>9, <1>10 DEF Inv, LeafletInv

\* A request is cancelled.
LEMMA CancelStep ==
  ASSUME Inv, NEW c \in Check, Cancelled(c)
  PROVE  Inv'
<1>0. /\ pc \in [Check -> Place] /\ job \in [Check -> Job] /\ lock \in Check \cup {Nobody}
      /\ Nobody \notin Check
  BY PriceCheckAssumption DEF Inv, SaidInv, CheckTypeOK, Place
<1>1. job' = [job EXCEPT ![c] = NoJob] /\ pc' = [pc EXCEPT ![c] = "idle"]
  BY DEF Cancelled, Goto
<1>2. /\ lock' = IF lock = c THEN Nobody ELSE lock
      /\ UNCHANGED <<cache, walled, read, logVars, dayVars, begun>>
  BY DEF Cancelled
<1>3. SaidInv'
  <2>1. SaidAt("idle", NoJob)
    BY DEF SaidAt
  <2>2. /\ pc' \in [Check -> Place] /\ job' \in [Check -> Job]
        /\ \A d \in Check : SaidAt(pc'[d], job'[d])
    BY <1>1, <2>1, NoJobType, OwnStep DEF Inv, Place
  <2> QED
    BY <1>0, <1>2, <2>2 DEF Inv, SaidInv, CheckTypeOK, logVars, dayVars, Place
<1>4. LockInv'
  BY <1>0, <1>1, <1>2 DEF Inv, LeafletInv, LockInv
<1>5. CacheInv'
  BY <1>2 DEF Inv, LeafletInv, CacheInv, dayVars
<1>6. NotedAt(pc[c], job[c])'
  BY <1>0, <1>1 DEF NotedAt
<1>7. ASSUME NEW d \in Check, d # c PROVE NotedAt(pc[d], job[d])'
  BY <1>1, <1>2, <1>7, NoJobType, OthersNoted DEF Place, dayVars
<1> QED
  BY <1>3, <1>4, <1>5, <1>6, <1>7 DEF Inv, LeafletInv

\* What a check notes of a leaflet changes nothing else of its job.
LEMMA JobNoted ==
  ASSUME NEW j \in Job, NEW f \in {"unknown", "in", "out"}
  PROVE  LET k == [j EXCEPT !.flag = f]
         IN  /\ k \in Job /\ k.flag = f /\ k.link = j.link /\ k.since = j.since
             /\ k.outcome = j.outcome /\ k.wall = j.wall /\ k.gone = j.gone
  BY DEF Job

\* A leaflet that has been read is one.
LEMMA LeafletTypes ==
  ASSUME CheckTypeOK
  PROVE  /\ cache \in [kind : {"empty", "read", "failed"}, day : Day, offers : SUBSET Leafleted]
         /\ Failed \in [kind : {"empty", "read", "failed"}, day : Day, offers : SUBSET Leafleted]
         /\ Failed.kind = "failed"
<1>1. 1 \in Day
  BY PriceCheckAssumption DEF Day
<1>2. Failed = [kind |-> "failed", day |-> 1, offers |-> {}]
  BY DEF Failed, Unread
<1> QED
  BY <1>1, <1>2 DEF CheckTypeOK

\* What a check notes is true if the leaflet it notes it from is what the
\* leaflet said on one of the days of the check.
LEMMA NotedStep ==
  ASSUME Inv, NEW c \in Check, pc[c] \in {"leaflet", "reading"},
         NEW leaflet \in [kind : {"empty", "read", "failed"}, day : Day, offers : SUBSET Leafleted],
         leaflet.kind = "read" => \E d \in job[c].since..today : leaflet.offers = advertised[d],
         Noted(c, leaflet), lock = c \/ UNCHANGED read,
         lock' \in Check \cup {Nobody}, walled' \in BOOLEAN, read' \in [Day -> Nat]
  PROVE  /\ SaidInv'
         /\ \A d \in Check : NotedAt(pc[d], job[d])'
         /\ pc' = [pc EXCEPT ![c] = "log"]
         /\ cache' = leaflet /\ UNCHANGED dayVars
<1> DEFINE f == IF leaflet.kind # "read" THEN "unknown"
                ELSE IF LinkOf(c) \in leaflet.offers THEN "in" ELSE "out"
           j == [job[c] EXCEPT !.flag = f]
<1>0. pc \in [Check -> Place] /\ job \in [Check -> Job] /\ job[c] \in Job
  BY DEF Inv, SaidInv, CheckTypeOK, Place
<1>1. f \in {"unknown", "in", "out"}
  OBVIOUS
<1>2. /\ cache' = leaflet /\ UNCHANGED <<logVars, dayVars, begun>>
      /\ pc' = [pc EXCEPT ![c] = "log"] /\ job' = [job EXCEPT ![c].flag = f]
  BY DEF Noted, Goto
<1>3. /\ f # "unknown" => leaflet.kind = "read"
      /\ leaflet.kind = "read" => ((f = "in") <=> (job[c].link \in leaflet.offers))
  BY DEF LinkOf
<1> HIDE DEF f
<1>4. job' = [job EXCEPT ![c] = j]
  BY <1>0, <1>2
<1>5. /\ j \in Job /\ j.flag = f /\ j.link = job[c].link /\ j.since = job[c].since
      /\ j.outcome = job[c].outcome /\ j.wall = job[c].wall /\ j.gone = job[c].gone
  BY <1>0, <1>1, JobNoted
<1> HIDE DEF j
<1>6. SaidAt("log", j)
  BY <1>5 DEF Inv, SaidInv, SaidAt, Outcome
<1>7. SaidInv'
  <2>1. /\ pc' \in [Check -> Place] /\ job' \in [Check -> Job]
        /\ \A d \in Check : SaidAt(pc'[d], job'[d])
    BY <1>2, <1>4, <1>5, <1>6, OwnStep DEF Inv, Place
  <2> QED
    BY <1>2, <2>1 DEF Inv, SaidInv, CheckTypeOK, logVars, dayVars, Place
<1>8. NotedAt(pc[c], job[c])'
  <2>1. pc'[c] = "log" /\ job'[c] = j /\ UNCHANGED <<today, advertised>>
    BY <1>0, <1>2, <1>4 DEF dayVars
  <2>2. j.since <= today
    BY <1>5 DEF Inv, LeafletInv, NotedAt
  <2>3. j.flag # "unknown" =>
          \E d \in j.since..today : (j.flag = "in") <=> (j.link \in advertised[d])
    BY <1>3, <1>5
  <2> QED
    BY <2>1, <2>2, <2>3 DEF NotedAt
<1>9. ASSUME NEW d \in Check, d # c PROVE NotedAt(pc[d], job[d])'
  BY <1>2, <1>4, <1>5, <1>9, OthersNoted DEF Place, dayVars
<1> QED
  BY <1>2, <1>7, <1>8, <1>9

\* From the cache, or from nowhere.
LEMMA KnownStep ==
  ASSUME Inv, NEW c \in Check, LeafletKnown(c)
  PROVE  Inv'
<1> DEFINE leaflet == IF Fresh THEN cache ELSE Failed
<1>0. /\ pc \in [Check -> Place] /\ lock \in Check \cup {Nobody} /\ walled \in BOOLEAN
      /\ read \in [Day -> Nat] /\ today \in Day /\ Nobody \notin Check /\ lock = Nobody
  BY PriceCheckAssumption DEF Inv, SaidInv, CheckTypeOK, Place, LeafletKnown
<1>1. /\ leaflet \in [kind : {"empty", "read", "failed"}, day : Day, offers : SUBSET Leafleted]
      /\ leaflet.kind = "read" => Fresh /\ leaflet = cache /\ cache.day = today
  BY LeafletTypes DEF Inv, SaidInv, Fresh
<1>2. pc[c] = "leaflet" /\ Noted(c, leaflet) /\ UNCHANGED <<lock, walled, read>>
  BY DEF LeafletKnown
<1>3. job[c].since \in Day /\ job[c].since <= today
  BY <1>2 DEF Inv, SaidInv, CheckTypeOK, Job, LeafletInv, NotedAt
<1>4. leaflet.kind = "read" => leaflet.offers = advertised[today]
  BY <1>0, <1>1 DEF Inv, LeafletInv, CacheInv, Day
<1>5. ~Fresh => read[today] = 0 /\ leaflet.kind = "failed"
  BY LeafletTypes DEF Inv, SaidInv, LeafletInv, CacheInv, Fresh
<1>6. Fresh => leaflet = cache
  OBVIOUS
<1> HIDE DEF leaflet
<1>7. /\ SaidInv' /\ \A d \in Check : NotedAt(pc[d], job[d])'
      /\ pc' = [pc EXCEPT ![c] = "log"] /\ cache' = leaflet /\ UNCHANGED dayVars
  <2>1. leaflet.kind = "read" => \E d \in job[c].since..today : leaflet.offers = advertised[d]
    BY <1>0, <1>3, <1>4 DEF Day
  <2> QED
    BY <1>0, <1>1, <1>2, <2>1, NotedStep
<1>8. LockInv'
  BY <1>0, <1>2, <1>7 DEF Inv, LeafletInv, LockInv
<1>9. CacheInv'
  BY <1>2, <1>5, <1>6, <1>7 DEF Inv, LeafletInv, CacheInv, dayVars
<1> QED
  BY <1>7, <1>8, <1>9 DEF Inv, LeafletInv

\* Nobody has read the leaflet of the day it is asked for, nor of one to come.
LEMMA AskedStep ==
  ASSUME Inv, NEW c \in Check, LeafletAsked(c)
  PROVE  Inv'
<1> DEFINE j == [job[c] EXCEPT !.since = today]
<1>0. /\ pc \in [Check -> Place] /\ job \in [Check -> Job] /\ job[c] \in Job
      /\ read \in [Day -> Nat] /\ today \in Day /\ Nobody \notin Check /\ lock = Nobody
  BY PriceCheckAssumption DEF Inv, SaidInv, CheckTypeOK, Place, LeafletAsked
<1>1. /\ pc[c] = "leaflet" /\ lock' = c /\ UNCHANGED <<cache, walled, read, logVars, dayVars, begun>>
      /\ pc' = [pc EXCEPT ![c] = "reading"] /\ job' = [job EXCEPT ![c] = j]
  BY <1>0 DEF LeafletAsked, Goto
<1>2. /\ j \in Job /\ j.since = today /\ j.flag = job[c].flag
      /\ j.outcome = job[c].outcome /\ j.wall = job[c].wall /\ j.gone = job[c].gone
  BY <1>0 DEF Job
<1> HIDE DEF j
<1>3. SaidAt("reading", j)
  BY <1>1, <1>2 DEF Inv, SaidInv, SaidAt
<1>4. SaidInv'
  <2>1. /\ pc' \in [Check -> Place] /\ job' \in [Check -> Job]
        /\ \A d \in Check : SaidAt(pc'[d], job'[d])
    BY <1>1, <1>2, <1>3, OwnStep DEF Inv, Place
  <2> QED
    BY <1>1, <2>1 DEF Inv, SaidInv, CheckTypeOK, logVars, dayVars, Place
<1>5. LockInv'
  BY <1>0, <1>1 DEF Inv, LeafletInv, LockInv
<1>6. CacheInv'
  BY <1>1 DEF Inv, LeafletInv, CacheInv, dayVars
<1>7. NotedAt(pc[c], job[c])'
  <2>1. pc'[c] = "reading" /\ job'[c] = j /\ UNCHANGED <<today, read, advertised>>
    BY <1>0, <1>1 DEF dayVars
  <2>2. read[today] = 0
    BY DEF LeafletAsked, Fresh, Inv, LeafletInv, CacheInv
  <2>3. \A d \in Day : today <= d => read[d] = 0
    BY <1>0, <2>2 DEF Inv, LeafletInv, CacheInv, Day
  <2>4. j.flag = "unknown"
    BY <1>1, <1>2 DEF Inv, LeafletInv, NotedAt
  <2> QED
    BY <1>0, <1>2, <2>1, <2>3, <2>4 DEF NotedAt, Day
<1>8. ASSUME NEW d \in Check, d # c PROVE NotedAt(pc[d], job[d])'
  BY <1>1, <1>2, <1>8, OthersNoted DEF Place, dayVars
<1> QED
  BY <1>4, <1>5, <1>6, <1>7, <1>8 DEF Inv, LeafletInv

\* The leaflet asked for has come.
LEMMA ReadStep ==
  ASSUME Inv, NEW c \in Check, LeafletRead(c)
  PROVE  Inv'
<1> DEFINE s == job[c].since
           leaflet == [kind |-> "read", day |-> s, offers |-> advertised[today]]
<1>0. /\ pc \in [Check -> Place] /\ job \in [Check -> Job] /\ s \in Day
      /\ read \in [Day -> Nat] /\ today \in Day /\ Nobody \notin Check
      /\ advertised \in [Day -> SUBSET Leafleted] /\ walled \in BOOLEAN
  BY PriceCheckAssumption DEF Inv, SaidInv, CheckTypeOK, Place, Job
<1>1. /\ pc[c] = "reading" /\ lock' = Nobody /\ read' = [read EXCEPT ![s] = @ + 1]
      /\ Noted(c, leaflet) /\ UNCHANGED walled
  BY DEF LeafletRead
<1>2. /\ lock = c /\ s <= today
      /\ \A d \in Day : s <= d => read[d] = 0
  BY <1>1 DEF Inv, LeafletInv, LockInv, NotedAt
<1>3. /\ leaflet \in [kind : {"empty", "read", "failed"}, day : Day, offers : SUBSET Leafleted]
      /\ leaflet.kind = "read" /\ leaflet.day = s /\ leaflet.offers = advertised[today]
  BY <1>0
<1> HIDE DEF leaflet
<1>4. read' \in [Day -> Nat]
  BY <1>0, <1>1
<1>5. /\ SaidInv' /\ \A d \in Check : NotedAt(pc[d], job[d])'
      /\ pc' = [pc EXCEPT ![c] = "log"] /\ cache' = leaflet /\ UNCHANGED dayVars
  <2>1. \E d \in job[c].since..today : leaflet.offers = advertised[d]
    BY <1>0, <1>2, <1>3 DEF Day
  <2>2. lock' \in Check \cup {Nobody} /\ walled' \in BOOLEAN
    BY <1>0, <1>1
  <2> QED
    BY <1>1, <1>2, <1>3, <1>4, <2>1, <2>2, NotedStep
<1>6. LockInv'
  BY <1>0, <1>1, <1>2, <1>5 DEF Inv, LeafletInv, LockInv
<1>7. CacheInv'
  <2>1. \A d \in Day : read'[d] = IF d = s THEN 1 ELSE read[d]
    BY <1>0, <1>1, <1>2 DEF Day
  <2>2. \A d \in Day : read'[d] <= 1 /\ (today < d => read'[d] = 0)
    BY <1>0, <1>2, <2>1 DEF Inv, LeafletInv, CacheInv, Day
  <2>3. read'[today] # 0 => cache'.kind = "read" /\ cache'.day = today
    BY <1>0, <1>2, <1>3, <1>5, <2>1
  <2>4. \E d \in cache'.day..today : cache'.offers = advertised[d]
    BY <1>0, <1>2, <1>3, <1>5 DEF Day
  <2> QED
    BY <1>5, <2>2, <2>3, <2>4 DEF CacheInv, dayVars
<1> QED
  BY <1>5, <1>6, <1>7 DEF Inv, LeafletInv

\* The leaflet asked for has not come.
LEMMA FailedStep ==
  ASSUME Inv, NEW c \in Check, LeafletFails(c)
  PROVE  Inv'
<1>0. /\ pc \in [Check -> Place] /\ today \in Day /\ Nobody \notin Check
      /\ walled \in BOOLEAN /\ read \in [Day -> Nat]
  BY PriceCheckAssumption DEF Inv, SaidInv, CheckTypeOK, Place
<1>1. /\ pc[c] = "reading" /\ lock' = Nobody /\ walled' \in BOOLEAN
      /\ Noted(c, Failed) /\ UNCHANGED read
  BY <1>0 DEF LeafletFails
<1>2. lock = c /\ read[today] = 0
  BY <1>0, <1>1 DEF Inv, LeafletInv, LockInv, NotedAt
<1>3. /\ Failed \in [kind : {"empty", "read", "failed"}, day : Day, offers : SUBSET Leafleted]
      /\ Failed.kind = "failed"
  BY LeafletTypes DEF Inv, SaidInv
<1>4. /\ SaidInv' /\ \A d \in Check : NotedAt(pc[d], job[d])'
      /\ pc' = [pc EXCEPT ![c] = "log"] /\ cache' = Failed /\ UNCHANGED dayVars
  BY <1>0, <1>1, <1>2, <1>3, NotedStep
<1>5. LockInv'
  BY <1>0, <1>1, <1>2, <1>4 DEF Inv, LeafletInv, LockInv
<1>6. CacheInv'
  BY <1>1, <1>2, <1>3, <1>4 DEF Inv, LeafletInv, CacheInv, dayVars
<1> QED
  BY <1>4, <1>5, <1>6 DEF Inv, LeafletInv

\* The steps of time.
LEMMA TimeStep ==
  ASSUME Inv, Midnight \/ FailureForgotten \/ LeafletCoolsDown
  PROVE  Inv'
<1>0. 1 \in Day
  BY PriceCheckAssumption DEF Day
<1>1. CASE Midnight
  <2>1. /\ UNCHANGED <<pc, job, leafletVars, logVars, advertised, begun>>
        /\ today' = today + 1 /\ today' \in Day /\ today \in Day
    BY <1>1, PriceCheckAssumption DEF Midnight, Inv, SaidInv, CheckTypeOK, Day
  <2>2. SaidInv'
    BY <2>1 DEF Inv, SaidInv, SaidAt, CheckTypeOK, leafletVars, logVars
  <2>3. LockInv'
    BY <2>1 DEF Inv, LeafletInv, LockInv, leafletVars
  <2>4. CacheInv'
    <3>1. \A d \in Day : read[d] <= 1 /\ (today + 1 < d => read[d] = 0)
      BY <2>1 DEF Inv, LeafletInv, CacheInv, Day
    <3>2. read[today + 1] = 0
      BY <2>1 DEF Inv, LeafletInv, CacheInv, Day
    <3>3. cache.kind = "read" => \E d \in cache.day..(today + 1) : cache.offers = advertised[d]
      BY <2>1 DEF Inv, SaidInv, CheckTypeOK, LeafletInv, CacheInv, Day
    <3> QED
      BY <2>1, <3>1, <3>2, <3>3 DEF CacheInv, leafletVars
  <2>5. ASSUME NEW d \in Check PROVE NotedAt(pc[d], job[d])'
    <3>1. NotedAt(pc[d], job[d]) /\ job[d].since \in Day
      BY DEF Inv, LeafletInv, SaidInv, CheckTypeOK, Job
    <3> QED
      BY <2>1, <3>1 DEF NotedAt, Day, leafletVars
  <2> QED
    BY <2>2, <2>3, <2>4, <2>5 DEF Inv, LeafletInv
<1>2. CASE FailureForgotten
  <2>1. /\ UNCHANGED <<pc, job, lock, walled, read, logVars, dayVars, begun>>
        /\ cache' = Unread /\ cache.kind = "failed"
    BY <1>2 DEF FailureForgotten
  <2>2. /\ Unread \in [kind : {"empty", "read", "failed"}, day : Day, offers : SUBSET Leafleted]
        /\ Unread.kind = "empty"
    BY <1>0 DEF Unread
  <2>3. SaidInv'
    BY <2>1, <2>2 DEF Inv, SaidInv, SaidAt, CheckTypeOK, logVars, dayVars
  <2>4. LockInv' /\ CacheInv'
    BY <2>1, <2>2 DEF Inv, LeafletInv, LockInv, CacheInv, dayVars
  <2>5. \A d \in Check : NotedAt(pc[d], job[d])'
    BY <2>1 DEF Inv, LeafletInv, NotedAt, dayVars
  <2> QED
    BY <2>3, <2>4, <2>5 DEF Inv, LeafletInv
<1>3. CASE LeafletCoolsDown
  <2>1. UNCHANGED <<pc, job, cache, lock, read, logVars, dayVars, begun>> /\ walled' = FALSE
    BY <1>3 DEF LeafletCoolsDown
  <2>2. SaidInv'
    BY <2>1 DEF Inv, SaidInv, SaidAt, CheckTypeOK, logVars, dayVars
  <2>3. LockInv' /\ CacheInv'
    BY <2>1 DEF Inv, LeafletInv, LockInv, CacheInv, dayVars
  <2>4. \A d \in Check : NotedAt(pc[d], job[d])'
    BY <2>1 DEF Inv, LeafletInv, NotedAt, dayVars
  <2> QED
    BY <2>2, <2>3, <2>4 DEF Inv, LeafletInv
<1> QED
  BY <1>1, <1>2, <1>3

-----------------------------------------------------------------------------
(* The theorems. *)

\* The invariant holds before the first check.
LEMMA InitInv == CheckInit => Inv
<1> SUFFICES ASSUME CheckInit PROVE Inv
  OBVIOUS
<1>1. 1 \in Day /\ \A d \in Day : 1 <= d
  BY PriceCheckAssumption DEF Day
<1>2. CheckTypeOK
  <2>1. Unread \in [kind : {"empty", "read", "failed"}, day : Day, offers : SUBSET Leafleted]
    BY <1>1 DEF Unread
  <2>2. attempts \in [Link -> Seq(Outcome)]
    BY DEF CheckInit
  <2>3. job \in [Check -> Job] /\ begun \in 0..MaxChecks
    BY NoJobType, PriceCheckAssumption DEF CheckInit
  <2>4. okLost \in [Link -> BOOLEAN] /\ refused \in [Link -> Nat] /\ read \in [Day -> Nat]
    BY DEF CheckInit
  <2> QED
    BY <1>1, <2>1, <2>2, <2>3, <2>4 DEF CheckInit, CheckTypeOK
<1>3. \A c \in Check : SaidAt(pc[c], job[c]) /\ NotedAt(pc[c], job[c])
  BY DEF CheckInit, SaidAt, NotedAt
<1>4. LockInv /\ CacheInv
  BY <1>1, PriceCheckAssumption DEF CheckInit, LockInv, CacheInv, Unread
<1> QED
  BY <1>2, <1>3, <1>4 DEF Inv, SaidInv, LeafletInv

\* Every step keeps it.
LEMMA NextInv == Inv /\ [CheckNext]_checkVars => Inv'
<1> SUFFICES ASSUME Inv, [CheckNext]_checkVars PROVE Inv'
  OBVIOUS
<1>1. ASSUME NEW c \in Check, CheckStep(c) PROVE Inv'
  <2>1. CASE \E l \in Link : Begin(c, l)
    BY <2>1, BeginStep
  <2>2. CASE Log(c) \/ Cancelled(c)
    BY <2>2, LogStep, CancelStep
  <2>3. CASE LeafletKnown(c) \/ LeafletAsked(c) \/ LeafletRead(c) \/ LeafletFails(c)
    BY <2>3, KnownStep, AskedStep, ReadStep, FailedStep
  <2>4. CASE \/ PageWalled(c) \/ PageRefused(c) \/ PageFails(c) \/ PageServed(c)
             \/ ApiWalled(c) \/ ApiGone(c) \/ ApiAnswers(c) \/ ApiMisses(c)
             \/ StateGone(c) \/ (\E offer \in BOOLEAN : StateAnswers(c, offer))
             \/ JsonLdAnswers(c) \/ NothingReads(c) \/ Escapes(c)
    BY <2>4, LadderStep
  <2> QED
    BY <1>1, <2>1, <2>2, <2>3, <2>4 DEF CheckStep
<1>2. CASE Midnight \/ FailureForgotten \/ LeafletCoolsDown
  BY <1>2, TimeStep
<1>3. CASE UNCHANGED checkVars
  <2>1. UNCHANGED <<pc, job, attempts, refused, okLost, cache, lock, walled, read,
                    today, advertised, begun>>
    BY <1>3 DEF checkVars, leafletVars, logVars, dayVars
  <2>2. SaidInv'
    BY <2>1 DEF Inv, SaidInv, SaidAt, CheckTypeOK
  <2>3. LockInv' /\ CacheInv'
    BY <2>1 DEF Inv, LeafletInv, LockInv, CacheInv
  <2>4. \A d \in Check : NotedAt(pc[d], job[d])'
    BY <2>1 DEF Inv, LeafletInv, NotedAt
  <2> QED
    BY <2>2, <2>3, <2>4 DEF Inv, LeafletInv
<1> QED
  BY <1>1, <1>2, <1>3 DEF CheckNext

\* So it always holds.
LEMMA AlwaysInv == CheckSpec => []Inv
  BY InitInv, NextInv, PTL DEF CheckSpec

\* Checks, log, cache and lock keep their types.
THEOREM CheckTypeCorrect == CheckSpec => []CheckTypeOK
<1>1. Inv => CheckTypeOK
  BY DEF Inv, SaidInv
<1> QED
  BY <1>1, AlwaysInv, PTL

\* A wall ends a check as a wall, wherever on the ladder it stood, and nothing
\* else does; a product that is gone has no price.
THEOREM StoresHaveTheLastWord == CheckSpec => []LastWordStands
<1>1. Inv => LastWordStands
  <2> SUFFICES ASSUME Inv, NEW c \in Check, pc[c] = "log"
               PROVE  /\ job[c].wall <=> job[c].outcome = "blocked"
                      /\ job[c].gone => job[c].outcome = "no_price"
    BY DEF LastWordStands
  <2>1. SaidAt(pc[c], job[c]) /\ job[c].wall \in BOOLEAN /\ job[c].gone \in BOOLEAN
    BY DEF Inv, SaidInv, CheckTypeOK, Job
  <2> QED
    BY <2>1 DEF SaidAt
<1> QED
  BY <1>1, AlwaysInv, PTL

\* For any number of checks at a time, cancelled or not, over any midnights: a
\* day's leaflet is read once.
THEOREM LeafletsAreReadOnce == CheckSpec => []OneLeafletADay
<1>1. Inv => OneLeafletADay
  BY DEF Inv, LeafletInv, CacheInv, OneLeafletADay
<1> QED
  BY <1>1, AlwaysInv, PTL

\* What a point says of the leaflet was so on one of the days of its check.
THEOREM LeafletVerdictsHold == CheckSpec => []LeafletVerdictIsTodays
<1>1. Inv => LeafletVerdictIsTodays
  BY DEF Inv, LeafletInv, NotedAt, LeafletVerdictIsTodays, LinkOf
<1> QED
  BY <1>1, AlwaysInv, PTL

-----------------------------------------------------------------------------
(* A check is OneCheck's. *)

\* The store's last word to a check.
WordTo(p, j) == IF p # "idle" /\ j.wall THEN "wall"
                ELSE IF p # "idle" /\ j.gone THEN "gone" ELSE "none"
About(p, j) == IF p # "idle" THEN {j.link} ELSE {}

\* What OneCheck sees of the step of one check.
Shows(c, about, word) == On' = [On EXCEPT ![c] = about] /\ Word' = [Word EXCEPT ![c] = word]

\* A step of one check moves its part of the picture only.
LEMMA Pictured ==
  ASSUME Inv, NEW c \in Check, NEW p \in Place, NEW j \in Job,
         pc' = [pc EXCEPT ![c] = p], job' = [job EXCEPT ![c] = j]
  PROVE  /\ On[c] = About(pc[c], job[c]) /\ Word[c] = WordTo(pc[c], job[c])
         /\ Shows(c, About(p, j), WordTo(p, j))
<1>1. pc \in [Check -> Place] /\ job \in [Check -> Job]
  BY DEF Inv, SaidInv, CheckTypeOK, Place
<1> QED
  BY <1>1 DEF On, Word, About, WordTo, Busy, LinkOf, Shows

\* No word, no end: nothing that OneCheck sees.
LEMMA OnTheWay ==
  ASSUME Inv, NEW c \in Check, NEW p \in Place \ {"idle"}, NEW j \in Job,
         pc' = [pc EXCEPT ![c] = p], job' = [job EXCEPT ![c] = j],
         pc[c] # "idle", UNCHANGED attempts,
         j.link = job[c].link, j.wall = job[c].wall, j.gone = job[c].gone
  PROVE  UNCHANGED Promise!vars
<1>1. /\ On[c] = About(pc[c], job[c]) /\ Word[c] = WordTo(pc[c], job[c])
      /\ Shows(c, About(p, j), WordTo(p, j))
  BY Pictured
<1>2. About(p, j) = On[c] /\ WordTo(p, j) = Word[c]
  BY <1>1 DEF About, WordTo
<1>3. On' = On /\ Word' = Word
  <2>1. On' = [On EXCEPT ![c] = On[c]] /\ Word' = [Word EXCEPT ![c] = Word[c]]
    BY <1>1, <1>2 DEF Shows
  <2> QED
    BY <2>1 DEF On, Word
<1> QED
  BY <1>3 DEF Promise!vars

\* The last word.
LEMMA LastWord ==
  ASSUME Inv, NEW c \in Check, NEW j \in Job,
         pc' = [pc EXCEPT ![c] = "log"], job' = [job EXCEPT ![c] = j],
         pc[c] \in UnderWay, UNCHANGED attempts,
         j.link = job[c].link, j.wall = TRUE \/ j.gone = TRUE
  PROVE  Promise!Next
<1>1. job[c].wall = FALSE /\ job[c].gone = FALSE /\ pc[c] # "idle"
  BY DEF Inv, SaidInv, SaidAt, UnderWay
<1>2. /\ On[c] = About(pc[c], job[c]) /\ Word[c] = WordTo(pc[c], job[c])
      /\ Shows(c, About("log", j), WordTo("log", j))
  BY Pictured DEF Place
<1>3. About("log", j) = On[c] /\ On[c] # {} /\ Word[c] = "none"
  BY <1>1, <1>2 DEF About, WordTo
<1>4. WordTo("log", j) \in {"wall", "gone"}
  BY DEF WordTo
<1>5. On' = On
  <2>1. On' = [On EXCEPT ![c] = On[c]]
    BY <1>2, <1>3 DEF Shows
  <2> QED
    BY <2>1 DEF On
<1>6. Promise!Says(c, WordTo("log", j))
  BY <1>2, <1>3, <1>5 DEF Promise!Says, Shows
<1> QED
  BY <1>4, <1>6 DEF Promise!Next

\* The shapes of the steps down the ladder, as OneCheck sees them.
\* A wall.
LEMMA WalledKept ==
  ASSUME Inv, NEW c \in Check, pc[c] \in UnderWay, UNCHANGED attempts, Goto(c, "log"),
         job' = [job EXCEPT ![c].outcome = "blocked", ![c].wall = TRUE]
  PROVE  Promise!Next
<1> DEFINE j == [job[c] EXCEPT !.outcome = "blocked", !.wall = TRUE]
<1>1. job[c] \in Job /\ job \in [Check -> Job]
  BY DEF Inv, SaidInv, CheckTypeOK
<1>2. j \in Job /\ j.outcome = "blocked" /\ j.wall = TRUE /\ j.gone = job[c].gone /\ Keeps(j, job[c])
  BY <1>1, JobWalled
<1>3. job' = [job EXCEPT ![c] = j] /\ pc' = [pc EXCEPT ![c] = "log"]
  BY <1>1 DEF Goto
<1> HIDE DEF j
<1>4. j.link = job[c].link
  BY <1>2 DEF Keeps
<1> QED
  BY <1>2, <1>3, <1>4, LastWord

\* A product that is gone.
LEMMA GoneKept ==
  ASSUME Inv, NEW c \in Check, pc[c] \in UnderWay, UNCHANGED attempts, IsGone(c)
  PROVE  Promise!Next
<1> DEFINE j == [job[c] EXCEPT !.outcome = "no_price", !.gone = TRUE]
<1>1. job[c] \in Job /\ job \in [Check -> Job]
  BY DEF Inv, SaidInv, CheckTypeOK
<1>2. j \in Job /\ j.outcome = "no_price" /\ j.wall = job[c].wall /\ j.gone = TRUE /\ Keeps(j, job[c])
  BY <1>1, JobGone
<1>3. job' = [job EXCEPT ![c] = j] /\ pc' = [pc EXCEPT ![c] = "log"]
  BY <1>1 DEF IsGone, Goto
<1> HIDE DEF j
<1>4. j.link = job[c].link
  BY <1>2 DEF Keeps
<1> QED
  BY <1>2, <1>3, <1>4, LastWord

\* No price: the end is not here yet, the row is to come.
LEMMA EndsKept ==
  ASSUME Inv, NEW c \in Check, pc[c] \in UnderWay, UNCHANGED attempts,
         NEW o \in {"fetch_failed", "no_price", "error"}, Ends(c, o)
  PROVE  UNCHANGED Promise!vars
<1> DEFINE j == [job[c] EXCEPT !.outcome = o]
<1>1. job[c] \in Job /\ job \in [Check -> Job]
  BY DEF Inv, SaidInv, CheckTypeOK
<1>2. j \in Job /\ j.outcome = o /\ j.wall = job[c].wall /\ j.gone = job[c].gone /\ Keeps(j, job[c])
  <2>1. o \in Outcome
    BY DEF Outcome
  <2> QED
    BY <1>1, <2>1, JobOutcome
<1>3. job' = [job EXCEPT ![c] = j] /\ pc' = [pc EXCEPT ![c] = "log"]
  BY <1>1 DEF Ends, Goto
<1> HIDE DEF j
<1>4. j.link = job[c].link
  BY <1>2 DEF Keeps
<1> QED
  BY <1>2, <1>3, <1>4, OnTheWay DEF Place, UnderWay

\* A price.
LEMMA FindsKept ==
  ASSUME Inv, NEW c \in Check, pc[c] \in UnderWay, UNCHANGED attempts,
         NEW t \in Tier, NEW p \in {"log", "leaflet"}, Finds(c, t, p)
  PROVE  UNCHANGED Promise!vars
<1> DEFINE j == [job[c] EXCEPT !.outcome = "ok", !.tier = t]
<1>1. job[c] \in Job /\ job \in [Check -> Job]
  BY DEF Inv, SaidInv, CheckTypeOK
<1>2. j \in Job /\ j.outcome = "ok" /\ j.wall = job[c].wall /\ j.gone = job[c].gone /\ Keeps(j, job[c])
  BY <1>1, JobFound
<1>3. job' = [job EXCEPT ![c] = j] /\ pc' = [pc EXCEPT ![c] = p]
  BY <1>1 DEF Finds, Goto
<1> HIDE DEF j
<1>4. j.link = job[c].link
  BY <1>2 DEF Keeps
<1> QED
  BY <1>2, <1>3, <1>4, OnTheWay DEF Place, UnderWay

\* One more try, or the last one.
LEMMA FailsKept ==
  ASSUME Inv, NEW c \in Check, pc[c] \in UnderWay, UNCHANGED attempts, PageFails(c)
  PROVE  UNCHANGED Promise!vars
<1>1. CASE job[c].tries + 1 < MaxTries
  <2> DEFINE j == [job[c] EXCEPT !.tries = @ + 1]
  <2>1. job[c] \in Job /\ job \in [Check -> Job] /\ pc \in [Check -> Place]
    BY DEF Inv, SaidInv, CheckTypeOK, Place
  <2>2. j \in Job /\ j.outcome = job[c].outcome /\ j.wall = job[c].wall /\ j.gone = job[c].gone /\ Keeps(j, job[c])
    BY <1>1, <2>1, JobTried
  <2>3. job' = [job EXCEPT ![c] = j] /\ pc' = [pc EXCEPT ![c] = "page"]
    BY <1>1, <2>1 DEF PageFails
  <2> HIDE DEF j
  <2>4. j.link = job[c].link
    BY <2>2 DEF Keeps
  <2> QED
    BY <2>2, <2>3, <2>4, OnTheWay DEF Place, UnderWay
<1>2. CASE ~(job[c].tries + 1 < MaxTries)
  BY <1>2, EndsKept DEF PageFails
<1> QED
  BY <1>1, <1>2

\* On to the next tier.
LEMMA MovesKept ==
  ASSUME Inv, NEW c \in Check, pc[c] \in UnderWay, UNCHANGED attempts,
         NEW p \in UnderWay, Goto(c, p), UNCHANGED job
  PROVE  UNCHANGED Promise!vars
<1>1. job[c] \in Job /\ job' = [job EXCEPT ![c] = job[c]]
  BY DEF Inv, SaidInv, CheckTypeOK
<1>2. pc' = [pc EXCEPT ![c] = p]
  BY DEF Goto
<1> QED
  BY <1>1, <1>2, OnTheWay DEF Place, UnderWay

\* From the page down to the leaflet, a check is told no last word, or ends by it.
LEMMA LadderKept ==
  ASSUME Inv, NEW c \in Check,
         \/ PageWalled(c) \/ PageRefused(c) \/ PageFails(c) \/ PageServed(c)
         \/ ApiWalled(c) \/ ApiGone(c) \/ ApiAnswers(c) \/ ApiMisses(c)
         \/ StateGone(c) \/ (\E offer \in BOOLEAN : StateAnswers(c, offer))
         \/ JsonLdAnswers(c) \/ NothingReads(c) \/ Escapes(c)
  PROVE  [Promise!Next]_Promise!vars
<1>1. pc[c] \in UnderWay /\ UNCHANGED attempts
  BY DEF UnderWay, Alone, logVars,
         PageWalled, PageRefused, PageFails, PageServed, ApiWalled, ApiGone, ApiAnswers,
         ApiMisses, StateGone, StateAnswers, JsonLdAnswers, NothingReads, Escapes
<1>2. CASE PageWalled(c) \/ ApiWalled(c)
  BY <1>1, <1>2, WalledKept DEF PageWalled, ApiWalled
<1>3. CASE ApiGone(c) \/ StateGone(c)
  BY <1>1, <1>3, GoneKept DEF ApiGone, StateGone
<1>4. CASE PageServed(c) \/ ApiMisses(c)
  <2>1. PICK p \in UnderWay : Goto(c, p) /\ UNCHANGED job
    BY <1>4 DEF PageServed, ApiMisses, UnderWay
  <2> QED
    BY <1>1, <2>1, MovesKept
<1>5. CASE PageFails(c)
  BY <1>1, <1>5, FailsKept
<1>6. CASE PageRefused(c) \/ NothingReads(c) \/ Escapes(c)
  BY <1>1, <1>6, EndsKept DEF PageRefused, NothingReads, Escapes
<1>7. CASE ApiAnswers(c) \/ JsonLdAnswers(c)
  BY <1>1, <1>7, FindsKept DEF ApiAnswers, JsonLdAnswers, Tier
<1>8. ASSUME NEW offer \in BOOLEAN, StateAnswers(c, offer) PROVE UNCHANGED Promise!vars
  <2>1. PICK p \in {"log", "leaflet"} : Finds(c, "page", p)
    BY <1>8 DEF StateAnswers
  <2> QED
    BY <1>1, <2>1, FindsKept DEF Tier
<1> QED
  BY <1>2, <1>3, <1>4, <1>5, <1>6, <1>7, <1>8

\* What a check notes of a leaflet is no word of the store's.
LEMMA NotedKept ==
  ASSUME Inv, NEW c \in Check, pc[c] \in {"leaflet", "reading"},
         NEW leaflet, Noted(c, leaflet)
  PROVE  UNCHANGED Promise!vars
<1> DEFINE f == IF leaflet.kind # "read" THEN "unknown"
                ELSE IF LinkOf(c) \in leaflet.offers THEN "in" ELSE "out"
           j == [job[c] EXCEPT !.flag = f]
<1>1. job \in [Check -> Job] /\ job[c] \in Job /\ f \in {"unknown", "in", "out"}
  BY DEF Inv, SaidInv, CheckTypeOK
<1>2. /\ pc' = [pc EXCEPT ![c] = "log"] /\ job' = [job EXCEPT ![c].flag = f]
      /\ UNCHANGED attempts
  BY DEF Noted, Goto, logVars
<1> HIDE DEF f
<1>3. job' = [job EXCEPT ![c] = j]
  BY <1>1, <1>2
<1>4. j \in Job /\ j.link = job[c].link /\ j.wall = job[c].wall /\ j.gone = job[c].gone
  BY <1>1, JobNoted
<1> HIDE DEF j
<1> QED
  BY <1>2, <1>3, <1>4, OnTheWay DEF Place

\* Nothing else of the leaflet is.
LEMMA LeafletKept ==
  ASSUME Inv, NEW c \in Check,
         LeafletKnown(c) \/ LeafletAsked(c) \/ LeafletRead(c) \/ LeafletFails(c)
  PROVE  UNCHANGED Promise!vars
<1>1. CASE LeafletKnown(c) \/ LeafletRead(c) \/ LeafletFails(c)
  BY <1>1, NotedKept DEF LeafletKnown, LeafletRead, LeafletFails
<1>2. CASE LeafletAsked(c)
  <2> DEFINE j == [job[c] EXCEPT !.since = today]
  <2>1. job \in [Check -> Job] /\ job[c] \in Job /\ today \in Day
    BY DEF Inv, SaidInv, CheckTypeOK
  <2>2. /\ pc[c] = "leaflet" /\ UNCHANGED attempts
        /\ pc' = [pc EXCEPT ![c] = "reading"] /\ job' = [job EXCEPT ![c] = j]
    BY <1>2, <2>1 DEF LeafletAsked, Goto, logVars
  <2>3. j \in Job /\ j.link = job[c].link /\ j.wall = job[c].wall /\ j.gone = job[c].gone
    BY <2>1 DEF Job
  <2> HIDE DEF j
  <2> QED
    BY <2>2, <2>3, OnTheWay DEF Place
<1> QED
  BY <1>1, <1>2

\* A check begins as one.
LEMMA BeginKept ==
  ASSUME Inv, NEW c \in Check, NEW l \in Link, Begin(c, l)
  PROVE  Promise!Next
<1> DEFINE j == [NoJob EXCEPT !.link = l, !.since = today]
<1>1. j \in Job /\ j.link = l /\ j.wall = FALSE /\ j.gone = FALSE
  <2>1. today \in Day /\ NoJob \in Job
    BY NoJobType DEF Inv, SaidInv, CheckTypeOK
  <2> QED
    BY <2>1 DEF NoJob, Job
<1>2. /\ job' = [job EXCEPT ![c] = j] /\ pc' = [pc EXCEPT ![c] = "page"] /\ pc[c] = "idle"
      /\ UNCHANGED attempts
  BY DEF Begin, Goto, logVars
<1> HIDE DEF j
<1>3. /\ On[c] = About(pc[c], job[c]) /\ Word[c] = WordTo(pc[c], job[c])
      /\ Shows(c, About("page", j), WordTo("page", j))
  BY <1>1, <1>2, Pictured DEF Place
<1>4. About("page", j) = {l} /\ WordTo("page", j) = Word[c] /\ On[c] = {}
  BY <1>1, <1>2, <1>3 DEF About, WordTo
<1>5. Word' = Word
  <2>1. Word' = [Word EXCEPT ![c] = Word[c]]
    BY <1>3, <1>4 DEF Shows
  <2> QED
    BY <2>1 DEF Word
<1>6. Promise!Starts(c, l)
  BY <1>2, <1>3, <1>4, <1>5 DEF Promise!Starts, Shows
<1> QED
  BY <1>6 DEF Promise!Next

\* Its row, or the loss of it, or its cancellation, is its end.
LEMMA EndKept ==
  ASSUME Inv, NEW c \in Check, Log(c) \/ Cancelled(c)
  PROVE  Promise!Next
<1>1. job[c] \in Job /\ pc[c] # "idle" /\ SaidAt(pc[c], job[c])
  BY DEF Inv, SaidInv, CheckTypeOK, Log, Cancelled
<1>2. job' = [job EXCEPT ![c] = NoJob] /\ pc' = [pc EXCEPT ![c] = "idle"]
  BY DEF Log, Cancelled, Goto
<1>3. /\ On[c] = About(pc[c], job[c]) /\ Word[c] = WordTo(pc[c], job[c])
      /\ Shows(c, About("idle", NoJob), WordTo("idle", NoJob))
  BY <1>2, NoJobType, Pictured DEF Place
<1>4. /\ On[c] = {job[c].link} /\ On' = [On EXCEPT ![c] = {}]
      /\ Word' = [Word EXCEPT ![c] = "none"]
  BY <1>1, <1>3 DEF About, WordTo, Shows
<1>5. Promise!Recorded(c) \/ UNCHANGED attempts
  <2>1. CASE Cancelled(c)
    BY <2>1 DEF Cancelled, logVars
  <2>2. CASE Log(c) /\ ~UNCHANGED attempts
    <3>1. /\ pc[c] = "log"
          /\ attempts' = [attempts EXCEPT ![job[c].link] = <<job[c].outcome>> \o @]
      BY <2>2 DEF Log, LinkOf
    <3>2. /\ job[c].outcome \in Outcome
          /\ job[c].wall = TRUE <=> job[c].outcome = "blocked"
          /\ job[c].gone = TRUE => job[c].outcome = "no_price"
      BY <1>1, <3>1 DEF SaidAt
    <3>3. job[c].wall \in BOOLEAN /\ job[c].gone \in BOOLEAN
      BY <1>1 DEF Job
    <3>4. Promise!Heeds(job[c].outcome, Word[c])
      BY <1>3, <3>1, <3>2, <3>3 DEF Promise!Heeds, WordTo
    <3>5. job[c].outcome \in Promise!Outcome
      BY <3>2 DEF Outcome, Promise!Outcome
    <3> QED
      BY <1>4, <3>1, <3>4, <3>5 DEF Promise!Recorded
  <2> QED
    BY <2>1, <2>2
<1>6. Promise!Ends(c)
  BY <1>4, <1>5 DEF Promise!Ends
<1> QED
  BY <1>6 DEF Promise!Next

\* Nothing that moves no check and writes no row is seen.
LEMMA TimeKept ==
  ASSUME UNCHANGED <<pc, job, attempts>>
  PROVE  UNCHANGED Promise!vars
<1>1. UNCHANGED <<On, Word>>
  BY DEF On, Word, Busy, LinkOf
<1> QED
  BY <1>1 DEF Promise!vars

\* Every step of a check is one of OneCheck's, or none.
LEMMA NextKept == Inv /\ [CheckNext]_checkVars => [Promise!Next]_Promise!vars
<1> SUFFICES ASSUME Inv, [CheckNext]_checkVars PROVE [Promise!Next]_Promise!vars
  OBVIOUS
<1>1. ASSUME NEW c \in Check, CheckStep(c) PROVE [Promise!Next]_Promise!vars
  <2>1. CASE \E l \in Link : Begin(c, l)
    BY <2>1, BeginKept
  <2>2. CASE Log(c) \/ Cancelled(c)
    BY <2>2, EndKept
  <2>3. CASE LeafletKnown(c) \/ LeafletAsked(c) \/ LeafletRead(c) \/ LeafletFails(c)
    BY <2>3, LeafletKept
  <2>4. CASE \/ PageWalled(c) \/ PageRefused(c) \/ PageFails(c) \/ PageServed(c)
             \/ ApiWalled(c) \/ ApiGone(c) \/ ApiAnswers(c) \/ ApiMisses(c)
             \/ StateGone(c) \/ (\E offer \in BOOLEAN : StateAnswers(c, offer))
             \/ JsonLdAnswers(c) \/ NothingReads(c) \/ Escapes(c)
    BY <2>4, LadderKept
  <2> QED
    BY <1>1, <2>1, <2>2, <2>3, <2>4 DEF CheckStep
<1>2. CASE Midnight \/ FailureForgotten \/ LeafletCoolsDown
  <2>1. UNCHANGED <<pc, job, attempts>>
    BY <1>2 DEF Midnight, FailureForgotten, LeafletCoolsDown, logVars
  <2> QED
    BY <2>1, TimeKept
<1>3. CASE UNCHANGED checkVars
  <2>1. UNCHANGED <<pc, job, attempts>>
    BY <1>3 DEF checkVars, logVars
  <2> QED
    BY <2>1, TimeKept
<1> QED
  BY <1>1, <1>2, <1>3 DEF CheckNext

\* For any checks side by side, any retries, tiers and leaflets, rows lost and
\* requests cancelled: each check is one thing with one end, heeding the store's
\* last word.
THEOREM ChecksAreOneThing == CheckSpec => ChecksAreWhole
<1>1. CheckInit => Promise!Init
  BY DEF CheckInit, Promise!Init, On, Word, Busy
<1> QED
  BY <1>1, AlwaysInv, NextKept, PTL DEF CheckSpec, ChecksAreWhole, Promise!Spec

-----------------------------------------------------------------------------
\* Numbers have a smallest one among them.
LEMMA SmallestOf ==
  ASSUME NEW S, S \subseteq Nat, S # {}
  PROVE  \E m \in S : \A n \in S : m <= n
<1>1. PICK m \in S : \A n \in S : ~(<<n, m>> \in OpToRel(<, Nat))
  BY NatLessThanWellFounded, WFMin
<1>2. \A n \in S : ~(n < m)
  BY <1>1 DEF OpToRel
<1> QED
  BY <1>2

\* A set of numbers that has an upper bound has a greatest one.
LEMMA GreatestOf ==
  ASSUME NEW n \in Nat, NEW S, S \subseteq 1..n, S # {}
  PROVE  \E m \in S : \A i \in S : i <= m
<1> DEFINE bounds == {c \in Nat : \A i \in S : i <= c}
<1>1. n \in bounds /\ bounds \subseteq Nat
  OBVIOUS
<1>2. PICK b \in bounds : \A c \in bounds : b <= c
  <2> HIDE DEF bounds
  <2> QED
    BY <1>1, SmallestOf
<1>4. b \in S
  <2>1. SUFFICES ASSUME b \notin S PROVE FALSE
    OBVIOUS
  <2>2. PICK i \in S : i \in Nat /\ 1 <= i /\ i <= b
    <3>1. PICK i \in S : TRUE
      OBVIOUS
    <3>2. i <= b /\ b \in Nat
      BY <1>2
    <3> QED
      BY <3>1, <3>2
  <2>3. b - 1 \in bounds
    BY <1>2, <2>1, <2>2
  <2> QED
    BY <1>2, <2>3
<1> QED
  BY <1>2, <1>4

-----------------------------------------------------------------------------
\* The rows among the newest k of a log that no wall cut off.
Answered(a, k) == {i \in 1..k : Counts(a[i])}

LEMMA AnsweredIsFinite ==
  ASSUME NEW a, NEW k \in Nat
  PROVE  IsFiniteSet(Answered(a, k)) /\ Cardinality(Answered(a, k)) \in Nat
<1>1. IsFiniteSet(1..k) /\ Answered(a, k) \subseteq 1..k
  BY FS_Interval DEF Answered
<1> QED
  BY <1>1, FS_Subset, FS_CardinalityType

\* A row on top of a log is at most one more.
LEMMA OneRowMore ==
  ASSUME NEW a \in Seq(Outcome), NEW o \in Outcome, NEW k \in 0..Len(a)
  PROVE  Cardinality(Answered(<<o>> \o a, k + 1)) <=
           Cardinality(Answered(a, k)) + (IF Counts(o) THEN 1 ELSE 0)
<1> DEFINE b == <<o>> \o a
           S == Answered(b, k + 1)
           T == Answered(a, k)
           R == S \ {1}
           f == [i \in R |-> i - 1]
<1>1. b[1] = o /\ \A i \in 1..k : b[i + 1] = a[i]
  OBVIOUS
<1>2. \A i \in R : i - 1 \in T
  <2> SUFFICES ASSUME NEW i \in R PROVE i - 1 \in T
    OBVIOUS
  <2>1. i \in Int /\ 2 <= i /\ i <= k + 1 /\ Counts(b[i])
    BY DEF Answered
  <2>2. i - 1 \in 1..k /\ b[(i - 1) + 1] = a[i - 1] /\ (i - 1) + 1 = i
    BY <1>1, <2>1
  <2> QED
    BY <2>1, <2>2 DEF Answered
<1>3. R \subseteq Int
  BY DEF Answered
<1> HIDE DEF b, S, T, R
<1>4. f \in Injection(R, T)
  BY <1>2, <1>3 DEF Injection, IsInjective
<1>5. IsFiniteSet(T) /\ Cardinality(T) \in Nat /\ IsFiniteSet(S) /\ Cardinality(S) \in Nat
  BY AnsweredIsFinite DEF S, T
<1>6. IsFiniteSet(R) /\ Cardinality(R) <= Cardinality(T) /\ Cardinality(R) \in Nat
  <2> HIDE DEF f
  <2> QED
    BY <1>4, <1>5, FS_Injection, FS_CardinalityType
<1>7. CASE Counts(o)
  <2>1. 1 \in S
    BY <1>1, <1>7 DEF S, Answered
  <2>2. Cardinality(R \cup {1}) = Cardinality(R) + 1
    BY <1>6, FS_AddElement DEF R
  <2>3. R \cup {1} = S
    BY <2>1 DEF R
  <2>4. Cardinality(S) = Cardinality(R) + 1
    BY <2>2, <2>3
  <2>5. Cardinality(S) <= Cardinality(T) + 1
    BY <1>5, <1>6, <2>4
  <2> QED
    BY <1>7, <2>5 DEF S, T, b
<1>8. CASE ~Counts(o)
  <2>1. 1 \notin S
    BY <1>1, <1>8 DEF S, Answered, Counts
  <2>2. R = S
    BY <2>1 DEF R
  <2> QED
    BY <1>5, <1>6, <1>8, <2>2 DEF S, T, b
<1> QED
  BY <1>7, <1>8

-----------------------------------------------------------------------------
\* Rows since the last price that the log knows of are checks that came to
\* nothing, unless it has lost that price.
RowsRefused(l) ==
  \A k \in 0..Len(attempts[l]) :
    (\A i \in 1..k : attempts[l][i] # "ok") =>
      Cardinality(Answered(attempts[l], k)) <= refused[l]

RefusedInv == \A l \in Link : okLost[l] \/ RowsRefused(l)

\* Only a row that is written, or lost, changes what the log and history say.
LEMMA RefusedStands ==
  ASSUME RefusedInv, UNCHANGED logVars PROVE RefusedInv'
BY DEF RefusedInv, RowsRefused, logVars

LEMMA RowsOfAnOutcome ==
  ASSUME NEW a \in Seq(Outcome), NEW o \in Outcome \ {"ok"}, NEW n \in Nat, NEW m \in Nat,
         IF Counts(o) THEN m = n + 1 ELSE m >= n,
         \A k \in 0..Len(a) : (\A i \in 1..k : a[i] # "ok") => Cardinality(Answered(a, k)) <= n,
         NEW k \in 0..Len(<<o>> \o a), \A i \in 1..k : (<<o>> \o a)[i] # "ok"
  PROVE  Cardinality(Answered(<<o>> \o a, k)) <= m
<1> DEFINE b == <<o>> \o a
<1>1. Len(b) = Len(a) + 1 /\ \A i \in 1..Len(a) : b[i + 1] = a[i]
  OBVIOUS
<1>2. CASE k = 0
  <2>1. Answered(b, k) = {}
    BY <1>2 DEF Answered
  <2>2. Cardinality(Answered(b, k)) = 0
    BY <2>1, FS_EmptySet
  <2> HIDE DEF b
  <2> QED
    BY <2>2 DEF b
<1>3. CASE k > 0
  <2>1. k - 1 \in 0..Len(a) /\ (k - 1) + 1 = k
    BY <1>1, <1>3
  <2>2. \A i \in 1..(k - 1) : a[i] # "ok"
    <3> SUFFICES ASSUME NEW i \in 1..(k - 1) PROVE a[i] # "ok"
      OBVIOUS
    <3>1. i + 1 \in 1..k /\ b[i + 1] = a[i]
      BY <1>1, <2>1
    <3> QED
      BY <3>1
  <2>3. Cardinality(Answered(a, k - 1)) <= n
    BY <2>1, <2>2
  <2>4. Cardinality(Answered(b, k)) <= Cardinality(Answered(a, k - 1)) + (IF Counts(o) THEN 1 ELSE 0)
    <3>1. Cardinality(Answered(b, (k - 1) + 1)) <=
            Cardinality(Answered(a, k - 1)) + (IF Counts(o) THEN 1 ELSE 0)
      BY <2>1, OneRowMore
    <3> QED
      BY <2>1, <3>1
  <2>5. Cardinality(Answered(a, k - 1)) \in Nat /\ Cardinality(Answered(b, k)) \in Nat
    BY <2>1, AnsweredIsFinite
  <2> HIDE DEF b
  <2>6. CASE Counts(o)
    <3>1. Cardinality(Answered(b, k)) <= Cardinality(Answered(a, k - 1)) + 1
      BY <2>4, <2>6
    <3>2. m = n + 1
      BY <2>6
    <3> QED
      BY <2>3, <2>5, <3>1, <3>2 DEF b
  <2>7. CASE ~Counts(o)
    <3>1. Cardinality(Answered(b, k)) <= Cardinality(Answered(a, k - 1)) + 0
      BY <2>4, <2>7
    <3>2. m >= n
      BY <2>7
    <3> QED
      BY <2>3, <2>5, <3>1, <3>2 DEF b
  <2> QED
    BY <2>6, <2>7
<1> QED
  BY <1>1, <1>2, <1>3

LEMMA LogKeepsRefused ==
  ASSUME Inv, RefusedInv, NEW c \in Check, Log(c) PROVE RefusedInv'
<1>1. PICK l \in Link, o \in Outcome :
        /\ l = job[c].link /\ o = job[c].outcome
        /\ job[c].wall = TRUE <=> o = "blocked"
        /\ job[c].wall \in BOOLEAN
        /\ attempts \in [Link -> Seq(Outcome)] /\ refused \in [Link -> Nat]
        /\ okLost \in [Link -> BOOLEAN]
  BY DEF Log, Inv, SaidInv, SaidAt, CheckTypeOK, Job
<1>2. refused' = [refused EXCEPT ![l] = IF job[c].wall THEN @ ELSE IF o = "ok" THEN 0 ELSE @ + 1]
  BY <1>1 DEF Log, LinkOf
<1>3. \/ /\ attempts' = [attempts EXCEPT ![l] = <<o>> \o @]
         /\ okLost' = [okLost EXCEPT ![l] = @ /\ o # "ok"]
      \/ /\ okLost' = [okLost EXCEPT ![l] = @ \/ o = "ok"]
         /\ attempts' = attempts
  BY <1>1 DEF Log, LinkOf
<1>4. ASSUME NEW m \in Link, m # l PROVE okLost'[m] \/ RowsRefused(m)'
  <2>1. attempts'[m] = attempts[m] /\ refused'[m] = refused[m] /\ okLost'[m] = okLost[m]
    BY <1>1, <1>2, <1>3, <1>4
  <2> QED
    BY <2>1 DEF RefusedInv, RowsRefused
<1>5. \/ attempts'[l] = <<o>> \o attempts[l] /\ okLost'[l] = (okLost[l] /\ o # "ok")
      \/ attempts'[l] = attempts[l] /\ okLost'[l] = (okLost[l] \/ o = "ok")
  BY <1>1, <1>3
<1>6. okLost[l] \/ RowsRefused(l)
  BY DEF RefusedInv
<1>7. CASE o = "ok"
  <2>1. refused'[l] = 0
    BY <1>1, <1>2, <1>7
  <2>2. CASE okLost'[l] = (okLost[l] \/ o = "ok")
    BY <1>7, <2>2, <1>4 DEF RefusedInv
  <2>3. CASE attempts'[l] = <<o>> \o attempts[l]
    <3>1. attempts'[l][1] = "ok"
      BY <1>1, <1>7, <2>3
    <3>2. Answered(attempts'[l], 0) = {}
      BY DEF Answered
    <3>3. Cardinality(Answered(attempts'[l], 0)) = 0
      BY <3>2, FS_EmptySet
    <3>4. ASSUME NEW k \in 0..Len(attempts'[l]), \A i \in 1..k : attempts'[l][i] # "ok"
          PROVE  Cardinality(Answered(attempts'[l], k)) <= refused'[l]
      <4>1. k = 0
        BY <3>1, <3>4
      <4> QED
        BY <2>1, <3>3, <4>1
    <3>5. RowsRefused(l)'
      BY <3>4 DEF RowsRefused
    <3> QED
      BY <1>4, <3>5 DEF RefusedInv
  <2> QED
    BY <1>5, <2>2, <2>3
<1>8. CASE o # "ok"
  <2>1. CASE okLost[l]
    BY <1>4, <1>5, <1>8, <2>1 DEF RefusedInv
  <2>2. CASE RowsRefused(l)
    <3>1. refused'[l] = IF Counts(o) THEN refused[l] + 1 ELSE refused[l]
      BY <1>1, <1>2, <1>8 DEF Counts
    <3>2. refused'[l] \in Nat /\ refused[l] \in Nat /\ refused'[l] >= refused[l]
      BY <1>1, <3>1
    <3>3. CASE attempts'[l] = attempts[l]
      <4>1. ASSUME NEW k \in 0..Len(attempts[l]), \A i \in 1..k : attempts[l][i] # "ok"
            PROVE  Cardinality(Answered(attempts[l], k)) <= refused'[l]
        <5>1. Cardinality(Answered(attempts[l], k)) <= refused[l]
          BY <2>2, <4>1 DEF RowsRefused
        <5>2. Cardinality(Answered(attempts[l], k)) \in Nat
          BY AnsweredIsFinite
        <5> QED
          BY <3>2, <5>1, <5>2
      <4>2. RowsRefused(l)'
        BY <3>3, <4>1 DEF RowsRefused
      <4> QED
        BY <1>4, <4>2 DEF RefusedInv
    <3>4. CASE attempts'[l] = <<o>> \o attempts[l]
      <4>1. attempts[l] \in Seq(Outcome) /\ o \in Outcome \ {"ok"}
        BY <1>1, <1>8
      <4>2. IF Counts(o) THEN refused'[l] = refused[l] + 1 ELSE refused'[l] >= refused[l]
        BY <3>1, <3>2
      <4>3. \A k \in 0..Len(attempts[l]) : (\A i \in 1..k : attempts[l][i] # "ok") =>
              Cardinality(Answered(attempts[l], k)) <= refused[l]
        BY <2>2 DEF RowsRefused
      <4>4. ASSUME NEW k \in 0..Len(<<o>> \o attempts[l]),
                   \A i \in 1..k : (<<o>> \o attempts[l])[i] # "ok"
            PROVE  Cardinality(Answered(<<o>> \o attempts[l], k)) <= refused'[l]
        BY <3>2, <4>1, <4>2, <4>3, <4>4, RowsOfAnOutcome
      <4>5. RowsRefused(l)'
        BY <3>4, <4>4 DEF RowsRefused
      <4> QED
        BY <1>4, <4>5 DEF RefusedInv
    <3> QED
      BY <1>5, <3>3, <3>4
  <2> QED
    BY <1>6, <2>1, <2>2
<1> QED
  BY <1>7, <1>8

LEMMA RefusedStep == ASSUME Inv, RefusedInv, [CheckNext]_checkVars PROVE RefusedInv'
<1>1. ASSUME NEW c \in Check, Log(c) PROVE RefusedInv'
  BY <1>1, LogKeepsRefused
<1>2. ASSUME NEW c \in Check, CheckStep(c), ~Log(c) PROVE UNCHANGED logVars
  BY <1>2 DEF CheckStep, Begin, PageWalled, PageRefused, PageFails, PageServed, ApiWalled,
    ApiGone, ApiAnswers, ApiMisses, StateGone, StateAnswers, JsonLdAnswers, NothingReads,
    Escapes, LeafletKnown, LeafletAsked, LeafletRead, LeafletFails, Noted, Cancelled, Alone
<1>3. ASSUME Midnight \/ FailureForgotten \/ LeafletCoolsDown \/ UNCHANGED checkVars
      PROVE  UNCHANGED logVars
  BY <1>3 DEF Midnight, FailureForgotten, LeafletCoolsDown, checkVars
<1> QED
  BY <1>1, <1>2, <1>3, RefusedStands DEF CheckNext

\* The newest failures that make a link look broken are all there are up to the
\* last of them, but for walls: as many checks have come to nothing.
LEMMA BrokenIsPaidFor ==
  ASSUME CheckTypeOK, NEW l \in Link, Broken(l), RowsRefused(l)
  PROVE  refused[l] >= BrokenAfter
<1> DEFINE a == attempts[l]
           n == Len(a)
           rank(i) == {j \in Answered(a, n) : j <= i}
           recent == Recent(l)
<1>1. n \in Nat /\ refused[l] \in Nat /\ BrokenAfter \in Nat /\ BrokenAfter >= 1
  BY PriceCheckAssumption DEF CheckTypeOK
<1>2. recent = {i \in Answered(a, n) : Cardinality(rank(i)) <= BrokenAfter}
  BY DEF Recent, Answered
<1>3. /\ Answered(a, n) \subseteq 1..n /\ IsFiniteSet(Answered(a, n))
      /\ recent \subseteq Answered(a, n)
  BY <1>1, <1>2, AnsweredIsFinite DEF Answered
<1>4. Cardinality(recent) \in Nat /\ Cardinality(recent) >= BrokenAfter
  BY <1>3, FS_Subset, FS_CardinalityType DEF Broken
<1>5. recent # {}
  <2>1. Cardinality(recent) # 0
    BY <1>1, <1>4
  <2> HIDE DEF recent
  <2> QED
    BY <2>1, FS_EmptySet
<1> HIDE DEF a, n, rank, recent
<1>6. PICK k \in recent : \A i \in recent : i <= k
  BY <1>1, <1>3, <1>5, GreatestOf
<1>7. k \in 1..n
  BY <1>3
<1>8. \A i \in Answered(a, n) : i <= k => i \in recent
  <2> SUFFICES ASSUME NEW i \in Answered(a, n), i <= k PROVE Cardinality(rank(i)) <= BrokenAfter
    BY <1>2
  <2>1. rank(i) \subseteq rank(k) /\ rank(k) \subseteq Answered(a, n)
    BY <1>3, <1>7 DEF rank
  <2>2. IsFiniteSet(rank(k)) /\ Cardinality(rank(i)) <= Cardinality(rank(k))
    BY <1>3, <2>1, FS_Subset
  <2>3. IsFiniteSet(rank(i)) /\ Cardinality(rank(i)) \in Nat /\ Cardinality(rank(k)) \in Nat
    BY <2>1, <2>2, FS_Subset, FS_CardinalityType
  <2>4. Cardinality(rank(k)) <= BrokenAfter
    BY <1>2
  <2> QED
    BY <1>1, <2>2, <2>3, <2>4
<1>9. recent = Answered(a, k)
  <2>1. \A i \in Answered(a, k) : i \in Answered(a, n) /\ i <= k
    BY <1>1, <1>7 DEF Answered
  <2>2. \A i \in recent : i \in Answered(a, n) /\ i \in 1..n /\ i <= k
    BY <1>3, <1>6
  <2>3. \A i \in Answered(a, n) : i <= k => i \in Answered(a, k)
    BY <1>1, <1>7 DEF Answered
  <2> QED
    BY <1>8, <2>1, <2>2, <2>3
<1>10. \A i \in 1..k : a[i] # "ok"
  <2> SUFFICES ASSUME NEW i \in 1..k, a[i] = "ok" PROVE FALSE
    OBVIOUS
  <2>1. i \in recent
    BY <1>9 DEF Answered, Counts
  <2> QED
    BY <2>1 DEF Broken, a, recent
<1>11. Cardinality(recent) <= refused[l]
  BY <1>1, <1>7, <1>9, <1>10 DEF RowsRefused, a, n
<1> QED
  BY <1>1, <1>4, <1>11

\* A link looks broken only for checks of its own that came to nothing, as many
\* as it takes, whatever walls and lost rows stand between them.
THEOREM BrokenLinksWereRefused == CheckSpec => []BrokenMeansRefused
<1>1. CheckInit => RefusedInv
  <2> SUFFICES ASSUME CheckInit, NEW l \in Link PROVE RowsRefused(l)
    BY DEF RefusedInv
  <2>1. attempts[l] = <<>> /\ refused[l] = 0
    BY DEF CheckInit
  <2>2. Answered(attempts[l], 0) = {}
    BY DEF Answered
  <2>3. Cardinality(Answered(attempts[l], 0)) = 0
    BY <2>2, FS_EmptySet
  <2>4. \A k \in 0..Len(attempts[l]) : k = 0
    BY <2>1
  <2> QED
    BY <2>1, <2>3, <2>4 DEF RowsRefused
<1>2. Inv /\ RefusedInv /\ [CheckNext]_checkVars => RefusedInv'
  BY RefusedStep
<1>3. Inv /\ RefusedInv => BrokenMeansRefused
  BY BrokenIsPaidFor DEF Inv, SaidInv, RefusedInv, BrokenMeansRefused
<1> QED
  BY <1>1, <1>2, <1>3, AlwaysInv, PTL DEF CheckSpec

-----------------------------------------------------------------------------
(* The breaker. *)

\* The strike a block adds stays on the ladder, and never steps down it.
LEMMA NextStrikeClimbs ==
  ASSUME NEW n \in 0..MaxStrikes
  PROVE  /\ NextStrike(n) \in 1..MaxStrikes
         /\ n <= NextStrike(n)
  BY StoreBlockAssumption DEF NextStrike

\* The cooldowns along the ladder: positive, and never shorter further up.
LEMMA CooldownClimbs ==
  ASSUME NEW m \in 1..MaxStrikes, NEW n \in 1..MaxStrikes, m <= n
  PROVE  /\ Cooldown(m) \in Nat \ {0}
         /\ Cooldown(n) \in Nat \ {0}
         /\ Cooldown(m) <= Cooldown(n)
  BY StoreBlockAssumption

\* A step of the breaker keeps the types.
LEMMA TypeStep ==
  ASSUME TypeOK, [Next]_vars
  PROVE  TypeOK'
<1> USE DEF TypeOK
<1>1. CASE Ask
  BY <1>1 DEF Ask, BlockedUntil
<1>2. CASE Block
  <2> SUFFICES ASSUME NEW k \in Store, RecordBlock(k), UNCHANGED now
               PROVE  TypeOK'
    BY <1>2 DEF Block
  <2>1. NextStrike(strikes[k]) \in 1..MaxStrikes
    BY NextStrikeClimbs
  <2>2. now + Cooldown(NextStrike(strikes[k])) \in Nat
    BY <2>1, CooldownClimbs, StoreBlockAssumption
  <2> QED
    BY <2>1, <2>2, StoreBlockAssumption DEF RecordBlock
<1>3. CASE Answer
  BY <1>3, StoreBlockAssumption DEF Answer, RecordSuccess
<1>4. CASE Status
  BY <1>4 DEF Status, Snapshot
<1>5. CASE Tick
  BY <1>5, StoreBlockAssumption DEF Tick
<1>6. CASE UNCHANGED vars
  BY <1>6 DEF vars
<1> QED
  BY <1>1, <1>2, <1>3, <1>4, <1>5, <1>6 DEF Next

\* The breaker's two dictionaries and the clock keep their types.
THEOREM TypeCorrect == Spec => []TypeOK
<1>1. Init => TypeOK
  BY StoreBlockAssumption DEF Init, TypeOK
<1>2. TypeOK /\ [Next]_vars => TypeOK'
  BY TypeStep
<1> QED
  BY <1>1, <1>2, PTL DEF Spec

-----------------------------------------------------------------------------
\* A step keeps every standing cooldown within what its strikes have earned.
LEMMA CooldownEarnedStep ==
  ASSUME TypeOK, CooldownEarned, [Next]_vars
  PROVE  CooldownEarned'
<1> USE DEF TypeOK
<1>1. CASE Ask
  BY <1>1 DEF Ask, BlockedUntil, CooldownEarned, NoCooldown
<1>2. CASE Block
  <2> SUFFICES ASSUME NEW k \in Store, RecordBlock(k), UNCHANGED now
               PROVE  CooldownEarned'
    BY <1>2 DEF Block
  <2>1. strikes'[k] = NextStrike(strikes[k]) /\ strikes'[k] \in 1..MaxStrikes
    BY NextStrikeClimbs DEF RecordBlock
  <2>2. until'[k] = now' + Cooldown(strikes'[k])
    BY <2>1 DEF RecordBlock
  <2>3. Cooldown(strikes'[k]) \in Nat
    BY <2>1, CooldownClimbs
  <2>4. \A j \in Store \ {k} : until'[j] = until[j] /\ strikes'[j] = strikes[j]
    BY DEF RecordBlock
  <2> QED
    BY <2>1, <2>2, <2>3, <2>4 DEF CooldownEarned
<1>3. CASE Answer
  BY <1>3 DEF Answer, RecordSuccess, CooldownEarned, NoCooldown
<1>4. CASE Status
  BY <1>4 DEF Status, Snapshot, CooldownEarned, NoCooldown
<1>5. CASE Tick
  <2> SUFFICES ASSUME NEW k \in Store, until[k] # NoCooldown
               PROVE  strikes[k] >= 1 /\ until[k] <= now + 1 + Cooldown(strikes[k])
    BY <1>5 DEF Tick, CooldownEarned
  <2>1. strikes[k] >= 1 /\ until[k] <= now + Cooldown(strikes[k])
    BY DEF CooldownEarned
  <2>2. Cooldown(strikes[k]) \in Nat
    BY <2>1, CooldownClimbs
  <2> QED
    BY <2>1, <2>2 DEF NoCooldown
<1>6. CASE UNCHANGED vars
  BY <1>6 DEF vars, CooldownEarned
<1> QED
  BY <1>1, <1>2, <1>3, <1>4, <1>5, <1>6 DEF Next

\* No standing cooldown outlasts what the strikes behind it earn, and none
\* stands without a strike.
THEOREM CooldownIsEarned == Spec => []CooldownEarned
<1>1. Init => CooldownEarned
  BY DEF Init, CooldownEarned
<1>2. TypeOK /\ CooldownEarned /\ [Next]_vars => CooldownEarned'
  BY CooldownEarnedStep
<1> QED
  BY <1>1, <1>2, TypeCorrect, PTL DEF Spec

-----------------------------------------------------------------------------
\* A caller that runs into the wall behind an open breaker never lets the
\* store out earlier: the strikes only climb, so the new cooldown, counted from
\* now, ends no sooner than the one it replaces.
THEOREM BlocksNeverShorten == Spec => BlockNeverShortens
<1>1. ASSUME TypeOK, CooldownEarned, [Next]_vars,
             NEW k \in Store, Open(k), until'[k] # NoCooldown
      PROVE  until'[k] >= until[k]
  <2> USE <1>1 DEF TypeOK
  <2>1. CASE Ask
    BY <1>1, <2>1 DEF Ask, BlockedUntil
  <2>2. CASE Block
    <3> PICK j \in Store : RecordBlock(j) /\ UNCHANGED now
      BY <2>2 DEF Block
    <3>1. CASE j # k
      BY <1>1, <3>1 DEF RecordBlock
    <3>2. CASE j = k
      <4>1. strikes[k] \in 1..MaxStrikes /\ until[k] <= now + Cooldown(strikes[k])
        BY <1>1 DEF CooldownEarned, Open, NoCooldown
      <4>2. /\ NextStrike(strikes[k]) \in 1..MaxStrikes
            /\ strikes[k] <= NextStrike(strikes[k])
        BY NextStrikeClimbs
      <4>3. /\ Cooldown(strikes[k]) \in Nat
            /\ Cooldown(NextStrike(strikes[k])) \in Nat
            /\ Cooldown(strikes[k]) <= Cooldown(NextStrike(strikes[k]))
        BY <4>1, <4>2, CooldownClimbs
      <4>4. until'[k] = now + Cooldown(NextStrike(strikes[k]))
        BY <3>2 DEF RecordBlock
      <4> QED
        BY <4>1, <4>3, <4>4, StoreBlockAssumption DEF NoCooldown
    <3> QED
      BY <3>1, <3>2
  <2>3. CASE Answer
    BY <1>1, <2>3 DEF Answer, RecordSuccess
  <2>4. CASE Status
    BY <1>1, <2>4 DEF Status, Snapshot
  <2>5. CASE Tick
    BY <1>1, <2>5 DEF Tick
  <2>6. CASE UNCHANGED vars
    BY <1>1, <2>6 DEF vars
  <2> QED
    BY <1>1, <2>1, <2>2, <2>3, <2>4, <2>5, <2>6 DEF Next
<1>2. TypeOK /\ CooldownEarned /\ [Next]_vars
        => [\A k \in Store :
              (Open(k) /\ until'[k] # NoCooldown) => until'[k] >= until[k]]_vars
  BY <1>1
<1> QED
  BY <1>2, TypeCorrect, CooldownIsEarned, PTL DEF Spec, BlockNeverShortens

-----------------------------------------------------------------------------
\* What ties the breaker's two dictionaries to the answers: a cooldown that is
\* still kept is the one the last wall earned, and one that was dropped without
\* an answer is over.
Faithful(k) ==
  /\ walls[k] \in Nat /\ lastWall[k] \in Nat
  /\ strikes[k] = Saturated(walls[k])
  /\ walls[k] = 0 => until[k] = NoCooldown
  /\ (walls[k] > 0 /\ until[k] # NoCooldown) => until[k] = EarnedUntil(k)
  /\ (walls[k] > 0 /\ until[k] = NoCooldown) => EarnedUntil(k) <= now

HInv ==
  /\ TypeOK
  /\ walls \in [Store -> Nat] /\ lastWall \in [Store -> Nat]
  /\ \A k \in Store : Faithful(k)

\* One more wall is one more strike, up to the ceiling.
LEMMA SaturatedClimbs ==
  ASSUME NEW n \in Nat
  PROVE  /\ Saturated(n) \in 0..MaxStrikes
         /\ Saturated(n + 1) = NextStrike(Saturated(n))
  BY StoreBlockAssumption DEF Saturated, NextStrike

\* An action that touches nothing of store k but may drop its lapsed cooldown
\* or let time pass.
LEMMA LookingKeepsFaith ==
  ASSUME HInv, NEW k \in Store,
         walls'[k] = walls[k], lastWall'[k] = lastWall[k], strikes'[k] = strikes[k],
         now' \in Nat, now <= now',
         until'[k] = until[k] \/ (Lapsed(k) /\ until'[k] = NoCooldown)
  PROVE  Faithful(k)'
<1>1. Faithful(k)
  BY DEF HInv
<1>2. EarnedUntil(k)' = EarnedUntil(k)
  BY DEF EarnedUntil, Saturated
<1>3. walls[k] > 0 => EarnedUntil(k) \in Int
  BY <1>1, SaturatedClimbs, CooldownClimbs, StoreBlockAssumption
  DEF Faithful, EarnedUntil, Saturated
<1>4. now \in Nat /\ until[k] \in Nat \cup {NoCooldown}
  BY DEF HInv, TypeOK
<1> QED
  BY <1>1, <1>2, <1>3, <1>4 DEF Faithful, Lapsed, NoCooldown, Saturated

\* A wall at store k is recorded in all four places alike.
LEMMA WallKeepsFaith ==
  ASSUME HInv, NEW k \in Store, RecordBlock(k), UNCHANGED now,
         walls' = [walls EXCEPT ![k] = @ + 1], lastWall' = [lastWall EXCEPT ![k] = now]
  PROVE  \A j \in Store : Faithful(j)'
<1> SUFFICES ASSUME NEW j \in Store PROVE Faithful(j)'
  OBVIOUS
<1>1. Faithful(j)
  BY DEF HInv
<1>2. CASE j # k
  BY <1>1, <1>2 DEF HInv, TypeOK, RecordBlock, Faithful, EarnedUntil, Saturated
<1>3. CASE j = k
  <2>1. walls[k] \in Nat /\ walls'[k] = walls[k] + 1 /\ lastWall'[k] = now /\ now \in Nat
    BY <1>1, <1>3 DEF HInv, Faithful, TypeOK
  <2>2. strikes'[k] = Saturated(walls[k] + 1)
    BY <1>1, <1>3, SaturatedClimbs DEF HInv, TypeOK, RecordBlock, Faithful
  <2>3. until'[k] = now + Cooldown(Saturated(walls[k] + 1))
    BY <1>1, <1>3, SaturatedClimbs DEF HInv, TypeOK, RecordBlock, Faithful
  <2>4. until'[k] \in Nat
    <3>1. Saturated(walls[k] + 1) \in 1..MaxStrikes
      BY <2>1, StoreBlockAssumption DEF Saturated
    <3> QED
      BY <2>1, <2>3, <3>1, CooldownClimbs
  <2> QED
    BY <1>3, <2>1, <2>2, <2>3, <2>4 DEF Faithful, EarnedUntil, Saturated, NoCooldown
<1> QED
  BY <1>2, <1>3

\* What the breaker says of a store is what the store's answers say: nothing
\* but an answer forgives strikes or opens a cooled store.
THEOREM NothingButAnAnswerForgives == HSpec => []OnlyAnAnswerForgives
<1>1. HInit => HInv
  BY StoreBlockAssumption DEF HInit, Init, HInv, TypeOK, Faithful, Saturated
<1>2. HInv /\ [HNext]_<<vars, history>> => HInv'
  <2> SUFFICES ASSUME HInv, [HNext]_<<vars, history>> PROVE HInv'
    OBVIOUS
  <2>1. [Next]_vars
    BY DEF HNext, HBlock, HAnswer, Next, Block, Answer
  <2>2. TypeOK'
    BY <2>1, TypeStep DEF HInv
  <2>3. now \in Nat
    BY DEF HInv, TypeOK
  <2>4. CASE HBlock
    <3> PICK k \in Store : /\ RecordBlock(k) /\ UNCHANGED now
                           /\ walls' = [walls EXCEPT ![k] = @ + 1]
                           /\ lastWall' = [lastWall EXCEPT ![k] = now]
      BY <2>4 DEF HBlock
    <3>1. walls' \in [Store -> Nat] /\ lastWall' \in [Store -> Nat]
      BY <2>3 DEF HInv
    <3> QED
      BY <2>2, <3>1, WallKeepsFaith DEF HInv
  <2>5. CASE HAnswer
    <3> PICK k \in Store : /\ RecordSuccess(k) /\ UNCHANGED <<now, lastWall>>
                           /\ walls' = [walls EXCEPT ![k] = 0]
      BY <2>5 DEF HAnswer
    <3>1. walls' \in [Store -> Nat] /\ lastWall' \in [Store -> Nat]
      BY DEF HInv
    <3>2. \A j \in Store : Faithful(j)'
      BY StoreBlockAssumption
      DEF HInv, TypeOK, RecordSuccess, Faithful, EarnedUntil, Saturated
    <3> QED
      BY <2>2, <3>1, <3>2 DEF HInv
  <2>6. CASE (Ask \/ Status \/ Tick) /\ UNCHANGED history
    <3>1. UNCHANGED <<walls, lastWall, strikes>> /\ now <= now' /\ now' \in Nat
      BY <2>3, <2>6 DEF history, Ask, BlockedUntil, Status, Snapshot, Tick
    <3>2. \A k \in Store : until'[k] = until[k] \/ (Lapsed(k) /\ until'[k] = NoCooldown)
      BY <2>6 DEF HInv, TypeOK, Ask, BlockedUntil, Status, Snapshot, Tick
    <3>3. \A k \in Store : Faithful(k)'
      BY <3>1, <3>2, LookingKeepsFaith
    <3> QED
      BY <2>2, <3>1, <3>3 DEF HInv
  <2>7. CASE UNCHANGED <<vars, history>>
    BY <2>2, <2>7 DEF vars, history, HInv, Faithful, EarnedUntil, Saturated
  <2> QED
    BY <2>4, <2>5, <2>6, <2>7 DEF HNext
<1>3. HInv => OnlyAnAnswerForgives
  <2> SUFFICES ASSUME HInv, NEW k \in Store
               PROVE  /\ strikes[k] = Saturated(walls[k])
                      /\ Open(k) <=> (walls[k] > 0 /\ now < EarnedUntil(k))
                      /\ Open(k) => until[k] = EarnedUntil(k)
    BY DEF OnlyAnAnswerForgives
  <2>1. Faithful(k) /\ now \in Nat /\ until[k] \in Nat \cup {NoCooldown}
    BY DEF HInv, TypeOK
  <2>2. walls[k] > 0 => EarnedUntil(k) \in Int
    BY <2>1, SaturatedClimbs, CooldownClimbs, StoreBlockAssumption
    DEF Faithful, EarnedUntil, Saturated
  <2> QED
    BY <2>1, <2>2 DEF Faithful, Open, NoCooldown
<1> QED
  BY <1>1, <1>2, <1>3, PTL DEF HSpec
=============================================================================
