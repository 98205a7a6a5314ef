# Price tracker: a TLA+ model of the checking service

The price tracker is one Python service (FastAPI and asyncio over Postgres). It
keeps a catalogue of products and the store pages that sell them, fetches every
page on its own schedule, records a price point per successful check, mails an
alert when a watched price falls, and mails a summary on the mornings at which
somebody can act on it. Everything runs in one event loop, so the hard
questions are about what happens *between two awaits*: a breaker that was asked
before a sleep, a row that was read before a fetch, a mail that left before its
receipt was written, a lock that was lost in the middle of a cycle.

The modules here state what must hold whatever the interleaving, TLC explores
small instances of them, and TLAPS proves the invariants of the core for every
store, link, delay and ladder.

## 1. Inventory

Paths are relative to `src/src/`. "Hard" names the behaviour a test would hardly
reach; the numbered list of hazards, each at its line, is in `PROJECT.json`.

| Component | State it keeps | Operations | Hard |
|---|---|---|---|
| Background checks, `domain/scheduler.py` | due rows loaded at the start of a cycle, `deferral_offsets`, `_paused_until` | `_run_loop`, `_check_due_products`, `pause_for`, `_next_deferral_offset` | stale reads across awaits, partial failure of a save, deferral against a moving cooldown, one task for every store |
| Circuit breaker, `infra/store_block.py` | per store: cooldown end, strikes | `record_block`, `record_success`, `blocked_until`, `snapshot` | two callers past the guard hit one wall; lazy expiry by whoever asks |
| Politeness ledger, `infra/rate_limiter.py` | per store: next free slot | `acquire` | capped callers overtake the scheduler's reservation |
| Leader lock, `infra/leader_lock.py` | the kept connection; the session's advisory lock | `acquire`, `release` | a session that dies unnoticed, a grant that arrives after a cancellation |
| Buy-list mail, `domain/scheduler.py` + `domain/models.py` | the receipt row of the last summary | `_check_summary_due`, `_summary_already_sent`, `_record_summary_sent` | crash or failed commit between send and receipt; midnight; two instances |
| Interactive fetches, `api/admin.py` | the request's own session | preview, quick-add's first check, "Kolla nu" | share breaker, ledger and rows with the scheduler |
| Link rows, `domain/pricing.py`, `domain/service.py`, `api/admin.py` | amount, schedule and next check of a link | typed, cleared, scraped, rescheduled | a scrape or a reschedule computed from a row read before the fetch |
| Price alerts, `domain/scheduler.py`, `api/admin.py` | `price_watches`: wish, `last_alerted_at` | judge, mail, stamp, commit; create, edit, delete | the mail leaves before the commit; one commit for every stamp of a check |
| Calendar, `domain/schedule.py` | none | `next_check_time`, `summary_slot`, `summary_weekdays`, `weekday_slot`, `next_morning_retry` | weekday and daylight arithmetic |
| Deals, `domain/deals.py`, `pricing.py` | none, over the rows | `current_deals`, `observed_spans`, the mail's filter | which price may veto an offer: dead pages, empty shelves, typed prices, windows |
| Statistics, `domain/stats.py` | none, over the rows | trends, campaigns counted, stores compared | two walks over one history, four queries for one latest price |
| Amounts, `domain/pricing.py` | none | parse amounts, unit prices | missing amounts |
| Page fetcher and extraction ladder, `infra/fetcher.py`, `domain/parser.py`, `domain/extractors/` | a client | fetch, retry, classify, extract in order | which failure is a wall, and what ends the ladder |
| Leaflets, `domain/ica_leaflet.py`, `infra/ica_leaflet.py`, `domain/blad.py` | a cached leaflet, its lock | ask, read, note a verdict; an offer of a pasted butiksblad beside the tracked links | concurrent readers, midnight, cancelled readers, failures kept for a while |
| Check log and link health, `infra/check_log.py`, `domain/link_health.py` | a row per check | record, `broken_links` | walls, failures and lost rows in one log |
| Quick-add, `api/admin.py`, `domain/quickadd.py`, `domain/categories.py` | none beyond the rows | product, link, first check, sister links, compensation | several commits in one request: what is left when one fails, and what others did meanwhile |
| Backup and restore, `api/admin.py` | none beyond the rows and the file | export, import in two modes | a backup torn by other requests; an import repeated, or onto rows that differ |
| Administration, `api/admin.py`, `domain/service.py` | products, links, watches, store settings | create, edit, delete, read | cascades under requests that hold the row |
| Diagnostics, `infra/logbuffer.py` | bounded buffers | append, read | – |
| Authentication, `api/auth.py`, `api/cf_access.py`, `mcp_server/auth.py` | a key cache | verify | – |
| MCP server, portal page, migrations | none | read-only façade, HTML, DDL | – |

How they interact. The scheduler task calls breaker → ledger → service (fetcher,
extractors, row) → breaker → row, one link at a time; an operator's request goes
through the same breaker and ledger, in the same process, while the scheduler
sleeps. Both write the link rows. The leader lock decides whether this instance
runs the cycle at all, and the cycle ends with the buy-list mail, whose receipt
is a database row that every instance reads.

What makes each correct:

* breaker: a cooldown is earned, never shortened by a further wall, and only an answer forgives strikes;
* ledger: the scheduler's wait is bounded although others overtake it, and its request keeps its distance from every earlier reservation;
* cycle: one probe per wall but for a race in the ledger's sleep, no link parked for ever, no hammering, every cycle ends;
* lock and mail: only a holder begins a cycle, two instances overlap only after a lost session, a mail is sent on its day, at most one per mishap, and a receipt means a mail;
* link rows: what an operator typed outlives a scrape, and the next check follows the schedule in force;
* extractors: no price is made up, no campaign passes for the regular price;
* checks: a check is one thing with one row however many requests it takes, what the store itself says ends it, a link is broken only when it failed by itself, a leaflet's verdict is of its day;
* deals: the buy list names no shelf when another is cheaper, and drops an offer only for a price that counts;
* statistics: a trend is of what was asked and when, a campaign is counted and judged alike wherever it is shown, and every view names the same cheapest price;
* alerts: a watch is told of its price, once a day, and a stamp stands for a mail;
* catalogue: a request that fails leaves nothing half made, what a backup lists can be restored, and restoring twice is restoring once;
* calendar: checks fall on the right Swedish mornings whatever the clocks do, before the mail that reports them, and siblings keep their distance.

## 2. Modules

| Module | Models | Uses |
|---|---|---|
| `StoreBlock` | `StoreBlockRegistry`: all four operations, with a clock | – |
| `RateLimiter` | `StoreRateLimiter.acquire` for the scheduler and interactive callers, slot and sleep apart | – |
| `LedgerHistory` | `RateLimiter` with a history of reservations, for properties about earlier ones | `RateLimiter` |
| `Scheduler` | `_check_due_products` at its awaits, the interactive handlers beside it, the rows, restart, time | instances of `StoreBlock` and `RateLimiter` |
| `SchedulerHistory` | `Scheduler` with what the current cycle has deferred and requested | `Scheduler` |
| `LeaderLock` | advisory lock, kept connection, session death, cancelled request | – |
| `SummaryMail` | the leader's mail step: query, slot, send, receipt, crash | `LeaderLock` |
| `StoreBlockHistory` | `StoreBlock` with the walls since the last answer | `StoreBlock` |
| `LinkRow` | one link's amount, schedule and next check: operator, scheduled and interactive check, each with the copy it loaded | – |
| `Alerts` | the alert rule and its cooldown, the sends inside a check's transaction, the operator's edits | – |
| `Calendar` | the functions of `schedule.py` with civil time, over the links of a store whose next checks they set | – |
| `PriceCheck` | one check from the first request to its row: fetch and retries, the ladder, the leaflet cache, the check log and `broken_links` | – |
| `OneCheck` | what a check is to everybody else: begun, at most one last word, at most one row | implemented by `PriceCheck` |
| `Deals` | the rows a product's checks and operators leave, and what `current_deals` and the mail's filter make of them | – |
| `Stats` | the walks of `stats.py` over the rows, the lists and the chart beside them | `Deals` |
| `Offers` | what six stores and a butiksblad publish of a shelf, and what is made the price and the offer of it | – |
| `Catalogue` | the rows of products, links and watches, their handlers, and quick-add with its several commits | – |
| `Backup` | `export_data`, query by query, and `import_data` as one transaction, beside the other requests | `Catalogue` |
| `*Proofs` | theorems about the module of that name; `ScheduleProofs` about `LinkRow` and `Calendar`, `DealsProofs` about `Deals`, `Stats` and `Offers`, `CatalogueProofs` also about `Backup`, `PriceCheckProofs` also about `StoreBlockHistory`, `LedgerHistoryProofs` also about `RateLimiter`, `SummaryMailProofs` also about `LeaderLock` | TLAPS |
| `MC*` | the constants of the small instances | – |

Correspondence. An action is the code between two awaits that matter. In
`Scheduler`, `pc` is where the scheduler task stands: `asleep` (the sleep at the
end of the loop), `next` (top of the item loop), `wait` (inside `acquire`),
`fetch` (inside the check), `save` (the session that stores the outcome) and
`backoff` (the exception handler's own session). Instants are stored as the
distance from the present and `Tick` lets them come closer, so the model has no
clock and needs no bound on time; the order of instants that have passed is
lost, which is why overdue links may be taken in any order. `overtaken` is the only
history there: whether an operator has met a wall at the store in hand since it was
picked. `StoreBlock` and
`RateLimiter` on their own keep an absolute clock, with a horizon; `Scheduler`
instantiates them with `now <- 0`.

`LeaderLock` separates the database's view (`holder` sessions) from the
instance's (a kept connection that may be dead without anybody knowing).
`SummaryMail` extends it: an instance that holds the lock works through the
steps of the mail, and every step can be cut by a crash. A *mishap* is a crash,
a lost session or a commit that fails; `MaxMishaps` bounds them.

`LinkRow` keeps, beside the row, what each check in progress loaded of it; that
is the whole difference between the two checks: the interactive one commits its
own copy, the scheduled one sets fields of a row that no session watches.
`Alerts` keeps the loaded watches apart from the stored ones for the same
reason, and a cooldown as what is left of it. `Calendar` keeps absolute naive
UTC, of which `Hour` instants make an hour, and computes Swedish time from it; the
year is cut down to its two transitions. Every link of the store keeps its own next
check, and `drawn` remembers among which siblings it was placed. TLC takes whole hours, the theorems any
part of one. A jitter is drawn from the real numbers between the bounds of a
stratum and cut to an instant, so `Stratum` holds the instants that can come of it.

`PriceCheck` is what `Scheduler` takes as one step (`fetch`): there a check has
an outcome, here it comes to one. Its `pc` stands between two awaits: `page` and
`api` (a request), `ladder` (the page is there), `leaflet` (at the cache's lock),
`reading` (the leaflet, with the lock held) and `log` (the row of the attempt).
What a store answers is free, what the code makes of it is not. `refused` and
`okLost` remember what really happened to a link beside the log's story of it.

`OneCheck` is what `Scheduler`, the API and the log take a check for. `PriceCheck`
implements it: a check that is not idle is `on` its link, a wall or a removal it has met
is its `word`, and `attempts` is the log; requests, retries, tiers, the leaflet and
midnight stutter. A check that is cancelled ends without a row.

`Deals` keeps a product's rows and asks at every instant what the buy list would
be. An instant is a third of a day, so that noon, the hour of a typed price, lies
between a morning's and an afternoon's check. `failures` stands for the link's
rows in the check log (`PriceCheck` shows what they mean); prices and amounts are
small integers, and `UnitPrice` rounds as the code does.

`Stats` adds no state: it asks of the rows of `Deals`, at every instant and for every
period, what the two walks over a product's history make of them. Points of one
instant come in any order (`Orders`), where the code sorts by instant alone. Both walks
pass over all points, as the code does, and skip those of links they do not look at.

`Offers` stands one level below `PriceCheck`, where a tier merely answers: an
extractor is a function of a page, so the module enumerates pages. A shelf is an
ordinary price and campaigns, each so many units for so much; `WillysPages`,
`IcaPages` and so on say how a store may publish it, as the extractors' comments
and tests describe it, and are external. An ICA label is a set of marks (a number of
units, "per kilo", "spara") that come together as they do on labels, so that several
patterns may fit one label and `Parsed` must keep the order in which the code tries
them. The extractors are operators on such a
page, and a property compares the recorded point with the shelf, which no
extractor sees. JSON-LD data are taken to be the product's own; a Clas Ohlson
block may be a sibling's and a JYSK variant may be another than the page shows.

`Catalogue` has a row per product that may be there or not, a link per page and
a number of watches per product and address; a quick-add is a process whose `pc`
stands between two of its commits: `linking` (the product is there, its link is
not), `siblings` (the link is there) and `undoing` (the compensation).
`unlinked` remembers the products that were made that way and never got a link.
`Backup` adds the file, the export with what it has read so far and the import
with what its transaction has written: `NameSeen`, `LinkSeen` and `WatchesSeen`
are the import's queries, which see both. `touched` remembers whether other
requests have changed rows since an export or import began, so that a property
can speak of an import nobody disturbed.

## 3. Runs

| Run | Question | Bounds |
|---|---|---|
| `store_block` | Is a cooldown earned, standing, forgiven only by an answer? | 2 stores, base 2, ceiling 5, horizon on the clock |
| `ledger` | What does the scheduler's reservation keep when others overtake it? | 2 interactive callers, 1 store, 4 reservations of history, 6 instants |
| `scheduler_background` | Deferral, hammering and parking in a cycle of one store | 2 links, batch 2 |
| `scheduler_mixed` | Does a wall, whoever met it, keep the scheduler from the store, and does each cycle end, beside an interactive fetch? | 1 link, batch 1, 1 interactive caller |
| `summary_mail` | Leadership and the mail under crashes, lost sessions, midnight | 2 instances, 2 days (one with checks, one of the fallback), 1 mishap |
| `link_row` | Does a typed amount stand, and does the next check follow the schedule? | 1 link, 2 amounts |
| `alerts` | How often is a watch mailed, what does its stamp mean, is it told at all? | 2 watches, 2 wishes, 2 pages, a day of 2 units |
| `calendar` | Where do next checks land, before or after the mail, and how far apart? | 2 links of one store, one on the store's schedule and one with 3 of its own, every hour of two weeks with both transitions, any hour of the stratum or window as the draw |
| `backup` | What does a failed quick-add leave, and what does a backup bring back? | 2 products, 2 names, 2 sister pages, 1 address, 1 quick-add, 3 edits, 1 request cut off |
| `price_check` | Is a check one thing to the rest, what does it end with, and what does it say of leaflet and link? | 2 links, 2 checks at a time, 3 in all, 2 tries, 2 days |
| `deals` | Whom does the buy list send where, what does it leave out, and do statistics and lists agree with it and with what was asked? | 2 links, 2 prices, 2 amounts, 3 writes, a day of two instants and a noon for typed prices, windows shorter than the day |
| `offers` | Is what a point says one pays, offers and asks ordinarily on the shelf? | 2 prices, 2 weights, campaigns of up to 3 units and a total of 7, up to 2 at a time |

The bounds are small but not thin: two links of one store are what deferral,
staggering and batch order need, and they are checked without an operator: the
two together are out of TLC's reach, so the operator's fetches meet a single
link. One interactive caller is enough to overtake a scheduler in its sleep and
to find a wall; two instances are enough for a
hand-over; one mishap is enough for a duplicate and for a takeover. Three edits
beside a quick-add are enough to take its page, to hang something on its product
or to tear a backup, and two products are enough to share a name. Three writes are
enough to price two links, and to break one, empty its shelf, retype its amount
or put a typed floor beneath it; the two prices lie exactly the margin apart. A period of one instant can open
before, between and after three of them.
Two campaigns are enough for one to hide behind the other, and three units for a
price that does not divide. Three checks are enough to break a link, or to find a leaflet stale twice. Delays are
one to three units, so that every order of a cooldown's end, a slot, a period
and a wake-up occurs.

Fairness. `Scheduler` assumes that time passes and that its task is not
abandoned by the event loop: fetches have timeouts and database calls return or
raise. Nothing is assumed of operators. `SummaryMail` assumes the same of each
instance and that a dead session's lock is dropped by the database eventually;
mishaps are never fair, they may stop or not. `Alerts` assumes that a product's
links keep being checked and that a check goes on (`WF` of `CheckStep`); that is
what `scheduler_mixed` shows of the cycle. An alert that keeps failing is cut off
by `MaxMishaps`: `AlertsGoOut` speaks of watches once the mishaps are over.

## 4. Proofs

| Theorem | Says |
|---|---|
| `PriceCheckProofs`: `TypeCorrect`, `CooldownIsEarned`, `BlocksNeverShorten`, `NothingButAnAnswerForgives` | for any stores and any ladder |
| `LedgerHistoryProofs`: `TypeCorrect`, `BackgroundWaitIsBounded`, `LedgerNeverRewinds`, `BackgroundAlwaysKeepsIntervals` | for any callers, delays, jitters and cap |
| `SummaryMailProofs`: `LeadersHoldTheLock`, `OverlapNeedsALoss`, `LeaderAloneBegins` | mutual exclusion at the database and what it leaves, for any instances |
| `SummaryMailProofs`: `MailKeepsTheLock`, `OneMailEachDay`, `ReceiptsAreTrue`, `MailIsDue` | the mail job keeps to the lock; how often, on what evidence and when a mail goes out, for any finite set of instances, any calendar and any number of mishaps |
| `ScheduleProofs`: `RowTypeCorrect`, `IntentStands`, `ChecksFollowTheSchedule` | for any amounts, schedules and number of checks at a time |
| `ScheduleProofs`: `CalendarTypeCorrect`, `ChecksFallOnTheRightMornings`, `ChecksComeBeforeTheMail`, `SiblingsStayApart` | for any links, schedules, division of the hour, transitions at the hours they have, and any number of siblings on a morning |
| `SchedulerProofs`: `TypeCorrect`, `NoLinkIsEverParkedForever`, `ProbesAreSingle`, `NothingIsHammered` | for any links, stores, callers, delays, batch size and ladder |
| `SchedulerProofs`: `DeferralsAreSpread` | the same, with no interactive caller: one could clear a cooldown in mid-cycle |
| `CatalogueProofs`: `CatalogueTypeCorrect`, `BackupTypeCorrect`, `QuickAddLeavesNoOrphan`, `ImportsLeaveNoOrphan`, `BackupsAreRestored`, `ImportsAreIdempotent` | for any products, names, pages, addresses and number of quick-adds at once |
| `PriceCheckProofs`: `CheckTypeCorrect`, `StoresHaveTheLastWord`, `BrokenLinksWereRefused`, `LeafletsAreReadOnce`, `LeafletVerdictsHold` | for any checks at a time, links, tries, thresholds and days |
| `PriceCheckProofs`: `ChecksAreOneThing` | `PriceCheck` implements `OneCheck`, for the same constants |
| `AlertsProofs`: `TypeCorrect`, `StampsStandForMails`, `AlertsAreBudgeted` | for any watches, wishes, pages and length of the cooldown |
| `DealsProofs`: `PaidPricesAreOnTheShelf`, `OffersAreRealCuts`, `RegularPricesStand` | for any prices, packages, campaigns and number of these at a time, and every way a store may publish them |
| `DealsProofs`: `DealsTypeCorrect`, `BuyListNamesTheCheapest`, `OffersAreLeftOutForCause` | for any links, prices, amounts, windows, margin and history |
| `DealsProofs`: `TrendsAreAsAsked`, `CampaignsAreTheSame`, `ViewsNameTheSame` | for any finite set of links, stores, period and history, and any order of points of one instant |

Why the invariants need strengthening. `NoLinkIsParkedForever` speaks of rows; a
row gets its instant from `result.next` or from a cooldown plus the offset of
the cycle. The inductive invariant `ParkInv` therefore also bounds every
cooldown by `MaxCooldown`, the pending result by `ParkBound`, and the offset of
a store by one stagger slot for every item of the batch already done, which is
`BatchSize - Len(batch)` minus the one in hand: that is where "the offsets
restart in every cycle" enters the argument. The ledger's bound needs that no
slot lies further out than `nextFree`, and that what a capped caller adds is at
most one interval. `NoHammering` speaks of the moment a request starts; `RestInv` says
why the link has rested by then: any link not in hand that comes due in `t` will
have rested once `t` is over (so whatever is due has rested), the places of the
batch still ahead hold rested links, no two the same, and a result waiting to be
saved is far enough off. Of the ladder it needs that no rung is shorter than the
first. `SpreadInv` says that the next deferral of a store falls a slot later than
every link the cycle has already put behind its cooldown (`Below`), which holds
across a lapsed cooldown because a store the scheduler is at is closed only by the
scheduler. `OneProbePerWall` rests on `OvertakenOnly`: the scheduler goes to sleep on
the ledger with the breaker closed, its own outcomes come after the sleep, and what
opens the breaker in between is an operator's wall at the same store. `AlertsAreBudgeted` needs to know what is owed in the middle
of a check (`Budget`): a watch is in *debt* when it has had a mail its row does
not know of, a check is in *peril* when a watch it stamps has been deleted and
its commit will fail. Every debt and peril has been paid for by a mishap or a
deletion, and a second mail within the cooldown settles the debt of its watch.
`OneMailPerMishap` is not inductive either, because a mail is decided on several
awaits before it is out. `Threat` collects, for a day, the instances that may still
send its mail: those past the guard, and those before it while the day has no
receipt. `Budget` sets mails sent plus threats against mishaps plus one, and that
one is granted only while the leader's own attempt is among them, or once the day
is on record or over. A leader that begins a cycle is a threat more and brings the
one along, since by `LockInv` nobody else leads; a leader that is lost in mid-cycle
takes it away and pays a mishap for it; a send turns a threat into a mail. Every
step is `Calm`, `Paid` or `Free` for every day (`Charged`), and each of the three
keeps the budget (`KeptStep`).
`OrphansArePaidFor` is inductive beside the types of
the requests: a step takes products out of `unlinked`, or puts one in that its
request holds, and only a request that is cut off lets go of one.
`OneLeafletADay` and `LeafletVerdictIsTodays` hold because the lock is held from
the look at the cache until the answer is in it. `LockInv` says that the lock and
the one reader belong together, `CacheInv` that a leaflet read today is the cached
one and that the cache holds what the leaflet said on some day since the one it
names, `NotedAt` that nothing has been read since a reader asked and that what a
check notes was so on one of its days. `SaidInv`
says what a check may have been told at each of its awaits; with it every step of
`PriceCheck` is a step of `OneCheck` or none: it leaves all three of on, word and log
alone (`OnTheWay`), is the store's last word (`LastWord`), a beginning or an end.
`NextFollowsSchedule` needs that the copy of a scheduled check bears the schedule in
force until somebody edits it (`CopyFollows`).

`NothingSavedIsLost` and `ImportingAgainAddsNothing` rest on `BackupInv`: what an
export has read is what the rows say, unless somebody has touched them since it began,
and an entry that an import has done with is there, in the rows or in what its
transaction has written. `BrokenMeansRefused` needs `RefusedInv`: of the newest rows of a link's log, those
that are no wall and have no "ok" before them are never more than the checks that
came to nothing. It counts places in a log of any length; that the newest few of a
set of places exist at all is shown through the smallest counterexample
(`SmallestOf`), as everything here that would otherwise be an induction.
`ChecksLandWhereTheyShould` and `ChecksPrecedeTheMail` need no invariant beyond types:
what is proved is arithmetic, that the conversion of a Swedish morning to UTC and back
is the identity on both sides of a transition, and that the first day of a schedule
is the first. `SiblingsApart` speaks of checks drawn at different times, so it needs an
invariant: `SlotsKept` says that a link with siblings in `drawn` is one of them, and that
its next check is an instant of its own stratum among them on some morning. The rest is a
fact about strata: each of n draws keeps to the middle half of its n-th part of the
window, so two of one date differ by half a part at least, less one instant once both are
cut.
`RowsInv` puts a link's points in order beside their types, and leaves nothing of a
link that is gone: so the latest is the first, and a floor that vetoes an offer was a
price of a link that exists. `OffersInv` says that a page is one its store can make of
the shelf, and what has been recorded is `Honest`, or at ICA `HonestBut` for a saving
per kilo taken for a price; one lemma a store carries it, `ParsedIsTrue` each label of
ICA's, and three facts of arithmetic: a division half up is near, it is exact where nothing is
left over, and the highest of prices that campaigns come to is one of them.
The three properties of `Stats` need no invariant beyond `RowsInv` either; what is
long is to say what a walk has made of the history when it is through with `n`
points. That is stated without the walk: `Carried` is what each link asked at the
last of the places `Passed`, and of the other fields of a series there is a closed
form each; that the walks have these forms at every place is shown at the smallest
place where they would not (`StepByStep`). `ViewsAgree` then compares what all of history
carries with what the lists read from the newest row, and the buy list with both
through the fact that rounding keeps order (`AsksKeepOrder`).
`CampaignsAreCountedAlike` sets the two walks side by side: without points at one
instant, what stands elsewhere before a campaign is the same to both but for retired links.

Assumptions: the named `ASSUME`s of the modules, evaluated by TLC on every run.

Only model-checked: the liveness properties `CycleCompletes`, `MailGoesOut` and
`AlertsGoOut`; every other property of a run is the statement of a theorem.

## 5. Where code and text disagree

Met while modelling. None has a run of its own: where a property speaks of one,
it says what holds in its place.

* "The first successful scrape autofills" the amount (`models.py:115-116`), but a scheduled check sets it on a row object that is detached from the session it commits (`scheduler.py:288-307`, `361`, `388-389`): the price point is kept, the amount is lost (`ScheduledReturns`).
* "Never overwrite the operator's typed value" (`service.py:213-215`): the emptiness is judged on a copy loaded before the ledger sleep and the fetch (`pricing.py:242`), so an amount typed meanwhile is overwritten when an interactive check commits. `IntentStandsUnlessRaced` says that this is the only way.
* "What comes back must be what went in" (`test_export_import.py:219`): the import keys a watch on product and address and a product on name and brand, which nothing keeps unique. Restored into an empty instance twins come back as one; onto an instance that still has both, `scalar_one_or_none` raises and the import fails (`admin.py:2740`, `ImportFails`).
* A price typed in the morning and dated today is stamped noon (`admin.py:1607-1612`), so it outranks that morning's later checks too, although `admin.py:1572-1573` says it leads "until the next real check replaces it". `ManualPrice` does what the code does.
* Two checks of a link that overlap may log their attempts in another order than they stamp their points.
* `models.py:353-355` calls a duplicate mail impossible, but the receipt is written after the mail (`scheduler.py:814`): a crash or a failed commit between the two sends it again. `OneMailPerMishap` says how often.
* `scheduler.py:425-429` reads as if `last_checked_at` meant that the store answered; every outcome but a wall stamps it, a timeout too.
* The scheduler's slot can be overtaken although `scheduler.py:350-353` reads as if its delay held against everybody; two capped callers can share an instant (`admin.py:107-109`).
* An instance whose session died works on until its next cycle (`leader_lock.py:3-7`).
* A preview's pause holds cycles, not the fetches of a running one (`admin.py:619-620`); a new link waits behind a full batch (`schemas.py:116-118`).
* "Adjacent links stay at least half a stratum apart" (`schedule.py:233`) but for what `int()` cuts off, up to one instant, and only among links placed among the same siblings: an edit that adds or takes a sibling changes the strata for the links drawn after it and not for those drawn before, and a retry (`schedule.py:212-220`) is drawn from the whole window, so either can fall on another link's minute (`SiblingsApart`).
* Deferrals of two cycles against one cooldown share their offsets (`scheduler.py:470-472`).
* A caller asleep on the ledger while somebody else finds the wall fetches all the same, so a block does not stop "ALL traffic" (`store_block.py:11-12`); `OneProbePerWall` says what does hold.
* An alert mail is repeated within its 24 hours when the commit behind it is lost (`scheduler.py:660`); `OneAlertPerMishap` says how often.
* After 1024 walls without an answer the doubled cooldown no longer fits a float and `record_block` raises (`store_block.py:88`).
* Quick-add's compensation deletes the product with whatever other requests have attached to it since (`admin.py:933-943`), and answers "already tracked" when it was the product that had gone.
* "A duplicate URL cannot leave an orphaned just-created product behind" (`admin.py:890-892`) holds unless the request is cut off between its commits; `OrphansArePaidFor` says how often.
* "A label that parses as a SAVING … yields NO offer" (`ica.py:15-16`, and `:72-74`): the words of a saving are looked for after the price per measure and the multi-buy (`ica.py:268`, `293`, `306`), so "Spara 10 kr/kg" is converted to the package and recorded as what one pays, when it lies below the regular price and not below a fifth of it. `PaidIsOnTheShelf` and `OffersAreCuts` except it (`SavingTakenForPrice`).
* Of several promotions the highest wins before the comparison with the regular price (`ica.py:242`, `willys_api.py:184`): one that is no cut hides another that is, and no offer is recorded. JYSK compares first (`jysk.py:173`) and calls it the same rule.
* "The rows and the number … can never disagree" (`stats.py:526-527`, `534-535`): the table of a product's campaigns compares with retired links too, the number given to a store does not (`CampaignsAreCountedAlike` has them apart).
* `latest_point_per_link` breaks ties of one instant by id; `get_product` (`admin.py:1169-1175`), `blad.py`, `validation.py:152`, the export (`admin.py:2548`) and the walks of `stats.py` choose by instant alone, so two views may take different points for the latest (`ViewsAgree` has them apart).
* A preview that meets a removed product leaves no row in the check log and does not forgive the store its strikes, although the store answered.
* A butiksblad offer that prints no ordinary price is taken without a comparison (`blad.py:200`): dearer than the shelf, it still passes for an offer (`BladOffers`).
* A Clas Ohlson block is told from a sibling's by its current price alone (`clasohlson.py:103`): with the same price, a sibling's struck price makes a campaign (`Mistaken`).

## 6. Not modelled, and the plan

1. Category means of the statistics; unit-price targets below the floor. For `Offers`: that a lone campaign whose price a store states is not missed.
2. `current_deals` query by query: a check that commits between two of them.
3. The import's rules for units, amounts and offers, and a brand that is blank rather than absent.
4. `Scheduler` with two stores. Nothing in the code bounds how long a link without a next check waits behind full batches (`scheduler.py:303`), so no property speaks of it; `DueBatches` takes it last.
5. `Scheduler` over `OneCheck` instead of a check in one step.
6. Proofs: what of `CycleDeferralsSpread` survives an interactive caller.

Left out for good: wording and layout of mails and of the portal page, the
store-specific text extractors, credential checks, table definitions and
migrations, logging.
