# TLA+ verification of the CRE lead engine

The engine pulls county parcel records, scores them on how likely the owner is
to sell, enriches the best ones, mails a weekly digest of leads, tracks what the
agent does with them, and follows industrial companies through outside signals.
This directory holds TLA+ models of its stateful parts, the TLC configurations
that check them on small instances, and theorems about them that TLAPS proves
for every instance. `PROJECT.json` is the index: which definition models which
lines, what each run checks, which code change would break each property, and
the hazards of the code that the properties were chosen for.

Paths below are relative to the repository root; `api/` stands for
`apps/api/src/`.

Check a run with `tlc -config <run>.cfg <MC module>`, a proof with
`tlapm <Module>Proofs.tla` (the limiter, the pull and the sync share `CountyProofs`, the
space scores and the rules of scoring `ScoreProofs`).

## 1. The system

One Node process (NestJS) serves the HTTP API, runs the BullMQ workers of six
queues with one worker each (ingestion, scoring, enrichment, digest, events and
reports, signals), and holds the timers. PostgreSQL keeps the tables, Redis the
queues. Nothing spans two statements of the database: there are no
transactions in the paths modelled here, so any two statements of one operation
may have those of another request or job between them. The process may die
between any two statements.

| Component | Code | State it keeps | Operations |
|---|---|---|---|
| County request limiter | `api/arcgis/arcgis.client.ts` | `active`, `waitQueue` in memory | `acquire`, `release`, `getJson` with up to 5 retries |
| Layer pull | the same, `iterateFeatures` | a generator's locals | page by offset, page by OBJECTID range, yield |
| Parcel sync | `api/ingestion/parcels-sync.service.ts` | Parcel.isActive, SyncRun | `runFullSync`, boot recovery, restore |
| Job pipeline | `api/jobs`, the `*.processor.ts`, `api/admin` | BullMQ queues | crons, manual triggers, chaining, retries |
| Scoring run | `api/scoring/scoring.service.ts` | Score rows (appended) | `runAll` |
| Weekly digest | `api/digest` | Digest, Lead rows, emails | `selectTopLeads`, `preview`, `sendWeekly` |
| Progress awards | `api/progress` | XpEvent, UserProgress, UserBadge | `award`, `getSummary` |
| Space score refresh | `api/signals/space-score.service.ts` | SpaceScore; pending set and timer in memory | `enqueue`, `recompute`, `recomputeAll` |
| Signal pipeline, entity resolution, connectors | `api/signals` | Company, alias, Site, IndustrialSignal, review rows, YardObservation, building notes | `runConnector`, `ingestRawRecords`, `resolveCompany`, `resolveSite`, reviews, flights |
| Leads, CRM push | `api/leads` | Lead, LeadFeedback, CrmSync rows | `create`, `updateStatus`, `logOutcome`, `snooze`, `addFeedback`, `syncEligible` |
| Enrichment and its clients | `api/enrichment`, `api/clients` | Signal rows, contacts, review queue; the weekly cap, the deed office's session and answers in memory | the passes, the watches, one parcel, liens, `refreshQueue` |
| Events, matching, briefs | `api/events` | Event, Person, PersonOwnerMatch, Brief | sync, rosters, `matchPerson`, `setConfirmation`, briefs |
| Score and its tuning | `packages/shared/src/scoring.ts`, `api/scoring` | score weights | `scoreParcel`, `tuneFromFeedback`, the why-now sentence |
| Requirements, buildings | `api/industrial` | requirements, matches, building attributes | matching, coverage, industrial report |
| Owners, agents, invites, drive-by | `api/owners`, `api/agents`, `api/host`, `api/driveby` | OwnerContact | `refreshPeople`, `rank`, `build`, `findNearestParcel` |
| Read side and reports | `api/parcels`, `api/dashboard`, `api/analytics`, `api/reports` | Report rows, emails | lists, the day's page, facts, the quarterly report |
| Start-up, settings, access | `api/config`, `api/app-config`, `api/auth`, `api/main.ts`, `api/llm` | AppConfig | seeding, crons, token, page or API, LLM with fallback |
| Web client | `apps/web` | none | screens over the API |

How they interact: a cron or the admin adds a job; `parcels-sync` pulls the
layer through the limiter and, when it returns, its processor adds a scoring;
scoring adds an enrichment pass unless the job says otherwise; every enrichment
job adds a scoring that says otherwise. Requests of the web client that enrich
one parcel go through the same limiter. The digest reads the latest scores and
files leads; leads, notes and drive-bys give awards. The signal pipeline stores
signals and enqueues their companies for a new space score; the digest reads
the space scores.

What is hard in it:

* statements of concurrent requests and jobs interleave (awards, recomputes,
  boot recovery beside a sync, scoring beside the digest);
* jobs are retried from the start after they have written or mailed half of
  what they do; a worker that dies is retried once more by BullMQ's stalled
  check;
* the county edits the layer while it is pulled page by page, and its server
  may return less than was asked for;
* memory (the limiter's counter, the debounce set and timer) must agree with
  what is in flight, and is lost with the process;
* "find, then create" without a unique key (signals, leads, reviews, sites), and
  "read, then overwrite" (building notes, matches) under two callers;
* calls whose answer is lost or doubtful (CRM, mail), sources that are down and
  look empty, a session that has expired unnoticed, counters kept in memory;
* boundaries: page sizes, 95 % and 70 % floors, the digest's long list, retry
  numbers, midnight, filters after a limit, windows of two mornings that just meet.

The full list, at its lines and with the properties that cover each item, is
under `hazards` in `PROJECT.json`.

## 2. Modules

Machines, with the modules they are put together from:

| Module | Models | Composes |
|---|---|---|
| `ArcGisSlots` | the request limiter and `getJson` | |
| `LayerPull` | `iterateFeatures` and the county's edits | |
| `ParcelSync` | `runFullSync`, recovery, restore, crashes | extends `LayerPull`: the pull's steps are steps of the sync; implements `ParcelInventory` |
| `ParcelInventory` | what the parcel table promises: the abstract specification | |
| `JobPipeline` | ingestion, scoring, enrichment queues, their workers and chain | |
| `DigestDelivery` | the digest job, scoring beside it, the mail provider | |
| `ProgressAwards` | `award` and what it calls | |
| `SpaceScoreRefresh` | signals stored, debounce, batches, nightly run | |
| `DeskTasks` | what requests and jobs side by side have in common: slots, arrival, failure, award | base of `LeadDesk`, `EventDesk`, `RodClient` and `SignalIntake` |
| `LeadDesk` | leads, notes, the push to the CRM | extends `DeskTasks` |
| `EventDesk` | events, rosters, matching, confirmation, briefs | extends `DeskTasks` |
| `AgentDesk` | the two desks in one process that may restart | extends `LeadDesk`, `EventDesk` |
| `RodClient` | the deed office's session and cache | extends `DeskTasks` |
| `EnrichmentPass` | passes, watches, requests that enrich, the review queue, the weekly cap | extends `RodClient`, `SignalSources` |
| `SignalIntake` | connector runs, pastes, flights, reviews, building form | extends `DeskTasks`, `Connectors` |

Rules, as operators over abstract data; some are used by the machines, all are
evaluated by `RuleChecks`:

| Module | Models |
|---|---|
| `SourceClients`, `SignalSources` | what the outside clients return, and the Signal rows their hits ask for |
| `Connectors` | which rows of a feed a connector takes and the drafts they become |
| `ScoreRules`, `FeedbackTuning` | the score of a parcel, the why-now sentence, the tuning of weights |
| `SpaceScoreFormula` | the space score and its band |
| `ParcelRecords` | what a row of the layer becomes, and what scoring reads back |
| `IndustrialDesk` | buildings, requirement matching, coverage, industrial report |
| `EventFeeds` | what the event clients keep, density, category, dedupe key |
| `DeskReads` | lists, the day's page, digest sections, rankings, facts, quarterly report |
| `OwnerPeople` | people of an owner, agents, invite lists, captures, pasted contacts |
| `StartUp` | settings, seeding, crons, access, routing, LLM fallback, notes |
| `RuleChecks` | named assumptions about all of these |

`MC*` modules give the constants their values for TLC; `*Proofs` modules hold the
theorems about the modules they extend.

Conventions. A database statement, or a stretch of code between two awaits that
touches shared state, is one action. A "Mutant" definition is a plausible bug of
the definition it stands before; nothing uses it, `PROJECT.json` says which
property it breaks. A variable that is not in the code (a history or a bound)
says so where it is declared.

### ArcGisSlots

`active` and `waitQueue` are the client's fields; `phase[c]` is where the
asynchronous chain `c` stands (`waiting` on its resolver, `fetching`, in the
`backoff` timer). `Start` is `acquire`, `FetchEnds` the `finally`, `ServerError` the
`release` before the backoff and `Retry` the recursive call. Two subtleties of
JavaScript decide the model. A released waiter adds itself to `active` in the next
microtask, before any other callback can run, so release and wake-up are one
step. And `return this.getJson(...)` inside `try` is not awaited: `finally` runs as
soon as the recursive call has taken a slot or joined the queue, and releases a
second time. `surplus` counts those second releases.

### LayerPull and ParcelSync

A row is an OBJECTID; a page and the list of ids are sets of rows, since the rows
are told apart by their order. `FetchOffset`, `ListIds`, `FetchRange` are the requests of
the generator, `Yield` hands one row to the consumer. The server (`Answer`) returns any
prefix of what was asked for and may set `exceededTransferLimit` if there is
more; a request by range carries no limit of the caller's, so only the server
decides how much it answers. `HeldBack` is what an answer that the generator takes for
complete was short of (of a range: short of a page), and `lost` counts it; `removed` and
`added` are the county's edits during the pull.

`ParcelSync` is `runFullSync` as its consumer: `Begin`, `Count`, `Open`, `Pull` and
`TakeRow` (row by row, upsert included), `Settle` (the guards and the
deactivation), `Succeed`; `Fail` is an exception anywhere, `Crash` the death of the
process. `HealCheck` and `Heal` are the two statements of the boot recovery, between
which a worker may already have run, and `RestoreAll` the admin's button.
`PinOf` maps rows to parcels: two rows may be one parcel, a row may have no PIN.

### JobPipeline

`waiting[q]` is a bag of jobs (name, attempts left, the `chainEnrichment` flag, how
often found stalled), `running[q]` the job of the queue's one worker and how far
it is. What a job writes is reduced to the question whether the scores reflect
the data: `stale` when data was written since the last complete scoring read it,
`overtaken` when it was written since the scoring in progress read it, `gaveUp` when
a job ran out of attempts with scores out of date. BullMQ's retry (`Retryable`) and
stalled check (`Requeue`) are external.

### DigestDelivery

A job in `running` goes through the code's statements: `ReadLatest` (ranked scores,
recent leads), `Consider` row by row with its own query of the score history,
`CreateDigest`, `FileLead` one by one, `Mail`, `MarkSent`. What has been picked so far is
kept as the ranks of its rows (`picked`); the list in its order is `Picked`, the first
`TopN` of the rows `Kept`. `Score` and `Delist` are the
scoring and the sync beside it. `Throw` fails at any statement,
`MailThenError` is an email that is delivered although the call failed, `Crash` the
stalled job that runs again.

### ProgressAwards

`proc[p]` is a request and the statement of `award` it is at: `Record` (unique key),
`Skip`, `FindRow` / `MakeRow` / `MakeRowTwice` (ensureProgress), `WriteRow`,
`CountEvents` and `Unlock` (evaluateBadges). XP is kept as the set of keys it is the
sum of, so that lost and doubled XP show; each key earns as many units as its
reward, `XP` counts them, and `XpOfLevel` gives the thresholds of `levelFromXp`. The code uses one user key only, so
there is one row.

### SpaceScoreRefresh

`tasks` are recomputes, each at one of its three statements, of a batch that a timer
started or of the night (`batch = 0`). A score is the set of signals it was
computed from. `Store` inserts a signal or moves it to another company, `Enqueue`
is the call that follows it; `unread` is a history variable.

### ParcelInventory

Three sets (known, active, seen) and three moves: a new pull, a parcel seen, the
retirement of what was not seen, if anything was; and the recovery of everything.
`ParcelSync` instantiates it with its own variables mapped (`KeepsInventory`): every
statement of a sync is one of the moves or none, a crash included.

### DeskTasks, LeadDesk, EventDesk, AgentDesk

`task[s]` is the request or job in slot `s` and the statement it is at; every module
on top of it says which records a task may be. `Arrives` is a request coming in,
`Fails` any exception, `Award` the call at the end of most requests, whose own
statements are those of `ProgressAwards`.

`LeadDesk`: `CreateLook` and `CreateInsert` are the two statements of `create`; `PushReads`,
`Post`, `Answer`, `AnswerLost`, `DryRun`, `PushEnds` those of `syncEligible`, whose batch the
database chooses freely. The CRM may take a lead and answer with an error
(`taken`, `unheard` are histories). `EventDesk`: `Paste` and `SavePerson` are rosters,
`MatchReads` and `MatchStores` the two ends of `matchPerson` (candidates stored one by
one), `SetConfirmation` the agent's word, `MorningBriefs` the cron with its window of
half days. The clock ticks in half days and a run reads it a moment later, so that
the windows of two mornings meet without overlap. A morning takes twenty events at
most (`MostBriefs`); one that finds more leaves some out for good, which is among what
`disturbed` records. The run has one event and never meets that limit: it is covered by
the theorem only.

### EnrichmentPass

A pass is a list of steps; `AskList`, `AskDeeds`, `AskRegister` and the like are the calls
to the sources, `Look` and `Write` the two statements of `upsertSignal`, shared by all
writers. `rows[p][t]` counts the Signal rows of a parcel and type; `lapsed` says that
the newest has expired. The weekly cap (`Trace`, `Traced`) is checked before an await
and counted after it. `RodClient` keeps one session that may expire unnoticed and
a cache that remembers "nothing found" as well.

### SignalIntake

A task carries one draft through `resolveCompany` (`ByDot`, `ByName`, `ByAlias`, `ByLikeness`,
`Create` or `FileReview`), `resolveSite`, `Store`, and the building note (`NoteRead`,
`NoteWrite`). Likeness of names is a constant in three degrees (from 0.85, from
0.65, less). The connector of ECHO compares with what is stored, so its fetch is a
step of the machine; the others are feeds. The drafts of a run or a paste are a set and
come in any order. `late` marks a task that has read something which somebody has
written since: no alias of its name, or the notes it is about to add to.

### Rules

Data are abstract: a text is what the code's patterns find in it, a day a number,
an amount one of a few values. What a rule does at its boundaries, in which order
its branches come, and what it counts are kept.

## 3. Runs

| Run | What it shows | Bounds and why they are enough |
|---|---|---|
| `ArcGisSlots_served` | The requests in flight exceed the limit at most by the retries made (`DriftBoundsFlight`); the queue holds the waiters, each once; a waiter has a request in flight that will wake it; first come first served; every request ends. | 3 callers, 1 slot, 2 retries, 2 requests each: two callers can wait while the third backs off, and a retry meets a non-empty queue. |
| `ArcGisSlots_limit` (violation) | One retried 5xx lets a third request in under a limit of two. | 4 callers, 1 retry. |
| `ParcelSync_guards` | `MissedBounded`: which rows a pull can miss. `PullEnds`: it ends. `SeenStayActive`, `NeverEmptied`, `ExactWhenStable`, `MistakesBounded`, `FirstDropSpares`: what the guards of the deactivation and the recovery achieve together. | 4 rows (one without a PIN, two of one parcel), pages of 2, both modes, one edit, two syncs after one that failed or that saw everything. Two pages show an offset error. The floor of 95 % of 4 rows is 3, so one row may be missing, and with the row without a PIN that is enough for a pull to pass the count and fall below 70 % of the last success. |
| `JobPipeline_chain` | No crash, failure or overlap loses the link from changed data to a scoring, unless a job ran out of attempts; scores are eventually fresh; the chain ends. | The two morning crons, two failures (thrown or crashed): as many as the attempts of the jobs that have two. |
| `DigestDelivery_mail` | No parcel is mailed twice within the window unless its recorded scores moved by the delta; mails match the Lead rows; each digest is mailed once; a fresh parcel is left out only of a full digest. | 2 parcels, top 1, a job of two attempts that may exclude 0 to 2 parcels, a crash, 3 Score rows a parcel: a rise and a fall. |
| `DigestDelivery_topn` (violation) | A retry after a failed send passes over the best parcels. | 3 parcels, top 1, one job. |
| `ProgressAwards_earned` | XP only of recorded events, each once; streak days have events; badges are deserved, and count badges unlock. | 2 requests, 3 keys, 3 days, one failure. |
| `ProgressAwards_sum` (violation) | Two overlapping awards lose one gain. | the same, no failure needed. |
| `SpaceScore_follows` | No burst of signals is coalesced away; after crashes and stale batches the night brings the scores to the signals. | 2 companies, 2 signals stored or moved, 2 batches beside the night, one failure. |
| `AgentDesk_day` | A lead reaches the CRM twice only after a success nobody recorded or under overlapping pushes; a push with room for every eligible lead leaves each a record; a rejected owner stays rejected; an approved event is briefed on once. | 2 slots, 3 requests, one failure, 2 leads of one parcel, one event, one name with one owner: enough for a push, a status and a second push, or a match around a rejection and a match again. |
| `EnrichmentPass_rows` | Two signals of a kind or two pending reviews need overlap (or a reopened review); the cap of skip traces is exceeded only by restarts and failed look-ups; a pass marked a success has covered the owed taxes and the deeds. | 2 parcels, one worker and one request, one failure, cap 1, one week's end: two writers of one parcel and type, and a second trace. |
| `SignalIntake_names` | A name keeps its company; a changed waste class is stored once unless it went back and forth or was pasted; notes are lost only by overlap or the form. | 3 names, of which two much alike and two somewhat, one renamed carrier, two places, one facility with two classes, a pasted class, two tasks, one failure: each exception of the properties happens. |

`SpaceScore_follows` also evaluates the assumptions of `RuleChecks`: 48 statements about
the rules over bounded inputs, among them HoldPointsNeverFall, OneRuleAWeight,
CoverageBounded, NextAndBack (pages neither skip nor repeat), SeedingKeepsStored, RefreshTwiceAddsNobody,
and those that record what a reader would not expect (section 3, below).

Symmetry is used where the run has only invariants and the values are
interchangeable (parcels, requests), never with liveness. `CHECK_DEADLOCK FALSE`
stands where the bounded system really stops (all jobs added, all stores made);
`ArcGisSlots` and `JobPipeline` have a `Quiet` step instead, so that a caller or a
worker stuck for ever would be reported as a deadlock. The runs over `DeskTasks` bound
the requests and stop when these are served.

### Fairness

* `ArcGisSlots`: weak fairness of the end of each fetch (undici has headers and
  body timeouts) and of each timer. None of starting a request.
* `ParcelSync`: weak fairness of the sync's own steps while it pulls, an
  exception counting as one: an awaited request or query returns or throws.
* `JobPipeline`: weak fairness of each worker taking a job and of the job it has
  going on, throwing included. None of crons, failures, crashes.
* `SpaceScoreRefresh`: weak fairness of timers, of statements of recomputes as a
  whole, and of the nightly job being run again. None of signals or failures.

`ScoresConverge` therefore rests on nights that run through; failures are bounded,
that is, from some time on a night succeeds.

### What the violations say

* **Slots leak through retries** (`ArcGisSlots_limit`). `getJson` releases before
  the backoff and again in `finally`, so each retry lowers the counter for good and
  one more request may be in flight than README.md:186 promises. How far it goes
  is `DriftBoundsFlight`, and by how much exactly is the theorem `DriftIsExact`.
* **A failed send burns the best leads** (`DigestDelivery_topn`). Leads are filed
  before the email, so the retry takes them for recently sent, mails the next best,
  and the best are passed over for the exclusion window without having reached
  anybody.
* **Overlapping awards lose XP** (`ProgressAwards_sum`). The row is read, and the
  absolute sum written back. `XpIsEarned` and `CountedOnce` say what still holds:
  nothing is invented and nothing doubled.

The fallback by OBJECTID range never reads `exceededTransferLimit`; its lost rows
are the `lost` of `MissedBounded`. Whether a server cuts a range short is up to the
county, so this is a bound rather than a finding.

### What the models record of the code as it is

These hold in the models because the code does them; each is a property's
exception, an assumption of `RuleChecks`, or a comment at the definition.

* Lists: hot and missing-contact filters come after the limit (`HotFilteredLate`); an
  invite list reads three times its limit in no order before it filters
  (`InviteListMayMissBest`); the digest takes the twelve earliest events before it
  sorts by density (`DenseEventCutOff`); a capture looks at a limited number of
  parcels in a box (`CaptureMayMissNearest`); scored counts include inactive parcels
  (`ScoredMayExceedStock`); the narrative tells expired signals (`NarrativeTellsExpired`).
* People: refreshing an owner collapses addresses with one local part
  (`SameLocalPartCollapses`) and drops a site's phones when it finds people
  (`PhonesLostWithPeople`), although owners.service.ts:220 says they are attached to the
  first of them.
* Signals: fleet growth always weighs 40 (`GrowthIsAlwaysForty`); a surge of postings
  needs the whole window while the run looks back for half of it
  (`SurgeNeedsTheWholeWindow`); debtors of a party list without a master file share a
  reference (`DebtorsToldApart`); a probate lead's `visibleAt` is stored and read nowhere
  (`ProbateDelayNotHeld`), against the message at admin.controller.ts:369.
* Scores: owners without any address are one cluster (`NoAddressOneCluster`); repeated
  tuning with the same votes lowers weights again (`SameVotesCountAgain`); an off-market
  building precedes a listed one only by points (`OffMarketOnlyBreaksNearTies`); a yard
  of unknown size beats one too small (`UnknownYardBeatsSmallYard`).
* Start-up: a failed registration leaves the later crons out (`CronsAfterFailureMissing`);
  an unknown word in LLM_ENABLED leaves the model on (`OnlyKnownWordsSwitchOff`); /requirements
  and /industrial are missing from `API_PREFIXES` (main.ts:36), so with the bundled web
  client their GETs get the page (`PageInsteadOfAnswer`); the client takes a token for
  good while the server fails (`AnyTokenWhileFailing`).
* Reports: a retry of a failed mail leaves one more Report row (`ReportsOutnumberMails`).
* Resolution: a name somewhat like another gets a review and a company of its own at
  once, and a confirmed review afterwards only adds an alias, which is why
  `NameKeepsCompany` holds.

## 4. Proofs

Theorems hold for every value of the constants that satisfies the modules' named
assumptions, which TLC evaluates on every run. Most say that sets are finite and
numbers natural. Those that say more, and the code they stand for: rewards are
positive, badges for counts ask for at least one event (`progress.rules.ts`); the
window of a morning is as long as the time between two (`EventAssumption`, 24 hours and
12 either way); the cache of the deed office is keyed by parcel and by the one
search for deeds (`PassAssumption`); an address of a zoning or permit list finds one
parcel at most (`SourceAssumption`); a feed other than ECHO's brings no draft of ECHO
(`IntakeAssumption`: `source` is the connector's key).

Each invariant below was checked by TLC on the module's run before it was proved.
Every safety invariant and every action property of the passing runs is now a
theorem; liveness is not (see the end).

**The limiter** (`CountyProofs`, first part). The inductive invariant `IInv` adds to the
type invariant and the properties two facts: nobody queues while the counter is
below the limit and the counter never passes it (`QueueOnlyWhenFull`), and a request
in its backoff has an attempt left. `QueueOnlyWhenFull` is what makes
`NoStrandedWaiter` inductive: with `CounterDrift` (counter = fetching - second
releases) a full counter means a request in flight. Every action is an update of
phases and queue followed by at most one `ReleaseFrom`, so one lemma on `ReleaseFrom`
over any counter, queue and phases carries the five steps. Proved: `TypeCorrect`,
`DriftIsExact`, `FlightBounded`, `QueueSound`, `NobodyStranded`, and the action
property `FirstComeFirstServed`.

**The parcel sync** (`CountyProofs`, second part). `Inventory`: seen parcels are active and
active ones in the table; the second half is what bounds a recovery or a restore,
which make everything in the table active. With it a deactivation leaves exactly the
seen parcels, of which the guard requires one, so `SeenIsActive` and
`InventoryNeverEmptied` follow. `Ledger`: the SyncRun table holds rows of the kind the
code writes, one of them of the sync in progress. With it `PreviousUpserted` is the
number of the last success of the same source (`BaselineIsLast`), and `DropsAreSpared`
follows for any number of runs, where the run has room for one between two
successes. These hold whatever the pull delivers.

**The pull** (`CountyProofs`, third part). `PullInv` accounts for every row a pull has passed
over while it is still going on. By offset, the rows not seen that lie behind the
offset (`Behind`) are no more than the rows removed, since only a removal moves a row
behind it; by ranges, the rows not seen and no longer listed, together with the rows
that edits have put into the ranges to come (`Extra`), are no more than what was held
back or added: an added row does no harm until its range is asked for, so it must be
counted from the moment it is added. At the end both give `MissedIsAccountedFor`. `SeenInv`
ties what the sync has seen to what was delivered, and `StableInv` says of a layer that
nobody edits that the county's count is its size and that the pull delivers rows of
it, each once; with `PullInv` the 95 % guard then bounds what may be deactivated by
mistake: `ExactOnStableLayer`, `MistakesAreFew`.

**Refinement** (`CountyProofs`, `InventoryKept`). With `Inventory`, every step of the sync
maps to a move of `ParcelInventory` or a stutter: `TakeRow` to a parcel seen, `Begin` to
a new pull, the deactivation to the retirement, heal and restore to the recovery,
everything else to nothing. The mapping is by equal names.

**Progress awards** (`ProgressAwardsProofs`). Awards overwrite each other's rows, so
what must hold of the row must hold of every row that some award is about to
write: `RowFits` says it of one row (it counts recorded events only, its streak has
an event of each day or the day before, and is no longer than the calendar), `IInv`
says it of all. `Recent` says that an award in progress has its event today or
yesterday, which is what makes the streak it writes earned across midnight. Proved:
`TypeCorrect`, `NoXpFromNowhere`, `NoDoubleXp`, `StreaksAreEarned`. `BadgeInv` adds what awards
hold in hand: the badges an award is about to unlock are deserved already, although
others record events meanwhile, since counts of events and the XP of a row only grow
(`UnitsFinite` and its neighbours: XP is a number of units); and while nothing has
failed, a badge whose count is full is unlocked or on the way in some award. Proved:
`BadgesAreDeserved`, `FullCountsHaveBadges`.

**Space scores** (`ScoreProofs`, first part). `NoGainForgotten` is inductive once the
count of failures is known to be a number: `OnItsWay` follows a company from
`stored` to `pending` to a recompute, and one lemma per action hands it on. Proved:
`TypeCorrect`, `NoBurstLost`.

**Rules of scoring** (`ScoreProofs`, second part). A total is between 0 and 100
(`TotalInRange`); under natural weights a further signal never lowers it, provided a
dissolved company earns no less than a registered one (`MoreSignalsNeverHurt`); a lead
with a hot signal has a catalyst for its sentence (`HotLeadExplained`); tuning never
raises a weight that lies in its rule's range nor takes it below, and the defaults
lie in it (`TunedStaysInRange`, `DefaultsInRange`).

**Job pipeline** (`JobPipelineProofs`). `NoLostLink` is inductive with `Typed`, with `Placed` (a
job waits and runs on its own queue), and with `OvertakenIsStale` (data overtaken by a
scoring in progress are stale). The bags of jobs need four lemmas of their own: what
is in a bag after one job was added or taken. Proved: `TypeCorrect`, `LinkNeverLost`.

**Weekly digest** (`DigestDeliveryProofs`). `IInv` says that the run in progress files leads
of a digest that is its own (`FilingItsOwn`), that digests are numbered in the order
they are created (`Numbered`), and that a digest mailed is no longer being filed
(`MailedIsOut`); no retry can therefore mail it again: `MailedOnce`, `MailedIsFiled`.
`ChoiceInv` describes the choice while it is made: the ranked rows are each a parcel of
its own, and no row considered so far of a parcel without a recent lead was passed
over (`NonePassedOver`). What the digest leaves out is then beyond the first `TopN` kept, or
excluded, or cut from the long list: `OnlyFullDigestsLeaveOut`. `RepeatInv` carries a fact
from the query of the score history to the mail, over any number of scorings between
them: a parcel picked although a lead of it was mailed within the window has two
scores that differ by the threshold, and as Score rows are only added it goes on to
have them: `RepeatsHaveMoved`.

**The agent's desk** (`AgentDeskProofs`). A stored candidate keeps the agent's word
(`StoredFacts`), so a rejection is lifted by `SetConfirmation` only, whatever matching had
read before: `RejectionLasts`. For the CRM, `PushInv` says that while no two pushes have
overlapped the one push knows of every success among the leads it has before it
(`OnePush`), and that what the CRM has taken is a success on file, still to be answered,
or counted as unheard (`Accounted`); tasks are described just far enough (`TaskOK`) that no
other request can turn into a push: `PushedTwiceExplained`. `CoverInv`, about what a push
still owes, gives `EveryLeadOnRecord`. `BriefInv` is about mornings: runs of the cron begin
one `Period` apart, an event approved in time is in the window of exactly one of them,
and unless something was `disturbed` it has been briefed on or is left in the task of
that morning, not both (`Mornings`): `EachEventBriefedOnce`. All need the slots to be finitely
many.

**Enrichment** (`EnrichmentPassProofs`). `TypeInv` describes plans, tasks and tables; it also
says in which order the steps of a plan may stand, since a step that ends a plan
ends what a task may do. `OnePass`: one worker, one pass. `TraceInv` follows a skip trace over
its await: what was sent this week is counted, or is the one trace in progress, or is
what a restart or a failed look-up took off the counter, and a trace in progress has
found the counter below the cap: `SkipTracesCapped`. `WaitInv`: a parcel that was not
reopened nor raced for waits for review at most once, and not yet while a review is
being filed for it: `ReviewsWaitOnce`. `RowInv`: unless two tasks held one parcel and type at
once (the history `raced`), there is one row at most, and none while somebody who found
none is about to make it; who found one is right, rows being never deleted:
`RowsDoubleByOverlap`. `CoverInv` says of a pass in progress that every parcel its list
named has its row or is among those still to be written (`CacheInv`: the search for deeds
is remembered only when it was answered), which gives `PassesCover`: a pass marked a
success has given them all their rows.

**Signal intake** (`SignalIntakeProofs`). Three properties, three things that a task may
still know when it acts on them. `Fits` says of each task: at the number, its company
exists, and at the creation of a company, no alias of its name was there, unless it is
late (`KnowsName`); the notes it is about to add to are among those it has read, unless it
is late (`KnowsNotes`); and of what the one run of a connector is still to store, one draft
at most tells a class of waste, which for a change is not the class told last
(`BringsNews`). The last needs that there is one run (`OneRun`) and that the newest row tells the
class stored last (`NewestIsLast`), both true until a change is repeated or pasted. Three
quarters of the steps write none of the tables involved (`Quiet`), and one lemma keeps the
invariant over them all. Proved: `NamesKeepCompanies`, `ChangesToldOnce`, `NotesLastOtherwise`.
The properties were sharpened for it: an exception now names the step of the task that
is late, where before it was enough that some task was.

**Only model-checked.** Liveness (`EveryRequestSettles`, `PullEnds`, `EventuallyScored`, `Drains`,
`ScoresConverge`) is out of the prover's reach, which has no rule for fairness and
`ENABLED`. The statements of `RuleChecks` are about functions over bounded inputs; those whose
functions are recursive would need induction over data, which the provers cannot do.
The three runs that expect a violation have a counterexample each and nothing to prove.

## 5. What is not modelled, and why

* Wording and layout: emails (`*.template.ts`), prompts, the texts of answers. No
  property here is about them.
* The patterns that read pages, calendars, files and addresses. A rule starts from
  what the pattern finds; whether the pattern is right is a matter for examples.
* The screens of the web client. Each shows one answer; a stale answer that comes
  last (PipelinePage.tsx:53) is listed among the hazards without a property.
* The database schema, except that its unique keys are guards where code relies on
  them; PostgreSQL's isolation beyond single statements.
* BullMQ's internals beyond retries and stalled jobs, the county's clock.
* Two processes side by side (a rolling deployment); every worker has concurrency 1.
* Raw rows kept beside industrial signals, and the bulk assignment of submarkets.

`components` in `PROJECT.json` lists every part with its status. "Partly" mostly means
that the control is modelled and some text or a plain read is left out; the note
says which.

## 6. What could come next

* Abstract specifications of the digest (a parcel is offered, kept back, offered
  again) and of the CRM push, as `ParcelInventory` is one of the sync, with their
  refinements.
* The drafts of a connector's run in the order of its feed, if a property should
  depend on it; none does.
* Liveness of the desk (every request ends) is that of its awaits and is left out.
