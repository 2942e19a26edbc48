# Shoberfredy in TLA+

Models, checks and proofs for the rental-advert pipeline of this repository.
The program is one Node process on one SQLite file. A scheduler discovers
adverts on three portals, durable workers fetch, parse, locate and merge them,
and an outbox sends the suitable ones to Telegram. Almost everything that can
go wrong lies between two `await`s: a row is claimed, its handler waits for a
page, a model or a chat, and in the meantime the row is started over,
superseded, timed out or orphaned by a crash. That is what the modules are
about. Paths below are relative to `src/`; `PROJECT.json` names the lines each
definition stands for.

## 1. The system

| Component | State | Operations | Meets | Hard part | Correct when |
| --- | --- | --- | --- | --- | --- |
| Durable work queue (`pipeline/workQueue.js`, `workOutcome.js`, `operationDeadline.js`) | `pipeline_work` rows: status, lease, next attempt, counters, outcome | enqueue, reset, claim, reclaim, complete, retry, defer, cancel, the loop of each kind | every worker and producer | producers write to claimed rows; the deadline rejects while the handler goes on; executions are lost | columns agree, attempts are accounted, ended work stays ended, nothing starves, everything ends |
| Detail capture (`detailFetchWorker.js`, `queueStorage.js`, `sourceAudit.js`) | the detail row and its fingerprint, the source and the capture it points to | discovery, fetch, store capture, supersede | queue, browser, parser, breaker | a change is discovered while the page is fetched; captures supersede each other | one open capture; captures never go back; a change is captured |
| Parser and finalizer (`parserWorker.js`, `listingFinalizer.js`) | extractions, the canonical listing | claim, fence, reuse, extract, geocode, write, complete | queue, model, geocoder, outbox | whether the capture is current is read before an await and used after it | only the current capture is written; one answer per text; what stays current is published |
| Browser session (`extractor/browserSession.js`, `sessionLock.js`) | the lock's promise chain, the shared browser, its use count, the idle timer | acquire, give up, launch, recycle, run, kill, close, reap | discovery, detail capture | callers give up inside the chain; ceilings kill what an operation still holds | mutual exclusion in order; one browser; none left open |
| Decisions and outbox (`listingDecisionService.js`, `listingDecisionStorage.js`, `notificationOutbox.js`, `notificationDispatcher.js`, `pipelineConfigStorage.js`) | the policy, decisions with their config hash, notify rows, receipts | finalize, patch, reevaluate, dispatch | finalizer, scheduler, Telegram, maintenance command | four places decide, two of them enqueue; responses get lost | nothing after its receipt; accepted listings have their deliveries; every patch reaches every listing |
| Telegram adapter (`notification/adapter/`) | per-chat throttle | photo layers, text message, errors | dispatcher | a layer whose response is lost is followed by another | part of the outbox |
| Discovery run (`FredyPipelineExecutioner.js`, `extractor/pagination.js`) | none between runs | walk the pages, queue each card, stop | scheduler, queue, breaker | pages fail after earlier ones were queued; adverts move between pages while they are read | what is new or changed at the top of a search is queued |
| Scheduler (`jobs/jobExecutionService.js`, `run-state.js`) | lanes, concurrency, gap, last runs | tick, start, finish | breaker, browser, discovery | slow runs outlive their window; a fixed job order competes for one lane | one discovery per portal, one run per window, no job waits for ever |
| Circuit breaker (`jobs/providerCircuitBreaker.js`) | decaying scores, pause | record signal, clear | scheduler, detail capture | items and discoveries write one row | a success clears only what it contradicts; a pause ends |
| LLM budget and client (`llmBudget.js`, `openRouterClient.js`, `openRouterErrors.js`, `llmAuditStorage.js`) | the day's count, the upstream's block, the pause with its failures and credential, rate slots, audit rows | reserve, refund, wait for a slot, call, pause, resume | parser, maintenance command | refunds after midnight; calls that wait when a pause begins; crashes with a reservation | the count is what was answered; the limit and the rate are kept; extraction recovers |
| Geocoder (`services/geocoding/`) | cache, pause, `geocode_progress` | look up, ask for the next candidate, save the place, pause | parser | attempts cut off between candidates; two spellings of one key | failed means exhausted; nothing is paid for twice; coordinates lie where the address says |
| Canonical identity (`listings/claims.js`, `listingFinalizer.js`, `storage/listingsStorage.js`) | sources, claims, listings | claim, match, merge, add | finalizer | source, URL and image claims lead to different listings; partial knowledge | an advert joins only its like and stays |
| Filters and facts (`listingFilters.js`, `standardizedFacts.js`, `listingSchema.js`) | none | validate, standardize, evaluate | parser, finalizer, decisions | unknown values, dates of two precisions | silence never rejects; contradictions are refused, and only they |
| Maintenance (`maintenanceWorker.js`, `services/maintenance/`) | the pass and its batches | remove records, bodies, pictures | capture, audits | deletes beside captures and calls that refer to the same things | what is young or referenced stays; the rest goes |
| Audit payloads (`storage/auditPayloadStorage.js`) and pictures (`imageOptimizer.js`) | bodies and edges; files and `listing_images` | store, share, read | model client, capture, maintenance | sharing by content; a file outside the transaction | records and pictures can be read while they are kept |
| Migrations (`storage/migrations/`) | `schema_migrations`, the schema, the stored adverts | run, upgrade, repair | startup, maintenance command | two processes with copies of the ledger; repairs over whatever adverts there are | applied once, in order; ready means current; history stays silent |

Components call each other synchronously inside one SQLite transaction or
await each other; they share no memory but the modules' own variables. So a
stretch of code between two awaits is one step to the rest of the process,
and what interleaves are those stretches, timers, process deaths, and the
maintenance command, which is another process on the same database. Where a
stretch makes several accesses to the database of which a death or a patch in
between shows in the properties, as in the outbox, the model's calls, the
geocoder and the stores, the modules have these accesses apart.

## 2. The modules

| Module | Stands for |
| --- | --- |
| `JobQueue` | what a durable queue with one executor promises, without leases, counters or clocks |
| `WorkRow` | one `pipeline_work` row and each transaction of `workQueue.js` as a function from the old row to the new one |
| `WorkQueue` | the rows of one kind, their producers and the kind's worker loop; implements `JobQueue` |
| `WorkQueueProofs` | TLAPS proofs about `WorkQueue` |
| `CapturePipeline`, `CaptureProofs` | discovery, detail worker and parser on one advert or several; proofs of its safety properties |
| `Mutex` | a lock that serves numbered callers in order |
| `SessionLock` | the promise chain of `sessionLock.js`; implements `Mutex` |
| `BrowserSession` | `browserSession.js` on top of `SessionLock`, which it extends |
| `Outbox` | policy, decisions, notify rows, dispatcher and receipts |
| `CircuitBreaker` | the scores and pauses of the portals, and those who ask before they ask a portal |
| `BreakerHistory` | the same with the signals that decay forgets |
| `Discovery` | the walk of a discovery through the pages of a search, on `BreakerHistory`, which it extends |
| `BreakerProofs` | TLAPS proofs about the three |
| `Scheduler` | the rounds of the discovery scheduler; implements `CircuitBreaker` |
| `RunProofs` | TLAPS proofs about `Scheduler`, `SessionLock` and `BrowserSession` |
| `LlmBudget` | calls of the model and what limits them |
| `Geocoder` | cache, pause and progress of locating an address |
| `ServiceProofs` | TLAPS proofs about `LlmBudget`, `Geocoder` and `Outbox` |
| `ListingFacts` | validation, attributes, filters and vetoes as operators |
| `Listings`, `ListingsProofs` | sources, claims, listings and decisions, on `ListingFacts`; proofs of identity, coherence and the rules |
| `MediaStore`, `AuditPayloads` | pictures and their references; audit bodies, edges and records |
| `Maintenance`, `MaintenanceProofs` | the pass beside what fills both stores, which it composes; proofs that it takes nothing needed and leaves nothing due |
| `SourceRepair` | what migrations 107 and 109 make of the adverts, as operators |
| `Migrations`, `MigrationsProofs` | the runner in several processes, on `SourceRepair`; proofs about the ledger and the repairs |
| `MC...` | values of constants for TLC |

**WorkQueue.** `rows` is `pipeline_work` restricted to one kind. Times are
kept as what is left of them, in ticks (`wait` for `next_attempt_at`, `lease`
for `lease_until`, `age` since `created_at`), so that the state space is
finite without cutting time off. `ahead` is the order of `updated_at`.
`running` and `left` are the loop: the item whose handler it awaits and the
ticks until `withOperationDeadline` gives up. Each exported function of the
code is one operator of `WorkRow` and one action here: `Enqueue`/`Reset`
(`enqueueWork`), `Supersede` (`cancelWork` by a producer), `Claim`
(`claimWork`, `takeClaim`), `Completes`, `Cancels`, `Fails`,
`FailsExtraction`, `Parks`, `ParksForOutage`, `FailsForGood` (the handler or
`failWork`), `DeadlineExpires`, `ExecutionLost` (a crash, or `failWork`
throwing). A kind differs by its `policy`, which is what its `registerHandler`
call and its producers amount to: `DetailPolicy` and `ParsePolicy`. During an
outage the parser's claim filter may hold rows back, so that a due row may be
passed over and no claim is owed (`Filtering`).

**CapturePipeline.** Rows are the states of `JobQueue`, which is sound because
`WorkQueue` implements it: how often and how late a row is retried is settled
there. A page's `History` gives its content after each edit and is chosen at
the start; contents may come back. A handler is a record in `fetches` or
`parses`; one that overran its deadline is `aborted` and goes on beside the
next until its await returns, as in the code. `Current` is
`currentSourceForParse`, tested when a parse begins, after the model's answer
and again after geocoding (`Fenced`).

**SessionLock and BrowserSession.** A caller's number is its place in the
chain. `GiveUp` is `LockBusyError`, and its link is passed on by
`previous.then(release, release)` (`PassOn`). `BrowserSession` extends the
lock: every lock step is taken by a session or by the idle reap; `stage` says
how far a holder is. `Fails` is a failing operation or the ceiling, both of
which kill the browser. Names that would clash with the lock's have a B.

**Outbox.** A listing's facts are the set of filter documents that accept it,
so the filters themselves are data. `decided` is `config_hash`, cleared by
`Patch`, which another process may run at any moment. `Finalize` is one
transaction that reads the policy itself. A tick is three accesses
(`TickReadsPolicy`, `TickSelects`, `Reevaluate`), a dispatch up to the first
request as many (`Dispatch`, then `Skips`, `Judges`, `Cancels`): each decides
under the policy it read, whatever was patched since. `tick` and
`dispatching` are how far such a stretch is; only one of the application's is
under way (`Idle`), and a death ends it anywhere. `Finalize` and `Reevaluate`
enqueue. A request is a record in `sending`: `TelegramAccepts` is Telegram
taking the message, `TelegramResponds` the response, and between the two the
response can be lost, the process can die or the deadline can fire.

**CircuitBreaker.** A score is kept as its whole part. Each signal weighs one
and the limits are whole numbers, so that this part decides everything; what a
tick of decay leaves of it (at least half, a tick being no longer than the
half-life) and the fraction by which a cooldown grows are nondeterministic.
`asking` are those who await an answer: a discovery or a detail fetch for a
portal in a market. They look at the pause when they begin (`MayAsk`) and
report when it may long have changed (`Reports`).

**Discovery.** Adverts are numbered as they are published and a page is a
stretch of those online, newest first, so that `Publishes` and `TakesDown`
move the rest between the pages. `queued` are those whose detail row has the
fingerprint of their card; `Edits` changes the card. `walk` is the page that
the run awaits and `unchangedPages`. An answer is `ReadsNoCards`, `ReadsCards`
(each card recorded or dropped, then the test of `Ends`) or `PageFails`; how
the run ends is its report to the breaker, which the discovery shares with
detail fetches (`OthersReport`).

**Scheduler.** One unit of time is a period of `setInterval`: `Clock` lets it
pass, `Tick` is the round. `age` is `job_provider_schedule` as ticks since the
last run ended, and `Due` compares it with the age of the window, as `isDue`
does with the times. The round goes through the pairs in the order of
`getJobs`, and each run that starts takes its lane from the rest (`Attempt`):
`Round[i]` is what the first `i` pairs leave of the lanes. A run that finds its portal paused ends in a microtask, after the
round and before anything else: its lane is taken during the round only.
`SearchEnds` is the whole `finally` or the step to the next search. The
breaker is `Breaker == INSTANCE CircuitBreaker WITH asking <- Asking`, and
`KeepsToBreaker` is its specification as a property of the scheduler.

**LlmBudget.** Times are what is left of them. A call is `idle`, waits for a
`slot`, or is under way since today or yesterday, which is what
`refundLlmCall(reservedAt)` remembers. `Proceeds` is everything between the
slot and the `fetch`: the second look at pause and budget, the reservation,
the audit row. The writes of such a stretch are commits of their own:
`DiesReserving` is a death between the reservation and the audit row,
`DiesEnding` one between the block or the pause, the refund and the end of the
audit row, and `torn` is by how much they leave the day's count apart from its
rows. Each end of a call is an action with its refund, pause and
audit row: `Answers`, `RateLimited` (429), `Unavailable`, `Misconfigured`
(`permanent`), `Aborted`. The pause belongs to a credential (`ServiceState`).
The client is written for parallel callers (comment at `llmBudget.js:41`)
though the parser has one at a time, so the model has any number.

**Geocoder.** An address is what the code tells apart in it: its cache key,
what the key forgets (`spelling`, which stands for the signature), and what
`parseAddress` finds. `AllCandidates` is `buildCandidates`, `Accepts` is
`acceptResult` on results described relative to the address. `attempt` is the
loop of `googleClient.js`, from which `CutOff`, `DiesAfterRefusal` and
`LosesRound` take the process at each await and between any two writes.

**ListingFacts and Listings.** Numbers are integers fine enough for the
tolerances, dates sequences, addresses sets of words and house numbers; an
answer of the model has the fields that some rule reads. A rent, a size or a
number of rooms that is stated as 0 vetoes like one that is not stated
(`BothPositive`, `positiveNumber` of the code). `Merges` and `Adds`
are the transaction of `finalizeLive`: match, row, attributes, claims, source,
decision. A decision keeps the filters and features its hash is of, and
`audited` the verdict of the last event.

**MediaStore, AuditPayloads, Maintenance.** Files have ages, references and
bodies the time left to them. `Downloads`, `Touches`, `StoresCapture` are the
three moments of a capture's picture (write or EEXIST, `utimes`, transaction);
`BeginsCall` and `Observes` store bodies. A pass `Retains` in transactions of
at most `Batch` records and bodies, yielding in between, then `Sweeps` in one
stretch without awaits, in which only the death of the process can come
between `unlinkSync` and the update of the rows (`SweepIsCut`).

**SourceRepair and Migrations.** A process reads the ledger once
(`loadExecutedMigrations`) and goes through the files by that copy, to which
it adds what it applies. A release is the files it has, with their checksums:
`"frozen"` and `"corrected"` are the ones `legacyBaseline.js` upgrades to,
`"edited"` one that was changed. `Effect` gives 107 and 109 their meaning on
the adverts, and `Accepts` is what 107 does not throw at: jobs with one
Telegram destination, receipts of chats that are numbers, references that
lead to rows (`Legacy`, `Consolidable`). Where it throws, `Rejects` rolls it
back and ends the process, which starts again and ends again, until the
operator `Consolidates` the destinations; for the other two the code offers
nothing. On its own schema the application `Discovers` adverts, `Finalizes`
each as a listing of its own or joins it to any there is, and `Announces`;
what else these do is in `CapturePipeline`, `Listings` and `Outbox`. `Original`, `Shared` and `Canonical` in `MigrationsProofs` say what
holds of them before 107, between the two and after 109. The code that executes is `migrations/frozen/through-109.js`,
which has 107 and 109 of `migrations/sql/`.

## 3. What TLC checks

Every property is stated in a comment above its definition. Several are
conjunctions of named parts, which the table gives in parentheses; those of the
components whose types are not proved have `TypeOK` among their parts.

| Run | Instance | Shows |
| --- | --- | --- |
| `queue` | 2 keys, either kind, 2 attempts, 2 unusable answers, 1 deferral, 1 reset, 1 loss | `RowsConsistent` (`ColumnsAgree`: a lease exactly while processing, an outcome exactly at the end; `AttemptsAccounted`: a loss costs one attempt), `ImplementsJobQueue`, `NotStarved`, `Settles` |
| `capture` | 2 adverts with shared texts, one edited twice, every history, 1 fault | `CaptureConsistent` (`OneOpenCapture`, `CurrentIsWritten`); `LateWorkIsFenced`: handlers that overran or were superseded write nothing old; `ExtractedOnce`; `Published` |
| `browser` | 3 sessions and their reaps (6 lock callers), recycling after 2 sessions | `ImplementsMutex`; `BrowserKept` (`OneBrowser`, `OperationUndisturbed`); `EverythingEnds` (`QueueDrains`, `NothingLeftOpen`) |
| `discovery` | 1 portal and market, 3 pages of 1 card, 4 adverts, 1 dropped card or edit; limits of 1 failure and 2 refusals, cooldowns of 1 to 2 ticks | `TopIsQueued`: what stays on the first two pages is queued; `DTypeOK`, `PausedForCause`, `PauseIsKept`, `PauseEnds` |
| `scheduler` | 2 jobs, 4 pairs, 3 portals of which one is shared, 2 lanes, a gap of 2, an interval of 4 ticks, 1 failure or refusal, 1 crash | `LanesConsistent` (`LanesAgree`), `OncePerWindow`, `KeepsToBreaker`, `EveryPairRuns` |
| `outbox` | 1 listing, 2 destinations, one or both set, or 2 listings, 1 destination and 1 listing per tick; 2 captures, 2 filter documents, 2 patches, 1 photo layer, 1 fault | `NoMessageAfterReceipt`, `OutboxConsistent` (`AcceptedIsQueued`), `Reevaluated` |
| `llm` | 2 callers, a limit of 2 a day, 2 slots a minute of 2 ticks, days of 3 ticks, resets of up to 3, 2 credentials, 1 death between two writes | `AccountsKept` (`UsageAccounted`, `BudgetKept`), `SendsWhenAllowed` (`RateKept`, `PauseKept`), `Recovers` |
| `geocoder` | 4 addresses on 3 cache keys with lists of 1 to 4 candidates, 5 results | `CacheIsSound` (`CachedIsAnchored`), `ProgressIsKept` (`FailedIsExhausted`, `NotAskedAgain`), `Settles` |
| `listings` | 1 advert with each combination of what filters and validation read; 3 adverts in 3 worlds of shared images, one with a rent of 0; 2 policies | `ListingsConsistent` (`Coherent`, `VerdictAudited`), `JudgedAsStated` (`JudgedRight`, `SilencePasses`), `SourceKeepsItsListing`, `JoinsItsLike` |
| `maintenance` | 2 captures of one picture; 2 calls on 2 manifests that share a part, and an observation; batches of 1; 2 faults | `NothingNeededGoes` (`CaptureFindsItsFile`, `YoungRecordsAreWhole`, `ReferencesLead`), `OnlyACrashLosesFiles`, `RetainedIsKept`, `CleansUp` (`LossesAreFound`, `PicturesGo`, `PassDrains`) |
| `migrations` | 2 processes, 4 releases, 6 databases, 2 discoveries, 2 faults | `SchemaIsKnown` (`LedgerIsTrue`, `ReadyOnCurrentSchema`), `RepairsHold` (`ListingsAgree`, `AdvertsAreOne`, `HistoryIsSilent`), `ComesUp` |

One run shows the code departing from what the repository says of it
(`PROJECT.json`, findings). `outbox_destinations` violates
`EveryDestinationQueued`: a patch adds a destination and clears the decisions'
hashes; before the next tick the dispatcher takes the listing's delivery to the
old destination and decides it again, with the hash of the filters alone
(`notificationDispatcher.js:34`); the reevaluation takes the listing for
decided, and nothing is enqueued for the new destination, against
`README.md:79-80`. What holds with several
destinations is `OutboxConsistent`: a listing has its delivery to each present
destination that a decision under its hash took care of, which `covered`
remembers.

Further departures that came up while modelling and that no run here repeats:

- The path that reuses an extraction throws a ReferenceError:
  `updateParseStage` calls `auditWork`, which `queueStorage.js` does not import
  (line 226, against `README.md:33-34`). In `CapturePipeline` too it costs a
  retry and, without one left, the item.
- Parks for outages use up an item's own deferrals and age
  (`workQueue.js:191`, against `shared/env.js:91`).
- A change discovered during a fetch is marked done with the older page
  (`detailFetchWorker.js:140`, against `README.md:34-35`).
- Content that comes back finds its superseded or finished parse row and is
  not written again (`queueStorage.js:130`, against `README.md:34-35`).
  `CapturePipeline` behaves so; `Published` and
  `CurrentIsWritten` speak of content that the page had not had before
  (`Fresh`).
- A discovery that fails on a later page, drops a card there or has adverts
  pulled past it while it reads is not made up for: the next one finds the
  first two pages unchanged and stops (`FredyPipelineExecutioner.js:106`). An
  advert that was missed, or edited, beyond the second page stays so until it
  gets among the first; `TopIsQueued` speaks of those two.
- Two spellings under one cache key reset each other's progress
  (`googleClient.js:37`), so that a list may be asked for from its start again
  and, if both are always cut off, for ever: `NotAskedAgain` and `Settles`
  speak of addresses with one spelling.
- `pauseExtraction` takes the upstream's reset as it is, where
  `noteUpstreamExhausted` clamps it to 26 hours: a date in the far future
  pauses for as long.
- Images are compared with the row that a listing shows at that moment, so
  that an advert which states nothing may join two that contradict each other
  (`claims.js:99-110`); `JoinsItsLike` is about the row, as the code is.
- 109 keeps the listing of the source that stays (`through-109.js:1573`); the
  listing of an alias that goes loses its source, and if the advert was new,
  its waiting announcement is still sent.
- A process that read the ledger while it held only the former baseline
  replays 100 after another process has migrated further
  (`legacyBaseline.js:39-46`, against its comment at 6-9). `LedgerIsTrue`
  excepts 100, and the model takes the replay to leave the adverts alone
  (once 101 has dropped the columns it reads, it most likely fails and is
  rolled back).
- After a death between the reservation of a call and its audit row, or
  between the refund and the end of that row, the day's count and the audit
  differ by one (`openRouterClient.js:68`, `200`); `UsageAccounted` says so.

**Bounds and why they suffice.** Two keys are what the queue's order needs
(one row can only be starved by another), and rows do not interact otherwise.
Limits of one or two let each budget be used up, overshot by a mutant, and
combined with the others; one tick of wait, two of lease and one of deadline
keep their order (the deadline ends before the lease). Two edits give content
that is new, superseded and restored, and the one fault is a failure, a crash
or an overrun handler that goes on beside its successor. Three sessions let one hold the lock, one give
up behind it and one follow the one that gave up, with reaps in between; two
uses reach recycling. Two listings and one reevaluation per tick let one
listing keep the other from its turn. Rows of different listings do not meet
otherwise, so that the second listing comes only where there is no second
destination (`OneOfEither`, a constraint of the run: it cuts off patches and
captures, which no fairness owes). Two patches remove a destination and bring
it back, or add one and change the filters. One failure is enough to pause a portal in the middle of a run
of two searches and before another job's, and two lanes for three portals let
the cap bind as well as the lane and the gap; how scores add up is the
`discovery` run's question, where signals are not bounded; that markets and
portals do not touch each other is proved for any number of them. There, three
pages are the least of which one lies beyond the two that every walk reads,
and the fourth advert pushes another out of sight. With runs that take
longer than their interval the last job of the round does starve: the interval
of 4 ticks is the shortest at which the instance has room for all. In `llm` two callers
are enough to overshoot a count together, days of three ticks put a midnight
into every pause and every minute, and the limit equals the callers so that
all of it may be under way; one death between two writes is enough to tear a
reservation from its row, and how several add up is proved. The geocoder's addresses have every length of
list there is and one pair of spellings. In `listings` the values lie on both
sides of each limit and tolerance (599/600, 2500/2501, 700/707/708,
1000/1052/1053, and 0), and three adverts are what a second match needs. In
`maintenance` pictures and records are in separate behaviours, since only the
pass has to do with both; batches of one make every pass one of several. The
six databases of `migrations` are the starting points that the runner and
the repairs distinguish: new; the former baseline with an advert under an
alias in two jobs, or with a listing whose sources agree in a chain only; and
one for each thing that 107 throws at, two of them with the first 101
applied. The bounds are constants and appear only as guards
(`MaxChanges`, `MaxLosses`, `MaxEdits`, `MaxFaults`, `MaxAdverts`, `Calls`, `MaxPatches`, `MaxTrouble`, `MaxCrashes`,
`MaxFinalized`, `MaxDeaths`); deadlock checking is off because a bounded system stops when
its bounds are used up.

**Fairness.** Weak fairness, and only for what the code itself drives: the
clock, the worker loop (`drain` polls for ever and is restarted by
`superviseLoop`), deadlines and ceilings (timers), callbacks of resolved
promises, the `finally` blocks, the scheduler's tick, and in the queue the
repair of an outage. Handlers owe no answer: the queue's liveness rests on the
deadline alone, which is why `Settles` excepts rows that run for ever into the
parser's deadline, where each overrun counts as an outage of the model. In
`CapturePipeline` awaits return or become one of the bounded faults; in
`BrowserSession` launches and closes end (closing has its own deadline and
kill; launching relies on the library's timeout, listed as a hazard).
Telegram answers or a fault is used, the scheduler
ticks, and a tick or a dispatch that began goes on, being synchronous. In `CircuitBreaker` and
`Discovery` the clock alone is owed, and `TopIsQueued` itself assumes that runs
come to their end again and again; in `Scheduler` the clock, the rounds and the
end of searches, which their deadline enforces (the queue behind the browser
lock has its own timeout). In
`LlmBudget` the clock, the slot's timer and the end of a request, by its
deadline; in `Geocoder` that the pause ends and that a request ends, while
`Settles` itself assumes that the address is asked for again and again, that
Google answers again and again, and that the process does not for ever die in
the one moment between the deletion of the progress and the cache row. In
`Maintenance` the timer, the worker's loop and the deadlines of captures; in
`Migrations` that a process goes on and that the application is started again
(the container restarts it). Faults are transient and bounded there; what 107
throws at is neither, and `ComesUp` excepts it, as it does an edited file:
the application stays down until the operator has consolidated the
destinations (`README.md:82-83`), and nothing owes that he does, while on the
other two it stays down for good. `Listings` is checked for safety only.

## 4. What is proved

With TLAPS, for every value of the constants within the named assumptions:
any number of keys, callers, attempts, losses and edits, any policy of a kind,
any adverts with any extractions, any addresses, records, rows and processes.
Every invariant that a passing run checks is a theorem, and so is every action property
and every refinement.

The assumptions are `RowAssumption` and `QueueAssumption` (limits are natural
numbers and leave room for one attempt), `PipelineAssumption`,
`LockAssumption`, `SessionAssumption`, `BreakerAssumption`,
`DiscoveryAssumption`, `OrderAssumption`, `SchedulerAssumption`,
`LimitsAssumption`, `CallersAssumption`, `BudgetAssumption`,
`SaturationAssumption` (the model stops counting failures where they lengthen
no delay; the code doubles ten times at most),
`AddressAssumption`, `ResultAssumption`, `NoneAssumption`, `OutboxAssumption`,
`FactsAssumption` of `ListingFacts`, `ListingsAssumption`,
`ExtractionsAssumption`, `MediaAssumption`, `PayloadAssumption`,
`MaintenanceAssumption`, `CanonAssumption` and `FactsAssumption` of
`SourceRepair` (a canonical key is its own), `MigrationsAssumption` (the files
of a release are the first of the order) and `DatabasesAssumption` (what a
first release finds is from before 107). Each is stated beside the constants
it is about, and TLC evaluates it on the instance of the run.

*Queue.* `QueueTypeCorrect`, `ColumnsAlwaysAgree`. `TypeOK` is not inductive:
`llm` stays within its bound only because a row that used up its answers has
ended, so `TypeInv` adds `Agrees` (columns agree, and `llm < MaxLlm` or the row
is over) for each row. One lemma per transaction of `WorkRow` says that it
keeps a row a row that agrees; the step lemma only combines them.
`AttemptsAreAccounted` rests on `AttemptsInv`: each outcome is `Thrifty`
(within the retry budget, or one more attempt against one more unusable
answer), and the claim that reclaims a lost execution spends the attempt
`Orphaned` had set aside. `QueueImplementsJobQueue` needs `RunningInv` (the
loop never awaits the handler of a row that is not there) and maps each step
to a step of `JobQueue` or to a stutter. `RowsAreConsistent` puts the
invariants together.

*Capture.* `CaptureTypeCorrect`, `CaptureStaysConsistent`,
`TextsAreExtractedOnce`, `LateWorkStaysFenced`. Handlers that overran go on
beside their successors, so what is inductive is said of those that did not:
one fetch at most may still store, and what it read is no older than what is
stored (`OneFetchStores`); one parse at most may still write
(`OneParseWrites`); how far it is says what was done (`StagesAreTrue`), in
particular that a parse which asks the model found no answer for its text.
A source points to the content its page had when it was last fetched
(`AttachedIsFetched`) and never goes back.

*Lock and browser.* `LockTypeCorrect`, `LockExcludes`, `LockImplementsMutex`,
from `ChainInv`: the resolved links are a prefix of the chain, whoever is past
its wait has everything before it resolved, a link is resolved only by its
owner's release or by passing on, and nobody beyond the tail has asked.
Exclusion follows since of two holders the later one would need the earlier
one's link. `SessionsUseTheLock` and `SessionsImplementMutex`: each step of a
session is one of the lock or none, so that `BrowserIsKept` may rest on
exclusion. `StagesFollowLock` makes the holder the only one who launches,
forgets and closes; then what runs is the shared browser or is being closed
(`AliveIsKnown`), and who closes has forgotten it before (`ClosingForgets`).
`LaunchesCounted` gives a launch its fresh number: no session launches twice.

*Breaker.* `BreakerTypeCorrect`, `PausesAreKept`, `PausesHaveCause`, for any
keys, limits and cooldowns. The last needs `Backed`: a score never exceeds the
number of signals since the success that cleared it, which holds because decay
only takes away, a signal adds one to both, and what resets the number resets
the score. A pause grows only where a score is at its limit, and so is the
number.

*Discovery.* `DiscoveryTypeCorrect`; the walk is within its pages only because
one that has seen an unchanged page is past the first (`WalkInv`).
`DiscoveryUsesBreaker` maps each step to a step of `BreakerHistory`, from which
`DiscoveryPausesForCause` and `DiscoveryKeepsPauses` follow.

*Scheduler.* `LanesStayConsistent`, `RunsOncePerWindow`,
`SchedulerKeepsToBreaker`, for any jobs in any order, any offsets, windows,
lanes and gaps. What a round does is proved by induction over the pairs that
it has gone through (`LaneInv`): the lanes are those that ran before and those
it started, no two on one portal, and each started only when due and free. A
run that ended in a window is no older than the window (`EndedIsRecent`), for
which the window's arithmetic is worked out for every clock and offset.

*Budget.* `UsageIsAccounted`, `BudgetIsKept`, together `AccountsAreKept`. That
answers leave room for the calls under way is not inductive; what is, is that
the count is bounded by the limit and is made up of the answers, the started
rows and what deaths tore apart (`AccountsInv`), and that apart from what was
torn it covers the answers and the calls under way: a death between two
writes can only add to a day what nobody gives back, or take a reservation
whose call is gone with it. One
lemma for each change of a call says what it does to the number of calls under
way on each day, midnight included. `SentWhenAllowed` needs that the slots
cover the requests (`SlotsInv`): for each request of the last minute there is
a slot no older than it, since a slot is taken before its request is sent and
only leaves when a minute has passed; there are no more slots than the rate.
A call that is sent looked at the pause in the same stretch.

*Geocoder.* `CacheStaysSound`, `ProgressStaysKept`: everything before the place
that is kept was refused (`PlaceIsKept`), and where a key has one spelling
nothing else was, so that a list that ended was refused as a whole.

*Outbox.* `NoneAfterReceipt`: no request is under way for a delivery that has
its receipt (`Unsettled`), because one delivery is dispatched at a time and the
receipt ends it. `OutboxStaysConsistent` holds for any destinations, patches between any two
accesses included. What is inductive besides is what a dispatch under way
knows (`DispatchKnows`): the policy it read is the present one, or a patch has
cleared every decision since; a listing that it rejects is decided so or
cleared again, so that the delivery it then cancels is of no listing that
counts as accepted.

*Listings.* `SourcesOwnTheirClaims`, `SourcesKeepTheirListings`: an advert's
listing owns its source key and owners of claims exist (`IInv`). Then the owner
is matched whenever the advert is written, and no other listing can be better,
since `src` is the first of the kinds and a key has one owner.
`ListingsStayConsistent` adds that the tables have the same rows (`CInv`); an
event is written only when the fingerprint of a decision changed, and that the
fingerprint has all that the filters read is `FeaturesDecide`.
`AdvertsAreJudgedAsStated`:
an answer is refused exactly when it contradicts itself or says a thing twice,
shown rule by rule, dates of either precision included, and silence about a
field adds no reason to turn the advert down. `AdvertsJoinTheirLike`: without a
key, id or URL in common the match was by images, which takes two and no veto;
numbers that are not above zero veto nothing and are not among what must agree.

*Maintenance.* `CapturesFindTheirFiles`, `OnlyCrashesLoseFiles`: a file that a
capture under way relies on is at most a tick old, and the sweep takes none
younger than two. `YoungRecordsStayWhole`, `ReferencesAlwaysLead`: a young
record's body has at least the record's missing age left (`Lives`), and a
manifest with time left holds its parts by its edges (`Held`), so that what a
batch finds expired belongs to no young record. `NothingNeededIsTaken` puts
the invariants together. `RetainedPicturesAreKept`: rows expire only with all
that share their picture. `PassesDrain`: a batch that was not full had taken
everything (`DrainedInv`). With `MaintenanceTypeCorrect` every part of
`CleansUp` but its two liveness properties is proved.

*Migrations.* `LedgerStaysTrue`, `ReadyMeansCurrent`, for any number of
processes: the copy of the ledger that a process works with is behind the
ledger but never ahead (`CopyIsBehind`), what it has gone through is in the
ledger with its release's checksum (`GoneThrough`), and the unique name stops
the second application. `SchemaIsAlwaysKnown` puts both together.
`RepairsStayTrue` is by phases (`AdvertsFollow`): the ledger says whether the
adverts are as before 107, as 107 leaves them or as 109 does. 107 gives each
key the earliest of its rows, and a group that contradicts itself new listings
whose names are fresh because ids are; that after it no listing is named for a
key other than its source's keeps later discoveries apart. 109 joins what has one
canonical key, and what was there before the cutover stays historical because
every source of 107 is, while what the application adds to a listing later is
not historical and announces none that is silent. That 107 may throw takes
steps away and adds none. The application discovers and announces only on the
schema of its release, and so never in the wrong phase.

*How.* Where a step is by induction over data (the rounds of the scheduler,
the lists of the geocoder, the last of finitely many rows, the delays), the
set of numbers at which the statement fails is formed and its least member
contradicted, which needs a theorem about sets only
(`WellFoundedInduction`'s `WFMin`), since the provers cannot instantiate a
theorem over operators. Recursive definitions are functions for the same
reason.

Only model-checked: liveness (`Settles`, `NotStarved`, `Published`,
`EverythingEnds`, `Reevaluated`, `PauseEnds`, `TopIsQueued`, `EveryPairRuns`,
`Recovers`, the geocoder's `Settles`, `LossesAreFound`, `PicturesGo`,
`ComesUp`), since neither fairness nor ENABLED is in the prover's reach.

## 5. What is not modelled

Inside the modelled parts: audit rows, log lines and wording; `cancelWorkForListing`
and `claimWorkBatch` (nothing calls them); historical sources; images; changes
of the extraction version; suppressed listings; the per-chat throttle
and retry-after of Telegram; edits of jobs under way; `clearProviderPauses`,
which nothing calls; `FREDY_BROWSER_IDLE_TTL_MS` of zero; missing API keys of
OpenRouter and Google; extractions of the former schema; validation of a
patched filter document; how keys and ids are cut out of URLs; response
bodies and the other audit tables, for which one stands; `prune-audit` as a
second process in `Maintenance` (its transactions are immediate); a picture's
file that the death of the process leaves truncated; migrations that only
change tables.

Whole parts, with the reason in `PROJECT.json`: portal-specific selectors and
requests, page extraction and evidence text (string processing without
state), URL translation tables, logging, health endpoint, settings, startup.
SQLite is taken as it is used: synchronous transactions on one connection.

## 6. Plan

To be modelled: the throttle of the Telegram adapter; edits of jobs under way;
`Discovery`'s fingerprints as those of `CapturePipeline`, so that one behaviour
leads from the portal to the message.

To be proved: that the steps of `CapturePipeline` on a row are steps of
`JobQueue`, which its use of the abstract states takes for granted; that a portal's pause in one market
leaves the other markets' scores alone.
