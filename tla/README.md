# OddsExecutionEngine in TLA+

OddsExecutionEngine pulls sportsbook quotes, evaluates the *watches* an operator
has set against them, records an *opportunity* when a watch's target price is
available, and pushes it to the operator's browsers. A Python backend (API and
Auto-Refresh worker) and a Go notifier share one PostgreSQL database and talk to
each other only through it.

This directory holds models of that system, TLC configurations that check them
on small instances, and proofs of their safety that TLAPS checks. `PROJECT.json`
lists components, runs, theorems, findings and hazards, and maps every
definition to the source lines it stands for.

## The system

| Component | State it keeps | Operations | Talks to |
|---|---|---|---|
| Watch lifecycle (`watch_intent_service.py`, `watch_intent_uow.py`, `watch_evaluation_engine.py`) | `watch_intents`, `opportunities`, its rows of `public_events` | create, cancel, evaluate an event's watches, list | called by the API and, after every refresh, by quote ingestion; writes the outbox |
| Quote ingestion (`quote_ingestion_service.py`, `quote_ingestion_uow.py`) | `events`, `markets`, latest and historic quotes, `sport_refreshes` | refresh an event, refresh a sport | pulls from the provider, then calls the evaluation |
| Provider and response cache (`odds_api_provider.py`, `in_process_cache.py`) | per process: cached payloads, key locks, event metadata | live and incidental fetches, balance check | The Odds API (paid); hands every quota reading to the quota service |
| Quota (`quota_service.py`, `quota_uow.py`, `quota_engine.py`) | `quota_observations`, its rows of `public_events` | record a reading, status | called inside fetches; writes the outbox |
| Auto-Refresh (`auto_refresh_service.py`, `auto_refresh_uow.py`, `auto_refresh_worker.py`) | the settings row, an advisory lock | poll cycle, settings, outcome | calls quote ingestion; reads quota |
| Destinations (`destination_service.py`, `destination_uow.py`) | `destinations` | register, list, send a test | writes the outbox; shares `destinations` with the notifier |
| Notifier (`services/notifier`) | `deliveries`, `public_events.dispatched_at`, `destinations.disabled_at` | fan-out, claim, send, record, retry | reads the outbox; push services |
| Opportunity validity, recommendation, price comparison, normalization, quote matching engines | none | pure functions | called by the services |
| Event browsing, recommendations, API, frontend | none that others depend on | reads, one insert | the API |

What makes it hard: request threads, workers and notifiers run concurrently on
READ COMMITTED transactions without row versions; statements check a row and a
later one updates it by id; a refresh commits its quotes before its evaluation
starts; processes may die anywhere; leases run out while a request is under way;
a push service's answer may be lost. `PROJECT.json` lists each hazard at its line.

What makes each component correct:

* watch lifecycle: a watch fires at most once and is announced exactly when it
  fires; watch, opportunity and outbox agree after every commit; an expired,
  cancelled or started one does not fire; transactions end; a fillable watch
  eventually fires;
* deliveries: one sender at a time, a settled delivery stays settled, nothing
  recorded as delivered that was not taken, nothing lost by fan-out, everything
  owed is settled in the end;
* ingestion: the latest row of a book is its newest history row, a later refresh
  never puts an older price in its place, each market is created and announced
  once, a sport is stamped only when all of it is stored;
* cache: a live caller is not handed odds older than its click, and nobody older
  ones than were handed out before;
* engines and reads: a board, a recommendation and a watch name the same best
  book; a consumer and the API agree on what has expired; pages partition a listing;
* quota: one warning per crossing of the floor;
* Auto-Refresh: nothing is spent that the switch, the cooldown or the balance
  forbids (the cooldown has an exception, under "Assumptions to know"); the switch should
  only change when the operator changes it, which is not always so (a finding);
* destinations: a browser that has registered is active; one test per cooldown is what
  the service claims and does not keep (a finding), one per request thread what it keeps.

## The modules

`WatchContract` states what the watch subsystem promises: watches are created
once, fire at most once, are announced when they fire, and never become live
again. One of its steps is one committed transaction.

`WatchLifecycle` is the code: `watch_intent_service.py` and
`watch_intent_uow.py` for one event. A process is a request thread or the
Auto-Refresh worker; each runs one unit of work at a time.

| Model | Code |
|---|---|
| `status`, `opp`, `outbox` | committed `watch_intents.status`, `opportunities`, `public_events` |
| `wrote`, `inserted` | what an open transaction wrote; invisible to others, and its locks |
| `fillable`, `lapsed`, `started` | whether the committed quotes meet a watch's target, its TTL and the event's start have passed |
| `lapsedAt`, `live`, `fires`, `todo` | the local variables of an evaluation: the clock read once, `live`, `new_opportunities`, the rows a statement still has to write |
| `Refresh` | `refresh_quotes` up to its commit |
| `EvalBegin` `EvalList` `ExpireRow` `ReadQuotes` `InsertOpp` `InsertDone` `TriggerRow` `Commit` | the statements of `evaluate_for_event` and `_notify_and_retire`, one step per SELECT, per row an UPDATE locks, per INSERT |
| `CreateInsert` | `create_watch_intent`, whose evaluation is then the steps above for that watch alone |
| `CancelCheck` `CancelRow` | the SELECT and the UPDATE of `cancel_watch_intent` |
| `Abort` | an exception, lost connection or crash before the commit |
| `RowFree` `KeyFree` `WaitsFor` `DeadlockVictim` | PostgreSQL's row locks, pending unique keys and deadlock detection |

Prices, selections and books are abstracted to `fillable`, the set of watches
whose target the committed quotes meet; a refresh sets it to any set. Audit
rows (`workflow_events`) are written with the same commit and are not a separate
variable. Watch and event reads of the API change nothing and are left out.

`Deliveries` is the notifier: `notifier.go` and `store.go`. A worker is a
notifier process. A fan-out is a transaction of three kinds of step (select and
lock, expand an event, commit); a claim is one committed statement; then each
claim of the batch is expired, failed, sent, answered or lost, and its result
recorded, each a step. The claim token is a fresh value per claim, which
`attempts` is too, so one number stands for both. One discrete clock is both
the database's `now()` and the worker's. Event types appear as an audience (all
destinations or one) and a maximum age; backoff as a set of delays.
`accepted` (what the push service has taken) and `owed` (what an active
destination can expect) are history variables and guard nothing.

`AutoRefresh` is the refresh pipeline as far as it spends credits: the workers'
cycle, the operator's settings, the requests' pulls, the provider's balance and
the observations of it.

| Model | Code |
|---|---|
| `settings`, `refreshedAt`, `latest`, `warnings` | `auto_refresh_settings`, `sport_refreshes`, the newest row of `quota_observations`, the quota warnings in `public_events` |
| `cycleLock`, `quotaLock` | the two advisory locks |
| `cycle`, `pull` | the local variables of `_run_locked_cycle` and `_refresh`, and of one upstream call |
| `credits`, `Refused`, `MonthlyReset` | the provider's side, external: what it charges and when it refuses |
| `Poll` `ReadSettings` `ReadWatched` `ReadTimes` `CheckPause` `ConfirmBalance` `NextSport` `NoMoreSports` `ReadOutcomeRow` `WriteOutcome` `Release` | the statements of `run_cycle`, `_paused`, `record_outcome` and the cycle lock, in their order |
| `Answer` `AnswerWithError` `NoAnswer` `LockQuota` `Record` `RecordFails` `PersistSport` `PersistEvent` `Stamp` `PullFails` | an upstream call, its recording under the quota lock, the quotes and the cooldown stamp |
| `Manual` `SaveSettings` | POST /ingestion/quotes/refresh and refresh-sport, PUT /auto-refresh |
| `CycleFails` `Crash` | an exception the worker's loop logs; a process that dies and loses its locks |

A stamp is two steps, as in the code: `PersistSport` ends with the reading of the
clock (`pull[p].at`; `datetime.now(UTC)` at `quote_ingestion_service.py:233`), and
`Stamp` overwrites the row with that reading, whatever the row holds by then
(`quote_ingestion_uow.py:162-169`). A stamp may therefore go backward.

Abstracted: writing a sport's quotes is one step that succeeds or fails, and the
clock is read at its end; callers that the response cache coalesces count as one; the order of the due sports is open (the code takes them by name); the last
outcome is only reported and is not a variable. A poll that finds the lock held
changes nothing and is not a step. `asked`, `refusals`, `automaticAt` and `setBack` are
history variables and guard nothing. Watches change freely: `watched` is any set.
A balance check is free and never refused, which is the provider's promise.

`ProviderCache` is the response cache of one process, `in_process_cache.py` with the
provider's `_fetch_cached`. A caller arrives, reads the clock, then the entry; it is
served from it or queues for the key's lock, and then takes the entry stored
meanwhile or loads. A payload is the version of the odds upstream answered with:
`Upstream` (it reads its odds) and `Store` (the answer is received and stored) are
two steps, for odds change in between. `call` keeps, as history, what upstream offered
and what had been handed out when the call arrived.

`QuoteIngestion` EXTENDS it and is the refresh of a sport and of its events:
`quote_ingestion_service.py`, `quote_ingestion_uow.py` and the rest of
`odds_api_provider.py`. Callers are the threads of one process.

| Model | Code |
|---|---|
| `stored`, `markets`, `latest`, `history`, `audit`, `refreshed`, `opps` | the committed rows of `events`, `markets`, `market_quotes_latest`, `market_quotes_history`, `workflow_events`, `sport_refreshes`, `opportunities` |
| `known` | the provider's `_event_cache` |
| `todo`, `pos`, `clock`, `row`, `snap`, `made`, `found` | the local variables of a refresh and what its open transaction has written |
| `Click` `Fetch` `FetchFails` `Receive` | a deliberate refresh, through the cache, to a payload; `_resolve_sport_key` |
| `Scan` `ReceiveScan` | `list_events_for_sport`, the one incidental fetch (the application has no caller of it) |
| `Begin` `WriteEvent` `Look` `InsertMarket` `Replace` `Lose` `Commit` `DeadlockVictim` `Abort` | the statements of `persist_quotes`; `Replace` is the DELETE that found a row and the INSERT that needs its key, `Lose` a unique violation |
| `EvalBegin` `Evaluate` `Announce` | `evaluate_for_event` as far as prices and times are concerned; its locks are `WatchLifecycle`'s |
| `Stamp` | `record_sport_refreshed` |

`QuoteEngines` has the engines and the reads that feed them as operators on the tables
(a table is a set of rows): normalization, identity of markets, ranking, matching,
recommendations, evaluation, validity, the announcement. `EventReads` has the event
list, its pages, freshness and the line board, whose two statements take two states.
`WorkflowEvents` builds the audit events of ingestion and recommendations. All are
used by `QuoteIngestion`, so they are evaluated on the tables its races produce.
Prices are integers, a line an integer in units of 0.00001 (the market's key rounds
it to four decimals), sportsbooks numbers in the order of their names. League,
status, provider and participants are columns carried along and left out.

`Destinations` EXTENDS `Deliveries`: registration, revival and test pushes
(`destination_service.py`, `destination_uow.py`) beside the notifier. A request is
a reading and a later write, `RegisterRead`/`RegisterWrite` and
`TestCheck`/`TestWrite`; every step of the notifier is one of `Deliveries`, in which
the push service answers as the browser's subscription stands (`AnswersTrue`). `subs`
counts a browser's subscriptions; `enrolled` and `overtaken` are history variables
and guard nothing. An inactive destination is one that is gone. The other reason,
`user_removed`, is left out: registering again keeps such a destination inactive
(`destination_service.py:50-51`, `test_destinations_api.py:160-163`), and nothing in
the code writes it, so no run of the program has one.

`MCWatchLifecycle`, `MCDeliveries`, `MCAutoRefresh`, `MCQuoteIngestion` and
`MCDestinations` instantiate them for TLC; the eight modules named `...Proofs` hold the
theorems. Definitions
whose comment begins with "Mutant" are broken variants of the definition they
precede; nothing in the specifications uses them.

## Runs

| Run | Instance | Shows |
|---|---|---|
| `wl_safety` | 2 watches, 2 processes in every role, 1 fault | type invariant; `AnnouncedExactlyOnce`, `FiredLeavesActive`, `TriggeredHasOpportunity`, `EvaluationComplete`, `LapsedAtReadingNeverFires`; the refinement of `WatchContract` |
| `wl_live` | 2 watches, one created beside the refreshes, 2 evaluators, 1 fault | every transaction ends (`TransactionsEnd`), deadlocks included; `FillableEventuallyFires` |
| `wl_terminal` | 1 watch, 1 process that refreshes and creates, 1 canceller | **finding**: a cancel overwrites `triggered`, an evaluation overwrites `cancelled` (`ExitsAreTerminal`) |
| `dl_safety` | 2 events (one for everyone, one test), 1 destination, 2 workers, 1 fault | `NoConcurrentSend`, `FinalIsFinal`, `NoResendAfterDelivered`, `DeliveredWasAccepted`, `OwedHaveRows` |
| `dl_settles` | 1 event, 2 destinations, 2 workers, 1 fault | `EventuallySettled` |
| `dl_gone` | 2 events, 1 destination, 2 workers | **finding**: a fan-out in flight leaves a pending delivery for a destination that is gone |
| `ar_safety` | 2 workers, 1 caller, 1 sport, 3 credits, calls of 2, 1 PUT, 1 fault | `RefusedOnce`, `AutomaticPullsSpaced` (with its exception: a manual pull reads its clock at 0 and stamps after a worker's stamp of 1), `WarnedOnCrossing` |
| `ar_live` | 1 worker, 2 sports, 1 credit, 1 PUT, 1 fault | `WatchedIsRefreshed`, `PauseEnds`; `RefusedOnce` with more than one sport due |
| `ar_switch` | 1 worker, 1 sport, 2 PUTs, no fault | **finding**: recording an outcome undoes a PUT |
| `qt_safety` | 2 threads, 2 fetches, a sport of 2 events, 2 versions of its odds, 2 books, 1 watch, 1 fault | `LiveIsCurrent`, `NeverOlderThanServed` (the cache); `LatestIsNewestHistory`, `OneSnapshotPerMarket`, `LaterRefreshNotOlder`, `StampMeansIngested` (ingestion); `BoardOnlyGrows`, `BestBookAgreed`, `ToldExpiredIsExpired`, `PagesPartition` (what readers are told) |
| `ds_safety` | 1 browser, 2 requests, 1 notifier; up to 2 subscriptions, 3 tests and 1 fault, 4 together | `EnrolledIsActive`, `TestBurstBounded` |
| `ds_burst` | 1 browser, 2 requests, 2 tests | **finding**: two tests in one cooldown (`OneTestPerWindow`) |

Bounds. Two processes are enough for every race named above: each is between
one transaction that read and one that wrote. Two watches are needed for
deadlocks and for a transaction that both expires and fires. `MaxFaults` bounds
the transactions lost to errors and crashes. In `Deliveries`, `MaxTime` is a lease
plus enough for a takeover, a retry and an expiry after it; `LastWrite` and
`LastFault` keep writes and faults early enough for all of that to follow.
In `AutoRefresh`, two workers contend for the cycle lock
and a worker and a caller for the quota lock; a plan of 3 with calls of 2 leaves a
credit that is too little, which is where a balance, a refusal and a pause differ, and
lies on both sides of a floor of 2. `MaxTime` is one interval in `ar_safety` (enough
for a second pull), two in `ar_live`. `MaxPuts`, `MaxManual` and `MaxFaults` bound
what operators, requests and failures do.
In `qt_safety` the two versions of the odds differ in everything a refresh can meet: an
event withdrawn, one left without quotes, a tie broken, the order of the quotes
reversed (which deadlocks), a market added, a book twice, an outcome without a price. Two
fetches are one refresh per thread, so the run also starts from the state after one
sport refresh (`WarmOrCold`), where rows are replaced and not only inserted; a TTL of 1
and a clock of 2 moments tell live from incidental reuse. In `ds_safety` three tests are
what two threads can send in one cooldown, and one more. The cooldown is one moment of the
two, so that it ends in the run: a test is refused, then allowed again, and one that was
checked before it ended is written after. An event for
other destinations lets the notifier work beside them; two subscriptions are an old one
whose 410 comes late and a new one. `MaxMoves` of `MCDestinations` bounds
subscriptions, tests and faults together to four: two subscriptions with two tests, or
one with three, or with a fault in the place of one. No state of it is without a
next step: the notifier's loop goes on.
In `wl_live`, `LiveSpec` narrows the behaviours where liveness is costly: one watch is
still to be created, the event does not start, and a price that is offered stays, which
`FillableEventuallyFires` supposes of a watch in the end anyway. `wl_safety` has the rest.
Processes and watches (in `wl_safety`), workers (in `ar_safety`) and workers (in `dl_safety`) are
symmetric there, as are callers (in `qt_safety`), requests and tests (in `ds_safety`), and
the liveness runs use no symmetry. All runs but `qt_safety` check for
deadlock: a process can always begin again. `qt_safety` stops when its fetches,
versions and moments are used up.

Fairness. `WatchLifecycle!Fairness`: a transaction that has begun goes on, and
the database serves lock waiters and breaks deadlocks (strong fairness, because
a waiter is enabled only between other holders). `RecurringFairness` adds that some
process keeps refreshing the event, which is what Auto-Refresh does for a watched
event; that no reading of a fillable watch is for ever lost is the property, not an
assumption. That deadlocks do not recur for ever is a premise of
`FillableEventuallyFires`, stated in it. `Deliveries!FairSpec`: time passes, and each worker's loop takes its
next step, which `Run`, the sweep timer and `main`'s restart loop provide after
every error. `AutoRefresh!FairSpec`: some worker polls (the loop of
`auto_refresh_worker.py:65`, which outlives every exception), a cycle and a pull that
have begun go on (an upstream call ends, if only by its timeout, and the lock of a
recorder is held for one transaction), and time passes. Nothing is asked of the
operator, the watches, the provider's month or the failures.

## Proofs

`WatchLifecycleProofs` (for any number of watches, processes and faults, from
`ProcsAssumption` and `FaultsAssumption`). None of the invariants is inductive: that
a committed opportunity's watch is not active depends on what open transactions
have written. The inductive invariant `IInv` adds who may hold what: no two
transactions have written the same row or inserted the same key and a key in
flight is not committed (`LocksExclusive`), a row written as triggered comes with
its inserted opportunity in the same transaction (`WritesJustified`), and at every
`pc` the local sets are what the earlier statements left in them (`StagesDone`). One lemma per action
shows that it is preserved. From it follow the type invariant, the three state
invariants, the two action properties and the refinement: `Commit` is a contract
step with `C`, `F` and `R` the watches created, fired and retired, every other
step a stutter. What the contract's own steps keep (`Consistent`) and never do
(`NeverLiveAgain`) is proved of the contract and carried over (`ContractHolds`,
`NeverRevived`): a status may be overwritten, as the finding says, but never back to
active.

`DeliveriesProofs` (any events, destinations, workers, lease, delays and batch
size; `EventsAssumption`, `TimingAssumption`, `BoundsAssumption`). The heart is
`ClaimsLeased`: a token a worker holds is either the delivery's latest, and then the
row is locked for as long as the worker's own lease, or it is older, and then
that lease is over. A request runs only under a lease that is not over, so two
requests for one delivery would both hold its latest token, which only one worker
can. `FanOutsApart` and `OwedKept` carry fan-out: an open fan-out has locked its
events, and has not missed a destination it is owed to.

`AutoRefreshProofs` (any workers, requests, sports, intervals, floors, plan and
price; `ProcsAssumption`, `SportsAssumption`, `IntervalsAssumption`,
`FloorsAssumption`, `CreditsAssumption`, `BoundsAssumption`). Three arguments share
one invariant. `OneCycle` (a worker at work holds the cycle lock) keeps what a cycle
read of the automatic pulls true until it pulls itself: that is `DueIsOld`, from which
`Spacing` follows. It does not rest on stamps that only grow. Of a sport that no manual
pull has set back the row is no older than the last automatic stamp (`StampsOrdered`),
because a caller that overwrites that with an earlier reading puts the sport in
`setBack`, and only a worker's own stamp takes it out; and a reading that waits to be
written is never ahead of the clock (`StampsRead`). `OneRecorder` (a process about to record holds the quota lock and
has read the newest observation) gives `Warnings`. `RefusalsKnown` accounts for every
refusal: the worker that met it has still to record it, or the recorded balance
shows it, or a fault lost it; a worker that goes on pulling has none on account.

`ProviderCacheProofs` (any callers, keys and TTL; `CacheAssumption`,
`NoCallAssumption`). A load holds its key's lock alone, generations only grow, and
an entry's generation tells whether it was stored after a caller looked: a
queued live caller that finds a newer one knows that its load was answered after the
caller's arrival, or was the one exception. The versions handed out for a key never
exceed what is stored or under way, which gives `ResponsesAge`. Its theorems are
about `CacheSpec`, the cache with any callers.

`QuoteIngestionProofs` (any threads, events, versions of the odds, watches and faults;
`CacheAssumption`, `NoCallAssumption`, `IngestionAssumption`).
Refreshes implement `CacheSpec` (`RefreshesCache`: every step of one is a step of the
cache or leaves it alone), so the cache's theorems carry over. For the rest `IngestInv`
adds to the types and to the cache's invariant what holds at every place a thread can be:
`ThreadOK` (its event is stored or is its own to write, its place in the payload),
`QuotesPlaced` (the quotes it is through with have a market, stored or its own),
`MadeApart` (no two open transactions have inserted the same market, and none of these is
committed), `Progress` (of the feed, everything before the current event is in the
history) and `SinceKept` (what was committed when a refresh was asked for is no newer
than what its call must be handed). `QuotesPlaced` and `MadeApart` give `AnnouncedOnce`:
the commit that adds a market is the only one that inserted it. `Progress` at the stamp
is `StampsEarned`. `SinceKept` with the cache's floor is `LaterRefreshes`, across cache keys: the floor
is what upstream offered, not what a key holds. That a row replaced at the commit is the one looked at
(`BoardFollowsHistory`) needs only that a commit takes the rows of its books as it finds
them. That upstream's answers become well-formed quotes
(`AnswersList`, `OutcomesMapped`, `QuotesNormalized`) is proved of the filtering and
mapping of any answer, from the type of `Offers` alone.

`DestinationsProofs` (any browsers, requests, tests and notifiers, with the assumptions
of both modules). Every step of `DestSpec` is one of `Deliveries` or leaves its variables
alone, so `IInv` of `DeliveriesProofs` carries over (`OneSenderStill`). `Enrolment` needs
that a registration in flight read the subscription it will write, and
that what it read as active was active until a result disabled it, which is when the
browser counts as overtaken. `TestBursts`: the tests in a window all passed the
cooldown check before the first of them was written, and a thread checks once per test.

`QuoteEnginesProofs` is about the engines and the event list for any tables; it has no
behaviours. `Sorted` puts an element at the place its predecessors count. For a strict
total order of a finite set these ranks grow along the order and leave no gap
(`RankGrows`, `RanksTaken`), so the result lists every element once and in order
(`InOrder`). The key (-price, sportsbook) is a total order of one market's quotes and
(start or none, id) one of a table's events, which gives `RankingSorts`, `ListingSorts`
and, with the arithmetic of pages, `PagesShowAll`. `BestCanBeFilled` is why two paths
agree: a watch ranks only the quotes that meet its target, a board ranks all. Where one would
use induction over a set, the argument takes a first counterexample (`FirstOf`). A sum
over a set is bounded by its recursive equation (`SumBounds`); that a function with that
equation exists is proved as well (`SumExists`).

`QuoteReadersProofs` says what readers are told, whichever refreshes commit (with the
assumptions of `QuoteIngestionProofs`). The engines' lemmas need tables with one row per
key. That is an invariant of refreshes, `TablesKeyed`; it is inductive only beside
`MadeApart` (a market that a commit adds is in no table yet) and the way a commit takes the
rows of its books as it finds them. `TimesTold` says of a stored opportunity that its
announced expiry is no earlier than its own. `ReadersInv` is both with `IngestInv`.
`ExpiryTold` follows from `TimesTold`, whatever quotes came later. `BestBooks`: board,
recommendation, its audit event, watch and public event all take the best of one set, the
rows of a market. `PagesShown` is `PagesShowAll` of the stored events. `BoardGrows`
compares two states: a commit keeps every market and every book in it and replaces only a
book's own row, so markets read after a header show all that it counts.

The inductive invariants were also checked by TLC on the instances above. Every
safety property of the passing runs is proved. Only model-checked: the liveness properties
(`TransactionsEnd`, `FillableEventuallyFires`, `EventuallySettled`, `WatchedIsRefreshed`,
`PauseEnds`), which rest on fairness and ENABLED.

## Findings

* `ExitsAreTerminal` (code bug): cancelling reads, then updates by id alone, and
  overwrites `triggered`; evaluations update by id alone what they listed before, and
  overwrite `cancelled`.
* `GoneHasNothingPending` (divergence): a fan-out in flight escapes `gone`.
* `SwitchAsLastSet` (code bug): `record_outcome` upserts the settings it read, and
  a PUT that committed in between is lost, the switch included.
* `OneTestPerWindow` (code bug): `destination_service.py:12-13` promises "One test per
  destination per window. A test is a real push through the real pipeline, so a
  held-down button must not become a burst at the push service." `send_test` reads the
  latest test and inserts its own later, under no lock: requests whose checks overlap all
  pass, so a window may hold as many tests as the API has threads. `TestBurstBounded` is
  that weaker bound; it is what the code keeps, not what the comment says.

## Assumptions to know

* The notifier's and the database's clocks agree. A worker's deadline is the
  database's `locked_until` read against its own clock; a worker whose clock is
  behind sends past its lease, and `NoConcurrentSend` is lost.
* `FillableEventuallyFires` supposes that the deadlocks come to an end. Two evaluations
  of two watches that recur for ever may deadlock every time in an adversarial schedule
  that alternates the victim (without the premise `wl_live` shows it):
  `list_active_watch_intents` has no ORDER BY and the victim's evaluation is only logged.
* `AutomaticPullsSpaced` counts from the clock that one automatic pull stamped at its end
  to the start of the next, and has an exception. A manual pull that reads its clock
  before an automatic one stamps, and writes after it, sets the stamp back
  (`quote_ingestion_service.py:233`, `quote_ingestion_uow.py:162-169`): the sport is due
  again although its last pull is less than an interval old. `auto_refresh_cadence_engine.py:8-10`
  says that a sport is due when "its last sport-wide pull is at least one interval old",
  "so a manual pull pushes the next automatic one back by itself"; here it brings it
  forward. Nothing is promised of the sport until its next automatic pull. `ar_safety`
  reaches this, and without the exception the property fails there. A manual
  pull while a cycle is under way does not stop that cycle's own, a
  pull that fails after it was paid is not counted, and the connection that holds the
  cycle lock is taken to live as long as its process.
* `WarnedOnCrossing` speaks of recorded balances. Readings are recorded in the order
  of the lock, which need not be the order in which the provider counted.
* `RefusedOnce` starts again with each observation that shows credits. A balance of less
  than the cost of a call does, so a refused call per interval goes on until the month's reset.
* `LapsedAtReadingNeverFires` is relative to the reading of the clock: a TTL that
  passes while the evaluation runs does not stop it.

* `LiveIsCurrent` has an exception. A load that upstream answered before a click and
  that is stored after it serves the click: ADR-0011:26 says "without ever handing
  anyone a price older than their own click". One process is modelled; two processes
  have a cache each and can only do worse by as much as their loads overlap.
* `LaterRefreshNotOlder` speaks of refreshes that begin after the other's commit. Of two
  that overlap, the one that commits last wins, which may be the older payload.
  `ingested_at` is read when `persist_quotes` begins and may go backward as well.
* Two clicks on one event are coalesced by the cache into one upstream call, and then
  both persist its payload: the second fails with an IntegrityError (`Lose`).
* A refresh never deletes what upstream has withdrawn: `quote_removed`
  (stages-5-6-data-flows.md:454) does not occur. "is_valid=true (within TTL, quote
  unchanged)" (:452) has an exception: a refresh that read its clock before the evaluation began
  and commits after it leaves a changed quote that is not newer than the opportunity.
* The public event's `expires_at` runs from its announcement (public_events.py:152), not
  from the opportunity's `created_at`; it is the later one, which is why
  `ToldExpiredIsExpired` holds and its converse does not. The event's `quoted_at` is read after
  the price it stands beside.
* `_Entry` documents its generation as counted per key; the counter is the cache's, which
  serves as well.
* Creating a watch evaluates it without asking whether the event has started, as the
  evaluation after a refresh does: models.py:368 says of a started event that it "can no longer
  produce an opportunity".
* An expired watch may still be cancelled by DELETE. The listing of expired watches reads
  with two statements, and one that expires in between is in neither.
* `EnrolledIsActive` has an exception: a 404 or 410 for an earlier subscription that is
  recorded after the browser subscribed again. The service promises that "a `gone`
  destination is revived"; it is, by the next registration. Two first registrations at a
  time are not idempotent (one fails on the unique address), and a registration that
  commits late may put older keys over newer ones.
* `TestBurstBounded` allows as many tests as threads check together (the finding above).
  The API compares its own clock with the database's `created_at`; the model has one.

## Plan

1. done: `WatchContract`, `WatchLifecycle`, `Deliveries`, `AutoRefresh` (with the
   quota), `ProviderCache`, `QuoteIngestion` with `QuoteEngines`, `EventReads` and
   `WorkflowEvents`, `Destinations`, and the proofs of all their safety properties.
2. `list_watch_intents` and `get_watch_intent` over the lifecycle's states: effective
   status, and the listing of expired watches by two statements.
3. Quota readings in the provider's order as well as the recorders', to say what a late
   reading can do to the warning and the pause; cycle locks whose connection is lost;
   two processes with a cache each.

## Not modelled

* The API's request parsing, configuration and composition: no state.
* Migrations: the schema they end in is what the models use.
* The frontend, a client of the API; scripts and documents.
* Envelopes, JSON schemas and push encryption: formats, with no property about them.
* The recommendation's transaction has no action: it reads, inserts rows that nothing
  reads back, and races with nothing. What it reads and inserts is an operator.
* Logging, and the publishers of committed audit events, which log them or keep them in
  memory.
