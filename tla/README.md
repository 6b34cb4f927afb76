# Crawmatic in TLA+

Crawmatic monitors competitor prices. An API and a scheduler create *scrape jobs*;
Celery workers batch a job's *targets*, send the batches to Scrapyd nodes and sweep up
behind them; spiders on the nodes crawl, over plain HTTP or with a browser, directly or
through a paid proxy, and write observations back; an outbox carries every follow-up
(finalize, re-dispatch, recompute, webhook event) from a committed transaction to a task.
Around this sit the budgets a paid request is charged to, the statistics the access
strategy of a domain is learned from, the maintenance that rolls up and deletes, and the
API's tenancy, accounts and alarms. PostgreSQL (READ COMMITTED), Redis and the Scrapyd
nodes share no transaction, Celery delivers at least once, and each process may stop at
any line. Money is at stake in both directions: a batch that runs twice pays the proxy
twice, and one that is forgotten never has a price.

The modules here state what the code promises in that setting, check it on small
instances with TLC, and prove the most consequential of it for every size with TLAPS.
`PROJECT.json` names the lines each operation and each piece of state models; a small helper
is covered by the entry of the operation it serves.

## 1. The system's parts

| Part (source) | State | Operations | What is hard | What makes it correct |
|---|---|---|---|---|
| Dispatch intents and client (`jobs/dispatch_intents.py`, `scrapyd/`) | intent row, Redis guard per batch identity, runs on nodes | plan, reconcile, claim, POST, confirm, fail, record absence, mark missing, cancel fence | crash between POST and commit, TTLs racing requests, a node that forgets, a denial of a run on its way | a batch is live at most once but for four named events; a stamp means a run; MISSING only for what does not run |
| Dispatch planning (`tasks_jobs.py`, `jobs/batching.py`, `coalescing.py`, `nodes.py`, `node_load.py`) | targets, batches, placements, reservations | resolve, cluster, chunk, place, reserve, commit, POST, recover | a delivery plans again over changed rows and loads | the plan partitions the work, one node per identity, no grant left behind |
| Jobs and targets (`tasks_jobs.py`, `jobs/`) | job and target rows | dispatch, recover, claim, mark, finalize, cancel, reap | read-decide-write without locks by five kinds of process | a finalized status is true; no live claim is reaped by age; everything ends |
| Outbox and webhook events (`outbox/`, `tasks_webhooks.py`) | messages, Redis dedup keys, broker copies | write, drain, sweep, consume | publish before commit, late acknowledgement, debouncing | what was inserted is followed by its task |
| Persistence and result spool (`pipelines.py`, `result_spool.py`) | on-disk spool, buffer, quarantine, observation rows | append, flush, replay, quarantine | death between commit and unlink, two spiders on one file | nothing lost, one observation per item |
| Cost authorization (`costauth/service.py`) | reservations, workspace and fleet budgets | authorize, renew, accrue, settle, release, lease sweep, cancel | concurrent holds, replays, a cancellation that read early | counters equal what live grants hold; limits kept; each cost charged once |
| Fleet caps, entitlements (`fleet_budget_policy.py`, `entitlements.py`) | caps per month, entitlement row | carry over, script, replicate, seed, brake, refresh | redelivery, month boundary | each month ahead has its cap; the newest version rules; a gate opens on fresh evidence |
| Network ledger (`netledger/recorder.py`, `buffer.py`, `netledger_middleware.py`) | one row per operation, host-wide queue | open, close, defer, flush, close dangling | failures before or after a commit, two flushes at once, crashes | no socket without a row; no close lost; each cost accrued once |
| Network settlement (`netledger/reconcile.py`, `rollups.py`, `ledger_summaries.py`) | windows, settlements, day rows, summaries | reconcile, roll up, summarise, delete | late costs, overlapping windows, two workers | nothing deleted before it is summed; rows carry the version they came from |
| Access decision, proxy breaker (`access/`) | counters, month budget, breaker row and caches | decide attempt, evaluate, trip, reset | stale cache, Redis away | paid traffic stays in budget and stops after a trip |
| Admission (`limiter/`, spider) | slots, leases, match locks, deferrals | acquire, fetch, requeue, defer, release | TTLs lapse under a live holder, process death | nothing leaks; one fetch per match; bounded in flight |
| Browser spider (`scrapers-browser/`) | context pool, page slots, ledger rows | open, fetch, hard timeout, close | hung page, closing under a request | pool accounts for each context; no row left open |
| Target resolution (`access/resolution.py`, `targets.py`, `onboard_competitor.py`) | policies, rules, learned timeouts, cache | load, edit, onboard | soft references, several reads, cache | own workspace only; bounded staleness |
| Extraction, offer adapters (`candidate_ranking.py`, `adapters/`) | page documents, candidates, outcomes, shadow events | rank, compare, resolve variant | order of strategies, shared fetch, a drain that rolls back | the verdict does not depend on which strategy ran first; no dissent unsaid; no false delisting |
| Scheduling, fair queue (`scheduling/`, `refresh.py`) | rules, occurrences, demand, deficits | claim, fire, back off, share | two schedulers, crash after claim | a slot fires once; shares by weight |
| Cadences, daily rollup, retention (`maintenance/`) | deadlines, watermark, partitions | tick, walk, checkpoint, drop | late rows, redeliveries, crash in a walk | a dropped partition is rolled up; one send per deadline |
| Strategy statistics, discovery, ladder (`strategy/`, `tasks_strategy.py`) | Redis buffer, profiles, runs, scan cursor, budgets | drain, promote, switch, roll back, rediscover, scan, walk | drain commits later than it deletes; redelivery | each outcome counted once; bounded runs; quarantine has an exit |
| Price analysis, alerts (`tasks_analysis.py`, `alerts/`) | benchmarks, alert row, events | recompute, decide, transition | overlapping recomputes | verdict monotone in price; last event is the state |
| Catalogue, cursor pages (`catalog/`, `matches/`, `pagination.py`) | products, variants, matches, cursors | create, patch, delete, bulk upsert, page | ceilings under concurrency, ties on the key | bulk means sequential; nothing skipped or returned twice |
| Domain lifecycle, control plane (`domains/`, `control_plane/`) | domain state, audit, caches, intents, rules | certify, refuse, declare, drive | cached grants, concurrent operators | active only approved; driven as declared |
| Tenancy, accounts, API admission (`database.py`, `deps.py`, `routers/`) | server settings, sessions, keys, tokens, counters | bind, reset, read, rotate, admit | pooled connections, caches, a store that is away | a request reads its own workspace only; revocation bounded |
| Alarms, readiness, release gate (`opsmetrics/`, `ready.py`, `heartbeat.py`, `run_gate_d_canary.py`) | snapshot, heartbeats, bundle files | collect, evaluate, beat, probe, sample, sign | a failed read poisons a session; zombies; partial files | blind spots are said; ready is earned; worse facts never help |
| Evidence store (`evidence_store.py`) | blobs by hash, observations | file, sweep | late reference to a swept blob | evidence in its window is lost only to that race |

Not modelled: see section 7. The hazards, each at its line with the properties that would
catch it, are in `PROJECT.json` under `hazards`.

## 2. Modules and how they correspond to the code

A component has one module, with its state as variables, one action per operation or,
where another process may come between, one per stretch between two commits, calls or
unlocks. An action is named after the function it models where one function is one action.
A constant that caps what the code leaves open is called `Max...` and appears in guards only.

*Dispatch.* `DispatchIntents` is one POST of a batch and everything that settles it:
`schedule()` step by step, the guard and its sentinel, the answers of a node as snapshots
applied later, the reconciler, the recovery whose intent store writes in its caller's
transaction (`CallerOwned`), and the cancel fence. `DispatchPlan` is how a delivery derives
the batches. `JobLifecycle` takes a dispatch as one step and models what every process then
does to the job's rows: the ORM reads a row, decides on the copy and writes the changed
columns by primary key without a version check, so each read-decide-write is two actions
over a local copy; bulk `UPDATE ... WHERE` statements are one.

*A fetch.* `TargetResolution` (which policy a target is loaded with), `AccessDecision` and
`ProxyBreaker` (whether and how the next attempt may be made), `Admission` (the gates of a
run and all paths that give a grant back), `BrowserFetch` (one browser process),
`LedgerRecorder` (the row around each socket and the queue behind it), `PriceExtraction`
and `OfferAdapters` (what is read off the answer), `EvidenceRetention` (the page kept).

*After a fetch.* `ResultSpool` and `Outbox` carry results and follow-ups over crashes;
`StrategyFlush`, `MethodLadder`, `DiscoveryRuns` and `DiscoveryScan` learn from outcomes;
`PriceAnalysis` decides alerts; `NetworkSettlement` and `DailyRollup` sum and delete.

*Money.* `CostAuthorization` is the service with its counters, leases and sweeps.
`BudgetLedger` says what a budget promises without any of them: grants known with what they
hold and spent, admission against their sum, spending and returning. `CostAuthorization`
implements it under the refinement mapping `Ledger`, until the cancellation race named
`raced` lapses the promise (`inForce`). `FleetCaps` and `Entitlements` are the inputs.

*Around.* `RefreshScheduler`, `FairQueue`, `MaintenanceCadence`, `ControlPlane`,
`DomainLifecycle`, `Catalogue`, `KeysetPaging`, `TenantSessions`, `Accounts`,
`ApiAdmission`, `OpsAlerts`, `Readiness`, `GateDCanary`.

*For TLC.* `MCCrawl`, `MCWork`, `MCData`, `MCFetch`, `MCControl` and `MCLive` each gather
components of one area. One component is extended and keeps its own variables; the others
are `INSTANCE`d over a shared bank of registers `v1, v2, ...`, in the order of their
variables. The variable `part` says which component a behaviour exercises; the others rest.
This is an economy of runs, not a composition: a state belongs to one part, so the union
has the sum of the parts' states. Where two components do meet, the meeting is inside a
module: the cancel fence in `DispatchIntents` and `JobLifecycle`, the recorder's closes in
`CostAuthorization`, the flush in `JobLifecycle`, the shadow events in `PriceExtraction`.

History variables record what rows do not: `excuse`, `raced`, `rewritten`, `overran`,
`overlapped`, `reused` and the like are kept for the properties only. They name the race
a promise does not survive, so that the promise can be stated, and checked, without it.

## 3. Runs

| Run | Module, configuration | Question |
|---|---|---|
| `crawl` | `MCCrawl`, `Crawl.cfg` | Does a batch run at most once but for four named events, does a stamp mean a run, does MISSING mean not running, does nothing follow the fence, is the plan whole? |
| `work` | `MCWork`, `Work.cfg` | Is what is recorded of a job true, is a live claim never reaped by age, are verdicts sound, does the catalogue mean what it says, do pages skip nothing? |
| `data` | `MCData`, `Data.cfg` | Does what was committed survive: messages, results, rollups, settlements, statistics, holds? |
| `fetch` | `MCFetch`, `Fetch.cfg` | Is every socket booked and charged once, is money stopped when it must be, does nothing leak, is a page judged the same whichever strategy ran first? |
| `control` | `MCControl`, `Control.cfg` | Are tenants apart, accounts and caps kept, schedules as declared, alarms and readiness honest? |
| `settles` | `MCLive`, `Settles.cfg` | Does cost authorization implement the budget ledger; do grants, open dispatches and late jobs end? |
| `drains` | `MCLive`, `Drains.cfg` | Does a pending message leave the outbox? |
| `live` | `MCLive`, `Live.cfg` | Do fetches end, and does the upkeep (schedule, scan, settlement, rollup) catch up? |
| `double_run` | `DispatchIntents`, `DoubleRun.cfg` | violation of `NoDoubleRun` |
| `cancel_overwritten` | `JobLifecycle`, `CancelOverwritten.cfg` | violation of `CancelledIsFinal` |
| `better_price_hidden` | `MCData`, `BetterPriceHidden.cfg` | violation of `NewerAsGoodIsShown` |
| `budget_unasked` | `MethodLadder`, `BudgetUnasked.cfg` | violation of `AttemptsWithinBudget` |

A property of a union names its parts: `HoldsKept`, for instance, is the conjunction of six
properties of `CostAuthorization`, each stated and commented in that module. In the union it
reads `part = "cost" => ...`; it is about a component, and about every reachable state of it.

**Bounds.** They are chosen so that each race the component knows can happen, and no larger.

* Dispatch: one identity with two deliveries, one of them a recovery, and two POSTs reach
  every clause of the protocol. Two ordinary deliveries with the shortest timings the
  assumptions allow (`Twins`) reach the denial that is older than a POST; the witness rule
  needs two identities on one node with a history of one. The clock passes the lease, the
  window and both TTLs; the lease and the TTLs are longer than a request, the horizon longer than the
  window, as in the settings. The plan has two targets over eight kinds, two passes and one fault: enough to
  plan, lose a load answer, and plan again with other clusters.
* Jobs: one target with two claims (a first run and a recovered one) for the timed
  part, a clock past every timeout; two targets for a mixed verdict; an operator in a part
  of its own.
* Outbox: two producers of one key or none, of all three kinds, a drain and a worker;
  two drains over one message for the lock. Two attempts give a retry and a dead letter.
* Money: two grants over two workspaces and the fleet, an operation that costs more than
  its grant holds (2 against holds of 1), a limit that fits one hold but not both.
* Ledger: two operations, one of them a page, two processes, one failure and one crash; the
  priced sub-resource has a part of its own with one operation.
* Spool: three scrapes, one spider, batches of two. The third scrape of `spool` is a weak
  reading that meets no trouble (`ThirdUntroubled`) and lies past the override of the first;
  `batched` lets three prices meet within the override and without trouble (`PricesOnly`), so
  that two of them share a batch.
* Walks, pages, scans and rollups: three elements and chunks of one or two, so that a cursor
  stops inside, at and past the end; one late row; one crash.
* Ladder: two methods, the second one rationed to one selection per target, a budget of one
  attempt, a deadline of one tick, one retry, two passes over one target, one crash, one lost
  transaction and one defer; two failures, or a blocked share, open a circuit that a canary tries a tick later.
* Settlement and statistics: one pass of each may abort after it has written.
* Canary: strata with floors of three and one over every database of four matches (`Kinds`) and two
  domains, for samples of two and three: a floor may exceed its supply, its places, or neither.
* The rest: two actors, two contended values, timeouts of one or two ticks in the settings'
  order, one crash, one outage.

A second kind of bound is on a behaviour as a whole, where two kinds of trouble that do not
meet would multiply. Each is a definition of its MC module and stands beside the `Next` it
restricts: `OneAtATime`, `PostedAtOnce` (`MCCrawl`); `FlushedInTime`, `CancelFlushedInTime`,
`FewChangesOrRuns`, `CatalogueNext` (`MCWork`); `ThirdUntroubled`, `PricesOnly`, `DiesOrAges`,
`PatchedAlone`, `SettledTwice`, `DiesOrTicks`, `WalksOrDies`, `CancelledAtOne`, `KeyedKinds`
(`MCData`); `Drawn` (`MCControl`); `ReplayedBefore`, `FlushedInTime` (`MCLive`). None of them
holds back a step that a fairness condition names.

Symmetry is used for the sets a component never orders, and only in runs without liveness.
Deadlock is not checked: with a clock at its bound and every delivery done, each system stops.

**Fairness.** What is assumed is that schedulers go on and clocks run, never that an
unreliable step succeeds. `settles`: the lease sweep and processes' ends (a sweep may die,
not for ever: strong fairness); the reconciler's passes, which every node answers now and
again; the finalizer and the reaper, which beat starts; `<>TimeIsUp` says the clock of
the job reaches its end. `drains`: the scheduler starts a pass every few seconds; a pass may
die, but not each pass before it settles a message it could claim again and again, hence
strong fairness of claim, publish and commit. `live`: a request's own steps and its
hard timeout (the site owes nothing), a scheduler replica's steps, the scan's cadence, the
settlement tasks' steps, and, since another worker may hold the lock, strong fairness of the
rollup's cadence. Deliveries, spiders, operators and sites owe nothing.

## 4. What the code does not keep

Four statements of the repository are refuted by runs of their own, and each is a finding:

* `NoDoubleRun`: `schedule()` treats a read timeout of the POST as a failure, closes the
  intent as FAILED and deletes the guard although the node took the run.
* `CancelledIsFinal`: `dispatch_job` (and the finalizer) write the job's status from a copy
  read before the cancellation committed.
* `NewerAsGoodIsShown`: two prices of a match in one flush are collapsed to the newer one
  before the upsert compares confidences. If that one was read worse than the stored price
  the guard refuses it, and the other, newer than the stored price and read as well, is lost.
  What holds is `CurrentNotBehind`: the current price is behind an observed one only for a
  worse reading at least as new, and never by more than the override.
* `AttemptsWithinBudget`: the budget of a target is asked by its first selection only. The
  handoff to the next method, a retry, and the claim of a target that carries its method pass
  no budget, so what is fetched passes it. What holds is that the fetches are bounded by the
  rungs, the retries, the lost runs, the defers and the restarts by a pass that had not read
  the cursor (`WalkBounded`), and that a selection that is charged
  is charged once (`ChargedOnce`).

The modules state more sentences of the documentation that TLC refutes. Each is a
definition below its module's properties, quotes its source, and is checked by no run;
where a promise holds but for the race behind it, the run checks that. TLC refutes most
within the bounds of section 3; those marked with a size need that much more. The other
definitions no run names (`RunFinishes`, `AllEnd`, `FiredOncePerSlot`, `TripTakes` and their like) are the
stand-alone forms of what the runs check as steps of a union or under its fairness.

| Module | Refuted | Why |
|---|---|---|
| `DispatchIntents` | `ConfirmedNotReposted` | the reconciler confirms between two reads; the second takes CONFIRMED for "nothing to settle" |
| | `RecoveryNotReposted` | a recovery dies after its POST; POSTED rolls back with its transaction |
| | `MissingCorroborated` | `record_post` keeps the absence ledger of the previous POST |
| | `RacingDispatchRejected` | a dispatch past the fence check POSTs after the guards are deleted |
| | `WitnessVetoesDenials` | a recovery's CONFIRMED row is committed later than its `confirmed_at`; a pass in between sees no witness |
| `DispatchPlan` | `ClusterKept` | four targets, chunks of three: a cluster that fits a chunk is cut where the one before it ends |
| | `OnePostPerTarget` | three targets: a redelivery chunks what is left into other batches |
| `JobLifecycle` | `CompletedStays`, `CancelledTargetStays` | `mark_target` reads without a lock; a late DEFERRED overwrites |
| | `CancelledNeverPriced` | the flush reads the fence once, without a lock |
| | `ReapedHasNoLiveOwner` | the ended-run pass judges a row by an intent that is not its claimant's |
| `Outbox` | `EventRecorded` | the dedup key is set before the insert; a redelivery finds its own key |
| | `DebounceCovers` | the PENDING message a write deferred to is delivered before the writer commits |
| | `RecomputeRecorded` | the key of a rolled-back flush keeps the next one from recording its recompute |
| `CostAuthorization` | `HoldsExact` | a cancellation returns residuals it read without a lock |
| `Admission` | `SiblingsRegrouped` | a sibling of a handed-back fetcher is STARTED, not PENDING |
| `AccessDecision` | `DirectOnlyNeverProxies` | the browser rung of a DIRECT_ONLY policy may be proxied |
| | `PaidIsCounted` | a proxied attempt may be recorded under a method that is not counted as paid |
| `BrowserFetch` | `NoSlotLost` | the hard timeout of a page that is still opening leaves its slot taken |
| | `BlockedIsOwn` | rejections are kept by hostname, so another request's is read |
| | `StickyKept` | two sticky names of a provider: a reused context keeps the session it was opened with |
| `PriceExtraction` | `LostIsReported` | an event that rolls back with the transaction that drained it is in no count |
| | `EventHasPrice` | events are drained by the flush of another page than their own |
| | `PreferredLosesNoPrice` | the learned method is tried first and its answer stands |
| `MethodLadder` | `FallbackCharged` | the handoff reaches the rationed method without counting it |
| | `NeverRestarted` | a pass that read the target before its cursor was written starts it again |
| `ResultSpool` | `CurrentNamesObservation` | a flush replayed after its commit inserts nothing and still names its new id in the current price |
| | `RungForward` | an earlier hand-off that is replayed writes its rung over a later one |
| `StrategyFlush` | `PendingIsDirty` | an attempt recorded between the drain and its SREM is left unmarked |
| `DiscoveryRuns` | `SampledWithinCeiling` | a run that finds a winner, or is killed, leaves no row to count |
| `DailyRollup` | `CompleteMeansCovered` | a row that arrives behind the walk is not in a complete day |
| `NetworkSettlement` | `SettledOncePerWindow` | three runs that alternate between two windows settle the first one again |
| | `SettlementIsRolled` | a settlement commits while a rollup of its day is reading |
| | `CountedInOneRow` | a playbook version promoted in between rolls the operation into a second row |
| `OpsAlerts` | `DegradesIndependently` | the sections share a transaction; a failed read blinds the later ones |
| `PriceAnalysis` | `InactiveNotCounted` | an archived match stays in the benchmarks until a recompute |
| | `ClientPriceReflected` | the recompute an edit asks for may read before the edit commits |
| | `NoDuplicateEvent` | two recomputes overlap: neither reads the other's alert and both tell the transition |
| `KeysetPaging` | `StitchNeverMisses` | a competitor is deleted between the page and the stitching of names |
| `Catalogue` | `ProductHasVariant`, `RowKept` | moving a variant empties its product; duplicates of one batch collapse |
| `DomainLifecycle` | `GrantsApproved` | the edge is judged from a state that has been replaced |
| `OfferAdapters` | `SiblingOwnVariant` | two targets: a shared fetch is answered by the variant of one match |
| | `SeveralFitQuarantined` | the id names one variant and the barcode another: the first that fits is taken |
| `Entitlements` | `NeverRolledBack` | an older version may overwrite when both were read first |
| `ControlPlane` | `QuarantineReversible` | a later upsert does not bring a quarantined rule back |
| | `OneSweep`, `RepriceSweepsNothing` | a rule turned from MONITOR to REPRICE keeps the sweep it adopted |
| `MaintenanceCadence` | `CadenceNotLost` | a broker's error is swallowed and the claim of the deadline commits |
| `RefreshScheduler` | `FlakyNotParked` | two faults: each process keeps its own count, which another's firing does not clear |
| `FleetCaps` | `NeverOverwritten` | the task overwrites a limit written between its read and its write |
| `LedgerRecorder` | `DeferredCloseStands` | spider_closed closes a deferred operation as dangling before its replay |
| | `ReplayCollides` | two flushes at once write an unpriced sub-resource twice |
| `TenantSessions` | `NeverServedUnconfined` | a refused engine's identity is reused and not checked again |
| `Accounts` | `RedisErrorDenies` | a status that was cached is served while Redis is away |
| | `GivenKeyExists` | a repeated call is answered with a key whose own commit fails afterwards |
| `ApiAdmission` | `WithinBudgetAdmitted` | two credentials: what a limit refuses, another tenant's or one's own, still counts against the origin |
| `GateDCanary` | `SignedAsNoGo` | the decision written is the command line's, GO by default |
| | `EnqueuedSlaIsOfSample` | a rebuilt sample leaves the old SLA, and the hash of the target set is not read |
| | `CappedIsDrawnWhole` | a stratum whose floor exceeds its supply is skipped, drawn whole or not |
| | `LostFactsNeverHelp` | a certified domain without a rate passes the floor that failed it |
| `TargetResolution` | `LearnedTimeoutUsed`, `RuleTierHeld`, `FallsThrough` | the learned value is bypassed, re-running re-points a rule, a cached id does not fall through |
| `EvidenceRetention` | `EvidenceKept`, `NeverPartial`, `NextSweepContinues` | late references, a crash within the write, a walk that starts over |
| `Readiness` | `HungHidesNoOther`, `UnresolvedFails`, `HigherFenceStays`, `ZombieLockedOut` | two probe threads shared by all, a cached verdict, a beat that reads and then writes |

## 5. Proofs

The proofs hold for every number of identities, nodes, processes, producers, requests,
connections, targets and runs, and for every value of the constants that satisfies the named
assumption of the component's module. They assume nothing else. Each follows one scheme: an
inductive invariant `IInv` (or `TypeInv`) that the initial states satisfy and every action
keeps (one step per action, one leaf per conjunct), and that implies the property.

**`DispatchIntentsProofs`.** `TypeCorrect`: `TypeOK` is not inductive (an execution
writes the row of the identity it holds and reads the request it sent), so `TypeInv` adds that
a busy execution holds an identity and a waiting one has sent a request.
`StampedIsDispatched`: a stamped batch was taken by a node. The stamp is copied from a guard
or a row, the row from an answer or a guard, and a recovery's row lives in its open
transaction before anyone can read it; so `RunBacked` says, per identity, that either some
node has taken one of its runs (which lasts: `AcceptedStays`) or *nothing* anywhere claims
so: not the row, the guard, the stamp, the draft, an answer, nor the memory of an execution.

`CancelledWorkStops` (`PostsStopAfterFence`), an action property. A request leaves without
another look at the job, so the property depends on what was read before: `FenceInv` says of
an execution behind the fence check how late it can still be, by the question to the pool
it may be waiting for.

`DoubleRunNeedsACause` (`DoubleRunExcused`) and `MissingIsNowhere` (`MissingIsTrue`) follow
from one invariant, `BookInv`, for any number of batches, nodes, POSTs and executions. For a
batch that none of the four events befell:

* The *record* of a batch is its row, or the draft of the recovery that has yet to commit
  it. `Solo` makes that well defined: a recovery works alone on a batch without a row.
* `Book`: every run that is live or on its way is on the node the record names, and none on
  its way left after the record's POST; a record that permits a POST has no such run; and a
  denial, in the memory of an execution or in a pass of the reconciler, is either true or
  too young to settle anything.
* `Mutex`, until a cancellation: between its claim and the end of its POST an execution is
  alone, under a guard that outlives the request, and no run is about but its own.
* `Timely`: nothing remembered lies in the future, and no request is older than its timeout.

`LeaseAssumption` (the lease exceeds a request's way and timeout, as the setting's comment
demands) makes an old denial true; `GuardAssumption` (sentinel and guard exceed the request's
timeout: 120 seconds and more against 30) keeps the claim alive. An execution is taken to leave
its brief places, where nothing waits on a network, within a tick: a holder paused between
its claim and its POST for longer than the sentinel's TTL is outside the model, and outside
the theorem. Where one execution applies a denial that another's POST has overtaken, the invariant
has to name the event: this is `outdated`, which the two-delivery instance `Twins` reaches.

`ForgottenIsNoWitness` (`LostWitnessVetoes`, which the run checks within `WitnessVetoes`): no
batch is RECONCILED_MISSING on denials that began after a confirmed witness had vanished from
its node. The verdict is written passes after the first denial, so `WitnessInv` follows that
denial: when it began, every run confirmed on the node since the POST was still held
(`Vouched`). A run once held is held or goes later (`HeldStays`); a confirmation or a POST
made since is too late to matter (`VouchMove`). The last needs confirmations that commit as
they are made: the theorem is about jobs without a recovery at work, and without that
hypothesis TLC refutes it (section 4).

**`JobLifecycleProofs`.** `JobTypeCorrect`, with `CopyOK` bounding what the sessions' stale
copies of `plan` and `gen` will write back. `AgeReapSafe`, an action property: `ReapCommit`
sees only the row's `started`, the property is about the claimant, so `ClaimInv` joins
the two: a STARTED row's claimant has begun and, while live, has the row's clock, and no
live run is older than `RunMax`. Then a row older than `ReapAfter >= RunMax`
(`TimingAssumption`, the inequality the settings document) has no live claimant.
`FinalizerTellsTheTruth` (`FinalizedTruthful`): the finalizer decides from rows it does not
lock and commits later, as does a cancellation from a job it read before. `VerdictOK` says the
same of the verdict in hand as of the one committed, that a closed target nobody rewrote keeps
it (`VerdictStands`), and that whoever has read CANCELLED has read it of a raised generation.

**`LedgerRecorder`** (its proofs are in the module). Four properties of one invariant, for any number of processes, failures
and crashes. `AccruesOnce` (`AccruedOnce`): `CostOK` says a row that is not closed as real has
accrued nothing, `RowOK` that a request whose close has just succeeded has not accrued yet; an
accrual needs the row to have been open, or to be settling, and both end with it.
`ClosesKept` (`CloseKept`) and `ChildrenKept` (`ChildKept`): an event leaves the queue only
in `resolve`, and `QueueOK` says that what a flush resolves it has written. `RowsKept`
(`LedgerKept`): no socket without a row is `RowOK`; the second row of a sub-resource needs a
flush that looked before another one wrote, so `SeenOK` and `AloneOK` tie a stale look to two
flushes at once, which `overlapped` has noticed. The weaker sentences of section 4 fail exactly
where the invariant has to name these.

**`Outbox`** (its proofs are in the module). `NothingLost` (`InsertedCovered`), for any number of producers, passes,
workers, keys and attempts. The property is a disjunction over places a message may be, which no
single step decides; the invariant follows one message by its own row: a row exists only by a
commit and a copy only of a row (`RowOK`), a claimed message is PENDING and held by one pass
(`ClaimOK`, the SKIP LOCKED), a task that reads has its own producer in its snapshot (`TaskOK`,
because a copy exists only of a committed row), and what a pass has sent, or settled as sent,
has been delivered (`SentOK`). `SentOnce` (`SentNotReclaimed`) adds `HeldOK`: what was sent is
settled, or still held by the pass that sent it. Events with a dedup key are excluded, as in the property: for them
it is false (`EventRecorded`).

**`TenantSessions`** (its proofs are in the module). `TenantBoundary` (`OwnRowsOnly`) and
`SessionsAreSafe` (`SessionsSafe`), for any number of requests, tasks, connections and threads.
`ContextOK` is the heart: the current workspace of a held connection is what its session
wants, whatever the connection was left with, because the reset and the binding are part of
taking it; with `ConnOK` (a connection has one holder, who has a thread or is on its way out)
and `BoundOK` (a request that runs has its workspace) it gives what a query reads (`ReadOK`).
Stray session settings are allowed by the model and harmless for it.

**`Admission`** (its proofs are in the module), for any number of runs, nodes, matches, slots,
leases, tries and deferrals. `GrantsReturn`, `OneFetch`, `FlightBounded`, and the action
properties `Fenced` and `CommittedFirst`. What a task may hold (`Tidy`) and what one that
outlived none of its grants does hold (`Has`) are stated per program counter, so `NoLeak` is the
first and one fetch per match follows from the second: two requests on a match would both have its
lock. That a run does not compete with itself needs more: the groups it queues are apart
(`QueueApart`), none is queued and worked on (`QueuedNotBusy`), none worked on twice (`BusyApart`).
`WithinSizes` bounds the slots and leases as finite sets, of which the requests in flight are a
subset.

**`AccessDecision`** (likewise), for any policies, targets and windows. `BudgetHolds`
(`PaidWithinBudget`): the ledger counts before it answers, so what is paid is at most what is
charged (`PaidIsCharged`), and that at most the limit unless the deployment fails open.
`DeniedIsUnpaid` and `LadderIsFinite` rest on two lemmas about the operators: a degraded step is
direct and within the retries (`DegradedIsDirect`), and the engine's answer is a plan for the
next attempt or the end (`EngineAnswers`).

**`ResultSpool`** (likewise), for any number of items, spiders and jobs. `SpoolKeeps`
(`NothingLost`): a spool row is deleted only at the end of a flush whose items are in the
database, or of a move whose copy exists (`Handed`), and a replay works on what was scraped
(`Seen`). `ObservedOnce` (`OneObservation`). `NotBehind` (`CurrentNotBehind`) is not inductive: the
price that stands for its confidence may itself be replaced by an override, so `Behind` says that
the worse reading lies within the override of the current price as well; then a price that
overrides it is newer than every price it kept out (`CurrentOK`, one case per branch of the upsert).

The last three modules are instantiated, so their constants have no `ASSUME` that TLC would
evaluate. Their theorems carry the hypothesis instead (`Sizes`, `Settings`, `Sizes`: the types of
the settings, Nobody is no task, items are numbered from one), and the unions `FetchBounded`,
`PaidStops` and `HandedOnOnce` check it of the instances.

**Only model-checked.** Liveness (it needs fairness and ENABLED). The refinement
`KeepsLedger` and the properties of `HoldsKept`: they are about sums over sets of grants, a
recursive definition whose value for every set is an induction the provers cannot be given.
The bounds on counters in `ResultSpool!TypeOK`, and `PlanWhole`, `RollupsComplete`, and the
properties of the modules without a proof named above.

**Next to prove.** `WatermarkComplete` and `DroppedIsRolled` of `DailyRollup` (days walked
between the seed and the cursor; a row, once rolled, stays), then the rotation of `Accounts`.

## 6. What is abstracted inside a modelled part

A workspace, product, listing, domain, node, key or message is a model value; a price is one of
a few numbers that the decisions can tell apart, a currency one of two; a token or a password
is an identity that is equal or not, its arithmetic left out. Time is either a counter that
advances in steps the thresholds can tell apart, or, where only "later" matters, a step that may
happen. Wording, metrics, logs, tracing and the credentials of Scrapyd are left out.

PostgreSQL is taken at READ COMMITTED, as the sessions are opened: one statement is one step, a row
lock is held until the commit, `SKIP LOCKED` skips, a unique index refuses. Redis runs one command or
script at a time and may be away. A Celery message may be delivered twice and in any order.
Scrapyd keeps its runs in memory and loses them with its process. None of these is under `src/`; they are
modelled from how the code uses them and marked external in `PROJECT.json`.

## 7. What is not modelled

- *False-failure reconciliation and run purge.* Operator-run repairs over jobs that have ended;
  they read what the lifecycle leaves and have no protocol of their own.
- *Profiles, scorecards and the remaining endpoints.* Read-only aggregation, and single-row edits in
  one transaction per request.
- *Migrations and disaster recovery.* Schema changes, SQL and file copies run by hand.
- *In part:* the audit event of a job's cancellation; the grouping of a target's URLs, which is
  a function of their text; the parsing of money, HTML and robots files, abstracted to
  what it finds; the shared types and settings, which appear as the state and the constants of the
  modules that use them.
