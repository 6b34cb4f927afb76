------------------------------- MODULE MCLive --------------------------------
(* What must eventually happen, checked on small instances under each
  component's own fairness, restated for the part that runs: the cost ledger
  with its refinement, the outbox's drains, and the crawl, its fetches and the
  upkeep around them. One part runs in a behaviour; the variables of a part
  other than cost are the registers, in the order of its VARIABLES. *)
EXTENDS CostAuthorization, TLC

CONSTANTS Pair, Second, w1, w2, k1

VARIABLES part, v1, v2, v3, v4, v5, v6, v7, v8, v9, v10, v11, v12, v13, v14, v15, v16

\* What is authorized: a batch of one workspace, a discovery run of another.
ForJob(w, k, n) == [ws |-> w, key |-> k, job |-> TRUE, kind |-> "batch", est |-> n]
ForDiscovery(w, k, n) == [ws |-> w, key |-> k, job |-> FALSE, kind |-> "discovery", est |-> n]
Asked == {ForJob(w1, k1, 3), ForDiscovery(w2, None, 2)}
Limits == (w1 :> 6) @@ (w2 :> 2) @@ (Fleet :> 5)

\* The pages a browser fetches: two hosts, one of them document-only.
PageOf(h, p, s, c) == [host |-> h, provider |-> p, sticky |-> s, certified |-> c]
PagesFetched == {PageOf("shop", "none", 0, TRUE), PageOf("mart", "p1", 1, FALSE)}

Out == INSTANCE Outbox WITH
    now <- v1, prod <- v2, row <- v3, redis <- v4, drain <- v5, queued <- v6,
    work <- v7, seen <- v8, events <- v9, raised <- v10, sent <- v11,
    Producers <- {"p1"}, Drains <- Pair, Workers <- {"w1"}, Keys <- {"k1"},
    NoKey <- None, Kinds <- {"sweep"}, MaxAttempts <- 2, BackoffBase <- 1,
    MaxBackoff <- 2, BatchLimit <- 2, Delay <- {0}, Retention <- 0, MaxQueued <- 1,
    MaxTime <- 2
Admit == INSTANCE Admission WITH
    row <- v1, run <- v2, pending <- v3, task <- v4, slot <- v5, lease <- v6,
    lock <- v7, defers <- v8, crashes <- v9, lapses <- v10, overran <- v11,
    Runs <- Pair, Matches <- {"m1", "m2"}, Nobody <- None, Slots <- 2, Leases <- 1,
    MaxTries <- 1, MaxRequeues <- 0, MaxDefers <- 0, MaxCrashes <- 0, MaxLapses <- 0
Browser == INSTANCE BrowserFetch WITH
    target <- v1, pc <- v2, ctxs <- v3, pool <- v4, lock <- v5, closing <- v6,
    hung <- v7, op <- v8, profiles <- v9, rejected <- v10, cause <- v11, res <- v12,
    passed <- v13, under <- v14, leaked <- v15, over <- v16, Requests <- Pair,
    Targets <- PagesFetched, ListedHosts <- {"shop"}, MaxContexts <- 1, MaxPages <- 1
Schedule == INSTANCE RefreshScheduler WITH
    now <- v1, rule <- v2, row <- v3, occ <- v4, pass <- v5, ledger <- v6, fair <- v7,
    late <- v8, faults <- v9, crashes <- v10, edits <- v11, Rules <- {"r1"},
    Replicas <- Pair, Interval <- 3, BackoffBase <- 1, BackoffMax <- 4, Batch <- 1,
    MaxAttempts <- 2, MaxNow <- 4, MaxFaults <- 1, MaxCrashes <- 1, MaxEdits <- 0
Scan == INSTANCE DiscoveryScan WITH
    status <- v1, stale <- v2, pending <- v3, cursor <- v4, scan <- v5, crashes <- v6,
    changes <- v7, Profiles <- {1, 2, 3}, Scans <- {"s1"}, Chunk <- 2, MaxCrashes <- 1,
    MaxChanges <- 1
Net == INSTANCE NetworkSettlement WITH
    day <- v1, clk <- v2, closed <- v3, gone <- v4, summary <- v5, settled <- v6,
    imported <- v7, ver <- v8, rows <- v9, rolledAt <- v10, wm <- v11, wk <- v12,
    runs <- v13, bumps <- v14, aborts <- v15, Navs <- {"n1"}, Subs <- {"s1"},
    NavOf <- ("s1" :> "n1"), Windows <- {"u1"}, Covers <- ("u1" :> {"n1", "s1"}),
    LastDay <- 2, ChildAge <- 1, Workers <- Pair, MaxBumps <- 0, MaxRuns <- 1,
    MaxAborts <- 1
Daily == INSTANCE DailyRollup WITH
    today <- v1, obs <- v2, part <- v3, priced <- v4, roll <- v5, comp <- v6, wm <- v7,
    seed <- v8, wk <- v9, walked <- v10, redone <- v11, crashes <- v12, N <- 2,
    BatchLimit <- 1, LastDay <- 3, PartDays <- 1, Lookahead <- 1, Retention <- 1,
    MaxDays <- 1, SeedLag <- 1, Workers <- {"w1"}, MaxLate <- 1, MaxPrice <- 0,
    MaxRedo <- 0, MaxCrashes <- 1
Dispatch == INSTANCE DispatchIntents WITH
    now <- v1, gen <- v2, cancelPc <- v3, intent <- v4, guard <- v5, stamped <- v6,
    run <- v7, hist <- v8, me <- v9, sweepAt <- v10, verdict <- v11, excuse <- v12,
    fencedAt <- v13, Identities <- {"i1"}, Nodes <- {"n1"}, Deliveries <- {"d1"},
    CallerOwned <- {}, Cancellable <- FALSE, MaxTime <- 2, MaxPosts <- 1,
    HttpTimeout <- 1, NetDelay <- 1, Lease <- 2, Quorum <- 2, Window <- 1,
    Horizon <- 3, SentinelTTL <- 2, GuardTTL <- 3, Keep <- 1
Job == INSTANCE JobLifecycle WITH
    now <- v1, job <- v2, lock <- v3, tgt <- v4, run <- v5, flush <- v6, disp <- v7,
    rec <- v8, fin <- v9, can <- v10, reap <- v11, owner <- v12, rewritten <- v13,
    latePrice <- v14, Targets <- Pair \ {Second}, Dispatchers <- {"d1"},
    MaxCancels <- 0, MaxRuns <- 1, MaxPlans <- 1, MaxTime <- 2, Stall <- 0,
    RunMax <- 1, EndedAge <- 0, ReapAfter <- 1, Deadline <- 1

\* The registers from the k-th on, unused: at rest, and left alone.
Free1 == v1 = 0 /\ v2 = 0 /\ v3 = 0 /\ v4 = 0 /\ v5 = 0 /\ v6 = 0 /\ v7 = 0 /\
         v8 = 0 /\ v9 = 0 /\ v10 = 0 /\ v11 = 0 /\ v12 = 0 /\ v13 = 0 /\ v14 = 0 /\
         v15 = 0 /\ v16 = 0
Free8 == v8 = 0 /\ v9 = 0 /\ v10 = 0 /\ v11 = 0 /\ v12 = 0 /\ v13 = 0 /\ v14 = 0 /\
         v15 = 0 /\ v16 = 0
Free12 == v12 = 0 /\ v13 = 0 /\ v14 = 0 /\ v15 = 0 /\ v16 = 0
Free13 == v13 = 0 /\ v14 = 0 /\ v15 = 0 /\ v16 = 0
Free14 == v14 = 0 /\ v15 = 0 /\ v16 = 0
Free15 == v15 = 0 /\ v16 = 0
Free16 == v16 = 0
Kept1 == UNCHANGED <<v1, v2, v3, v4, v5, v6, v7, v8, v9, v10, v11, v12, v13, v14, v15,
                     v16>>
Kept8 == UNCHANGED <<v8, v9, v10, v11, v12, v13, v14, v15, v16>>
Kept12 == UNCHANGED <<v12, v13, v14, v15, v16>>
Kept13 == UNCHANGED <<v13, v14, v15, v16>>
Kept14 == UNCHANGED <<v14, v15, v16>>
Kept15 == UNCHANGED <<v15, v16>>
Kept16 == UNCHANGED <<v16>>

\* Bounds on a behaviour as a whole: a redelivery is answered before an operation
\* opens, and no flush begins at the last tick of the clock.  Neither holds back
\* a step that a fairness condition names.
ReplayedBefore == replays' = 0 \/ \A o \in Ops : op'[o].st = "none"
FlushedInTime == v1' = 2 => v6'[1].pc = "none"

MCInit ==
  \/ part = "cost" /\ Init /\ Free1
  \/ /\ Init
     /\ \/ part = "outbox" /\ Out!Init /\ Free12
        \/ part = "admission" /\ Admit!Init /\ Free12
        \/ part = "browser" /\ Browser!Init
        \/ part = "schedule" /\ Schedule!Init /\ Free12
        \/ part = "scan" /\ Scan!Init /\ Free8
        \/ part = "settle" /\ Net!Init /\ Free16
        \/ part = "daily" /\ Daily!Init /\ Free13
        \/ part = "dispatch" /\ Dispatch!Init /\ Free14
        \/ part = "job" /\ Job!Init /\ Free15

MCNext ==
  \/ part = "cost" /\ Next /\ ReplayedBefore /\ Kept1 /\ UNCHANGED part
  \/ part = "outbox" /\ Out!Next /\ Kept12 /\ UNCHANGED <<part, vars>>
  \/ part = "admission" /\ Admit!Next /\ Kept12 /\ UNCHANGED <<part, vars>>
  \/ part = "browser" /\ Browser!Next /\ UNCHANGED <<part, vars>>
  \/ part = "schedule" /\ Schedule!Next /\ Kept12 /\ UNCHANGED <<part, vars>>
  \/ part = "scan" /\ Scan!Next /\ Kept8 /\ UNCHANGED <<part, vars>>
  \/ part = "settle" /\ Net!Next /\ Kept16 /\ UNCHANGED <<part, vars>>
  \/ part = "daily" /\ Daily!Next /\ Kept13 /\ UNCHANGED <<part, vars>>
  \/ part = "dispatch" /\ Dispatch!Next /\ Kept14 /\ UNCHANGED <<part, vars>>
  \/ part = "job" /\ Job!Next /\ FlushedInTime /\ Kept15 /\ UNCHANGED <<part, vars>>

mcvars == <<part, vars, v1, v2, v3, v4, v5, v6, v7, v8, v9, v10, v11, v12, v13, v14,
          v15, v16>>
MCSpec == MCInit /\ [][MCNext]_mcvars

\* The fairness of the sweeps of the crawl, and a clock that reaches its end.
CrawlFairly ==
  /\ WF_(Dispatch!vars)(part = "dispatch" /\ Dispatch!SweepScan({"n1"}))
  /\ WF_(Dispatch!vars)(part = "dispatch" /\ Dispatch!SweepSettle("i1"))
  /\ <>(part = "job" => Job!TimeIsUp)
  /\ WF_(Job!vars)(part = "job" /\ Job!FinalizeRead) /\ WF_(Job!vars)(part = "job" /\ Job!FinalizeCommit)
  /\ WF_(Job!vars)(part = "job" /\ Job!ReapScan) /\ WF_(Job!vars)(part = "job" /\ Job!ReapCommit)
  /\ WF_(Job!vars)(part = "job" /\ Job!CancelFence) /\ WF_(Job!vars)(part = "job" /\ Job!CancelCommit)
  /\ WF_(Job!vars)(part = "job" /\ (Job!RecoverStamp \/ Job!RecoverSkips \/ Job!RecoverDies))

SettleInit == MCInit /\ part \in {"cost", "dispatch", "job"}
SettleSpec == SettleInit /\ [][MCNext]_mcvars /\ Fairness /\ CrawlFairly

DrainInit == MCInit /\ part = "outbox"
DrainSpec ==
  /\ DrainInit /\ [][MCNext]_mcvars
  /\ WF_(Out!vars)(part = "outbox" /\ Out!Tick)
  /\ \A d \in Pair : /\ WF_(Out!vars)(part = "outbox" /\ Out!DrainBegin(d))
                     /\ WF_(Out!vars)(part = "outbox" /\ Out!DrainEnd(d))
                     /\ SF_(Out!vars)(part = "outbox" /\ Out!DrainClaim(d))
                     /\ SF_(Out!vars)(part = "outbox" /\ Out!DrainPublish(d))
                     /\ SF_(Out!vars)(part = "outbox" /\ Out!DrainSettle(d))

\* The fairness of each component, for the part that runs.
RunFairly ==
  /\ \A r \in Pair : WF_(Admit!vars)(part = "admission" /\ (Admit!NextTarget(r) \/ Admit!Finish(r)
                                   \/ \E m \in {"m1", "m2"} : Admit!Step(<<r, m>>)))
  /\ \A r \in Pair : /\ WF_(Browser!vars)(part = "browser" /\ Browser!_browser_request_for(r))
                     /\ WF_(Browser!vars)(part = "browser" /\ Browser!open_sync(r))
                     /\ WF_(Browser!vars)(part = "browser" /\ Browser!HardTimeout(r))
                     /\ WF_(Browser!vars)(part = "browser" /\ Browser!parse(r))
                     /\ WF_(Browser!vars)(part = "browser" /\ Browser!errback(r))
  /\ \A p \in Pair : WF_(Schedule!vars)(part = "schedule" /\ Schedule!Step(p))
  /\ WF_(Scan!vars)(part = "scan" /\ Scan!Cadence("s1")) /\ WF_(Scan!vars)(part = "scan" /\ Scan!Step("s1"))
  /\ \A w \in Pair : /\ WF_(Net!vars)(part = "settle" /\ Net!Commit(w))
                     /\ WF_(Net!vars)(part = "settle" /\ Net!Roll(w))
  /\ SF_(Daily!vars)(part = "daily" /\ Daily!Cadence("w1"))
  /\ WF_(Daily!vars)(part = "daily" /\ Daily!RetentionDrop("w1"))

LiveInit == MCInit /\ part \in {"admission", "browser", "schedule", "scan", "settle", "daily"}
LiveSpec == LiveInit /\ [][MCNext]_mcvars /\ RunFairly

\* A message that is pending is handed on, given up on or waits past the bound.
DrainsOut ==
  (part = "outbox" /\ Out!Pending("p1"))
     ~> (part = "outbox" => ~Out!Pending("p1") \/ Out!ParkedAway("p1"))

\* A run that is on ends whatever its gates answer, and every browser request
\* ends whatever the browser does.
On(r) == \/ part = "admission" /\ Admit!Running(r)
         \/ part = "browser" /\ ~Browser!Ended(r)
FetchesEnd == \A r \in Pair : On(r) ~> ~On(r)

\* The crawl settles: a dispatch that a crash left open and its node lists, and a
\* job that is past its deadline, with every target of it.
Undispatched == part = "dispatch" /\ Dispatch!Unsettled("i1")
CrawlSettles ==
  /\ Undispatched ~> ~Undispatched
  /\ <>[](part = "job" /\ Job!PastDeadline) => <>[](part = "job" => Job!Settled)

\* The upkeep catches up: a due rule is claimed, a profile that needs discovery is
\* chosen, a cost settled late is rolled again, a day that is owed is rolled up.
Late == <<<<"n1", 1>>, <<"s1", 1>>, <<"n1", 2>>, <<"s1", 2>>>>
Behind(i) ==
  \/ part = "schedule" /\ i = 1 /\ Schedule!DueNow("r1")
  \/ part = "scan" /\ i < 4 /\ Scan!Required(i)
  \/ part = "settle" /\ Net!SettledLate(Late[i][1], Late[i][2])
  \/ part = "daily" /\ i < 4 /\ Daily!Owed(i)
CaughtUp(i) ==
  /\ part = "schedule" => ~Schedule!DueNow("r1") \/ Schedule!DeadEverywhere("r1")
  /\ part = "scan" /\ i < 4 => Scan!Chosen(i) \/ ~Scan!Required(i)
  /\ part = "settle" => Net!Rerolled(Late[i][1], Late[i][2])
  /\ part = "daily" /\ i < 4 => Daily!Rolled(i)
UpkeepCatchesUp == \A i \in DOMAIN Late : Behind(i) ~> CaughtUp(i)
==============================================================================
