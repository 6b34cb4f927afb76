------------------------------ MODULE MCControl ------------------------------
(* The services around a crawl checked on small instances: the tenant of a
  database session, the accounts behind an API key, the API's admission, the
  fleet's caps and fair queue, the control plane with the cadences and
  schedules it declares, the life cycle of a domain and its entitlements, the
  canary gate, the alerts and the readiness of a process. One part runs in a
  behaviour; the variables of a part other than tenant are the registers, in
  the order of its VARIABLES. *)
EXTENDS TenantSessions, TLC

CONSTANTS Pair, OtherPair

VARIABLES part, v1, v2, v3, v4, v5, v6, v7, v8, v9, v10, v11, v12, v13, v14, v15, v16

\* Fair queue: equal weights, a heavy and light ones, and one that is zero.
WeightsGiven == {<<2, 2, 2>>, <<4, 1, 1>>, <<2, 2, 0>>}

\* The canary's pools, and the commands run on one: five on the pool that can be
\* sampled in every way, one on the others.
Kinds == {k \in [class : {"ACTIVE", "REMOVED"}, labelled : BOOLEAN, domain : {"d1", "d2"},
                 strata : {{}, {"s1"}, {"s2"}, {"s1", "s2"}}] :
            /\ k.class = "REMOVED" => k.domain = "d1" /\ k.strata = {"s1"} /\ ~k.labelled
            /\ k.labelled => k.strata = {"s1"}
            /\ k.domain = "d2" => k.strata \in {{}, {"s1"}}}
PoolsDrawn == [1 .. 4 -> Kinds]
Plain == [class |-> "ACTIVE", labelled |-> FALSE, domain |-> "d1", strata |-> {"s1", "s2"}]
CommandsOn(p) == IF p = [i \in 1 .. 4 |-> Plain] THEN 5 ELSE 1

\* Two processes under one identity, and the images that may be deployed.
OneIdentity(p) == "worker"
ImagesBuilt == {[tree |-> TRUE, baked |-> "no head", env |-> "none"],
                [tree |-> FALSE, baked |-> "none", env |-> "other"]}

Acct == INSTANCE Accounts WITH
    ws <- v1, key <- v2, call <- v3, known <- v4, cache <- v5, redis <- v6, auth <- v7,
    downFor <- v8, lateBy <- v9, blind <- v10, token <- v11, parent <- v12,
    turn <- v13, fails <- v14, turns <- v15, Calls <- Pair,
    Spaces <- {"w0", "w1", "w2"}, Legacy <- "w0", Keys <- {"k0", "k1", "k2"},
    LegacyKey <- "k0", Clients <- {"a"}, Tokens <- {"t0", "t1", "t2"}, First <- "t0",
    STATUS_CACHE_TTL <- 2, MaxDown <- 5, MaxFails <- 1, MaxTurns <- 2
Api == INSTANCE ApiAdmission WITH
    cnt <- v1, admitted <- v2, open <- v3, tries <- v4, sent <- v5,
    Credentials <- {"c1", "c2", "c3"}, Nobody <- None, Origins <- {"o1"},
    ReadLimit <- 1, WriteLimit <- 1, Fanout <- 2, AbuseLimit <- 1, MaxRequests <- 3
Cap == INSTANCE FleetCaps WITH
    budget <- v1, configured <- v2, month <- v3, task <- v4, script <- v5, ran <- v6,
    runs <- v7, Scopes <- {"proxy", "browser"}, Settings <- {99, 1}, Unset <- 99,
    Caps <- {1, 3}, MonthsAhead <- 1, MaxMonth <- 2, MaxRuns <- 3
Fair == INSTANCE FairQueue WITH
    weight <- v1, limit <- v2, cap <- v3, demand <- v4, usage <- v5, queue <- v6,
    deficit <- v7, taken <- v8, used <- v9, total <- v10, deferred <- v11, at <- v12,
    turn <- v13, progressed <- v14, stop <- v15, done <- v16, N <- 3,
    Domains <- {"d1"}, Weights <- WeightsGiven, Unit <- 2, Limits <- {0, 3},
    FleetCap <- 5, DomainCap <- 2, WorkspaceCaps <- {1, 9}, MaxQueue <- 2
Plane == INSTANCE ControlPlane WITH
    intent <- v1, sched <- v2, driver <- v3, clock <- v4, calls <- v5,
    Externals <- Pair, Rules <- OtherPair, Cadences <- {1, 2}, Tags <- {"t1"},
    NoTag <- "none", Nobody <- None, MaxClock <- 2, MaxCalls <- 3
Cadence == INSTANCE MaintenanceCadence WITH
    now <- v1, due <- v2, row <- v3, tick <- v4, broker <- v5, sent <- v6,
    crashes <- v7, outages <- v8, Cadences <- OtherPair, Replicas <- Pair,
    Interval <- 2, MaxNow <- 3, MaxCrashes <- 1, MaxOutages <- 1
Schedule == INSTANCE RefreshScheduler WITH
    now <- v1, rule <- v2, row <- v3, occ <- v4, pass <- v5, ledger <- v6, fair <- v7,
    late <- v8, faults <- v9, crashes <- v10, edits <- v11, Rules <- {"r1"},
    Replicas <- Pair, Interval <- 2, BackoffBase <- 1, BackoffMax <- 4, Batch <- 1,
    MaxAttempts <- 2, MaxNow <- 4, MaxFaults <- 1, MaxCrashes <- 1, MaxEdits <- 1
Domain == INSTANCE DomainLifecycle WITH
    playbook <- v1, audit <- v2, move <- v3, cache <- v4, clock <- v5, moves <- v6,
    since <- v7, granted <- v8, raced <- v9, Operators <- {"o1", "o2"},
    Processes <- {"p1"}, CacheSeconds <- 1, MaxClock <- 1, MaxMoves <- 3
Ent == INSTANCE Entitlements WITH
    row <- v1, saas <- v2, req <- v3, clock <- v4, refreshed <- v5, requests <- v6,
    seen <- v7, braked <- v8, raced <- v9, Requests <- Pair, MaxEvidenceAge <- 1,
    RefreshEvery <- 1, MaxVersion <- 2, MaxClock <- 3, MaxRequests <- 3
Gate == INSTANCE GateDCanary WITH
    rows <- v1, files <- v2, enqueued <- v3, facts <- v4, faults <- v5, commands <- v6,
    Pools <- PoolsDrawn, Domains <- {"d1", "d2"}, Strata <- {"s1", "s2"},
    Sizes <- {2, 3},
    Certified <- {"c1"},
    Floor <- [s1 |-> [n |-> 3, name |-> 2], s2 |-> [n |-> 1, name |-> 1]],
    Cost <- [d1 |-> [seconds |-> 1, name |-> 1], d2 |-> [seconds |-> 2, name |-> 2]],
    TargetSeconds <- 3, FleetSlots <- 2, MaxFaults <- 2, MaxCommands <- CommandsOn
Alerts == INSTANCE OpsAlerts WITH
    traffic <- v1, ceiling <- v2, facts <- v3, worsened <- v4, at <- v5, txn <- v6,
    failed <- v7, snap <- v8, alerts <- v9, MaxWorse <- 1, MaxFails <- 1
Ready == INSTANCE Readiness WITH
    clock <- v1, dep <- v2, head <- v3, image <- v4, fence <- v5, record <- v6,
    proc <- v7, req <- v8, lock <- v9, cached <- v10, pool <- v11, faults <- v12,
    held <- v13, lastUp <- v14, Processes <- Pair, Requests <- {"r1"},
    Images <- ImagesBuilt, IdentityOf <- OneIdentity, TTL <- 1, MIN_INSTANCES <- 1,
    MaxClock <- 1, MaxFaults <- 1

\* Requests of a credential with a workspace, that names none or another, and of a
\* super administrator that names one; a role that row security binds, and one it
\* does not with and without the exemption.
Drawn ==
  /\ \A r \in Requests : IF principal[r].super THEN principal[r].header # None
                         ELSE principal[r].home \notin {None, principal[r].header}
  /\ asserted /\ (hatch => role = "bypass" /\ \A r \in Requests : ~principal[r].super)

\* The main component at rest while another part runs.
Parked == Init /\ principal = [r \in Requests |-> [home |-> None, header |-> None, super |-> FALSE]]
          /\ role = "confined" /\ asserted /\ ~hatch

\* The registers from the k-th on, unused: at rest, and left alone.
Free1 == v1 = 0 /\ v2 = 0 /\ v3 = 0 /\ v4 = 0 /\ v5 = 0 /\ v6 = 0 /\ v7 = 0 /\
         v8 = 0 /\ v9 = 0 /\ v10 = 0 /\ v11 = 0 /\ v12 = 0 /\ v13 = 0 /\ v14 = 0 /\
         v15 = 0 /\ v16 = 0
Free6 == v6 = 0 /\ v7 = 0 /\ v8 = 0 /\ v9 = 0 /\ v10 = 0 /\ v11 = 0 /\ v12 = 0 /\
         v13 = 0 /\ v14 = 0 /\ v15 = 0 /\ v16 = 0
Free7 == v7 = 0 /\ v8 = 0 /\ v9 = 0 /\ v10 = 0 /\ v11 = 0 /\ v12 = 0 /\ v13 = 0 /\
         v14 = 0 /\ v15 = 0 /\ v16 = 0
Free8 == v8 = 0 /\ v9 = 0 /\ v10 = 0 /\ v11 = 0 /\ v12 = 0 /\ v13 = 0 /\ v14 = 0 /\
         v15 = 0 /\ v16 = 0
Free9 == v9 = 0 /\ v10 = 0 /\ v11 = 0 /\ v12 = 0 /\ v13 = 0 /\ v14 = 0 /\ v15 = 0 /\
         v16 = 0
Free10 == v10 = 0 /\ v11 = 0 /\ v12 = 0 /\ v13 = 0 /\ v14 = 0 /\ v15 = 0 /\ v16 = 0
Free12 == v12 = 0 /\ v13 = 0 /\ v14 = 0 /\ v15 = 0 /\ v16 = 0
Free15 == v15 = 0 /\ v16 = 0
Free16 == v16 = 0
Kept1 == UNCHANGED <<v1, v2, v3, v4, v5, v6, v7, v8, v9, v10, v11, v12, v13, v14, v15,
                     v16>>
Kept6 == UNCHANGED <<v6, v7, v8, v9, v10, v11, v12, v13, v14, v15, v16>>
Kept7 == UNCHANGED <<v7, v8, v9, v10, v11, v12, v13, v14, v15, v16>>
Kept8 == UNCHANGED <<v8, v9, v10, v11, v12, v13, v14, v15, v16>>
Kept9 == UNCHANGED <<v9, v10, v11, v12, v13, v14, v15, v16>>
Kept10 == UNCHANGED <<v10, v11, v12, v13, v14, v15, v16>>
Kept12 == UNCHANGED <<v12, v13, v14, v15, v16>>
Kept15 == UNCHANGED <<v15, v16>>
Kept16 == UNCHANGED <<v16>>

MCInit ==
  \/ part = "tenant" /\ Init /\ Drawn /\ Free1
  \/ /\ Parked
     /\ \/ part = "accounts" /\ Acct!Init /\ Free16
        \/ part = "api" /\ Api!Init /\ Free6
        \/ part = "caps" /\ Cap!Init /\ v2["browser"] = 99 /\ Free8
        \/ part = "fair" /\ Fair!Init /\ (v3 = 1 => v1[1] = v1[3])
        \/ part = "plane" /\ Plane!Init /\ Free6
        \/ part = "cadence" /\ Cadence!Init /\ Free9
        \/ part = "schedule" /\ Schedule!Init /\ Free12
        \/ part = "domain" /\ Domain!Init /\ Free10
        \/ part = "entitled" /\ Ent!Init /\ Free10
        \/ part = "gate" /\ Gate!Init /\ Free7
        \/ part = "alerts" /\ Alerts!Init /\ v2 = (v1 = "busy") /\ Free10
        \/ part = "ready" /\ Ready!Init /\ Free15

MCNext ==
  \/ part = "tenant" /\ Next /\ Kept1 /\ UNCHANGED part
  \/ part = "accounts" /\ Acct!Next /\ Kept16 /\ UNCHANGED <<part, vars>>
  \/ part = "api" /\ Api!Next /\ Kept6 /\ UNCHANGED <<part, vars>>
  \/ part = "caps" /\ Cap!Next /\ Kept8 /\ UNCHANGED <<part, vars>>
  \/ part = "fair" /\ Fair!Next /\ UNCHANGED <<part, vars>>
  \/ part = "plane" /\ Plane!Next /\ Kept6 /\ UNCHANGED <<part, vars>>
  \/ part = "cadence" /\ Cadence!Next /\ Kept9 /\ UNCHANGED <<part, vars>>
  \/ part = "schedule" /\ Schedule!Next /\ Kept12 /\ UNCHANGED <<part, vars>>
  \/ part = "domain" /\ Domain!Next /\ Kept10 /\ UNCHANGED <<part, vars>>
  \/ part = "entitled" /\ Ent!Next /\ Kept10 /\ UNCHANGED <<part, vars>>
  \/ part = "gate" /\ Gate!Next /\ Kept7 /\ UNCHANGED <<part, vars>>
  \/ part = "alerts" /\ Alerts!Next /\ Kept10 /\ UNCHANGED <<part, vars>>
  \/ part = "ready" /\ Ready!Next /\ Kept15 /\ UNCHANGED <<part, vars>>

mcvars == <<part, vars, v1, v2, v3, v4, v5, v6, v7, v8, v9, v10, v11, v12, v13, v14,
          v15, v16>>
MCSpec == MCInit /\ [][MCNext]_mcvars

Symmetry == Permutations(Requests) \cup Permutations(Workspaces)

\* An account reference has one workspace and one bootstrap key however its calls
\* overlap, a suspended workspace is refused within the time to live of its cached
\* status, and a token is rotated once (admin.py, status_cache.py).
AccountsOnce ==
  part = "accounts" => /\ Acct!OneWorkspacePerRef /\ Acct!OneBootstrapKey
                       /\ Acct!RefusedWithinTtl /\ Acct!RotatedOnce

\* What the API admits stays within the limits of tenant, origin, minted keys and
\* paid calls; each month ahead has its caps, never zero; and the fleet's slots are
\* shared by weight, refused only for a cause, none lost.
CapsHold ==
  /\ part = "api" => Api!TenantBounded /\ Api!OriginBounded /\ Api!MintedBounded /\ Api!PaidBounded
  /\ part = "caps" => Cap!CappedAhead /\ Cap!NeverZero
  /\ part = "fair" => /\ Fair!FairSplit /\ Fair!RefusedForCause /\ Fair!DomainCapShared
                      /\ Fair!AllAccounted

\* What is declared is what runs: a schedule is driven as its intent says, one rule
\* leaves no orphan, a cadence is sent once per deadline by all replicas, and the
\* slot a rule waits for is free, but for a rule whose back-off was written over a
\* row that was no longer due.
DeclaredRuns ==
  /\ part = "plane" => Plane!DrivenAsDeclared /\ Plane!NoOrphanSweep /\ Plane!NextWithinCadence
  /\ part = "cadence" => Cadence!TypeOK /\ Cadence!SentOncePerDeadline
  /\ part = "schedule" => Schedule!TypeOK /\ Schedule!SlotIsFree

\* A domain is active only approved and after a canary, a refusal reaches every
\* process within the cache's time, the audit is a chain; an entitlement row is the
\* newest that arrived, and a gate opens on fresh evidence only.
LifecycleKept ==
  /\ part = "domain" => /\ Domain!ActiveApproved /\ Domain!CanariedBeforeActive
                        /\ Domain!RefusalReachesAll /\ Domain!AuditIsChain
  /\ part = "entitled" => /\ Ent!NewestRules /\ Ent!PlaceholderFresh
                          /\ Ent!GateBacked

\* The canary samples its labelled whole, says a short stratum unless the database
\* cannot fill it and somebody of it was drawn, fills in proportion, never enqueues
\* on a restored copy and preserves a no-go; an alert is not quieter when things are
\* worse, a blind spot is said and stays contained; and a process that reports ready
\* has earned it.
AlarmsHonest ==
  /\ part = "gate" => /\ Gate!LabelledWhole /\ Gate!ShortStratumIsSaid /\ Gate!FillIsProportional
                      /\ Gate!RestoreNeverEnqueued /\ Gate!NoGoOnlyPreserved
  /\ part = "alerts" => /\ Alerts!TypeOK /\ Alerts!BlindSpotContained /\ Alerts!BlindIsSaid
                        /\ Alerts!WorseNotQuieter
  /\ part = "ready" => Ready!ReadyIsEarned

\* What no step may do: fire a slot of a schedule twice, better a verdict by adding
\* a fault other than the loss of a certified domain's facts, or lose a cap when the
\* month rolls.
ControlSteps ==
  [][/\ part = "schedule" => Schedule!FiredOncePerSlotStep
     /\ part = "gate" => Gate!WorseNeverHelps
     /\ part = "caps" => Cap!RollStep]_mcvars
==============================================================================
