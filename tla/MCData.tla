------------------------------- MODULE MCData --------------------------------
(* What the program writes down and learns, checked on small instances: the
  outbox and its drains, the worker's result spool, the daily roll-up, the
  settlement of network cost, the counters behind a domain's strategy, the
  discovery runs, the method ladder and the holds of the cost ledger. One part
  runs in a behaviour; the variables of a part other than outbox are the
  registers, in the order of its VARIABLES. *)
EXTENDS Outbox, TLC

CONSTANTS Pair, OtherPair

VARIABLES part, v1, v2, v3, v4, v5, v6, v7, v8, v9, v10, v11, v12, v13, v14, v15

\* What is authorized: a batch of one workspace, a discovery run of another.
Asked == {[ws |-> "w1", key |-> "k1", job |-> TRUE, kind |-> "batch", est |-> 3],
          [ws |-> "w2", key |-> NoKey, job |-> FALSE, kind |-> "discovery", est |-> 2]}

Claims == INSTANCE Outbox WITH
    now <- v1, prod <- v2, row <- v3, redis <- v4, drain <- v5, queued <- v6,
    work <- v7, seen <- v8, events <- v9, raised <- v10, sent <- v11,
    Producers <- {"p1"}, Drains <- OtherPair, Kinds <- {"sweep"}, MaxAttempts <- 2,
    BackoffBase <- 1, MaxBackoff <- 2, BatchLimit <- 2, Delay <- {0}, Retention <- 0,
    MaxQueued <- 1, MaxTime <- 1
Spool == INSTANCE ResultSpool WITH
    kind <- v1, ord <- v2, live <- v3, quar <- v4, tries <- v5, proc <- v6, obs <- v7,
    attempts <- v8, writes <- v9, cur <- v10, rung <- v11, cancelled <- v12,
    Items <- 1 .. 3, Spiders <- {"s1"}, Jobs <- {"a"}, JobOf <- [i \in 1 .. 3 |-> "a"],
    MaxItems <- 2, MaxPending <- 1, QuarantineAfter <- 2, Override <- 1
Batched == INSTANCE ResultSpool WITH
    kind <- v1, ord <- v2, live <- v3, quar <- v4, tries <- v5, proc <- v6, obs <- v7,
    attempts <- v8, writes <- v9, cur <- v10, rung <- v11, cancelled <- v12,
    Items <- 1 .. 3, Spiders <- {"s1"}, Jobs <- {"a"}, JobOf <- [i \in 1 .. 3 |-> "a"],
    MaxItems <- 2, MaxPending <- 1, QuarantineAfter <- 1, Override <- 2
Daily == INSTANCE DailyRollup WITH
    today <- v1, obs <- v2, part <- v3, priced <- v4, roll <- v5, comp <- v6, wm <- v7,
    seed <- v8, wk <- v9, walked <- v10, redone <- v11, crashes <- v12, N <- 2,
    BatchLimit <- 1, LastDay <- 3, PartDays <- 1, Lookahead <- 1, Retention <- 1,
    MaxDays <- 2, SeedLag <- 1, Workers <- Pair, MaxLate <- 1, MaxPrice <- 1,
    MaxRedo <- 0, MaxCrashes <- 1
Settle == INSTANCE NetworkSettlement WITH
    day <- v1, clk <- v2, closed <- v3, gone <- v4, summary <- v5, settled <- v6,
    imported <- v7, ver <- v8, rows <- v9, rolledAt <- v10, wm <- v11, wk <- v12,
    runs <- v13, bumps <- v14, aborts <- v15, Navs <- {"n1"}, Subs <- {"s1", "s2"},
    NavOf <- ("s1" :> "n1") @@ ("s2" :> "n1"), Windows <- {"u1", "u2"},
    Covers <- ("u1" :> {"n1", "s1"}) @@ ("u2" :> {"n1"}), LastDay <- 2, ChildAge <- 1,
    Workers <- Pair, MaxBumps <- 1, MaxRuns <- 2, MaxAborts <- 1
Counting == INSTANCE StrategyFlush WITH
    buf <- v1, dirty <- v2, prof <- v3, stats <- v4, sw <- v5, fl <- v6, row <- v7,
    seen <- v8, degraded <- v9, asked <- v10, overlap <- v11, undone <- v12,
    patches <- v13, aborts <- v14, N <- 2, Flushes <- {"f1", "f2"}, MinOk <- 1,
    MinSwitch <- 1, RollbackMin <- 1, MaxFail <- 2, MaxAttempts <- 3, MaxPatches <- 1,
    MaxAborts <- 1
Disc == INSTANCE DiscoveryRuns WITH
    now <- v1, run <- v2, made <- v3, second <- v4, asked <- v5, msg <- v6,
    worker <- v7, lock <- v8, samples <- v9, crashes <- v10, redelivered <- v11,
    Profiles <- {"d1"}, Workers <- Pair, MaxPerDay <- 1, Day <- 0, MaxNow <- 1,
    MaxMsgs <- 3, MaxCrashes <- 1, MaxRedeliveries <- 0
Ladder == INSTANCE MethodLadder WITH
    now <- v1, method <- v2, target <- v3, pass <- v4, run <- v5, spent <- v6,
    fallback <- v7, pending <- v8, defers <- v9, taken <- v10, crashes <- v11,
    past <- v12, Passes <- Pair, N <- 2, Fallback <- 2, Cap <- 1, MaxPhysical <- 1,
    Deadline <- 1, Retries <- 1, Streak <- 2, Cooldown <- 2, Canary <- 1, MaxDefers <- 1,
    MaxNow <- 2, MaxCrashes <- 1, MaxLost <- 1
Cost == INSTANCE CostAuthorization WITH
    res <- v1, bud <- v2, op <- v3, sweep <- v4, cancel <- v5, period <- v6,
    replays <- v7, raced <- v8, Grants <- Pair, Ops <- OtherPair,
    Workspaces <- {"w1", "w2"}, Fleet <- "fleet", None <- NoKey, Requests <- Asked,
    Costs <- {2}, Limit <- ("w1" :> 6) @@ ("w2" :> 2) @@ ("fleet" :> 5), Cap <- 2,
    Lease <- 1, MaxReplays <- 0, MaxAmount <- 6, MaxPeriod <- 1

\* The main component at rest while another part runs.
Parked == Init /\ \A p \in Producers : prod[p].kind = "sweep" /\ prod[p].key = NoKey

\* The registers from the k-th on, unused: at rest, and left alone.
Free1 == v1 = 0 /\ v2 = 0 /\ v3 = 0 /\ v4 = 0 /\ v5 = 0 /\ v6 = 0 /\ v7 = 0 /\
         v8 = 0 /\ v9 = 0 /\ v10 = 0 /\ v11 = 0 /\ v12 = 0 /\ v13 = 0 /\ v14 = 0 /\
         v15 = 0
Free9 == v9 = 0 /\ v10 = 0 /\ v11 = 0 /\ v12 = 0 /\ v13 = 0 /\ v14 = 0 /\ v15 = 0
Free12 == v12 = 0 /\ v13 = 0 /\ v14 = 0 /\ v15 = 0
Free13 == v13 = 0 /\ v14 = 0 /\ v15 = 0
Free15 == v15 = 0
Kept1 == UNCHANGED <<v1, v2, v3, v4, v5, v6, v7, v8, v9, v10, v11, v12, v13, v14, v15>>
Kept9 == UNCHANGED <<v9, v10, v11, v12, v13, v14, v15>>
Kept12 == UNCHANGED <<v12, v13, v14, v15>>
Kept13 == UNCHANGED <<v13, v14, v15>>
Kept15 == UNCHANGED <<v15>>

\* Bounds on a behaviour as a whole, where two kinds of trouble would multiply: the third
\* scrape is a weak reading and comes before any flush failed, was repeated or was cancelled;
\* three prices meet where nothing goes wrong at all; a worker dies or the last day comes; a
\* profile is patched or its flushes overlap, and a flush that aborts has no patch beside it
\* and less than the most attempts; a second settlement, a second export and an aborted run
\* come in behaviours of their own; a worker dies or the clock moves; in a walk of the ladder
\* at most two of the clock's moves, a defer, a crash, a lost charge and a stale cursor come
\* together, and circuits open and close where none of them but the clock's did; and a
\* cancellation is open while at most one operation has begun.
ThirdUntroubled ==
  v1'[3] # "none" => v1'[3] = "weak" /\ v12' = {} /\ \A i \in 1 .. 3 : v5'[i] = 0 /\ v9'[i] <= 1
PricesOnly ==
  v12' = {} /\ \A i \in 1 .. 3 : v5'[i] = 0 /\ v1'[i] \in {"none", "weak", "strong"}
DiesOrAges == v1' + v12' <= 3
PatchedAlone ==
  /\ v11' => v13' = 0 /\ v10' <= 1 /\ \A m \in 1 .. 2 : v8'[m] < 3
  /\ v14' > 0 => v13' = 0 /\ v8'[1] + v8'[2] < 3
SettledTwice == (v13' = 2 => v7' # {"u1", "u2"}) /\ (v15' = 1 => v13' <= 1 /\ v14' = 0)
DiesOrTicks == v1' + v10' <= 1
WalksOrDies ==
  LET troubles == v9' + v11' + v12'.lost + v12'.raced IN
  /\ v1' + troubles <= 2 /\ (v2' # v2 => troubles = 0)
CancelledAtOne == v5' = <<>> \/ \E o \in OtherPair : v3'[o].st = "none"

\* A message without a key is a sweep: the kinds that are debounced are asked for with one.
KeyedKinds == \A p \in Producers : prod[p].key = NoKey => prod[p].kind = "sweep"

MCInit ==
  \/ part = "outbox" /\ Init /\ KeyedKinds /\ Free1
  \/ /\ Parked
     /\ \/ part = "claims" /\ Claims!Init /\ Free12
        \/ part = "spool" /\ Spool!Init /\ Free13
        \/ part = "batched" /\ Batched!Init /\ Free13
        \/ part = "daily" /\ Daily!Init /\ Free13
        \/ part = "settle" /\ Settle!Init
        \/ part = "flush" /\ Counting!Init /\ Free15
        \/ part = "discovery" /\ Disc!Init /\ Free12
        \/ part = "ladder" /\ Ladder!Init /\ Free13
        \/ part = "cost" /\ Cost!Init /\ Free9

MCNext ==
  \/ part = "outbox" /\ Next /\ Kept1 /\ UNCHANGED part
  \/ part = "claims" /\ Claims!Next /\ Kept12 /\ UNCHANGED <<part, vars>>
  \/ part = "spool" /\ Spool!Next /\ ThirdUntroubled /\ Kept13 /\ UNCHANGED <<part, vars>>
  \/ part = "batched" /\ Batched!Next /\ PricesOnly /\ Kept13 /\ UNCHANGED <<part, vars>>
  \/ part = "daily" /\ Daily!Next /\ DiesOrAges /\ Kept13 /\ UNCHANGED <<part, vars>>
  \/ part = "settle" /\ Settle!Next /\ SettledTwice /\ UNCHANGED <<part, vars>>
  \/ part = "flush" /\ Counting!Next /\ PatchedAlone /\ Kept15 /\ UNCHANGED <<part, vars>>
  \/ part = "discovery" /\ Disc!Next /\ DiesOrTicks /\ Kept12 /\ UNCHANGED <<part, vars>>
  \/ part = "ladder" /\ Ladder!Next /\ WalksOrDies /\ Kept13 /\ UNCHANGED <<part, vars>>
  \/ part = "cost" /\ Cost!Next /\ CancelledAtOne /\ Kept9 /\ UNCHANGED <<part, vars>>

mcvars == <<part, vars, v1, v2, v3, v4, v5, v6, v7, v8, v9, v10, v11, v12, v13, v14,
          v15>>
MCSpec == MCInit /\ [][MCNext]_mcvars
BatchedSpec == part = "batched" /\ MCInit /\ [][MCNext]_mcvars

Symmetry == Permutations(Pair) \cup Permutations(OtherPair) \cup Permutations(Producers)

\* A message one drain has sent is not claimed again by another; an item that left
\* a spider is an observation, a spooled file or a quarantined one; it is one
\* observation however often it is retried, and the current price is behind an observed
\* one only for a worse reading and for no longer than a day (the outbox drain, the spool's flush and its quarantine).
HandedOnOnce ==
  /\ part = "claims" => Claims!TypeOK /\ Claims!SentNotReclaimed
  /\ part = "spool" => /\ Spool!Sizes /\ Spool!TypeOK /\ Spool!NothingLost /\ Spool!OneObservation
                       /\ Spool!CurrentNotBehind
  /\ part = "batched" => Batched!NothingLost /\ Batched!OneObservation /\ Batched!CurrentNotBehind

\* "the update may proceed when the incoming reading is at least as good"
\* (pipelines.py:240): a price newer than the current one was read worse.
NewerAsGoodIsShown == part = "batched" => Batched!AsGoodProceeds

\* No partition is dropped before its days are rolled up, the watermark only
\* passes whole days, and no raw row of the network ledger is deleted before it
\* is in a summary and a settlement of the version it was computed from.
RollupsComplete ==
  /\ part = "daily" => Daily!TypeOK /\ Daily!DroppedIsRolled /\ Daily!WatermarkComplete
  /\ part = "settle" => Settle!TypeOK /\ Settle!ProvenanceFresh /\ Settle!DeletedIsSummed


\* The holds of a budget are those of its live grants, an ended grant holds
\* nothing, and no budget passes its limit or its warning line unnoticed
\* (reserve, accrue and the returns of service.py).
HoldsKept ==
  part = "cost" => /\ Cost!TypeOK /\ Cost!HoldsCounted /\ Cost!NoStrandedHold
                   /\ Cost!WithinLimit /\ Cost!ChargedOnce /\ Cost!WarnedInTime
==============================================================================
