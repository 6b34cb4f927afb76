-------------------------- MODULE CostAuthorization --------------------------
(* The budget behind every paid network operation: authorize() holds an       *)
(* estimate against a workspace's and the fleet's period budget under a       *)
(* lease, the ledger recorder draws the hold down as operations close,        *)
(* settle() ends a discovery's grant, and release(), the lease sweep and job  *)
(* cancellation hand back what is left.  One dimension (cost) stands for the  *)
(* four of _DIMENSIONS, which the code treats alike.                          *)
EXTENDS Integers, FiniteSets, FiniteSetsExt

CONSTANTS Grants,      \* cost_reservations rows a run may create
          Ops,         \* network operations
          Workspaces,
          Fleet,       \* the fleet budget of the provider
          None,
          Requests,    \* AuthorizationRequests: [ws, key, job, kind, est]
          Costs,       \* what an operation may turn out to cost
          Limit,       \* Scopes -> limit_cost_micro_units
          Cap,         \* max_concurrent_reservations
          Lease,       \* DEFAULT_LEASE_SECONDS
          MaxReplays,  \* bound on the redeliveries answered by a live grant
          MaxAmount,   \* bound on what may be held or spent at once
          MaxPeriod    \* bound on the accounting periods

VARIABLES res,      \* Grants -> cost_reservations row
          bud,      \* Scopes \X Periods -> cost_budgets / fleet_cost_budgets row
          op,       \* Ops -> network_operations row and its recorder's memory
          sweep,    \* the sweep's open transaction
          cancel,   \* the rows a cancellation has read and not yet released
          period,   \* the accounting period of now()
          replays,  \* redeliveries answered so far
          raced     \* history: a cancellation wrote over a row that had moved

vars == <<res, bud, op, sweep, cancel, period, replays, raced>>

Scopes  == Workspaces \cup {Fleet}
Periods == 1 .. MaxPeriod
Thresholds == {50, 75, 90}

Max0(n) == IF n > 0 THEN n ELSE 0
Least(m, n) == IF m < n THEN m ELSE n

NoGrant == [state |-> "NONE", req |-> None, accrued |-> 0, lease |-> 0, period |-> 1]
NoOp    == [st |-> "none", grant |-> None, cost |-> 0, mem |-> FALSE, due |-> FALSE, buffered |-> FALSE]
NoSweep == [on |-> FALSE, live |-> {}, dead |-> {}]

Reserved(g) == res[g].state = "RESERVED"
Held(g)     == res[g].req.est
Residual(g) == IF Reserved(g) THEN Max0(Held(g) - res[g].accrued) ELSE 0

\* The two budgets of a grant; period_key_for(created_at), not of now.
ScopesOf(g) == {Fleet, res[g].req.ws}
BudgetsOf(g) == ScopesOf(g) \X {res[g].period}
Created(g)  == res[g].state # "NONE"
GrantsOf(s, p) == {g \in Grants : Created(g) /\ s \in ScopesOf(g) /\ res[g].period = p}

OpsOf(g)     == {o \in Ops : op[o].grant = g}
OpenOps(g)   == {o \in OpsOf(g) : op[o].st = "open"}
IsBatch(o)   == res[op[o].grant].req.kind = "batch"
CostOf(S)    == MapThenSumSet(LAMBDA o : op[o].cost, S)

\* Row locks: the sweep's rows, and every budget it has released into.
RowLocked(g)  == g \in sweep.live \cup sweep.dead
BudgetLocked(b) == \E g \in sweep.dead : b \in BudgetsOf(g)
BudgetsFree(B) == \A b \in B : ~BudgetLocked(b)

-----------------------------------------------------------------------------
(* The operations on budget rows.                                            *)

Used(s, p) == bud[<<s, p>>].reserved + bud[<<s, p>>].settled

\* Mutant: spent money is forgotten.
Fits_HoldsOnly(s, p, want) == bud[<<s, p>>].reserved + want <= Limit[s]

\* _check_dimensions
Fits(s, p, want) == Used(s, p) + want <= Limit[s]

\* _emit_threshold_warnings
Warned(s, b) ==
  IF Limit[s] = 0 THEN b
  ELSE [b EXCEPT !.warned = @ \cup {t \in Thresholds :
                               ((b.reserved + b.settled) * 100) \div Limit[s] >= t}]

\* Mutant: all of the spend is drawn from the hold.
Drawn_Whole(g, delta) == delta

\* _accrue_on_budgets: how much of the hold the new spend draws down.
Drawn(g, delta) ==
  Max0(Least(res[g].accrued + delta, Held(g)) - Least(res[g].accrued, Held(g)))

\* Mutant: accrual that crosses a threshold is not announced.
AccrueOn_Silent(B, drawn, back, delta) ==
  [b \in Scopes \X Periods |->
    IF b \notin B THEN bud[b]
    ELSE [bud[b] EXCEPT !.reserved = Max0(Max0(@ - drawn) - back), !.settled = @ + delta]]

\* _accrue and, for a terminal step, _return_residual_hold on both budgets.
AccrueOn(B, drawn, back, delta) ==
  [b \in Scopes \X Periods |->
    IF b \notin B THEN bud[b]
    ELSE LET accrued == Warned(b[1], [bud[b] EXCEPT !.reserved = Max0(@ - drawn), !.settled = @ + delta])
         IN  [accrued EXCEPT !.reserved = Max0(@ - back)]]

\* Mutant: the budget of today gets what an older one was charged.
ReturnTo_Now(hands) ==
  [b \in Scopes \X Periods |->
    [bud[b] EXCEPT !.reserved =
       Max0(@ - MapThenSumSet(LAMBDA g : hands[g], {g \in DOMAIN hands : b \in ScopesOf(g) \X {period}}))]]

\* Mutant: no clamp.
ReturnTo_Unclamped(hands) ==
  [b \in Scopes \X Periods |->
    [bud[b] EXCEPT !.reserved = @ - MapThenSumSet(LAMBDA g : hands[g], {g \in DOMAIN hands : b \in BudgetsOf(g)})]]

\* _return_residual_hold: each grant's residual, one grant after the other.
ReturnTo(hands) ==
  [b \in Scopes \X Periods |->
    [bud[b] EXCEPT !.reserved =
       Max0(@ - MapThenSumSet(LAMBDA g : hands[g], {g \in DOMAIN hands : b \in BudgetsOf(g)}))]]

-----------------------------------------------------------------------------
Init == /\ res = [g \in Grants |-> NoGrant]
        /\ bud = [b \in Scopes \X Periods |-> [reserved |-> 0, settled |-> 0, warned |-> {}]]
        /\ op = [o \in Ops |-> NoOp]
        /\ sweep = NoSweep
        /\ cancel = <<>>
        /\ period = 1
        /\ replays = 0
        /\ raced = FALSE

\* _check_concurrency: a lapsed lease does not count against the cap.
Live(w) == {g \in Grants : Reserved(g) /\ res[g].req.ws = w /\ res[g].lease > 0}

\* The live grant a redelivery of the request finds by its dedupe key.
Replayed(r) == {g \in Grants : Reserved(g) /\ r.key # None
                                /\ res[g].req.ws = r.ws /\ res[g].req.key = r.key}

\* authorize, a new grant.  A request that is denied changes nothing; neither
\* does the loser of two first deliveries, whose insert the partial unique
\* index rejects.
Authorize(g, r) ==
  /\ res[g].state = "NONE"
  /\ Replayed(r) = {}
  /\ BudgetsFree({<<Fleet, period>>, <<r.ws, period>>})
  /\ Cardinality(Live(r.ws)) < Cap
  /\ Fits(r.ws, period, r.est)
  /\ Fits(Fleet, period, r.est)
  /\ res' = [res EXCEPT ![g] = [state |-> "RESERVED", req |-> r, accrued |-> 0,
                                lease |-> Lease, period |-> period]]
  /\ bud' = [b \in Scopes \X Periods |->
               IF b \in {<<Fleet, period>>, <<r.ws, period>>}
               THEN Warned(b[1], [bud[b] EXCEPT !.reserved = @ + r.est]) ELSE bud[b]]
  /\ UNCHANGED <<op, sweep, cancel, period, replays, raced>>

\* authorize, a redelivery: the live grant again, its lease renewed.
Replay(g) ==
  /\ replays < MaxReplays
  /\ Reserved(g) /\ res[g].req.key # None /\ ~RowLocked(g)
  /\ res' = [res EXCEPT ![g].lease = Lease]
  /\ replays' = replays + 1
  /\ UNCHANGED <<bud, op, sweep, cancel, period, raced>>

\* heartbeat, beaten for every authorization with an operation in the
\* recorder's memory.
Heartbeat(g) ==
  /\ \E o \in OpsOf(g) : op[o].mem
  /\ Reserved(g) /\ ~RowLocked(g)
  /\ res' = [res EXCEPT ![g].lease = Lease]
  /\ UNCHANGED <<bud, op, sweep, cancel, period, replays, raced>>

\* recorder.open: the ledger row names the grant and never looks at it.  A
\* discovery opens nothing more once it has settled.
Open(o, g) ==
  /\ op[o].st = "none" /\ Created(g) /\ res[g].state # "SETTLED"
  /\ op' = [op EXCEPT ![o] = [NoOp EXCEPT !.st = "open", !.grant = g, !.mem = TRUE]]
  /\ UNCHANGED <<res, bud, sweep, cancel, period, replays, raced>>

\* recorder.close: the row is closed and leaves memory; a batch's spend is now
\* due for settle_partial.
Close(o, c) ==
  /\ op[o].st = "open" /\ op[o].mem /\ ~op[o].buffered
  /\ op' = [op EXCEPT ![o] = [@ EXCEPT !.st = "closed", !.cost = c, !.mem = FALSE,
                                       !.due = IsBatch(o)]]
  /\ UNCHANGED <<res, bud, sweep, cancel, period, replays, raced>>

\* recorder.close when the database refuses it: the outcome goes to the local
\* buffer, the operation stays in memory.
CloseDeferred(o, c) ==
  /\ op[o].st = "open" /\ op[o].mem /\ ~op[o].buffered
  /\ op' = [op EXCEPT ![o].buffered = TRUE, ![o].cost = c]
  /\ UNCHANGED <<res, bud, sweep, cancel, period, replays, raced>>

\* Mutant: a replay settles whoever closed the row.
ReplayClose_Always(o) ==
  /\ op[o].buffered
  /\ op' = [op EXCEPT ![o] = [@ EXCEPT !.st = "closed", !.buffered = FALSE, !.due = @ \/ IsBatch(o)]]
  /\ UNCHANGED <<res, bud, sweep, cancel, period, replays, raced>>

\* flush / _replay_close: the buffered outcome, settled only if this write was
\* the one that closed the row; the entry is resolved afterwards.
ReplayClose(o) ==
  /\ op[o].buffered
  /\ op' = [op EXCEPT ![o] = [@ EXCEPT !.st = "closed", !.buffered = FALSE,
                 !.due = @ \/ (op[o].st = "open" /\ IsBatch(o))]]
  /\ UNCHANGED <<res, bud, sweep, cancel, period, replays, raced>>

\* _flush_batch dies between the close and buffer.resolve: replayed again later.
ReplayCloseUnresolved(o) ==
  /\ op[o].buffered /\ op[o].st = "open"
  /\ op' = [op EXCEPT ![o].st = "closed", ![o].due = IsBatch(o)]
  /\ UNCHANGED <<res, bud, sweep, cancel, period, replays, raced>>

\* The process that holds the operation ends: its memory goes, the ledger row
\* and the on-disk buffer stay.
ProcessEnds(o) ==
  /\ op[o].mem
  /\ op' = [op EXCEPT ![o].mem = FALSE]
  /\ UNCHANGED <<res, bud, sweep, cancel, period, replays, raced>>

\* settle_partial: what an operation cost, once; dropped when the grant has
\* already ended.
SettlePartial(o) ==
  LET g == op[o].grant c == op[o].cost IN
  /\ op[o].due /\ ~RowLocked(g) /\ (Reserved(g) => BudgetsFree(BudgetsOf(g)))
  /\ op' = [op EXCEPT ![o].due = FALSE]
  /\ IF Reserved(g)
     THEN /\ bud' = AccrueOn(BudgetsOf(g), Drawn(g, c), 0, c)
          /\ res' = [res EXCEPT ![g].accrued = @ + c]
     ELSE UNCHANGED <<res, bud>>
  /\ UNCHANGED <<sweep, cancel, period, replays, raced>>

\* The process dies after the close committed, or settle_partial raises: the
\* spend is never accrued.
SettleLost(o) ==
  /\ op[o].due
  /\ op' = [op EXCEPT ![o].due = FALSE, ![o].mem = FALSE]
  /\ UNCHANGED <<res, bud, sweep, cancel, period, replays, raced>>

\* settle: a discovery run reports everything it observed and ends its grant.
Settle(g) ==
  /\ Reserved(g) /\ res[g].req.kind = "discovery"
  /\ \A o \in OpenOps(g) : op[o].buffered
  /\ ~RowLocked(g) /\ BudgetsFree(BudgetsOf(g))
  /\ LET c == CostOf(OpsOf(g)) IN
     /\ bud' = AccrueOn(BudgetsOf(g), Drawn(g, c), Max0(Held(g) - (res[g].accrued + c)), c)
     /\ res' = [res EXCEPT ![g].accrued = @ + c, ![g].state = "SETTLED"]
  /\ UNCHANGED <<op, sweep, cancel, period, replays, raced>>

\* release: the dispatch, or the discovery, raised.  The run may be going.
Release(g) ==
  /\ Reserved(g) /\ ~RowLocked(g) /\ BudgetsFree(BudgetsOf(g))
  /\ bud' = ReturnTo([h \in {g} |-> Residual(h)])
  /\ res' = [res EXCEPT ![g].state = "RELEASED"]
  /\ UNCHANGED <<op, sweep, cancel, period, replays, raced>>

-----------------------------------------------------------------------------
(* sweep_expired_reservations: one transaction over every lapsed lease.      *)

Lapsed == {g \in Grants : Reserved(g) /\ res[g].lease < 0}

\* Mutant: an operation pins its grant, closed or not.
SweepScan_AnyOp ==
  /\ ~sweep.on /\ Lapsed # {}
  /\ sweep' = [on |-> TRUE, live |-> {g \in Lapsed : OpsOf(g) # {}},
                            dead |-> {g \in Lapsed : OpsOf(g) = {}}]
  /\ UNCHANGED <<res, bud, op, cancel, period, replays, raced>>

\* The scan locks the rows and asks the ledger about each of them.
SweepScan ==
  /\ ~sweep.on /\ Lapsed # {}
  /\ sweep' = [on |-> TRUE, live |-> {g \in Lapsed : OpenOps(g) # {}},
                            dead |-> {g \in Lapsed : OpenOps(g) = {}}]
  /\ UNCHANGED <<res, bud, op, cancel, period, replays, raced>>

SweepCommit ==
  /\ sweep.on
  /\ bud' = ReturnTo([g \in sweep.dead |-> Residual(g)])
  /\ res' = [g \in Grants |-> IF g \in sweep.live THEN [res[g] EXCEPT !.lease = Lease]
                              ELSE IF g \in sweep.dead THEN [res[g] EXCEPT !.state = "RELEASED"]
                              ELSE res[g]]
  /\ sweep' = NoSweep
  /\ UNCHANGED <<op, cancel, period, replays, raced>>

SweepDies ==
  /\ sweep.on
  /\ sweep' = NoSweep
  /\ UNCHANGED <<res, bud, op, cancel, period, replays, raced>>

-----------------------------------------------------------------------------
(* release_reservations_for_scrape_job, inside the cancellation's            *)
(* transaction: the rows are read without a lock.                            *)

CancelRead ==
  /\ cancel = <<>>
  /\ LET S == {g \in Grants : Reserved(g) /\ res[g].req.job} IN
     /\ S # {}
     /\ cancel' = [g \in S |-> Residual(g)]
  /\ UNCHANGED <<res, bud, op, sweep, period, replays, raced>>

\* The budgets are locked one by one, the residuals are those of the rows as
\* they were read, and the UPDATE names no state.
CancelCommit ==
  /\ DOMAIN cancel # {}
  /\ \A g \in DOMAIN cancel : ~RowLocked(g) /\ BudgetsFree(BudgetsOf(g))
  /\ bud' = ReturnTo(cancel)
  /\ res' = [g \in Grants |-> IF g \in DOMAIN cancel THEN [res[g] EXCEPT !.state = "RELEASED"]
                              ELSE res[g]]
  /\ raced' = (raced \/ \E g \in DOMAIN cancel : Residual(g) # cancel[g])
  /\ cancel' = <<>>
  /\ UNCHANGED <<op, sweep, period, replays>>

\* The cancellation's transaction rolls back, a deadlock's victim included.
CancelAborts ==
  /\ DOMAIN cancel # {}
  /\ cancel' = <<>>
  /\ UNCHANGED <<res, bud, op, sweep, period, replays, raced>>

-----------------------------------------------------------------------------
Tick ==
  /\ \E g \in Grants : res[g].lease > -1 /\ Reserved(g)
  /\ res' = [g \in Grants |-> [res[g] EXCEPT !.lease = IF @ > -1 /\ Reserved(g) THEN @ - 1 ELSE @]]
  /\ UNCHANGED <<bud, op, sweep, cancel, period, replays, raced>>

NewPeriod ==
  /\ period < MaxPeriod
  /\ period' = period + 1
  /\ UNCHANGED <<res, bud, op, sweep, cancel, replays, raced>>

Next == \/ \E g \in Grants, r \in Requests : Authorize(g, r)
        \/ \E g \in Grants : Replay(g) \/ Heartbeat(g) \/ Settle(g) \/ Release(g)
        \/ \E o \in Ops, g \in Grants : Open(o, g)
        \/ \E o \in Ops, c \in Costs : Close(o, c) \/ CloseDeferred(o, c)
        \/ \E o \in Ops : ReplayClose(o) \/ ReplayCloseUnresolved(o) \/ ProcessEnds(o)
                            \/ SettlePartial(o) \/ SettleLost(o)
        \/ SweepScan \/ SweepCommit \/ SweepDies
        \/ CancelRead \/ CancelCommit \/ CancelAborts
        \/ Tick \/ NewPeriod

Spec == Init /\ [][Next]_vars

\* Beat runs the sweep, worker processes end, time passes.
Fairness == /\ WF_vars(Tick) /\ SF_vars(SweepScan) /\ SF_vars(SweepCommit)
            /\ \A o \in Ops : WF_vars(ProcessEnds(o))

FairSpec == Spec /\ Fairness

-----------------------------------------------------------------------------
TypeOK ==
  /\ \A g \in Grants : /\ res[g].state \in {"NONE", "RESERVED", "SETTLED", "RELEASED"}
                        /\ res[g].req \in Requests \cup {None}
                        /\ res[g].accrued \in Nat /\ res[g].lease \in -1 .. Lease
                        /\ res[g].period \in Periods
  /\ \A b \in Scopes \X Periods : /\ bud[b].reserved \in Nat /\ bud[b].settled \in Nat
                                   /\ bud[b].warned \subseteq Thresholds
  /\ \A o \in Ops : op[o].st \in {"none", "open", "closed"} /\ op[o].grant \in Grants \cup {None}
  /\ sweep.live \cup sweep.dead \subseteq Grants /\ DOMAIN cancel \subseteq Grants

\* _return_residual_hold: accrual and return "together return each reserved
\* unit exactly once".  A budget's reserved counter is what its live grants
\* still hold, in the period each was created in.
HoldsExact ==
  \A s \in Scopes, p \in Periods :
    bud[<<s, p>>].reserved = MapThenSumSet(Residual, GrantsOf(s, p))

\* The same, until a cancellation has written over a row that moved under it.
HoldsCounted == ~raced => HoldsExact

\* Whatever races, no budget is held by nobody: the sweep, settling, release
\* and cancellation together never strand money in the reserved counter.
NoStrandedHold ==
  \A s \in Scopes, p \in Periods :
    bud[<<s, p>>].reserved <= MapThenSumSet(Residual, GrantsOf(s, p))

\* The settled counter is what the grants accrued, whatever races, and a grant
\* accrues each of its operations at most once: a close that is replayed from
\* the buffer, after a crash or after a late success, is charged once.
ChargedOnce ==
  /\ \A s \in Scopes, p \in Periods :
       bud[<<s, p>>].settled = MapThenSumSet(LAMBDA g : res[g].accrued, GrantsOf(s, p))
  /\ \A g \in Grants : res[g].accrued <= CostOf({o \in OpsOf(g) : ~op[o].due})

\* No schedule of grants commits more than a limit: with what live grants may
\* still spend within their holds and what ended ones spent within theirs, the
\* budget is kept, until a cancellation races.
WithinLimit ==
  ~raced => \A s \in Scopes, p \in Periods :
    MapThenSumSet(LAMBDA g : IF Reserved(g) THEN Held(g) ELSE Least(res[g].accrued, Held(g)),
                  GrantsOf(s, p)) <= Limit[s]

\* No budget passes a warning threshold unannounced, by a hold or by an
\* operation that costs more than was held for it.
WarnedInTime ==
  \A s \in Scopes, p \in Periods : Limit[s] > 0 =>
    {t \in Thresholds : Used(s, p) * 100 >= t * Limit[s]} \subseteq bud[<<s, p>>].warned

\* The counters implement the exact ledger: admission against the two counters
\* of a budget is admission against everything its grants hold and spent.
\* inForce lapses when a cancellation races.
Ledger == INSTANCE BudgetLedger WITH
            of      <- [g \in Grants |-> IF Created(g) THEN BudgetsOf(g) ELSE {}],
            hold    <- [g \in Grants |-> Residual(g)],
            spent   <- [g \in Grants |-> res[g].accrued],
            inForce <- ~raced,
            Amounts <- 0 .. MaxAmount,
            Accounts <- {{Fleet, w} \X {p} : w \in Workspaces, p \in Periods}
KeepsLedger == Ledger!LedgerSpec

\* A grant nobody ends is ended by the sweep, unless an operation whose process
\* died is open under it for ever.
GrantEnds ==
  \A g \in Grants : Reserved(g) ~> (~Reserved(g) \/ OpenOps(g) # {})
==============================================================================
