---------------------------- MODULE JobLifecycle ----------------------------
(* One scrape job and its targets, written by five kinds of process under     *)
(* READ COMMITTED: dispatch_job, recover_stalled_batches, the spiders'        *)
(* batched flush, the finalizer and reaper sweeps, and the operator's cancel. *)
(* The ORM reads a row, decides on the copy, and writes the changed columns   *)
(* at the next flush by primary key; sessions keep their copies across        *)
(* commits.  Every such read-decide-write is therefore two actions, and the   *)
(* bulk UPDATE ... WHERE statements are one.  How a dispatch reaches a node   *)
(* is DispatchIntents' subject; here it launches a run, adopts one, or fails. *)
EXTENDS Integers, FiniteSets

CONSTANTS Targets,      \* scrape_job_targets of the job
          Dispatchers,  \* concurrent executions of dispatch_job
          MaxCancels,   \* bound on cancellation_generation; 0: no operator cancels
          MaxRuns,      \* bound on the Scrapyd runs of the job
          MaxPlans,     \* bound on planning_generation
          MaxTime,      \* bound on the clock
          Stall,        \* SCRAPE_STALL_TIMEOUT_SECONDS
          RunMax,       \* a spider's maximum runtime
          EndedAge,     \* SCRAPE_ENDED_RUN_REAP_MIN_AGE_SECONDS
          ReapAfter,    \* SCRAPE_STARTED_REAP_AFTER_SECONDS
          Deadline      \* SCRAPE_JOB_MAX_RUNTIME_SECONDS

\* "waits out MATCH_LOCK_BROWSER_TTL_SECONDS plus a grace": the age pass of the
\* reaper is configured beyond the longest run.
ASSUME TimingAssumption ==
  /\ {MaxCancels, MaxRuns, MaxPlans, MaxTime, Stall, RunMax,
      EndedAge, ReapAfter, Deadline} \subseteq Nat
  /\ RunMax <= ReapAfter

VARIABLES now,       \* wall clock, in ticks
          job,       \* the scrape_jobs row
          lock,      \* who holds the job row's lock across statements
          tgt,       \* Targets -> the scrape_job_targets row
          run,       \* run number -> the Scrapyd run
          flush,     \* run number -> the persistence transaction of its spider
          disp,      \* Dispatchers -> an execution of dispatch_job
          rec,       \* the execution of recover_stalled_batches
          fin,       \* the finalizer's transaction
          can,       \* the cancellation's transaction
          reap,      \* the reaper's transaction
          owner,     \* history: Targets -> the run whose claim set STARTED last
          rewritten, \* history: targets whose terminal status was overwritten
          latePrice  \* history: targets whose price was committed under CANCELLED

sweepVars == <<rec, fin, can, reap>>
vars == <<now, job, lock, tgt, run, flush, disp, sweepVars, owner, rewritten, latePrice>>

Never == -1
Time  == 0 .. MaxTime
Runs  == 1 .. MaxRuns
Plans == 0 .. MaxPlans

PICKUP_ELIGIBLE == {"PENDING", "DEFERRED"}
Open            == PICKUP_ELIGIBLE \cup {"STARTED"}
Terminal        == {"COMPLETED", "FAILED", "SKIPPED", "CANCELLED"}
TerminalJob     == {"COMPLETED", "PARTIAL_FAILED", "FAILED", "CANCELLED"}

JobRow    == [status : {"PENDING", "RUNNING"} \cup TerminalJob,
              started : Time \cup {Never}, gen : 0 .. MaxCancels, plan : Plans]
TargetRow == [status : Open \cup Terminal, dispatched : Time \cup {Never},
              started : Time \cup {Never}, intent : Runs \cup {0}]
Run       == [st : {"unused", "queued", "live", "over"}, batch : SUBSET Targets,
              plan : Plans, since : Time, todo : SUBSET Targets]
Unused    == [st |-> "unused", batch |-> {}, plan |-> 0, since |-> 0, todo |-> {}]

NewJob    == [status |-> "PENDING", started |-> Never, gen |-> 0, plan |-> 0]
NewTarget == [status |-> "PENDING", dispatched |-> Never, started |-> Never, intent |-> 0]

\* A session's copies: the job row, the targets still to be sent, the DEFERRED
\* ones among them, and the batch a run has taken.
Copies == [pc : {"idle", "read", "planned", "stamp"}, job : JobRow, rest : SUBSET Targets,
           deferred : SUBSET Targets, batch : SUBSET Targets, run : Runs \cup {0}]
NoCopies == [pc |-> "idle", job |-> NewJob, rest |-> {}, deferred |-> {}, batch |-> {},
             run |-> 0]

\* A flush transaction: its item, what the fence said of the job ("unasked" by a
\* spider that marks a target in a transaction of its own), and whether
\* mark_target's SELECT found the target open.
Outcomes == {"COMPLETED", "FAILED", "SKIPPED", "DEFERRED", "HANDOFF"}
Flush    == [pc : {"none", "fenced", "marked"}, item : Targets \cup {0},
             fence : {"unasked", "pass", "late"}, open : BOOLEAN]
NoFlush  == [pc |-> "none", item |-> 0, fence |-> "unasked", open |-> FALSE]

NoCancel == [pc |-> "idle", seen |-> NewJob, open |-> {}]
NoReap   == [pc |-> "idle", ended |-> {}]

Init ==
  /\ now = 0 /\ job = NewJob /\ lock = "free"
  /\ tgt = [t \in Targets |-> NewTarget]
  /\ run = [r \in Runs |-> Unused]
  /\ flush = [r \in Runs |-> NoFlush]
  /\ disp = [d \in Dispatchers |-> NoCopies]
  /\ rec = NoCopies
  /\ fin = "idle"
  /\ can = NoCancel /\ reap = NoReap
  /\ owner = [t \in Targets |-> 0]
  /\ rewritten = {} /\ latePrice = {}

------------------------------------------------------------------------------
(* Rows and runs                                                             *)

WithStatus(ts, status) ==
  [t \in Targets |-> IF t \in ts THEN [tgt[t] EXCEPT !.status = status] ELSE tgt[t]]

\* What a session still uses of its copy of the job: status and started_at until
\* it has planned, then the two generations.
Authorized(seen, plan) == [NewJob EXCEPT !.gen = seen.gen, !.plan = plan]

\* The next run of the job takes the batch; it waits in the node's queue.
Launch(r, batch, plan) ==
  /\ run[r].st = "unused" /\ \A q \in 1 .. r - 1 : run[q].st # "unused"
  /\ run' = [run EXCEPT ![r] = [Unused EXCEPT !.st = "queued", !.batch = batch, !.plan = plan]]

\* The same identity was dispatched before: schedule() returns its jobid.  An
\* identity also carries the strategy method, so an equal batch and plan are
\* necessary and not sufficient.
Adopt(r, batch, plan) ==
  run[r].st # "unused" /\ run[r].batch = batch /\ run[r].plan = plan /\ UNCHANGED run

\* _assert_fence_current, for a session that read the job as seen
FenceStale(seen) == job.gen # seen.gen \/ job.status = "CANCELLED"

\* resolve_finalized_status over aggregate_counts
resolve_finalized_status ==
  LET failure == \E t \in Targets : tgt[t].status = "FAILED"
      success == \E t \in Targets : tgt[t].status = "COMPLETED"
  IN IF ~failure THEN "COMPLETED" ELSE IF success THEN "PARTIAL_FAILED" ELSE "FAILED"

\* The history of rewritten results, kept by every step that writes targets.
Noted == rewritten' = rewritten \cup
  {t \in Targets : tgt[t].status \in Terminal /\ tgt'[t].status # tgt[t].status}

------------------------------------------------------------------------------
(* dispatch_job                                                              *)

\* The job, then the targets that wait: PENDING without a stamp, or DEFERRED.
DispatchRead(d) ==
  /\ disp[d].pc = "idle"
  /\ disp' = [disp EXCEPT ![d] =
       [NoCopies EXCEPT !.pc = "read", !.job = job,
          !.rest = {t \in Targets : \/ tgt[t].status = "PENDING" /\ tgt[t].dispatched = Never
                                    \/ tgt[t].status = "DEFERRED"},
          !.deferred = {t \in Targets : tgt[t].status = "DEFERRED"}]]
  /\ UNCHANGED <<now, job, lock, tgt, run, flush, sweepVars, owner, latePrice, rewritten>>

\* The planning transaction commits: RUNNING once, a new planning generation if
\* a cursor advanced, and FAILED or SKIPPED for targets that are denied,
\* unsupported or unresolved; mark_target judges them by the session's copies.
DispatchPlan(d) ==
  LET seen == disp[d].job
      starts == seen.status \notin TerminalJob /\ seen.started = Never
  IN
  /\ disp[d].pc = "read"
  /\ \E doomed \in SUBSET disp[d].rest, outcome \in {"FAILED", "SKIPPED"}, bump \in {0, 1} :
       /\ bump = 1 => disp[d].rest # {} /\ seen.plan < MaxPlans
       /\ starts \/ bump = 1 => lock = "free"
       /\ tgt' = WithStatus(doomed, outcome)
       /\ job' = [job EXCEPT !.status  = IF starts THEN "RUNNING" ELSE @,
                             !.started = IF starts THEN now ELSE @,
                             !.plan    = IF bump = 1 THEN seen.plan + 1 ELSE @]
       /\ disp' = [disp EXCEPT ![d] =
            IF doomed = disp[d].rest THEN NoCopies
            ELSE [disp[d] EXCEPT !.pc = "planned", !.rest = @ \ doomed, !.deferred = @ \ doomed,
                                 !.job = Authorized(seen, seen.plan + bump)]]
  /\ Noted
  /\ UNCHANGED <<now, lock, run, flush, sweepVars, owner, latePrice>>

\* schedule() for the next batch: the fence, then a new run, the run of the same
\* identity, or the end of the pass (an exception, a saturated pool, a refusal).
DispatchPost(d) ==
  /\ disp[d].pc = "planned"
  /\ \/ /\ disp' = [disp EXCEPT ![d] = NoCopies] /\ UNCHANGED run
     \/ /\ ~FenceStale(disp[d].job)
        /\ \E r \in Runs, batch \in SUBSET disp[d].rest \ {{}} :
             /\ Launch(r, batch, disp[d].job.plan) \/ Adopt(r, batch, disp[d].job.plan)
             /\ disp' = [disp EXCEPT ![d].pc = "stamp", ![d].run = r, ![d].batch = batch,
                                     ![d].rest = @ \ batch]
  /\ UNCHANGED <<now, job, lock, tgt, flush, sweepVars, owner, latePrice, rewritten>>

\* stamp_targets_dispatched on the session's copies: a DEFERRED copy becomes
\* PENDING, whatever the row says by now.
DispatchStamp(d) ==
  /\ disp[d].pc = "stamp"
  /\ tgt' = [t \in Targets |->
       IF t \notin disp[d].batch THEN tgt[t]
       ELSE [tgt[t] EXCEPT !.status = IF t \in disp[d].deferred THEN "PENDING" ELSE @,
                           !.dispatched = now, !.intent = disp[d].run]]
  /\ disp' = [disp EXCEPT ![d] = IF disp[d].rest = {} THEN NoCopies
       ELSE [disp[d] EXCEPT !.pc = "planned", !.batch = {}, !.run = 0,
                            !.deferred = @ \cap disp[d].rest]]
  /\ Noted
  /\ UNCHANGED <<now, job, lock, run, flush, sweepVars, owner, latePrice>>

\* The worker dies, or the commit of cancel took guard and fence away before
\* the stamp could find them.
DispatchDies(d) ==
  /\ disp[d].pc # "idle"
  /\ disp' = [disp EXCEPT ![d] = NoCopies]
  /\ UNCHANGED <<now, job, lock, tgt, run, flush, sweepVars, owner, latePrice, rewritten>>

------------------------------------------------------------------------------
(* recover_stalled_batches                                                   *)

\* PENDING targets stamped longer than Stall ago whose own run is not known to
\* be live; a node that does not answer is no evidence that it is.
RecoverRead ==
  LET stalled == {t \in Targets : /\ tgt[t].status = "PENDING" /\ tgt[t].dispatched # Never
                                  /\ now - tgt[t].dispatched > Stall}
  IN
  /\ rec.pc = "idle" /\ job.status = "RUNNING" /\ job.started # Never /\ job.plan < MaxPlans
  /\ \E unheard \in SUBSET stalled :
       LET batch == {t \in stalled : t \in unheard \/ tgt[t].intent = 0
                                       \/ run[tgt[t].intent].st \notin {"queued", "live"}}
       IN /\ batch # {}
          /\ rec' = [NoCopies EXCEPT !.pc = "read", !.batch = batch,
                                     !.job = Authorized(job, job.plan)]
  /\ UNCHANGED <<now, job, lock, tgt, run, flush, disp, fin, can, reap, owner, latePrice, rewritten>>

\* The new generation is flushed, which locks the job's row, and the batch is
\* sent inside the open transaction.
RecoverPost ==
  /\ rec.pc = "read" /\ lock = "free"
  /\ ~FenceStale(rec.job)
  /\ \E r \in Runs : /\ Launch(r, rec.batch, rec.job.plan + 1)
                     /\ rec' = [rec EXCEPT !.pc = "stamp", !.run = r]
  /\ lock' = "recovery"
  /\ UNCHANGED <<now, job, tgt, flush, disp, fin, can, reap, owner, latePrice, rewritten>>

RecoverStamp ==
  /\ rec.pc = "stamp"
  /\ job' = [job EXCEPT !.plan = rec.job.plan + 1]
  /\ tgt' = [t \in Targets |-> IF t \notin rec.batch THEN tgt[t]
               ELSE [tgt[t] EXCEPT !.dispatched = now, !.intent = rec.run]]
  /\ rec' = NoCopies /\ lock' = "free"
  /\ Noted
  /\ UNCHANGED <<now, run, flush, disp, fin, can, reap, owner, latePrice>>

\* The authorization is denied for good, or the domain became unsupported.
RecoverDeny ==
  /\ rec.pc = "read" /\ lock = "free"
  /\ \E outcome \in {"FAILED", "SKIPPED"} : tgt' = WithStatus(rec.batch, outcome)
  /\ job' = [job EXCEPT !.plan = rec.job.plan + 1]
  /\ rec' = NoCopies
  /\ Noted
  /\ UNCHANGED <<now, lock, run, flush, disp, fin, can, reap, owner, latePrice>>

\* The fence is stale or every node is full: only the generation is committed.
RecoverSkips ==
  /\ rec.pc = "read" /\ lock = "free"
  /\ job' = [job EXCEPT !.plan = rec.job.plan + 1]
  /\ rec' = NoCopies
  /\ UNCHANGED <<now, lock, tgt, run, flush, disp, fin, can, reap, owner, latePrice, rewritten>>

RecoverDies ==
  /\ rec.pc # "idle"
  /\ rec' = NoCopies
  /\ lock' = IF lock = "recovery" THEN "free" ELSE lock
  /\ UNCHANGED <<now, job, tgt, run, flush, disp, fin, can, reap, owner, latePrice, rewritten>>

------------------------------------------------------------------------------
(* A spider's run                                                            *)

\* Mutant: COALESCE(started_at, now()), the first claim's clock.
Claimed_First(t) ==
  [tgt[t] EXCEPT !.status = "STARTED", !.started = IF @ = Never THEN now ELSE @]

\* _started_claim_stmt: started_at is the current claim's clock.
Claimed(t) == [tgt[t] EXCEPT !.status = "STARTED", !.started = now]

\* load_targets: terminal targets are left out, the waiting ones are claimed by
\* one guarded UPDATE; a target another run has STARTED is crawled as well.
RunStart(r) ==
  LET claimed == {t \in run[r].batch : tgt[t].status \in PICKUP_ELIGIBLE} IN
  /\ run[r].st = "queued"
  /\ run' = [run EXCEPT ![r].st = "live", ![r].since = now,
               ![r].todo = {t \in run[r].batch : tgt[t].status \notin Terminal}]
  /\ tgt' = [t \in Targets |-> IF t \in claimed THEN Claimed(t) ELSE tgt[t]]
  /\ owner' = [t \in Targets |-> IF t \in claimed THEN r ELSE owner[t]]
  /\ Noted
  /\ UNCHANGED <<now, job, lock, flush, disp, sweepVars, latePrice>>

\* _flush_batch, first statement: is the job cancelled?  A defer or a refusal
\* the spider writes in a transaction of its own does not ask.
FlushFence(r) ==
  /\ run[r].st = "live" /\ flush[r].pc = "none"
  /\ \E t \in run[r].todo,
        fence \in {"unasked", IF job.status = "CANCELLED" THEN "late" ELSE "pass"} :
       flush' = [flush EXCEPT ![r] = [pc |-> "fenced", item |-> t, fence |-> fence, open |-> FALSE]]
  /\ UNCHANGED <<now, job, lock, tgt, run, disp, sweepVars, owner, latePrice, rewritten>>

\* mark_target's SELECT: a terminal target is left alone, and so is the target of
\* a refused item.
FlushMark(r) ==
  /\ flush[r].pc = "fenced"
  /\ flush' = [flush EXCEPT ![r].pc = "marked", ![r].open =
       flush[r].fence # "late" /\ tgt[flush[r].item].status \notin Terminal]
  /\ UNCHANGED <<now, job, lock, tgt, run, disp, sweepVars, owner, latePrice, rewritten>>

\* Mutant: the item's verdict is written as it stands.
MarkedAs_Raw(outcome) == outcome

\* An item that names the next strategy's method hands its target over: DEFERRED.
MarkedAs(outcome) == IF outcome = "HANDOFF" THEN "DEFERRED" ELSE outcome

\* The transaction commits the observation and the status the copy was given; a
\* hand-off to the next strategy also clears the stamp, of a closed row too.
FlushCommit(r) ==
  LET f == flush[r] IN
  /\ f.pc = "marked"
  /\ \E outcome \in Outcomes :
       LET handoff == outcome = "HANDOFF" /\ f.fence = "pass" IN
       /\ f.fence = "unasked" => outcome \in {"DEFERRED", "FAILED", "SKIPPED"}
       /\ tgt' = [tgt EXCEPT
            ![f.item].status = IF f.open THEN MarkedAs(outcome) ELSE @,
            ![f.item].dispatched = IF handoff THEN Never ELSE @]
       /\ latePrice' = IF f.fence = "pass" /\ outcome = "COMPLETED" /\ job.status = "CANCELLED"
                       THEN latePrice \cup {f.item} ELSE latePrice
  /\ run' = [run EXCEPT ![r].todo = @ \ {f.item}]
  /\ flush' = [flush EXCEPT ![r] = NoFlush]
  /\ Noted
  /\ UNCHANGED <<now, job, lock, disp, sweepVars, owner>>

\* The run is done, was killed by its watchdog or by cancel.json, or was purged
\* from the queue.  An open flush is rolled back, unflushed items are dropped.
RunEnd(r) ==
  /\ run[r].st \in {"queued", "live"}
  /\ run' = [run EXCEPT ![r].st = "over", ![r].since = 0, ![r].todo = {}]
  /\ flush' = [flush EXCEPT ![r] = NoFlush]
  /\ UNCHANGED <<now, job, lock, tgt, disp, sweepVars, owner, latePrice, rewritten>>

------------------------------------------------------------------------------
(* finalize_jobs, cancel_and_reconcile_job, reap_stale_targets               *)

\* Mutant: a job without a waiting target is finished.
FinalizeRead_Picked ==
  /\ fin = "idle" /\ job.status \notin TerminalJob
  /\ \A t \in Targets : tgt[t].status \notin PICKUP_ELIGIBLE
  /\ fin' = resolve_finalized_status
  /\ UNCHANGED <<now, job, lock, tgt, run, flush, disp, rec, can, reap, owner, latePrice, rewritten>>

FinalizeRead ==
  /\ fin = "idle" /\ job.status \notin TerminalJob
  /\ \A t \in Targets : tgt[t].status \in Terminal
  /\ fin' = resolve_finalized_status
  /\ UNCHANGED <<now, job, lock, tgt, run, flush, disp, rec, can, reap, owner, latePrice, rewritten>>

FinalizeCommit ==
  /\ fin # "idle" /\ lock = "free"
  /\ job' = [job EXCEPT !.status = fin]
  /\ fin' = "idle"
  /\ UNCHANGED <<now, lock, tgt, run, flush, disp, rec, can, reap, owner, latePrice, rewritten>>

\* The cancellation reads the job, whatever its status.
CancelRead ==
  /\ MaxCancels > 0 /\ can.pc = "idle"
  /\ job.status = "CANCELLED" \/ job.gen < MaxCancels
  /\ can' = [can EXCEPT !.pc = "read", !.seen = job]
  /\ UNCHANGED <<now, job, lock, tgt, run, flush, disp, rec, fin, reap, owner, latePrice, rewritten>>

\* The fence is flushed, which locks the job's row; then the targets are read.
\* A cancel of a cancelled job leaves the fence alone.
CancelFence ==
  /\ can.pc = "read"
  /\ IF can.seen.status = "CANCELLED" THEN UNCHANGED lock
     ELSE lock = "free" /\ lock' = "cancel"
  /\ can' = [can EXCEPT !.pc = "fenced", !.open = {t \in Targets : tgt[t].status \in Open}]
  /\ UNCHANGED <<now, job, tgt, run, flush, disp, rec, fin, reap, owner, latePrice, rewritten>>

\* Job and targets commit together.
CancelCommit ==
  /\ can.pc = "fenced"
  /\ IF can.seen.status = "CANCELLED" THEN UNCHANGED <<job, lock>>
     ELSE /\ job' = [job EXCEPT !.status = "CANCELLED", !.gen = can.seen.gen + 1]
          /\ lock' = "free"
  /\ tgt' = WithStatus(can.open, "CANCELLED")
  /\ can' = NoCancel
  /\ Noted
  /\ UNCHANGED <<now, run, flush, disp, rec, fin, reap, owner, latePrice>>

\* revert_started_targets_of_ended_runs, reading half: rows past the minimum age
\* whose named run a node says is not live; a silent node is no verdict.
ReapScan ==
  /\ reap.pc = "idle"
  /\ \E ended \in SUBSET {t \in Targets :
            /\ tgt[t].status = "STARTED" /\ now - tgt[t].started > EndedAge
            /\ tgt[t].intent # 0 /\ run[tgt[t].intent].st \notin {"queued", "live"}} :
       reap' = [pc |-> "scanned", ended |-> ended]
  /\ UNCHANGED <<now, job, lock, tgt, run, flush, disp, rec, fin, can, owner, latePrice, rewritten>>

\* revert_stale_started_targets
TooOld(t)   == tgt[t].status = "STARTED" /\ now - tgt[t].started > ReapAfter
Reverted(t) == TooOld(t) \/ (t \in reap.ended /\ tgt[t].status = "STARTED")

\* Mutant: the deadline pass is gone.
Closed_NoDeadline(t) == job.status \in TerminalJob /\ tgt[t].status \in Open

\* The job fail_targets_past_job_deadline expires; one that never started has no clock.
Expired == job.status = "RUNNING" /\ job.started # Never /\ now - job.started > Deadline

\* That pass and close_open_targets_of_terminal_jobs see the rows the first two passes
\* have reverted: open before, open after.
Closed(t) == tgt[t].status \in Open /\ (Expired \/ job.status \in TerminalJob)

\* The four bulk statements of the reaper, one transaction.
ReapCommit ==
  /\ reap.pc = "scanned"
  /\ tgt' = [t \in Targets |->
       IF Closed(t) /\ Reverted(t) THEN [NewTarget EXCEPT !.status = "FAILED"]
       ELSE IF Closed(t) THEN [tgt[t] EXCEPT !.status = "FAILED"]
       ELSE IF Reverted(t) THEN NewTarget ELSE tgt[t]]
  /\ reap' = NoReap
  /\ Noted
  /\ UNCHANGED <<now, job, lock, run, flush, disp, rec, fin, can, owner, latePrice>>

\* Time passes.  A sweep, a planning transaction and a flush last less than a
\* tick; a dispatch may not, for its requests; a run is stopped at its maximum runtime.
Tick ==
  /\ now < MaxTime
  /\ fin = "idle" /\ can.pc = "idle" /\ reap.pc = "idle"
  /\ rec.pc # "read" /\ \A d \in Dispatchers : disp[d].pc \in {"idle", "stamp"}
  /\ \A r \in Runs : flush[r].pc = "none"
  /\ \A r \in Runs : run[r].st = "live" => now - run[r].since < RunMax
  /\ now' = now + 1
  /\ UNCHANGED <<job, lock, tgt, run, flush, disp, sweepVars, owner, latePrice, rewritten>>

Dispatch(d) == DispatchRead(d) \/ DispatchPlan(d) \/ DispatchPost(d) \/ DispatchStamp(d)
                 \/ DispatchDies(d)
Recover == RecoverRead \/ RecoverPost \/ RecoverStamp \/ RecoverDeny \/ RecoverSkips
             \/ RecoverDies
Spider(r) == RunStart(r) \/ FlushFence(r) \/ FlushMark(r) \/ FlushCommit(r) \/ RunEnd(r)
Sweep == FinalizeRead \/ FinalizeCommit \/ ReapScan \/ ReapCommit
Cancel == CancelRead \/ CancelFence \/ CancelCommit

Next ==
  \/ \E d \in Dispatchers : Dispatch(d)
  \/ Recover
  \/ \E r \in Runs : Spider(r)
  \/ Sweep
  \/ Cancel
  \/ Tick

Spec == Init /\ [][Next]_vars

TimeIsUp == now = MaxTime

\* Celery beat delivers the sweeps again and again, a transaction that holds the
\* job's row lock ends, and the clock runs.  Nothing is asked of the dispatchers
\* and the spiders.
Fairness ==
  /\ <>TimeIsUp
  /\ WF_vars(FinalizeRead) /\ WF_vars(FinalizeCommit)
  /\ WF_vars(ReapScan) /\ WF_vars(ReapCommit)
  /\ WF_vars(CancelFence) /\ WF_vars(CancelCommit)
  /\ WF_vars(RecoverStamp \/ RecoverSkips \/ RecoverDies)
FairSpec == Spec /\ Fairness

------------------------------------------------------------------------------
(* Properties                                                                *)

\* Every row, run, copy and transaction is one the schema's types allow.
TypeOK ==
  /\ now \in Time /\ job \in JobRow /\ lock \in {"free", "recovery", "cancel"}
  /\ tgt \in [Targets -> TargetRow] /\ run \in [Runs -> Run] /\ flush \in [Runs -> Flush]
  /\ disp \in [Dispatchers -> Copies] /\ rec \in Copies
  /\ fin \in {"idle"} \cup TerminalJob
  /\ can \in [pc : {"idle", "read", "fenced"}, seen : JobRow, open : SUBSET Targets]
  /\ reap \in [pc : {"idle", "scanned"}, ended : SUBSET Targets]
  /\ owner \in [Targets -> Runs \cup {0}]
  /\ rewritten \subseteq Targets /\ latePrice \subseteq Targets

\* revert_stale_started_targets never takes a target from a run that is still
\* crawling it: a row it hands back to the dispatcher has no live claimant.
AgeReapIsSafe ==
  [][\A t \in Targets :
       (tgt[t].status = "STARTED" /\ tgt'[t] = NewTarget /\ t \notin reap.ended)
         => run[owner[t]].st # "live"]_vars

\* A job the finalizer closed, and nobody cancelled, has only closed targets,
\* and its status is the verdict over their results, unless a stale writer has
\* rewritten a closed target.
FinalizedTruthful ==
  (job.status \in TerminalJob /\ job.gen = 0 /\ rewritten = {})
    => /\ \A t \in Targets : tgt[t].status \in Terminal
       /\ job.status = resolve_finalized_status

PastDeadline == job.started # Never /\ job.started + Deadline < MaxTime
Settled == job.status \in TerminalJob /\ \A t \in Targets : tgt[t].status \in Terminal

\* The deadline pass, the finalizer and the close of terminal jobs' leftovers
\* settle every started job for good, whatever crashes, silent spiders,
\* re-deliveries and lost updates befall it.  (The clock is bounded: the start
\* must lie a deadline before its end.)
JobSettles ==
  <>[]PastDeadline => <>[]Settled

\* The reaper, in either of its reverting passes, "operates only on rows that
\* provably have no live owner".
ReapedHasNoLiveOwner ==
  [][\A t \in Targets : (tgt[t].status = "STARTED" /\ tgt'[t] = NewTarget)
       => run[owner[t]].st # "live"]_vars

\* Once the database says CANCELLED, nothing can contradict it.
CancelledIsFinal == [][job.status = "CANCELLED" => job'.status = "CANCELLED"]_vars

\* Terminal is terminal: nothing re-opens a target that has its price.
CompletedStays ==
  [][\A t \in Targets : tgt[t].status = "COMPLETED" => tgt'[t].status \in Terminal]_vars

\* A target that was closed by a human is never re-opened by a straggler.
CancelledTargetStays ==
  [][\A t \in Targets : tgt[t].status = "CANCELLED" => tgt'[t].status \in Terminal]_vars

\* A cancelled job never produces prices.
CancelledNeverPriced == latePrice = {}
==============================================================================
