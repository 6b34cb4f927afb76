------------------------- MODULE JobLifecycleProofs -------------------------
(* Proofs about the job's rows, for any number of targets, dispatchers, runs  *)
(* and cancellations and any timeouts the settings allow.                     *)
EXTENDS JobLifecycle, TLAPS

\* The numeric constants, one by one.
LEMMA Bounds ==
  /\ MaxCancels \in Nat /\ MaxRuns \in Nat /\ MaxPlans \in Nat /\ MaxTime \in Nat
  /\ Stall \in Nat /\ RunMax \in Nat /\ EndedAge \in Nat /\ ReapAfter \in Nat
  /\ Deadline \in Nat /\ RunMax <= ReapAfter
BY TimingAssumption

\* The rows and transactions everything starts from have their types.
LEMMA ConstantRows ==
  /\ NewJob \in JobRow /\ NewTarget \in TargetRow /\ Unused \in Run
  /\ NoFlush \in Flush /\ NoCopies \in Copies
<1>1. NewJob \in JobRow
  BY Bounds DEF NewJob, JobRow, Plans
<1>2. NewTarget \in TargetRow
  BY DEF NewTarget, TargetRow, Open, PICKUP_ELIGIBLE
<1>3. Unused \in Run
  BY Bounds DEF Unused, Run, Plans, Time
<1>4. NoFlush \in Flush
  BY DEF NoFlush, Flush
<1>5. NoCopies \in Copies
  BY <1>1 DEF NoCopies, Copies
<1> QED BY <1>1, <1>2, <1>3, <1>4, <1>5

------------------------------------------------------------------------------
(* Type correctness                                                          *)

\* What a session's copy says about the counters it will raise, and the item a
\* flush is about: without it the rows they write would leave their types.
CopyOK ==
  /\ rec.pc # "idle" => rec.job.plan < MaxPlans
  /\ can.pc # "idle" /\ can.seen.status # "CANCELLED" => can.seen.gen < MaxCancels
  /\ \A r \in Runs : flush[r].pc # "none" => flush[r].item \in Targets

TypeInv == TypeOK /\ CopyOK

LEMMA InitType == Init => TypeInv
<1> SUFFICES ASSUME Init PROVE TypeInv
  OBVIOUS
<1>1. 0 \in Time
  BY Bounds DEF Time
<1>2. TypeOK
  BY <1>1, ConstantRows DEF TypeOK, Init, NoCancel, NoReap
<1>3. CopyOK
  BY DEF CopyOK, Init, NoCopies, NoCancel, NoFlush
<1> QED BY <1>2, <1>3 DEF TypeInv

\* Writing one status to a set of rows leaves rows.
LEMMA WithStatusType ==
  ASSUME TypeInv, NEW ts, NEW status \in Open \cup Terminal
  PROVE  WithStatus(ts, status) \in [Targets -> TargetRow]
BY DEF WithStatus, TypeInv, TypeOK, TargetRow

\* The copy of the job a session keeps after planning.
LEMMA AuthorizedType ==
  ASSUME NEW seen \in JobRow, NEW plan \in Plans
  PROVE  Authorized(seen, plan) \in JobRow /\ Authorized(seen, plan).plan = plan
BY ConstantRows DEF Authorized, JobRow

\* The history of rewritten rows grows by targets only.
LEMMA NotedType ==
  ASSUME TypeInv, Noted
  PROVE  rewritten' \subseteq Targets
BY DEF Noted, TypeInv, TypeOK

\* A launch or an adoption leaves runs, and does not touch a run that has begun.
LEMMA LaunchType ==
  ASSUME TypeInv, NEW r \in Runs, NEW batch \in SUBSET Targets, NEW plan \in Plans,
         Launch(r, batch, plan) \/ Adopt(r, batch, plan)
  PROVE  /\ run' \in [Runs -> Run]
         /\ \A q \in Runs : run[q].st # "unused" => run'[q] = run[q]
         /\ \A q \in Runs : run'[q].st = "live" => run'[q] = run[q]
<1>1. CASE Adopt(r, batch, plan)
  BY <1>1 DEF Adopt, TypeInv, TypeOK
<1>2. CASE Launch(r, batch, plan)
  <2> DEFINE new == [Unused EXCEPT !.st = "queued", !.batch = batch, !.plan = plan]
  <2>1. new \in Run /\ new.st = "queued"
    BY ConstantRows DEF Run, Unused
  <2>2. run' = [run EXCEPT ![r] = new] /\ run[r].st = "unused"
    BY <1>2 DEF Launch
  <2> HIDE DEF new
  <2> QED BY <2>1, <2>2 DEF TypeInv, TypeOK
<1> QED BY <1>1, <1>2

LEMMA DispatchReadType ==
  ASSUME TypeInv, NEW d \in Dispatchers, DispatchRead(d)
  PROVE  TypeInv'
<1>0. UNCHANGED <<now, job, lock, tgt, run, flush, rec, fin, can, reap, owner, latePrice, rewritten>>
  BY DEF DispatchRead, sweepVars
<1>1. disp' \in [Dispatchers -> Copies]
  <2> DEFINE rest == {t \in Targets : \/ tgt[t].status = "PENDING" /\ tgt[t].dispatched = Never
                                      \/ tgt[t].status = "DEFERRED"}
             defs == {t \in Targets : tgt[t].status = "DEFERRED"}
             copy == [NoCopies EXCEPT !.pc = "read", !.job = job, !.rest = rest, !.deferred = defs]
  <2>1. copy \in Copies
    <3>1. rest \in SUBSET Targets /\ defs \in SUBSET Targets /\ job \in JobRow
      BY DEF TypeInv, TypeOK
    <3> HIDE DEF rest, defs
    <3> QED BY <3>1, ConstantRows DEF Copies
  <2>2. disp' = [disp EXCEPT ![d] = copy]
    BY DEF DispatchRead
  <2> HIDE DEF copy
  <2> QED BY <2>1, <2>2 DEF TypeInv, TypeOK
<1> QED BY <1>0, <1>1 DEF TypeInv, TypeOK, CopyOK

LEMMA DispatchPlanType ==
  ASSUME TypeInv, NEW d \in Dispatchers, DispatchPlan(d)
  PROVE  TypeInv'
<1>0. Noted /\ UNCHANGED <<now, lock, run, flush, rec, fin, can, reap, owner, latePrice>>
  <2>1. Noted /\ UNCHANGED <<now, lock, run, flush, sweepVars, owner, latePrice>>
    BY DEF DispatchPlan
  <2> QED BY <2>1 DEF sweepVars
<1> DEFINE seen   == disp[d].job
           starts == seen.status \notin TerminalJob /\ seen.started = Never
<1>1. PICK doomed \in SUBSET disp[d].rest, outcome \in {"FAILED", "SKIPPED"}, bump \in {0, 1} :
       /\ bump = 1 => seen.plan < MaxPlans
       /\ tgt' = WithStatus(doomed, outcome)
       /\ job' = [job EXCEPT !.status  = IF starts THEN "RUNNING" ELSE @,
                             !.started = IF starts THEN now ELSE @,
                             !.plan    = IF bump = 1 THEN seen.plan + 1 ELSE @]
       /\ disp' = [disp EXCEPT ![d] =
            IF doomed = disp[d].rest THEN NoCopies
            ELSE [disp[d] EXCEPT !.pc = "planned", !.rest = @ \ doomed, !.deferred = @ \ doomed,
                                 !.job = Authorized(seen, seen.plan + bump)]]
  BY DEF DispatchPlan
<1>2. disp[d] \in Copies /\ seen \in JobRow /\ seen.plan \in Plans
  BY DEF TypeInv, TypeOK, Copies, JobRow
<1>3. seen.plan + bump \in Plans /\ (bump = 1 => seen.plan + 1 \in Plans)
  BY <1>1, <1>2, Bounds DEF Plans
<1>4. job' \in JobRow
  BY <1>1, <1>3 DEF TypeInv, TypeOK, JobRow
<1>5. tgt' \in [Targets -> TargetRow]
  BY <1>1, WithStatusType DEF Terminal
<1>6. disp' \in [Dispatchers -> Copies]
  <2>1. Authorized(seen, seen.plan + bump) \in JobRow
    BY <1>2, <1>3, AuthorizedType
  <2> DEFINE copy == [disp[d] EXCEPT !.pc = "planned", !.rest = @ \ doomed,
                                     !.deferred = @ \ doomed,
                                     !.job = Authorized(seen, seen.plan + bump)]
  <2>2. copy \in Copies
    BY <2>1, <1>2 DEF Copies
  <2>3. disp' = [disp EXCEPT ![d] = IF doomed = disp[d].rest THEN NoCopies ELSE copy]
    BY <1>1
  <2> HIDE DEF copy
  <2> QED BY <2>2, <2>3, ConstantRows DEF TypeInv, TypeOK
<1> QED BY <1>0, <1>4, <1>5, <1>6, NotedType DEF TypeInv, TypeOK, CopyOK

LEMMA DispatchPostType ==
  ASSUME TypeInv, NEW d \in Dispatchers, DispatchPost(d)
  PROVE  TypeInv'
<1>0. UNCHANGED <<now, job, lock, tgt, flush, rec, fin, can, reap, owner, latePrice, rewritten>>
  BY DEF DispatchPost, sweepVars
<1>1. disp[d] \in Copies /\ disp[d].rest \subseteq Targets /\ disp[d].job.plan \in Plans
  BY DEF TypeInv, TypeOK, Copies, JobRow
<1>2. CASE disp' = [disp EXCEPT ![d] = NoCopies] /\ UNCHANGED run
  BY <1>0, <1>2, ConstantRows DEF TypeInv, TypeOK, CopyOK
<1>3. CASE \E r \in Runs, batch \in SUBSET disp[d].rest \ {{}} :
             /\ Launch(r, batch, disp[d].job.plan) \/ Adopt(r, batch, disp[d].job.plan)
             /\ disp' = [disp EXCEPT ![d].pc = "stamp", ![d].run = r, ![d].batch = batch,
                                     ![d].rest = @ \ batch]
  <2>1. PICK r \in Runs, batch \in SUBSET disp[d].rest :
             /\ Launch(r, batch, disp[d].job.plan) \/ Adopt(r, batch, disp[d].job.plan)
             /\ disp' = [disp EXCEPT ![d].pc = "stamp", ![d].run = r, ![d].batch = batch,
                                     ![d].rest = @ \ batch]
    BY <1>3
  <2>2. batch \in SUBSET Targets
    BY <1>1
  <2>3. run' \in [Runs -> Run]
    BY <2>1, <2>2, <1>1, LaunchType
  <2>4. disp' \in [Dispatchers -> Copies]
    <3> DEFINE copy == [disp[d] EXCEPT !.pc = "stamp", !.run = r, !.batch = batch,
                                       !.rest = @ \ batch]
    <3>1. copy \in Copies
      BY <1>1, <2>2 DEF Copies
    <3>2. disp' = [disp EXCEPT ![d] = copy]
      BY <2>1 DEF TypeInv, TypeOK
    <3> HIDE DEF copy
    <3> QED BY <3>1, <3>2 DEF TypeInv, TypeOK
  <2> QED BY <1>0, <2>3, <2>4 DEF TypeInv, TypeOK, CopyOK
<1> QED BY <1>2, <1>3 DEF DispatchPost

LEMMA DispatchStampType ==
  ASSUME TypeInv, NEW d \in Dispatchers, DispatchStamp(d)
  PROVE  TypeInv'
<1>0. Noted /\ UNCHANGED <<now, job, lock, run, flush, rec, fin, can, reap, owner, latePrice>>
  BY DEF DispatchStamp, sweepVars
<1>1. disp[d] \in Copies /\ disp[d].run \in Runs \cup {0} /\ now \in Time
  BY DEF TypeInv, TypeOK, Copies
<1>2. tgt' \in [Targets -> TargetRow]
  <2> DEFINE row(t) == [tgt[t] EXCEPT !.status = IF t \in disp[d].deferred THEN "PENDING" ELSE @,
                                      !.dispatched = now, !.intent = disp[d].run]
  <2>1. ASSUME NEW t \in Targets PROVE row(t) \in TargetRow
    <3>1. tgt[t] \in TargetRow
      BY DEF TypeInv, TypeOK
    <3>2. (IF t \in disp[d].deferred THEN "PENDING" ELSE tgt[t].status) \in Open \cup Terminal
      BY <3>1 DEF TargetRow, Open, PICKUP_ELIGIBLE
    <3> QED BY <3>1, <3>2, <1>1 DEF TargetRow
  <2>2. tgt' = [t \in Targets |-> IF t \notin disp[d].batch THEN tgt[t] ELSE row(t)]
    BY DEF DispatchStamp
  <2> HIDE DEF row
  <2> QED BY <2>1, <2>2 DEF TypeInv, TypeOK
<1>3. disp' \in [Dispatchers -> Copies]
  <2> DEFINE copy == [disp[d] EXCEPT !.pc = "planned", !.batch = {}, !.run = 0,
                                     !.deferred = @ \cap disp[d].rest]
  <2>1. copy \in Copies
    BY <1>1 DEF Copies
  <2>2. disp' = [disp EXCEPT ![d] = IF disp[d].rest = {} THEN NoCopies ELSE copy]
    BY DEF DispatchStamp
  <2> HIDE DEF copy
  <2> QED BY <2>1, <2>2, ConstantRows DEF TypeInv, TypeOK
<1> QED BY <1>0, <1>2, <1>3, NotedType DEF TypeInv, TypeOK, CopyOK

LEMMA DispatchDiesType ==
  ASSUME TypeInv, NEW d \in Dispatchers, DispatchDies(d)
  PROVE  TypeInv'
<1>0. UNCHANGED <<now, job, lock, tgt, run, flush, rec, fin, can, reap, owner, latePrice, rewritten>>
  BY DEF DispatchDies, sweepVars
<1>1. disp' \in [Dispatchers -> Copies]
  BY ConstantRows DEF DispatchDies, TypeInv, TypeOK
<1> QED BY <1>0, <1>1 DEF TypeInv, TypeOK, CopyOK

LEMMA RecoverReadType ==
  ASSUME TypeInv, RecoverRead
  PROVE  TypeInv'
<1>0. UNCHANGED <<now, job, lock, tgt, run, flush, disp, fin, can, reap, owner, latePrice, rewritten>>
  BY DEF RecoverRead
<1> DEFINE stalled == {t \in Targets : /\ tgt[t].status = "PENDING" /\ tgt[t].dispatched # Never
                                       /\ now - tgt[t].dispatched > Stall}
<1>1. PICK batch \in SUBSET Targets :
        rec' = [NoCopies EXCEPT !.pc = "read", !.batch = batch, !.job = Authorized(job, job.plan)]
  <2>1. PICK unheard \in SUBSET stalled :
          rec' = [NoCopies EXCEPT !.pc = "read",
                    !.batch = {t \in stalled : t \in unheard \/ tgt[t].intent = 0
                                       \/ run[tgt[t].intent].st \notin {"queued", "live"}},
                    !.job = Authorized(job, job.plan)]
    BY DEF RecoverRead
  <2> QED BY <2>1
<1>2. Authorized(job, job.plan) \in JobRow /\ Authorized(job, job.plan).plan = job.plan
  <2>1. job \in JobRow /\ job.plan \in Plans
    BY DEF TypeInv, TypeOK, JobRow
  <2> QED BY <2>1, AuthorizedType
<1>3. rec' \in Copies /\ rec'.job.plan = job.plan
  BY <1>1, <1>2, ConstantRows DEF Copies
<1>4. job.plan < MaxPlans
  BY DEF RecoverRead
<1> QED BY <1>0, <1>3, <1>4 DEF TypeInv, TypeOK, CopyOK

\* What a recovery that has read the job may write.
LEMMA NextPlan ==
  ASSUME TypeInv, rec.pc # "idle"
  PROVE  /\ rec.job.plan + 1 \in Plans
         /\ [job EXCEPT !.plan = rec.job.plan + 1] \in JobRow
<1>1. rec.job.plan \in Plans /\ rec.job.plan < MaxPlans
  BY DEF TypeInv, TypeOK, CopyOK, Copies, JobRow
<1>2. rec.job.plan + 1 \in Plans
  BY <1>1, Bounds DEF Plans
<1> QED BY <1>2 DEF TypeInv, TypeOK, JobRow

LEMMA RecoverPostType ==
  ASSUME TypeInv, RecoverPost
  PROVE  TypeInv'
<1>0. UNCHANGED <<now, job, tgt, flush, disp, fin, can, reap, owner, latePrice, rewritten>> /\ lock' = "recovery"
  BY DEF RecoverPost
<1>1. PICK r \in Runs : /\ Launch(r, rec.batch, rec.job.plan + 1)
                        /\ rec' = [rec EXCEPT !.pc = "stamp", !.run = r]
  BY DEF RecoverPost
<1>2. rec \in Copies /\ rec.batch \in SUBSET Targets /\ rec.pc = "read"
  BY DEF RecoverPost, TypeInv, TypeOK, Copies
<1>3. run' \in [Runs -> Run]
  BY <1>1, <1>2, NextPlan, LaunchType
<1>4. rec' \in Copies /\ rec'.job = rec.job
  BY <1>1, <1>2 DEF Copies
<1> QED BY <1>0, <1>2, <1>3, <1>4 DEF TypeInv, TypeOK, CopyOK

LEMMA RecoverStampType ==
  ASSUME TypeInv, RecoverStamp
  PROVE  TypeInv'
<1>0. Noted /\ UNCHANGED <<now, run, flush, disp, fin, can, reap, owner, latePrice>>
      /\ rec' = NoCopies /\ lock' = "free"
  BY DEF RecoverStamp
<1>1. job' \in JobRow
  BY NextPlan DEF RecoverStamp
<1>2. rec.run \in Runs \cup {0} /\ now \in Time
  BY DEF TypeInv, TypeOK, Copies
<1>3. tgt' \in [Targets -> TargetRow]
  <2> DEFINE row(t) == [tgt[t] EXCEPT !.dispatched = now, !.intent = rec.run]
  <2>1. ASSUME NEW t \in Targets PROVE row(t) \in TargetRow
    <3>1. tgt[t] \in TargetRow
      BY DEF TypeInv, TypeOK
    <3> QED BY <3>1, <1>2 DEF TargetRow
  <2>2. tgt' = [t \in Targets |-> IF t \notin rec.batch THEN tgt[t] ELSE row(t)]
    BY DEF RecoverStamp
  <2> HIDE DEF row
  <2> QED BY <2>1, <2>2 DEF TypeInv, TypeOK
<1> QED BY <1>0, <1>1, <1>3, ConstantRows, NotedType DEF TypeInv, TypeOK, CopyOK, NoCopies

LEMMA RecoverDenyType ==
  ASSUME TypeInv, RecoverDeny
  PROVE  TypeInv'
<1>0. Noted /\ UNCHANGED <<now, lock, run, flush, disp, fin, can, reap, owner, latePrice>> /\ rec' = NoCopies
  BY DEF RecoverDeny
<1>1. job' \in JobRow
  BY NextPlan DEF RecoverDeny
<1>2. tgt' \in [Targets -> TargetRow]
  BY WithStatusType DEF RecoverDeny, Terminal
<1> QED BY <1>0, <1>1, <1>2, ConstantRows, NotedType DEF TypeInv, TypeOK, CopyOK, NoCopies

LEMMA RecoverSkipsType ==
  ASSUME TypeInv, RecoverSkips
  PROVE  TypeInv'
<1>0. UNCHANGED <<now, lock, tgt, run, flush, disp, fin, can, reap, owner, latePrice, rewritten>> /\ rec' = NoCopies
  BY DEF RecoverSkips
<1>1. job' \in JobRow
  BY NextPlan DEF RecoverSkips
<1> QED BY <1>0, <1>1, ConstantRows DEF TypeInv, TypeOK, CopyOK, NoCopies

LEMMA RecoverDiesType ==
  ASSUME TypeInv, RecoverDies
  PROVE  TypeInv'
<1>0. UNCHANGED <<now, job, tgt, run, flush, disp, fin, can, reap, owner, latePrice, rewritten>> /\ rec' = NoCopies
  BY DEF RecoverDies
<1>1. lock' \in {"free", "recovery", "cancel"}
  BY DEF RecoverDies, TypeInv, TypeOK
<1> QED BY <1>0, <1>1, ConstantRows DEF TypeInv, TypeOK, CopyOK, NoCopies

LEMMA RunStartType ==
  ASSUME TypeInv, NEW r \in Runs, RunStart(r)
  PROVE  TypeInv'
<1>0. Noted /\ UNCHANGED <<now, job, lock, flush, disp, rec, fin, can, reap, latePrice>>
  BY DEF RunStart, sweepVars
<1>1. run' \in [Runs -> Run]
  <2> DEFINE todo == {t \in run[r].batch : tgt[t].status \notin Terminal}
             new  == [run[r] EXCEPT !.st = "live", !.since = now, !.todo = todo]
  <2>1. run[r] \in Run /\ now \in Time
    BY DEF TypeInv, TypeOK
  <2>2. todo \in SUBSET Targets
    BY <2>1 DEF Run
  <2>3. run' = [run EXCEPT ![r] = new]
    BY DEF RunStart, TypeInv, TypeOK
  <2> HIDE DEF todo
  <2>4. new \in Run
    BY <2>1, <2>2 DEF Run
  <2> HIDE DEF new
  <2> QED BY <2>3, <2>4 DEF TypeInv, TypeOK
<1> DEFINE claimed == {t \in run[r].batch : tgt[t].status \in PICKUP_ELIGIBLE}
<1>2. tgt' \in [Targets -> TargetRow]
  <2>1. ASSUME NEW t \in Targets PROVE Claimed(t) \in TargetRow
    <3>1. tgt[t] \in TargetRow /\ now \in Time
      BY DEF TypeInv, TypeOK
    <3> QED BY <3>1 DEF Claimed, TargetRow, Open
  <2>2. tgt' = [t \in Targets |-> IF t \in claimed THEN Claimed(t) ELSE tgt[t]]
    BY DEF RunStart
  <2> HIDE DEF claimed
  <2> QED BY <2>1, <2>2 DEF TypeInv, TypeOK
<1>3. owner' \in [Targets -> Runs \cup {0}]
  <2>1. owner' = [t \in Targets |-> IF t \in claimed THEN r ELSE owner[t]]
    BY DEF RunStart
  <2> HIDE DEF claimed
  <2> QED BY <2>1 DEF TypeInv, TypeOK
<1> QED BY <1>0, <1>1, <1>2, <1>3, NotedType DEF TypeInv, TypeOK, CopyOK

LEMMA FlushFenceType ==
  ASSUME TypeInv, NEW r \in Runs, FlushFence(r)
  PROVE  TypeInv'
<1>0. UNCHANGED <<now, job, lock, tgt, run, disp, rec, fin, can, reap, owner, latePrice, rewritten>>
  BY DEF FlushFence, sweepVars
<1>1. PICK t \in run[r].todo, fence \in {"unasked", "late", "pass"} :
        flush' = [flush EXCEPT ![r] = [pc |-> "fenced", item |-> t, fence |-> fence, open |-> FALSE]]
  BY DEF FlushFence
<1>2. t \in Targets
  BY DEF TypeInv, TypeOK, Run
<1>3. [pc |-> "fenced", item |-> t, fence |-> fence, open |-> FALSE] \in Flush
  BY <1>2 DEF Flush
<1>4. flush' \in [Runs -> Flush]
  BY <1>1, <1>3 DEF TypeInv, TypeOK
<1>5. \A q \in Runs : flush'[q].pc # "none" => flush'[q].item \in Targets
  BY <1>1, <1>2 DEF TypeInv, TypeOK, CopyOK
<1> QED BY <1>0, <1>4, <1>5 DEF TypeInv, TypeOK, CopyOK

LEMMA FlushMarkType ==
  ASSUME TypeInv, NEW r \in Runs, FlushMark(r)
  PROVE  TypeInv'
<1>0. UNCHANGED <<now, job, lock, tgt, run, disp, rec, fin, can, reap, owner, latePrice, rewritten>>
  BY DEF FlushMark, sweepVars
<1> DEFINE found == flush[r].fence # "late" /\ tgt[flush[r].item].status \notin Terminal
           new   == [flush[r] EXCEPT !.pc = "marked", !.open = found]
<1>1. flush[r] \in Flush /\ flush[r].item \in Targets
  BY DEF FlushMark, TypeInv, TypeOK, CopyOK
<1>2. flush' = [flush EXCEPT ![r] = new]
  BY DEF FlushMark, TypeInv, TypeOK
<1>3. found \in BOOLEAN
  OBVIOUS
<1> HIDE DEF found
<1>4. new \in Flush /\ new.item = flush[r].item
  BY <1>1, <1>3 DEF Flush
<1> HIDE DEF new
<1>5. flush' \in [Runs -> Flush]
  BY <1>2, <1>4 DEF TypeInv, TypeOK
<1>6. \A q \in Runs : flush'[q].pc # "none" => flush'[q].item \in Targets
  BY <1>1, <1>2, <1>4 DEF TypeInv, TypeOK, CopyOK
<1> QED BY <1>0, <1>5, <1>6 DEF TypeInv, TypeOK, CopyOK

\* A flush that ends: its slot is free again, and the others are as they were.
LEMMA FlushOver ==
  ASSUME TypeInv, NEW r \in Runs, flush' = [flush EXCEPT ![r] = NoFlush]
  PROVE  /\ flush' \in [Runs -> Flush]
         /\ \A q \in Runs : flush'[q].pc # "none" => flush'[q].item \in Targets
<1>1. NoFlush.pc = "none"
  BY DEF NoFlush
<1> QED BY <1>1, ConstantRows DEF TypeInv, TypeOK, CopyOK

LEMMA FlushCommitType ==
  ASSUME TypeInv, NEW r \in Runs, FlushCommit(r)
  PROVE  TypeInv'
<1>0. Noted /\ UNCHANGED <<now, job, lock, disp, rec, fin, can, reap, owner>>
  BY DEF FlushCommit, sweepVars
<1> DEFINE f == flush[r]
<1>1. f.item \in Targets /\ tgt[f.item] \in TargetRow
  BY DEF FlushCommit, TypeInv, TypeOK, CopyOK
<1>2. PICK outcome \in Outcomes :
       LET handoff == outcome = "HANDOFF" /\ f.fence = "pass" IN
       /\ tgt' = [tgt EXCEPT
            ![f.item].status = IF f.open THEN MarkedAs(outcome) ELSE @,
            ![f.item].dispatched = IF handoff THEN Never ELSE @]
       /\ latePrice' = IF f.fence = "pass" /\ outcome = "COMPLETED" /\ job.status = "CANCELLED"
                       THEN latePrice \cup {f.item} ELSE latePrice
  BY DEF FlushCommit
<1>3. latePrice' \subseteq Targets
  BY <1>1, <1>2 DEF TypeInv, TypeOK
<1>4. tgt' \in [Targets -> TargetRow]
  <2> DEFINE status     == IF f.open THEN MarkedAs(outcome) ELSE tgt[f.item].status
             dispatched == IF outcome = "HANDOFF" /\ f.fence = "pass" THEN Never
                           ELSE tgt[f.item].dispatched
             new        == [tgt[f.item] EXCEPT !.status = status, !.dispatched = dispatched]
  <2>1. status \in Open \cup Terminal /\ dispatched \in Time \cup {Never}
    BY <1>1 DEF MarkedAs, Outcomes, Open, PICKUP_ELIGIBLE, Terminal, TargetRow
  <2>2. tgt' = [tgt EXCEPT ![f.item] = new]
    BY <1>1, <1>2 DEF TypeInv, TypeOK
  <2> HIDE DEF status, dispatched
  <2>3. new \in TargetRow
    BY <2>1, <1>1 DEF TargetRow
  <2> HIDE DEF new, f
  <2> QED BY <2>2, <2>3, <1>1 DEF TypeInv, TypeOK
<1>5. run' \in [Runs -> Run]
  <2> DEFINE new == [run[r] EXCEPT !.todo = @ \ {f.item}]
  <2>1. new \in Run
    BY DEF TypeInv, TypeOK, Run
  <2>2. run' = [run EXCEPT ![r] = new]
    BY DEF FlushCommit
  <2> HIDE DEF new
  <2> QED BY <2>1, <2>2 DEF TypeInv, TypeOK
<1>6. flush' = [flush EXCEPT ![r] = NoFlush]
  BY DEF FlushCommit
<1> QED BY <1>0, <1>3, <1>4, <1>5, <1>6, FlushOver, NotedType DEF TypeInv, TypeOK, CopyOK

LEMMA RunEndType ==
  ASSUME TypeInv, NEW r \in Runs, RunEnd(r)
  PROVE  TypeInv'
<1>0. UNCHANGED <<now, job, lock, tgt, disp, rec, fin, can, reap, owner, latePrice, rewritten>>
  BY DEF RunEnd, sweepVars
<1>1. run' \in [Runs -> Run]
  <2> DEFINE new == [run[r] EXCEPT !.st = "over", !.since = 0, !.todo = {}]
  <2>1. run[r] \in Run /\ 0 \in Time
    BY Bounds DEF TypeInv, TypeOK, Time
  <2>2. new \in Run
    BY <2>1 DEF Run
  <2>3. run' = [run EXCEPT ![r] = new]
    BY DEF RunEnd, TypeInv, TypeOK
  <2> HIDE DEF new
  <2> QED BY <2>2, <2>3 DEF TypeInv, TypeOK
<1>2. flush' = [flush EXCEPT ![r] = NoFlush]
  BY DEF RunEnd
<1> QED BY <1>0, <1>1, <1>2, FlushOver DEF TypeInv, TypeOK, CopyOK

LEMMA FinalizeType ==
  ASSUME TypeInv, FinalizeRead \/ FinalizeCommit
  PROVE  TypeInv'
<1>0. UNCHANGED <<now, lock, tgt, run, flush, disp, rec, can, reap, owner, latePrice, rewritten>>
  BY DEF FinalizeRead, FinalizeCommit
<1>1. fin' \in {"idle"} \cup TerminalJob
  BY DEF FinalizeRead, FinalizeCommit, resolve_finalized_status, TerminalJob
<1>2. job' \in JobRow
  BY DEF FinalizeRead, FinalizeCommit, TypeInv, TypeOK, JobRow
<1> QED BY <1>0, <1>1, <1>2 DEF TypeInv, TypeOK, CopyOK

LEMMA CancelReadType ==
  ASSUME TypeInv, CancelRead
  PROVE  TypeInv'
<1>0. UNCHANGED <<now, job, lock, tgt, run, flush, disp, rec, fin, reap, owner, latePrice, rewritten>>
  BY DEF CancelRead
<1>1. can' \in [pc : {"idle", "read", "fenced"}, seen : JobRow, open : SUBSET Targets]
      /\ can'.seen = job
  BY DEF CancelRead, TypeInv, TypeOK
<1>2. job.status = "CANCELLED" \/ job.gen < MaxCancels
  BY DEF CancelRead
<1> QED BY <1>0, <1>1, <1>2 DEF TypeInv, TypeOK, CopyOK

LEMMA CancelFenceType ==
  ASSUME TypeInv, CancelFence
  PROVE  TypeInv'
<1>0. UNCHANGED <<now, job, tgt, run, flush, disp, rec, fin, reap, owner, latePrice, rewritten>>
  BY DEF CancelFence
<1>1. can' \in [pc : {"idle", "read", "fenced"}, seen : JobRow, open : SUBSET Targets]
      /\ can'.seen = can.seen /\ can.pc = "read"
  BY DEF CancelFence, TypeInv, TypeOK
<1>2. lock' \in {"free", "recovery", "cancel"}
  BY DEF CancelFence, TypeInv, TypeOK
<1> QED BY <1>0, <1>1, <1>2 DEF TypeInv, TypeOK, CopyOK

LEMMA CancelCommitType ==
  ASSUME TypeInv, CancelCommit
  PROVE  TypeInv'
<1>0. Noted /\ can' = NoCancel
      /\ UNCHANGED <<now, run, flush, disp, rec, fin, reap, owner, latePrice>>
  BY DEF CancelCommit
<1>1. can' \in [pc : {"idle", "read", "fenced"}, seen : JobRow, open : SUBSET Targets]
      /\ can'.pc = "idle"
  BY <1>0, ConstantRows DEF NoCancel
<1>2. lock' \in {"free", "recovery", "cancel"}
  BY DEF CancelCommit, TypeInv, TypeOK
<1>3. tgt' \in [Targets -> TargetRow]
  BY WithStatusType DEF CancelCommit, Terminal
<1>4. job' \in JobRow
  <2>1. CASE can.seen.status = "CANCELLED"
    BY <2>1 DEF CancelCommit, TypeInv, TypeOK
  <2>2. CASE can.seen.status # "CANCELLED"
    <3>1. can.seen.gen \in 0 .. MaxCancels /\ can.seen.gen < MaxCancels
      BY <2>2 DEF CancelCommit, TypeInv, TypeOK, CopyOK, JobRow
    <3>2. can.seen.gen + 1 \in 0 .. MaxCancels
      BY <3>1, Bounds
    <3> QED BY <2>2, <3>2 DEF CancelCommit, TypeInv, TypeOK, JobRow, TerminalJob
  <2> QED BY <2>1, <2>2
<1> QED BY <1>0, <1>1, <1>2, <1>3, <1>4, NotedType DEF TypeInv, TypeOK, CopyOK

LEMMA ReapScanType ==
  ASSUME TypeInv, ReapScan
  PROVE  TypeInv'
<1>0. UNCHANGED <<now, job, lock, tgt, run, flush, disp, rec, fin, can, owner, latePrice, rewritten>>
  BY DEF ReapScan
<1>1. PICK ended \in SUBSET Targets : reap' = [pc |-> "scanned", ended |-> ended]
  BY DEF ReapScan
<1> QED BY <1>0, <1>1 DEF TypeInv, TypeOK, CopyOK

LEMMA ReapCommitType ==
  ASSUME TypeInv, ReapCommit
  PROVE  TypeInv'
<1>0. Noted /\ reap' = NoReap
      /\ UNCHANGED <<now, job, lock, run, flush, disp, rec, fin, can, owner, latePrice>>
  BY DEF ReapCommit
<1>1. ASSUME NEW row \in TargetRow PROVE [row EXCEPT !.status = "FAILED"] \in TargetRow
  BY DEF TargetRow, Terminal
<1>2. tgt' \in [Targets -> TargetRow]
  BY <1>1, ConstantRows DEF ReapCommit, TypeInv, TypeOK
<1> QED BY <1>0, <1>2, NotedType DEF TypeInv, TypeOK, CopyOK, NoReap

LEMMA TickType ==
  ASSUME TypeInv, Tick
  PROVE  TypeInv'
<1>0. UNCHANGED <<job, lock, tgt, run, flush, disp, rec, fin, can, reap, owner, latePrice, rewritten>>
  BY DEF Tick, sweepVars
<1>1. now' \in Time
  BY Bounds DEF Tick, TypeInv, TypeOK, Time
<1> QED BY <1>0, <1>1 DEF TypeInv, TypeOK, CopyOK

LEMMA StepType == TypeInv /\ [Next]_vars => TypeInv'
<1> SUFFICES ASSUME TypeInv, [Next]_vars PROVE TypeInv'
  OBVIOUS
<1>1. ASSUME NEW d \in Dispatchers, Dispatch(d) PROVE TypeInv'
  BY <1>1, DispatchReadType, DispatchPlanType, DispatchPostType, DispatchStampType,
     DispatchDiesType DEF Dispatch
<1>2. CASE Recover
  BY <1>2, RecoverReadType, RecoverPostType, RecoverStampType, RecoverDenyType,
     RecoverSkipsType, RecoverDiesType DEF Recover
<1>3. ASSUME NEW r \in Runs, Spider(r) PROVE TypeInv'
  BY <1>3, RunStartType, FlushFenceType, FlushMarkType, FlushCommitType, RunEndType DEF Spider
<1>4. CASE Sweep
  BY <1>4, FinalizeType, ReapScanType, ReapCommitType DEF Sweep
<1>5. CASE Cancel
  BY <1>5, CancelReadType, CancelFenceType, CancelCommitType DEF Cancel
<1>6. CASE Tick
  BY <1>6, TickType
<1>7. CASE UNCHANGED vars
  BY <1>7 DEF vars, sweepVars, TypeInv, TypeOK, CopyOK
<1> QED BY <1>1, <1>2, <1>3, <1>4, <1>5, <1>6, <1>7 DEF Next

\* Every reachable row, run, copy and transaction of dispatch_job, the recovery,
\* the spiders, the sweeps and the cancellation is one the schema's types allow.
THEOREM JobTypeCorrect == Spec => []TypeOK
<1>1. Init => TypeInv
  BY InitType
<1>2. TypeInv /\ [Next]_vars => TypeInv'
  BY StepType
<1>3. TypeInv => TypeOK
  BY DEF TypeInv
<1> QED BY <1>1, <1>2, <1>3, PTL DEF Spec

------------------------------------------------------------------------------
(* The age pass of the reaper                                                *)

\* A STARTED row was claimed by a run that has begun, and while that run is live
\* the row carries the clock of its claim.
OwnerOK ==
  \A t \in Targets : tgt[t].status = "STARTED" =>
    /\ owner[t] \in Runs
    /\ run[owner[t]].st \in {"live", "over"}
    /\ run[owner[t]].st = "live" => tgt[t].started = run[owner[t]].since

\* The watchdog: no run outlives its maximum runtime.
AgeOK == \A r \in Runs : run[r].st = "live" => now - run[r].since <= RunMax

ClaimInv == TypeInv /\ OwnerOK /\ AgeOK

\* A step that starts no claim: it leaves the clock of STARTED rows alone...
KeepsRows == \A t \in Targets : tgt'[t].status = "STARTED" =>
               tgt[t].status = "STARTED" /\ tgt'[t].started = tgt[t].started

\* ... and starts no run.
KeepsRuns == \A r \in Runs :
  /\ run[r].st \in {"live", "over"} => run'[r].st \in {"live", "over"}
  /\ run'[r].st = "live" => run[r].st = "live" /\ run'[r].since = run[r].since

LEMMA QuietStep ==
  ASSUME ClaimInv, KeepsRows, KeepsRuns, UNCHANGED <<now, owner>>
  PROVE  OwnerOK' /\ AgeOK'
<1>1. OwnerOK'
  <2> SUFFICES ASSUME NEW t \in Targets, tgt'[t].status = "STARTED"
               PROVE  /\ owner[t] \in Runs
                      /\ run'[owner[t]].st \in {"live", "over"}
                      /\ run'[owner[t]].st = "live" => tgt'[t].started = run'[owner[t]].since
    BY DEF OwnerOK
  <2>1. tgt[t].status = "STARTED" /\ tgt'[t].started = tgt[t].started
    BY DEF KeepsRows
  <2>2. owner[t] \in Runs /\ run[owner[t]].st \in {"live", "over"}
    BY <2>1 DEF ClaimInv, OwnerOK
  <2> QED BY <2>1, <2>2 DEF ClaimInv, OwnerOK, KeepsRuns
<1>2. AgeOK'
  BY DEF ClaimInv, AgeOK, KeepsRuns
<1> QED BY <1>1, <1>2

\* A new status that is not STARTED, written to some rows.
LEMMA WithStatusKeeps ==
  ASSUME TypeInv, NEW ts, NEW status, status # "STARTED", tgt' = WithStatus(ts, status)
  PROVE  KeepsRows
<1> SUFFICES ASSUME NEW t \in Targets, tgt'[t].status = "STARTED"
             PROVE  tgt[t].status = "STARTED" /\ tgt'[t].started = tgt[t].started
  BY DEF KeepsRows
<1>1. tgt[t] \in TargetRow
  BY DEF TypeInv, TypeOK
<1>2. tgt'[t] = IF t \in ts THEN [tgt[t] EXCEPT !.status = status] ELSE tgt[t]
  BY DEF WithStatus
<1>3. [tgt[t] EXCEPT !.status = status].status = status
  BY <1>1 DEF TargetRow
<1> QED BY <1>2, <1>3

LEMMA DispatchClaim ==
  ASSUME ClaimInv, NEW d \in Dispatchers, Dispatch(d)
  PROVE  OwnerOK' /\ AgeOK'
<1>0. TypeInv /\ disp[d] \in Copies /\ disp[d].rest \subseteq Targets /\ disp[d].job.plan \in Plans
  BY DEF ClaimInv, TypeInv, TypeOK, Copies, JobRow
<1>1. CASE DispatchRead(d) \/ DispatchDies(d)
  BY <1>1, QuietStep DEF DispatchRead, DispatchDies, KeepsRows, KeepsRuns
<1>2. CASE DispatchPlan(d)
  <2>1. UNCHANGED <<now, owner, run>>
    BY <1>2 DEF DispatchPlan
  <2>2. KeepsRows
    <3>1. PICK doomed \in SUBSET disp[d].rest, outcome \in {"FAILED", "SKIPPED"} :
                 tgt' = WithStatus(doomed, outcome)
      BY <1>2 DEF DispatchPlan
    <3>2. outcome # "STARTED"
      OBVIOUS
    <3> QED BY <1>0, <3>1, <3>2, WithStatusKeeps
  <2> QED BY <2>1, <2>2, QuietStep DEF KeepsRuns
<1>3. CASE DispatchPost(d)
  <2>1. UNCHANGED <<now, owner, tgt>>
    BY <1>3 DEF DispatchPost
  <2>2. KeepsRuns
    <3>1. CASE UNCHANGED run
      BY <3>1 DEF KeepsRuns
    <3>2. CASE \E r \in Runs, batch \in SUBSET disp[d].rest :
                 Launch(r, batch, disp[d].job.plan) \/ Adopt(r, batch, disp[d].job.plan)
      <4>1. PICK r \in Runs, batch \in SUBSET Targets :
                 Launch(r, batch, disp[d].job.plan) \/ Adopt(r, batch, disp[d].job.plan)
        BY <3>2, <1>0
      <4> QED BY <1>0, <4>1, LaunchType DEF KeepsRuns
    <3> QED BY <1>3, <3>1, <3>2 DEF DispatchPost
  <2> QED BY <2>1, <2>2, QuietStep DEF KeepsRows
<1>4. CASE DispatchStamp(d)
  <2>1. UNCHANGED <<now, owner, run>>
    BY <1>4 DEF DispatchStamp
  <2>2. KeepsRows
    <3> SUFFICES ASSUME NEW t \in Targets, tgt'[t].status = "STARTED"
                 PROVE  tgt[t].status = "STARTED" /\ tgt'[t].started = tgt[t].started
      BY DEF KeepsRows
    <3> DEFINE status == IF t \in disp[d].deferred THEN "PENDING" ELSE tgt[t].status
               row    == [tgt[t] EXCEPT !.status = status, !.dispatched = now,
                                        !.intent = disp[d].run]
    <3>1. tgt[t] \in TargetRow
      BY <1>0 DEF TypeInv, TypeOK
    <3>2. tgt'[t] = IF t \notin disp[d].batch THEN tgt[t] ELSE row
      BY <1>4 DEF DispatchStamp
    <3>3. row.status = status /\ row.started = tgt[t].started
      BY <3>1 DEF TargetRow
    <3> HIDE DEF row
    <3> QED BY <3>2, <3>3
  <2> QED BY <2>1, <2>2, QuietStep DEF KeepsRuns
<1> QED BY <1>1, <1>2, <1>3, <1>4 DEF Dispatch

LEMMA RecoverClaim ==
  ASSUME ClaimInv, Recover
  PROVE  OwnerOK' /\ AgeOK'
<1>0. TypeInv
  BY DEF ClaimInv
<1>1. CASE RecoverRead \/ RecoverSkips \/ RecoverDies
  BY <1>1, QuietStep DEF RecoverRead, RecoverSkips, RecoverDies, KeepsRows, KeepsRuns
<1>2. CASE RecoverPost
  <2>1. UNCHANGED <<now, owner, tgt>>
    BY <1>2 DEF RecoverPost
  <2>2. rec.pc # "idle" /\ rec.batch \in SUBSET Targets
    BY <1>0, <1>2 DEF RecoverPost, TypeInv, TypeOK, Copies
  <2>3. PICK r \in Runs : Launch(r, rec.batch, rec.job.plan + 1)
    BY <1>2 DEF RecoverPost
  <2>4. rec.job.plan + 1 \in Plans
    BY <1>0, <2>2, NextPlan
  <2>5. /\ \A q \in Runs : run[q].st # "unused" => run'[q] = run[q]
        /\ \A q \in Runs : run'[q].st = "live" => run'[q] = run[q]
    BY <1>0, <2>2, <2>3, <2>4, LaunchType
  <2>6. KeepsRuns
    BY <2>5 DEF KeepsRuns
  <2> QED BY <2>1, <2>6, QuietStep DEF KeepsRows
<1>3. CASE RecoverStamp
  <2>1. UNCHANGED <<now, owner, run>>
    BY <1>3 DEF RecoverStamp
  <2>2. KeepsRows
    <3> SUFFICES ASSUME NEW t \in Targets
                 PROVE  tgt'[t].status = tgt[t].status /\ tgt'[t].started = tgt[t].started
      BY DEF KeepsRows
    <3>1. tgt[t] \in TargetRow
      BY <1>0 DEF TypeInv, TypeOK
    <3> QED BY <1>3, <3>1 DEF RecoverStamp, TargetRow
  <2> QED BY <2>1, <2>2, QuietStep DEF KeepsRuns
<1>4. CASE RecoverDeny
  <2>1. UNCHANGED <<now, owner, run>>
    BY <1>4 DEF RecoverDeny
  <2>2. PICK outcome \in {"FAILED", "SKIPPED"} : tgt' = WithStatus(rec.batch, outcome)
    BY <1>4 DEF RecoverDeny
  <2>3. outcome # "STARTED"
    OBVIOUS
  <2>4. KeepsRows
    BY <1>0, <2>2, <2>3, WithStatusKeeps
  <2> QED BY <2>1, <2>4, QuietStep DEF KeepsRuns
<1> QED BY <1>1, <1>2, <1>3, <1>4 DEF Recover

\* The claim itself: the rows it takes and the run that takes them have the same
\* clock, and no other row belongs to a run that was still queued.
LEMMA RunStartClaim ==
  ASSUME ClaimInv, NEW r \in Runs, RunStart(r)
  PROVE  OwnerOK' /\ AgeOK'
<1> DEFINE claimed == {t \in run[r].batch : tgt[t].status \in PICKUP_ELIGIBLE}
<1>0. TypeInv /\ run \in [Runs -> Run] /\ now \in Time /\ run[r].st = "queued"
  BY DEF ClaimInv, TypeInv, TypeOK, RunStart
<1>1. /\ run'[r].st = "live" /\ run'[r].since = now
      /\ \A q \in Runs \ {r} : run'[q] = run[q]
  BY <1>0 DEF RunStart, Run
<1>2. /\ owner' = [t \in Targets |-> IF t \in claimed THEN r ELSE owner[t]]
      /\ tgt' = [t \in Targets |-> IF t \in claimed THEN Claimed(t) ELSE tgt[t]]
      /\ now' = now
  BY DEF RunStart
<1> HIDE DEF claimed
<1>3. OwnerOK'
  <2> SUFFICES ASSUME NEW t \in Targets, tgt'[t].status = "STARTED"
               PROVE  /\ owner'[t] \in Runs
                      /\ run'[owner'[t]].st \in {"live", "over"}
                      /\ run'[owner'[t]].st = "live" => tgt'[t].started = run'[owner'[t]].since
    BY DEF OwnerOK
  <2>1. CASE t \in claimed
    <3>1. owner'[t] = r /\ tgt'[t] = Claimed(t)
      BY <1>2, <2>1
    <3>2. tgt[t] \in TargetRow
      BY <1>0 DEF TypeInv, TypeOK
    <3>3. Claimed(t).started = now
      BY <3>2 DEF Claimed, TargetRow
    <3> QED BY <1>1, <3>1, <3>3
  <2>2. CASE t \notin claimed
    <3>1. owner'[t] = owner[t] /\ tgt'[t] = tgt[t]
      BY <1>2, <2>2
    <3>2. owner[t] \in Runs /\ run[owner[t]].st \in {"live", "over"}
          /\ (run[owner[t]].st = "live" => tgt[t].started = run[owner[t]].since)
      BY <3>1 DEF ClaimInv, OwnerOK
    <3>3. owner[t] # r
      BY <1>0, <3>2
    <3> QED BY <1>1, <3>1, <3>2, <3>3
  <2> QED BY <2>1, <2>2
<1>4. AgeOK'
  <2> SUFFICES ASSUME NEW q \in Runs, run'[q].st = "live" PROVE now - run'[q].since <= RunMax
    BY <1>2 DEF AgeOK
  <2>1. CASE q = r
    BY <1>0, <1>1, <2>1, Bounds DEF Time
  <2>2. CASE q # r
    BY <1>1, <2>2 DEF ClaimInv, AgeOK
  <2> QED BY <2>1, <2>2
<1> QED BY <1>3, <1>4

LEMMA SpiderClaim ==
  ASSUME ClaimInv, NEW r \in Runs, Spider(r)
  PROVE  OwnerOK' /\ AgeOK'
<1>0. TypeInv /\ run \in [Runs -> Run] /\ tgt \in [Targets -> TargetRow] /\ flush[r] \in Flush
  BY DEF ClaimInv, TypeInv, TypeOK
<1>1. CASE RunStart(r)
  BY <1>1, RunStartClaim
<1>2. CASE FlushFence(r) \/ FlushMark(r)
  BY <1>2, QuietStep DEF FlushFence, FlushMark, KeepsRows, KeepsRuns
<1>3. CASE RunEnd(r)
  <2>1. UNCHANGED <<now, owner, tgt>>
    BY <1>3 DEF RunEnd
  <2>2. run'[r].st = "over" /\ \A q \in Runs \ {r} : run'[q] = run[q]
    BY <1>0, <1>3 DEF RunEnd, Run
  <2>3. KeepsRuns
    BY <2>2 DEF KeepsRuns
  <2> QED BY <2>1, <2>3, QuietStep DEF KeepsRows
<1>4. CASE FlushCommit(r)
  <2>1. UNCHANGED <<now, owner>>
    BY <1>4 DEF FlushCommit
  <2>2. \A q \in Runs : run'[q].st = run[q].st /\ run'[q].since = run[q].since
    <3> DEFINE new == [run[r] EXCEPT !.todo = @ \ {flush[r].item}]
    <3>1. run' = [run EXCEPT ![r] = new]
      BY <1>4 DEF FlushCommit
    <3>2. run[r] \in Run
      BY <1>0
    <3>3. new.st = run[r].st /\ new.since = run[r].since
      BY <3>2 DEF Run
    <3> HIDE DEF new
    <3> QED BY <1>0, <3>1, <3>3
  <2>3. KeepsRuns
    BY <2>2 DEF KeepsRuns
  <2> DEFINE f == flush[r]
  <2>4. f.item \in Targets
    BY <1>0, <1>4 DEF FlushCommit, TypeInv, CopyOK
  <2>5. PICK outcome \in Outcomes :
          tgt' = [tgt EXCEPT
            ![f.item].status = IF f.open THEN MarkedAs(outcome) ELSE @,
            ![f.item].dispatched = IF outcome = "HANDOFF" /\ f.fence = "pass" THEN Never ELSE @]
    BY <1>4 DEF FlushCommit
  <2>6. MarkedAs(outcome) # "STARTED"
    BY DEF MarkedAs, Outcomes
  <2>7. KeepsRows
    <3>1. \A t \in Targets \ {f.item} : tgt'[t] = tgt[t]
      BY <1>0, <2>4, <2>5
    <3>2. tgt'[f.item].status = (IF f.open THEN MarkedAs(outcome) ELSE tgt[f.item].status)
          /\ tgt'[f.item].started = tgt[f.item].started
      BY <1>0, <2>4, <2>5 DEF TargetRow
    <3> HIDE DEF f
    <3> QED BY <2>6, <3>1, <3>2 DEF KeepsRows
  <2> QED BY <2>1, <2>3, <2>7, QuietStep
<1> QED BY <1>1, <1>2, <1>3, <1>4 DEF Spider

LEMMA SweepClaim ==
  ASSUME ClaimInv, Sweep \/ Cancel
  PROVE  OwnerOK' /\ AgeOK'
<1>0. TypeInv
  BY DEF ClaimInv
<1>1. CASE FinalizeRead \/ FinalizeCommit \/ ReapScan \/ CancelRead \/ CancelFence
  BY <1>1, QuietStep DEF FinalizeRead, FinalizeCommit, ReapScan, CancelRead, CancelFence,
     KeepsRows, KeepsRuns
<1>2. CASE CancelCommit
  <2>1. UNCHANGED <<now, owner, run>> /\ tgt' = WithStatus(can.open, "CANCELLED")
    BY <1>2 DEF CancelCommit
  <2>2. KeepsRows
    BY <1>0, <2>1, WithStatusKeeps
  <2> QED BY <2>1, <2>2, QuietStep DEF KeepsRuns
<1>3. CASE ReapCommit
  <2>1. UNCHANGED <<now, owner, run>>
    BY <1>3 DEF ReapCommit
  <2>2. KeepsRows
    <3> SUFFICES ASSUME NEW t \in Targets, tgt'[t].status = "STARTED" PROVE tgt'[t] = tgt[t]
      BY DEF KeepsRows
    <3>1. /\ [tgt[t] EXCEPT !.status = "FAILED"].status = "FAILED"
          /\ [NewTarget EXCEPT !.status = "FAILED"].status = "FAILED"
          /\ NewTarget.status = "PENDING"
      BY <1>0 DEF TypeInv, TypeOK, TargetRow, NewTarget
    <3> QED BY <1>3, <3>1 DEF ReapCommit
  <2> QED BY <2>1, <2>2, QuietStep DEF KeepsRuns
<1> QED BY <1>1, <1>2, <1>3 DEF Sweep, Cancel

LEMMA TickClaim ==
  ASSUME ClaimInv, Tick
  PROVE  OwnerOK' /\ AgeOK'
<1>1. UNCHANGED <<tgt, run, owner>>
  BY DEF Tick
<1>2. OwnerOK'
  BY <1>1 DEF ClaimInv, OwnerOK
<1>3. AgeOK'
  <2> SUFFICES ASSUME NEW r \in Runs, run[r].st = "live" PROVE now' - run[r].since <= RunMax
    BY <1>1 DEF AgeOK
  <2>1. now \in Int /\ run[r].since \in Int
    BY DEF ClaimInv, TypeInv, TypeOK, Run, Time
  <2>2. now - run[r].since < RunMax /\ now' = now + 1
    BY DEF Tick
  <2> QED BY <2>1, <2>2, Bounds
<1> QED BY <1>2, <1>3

LEMMA InitClaim == Init => ClaimInv
<1> SUFFICES ASSUME Init PROVE ClaimInv
  OBVIOUS
<1>1. OwnerOK /\ AgeOK
  BY DEF Init, OwnerOK, AgeOK, NewTarget, Unused
<1> QED BY <1>1, InitType DEF ClaimInv

LEMMA StepClaim == ClaimInv /\ [Next]_vars => ClaimInv'
<1> SUFFICES ASSUME ClaimInv, [Next]_vars PROVE ClaimInv'
  OBVIOUS
<1>1. TypeInv'
  BY StepType DEF ClaimInv
<1>2. OwnerOK' /\ AgeOK'
  <2>1. CASE UNCHANGED vars
    BY <2>1 DEF vars, ClaimInv, OwnerOK, AgeOK
  <2> QED BY <2>1, DispatchClaim, RecoverClaim, SpiderClaim, SweepClaim, TickClaim DEF Next
<1> QED BY <1>1, <1>2 DEF ClaimInv

\* The step that hands a STARTED row back, as AgeReapIsSafe sees it.
AgeReapStep ==
  \A t \in Targets :
    (tgt[t].status = "STARTED" /\ tgt'[t] = NewTarget /\ t \notin reap.ended)
      => run[owner[t]].st # "live"

LEMMA ReapStepSafe == ClaimInv /\ [Next]_vars => [AgeReapStep]_vars
<1> SUFFICES ASSUME ClaimInv, Next,
                    NEW t \in Targets, tgt[t].status = "STARTED", tgt'[t] = NewTarget,
                    t \notin reap.ended, run[owner[t]].st = "live"
             PROVE  FALSE
  BY DEF AgeReapStep
<1>0. TypeInv /\ tgt[t] \in TargetRow /\ NewTarget.status = "PENDING" /\ NewTarget.dispatched = Never
  BY DEF ClaimInv, TypeInv, TypeOK, NewTarget
<1>1. owner[t] \in Runs /\ tgt[t].started = run[owner[t]].since
      /\ now - run[owner[t]].since <= RunMax
  BY DEF ClaimInv, OwnerOK, AgeOK
<1>2. CASE ReapCommit
  <2>1. TooOld(t) \/ tgt'[t] = tgt[t] \/ tgt'[t].status = "FAILED"
    <3>1. /\ [tgt[t] EXCEPT !.status = "FAILED"].status = "FAILED"
          /\ [NewTarget EXCEPT !.status = "FAILED"].status = "FAILED"
      BY <1>0 DEF TargetRow, NewTarget
    <3> QED BY <1>2, <3>1 DEF ReapCommit, Reverted
  <2>2. now \in Int /\ run[owner[t]].since \in Int
    BY <1>0, <1>1 DEF TypeInv, TypeOK, Run, Time
  <2>3. ~TooOld(t)
    BY <1>1, <2>2, Bounds DEF TooOld
  <2> QED BY <1>0, <2>1, <2>3
<1>3. \* A stamp leaves its clock on the row.
      ASSUME NEW d \in Dispatchers, DispatchStamp(d) PROVE FALSE
  <2>1. tgt'[t].dispatched = now \/ tgt'[t] = tgt[t]
    BY <1>0, <1>3 DEF DispatchStamp, TargetRow
  <2>2. now # Never
    BY <1>0 DEF TypeInv, TypeOK, Time, Never
  <2> QED BY <1>0, <2>1, <2>2
<1>4. CASE RecoverStamp
  BY <1>0, <1>4 DEF RecoverStamp, TargetRow
<1>5. ASSUME NEW ts, NEW status \in {"FAILED", "SKIPPED", "CANCELLED"}, tgt' = WithStatus(ts, status)
      PROVE  FALSE
  <2>1. tgt'[t].status = status \/ tgt'[t] = tgt[t]
    BY <1>0, <1>5 DEF WithStatus, TargetRow
  <2> QED BY <1>0, <2>1
<1>6. ASSUME NEW r \in Runs, RunStart(r) PROVE FALSE
  <2>1. Claimed(t).status = "STARTED"
    BY <1>0 DEF Claimed, TargetRow
  <2>2. tgt'[t] \in {tgt[t], Claimed(t)}
    BY <1>6 DEF RunStart
  <2> QED BY <1>0, <2>1, <2>2
<1>7. ASSUME NEW r \in Runs, FlushCommit(r) PROVE FALSE
  <2> DEFINE f == flush[r]
  <2>1. PICK outcome \in Outcomes :
          tgt' = [tgt EXCEPT
            ![f.item].status = IF f.open THEN MarkedAs(outcome) ELSE @,
            ![f.item].dispatched = IF outcome = "HANDOFF" /\ f.fence = "pass" THEN Never ELSE @]
    BY <1>7 DEF FlushCommit
  <2>2. MarkedAs(outcome) # "PENDING"
    BY DEF MarkedAs, Outcomes
  <2>3. f.item \in Targets
    BY <1>0, <1>7 DEF FlushCommit, TypeInv, CopyOK
  <2>4. tgt \in [Targets -> TargetRow]
    BY <1>0 DEF TypeInv, TypeOK
  <2>5. CASE t = f.item
    <3>1. tgt'[t].status = IF f.open THEN MarkedAs(outcome) ELSE tgt[t].status
      BY <2>1, <2>3, <2>4, <2>5 DEF TargetRow
    <3> QED BY <1>0, <2>2, <3>1
  <2>6. CASE t # f.item
    BY <1>0, <2>1, <2>3, <2>4, <2>6
  <2> QED BY <2>5, <2>6
<1>8. CASE UNCHANGED tgt
  BY <1>0, <1>8
<1>9. ASSUME NEW d \in Dispatchers, Dispatch(d) PROVE FALSE
  <2>1. CASE DispatchPlan(d)
    BY <1>5, <2>1 DEF DispatchPlan
  <2> QED BY <1>3, <1>8, <1>9, <2>1 DEF Dispatch, DispatchRead, DispatchPost, DispatchDies
<1>10. CASE Recover
  <2>1. CASE RecoverDeny
    BY <1>5, <2>1 DEF RecoverDeny
  <2> QED BY <1>4, <1>8, <1>10, <2>1 DEF Recover, RecoverRead, RecoverPost, RecoverSkips, RecoverDies
<1>11. ASSUME NEW r \in Runs, Spider(r) PROVE FALSE
  BY <1>6, <1>7, <1>8, <1>11 DEF Spider, FlushFence, FlushMark, RunEnd
<1>12. CASE Sweep \/ Cancel
  <2>1. CASE CancelCommit
    BY <1>5, <2>1 DEF CancelCommit
  <2> QED BY <1>2, <1>8, <1>12, <2>1 DEF Sweep, Cancel, FinalizeRead, FinalizeCommit, ReapScan,
             CancelRead, CancelFence
<1>13. CASE Tick
  BY <1>8, <1>13 DEF Tick
<1> QED BY <1>9, <1>10, <1>11, <1>12, <1>13 DEF Next

\* revert_stale_started_targets never takes a target from a run that is still
\* crawling it, for any timeouts with SCRAPE_STARTED_REAP_AFTER_SECONDS no less
\* than the longest run: the claim's clock (_started_claim_stmt) is the owner's.
THEOREM AgeReapSafe == Spec => AgeReapIsSafe
<1>1. Init => ClaimInv
  BY InitClaim
<1>2. ClaimInv /\ [Next]_vars => ClaimInv'
  BY StepClaim
<1>3. ClaimInv /\ [Next]_vars => [AgeReapStep]_vars
  BY ReapStepSafe
<1>4. Spec => [][AgeReapStep]_vars
  BY <1>1, <1>2, <1>3, PTL DEF Spec
<1> QED BY <1>4 DEF AgeReapIsSafe, AgeReapStep

------------------------------------------------------------------------------
(* The verdict of the finalizer                                              *)

AllClosed == \A t \in Targets : tgt[t].status \in Terminal

\* What the finalizer has read and what it has written, of a job nobody
\* cancelled and whose results nobody rewrote, is the verdict over closed
\* targets.  A job that reads CANCELLED, to anybody, has a fence: only the
\* cancellation writes that status, and it raises the generation with it.
VerdictOK ==
  /\ fin # "CANCELLED"
  /\ job.status = "CANCELLED" => job.gen # 0
  /\ can.pc # "idle" /\ can.seen.status = "CANCELLED" => job.gen # 0
  /\ job.gen = 0 /\ rewritten = {} =>
       /\ job.status \in TerminalJob => AllClosed /\ job.status = resolve_finalized_status
       /\ fin # "idle" => AllClosed /\ fin = resolve_finalized_status

VerdictInv == TypeInv /\ VerdictOK

\* Closed targets that nobody rewrites keep the verdict.
LEMMA VerdictStands ==
  ASSUME Noted \/ UNCHANGED <<tgt, rewritten>>, rewritten' = {}, AllClosed
  PROVE  rewritten = {} /\ AllClosed' /\ resolve_finalized_status' = resolve_finalized_status
<1>1. rewritten = {} /\ \A t \in Targets : tgt'[t].status = tgt[t].status
  BY DEF Noted, AllClosed
<1>2. AllClosed'
  BY <1>1 DEF AllClosed
<1>3. resolve_finalized_status' = resolve_finalized_status
  BY <1>1 DEF resolve_finalized_status
<1> QED BY <1>1, <1>2, <1>3

\* A step that neither finalizes nor cancels.
LEMMA VerdictKept ==
  ASSUME VerdictOK, Noted \/ UNCHANGED <<tgt, rewritten>>, UNCHANGED <<fin, can>>,
         job'.gen = job.gen, job'.status = job.status \/ job'.status \notin TerminalJob
  PROVE  VerdictOK'
<1>1. /\ fin' # "CANCELLED"
      /\ job'.status = "CANCELLED" => job'.gen # 0
      /\ can'.pc # "idle" /\ can'.seen.status = "CANCELLED" => job'.gen # 0
  BY DEF VerdictOK, TerminalJob
<1>2. ASSUME job'.gen = 0, rewritten' = {}
      PROVE  /\ job'.status \in TerminalJob =>
                  AllClosed' /\ job'.status = resolve_finalized_status'
             /\ fin' # "idle" => AllClosed' /\ fin' = resolve_finalized_status'
  <2>1. rewritten = {}
    BY <1>2 DEF Noted
  <2>2. /\ job'.status \in TerminalJob => AllClosed /\ job'.status = resolve_finalized_status
        /\ fin' # "idle" => AllClosed /\ fin' = resolve_finalized_status
    BY <1>2, <2>1 DEF VerdictOK
  <2> QED BY <1>2, <2>2, VerdictStands
<1> QED BY <1>1, <1>2 DEF VerdictOK

\* dispatch_job writes RUNNING or leaves the status alone.
LEMMA DispatchVerdict ==
  ASSUME VerdictInv, NEW d \in Dispatchers, Dispatch(d)
  PROVE  VerdictOK'
<1>0. job \in JobRow /\ VerdictOK
  BY DEF VerdictInv, TypeInv, TypeOK
<1>1. CASE DispatchRead(d) \/ DispatchPost(d) \/ DispatchDies(d) \/ DispatchStamp(d)
  BY <1>0, <1>1, VerdictKept DEF DispatchRead, DispatchPost, DispatchDies, DispatchStamp, sweepVars
<1>2. CASE DispatchPlan(d)
  <2>1. Noted /\ UNCHANGED <<fin, can>>
    BY <1>2 DEF DispatchPlan, sweepVars
  <2>2. job'.gen = job.gen /\ job'.status \in {job.status, "RUNNING"}
    BY <1>0, <1>2 DEF DispatchPlan, JobRow
  <2> QED BY <1>0, <2>1, <2>2, VerdictKept DEF TerminalJob
<1> QED BY <1>1, <1>2 DEF Dispatch

\* The recovery raises the planning generation only.
LEMMA RecoverVerdict ==
  ASSUME VerdictInv, Recover
  PROVE  VerdictOK'
<1>0. job \in JobRow /\ VerdictOK
  BY DEF VerdictInv, TypeInv, TypeOK
<1>1. CASE RecoverRead \/ RecoverPost \/ RecoverDies
  BY <1>0, <1>1, VerdictKept DEF RecoverRead, RecoverPost, RecoverDies
<1>2. CASE RecoverStamp \/ RecoverDeny \/ RecoverSkips
  <2>1. job'.gen = job.gen /\ job'.status = job.status
    BY <1>0, <1>2 DEF RecoverStamp, RecoverDeny, RecoverSkips, JobRow
  <2>2. (Noted \/ UNCHANGED <<tgt, rewritten>>) /\ UNCHANGED <<fin, can>>
    BY <1>2 DEF RecoverStamp, RecoverDeny, RecoverSkips
  <2> QED BY <1>0, <2>1, <2>2, VerdictKept
<1> QED BY <1>1, <1>2 DEF Recover

\* The finalizer's two halves: what it reads of closed targets, and its commit,
\* before which nobody may have rewritten them.
LEMMA FinalizeVerdict ==
  ASSUME VerdictInv, FinalizeRead \/ FinalizeCommit
  PROVE  VerdictOK'
<1>0. job \in JobRow /\ VerdictOK
  BY DEF VerdictInv, TypeInv, TypeOK
<1>r. resolve_finalized_status \in {"COMPLETED", "PARTIAL_FAILED", "FAILED"}
  BY DEF resolve_finalized_status
<1>v. UNCHANGED tgt => resolve_finalized_status' = resolve_finalized_status /\ AllClosed' = AllClosed
  BY DEF resolve_finalized_status, AllClosed
<1>1. CASE FinalizeRead
  <2>1. UNCHANGED <<job, tgt, rewritten, can>> /\ AllClosed /\ fin' = resolve_finalized_status
        /\ job.status \notin TerminalJob
    BY <1>1 DEF FinalizeRead, AllClosed
  <2> QED BY <1>0, <1>r, <1>v, <2>1 DEF VerdictOK
<1>2. CASE FinalizeCommit
  <2>1. UNCHANGED <<tgt, rewritten, can>> /\ fin # "idle" /\ fin' = "idle"
    BY <1>2 DEF FinalizeCommit
  <2>2. job'.status = fin /\ job'.gen = job.gen
    BY <1>0, <1>2 DEF FinalizeCommit, JobRow
  <2> QED BY <1>0, <1>v, <2>1, <2>2 DEF VerdictOK
<1> QED BY <1>1, <1>2

\* A cancellation leaves a job with a fence, and the premise behind.
LEMMA CancelVerdict ==
  ASSUME VerdictInv, Cancel
  PROVE  VerdictOK'
<1>0. job \in JobRow /\ VerdictOK /\ can.seen \in JobRow
      /\ can \in [pc : {"idle", "read", "fenced"}, seen : JobRow, open : SUBSET Targets]
  BY DEF VerdictInv, TypeInv, TypeOK
<1>v. UNCHANGED tgt => resolve_finalized_status' = resolve_finalized_status /\ AllClosed' = AllClosed
  BY DEF resolve_finalized_status, AllClosed
<1>1. CASE CancelRead
  <2>1. UNCHANGED <<job, tgt, rewritten, fin>> /\ can'.seen = job
    BY <1>0, <1>1 DEF CancelRead
  <2> QED BY <1>0, <1>v, <2>1 DEF VerdictOK
<1>2. CASE CancelFence
  <2>1. UNCHANGED <<job, tgt, rewritten, fin>> /\ can'.seen = can.seen /\ can.pc = "read"
    BY <1>0, <1>2 DEF CancelFence
  <2> QED BY <1>0, <1>v, <2>1 DEF VerdictOK
<1>3. CASE CancelCommit
  <2>1. UNCHANGED fin /\ can'.pc = "idle"
    BY <1>3 DEF CancelCommit, NoCancel
  <2>2. job'.gen # 0
    <3>1. CASE can.seen.status = "CANCELLED"
      BY <1>0, <1>3, <3>1 DEF CancelCommit, VerdictOK
    <3>2. CASE can.seen.status # "CANCELLED"
      <4>1. job'.gen = can.seen.gen + 1
        BY <1>0, <1>3, <3>2 DEF CancelCommit, JobRow
      <4>2. can.seen.gen \in Nat
        BY <1>0, Bounds DEF JobRow
      <4> QED BY <4>1, <4>2
    <3> QED BY <3>1, <3>2
  <2> QED BY <1>0, <2>1, <2>2 DEF VerdictOK
<1> QED BY <1>1, <1>2, <1>3 DEF Cancel

\* The verdict is inductive.
LEMMA StepVerdict == VerdictInv /\ [Next]_vars => VerdictInv'
<1> SUFFICES ASSUME VerdictInv, [Next]_vars PROVE VerdictInv'
  OBVIOUS
<1>0. TypeInv' /\ VerdictOK
  BY StepType DEF VerdictInv
<1>1. ASSUME NEW r \in Runs, Spider(r) PROVE VerdictOK'
  <2>1. UNCHANGED <<job, fin, can>> /\ (Noted \/ UNCHANGED <<tgt, rewritten>>)
    BY <1>1 DEF Spider, RunStart, FlushFence, FlushMark, FlushCommit, RunEnd, sweepVars
  <2> QED BY <1>0, <2>1, VerdictKept
<1>2. CASE ReapScan \/ ReapCommit \/ Tick
  <2>1. UNCHANGED <<job, fin, can>> /\ (Noted \/ UNCHANGED <<tgt, rewritten>>)
    BY <1>2 DEF ReapScan, ReapCommit, Tick, sweepVars
  <2>2. job'.gen = job.gen /\ job'.status = job.status
    BY <2>1
  <2> QED BY <1>0, <2>1, <2>2, VerdictKept DEF VerdictInv
<1>3. CASE UNCHANGED vars
  <2>1. UNCHANGED <<job, fin, can, tgt, rewritten>>
    BY <1>3 DEF vars, sweepVars
  <2>2. job'.gen = job.gen /\ job'.status = job.status
    BY <2>1
  <2> QED BY <1>0, <2>1, <2>2, VerdictKept DEF VerdictInv
<1>4. CASE (\E d \in Dispatchers : Dispatch(d)) \/ Recover \/ FinalizeRead \/ FinalizeCommit \/ Cancel
  BY <1>0, <1>4, DispatchVerdict, RecoverVerdict, FinalizeVerdict, CancelVerdict DEF VerdictInv
<1> QED BY <1>0, <1>1, <1>2, <1>3, <1>4 DEF VerdictInv, Next, Sweep

\* A job the finalizer closed has only closed targets and their verdict, for any
\* number of targets, dispatchers, runs and sweeps, whoever writes the rows
\* between finalize_jobs' reads and its commit, unless a closed target was
\* rewritten or an operator cancelled.
THEOREM FinalizerTellsTheTruth == Spec => []FinalizedTruthful
<1>1. Init => VerdictInv
  <2> SUFFICES ASSUME Init PROVE VerdictInv
    OBVIOUS
  <2>1. VerdictOK
    BY DEF Init, VerdictOK, NewJob, NoCancel, TerminalJob
  <2> QED BY <2>1, InitType DEF VerdictInv
<1>2. VerdictInv => FinalizedTruthful
  BY DEF VerdictInv, VerdictOK, AllClosed, FinalizedTruthful
<1> QED BY <1>1, <1>2, StepVerdict, PTL DEF Spec
==============================================================================
