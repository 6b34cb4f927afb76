------------------------------ MODULE Admission ------------------------------
(* How a spider run gets a page: the gates before a request (rate ceilings    *)
(* and breaker, the workspace's slots, the fleet's leases, the match lock),   *)
(* the request, its retries and what gives every grant back.  Runs of one job *)
(* may overlap.  All matches share one URL, so one of them fetches for the    *)
(* others (url dedup).  Grants live in Redis with a time to live: a grant may *)
(* lapse at any moment, while its task runs or after its process died.        *)
EXTENDS Integers, FiniteSets, Sequences, SequencesExt, FiniteSetTheorems, TLAPS

CONSTANTS Runs,        \* spider runs of the job
          Matches,     \* its targets
          Nobody,
          Slots,       \* RATE_LIMIT_DEFAULT_CONCURRENCY
          Leases,      \* FLEET_HOST_CONCURRENCY_DEFAULT
          MaxTries,    \* attempts of one target in one run
          MaxRequeues, \* REQUEUE_MAX_ATTEMPTS
          MaxDefers,   \* SCRAPE_MAX_DEFER_CYCLES
          MaxCrashes,  \* bound on dying processes
          MaxLapses    \* bound on grants that outlive their time to live

VARIABLES row,      \* Matches -> scrape_job_targets.status
          run,      \* Runs -> the start() loop: "off", "on", "over", "dead"
          pending,  \* Runs -> its queue of [m, sibs]
          task,     \* Runs \X Matches -> one target's admission and request
          slot,     \* the tasks with a slot of the workspace's semaphore
          lease,    \* the tasks with a lease of the fleet's
          lock,     \* Matches -> the task whose token the match lock holds
          defers,   \* Matches \X Causes -> cycles consumed of the defer budgets
          crashes, lapses,
          overran   \* history: tasks one of whose grants lapsed while in use

vars == <<row, run, pending, task, slot, lease, lock, defers, crashes, lapses, overran>>

Tasks == Runs \X Matches
Causes == {"rate", "breaker"}
NoTask == [pc |-> "none", sibs |-> {}, left |-> {}, try |-> 1, requeues |-> 0, code |-> "ok"]

Terminal == {"DONE", "FAILED", "SKIPPED"}
Live(t)  == run[t[1]] # "dead"
At(t, pc) == task[t].pc = pc /\ Live(t)
HasLock(t, m) == lock[m] = t
Covers(t) == {t[2]} \cup task[t].sibs

\* The start() loop awaits one first admission at a time.
Admitting(r) == \E m \in Matches : task[<<r, m>>].try = 1
                  /\ task[<<r, m>>].pc \in {"prepare", "slot", "fleet", "lock", "sibs"}

\* claim_targets_started, mark_target: a terminal row is never overwritten.
Mark(S, st) == [m \in Matches |-> IF m \in S /\ row[m] \notin Terminal THEN st ELSE row[m]]

Init == /\ row = [m \in Matches |-> "PENDING"]
        /\ run = [r \in Runs |-> "off"]
        /\ pending = [r \in Runs |-> <<>>]
        /\ task = [t \in Tasks |-> NoTask]
        /\ slot = {}
        /\ lease = {}
        /\ lock = [m \in Matches |-> Nobody]
        /\ defers = [c \in Matches \X Causes |-> 0]
        /\ crashes = 0
        /\ lapses = 0
        /\ overran = {}

grants == <<slot, lease, lock>>

-----------------------------------------------------------------------------
\* load_targets: everything that has not ended is loaded and claimed STARTED;
\* group_targets_for_dedup folds it onto one fetcher.
Load(r) ==
  /\ run[r] = "off"
  /\ run' = [run EXCEPT ![r] = "on"]
  /\ LET open == {m \in Matches : row[m] \notin Terminal} IN
     /\ row' = Mark(open, "STARTED")
     /\ IF open = {} THEN UNCHANGED pending
        ELSE \E m \in open : pending' = [pending EXCEPT ![r] = <<[m |-> m, sibs |-> open \ {m}]>>]
  /\ UNCHANGED <<task, grants, defers, crashes, lapses, overran>>

\* start(): the next pending target.
NextTarget(r) ==
  /\ run[r] = "on" /\ ~Admitting(r) /\ pending[r] # <<>>
  /\ LET p == Head(pending[r]) IN
       task' = [task EXCEPT ![<<r, p.m>>] = [NoTask EXCEPT !.pc = "prepare", !.sibs = p.sibs]]
  /\ pending' = [pending EXCEPT ![r] = Tail(@)]
  /\ UNCHANGED <<row, run, grants, defers, crashes, lapses, overran>>

\* The run ends when nothing is left to do.
Finish(r) ==
  /\ run[r] = "on" /\ pending[r] = <<>>
  /\ \A m \in Matches : task[<<r, m>>].pc \in {"none", "done"}
  /\ run' = [run EXCEPT ![r] = "over"]
  /\ UNCHANGED <<row, pending, task, grants, defers, crashes, lapses, overran>>

-----------------------------------------------------------------------------
(* The gates.                                                                *)

\* consume_defer_budget: RATE_LIMITED and BREAKER_OPEN spend different budgets.
Defers(m, cause) == defers[<<m, cause>>] < MaxDefers
Consumed(S, cause) ==
  [c \in Matches \X Causes |-> IF c[1] \in S /\ c[2] = cause /\ Defers(c[1], cause)
                               THEN defers[c] + 1 ELSE defers[c]]

\* defer_rate_limited_target
DeferOrFail(m, cause) ==
  /\ row' = Mark({m}, IF Defers(m, cause) THEN "DEFERRED" ELSE "FAILED")
  /\ defers' = Consumed({m}, cause)

\* Mutant: a lock is deleted by its key, whoever holds it.
Unlocked_ByKey(t, S) == [m \in Matches |-> IF m \in S THEN Nobody ELSE lock[m]]

\* release_lock, a compare-and-delete on the fencing token: a lock that is no
\* longer the task's own is left alone.
Unlocked(t, S) == [m \in Matches |-> IF m \in S /\ HasLock(t, m) THEN Nobody ELSE lock[m]]

\* Mutant: a wait is not counted.
Denied_Forever(t) ==
  /\ task' = [task EXCEPT ![t].pc = IF @ = "prepare" THEN "prepare" ELSE "slot"]
  /\ UNCHANGED <<row, lock, defers>>

\* Mutant: a deferred retry keeps the locks of its group.
Denied_KeepsLocks(t) ==
  IF task[t].requeues < MaxRequeues
  THEN /\ task' = [task EXCEPT ![t].requeues = @ + 1,
                               ![t].pc = IF @ = "prepare" THEN "prepare" ELSE "slot"]
       /\ UNCHANGED <<row, lock, defers>>
  ELSE /\ DeferOrFail(t[2], "rate")
       /\ task' = [task EXCEPT ![t] = [NoTask EXCEPT !.pc = "done"]]
       /\ UNCHANGED lock

\* A denied gate: wait and try again or, past the requeue caps, hand the target
\* back.  A retry also gives back the lock it inherited and those of its siblings.
Denied(t) ==
  IF task[t].requeues < MaxRequeues
  THEN /\ task' = [task EXCEPT ![t].requeues = @ + 1,
                               ![t].pc = IF @ = "prepare" THEN "prepare" ELSE "slot"]
       /\ UNCHANGED <<row, lock, defers>>
  ELSE /\ DeferOrFail(t[2], "rate")
       /\ lock' = Unlocked(t, Covers(t))
       /\ task' = [task EXCEPT ![t] = [NoTask EXCEPT !.pc = "done"]]

\* _prepare_dispatch allows an attempt.
Prepare(t) ==
  /\ At(t, "prepare")
  /\ task' = [task EXCEPT ![t].pc = "slot"]
  /\ UNCHANGED <<row, run, pending, grants, defers, crashes, lapses, overran>>

\* A ceiling or a cooldown says no to a first attempt.
PrepareLimited(t) ==
  /\ At(t, "prepare") /\ task[t].try = 1
  /\ Denied(t)
  /\ UNCHANGED <<run, pending, slot, lease, crashes, lapses, overran>>

\* The breaker says no to a first attempt: deferred at once.
PrepareBreakerOpen(t) ==
  /\ At(t, "prepare") /\ task[t].try = 1
  /\ DeferOrFail(t[2], "breaker")
  /\ task' = [task EXCEPT ![t] = [NoTask EXCEPT !.pc = "done"]]
  /\ UNCHANGED <<run, pending, grants, crashes, lapses, overran>>

\* No policy resolves: skip_unresolved_target, the siblings too.
PrepareUnresolved(t) ==
  /\ At(t, "prepare") /\ task[t].try = 1
  /\ row' = Mark(Covers(t), "SKIPPED")
  /\ task' = [task EXCEPT ![t] = [NoTask EXCEPT !.pc = "done"]]
  /\ UNCHANGED <<run, pending, grants, defers, crashes, lapses, overran>>

\* Any other refusal of a first attempt ends the group with a failed result.
\* For a retry it leaves the failure already recorded (STOP), and a ceiling or
\* the breaker asks the pipeline to defer the group.
PrepareRefused(t) ==
  /\ At(t, "prepare")
  /\ \E code \in {"failed"} \cup (IF task[t].try > 1 THEN Causes ELSE {}) :
       task' = [task EXCEPT ![t].pc = "flush", ![t].code = code]
  /\ UNCHANGED <<row, run, pending, grants, defers, crashes, lapses, overran>>

\* acquire_permission: the token bucket (whose level is left open) and the
\* workspace's semaphore.
AcquireSlot(t) ==
  /\ At(t, "slot")
  /\ Cardinality(slot) < Slots
  /\ slot' = slot \cup {t}
  /\ task' = [task EXCEPT ![t].pc = "fleet"]
  /\ UNCHANGED <<row, run, pending, lease, lock, defers, crashes, lapses, overran>>

SlotDenied(t) ==
  /\ At(t, "slot")
  /\ Denied(t)
  /\ UNCHANGED <<run, pending, slot, lease, crashes, lapses, overran>>

\* Mutant: one lease too many.
AcquireLease_OffByOne(t) ==
  /\ At(t, "fleet")
  /\ Cardinality(lease) <= Leases
  /\ lease' = lease \cup {t}
  /\ task' = [task EXCEPT ![t].pc = "lock"]
  /\ UNCHANGED <<row, run, pending, slot, lock, defers, crashes, lapses, overran>>

\* admit_fleet
AcquireLease(t) ==
  /\ At(t, "fleet")
  /\ Cardinality(lease) < Leases
  /\ lease' = lease \cup {t}
  /\ task' = [task EXCEPT ![t].pc = "lock"]
  /\ UNCHANGED <<row, run, pending, slot, lock, defers, crashes, lapses, overran>>

\* Mutant: the tenant's slot stays taken.
LeaseDenied_KeepsSlot(t) ==
  /\ At(t, "fleet")
  /\ Denied(t)
  /\ UNCHANGED <<run, pending, slot, lease, crashes, lapses, overran>>

\* The tenant's slot is handed straight back.
LeaseDenied(t) ==
  /\ At(t, "fleet")
  /\ slot' = slot \ {t}
  /\ Denied(t)
  /\ UNCHANGED <<run, pending, lease, crashes, lapses, overran>>

\* dispatch_admission: the match lock, inherited by a retry.
AcquireLock(t) ==
  /\ At(t, "lock")
  /\ \/ task[t].try > 1 /\ UNCHANGED lock /\ task' = [task EXCEPT ![t].pc = "fetch"]
     \/ /\ task[t].try = 1 /\ lock[t[2]] = Nobody
        /\ lock' = [lock EXCEPT ![t[2]] = t]
        /\ task' = [task EXCEPT ![t].pc = "sibs", ![t].left = task[t].sibs]
  /\ UNCHANGED <<row, run, pending, slot, lease, defers, crashes, lapses, overran>>

\* The lock is held (skip), or the adapter of the target is misconfigured and
\* the lock just taken is released: the slot and the lease go back, the target
\* ends with that result, its siblings queue up again, each on its own.
NotDispatched(t) ==
  /\ At(t, "lock") /\ task[t].try = 1
  /\ slot' = slot \ {t}
  /\ lease' = lease \ {t}
  /\ task' = [task EXCEPT ![t].pc = "flush", ![t].sibs = {},
                          ![t].code = IF lock[t[2]] # Nobody THEN "skip" ELSE "failed"]
  /\ \E q \in SetToSeqs(task[t].sibs) :
       pending' = [pending EXCEPT ![t[1]] = [i \in DOMAIN q |-> [m |-> q[i], sibs |-> {}]] \o @]
  /\ UNCHANGED <<row, run, lock, defers, crashes, lapses, overran>>

\* Mutant: the request is sent without a lock for the sibling.
LockSibling_Unlocked(t) ==
  /\ At(t, "sibs")
  /\ \E m \in task[t].left : task' = [task EXCEPT ![t].left = @ \ {m}]
  /\ UNCHANGED <<row, run, pending, grants, defers, crashes, lapses, overran>>

\* start(): a lock for each sibling, before the request is handed to Scrapy; a
\* sibling that is locked leaves the group and queues up on its own.
LockSibling(t) ==
  /\ At(t, "sibs")
  /\ \E m \in task[t].left :
       \/ /\ lock[m] = Nobody
          /\ lock' = [lock EXCEPT ![m] = t]
          /\ task' = [task EXCEPT ![t].left = @ \ {m}]
          /\ UNCHANGED pending
       \/ /\ lock[m] # Nobody
          /\ task' = [task EXCEPT ![t].left = @ \ {m}, ![t].sibs = @ \ {m}]
          /\ pending' = [pending EXCEPT ![t[1]] = <<[m |-> m, sibs |-> {}]>> \o @]
          /\ UNCHANGED lock
  /\ UNCHANGED <<row, run, slot, lease, defers, crashes, lapses, overran>>

Send(t) ==
  /\ At(t, "sibs") /\ task[t].left = {}
  /\ task' = [task EXCEPT ![t].pc = "fetch"]
  /\ UNCHANGED <<row, run, pending, grants, defers, crashes, lapses, overran>>

-----------------------------------------------------------------------------
(* The answer.                                                               *)

GiveBack(t) == slot' = slot \ {t} /\ lease' = lease \ {t}

\* parse: the slots go back first; the results go to the pipeline.
Parse(t) ==
  /\ At(t, "fetch")
  /\ GiveBack(t)
  /\ \E code \in {"ok", "failed"} : task' = [task EXCEPT ![t].pc = "flush", ![t].code = code]
  /\ UNCHANGED <<row, run, pending, lock, defers, crashes, lapses, overran>>

\* errback: the slots go back and the next attempt is prepared; it keeps the
\* locks of the group.  (A strategy target has no next attempt: see Parse.)
Errback(t) ==
  /\ At(t, "fetch") /\ task[t].try < MaxTries
  /\ GiveBack(t)
  /\ task' = [task EXCEPT ![t].pc = "prepare", ![t].try = @ + 1]
  /\ UNCHANGED <<row, run, pending, lock, defers, crashes, lapses, overran>>

\* _flush_batch: the status a result gives a row.
Outcome(m, code) ==
  CASE code = "ok"     -> "DONE"
    [] code = "failed" -> "FAILED"
    [] code = "skip"   -> "SKIPPED"
    [] OTHER           -> IF Defers(m, code) THEN "DEFERRED" ELSE "FAILED"

\* Mutant: the locks are released before the commit.
FlushCommit_UnlocksFirst(t) ==
  /\ At(t, "flush")
  /\ lock' = Unlocked(t, Covers(t))
  /\ task' = [task EXCEPT ![t].pc = "unlock"]
  /\ UNCHANGED <<row, run, pending, slot, lease, defers, crashes, lapses, overran>>

\* The pipeline commits the result of every match of the group ...
FlushCommit(t) ==
  /\ At(t, "flush")
  /\ row' = [m \in Matches |-> IF m \in Covers(t) THEN Mark({m}, Outcome(m, task[t].code))[m]
                               ELSE row[m]]
  /\ defers' = IF task[t].code \in Causes THEN Consumed(Covers(t), task[t].code) ELSE defers
  /\ task' = [task EXCEPT ![t].pc = "unlock"]
  /\ UNCHANGED <<run, pending, grants, crashes, lapses, overran>>

\* ... and releases the locks only afterwards.
FlushUnlock(t) ==
  /\ At(t, "unlock")
  /\ lock' = Unlocked(t, Covers(t))
  /\ task' = [task EXCEPT ![t] = [NoTask EXCEPT !.pc = "done"]]
  /\ UNCHANGED <<row, run, pending, slot, lease, defers, crashes, lapses, overran>>

-----------------------------------------------------------------------------
\* A run dies; what it held stays in Redis until it lapses.
Crash(r) ==
  /\ run[r] = "on" /\ crashes < MaxCrashes
  /\ run' = [run EXCEPT ![r] = "dead"]
  /\ crashes' = crashes + 1
  /\ UNCHANGED <<row, pending, task, grants, defers, lapses, overran>>

InUse(t) == Live(t) /\ task[t].pc \notin {"none", "done"}

Overrun(t) == IF InUse(t) THEN overran \cup {t} ELSE overran

\* A grant's time to live is over: its slot or lease is dropped from the sorted
\* set by the next caller, its lock by Redis.
Lapse(t) ==
  /\ lapses < MaxLapses
  /\ \/ t \in slot /\ slot' = slot \ {t} /\ UNCHANGED <<lease, lock>>
     \/ t \in lease /\ lease' = lease \ {t} /\ UNCHANGED <<slot, lock>>
     \/ \E m \in Matches : /\ HasLock(t, m) /\ lock' = [lock EXCEPT ![m] = Nobody]
                            /\ UNCHANGED <<slot, lease>>
  /\ lapses' = lapses + 1
  /\ overran' = Overrun(t)
  /\ UNCHANGED <<row, run, pending, task, defers, crashes>>

Step(t) == \/ Prepare(t) \/ PrepareLimited(t) \/ PrepareBreakerOpen(t)
           \/ PrepareUnresolved(t) \/ PrepareRefused(t)
           \/ AcquireSlot(t) \/ SlotDenied(t) \/ AcquireLease(t) \/ LeaseDenied(t)
           \/ AcquireLock(t) \/ NotDispatched(t) \/ LockSibling(t) \/ Send(t)
           \/ Parse(t) \/ Errback(t) \/ FlushCommit(t) \/ FlushUnlock(t)

Next == \/ \E r \in Runs : Load(r) \/ NextTarget(r) \/ Finish(r) \/ Crash(r)
        \/ \E t \in Tasks : Step(t) \/ Lapse(t)

Spec == Init /\ [][Next]_vars

\* The reactor keeps running the coroutines of a live run.
Fairness ==
  \A r \in Runs : WF_vars(NextTarget(r) \/ Finish(r) \/ \E m \in Matches : Step(<<r, m>>))

FairSpec == Spec /\ Fairness

-----------------------------------------------------------------------------
TypeOK ==
  /\ row \in [Matches -> {"PENDING", "STARTED", "DEFERRED"} \cup Terminal]
  /\ run \in [Runs -> {"off", "on", "over", "dead"}]
  /\ \A r \in Runs : \A i \in DOMAIN pending[r] : pending[r][i].m \in Matches
  /\ \A t \in Tasks : /\ task[t].pc \in {"none", "prepare", "slot", "fleet", "lock", "sibs",
                                         "fetch", "flush", "unlock", "done"}
                      /\ task[t].try \in 1 .. MaxTries /\ task[t].requeues \in 0 .. MaxRequeues
                      /\ task[t].sibs \subseteq Matches \ {t[2]}
  /\ slot \subseteq Tasks /\ lease \subseteq Tasks
  /\ lock \in [Matches -> Tasks \cup {Nobody}]
  /\ defers \in [Matches \X Causes -> 0 .. MaxDefers]

(* A live run holds a slot, a lease or a lock only for a request it is        *)
(* admitting, fetching or committing: whatever way a target leaves the gates, *)
(* its errback, a deferral after a retry and the ejection of siblings         *)
(* included, nothing it took stays taken.                                     *)
NoLeak ==
  \A t \in Tasks : Live(t) =>
    /\ t \in slot => task[t].pc \in {"fleet", "lock", "sibs", "fetch"}
    /\ t \in lease => task[t].pc \in {"lock", "sibs", "fetch"}
    /\ \A m \in Matches : HasLock(t, m) =>
         /\ m \in Covers(t)
         /\ task[t].pc \in {"sibs", "fetch", "flush", "unlock"}
              \/ (task[t].try > 1 /\ task[t].pc # "done")

(* Two live requests never work on the same match, from the fetch to the      *)
(* commit of its result, unless one of them outlived the lock's time to live. *)
Fetching(t, m) ==
  /\ Live(t) /\ m \in Covers(t) /\ task[t].code # "skip"
  /\ task[t].pc = "fetch" \/ (task[t].pc = "flush" /\ task[t].code = "ok")

OneFetchPerMatch ==
  \A t, u \in Tasks \ overran : \A m \in Matches :
    (t # u /\ Fetching(t, m)) => ~Fetching(u, m)

(* The requests in flight of runs that hold their grants never exceed the     *)
(* workspace's slots nor the fleet's leases.                                  *)
InFlightBounded ==
  LET flying == {t \in Tasks \ overran : Live(t) /\ task[t].pc = "fetch"}
  IN  Cardinality(flying) <= Slots /\ Cardinality(flying) <= Leases

(* A price a run fetched under its lock is committed before the lock is free  *)
(* for another run: no step frees a lock whose page is fetched and not yet    *)
(* committed, save the passing of time.                                       *)
CommitBeforeUnlockStep ==
  \A t \in Tasks : \A m \in Matches :
    (Live(t) /\ HasLock(t, m) /\ task[t].pc = "flush" /\ row[m] \notin Terminal
       /\ lock'[m] # t /\ UNCHANGED lapses) => row'[m] # row[m]
CommitBeforeUnlock == [][CommitBeforeUnlockStep]_vars

(* A lock is freed by the task whose token it holds, or by time: a task that  *)
(* outlived its lock never deletes the lock of the one that took it since.    *)
FencedReleaseStep ==
  \A m \in Matches :
    (lock[m] # Nobody /\ lock'[m] # lock[m] /\ UNCHANGED lapses)
       => task'[lock[m]] # task[lock[m]]
FencedRelease == [][FencedReleaseStep]_vars

Running(r) == run[r] = "on"

(* Every run ends: no gate, however often it says no, keeps a run for ever.   *)
RunFinishes == \A r \in Runs : Running(r) ~> ~Running(r)

(* generic_price_spider.start(): when a fetcher is handed back, "its siblings *)
(* stay PENDING and are re-grouped by the re-dispatched run".  A row that is  *)
(* STARTED is one that a run has, or had when it died.                        *)
SiblingsRegrouped ==
  \A m \in Matches : row[m] = "STARTED" =>
    \E r \in Runs :
      \/ run[r] = "dead"
      \/ \E n \in Matches : task[<<r, n>>].pc \notin {"none", "done"} /\ m \in Covers(<<r, n>>)
      \/ \E i \in DOMAIN pending[r] : m = pending[r][i].m \/ m \in pending[r][i].sibs

-----------------------------------------------------------------------------
(* Proofs.  The inductive invariant says that the matches of a run are split  *)
(* between its queue and its busy tasks, that a task holds only what its step *)
(* allows (Tidy) and that one whose grants did not lapse has what its step    *)
(* needs (Has); a step of a task leaves the grants of the others alone (Own). *)

\* What the sizes are: a lock's value is a task or nothing, the job is finite.
Sizes == /\ Nobody \notin Tasks /\ IsFiniteSet(Matches)
         /\ Slots \in Nat /\ Leases \in Nat
         /\ MaxTries \in Nat \ {0} /\ MaxRequeues \in Nat /\ MaxDefers \in Nat

Busy(t) == task[t].pc \notin {"none", "done"}
Group(p) == {p.m} \cup p.sibs
Items == [m : Matches, sibs : SUBSET Matches]
RowType == {"PENDING", "STARTED", "DEFERRED"} \cup Terminal
TaskType == [pc : {"none", "prepare", "slot", "fleet", "lock", "sibs",
                   "fetch", "flush", "unlock", "done"},
             sibs : SUBSET Matches, left : SUBSET Matches, try : 1 .. MaxTries,
             requeues : 0 .. MaxRequeues,
             code : {"ok", "failed", "skip"} \cup Causes]
Done == [NoTask EXCEPT !.pc = "done"]

Shape ==
  /\ row \in [Matches -> RowType]
  /\ run \in [Runs -> {"off", "on", "over", "dead"}]
  /\ pending \in [Runs -> Seq(Items)]
  /\ task \in [Tasks -> TaskType]
  /\ slot \subseteq Tasks /\ lease \subseteq Tasks
  /\ lock \in [Matches -> Tasks \cup {Nobody}]
  /\ defers \in [Matches \X Causes -> 0 .. MaxDefers]
  /\ lapses \in Nat /\ overran \subseteq Tasks

\* A run that has not begun works on nothing.
Idle == \A t \in Tasks : run[t[1]] = "off" => ~Busy(t)

\* The groups of a queue share no match, nor does one list its own fetcher.
Apart(s) ==
  /\ \A i \in 1 .. Len(s) : s[i].m \notin s[i].sibs
  /\ \A i, j \in 1 .. Len(s) : i # j => Group(s[i]) \cap Group(s[j]) = {}
QueueApart == \A r \in Runs : Apart(pending[r])

\* What is queued is not being worked on, and what is worked on is so once.
QueuedNotBusy ==
  \A t \in Tasks : \A i \in 1 .. Len(pending[t[1]]) :
    Busy(t) => Group(pending[t[1]][i]) \cap Covers(t) = {}
BusyApart ==
  \A t, u \in Tasks :
    t # u /\ t[1] = u[1] /\ Busy(t) /\ Busy(u) => Covers(t) \cap Covers(u) = {}

Neat(t) == /\ t[2] \notin task[t].sibs
           /\ task[t].pc = "sibs" => task[t].left \subseteq task[t].sibs
           /\ task[t].pc \in {"none", "done"} => task[t].try = 1
GroupsNeat == \A t \in Tasks : Neat(t)

\* What a task may hold.
Tidy(t) ==
  /\ t \in slot => task[t].pc \in {"fleet", "lock", "sibs", "fetch"}
  /\ t \in lease => task[t].pc \in {"lock", "sibs", "fetch"}
  /\ \A m \in Matches : HasLock(t, m) =>
       /\ m \in Covers(t)
       /\ task[t].pc \in {"sibs", "fetch", "flush", "unlock"}
            \/ (task[t].try > 1 /\ task[t].pc # "done")
       /\ task[t].pc = "sibs" => m \notin task[t].left

\* What a task none of whose grants lapsed has.
Has(t) ==
  /\ task[t].pc \in {"fleet", "lock", "sibs", "fetch"} => t \in slot
  /\ task[t].pc \in {"lock", "sibs", "fetch"} => t \in lease
  /\ \A m \in Covers(t) :
       (\/ task[t].pc = "fetch" \/ (task[t].pc = "flush" /\ task[t].code = "ok")
        \/ task[t].pc = "sibs" /\ m \notin task[t].left
        \/ task[t].pc \in {"prepare", "slot", "fleet", "lock"} /\ task[t].try > 1)
       => HasLock(t, m)

WithinSizes == /\ IsFiniteSet(slot) /\ Cardinality(slot) <= Slots
               /\ IsFiniteSet(lease) /\ Cardinality(lease) <= Leases

IInv == /\ Shape /\ Idle /\ QueueApart /\ QueuedNotBusy /\ BusyApart /\ GroupsNeat /\ WithinSizes
        /\ \A t \in Tasks : Live(t) => Tidy(t) /\ (t \notin overran => Has(t))

\* A step of one task.
Own(t) ==
  /\ run' = run /\ overran' = overran
  /\ \A u \in Tasks : u # t =>
       /\ task'[u] = task[u] /\ (u \in slot' <=> u \in slot) /\ (u \in lease' <=> u \in lease)
       /\ \A m \in Matches : lock'[m] = u <=> lock[m] = u

\* The invariant holds at the start.
LEMMA InitOK == Sizes /\ Init => IInv
<1> SUFFICES ASSUME Sizes, Init PROVE IInv
  OBVIOUS
<1>1. Shape /\ Idle
  BY DEF Sizes, Init, Shape, RowType, TaskType, Idle, NoTask, Tasks, Busy, Causes, Items
<1>2. QueueApart /\ QueuedNotBusy
  BY DEF Init, QueueApart, QueuedNotBusy, Apart, Tasks
<1>3. BusyApart /\ GroupsNeat
  BY DEF Init, BusyApart, GroupsNeat, Neat, Busy, NoTask
<1>4. WithinSizes
  BY FS_EmptySet DEF Init, WithinSizes, Sizes
<1>5. \A t \in Tasks : Live(t) => Tidy(t) /\ (t \notin overran => Has(t))
  BY DEF Init, Sizes, Tidy, Has, NoTask, HasLock
<1> QED BY <1>1, <1>2, <1>3, <1>4, <1>5 DEF IInv

\* The tasks that do not step keep what they hold and have.
LEMMA OthersOK ==
  ASSUME IInv, NEW t \in Tasks, Own(t), Live(t)' => Tidy(t)' /\ (t \notin overran' => Has(t)')
  PROVE  \A u \in Tasks : Live(u)' => Tidy(u)' /\ (u \notin overran' => Has(u)')
<1> SUFFICES ASSUME NEW u \in Tasks, u # t, Live(u)' PROVE Tidy(u)' /\ (u \notin overran' => Has(u)')
  OBVIOUS
<1>1. Live(u)
  BY DEF Own, Live
<1>2. Tidy(u) /\ (u \notin overran => Has(u))
  BY <1>1 DEF IInv
<1>3. Tidy(u)'
  BY <1>2 DEF Own, Tidy, HasLock, Covers
<1>4. ASSUME u \notin overran' PROVE Has(u)'
  <2>1. Has(u) /\ Covers(u)' = Covers(u) /\ task'[u] = task[u]
    BY <1>2, <1>4 DEF Own, Covers
  <2>2. Covers(u) \subseteq Matches
    BY DEF IInv, Shape, TaskType, Tasks, Covers
  <2>3. \A m \in Matches : HasLock(u, m) => HasLock(u, m)'
    BY DEF Own, HasLock
  <2> QED BY <2>1, <2>2, <2>3 DEF Has, Own
<1> QED BY <1>3, <1>4

-----------------------------------------------------------------------------
\* Queues that share no match may be joined.
LEMMA JoinApart ==
  ASSUME NEW q \in Seq(Items), NEW s \in Seq(Items), Apart(q), Apart(s),
         \A i \in 1 .. Len(q), j \in 1 .. Len(s) : Group(q[i]) \cap Group(s[j]) = {}
  PROVE  Apart(q \o s)
<1> DEFINE z == q \o s
<1>1. /\ Len(q) \in Nat /\ Len(s) \in Nat /\ Len(z) = Len(q) + Len(s)
      /\ \A k \in 1 .. Len(z) : z[k] = IF k <= Len(q) THEN q[k] ELSE s[k - Len(q)]
  OBVIOUS
<1> HIDE DEF z
<1>2. ASSUME NEW i \in 1 .. Len(z) PROVE z[i].m \notin z[i].sibs
  <2>1. CASE i <= Len(q)
    <3>1. i \in 1 .. Len(q) /\ z[i] = q[i]
      BY <1>1, <2>1
    <3> QED BY <3>1 DEF Apart
  <2>2. CASE i > Len(q)
    <3>1. i - Len(q) \in 1 .. Len(s) /\ z[i] = s[i - Len(q)]
      BY <1>1, <2>2
    <3> QED BY <3>1 DEF Apart
  <2> QED BY <1>1, <2>1, <2>2
<1>3. ASSUME NEW i \in 1 .. Len(z), NEW j \in 1 .. Len(z), i # j
      PROVE Group(z[i]) \cap Group(z[j]) = {}
  <2>1. CASE i <= Len(q) /\ j <= Len(q)
    <3>1. i \in 1 .. Len(q) /\ j \in 1 .. Len(q) /\ z[i] = q[i] /\ z[j] = q[j]
      BY <1>1, <2>1
    <3> QED BY <3>1, <1>3 DEF Apart
  <2>2. CASE i <= Len(q) /\ j > Len(q)
    <3>1. i \in 1 .. Len(q) /\ j - Len(q) \in 1 .. Len(s) /\ z[i] = q[i] /\ z[j] = s[j - Len(q)]
      BY <1>1, <2>2
    <3> QED BY <3>1
  <2>3. CASE i > Len(q) /\ j <= Len(q)
    <3>1. j \in 1 .. Len(q) /\ i - Len(q) \in 1 .. Len(s) /\ z[j] = q[j] /\ z[i] = s[i - Len(q)]
      BY <1>1, <2>3
    <3> QED BY <3>1
  <2>4. CASE i > Len(q) /\ j > Len(q)
    <3>1. i - Len(q) \in 1 .. Len(s) /\ j - Len(q) \in 1 .. Len(s) /\ z[j] = s[j - Len(q)]
            /\ z[i] = s[i - Len(q)] /\ i - Len(q) # j - Len(q)
      BY <1>1, <2>4, <1>3
    <3> QED BY <3>1 DEF Apart
  <2> QED BY <1>1, <2>1, <2>2, <2>3, <2>4
<1> QED BY <1>2, <1>3 DEF Apart, z

\* The head of a queue shares no match with the rest.
LEMMA TailApart ==
  ASSUME NEW s \in Seq(Items), s # <<>>, Apart(s)
  PROVE  /\ Tail(s) \in Seq(Items) /\ Head(s) \in Items /\ Head(s).m \notin Head(s).sibs
         /\ Apart(Tail(s))
         /\ \A i \in 1 .. Len(Tail(s)) : Group(Tail(s)[i]) \cap Group(Head(s)) = {} 
                 /\ \E j \in 1 .. Len(s) : Tail(s)[i] = s[j]
<1>1. /\ Len(s) \in Nat \ {0} /\ Len(Tail(s)) = Len(s) - 1 /\ Tail(s) \in Seq(Items)
      /\ Head(s) = s[1] /\ s[1] \in Items
      /\ \A i \in 1 .. Len(Tail(s)) : Tail(s)[i] = s[i + 1]
  OBVIOUS
<1>2. \A i \in 1 .. Len(Tail(s)) : i + 1 \in 1 .. Len(s) /\ i + 1 # 1
  BY <1>1
<1>3. 1 \in 1 .. Len(s)
  BY <1>1
<1>4. Head(s).m \notin Head(s).sibs
  BY <1>1, <1>3 DEF Apart
<1>5. \A i \in 1 .. Len(Tail(s)) : Tail(s)[i].m \notin Tail(s)[i].sibs
  BY <1>1, <1>2 DEF Apart
<1>6. \A i, j \in 1 .. Len(Tail(s)) : i # j => Group(Tail(s)[i]) \cap Group(Tail(s)[j]) = {}
  BY <1>1, <1>2 DEF Apart
<1>7. \A i \in 1 .. Len(Tail(s)) : Group(Tail(s)[i]) \cap Group(Head(s)) = {}
  BY <1>1, <1>2, <1>3 DEF Apart
<1> QED BY <1>1, <1>2, <1>4, <1>5, <1>6, <1>7 DEF Apart

\* A step that leaves the queue alone and adds no match keeps the split.
LEMMA QueueKept ==
  ASSUME IInv, NEW t \in Tasks, Own(t), pending' = pending,
         Busy(t)' => Busy(t) /\ task'[t].sibs \subseteq task[t].sibs
  PROVE  QueueApart' /\ QueuedNotBusy' /\ BusyApart'
<1>1. \A u \in Tasks : Busy(u)' => Busy(u) /\ Covers(u)' \subseteq Covers(u)
  <2> SUFFICES ASSUME NEW u \in Tasks, Busy(u)' PROVE Busy(u) /\ Covers(u)' \subseteq Covers(u)
    OBVIOUS
  <2>1. CASE u = t
    BY <2>1 DEF Covers
  <2>2. CASE u # t
    BY <2>2 DEF Own, Covers, Busy
  <2> QED BY <2>1, <2>2
<1>2. QueueApart'
  BY DEF IInv, QueueApart
<1>3. QueuedNotBusy'
  BY <1>1 DEF IInv, QueuedNotBusy
<1>4. BusyApart'
  BY <1>1 DEF IInv, BusyApart
<1> QED BY <1>2, <1>3, <1>4

\* Only the stepping task's own group can become untidy.
LEMMA NeatKept ==
  ASSUME IInv, NEW t \in Tasks, Own(t), Neat(t)'
  PROVE  GroupsNeat'
BY DEF IInv, GroupsNeat, Neat, Own

\* What to show of a step of one task.
LEMMA StepOK ==
  ASSUME IInv, NEW t \in Tasks, Own(t), Shape', WithinSizes', pending' = pending,
         Busy(t)' => Busy(t) /\ task'[t].sibs \subseteq task[t].sibs,
         Neat(t)', Live(t)' => Tidy(t)' /\ (t \notin overran' => Has(t)')
  PROVE  IInv'
<1>1. Idle'
  BY DEF IInv, Idle, Own, Busy
<1> QED BY <1>1, QueueKept, NeatKept, OthersOK DEF IInv

\* Giving back never exceeds the sizes.
LEMMA CountKept ==
  ASSUME IInv, NEW t, slot' \in {slot, slot \ {t}}, lease' \in {lease, lease \ {t}}, Sizes
  PROVE  WithinSizes'
<1>1. \A S : IsFiniteSet(S) => IsFiniteSet(S \ {t}) /\ Cardinality(S \ {t}) \in Nat /\ Cardinality(S \ {t}) <= Cardinality(S)
             /\ Cardinality(S) \in Nat
  <2> SUFFICES ASSUME NEW S, IsFiniteSet(S) PROVE IsFiniteSet(S \ {t}) /\ Cardinality(S \ {t}) \in Nat /\ Cardinality(S \ {t}) <= Cardinality(S)
             /\ Cardinality(S) \in Nat
    OBVIOUS
  <2>1. IsFiniteSet(S \ {t}) /\ Cardinality(S \ {t}) <= Cardinality(S)
    BY FS_Subset
  <2> QED BY <2>1, FS_CardinalityType
<1> QED BY <1>1 DEF IInv, WithinSizes, Sizes

\* The record of an ended task.
LEMMA DoneFact ==
  ASSUME Sizes
  PROVE  Done \in TaskType /\ Done.pc = "done" /\ Done.sibs = {} /\ Done.left = {} /\ Done.try = 1
<1>1. Done = [pc |-> "done", sibs |-> {}, left |-> {}, try |-> 1, requeues |-> 0, code |-> "ok"]
  BY DEF Done, NoTask
<1>2. 1 \in 1 .. MaxTries /\ 0 \in 0 .. MaxRequeues
  BY DEF Sizes
<1> QED BY <1>1, <1>2 DEF TaskType

\* A release frees the task's own locks only, and all of them that it names.
LEMMA UnlockedFact ==
  ASSUME Sizes, IInv, NEW t \in Tasks, NEW S
  PROVE  /\ Unlocked(t, S) \in [Matches -> Tasks \cup {Nobody}]
         /\ \A u \in Tasks \ {t} : \A m \in Matches : Unlocked(t, S)[m] = u <=> lock[m] = u
         /\ \A m \in Matches : Unlocked(t, S)[m] = t => lock[m] = t /\ m \notin S
BY DEF Sizes, IInv, Shape, Unlocked, HasLock

\* Marking keeps the rows' type.
LEMMA MarkFact ==
  ASSUME IInv, NEW S, NEW st \in RowType
  PROVE  Mark(S, st) \in [Matches -> RowType]
BY DEF IInv, Shape, Mark

\* A defer budget never passes its cap.
LEMMA ConsumedFact ==
  ASSUME Sizes, IInv, NEW S, NEW cause
  PROVE  Consumed(S, cause) \in [Matches \X Causes -> 0 .. MaxDefers]
<1> SUFFICES ASSUME NEW c \in Matches \X Causes
             PROVE (IF c[1] \in S /\ c[2] = cause /\ Defers(c[1], cause) THEN defers[c] + 1 ELSE defers[c])
                     \in 0 .. MaxDefers
  BY DEF Consumed
<1>1. defers[c] \in 0 .. MaxDefers
  BY DEF IInv, Shape
<1>2. CASE c[1] \in S /\ c[2] = cause /\ Defers(c[1], cause)
  <2>1. defers[c] < MaxDefers
    <3>1. c = <<c[1], c[2]>>
      OBVIOUS
    <3> QED BY <1>2, <3>1 DEF Defers
  <2> QED BY <1>1, <1>2, <2>1 DEF Sizes
<1>3. CASE ~(c[1] \in S /\ c[2] = cause /\ Defers(c[1], cause))
  BY <1>1, <1>3
<1> QED BY <1>2, <1>3

\* A deferral keeps the types of rows and budgets.
LEMMA DeferOrFailFact ==
  ASSUME Sizes, IInv, NEW m, NEW cause, DeferOrFail(m, cause)
  PROVE  row' \in [Matches -> RowType] /\ defers' \in [Matches \X Causes -> 0 .. MaxDefers]
<1>1. (IF Defers(m, cause) THEN "DEFERRED" ELSE "FAILED") \in RowType
  BY DEF RowType, Terminal
<1> QED BY <1>1, MarkFact, ConsumedFact DEF DeferOrFail

\* Where a denied gate leaves a task and its locks.
AfterDenial(t) ==
  /\ \A u \in Tasks : \A m \in Matches : u # t => (lock'[m] = u <=> lock[m] = u)
  /\ \A u \in Tasks : u # t => task'[u] = task[u]
  /\ \/ /\ lock' = lock
        /\ task'[t].pc \in {"prepare", "slot"} /\ task'[t].sibs = task[t].sibs
        /\ task'[t].left = task[t].left /\ task'[t].try = task[t].try
     \/ (\A m \in Matches : lock'[m] # t) /\ task'[t] = Done

\* A denied gate keeps the task's locks and waits, or ends it without any.
LEMMA DeniedFact ==
  ASSUME Sizes, IInv, NEW t \in Tasks, Live(t), Denied(t)
  PROVE  /\ row' \in [Matches -> RowType] /\ defers' \in [Matches \X Causes -> 0 .. MaxDefers]
         /\ lock' \in [Matches -> Tasks \cup {Nobody}] /\ task' \in [Tasks -> TaskType]
         /\ AfterDenial(t)
<1>1. CASE task[t].requeues < MaxRequeues
  <2>1. row' = row /\ defers' = defers /\ lock' = lock
    BY <1>1 DEF Denied
  <2>2. PICK pc \in {"prepare", "slot"} : task' = [task EXCEPT ![t].requeues = @ + 1, ![t].pc = pc]
    BY <1>1 DEF Denied
  <2>3. task[t] \in TaskType /\ task \in [Tasks -> TaskType]
    BY DEF IInv, Shape
  <2>4. [task[t] EXCEPT !.requeues = @ + 1, !.pc = pc] \in TaskType
    <3>1. task[t].requeues + 1 \in 0 .. MaxRequeues
      BY <1>1, <2>3 DEF TaskType, Sizes
    <3> QED BY <2>3, <3>1 DEF TaskType
  <2>5. task' \in [Tasks -> TaskType] /\ AfterDenial(t)
    BY <2>1, <2>2, <2>3, <2>4 DEF AfterDenial, TaskType
  <2> QED BY <2>1, <2>5 DEF IInv, Shape
<1>2. CASE ~(task[t].requeues < MaxRequeues)
  <2>1. lock' = Unlocked(t, Covers(t)) /\ task' = [task EXCEPT ![t] = Done]
          /\ DeferOrFail(t[2], "rate")
    BY <1>2 DEF Denied, Done
  <2>2. \A m \in Matches : lock[m] = t => m \in Covers(t)
    BY DEF IInv, Tidy, HasLock, Tasks
  <2>3. task' \in [Tasks -> TaskType] /\ task'[t] = Done /\ \A u \in Tasks : u # t => task'[u] = task[u]
    BY <2>1, DoneFact DEF IInv, Shape
  <2>4. /\ lock' \in [Matches -> Tasks \cup {Nobody}]
        /\ \A u \in Tasks : \A m \in Matches : u # t => (lock'[m] = u <=> lock[m] = u)
        /\ \A m \in Matches : lock'[m] # t
    BY <2>1, <2>2, UnlockedFact
  <2> QED BY <2>1, <2>3, <2>4, DeferOrFailFact DEF AfterDenial
<1> QED BY <1>1, <1>2

\* One lemma per action: the invariant is kept.
LEMMA PrepareOK == ASSUME Sizes, IInv, NEW t \in Tasks, Prepare(t) PROVE IInv'
<1> USE DEF Prepare, At, grants
<1>0. task' = [task EXCEPT ![t] = task'[t]] /\ task'[t] \in TaskType
        /\ task'[t].pc = "slot"
        /\ task'[t].code = task[t].code
        /\ task'[t].sibs = task[t].sibs
        /\ task'[t].left = task[t].left
        /\ task'[t].try = task[t].try
  BY DEF IInv, Shape, TaskType
<1>1. Own(t)
  BY <1>0 DEF Own, IInv, Shape
<1>2. Shape'
  BY <1>0 DEF IInv, Shape
<1>3. WithinSizes'
  BY DEF IInv, WithinSizes
<1>4. Neat(t)' /\ (Busy(t)' => Busy(t) /\ task'[t].sibs \subseteq task[t].sibs) /\ pending' = pending
  BY <1>0 DEF IInv, GroupsNeat, Neat, Busy, Shape
<1>5. Tidy(t) /\ (t \notin overran => Has(t)) /\ Neat(t) /\ overran' = overran
  BY DEF IInv, GroupsNeat
<1>8. Tidy(t)'
  BY <1>5, <1>0 DEF Tidy, HasLock, Covers
<1>9. t \notin overran' => Has(t)'
  BY <1>5, <1>0 DEF Has, HasLock, Covers
<1> QED BY StepOK, <1>1, <1>2, <1>3, <1>4, <1>8, <1>9

LEMMA PrepareLimitedOK == ASSUME Sizes, IInv, NEW t \in Tasks, PrepareLimited(t) PROVE IInv'
<1> USE DEF PrepareLimited, At
<1>6. task[t].pc = "prepare" /\ Live(t) /\ Denied(t)
  OBVIOUS
<1>0. /\ row' \in [Matches -> RowType] /\ defers' \in [Matches \X Causes -> 0 .. MaxDefers]
      /\ lock' \in [Matches -> Tasks \cup {Nobody}] /\ task' \in [Tasks -> TaskType]
      /\ AfterDenial(t)
  BY <1>6, DeniedFact
<1>7. Done.pc = "done" /\ Done.sibs = {} /\ Done.left = {} /\ Done.try = 1
  BY DoneFact
<1>1. Own(t)
  BY <1>0, <1>6, <1>7 DEF Own, IInv, Shape, AfterDenial, Sizes
<1>2. Shape'
  BY <1>0, <1>6, <1>7 DEF IInv, Shape, AfterDenial, Sizes
<1>3. WithinSizes'
  BY DEF IInv, WithinSizes
<1>4. Neat(t)' /\ (Busy(t)' => Busy(t) /\ task'[t].sibs \subseteq task[t].sibs) /\ pending' = pending
  BY <1>0, <1>6, <1>7 DEF IInv, GroupsNeat, Neat, Busy, Shape, AfterDenial, Sizes
<1>5. Tidy(t) /\ (t \notin overran => Has(t)) /\ Neat(t) /\ overran' = overran
  BY DEF IInv, GroupsNeat
<1>8. Tidy(t)'
  BY <1>5, <1>0, <1>6, <1>7 DEF Tidy, HasLock, Covers, AfterDenial, Sizes
<1>9. t \notin overran' => Has(t)'
  BY <1>5, <1>0, <1>6, <1>7 DEF Has, HasLock, Covers, AfterDenial, Sizes
<1> QED BY StepOK, <1>1, <1>2, <1>3, <1>4, <1>8, <1>9

LEMMA SlotDeniedOK == ASSUME Sizes, IInv, NEW t \in Tasks, SlotDenied(t) PROVE IInv'
<1> USE DEF SlotDenied, At
<1>6. task[t].pc = "slot" /\ Live(t) /\ Denied(t)
  OBVIOUS
<1>0. /\ row' \in [Matches -> RowType] /\ defers' \in [Matches \X Causes -> 0 .. MaxDefers]
      /\ lock' \in [Matches -> Tasks \cup {Nobody}] /\ task' \in [Tasks -> TaskType]
      /\ AfterDenial(t)
  BY <1>6, DeniedFact
<1>7. Done.pc = "done" /\ Done.sibs = {} /\ Done.left = {} /\ Done.try = 1
  BY DoneFact
<1>1. Own(t)
  BY <1>0, <1>6, <1>7 DEF Own, IInv, Shape, AfterDenial, Sizes
<1>2. Shape'
  BY <1>0, <1>6, <1>7 DEF IInv, Shape, AfterDenial, Sizes
<1>3. WithinSizes'
  BY DEF IInv, WithinSizes
<1>4. Neat(t)' /\ (Busy(t)' => Busy(t) /\ task'[t].sibs \subseteq task[t].sibs) /\ pending' = pending
  BY <1>0, <1>6, <1>7 DEF IInv, GroupsNeat, Neat, Busy, Shape, AfterDenial, Sizes
<1>5. Tidy(t) /\ (t \notin overran => Has(t)) /\ Neat(t) /\ overran' = overran
  BY DEF IInv, GroupsNeat
<1>8. Tidy(t)'
  BY <1>5, <1>0, <1>6, <1>7 DEF Tidy, HasLock, Covers, AfterDenial, Sizes
<1>9. t \notin overran' => Has(t)'
  BY <1>5, <1>0, <1>6, <1>7 DEF Has, HasLock, Covers, AfterDenial, Sizes
<1> QED BY StepOK, <1>1, <1>2, <1>3, <1>4, <1>8, <1>9

LEMMA LeaseDeniedOK == ASSUME Sizes, IInv, NEW t \in Tasks, LeaseDenied(t) PROVE IInv'
<1> USE DEF LeaseDenied, At
<1>6. task[t].pc = "fleet" /\ Live(t) /\ Denied(t)
  OBVIOUS
<1>0. /\ row' \in [Matches -> RowType] /\ defers' \in [Matches \X Causes -> 0 .. MaxDefers]
      /\ lock' \in [Matches -> Tasks \cup {Nobody}] /\ task' \in [Tasks -> TaskType]
      /\ AfterDenial(t)
  BY <1>6, DeniedFact
<1>7. Done.pc = "done" /\ Done.sibs = {} /\ Done.left = {} /\ Done.try = 1
  BY DoneFact
<1>1. Own(t)
  BY <1>0, <1>6, <1>7 DEF Own, IInv, Shape, AfterDenial, Sizes
<1>2. Shape'
  BY <1>0, <1>6, <1>7 DEF IInv, Shape, AfterDenial, Sizes
<1>3. WithinSizes'
  BY CountKept DEF IInv, WithinSizes
<1>4. Neat(t)' /\ (Busy(t)' => Busy(t) /\ task'[t].sibs \subseteq task[t].sibs) /\ pending' = pending
  BY <1>0, <1>6, <1>7 DEF IInv, GroupsNeat, Neat, Busy, Shape, AfterDenial, Sizes
<1>5. Tidy(t) /\ (t \notin overran => Has(t)) /\ Neat(t) /\ overran' = overran
  BY DEF IInv, GroupsNeat
<1>8. Tidy(t)'
  BY <1>5, <1>0, <1>6, <1>7 DEF Tidy, HasLock, Covers, AfterDenial, Sizes
<1>9. t \notin overran' => Has(t)'
  BY <1>5, <1>0, <1>6, <1>7 DEF Has, HasLock, Covers, AfterDenial, Sizes
<1> QED BY StepOK, <1>1, <1>2, <1>3, <1>4, <1>8, <1>9

LEMMA PrepareBreakerOpenOK == ASSUME Sizes, IInv, NEW t \in Tasks, PrepareBreakerOpen(t) PROVE IInv'
<1> USE DEF PrepareBreakerOpen, At, grants
<1>0. task' = [task EXCEPT ![t] = Done] /\ task'[t] = Done
        /\ Done \in TaskType /\ Done.pc = "done" /\ Done.sibs = {} /\ Done.left = {} /\ Done.try = 1
  BY DoneFact DEF IInv, Shape, Done
<1>1. Own(t)
  BY <1>0 DEF Own, IInv, Shape, Sizes, Tasks
<1>2. Shape'
  BY <1>0, DeferOrFailFact DEF IInv, Shape, Sizes, Tasks
<1>3. WithinSizes'
  BY DEF IInv, WithinSizes
<1>4. Neat(t)' /\ (Busy(t)' => Busy(t) /\ task'[t].sibs \subseteq task[t].sibs) /\ pending' = pending
  BY <1>0 DEF IInv, GroupsNeat, Neat, Busy, Shape, Sizes, Tasks
<1>5. Tidy(t) /\ (t \notin overran => Has(t)) /\ Neat(t) /\ overran' = overran
  BY DEF IInv, GroupsNeat
<1>8. Tidy(t)'
  BY <1>5, <1>0 DEF Tidy, HasLock, Covers, Sizes, Tasks
<1>9. t \notin overran' => Has(t)'
  BY <1>5, <1>0 DEF Has, HasLock, Covers, Sizes, Tasks
<1> QED BY StepOK, <1>1, <1>2, <1>3, <1>4, <1>8, <1>9

LEMMA PrepareUnresolvedOK == ASSUME Sizes, IInv, NEW t \in Tasks, PrepareUnresolved(t) PROVE IInv'
<1> USE DEF PrepareUnresolved, At, grants
<1>0. task' = [task EXCEPT ![t] = Done] /\ task'[t] = Done
        /\ Done \in TaskType /\ Done.pc = "done" /\ Done.sibs = {} /\ Done.left = {} /\ Done.try = 1
  BY DoneFact DEF IInv, Shape, Done
<1>6. "SKIPPED" \in RowType
  BY DEF RowType, Terminal
<1>1. Own(t)
  BY <1>0 DEF Own, IInv, Shape, Sizes, Tasks
<1>2. Shape'
  BY <1>0, <1>6, MarkFact DEF IInv, Shape, Sizes, Tasks
<1>3. WithinSizes'
  BY DEF IInv, WithinSizes
<1>4. Neat(t)' /\ (Busy(t)' => Busy(t) /\ task'[t].sibs \subseteq task[t].sibs) /\ pending' = pending
  BY <1>0 DEF IInv, GroupsNeat, Neat, Busy, Shape, Sizes, Tasks
<1>5. Tidy(t) /\ (t \notin overran => Has(t)) /\ Neat(t) /\ overran' = overran
  BY DEF IInv, GroupsNeat
<1>8. Tidy(t)'
  BY <1>5, <1>0 DEF Tidy, HasLock, Covers, Sizes, Tasks
<1>9. t \notin overran' => Has(t)'
  BY <1>5, <1>0 DEF Has, HasLock, Covers, Sizes, Tasks
<1> QED BY StepOK, <1>1, <1>2, <1>3, <1>4, <1>8, <1>9

\* An attempt that ends leaves its task to be flushed with a code: prepare's refusal, parse.
Flushes(t, code) == task' = [task EXCEPT ![t].pc = "flush", ![t].code = code]
LEMMA ToFlush ==
  ASSUME task \in [Tasks -> TaskType], NEW t \in Tasks, NEW code \in {"ok", "failed"} \cup Causes,
         Flushes(t, code)
  PROVE  /\ task' = [task EXCEPT ![t] = task'[t]] /\ task'[t] \in TaskType
         /\ task'[t].pc = "flush" /\ task'[t].code = code
         /\ task'[t].sibs = task[t].sibs /\ task'[t].left = task[t].left /\ task'[t].try = task[t].try
<1> DEFINE r == [task[t] EXCEPT !.pc = "flush", !.code = code]
<1>1. task' = [task EXCEPT ![t] = r]
  BY DEF Flushes
<1>2. r \in TaskType
  BY DEF TaskType
<1>3. r.pc = "flush" /\ r.code = code /\ r.sibs = task[t].sibs /\ r.left = task[t].left /\ r.try = task[t].try
  BY DEF TaskType
<1> HIDE DEF r
<1>4. task'[t] = r
  BY <1>1
<1> QED BY <1>1, <1>2, <1>3, <1>4

LEMMA PrepareRefusedOK == ASSUME Sizes, IInv, NEW t \in Tasks, PrepareRefused(t) PROVE IInv'
<1>6. PICK code \in {"ok", "failed"} \cup Causes : Flushes(t, code) /\ code # "ok"
  BY DEF PrepareRefused, Causes, Flushes
<1>0. task' = [task EXCEPT ![t] = task'[t]] /\ task'[t] \in TaskType
        /\ task'[t].pc = "flush"
        /\ task'[t].code # "ok"
        /\ task'[t].sibs = task[t].sibs
        /\ task'[t].left = task[t].left
        /\ task'[t].try = task[t].try
  <2>1. task \in [Tasks -> TaskType]
    BY DEF IInv, Shape
  <2> QED BY <1>6, <2>1, ToFlush
<1> USE DEF PrepareRefused, At, grants
<1>1. Own(t)
  BY <1>0 DEF Own, IInv, Shape
<1>2. Shape'
  BY <1>0 DEF IInv, Shape
<1>3. WithinSizes'
  BY DEF IInv, WithinSizes
<1>4. Neat(t)' /\ (Busy(t)' => Busy(t) /\ task'[t].sibs \subseteq task[t].sibs) /\ pending' = pending
  BY <1>0 DEF IInv, GroupsNeat, Neat, Busy, Shape
<1>5. Tidy(t) /\ (t \notin overran => Has(t)) /\ Neat(t) /\ overran' = overran
  BY DEF IInv, GroupsNeat
<1>8. Tidy(t)'
  BY <1>5, <1>0 DEF Tidy, HasLock, Covers
<1>9. t \notin overran' => Has(t)'
  BY <1>5, <1>0 DEF Has, HasLock, Covers
<1> QED BY StepOK, <1>1, <1>2, <1>3, <1>4, <1>8, <1>9

LEMMA AcquireSlotOK == ASSUME Sizes, IInv, NEW t \in Tasks, AcquireSlot(t) PROVE IInv'
<1> USE DEF AcquireSlot, At, grants
<1>0. task' = [task EXCEPT ![t] = task'[t]] /\ task'[t] \in TaskType
        /\ task'[t].pc = "fleet"
        /\ task'[t].code = task[t].code
        /\ task'[t].sibs = task[t].sibs
        /\ task'[t].left = task[t].left
        /\ task'[t].try = task[t].try
  BY DEF IInv, Shape, TaskType
<1>6. Cardinality(slot) \in Nat /\ IsFiniteSet(slot)
  BY FS_CardinalityType DEF IInv, WithinSizes
<1>7. /\ IsFiniteSet(slot \cup {t}) /\ Cardinality(slot \cup {t}) <= Cardinality(slot) + 1
      /\ Cardinality(slot \cup {t}) \in Nat
  <2>1. IsFiniteSet(slot \cup {t}) /\ Cardinality(slot \cup {t}) = IF t \in slot THEN Cardinality(slot) ELSE Cardinality(slot) + 1
    BY <1>6, FS_AddElement
  <2>2. Cardinality(slot \cup {t}) \in Nat
    BY <2>1, FS_CardinalityType
  <2> QED BY <1>6, <2>1, <2>2
<1>1. Own(t)
  BY <1>0 DEF Own, IInv, Shape
<1>2. Shape'
  BY <1>0 DEF IInv, Shape
<1>3. WithinSizes'
  BY <1>6, <1>7 DEF IInv, WithinSizes, Sizes
<1>4. Neat(t)' /\ (Busy(t)' => Busy(t) /\ task'[t].sibs \subseteq task[t].sibs) /\ pending' = pending
  BY <1>0 DEF IInv, GroupsNeat, Neat, Busy, Shape
<1>5. Tidy(t) /\ (t \notin overran => Has(t)) /\ Neat(t) /\ overran' = overran
  BY DEF IInv, GroupsNeat
<1>8. Tidy(t)'
  BY <1>5, <1>0 DEF Tidy, HasLock, Covers
<1>9. t \notin overran' => Has(t)'
  BY <1>5, <1>0 DEF Has, HasLock, Covers
<1> QED BY StepOK, <1>1, <1>2, <1>3, <1>4, <1>8, <1>9

LEMMA AcquireLeaseOK == ASSUME Sizes, IInv, NEW t \in Tasks, AcquireLease(t) PROVE IInv'
<1> USE DEF AcquireLease, At, grants
<1>0. task' = [task EXCEPT ![t] = task'[t]] /\ task'[t] \in TaskType
        /\ task'[t].pc = "lock"
        /\ task'[t].code = task[t].code
        /\ task'[t].sibs = task[t].sibs
        /\ task'[t].left = task[t].left
        /\ task'[t].try = task[t].try
  BY DEF IInv, Shape, TaskType
<1>6. Cardinality(lease) \in Nat /\ IsFiniteSet(lease)
  BY FS_CardinalityType DEF IInv, WithinSizes
<1>7. /\ IsFiniteSet(lease \cup {t}) /\ Cardinality(lease \cup {t}) <= Cardinality(lease) + 1
      /\ Cardinality(lease \cup {t}) \in Nat
  <2>1. IsFiniteSet(lease \cup {t}) /\ Cardinality(lease \cup {t}) = IF t \in lease THEN Cardinality(lease) ELSE Cardinality(lease) + 1
    BY <1>6, FS_AddElement
  <2>2. Cardinality(lease \cup {t}) \in Nat
    BY <2>1, FS_CardinalityType
  <2> QED BY <1>6, <2>1, <2>2
<1>1. Own(t)
  BY <1>0 DEF Own, IInv, Shape
<1>2. Shape'
  BY <1>0 DEF IInv, Shape
<1>3. WithinSizes'
  BY <1>6, <1>7 DEF IInv, WithinSizes, Sizes
<1>4. Neat(t)' /\ (Busy(t)' => Busy(t) /\ task'[t].sibs \subseteq task[t].sibs) /\ pending' = pending
  BY <1>0 DEF IInv, GroupsNeat, Neat, Busy, Shape
<1>5. Tidy(t) /\ (t \notin overran => Has(t)) /\ Neat(t) /\ overran' = overran
  BY DEF IInv, GroupsNeat
<1>8. Tidy(t)'
  BY <1>5, <1>0 DEF Tidy, HasLock, Covers
<1>9. t \notin overran' => Has(t)'
  BY <1>5, <1>0 DEF Has, HasLock, Covers
<1> QED BY StepOK, <1>1, <1>2, <1>3, <1>4, <1>8, <1>9

LEMMA AcquireLockOK == ASSUME Sizes, IInv, NEW t \in Tasks, AcquireLock(t) PROVE IInv'
<1> USE DEF At, grants
<1>5. Tidy(t) /\ (t \notin overran => Has(t)) /\ Neat(t) /\ overran' = overran /\ task[t].pc = "lock" /\ Live(t) /\ t[2] \in Matches
        /\ task[t] \in TaskType /\ lock \in [Matches -> Tasks \cup {Nobody}] /\ slot' = slot /\ lease' = lease /\ run' = run
        /\ pending' = pending /\ row' = row /\ defers' = defers /\ lapses' = lapses
  BY DEF IInv, GroupsNeat, AcquireLock, Shape, Tasks
<1>1. CASE task[t].try > 1 /\ lock' = lock /\ task' = [task EXCEPT ![t].pc = "fetch"]
  <2>0. task' = [task EXCEPT ![t] = task'[t]] /\ task'[t] \in TaskType
          /\ task'[t].pc = "fetch" /\ task'[t].sibs = task[t].sibs
          /\ task'[t].left = task[t].left /\ task'[t].try = task[t].try
    BY <1>1 DEF IInv, Shape, TaskType
  <2>1. Own(t) /\ Shape' /\ WithinSizes'
    BY <1>1, <1>5, <2>0 DEF Own, IInv, Shape, WithinSizes
  <2>2. Neat(t)' /\ (Busy(t)' => Busy(t) /\ task'[t].sibs \subseteq task[t].sibs)
    BY <1>5, <2>0 DEF Neat, Busy
  <2>3. Tidy(t)'
    BY <1>1, <1>5, <2>0 DEF Tidy, HasLock, Covers
  <2>4. t \notin overran' => Has(t)'
    BY <1>1, <1>5, <2>0 DEF Has, HasLock, Covers
  <2> QED BY StepOK, <1>5, <2>1, <2>2, <2>3, <2>4
<1>2. CASE task[t].try = 1 /\ lock[t[2]] = Nobody /\ lock' = [lock EXCEPT ![t[2]] = t]
           /\ task' = [task EXCEPT ![t].pc = "sibs", ![t].left = task[t].sibs]
  <2>0. task' = [task EXCEPT ![t] = task'[t]] /\ task'[t] \in TaskType
          /\ task'[t].pc = "sibs" /\ task'[t].sibs = task[t].sibs
          /\ task'[t].left = task[t].sibs /\ task'[t].try = task[t].try
    BY <1>2, <1>5 DEF IInv, Shape, TaskType
  <2>6. \A m \in Matches : lock'[m] = IF m = t[2] THEN t ELSE lock[m]
    BY <1>2, <1>5
  <2>1. Own(t)
    BY <1>2, <1>5, <2>0, <2>6 DEF Own, IInv, Shape, Sizes
  <2>5. Shape' /\ WithinSizes'
    BY <1>2, <1>5, <2>0 DEF IInv, Shape, WithinSizes
  <2>2. Neat(t)' /\ (Busy(t)' => Busy(t) /\ task'[t].sibs \subseteq task[t].sibs)
    BY <1>5, <2>0 DEF Neat, Busy
  <2>7. \A m \in Matches : lock[m] # t
    BY <1>2, <1>5 DEF Tidy, HasLock
  <2>3. Tidy(t)'
    BY <1>2, <1>5, <2>0, <2>6, <2>7 DEF Tidy, HasLock, Covers, Neat
  <2>4. t \notin overran' => Has(t)'
    BY <1>2, <1>5, <2>0, <2>6 DEF Has, HasLock, Covers
  <2> QED BY StepOK, <1>5, <2>1, <2>2, <2>3, <2>4, <2>5
<1> QED BY <1>1, <1>2 DEF AcquireLock

LEMMA SendOK == ASSUME Sizes, IInv, NEW t \in Tasks, Send(t) PROVE IInv'
<1> USE DEF Send, At, grants
<1>0. task' = [task EXCEPT ![t] = task'[t]] /\ task'[t] \in TaskType
        /\ task'[t].pc = "fetch"
        /\ task'[t].sibs = task[t].sibs
        /\ task'[t].left = task[t].left
        /\ task'[t].try = task[t].try
  BY DEF IInv, Shape, TaskType
<1>1. Own(t)
  BY <1>0 DEF Own, IInv, Shape
<1>2. Shape'
  BY <1>0 DEF IInv, Shape
<1>3. WithinSizes'
  BY DEF IInv, WithinSizes
<1>4. Neat(t)' /\ (Busy(t)' => Busy(t) /\ task'[t].sibs \subseteq task[t].sibs) /\ pending' = pending
  BY <1>0 DEF IInv, GroupsNeat, Neat, Busy, Shape
<1>5. Tidy(t) /\ (t \notin overran => Has(t)) /\ Neat(t) /\ overran' = overran
  BY DEF IInv, GroupsNeat
<1>8. Tidy(t)'
  BY <1>5, <1>0 DEF Tidy, HasLock, Covers, GroupsNeat, Neat
<1>9. t \notin overran' => Has(t)'
  BY <1>5, <1>0 DEF Has, HasLock, Covers, GroupsNeat, Neat
<1> QED BY StepOK, <1>1, <1>2, <1>3, <1>4, <1>8, <1>9

LEMMA ParseOK == ASSUME Sizes, IInv, NEW t \in Tasks, Parse(t) PROVE IInv'
<1>6. PICK code \in {"ok", "failed"} \cup Causes : Flushes(t, code)
  BY DEF Parse, Flushes
<1>0. task' = [task EXCEPT ![t] = task'[t]] /\ task'[t] \in TaskType
        /\ task'[t].pc = "flush"
        /\ task'[t].sibs = task[t].sibs
        /\ task'[t].left = task[t].left
        /\ task'[t].try = task[t].try
  <2>1. task \in [Tasks -> TaskType]
    BY DEF IInv, Shape
  <2> QED BY <1>6, <2>1, ToFlush
<1> USE DEF Parse, At, grants, GiveBack
<1>1. Own(t)
  BY <1>0 DEF Own, IInv, Shape
<1>2. Shape'
  BY <1>0 DEF IInv, Shape
<1>3. WithinSizes'
  BY CountKept DEF IInv, WithinSizes
<1>4. Neat(t)' /\ (Busy(t)' => Busy(t) /\ task'[t].sibs \subseteq task[t].sibs) /\ pending' = pending
  BY <1>0 DEF IInv, GroupsNeat, Neat, Busy, Shape
<1>5. Tidy(t) /\ (t \notin overran => Has(t)) /\ Neat(t) /\ overran' = overran
  BY DEF IInv, GroupsNeat
<1>8. Tidy(t)'
  BY <1>5, <1>0 DEF Tidy, HasLock, Covers
<1>9. t \notin overran' => Has(t)'
  BY <1>5, <1>0 DEF Has, HasLock, Covers
<1> QED BY StepOK, <1>1, <1>2, <1>3, <1>4, <1>8, <1>9

LEMMA ErrbackOK == ASSUME Sizes, IInv, NEW t \in Tasks, Errback(t) PROVE IInv'
<1> USE DEF Errback, At, grants, GiveBack
<1>6. task[t].try + 1 \in 1 .. MaxTries /\ task[t].try + 1 > 1
  BY DEF IInv, Shape, TaskType, Sizes
<1>0. task' = [task EXCEPT ![t] = task'[t]] /\ task'[t] \in TaskType
        /\ task'[t].pc = "prepare"
        /\ task'[t].try = task[t].try + 1
        /\ task'[t].try > 1
        /\ task'[t].sibs = task[t].sibs
        /\ task'[t].left = task[t].left
  BY <1>6 DEF IInv, Shape, TaskType, Sizes
<1>1. Own(t)
  BY <1>0 DEF Own, IInv, Shape
<1>2. Shape'
  BY <1>0 DEF IInv, Shape
<1>3. WithinSizes'
  BY CountKept DEF IInv, WithinSizes
<1>4. Neat(t)' /\ (Busy(t)' => Busy(t) /\ task'[t].sibs \subseteq task[t].sibs) /\ pending' = pending
  BY <1>0 DEF IInv, GroupsNeat, Neat, Busy, Shape
<1>5. Tidy(t) /\ (t \notin overran => Has(t)) /\ Neat(t) /\ overran' = overran
  BY DEF IInv, GroupsNeat
<1>8. Tidy(t)'
  BY <1>5, <1>0 DEF Tidy, HasLock, Covers
<1>9. t \notin overran' => Has(t)'
  BY <1>5, <1>0 DEF Has, HasLock, Covers
<1> QED BY StepOK, <1>1, <1>2, <1>3, <1>4, <1>8, <1>9

LEMMA FlushCommitOK == ASSUME Sizes, IInv, NEW t \in Tasks, FlushCommit(t) PROVE IInv'
<1> USE DEF FlushCommit, At, grants
<1>0. task' = [task EXCEPT ![t] = task'[t]] /\ task'[t] \in TaskType
        /\ task'[t].pc = "unlock"
        /\ task'[t].sibs = task[t].sibs
        /\ task'[t].left = task[t].left
        /\ task'[t].try = task[t].try
  BY DEF IInv, Shape, TaskType
<1>6. \A m \in Matches : Outcome(m, task[t].code) \in RowType
  BY DEF Outcome, RowType, Terminal
<1>7. row' \in [Matches -> RowType] /\ defers' \in [Matches \X Causes -> 0 .. MaxDefers]
  <2>1. \A m \in Matches : Mark({m}, Outcome(m, task[t].code)) \in [Matches -> RowType]
    BY <1>6, MarkFact
  <2>2. row \in [Matches -> RowType] /\ defers \in [Matches \X Causes -> 0 .. MaxDefers]
    BY DEF IInv, Shape
  <2> QED BY <2>1, <2>2, ConsumedFact
<1>1. Own(t)
  BY <1>0 DEF Own, IInv, Shape
<1>2. Shape'
  BY <1>0, <1>6, <1>7 DEF IInv, Shape
<1>3. WithinSizes'
  BY DEF IInv, WithinSizes
<1>4. Neat(t)' /\ (Busy(t)' => Busy(t) /\ task'[t].sibs \subseteq task[t].sibs) /\ pending' = pending
  BY <1>0 DEF IInv, GroupsNeat, Neat, Busy, Shape
<1>5. Tidy(t) /\ (t \notin overran => Has(t)) /\ Neat(t) /\ overran' = overran
  BY DEF IInv, GroupsNeat
<1>8. Tidy(t)'
  BY <1>5, <1>0 DEF Tidy, HasLock, Covers
<1>9. t \notin overran' => Has(t)'
  BY <1>5, <1>0 DEF Has, HasLock, Covers
<1> QED BY StepOK, <1>1, <1>2, <1>3, <1>4, <1>8, <1>9

LEMMA FlushUnlockOK == ASSUME Sizes, IInv, NEW t \in Tasks, FlushUnlock(t) PROVE IInv'
<1> USE DEF FlushUnlock, At, grants
<1>0. task' = [task EXCEPT ![t] = Done] /\ task'[t] = Done
        /\ Done \in TaskType /\ Done.pc = "done" /\ Done.sibs = {} /\ Done.left = {} /\ Done.try = 1
  BY DoneFact DEF IInv, Shape, Done
<1>6. \A m \in Matches : lock[m] = t => m \in Covers(t)
  BY DEF IInv, Tidy, HasLock, Tasks, Live
<1>7. /\ lock' \in [Matches -> Tasks \cup {Nobody}]
      /\ \A u \in Tasks : \A m \in Matches : u # t => (lock'[m] = u <=> lock[m] = u)
      /\ \A m \in Matches : lock'[m] # t
  BY <1>6, UnlockedFact
<1>10. task' \in [Tasks -> TaskType]
  BY <1>0 DEF IInv, Shape
<1>1. Own(t)
  BY <1>0, <1>7 DEF Own, IInv, Shape, Sizes
<1>2. Shape'
  BY <1>7, <1>10 DEF IInv, Shape
<1>3. WithinSizes'
  BY DEF IInv, WithinSizes
<1>4. Neat(t)' /\ (Busy(t)' => Busy(t) /\ task'[t].sibs \subseteq task[t].sibs) /\ pending' = pending
  BY <1>0, <1>7 DEF IInv, GroupsNeat, Neat, Busy, Shape, Sizes
<1>5. Tidy(t) /\ (t \notin overran => Has(t)) /\ Neat(t) /\ overran' = overran
  BY DEF IInv, GroupsNeat
<1>8. Tidy(t)'
  BY <1>5, <1>0, <1>7 DEF Tidy, HasLock, Covers, Sizes
<1>9. t \notin overran' => Has(t)'
  BY <1>5, <1>0, <1>7 DEF Has, HasLock, Covers, Sizes
<1> QED BY StepOK, <1>1, <1>2, <1>3, <1>4, <1>8, <1>9

\* Matches that leave a group for the queue are in one place again.
LEMMA QueueEject ==
  ASSUME IInv, NEW t \in Tasks, Own(t), Busy(t), NEW q \in Seq(Items), Apart(q),
         Covers(t)' \subseteq Covers(t),
         \A i \in 1 .. Len(q) : Group(q[i]) \subseteq Covers(t) /\ Group(q[i]) \cap Covers(t)' = {},
         pending' = [pending EXCEPT ![t[1]] = q \o @]
  PROVE  QueueApart' /\ QueuedNotBusy' /\ BusyApart' /\ pending' \in [Runs -> Seq(Items)]
<1> DEFINE s == pending[t[1]]
           z == q \o s
<1>1. t[1] \in Runs /\ s \in Seq(Items) /\ pending \in [Runs -> Seq(Items)] /\ Apart(s)
  BY DEF IInv, Shape, QueueApart, Tasks
<1>2. \A i \in 1 .. Len(q), j \in 1 .. Len(s) : Group(q[i]) \cap Group(s[j]) = {}
  BY DEF IInv, QueuedNotBusy
<1>3. Apart(z) /\ z \in Seq(Items)
  <2> HIDE DEF s
  <2>1. z \in Seq(Items)
    BY <1>1
  <2>2. Apart(q \o s)
    BY <1>1, <1>2, JoinApart
  <2> QED BY <2>1, <2>2
<1>4. \A k \in 1 .. Len(z) : \/ \E i \in 1 .. Len(q) : z[k] = q[i]
                             \/ \E j \in 1 .. Len(s) : z[k] = s[j]
  <2>1. /\ Len(q) \in Nat /\ Len(s) \in Nat /\ Len(z) = Len(q) + Len(s)
        /\ \A k \in 1 .. Len(z) : z[k] = IF k <= Len(q) THEN q[k] ELSE s[k - Len(q)]
    BY <1>1
  <2> HIDE DEF z, s
  <2> TAKE k \in 1 .. Len(z)
  <2>2. CASE k <= Len(q)
    BY <2>1, <2>2
  <2>3. CASE ~(k <= Len(q))
    <3>1. k - Len(q) \in 1 .. Len(s)
      BY <2>1, <2>3
    <3> QED BY <2>1, <2>3, <3>1
  <2> QED BY <2>2, <2>3
<1>5. pending' \in [Runs -> Seq(Items)] /\ pending'[t[1]] = z
        /\ \A r \in Runs : r # t[1] => pending'[r] = pending[r]
  BY <1>1, <1>3
<1>6. QueueApart'
  BY <1>3, <1>5 DEF IInv, QueueApart
<1>7. \A u \in Tasks : Busy(u)' => Busy(u) /\ Covers(u)' \subseteq Covers(u)
  <2> SUFFICES ASSUME NEW u \in Tasks, Busy(u)' PROVE Busy(u) /\ Covers(u)' \subseteq Covers(u)
    OBVIOUS
  <2>1. CASE u = t
    BY <2>1
  <2>2. CASE u # t
    BY <2>2 DEF Own, Covers, Busy
  <2> QED BY <2>1, <2>2
<1>8. BusyApart'
  BY <1>7 DEF IInv, BusyApart
<1>9. QueuedNotBusy'
  <2> SUFFICES ASSUME NEW u \in Tasks, NEW k \in 1 .. Len(pending'[u[1]]), Busy(u)'
               PROVE Group(pending'[u[1]][k]) \cap Covers(u)' = {}
    BY DEF QueuedNotBusy
  <2>1. CASE u[1] # t[1]
    <3>1. pending'[u[1]] = pending[u[1]]
      BY <1>5, <2>1 DEF Tasks
    <3> QED BY <1>7, <3>1 DEF IInv, QueuedNotBusy
  <2>2. CASE u[1] = t[1]
    <3>1. k \in 1 .. Len(z) /\ pending'[u[1]][k] = z[k]
      BY <1>5, <2>2
    <3>2. CASE \E j \in 1 .. Len(s) : z[k] = s[j]
      BY <1>7, <2>2, <3>1, <3>2 DEF IInv, QueuedNotBusy
    <3>3. CASE \E i \in 1 .. Len(q) : z[k] = q[i]
      <4>1. PICK i \in 1 .. Len(q) : z[k] = q[i]
        BY <3>3
      <4>2. CASE u = t
        BY <3>1, <4>1, <4>2
      <4>3. CASE u # t
        <5>1. Covers(u) \cap Covers(t) = {} /\ Covers(u)' \subseteq Covers(u)
          BY <1>7, <2>2, <4>3 DEF IInv, BusyApart
        <5>2. Group(q[i]) \subseteq Covers(t)
          OBVIOUS
        <5> QED BY <3>1, <4>1, <5>1, <5>2
      <4> QED BY <4>2, <4>3
    <3> QED BY <1>4, <3>1, <3>2, <3>3
  <2> QED BY <2>1, <2>2
<1> QED BY <1>5, <1>6, <1>8, <1>9

\* A queue of one group.
LEMMA OneItem ==
  ASSUME NEW m \in Matches, NEW sibs \in SUBSET (Matches \ {m})
  PROVE  /\ <<[m |-> m, sibs |-> sibs]>> \in Seq(Items) /\ Apart(<<[m |-> m, sibs |-> sibs]>>)
         /\ Len(<<[m |-> m, sibs |-> sibs]>>) = 1
         /\ <<[m |-> m, sibs |-> sibs]>>[1] = [m |-> m, sibs |-> sibs]
BY DEF Items, Apart

LEMMA LockSiblingOK == ASSUME Sizes, IInv, NEW t \in Tasks, LockSibling(t) PROVE IInv'
<1> USE DEF At, grants
<1>5. /\ Tidy(t) /\ (t \notin overran => Has(t)) /\ Neat(t) /\ overran' = overran /\ task[t].pc = "sibs" /\ Live(t)
      /\ task[t] \in TaskType /\ lock \in [Matches -> Tasks \cup {Nobody}] /\ slot' = slot /\ lease' = lease /\ run' = run
      /\ row' = row /\ defers' = defers /\ lapses' = lapses /\ task \in [Tasks -> TaskType]
  BY DEF IInv, GroupsNeat, LockSibling, Shape
<1>6. PICK m \in task[t].left :
        \/ /\ lock[m] = Nobody
           /\ lock' = [lock EXCEPT ![m] = t]
           /\ task' = [task EXCEPT ![t].left = @ \ {m}]
           /\ pending' = pending
        \/ /\ lock[m] # Nobody
           /\ task' = [task EXCEPT ![t].left = @ \ {m}, ![t].sibs = @ \ {m}]
           /\ pending' = [pending EXCEPT ![t[1]] = <<[m |-> m, sibs |-> {}]>> \o @]
           /\ lock' = lock
  BY DEF LockSibling
<1>7. m \in Matches /\ m \in task[t].sibs /\ lock[m] # t
  BY <1>5 DEF TaskType, Neat, Tidy, HasLock
<1>1. CASE lock[m] = Nobody /\ lock' = [lock EXCEPT ![m] = t] /\ pending' = pending
             /\ task' = [task EXCEPT ![t].left = @ \ {m}]
  <2>0. task' = [task EXCEPT ![t] = task'[t]] /\ task'[t] \in TaskType
          /\ task'[t].pc = "sibs" /\ task'[t].sibs = task[t].sibs
          /\ task'[t].left = task[t].left \ {m} /\ task'[t].try = task[t].try
    BY <1>1, <1>5 DEF TaskType
  <2>6. \A n \in Matches : lock'[n] = IF n = m THEN t ELSE lock[n]
    BY <1>1, <1>5
  <2>1. Own(t)
    BY <1>1, <1>5, <1>7, <2>0, <2>6 DEF Own, Sizes
  <2>5. Shape' /\ WithinSizes'
    BY <1>1, <1>5, <1>7, <2>0 DEF IInv, Shape, WithinSizes
  <2>2. Neat(t)' /\ (Busy(t)' => Busy(t) /\ task'[t].sibs \subseteq task[t].sibs)
    BY <1>5, <2>0 DEF Neat, Busy
  <2>3. Tidy(t)'
    BY <1>1, <1>5, <1>7, <2>0, <2>6 DEF Tidy, HasLock, Covers
  <2>4. t \notin overran' => Has(t)'
    <3>1. Covers(t)' = Covers(t) /\ Covers(t) \subseteq Matches
      BY <1>5, <2>0 DEF Covers, TaskType, Tasks
    <3>2. ASSUME t \notin overran, NEW n \in Covers(t), n \notin task'[t].left PROVE lock'[n] = t
      <4>1. CASE n = m
        BY <1>7, <2>6, <4>1
      <4>2. CASE n # m
        BY <1>5, <2>0, <2>6, <3>1, <3>2, <4>2 DEF Has, HasLock
      <4> QED BY <4>1, <4>2
    <3>3. t \notin overran => t \in slot' /\ t \in lease'
      BY <1>5 DEF Has
    <3> QED BY <1>5, <2>0, <3>1, <3>2, <3>3 DEF Has, HasLock
  <2> QED BY StepOK, <1>1, <1>5, <2>1, <2>2, <2>3, <2>4, <2>5
<1>2. CASE /\ task' = [task EXCEPT ![t].left = @ \ {m}, ![t].sibs = @ \ {m}]
           /\ pending' = [pending EXCEPT ![t[1]] = <<[m |-> m, sibs |-> {}]>> \o @]
           /\ lock' = lock
  <2>0. task' = [task EXCEPT ![t] = task'[t]] /\ task'[t] \in TaskType
          /\ task'[t].pc = "sibs" /\ task'[t].sibs = task[t].sibs \ {m}
          /\ task'[t].left = task[t].left \ {m} /\ task'[t].try = task[t].try
    BY <1>2, <1>5 DEF TaskType
  <2>1. Own(t) /\ Busy(t)
    BY <1>2, <1>5, <2>0 DEF Own, Busy
  <2>2. WithinSizes' /\ Idle'
    BY <1>5, <2>1 DEF IInv, WithinSizes, Idle, Own, Busy
  <2>3. QueueApart' /\ QueuedNotBusy' /\ BusyApart' /\ pending' \in [Runs -> Seq(Items)]
    <3> DEFINE q == <<[m |-> m, sibs |-> {}]>>
    <3>1. q \in Seq(Items) /\ Apart(q) /\ Len(q) = 1 /\ q[1] = [m |-> m, sibs |-> {}]
      BY <1>7, OneItem
    <3>2. Covers(t)' \subseteq Covers(t) /\ m \in Covers(t) /\ m \notin Covers(t)'
      BY <1>5, <1>7, <2>0 DEF Covers, Neat
    <3>3. \A i \in 1 .. Len(q) : Group(q[i]) \subseteq Covers(t) /\ Group(q[i]) \cap Covers(t)' = {}
      BY <3>1, <3>2 DEF Group
    <3>4. pending' = [pending EXCEPT ![t[1]] = q \o @]
      BY <1>2
    <3> HIDE DEF q
    <3> QED BY <2>1, <3>1, <3>2, <3>3, <3>4, QueueEject
  <2>4. Shape'
    BY <1>2, <1>5, <2>0, <2>3 DEF IInv, Shape
  <2>5. Neat(t)'
    BY <1>5, <2>0 DEF Neat
  <2>6. Tidy(t)'
    BY <1>2, <1>5, <1>7, <2>0 DEF Tidy, HasLock, Covers
  <2>7. t \notin overran' => Has(t)'
    <3>1. Covers(t)' \subseteq Covers(t) \ {m}
      BY <1>5, <1>7, <2>0 DEF Covers, Neat
    <3>2. ASSUME t \notin overran, NEW n \in Covers(t)', n \notin task'[t].left PROVE lock'[n] = t
      <4>1. n \in Covers(t) /\ n \notin task[t].left
        BY <2>0, <3>1, <3>2
      <4> QED BY <1>2, <1>5, <3>2, <4>1 DEF Has, HasLock
    <3>3. t \notin overran => t \in slot' /\ t \in lease'
      BY <1>5 DEF Has
    <3> QED BY <1>5, <2>0, <3>2, <3>3 DEF Has, HasLock
  <2> QED BY <2>1, <2>2, <2>3, <2>4, <2>5, <2>6, <2>7, NeatKept, OthersOK DEF IInv
<1> QED BY <1>1, <1>2, <1>6

LEMMA NotDispatchedOK == ASSUME Sizes, IInv, NEW t \in Tasks, NotDispatched(t) PROVE IInv'
<1> USE DEF At, grants
<1>5. /\ Tidy(t) /\ Neat(t) /\ overran' = overran /\ task[t].pc = "lock" /\ task[t].try = 1 /\ Live(t)
      /\ task[t] \in TaskType /\ slot' = slot \ {t} /\ lease' = lease \ {t} /\ run' = run
      /\ row' = row /\ defers' = defers /\ lapses' = lapses /\ task \in [Tasks -> TaskType] /\ lock' = lock
  BY DEF IInv, GroupsNeat, NotDispatched, Shape
<1>6. PICK f \in SetToSeqs(task[t].sibs) :
        pending' = [pending EXCEPT ![t[1]] = [i \in DOMAIN f |-> [m |-> f[i], sibs |-> {}]] \o @]
  BY DEF NotDispatched
<1> DEFINE c == Cardinality(task[t].sibs)
           q == [i \in DOMAIN f |-> [m |-> f[i], sibs |-> {}]]
<1>7. c \in Nat
  BY <1>5, FS_Subset, FS_CardinalityType DEF TaskType, Sizes
<1>8. /\ f \in [1 .. c -> task[t].sibs] /\ DOMAIN f = 1 .. c
      /\ \A i, j \in 1 .. c : i # j => f[i] # f[j]
  BY DEF SetToSeqs
<1>9. /\ q \in Seq(Items) /\ Len(q) = c
      /\ \A i \in 1 .. c : q[i].m = f[i] /\ q[i].sibs = {}
  <2>1. \A i \in 1 .. c : f[i] \in Matches
    BY <1>5, <1>8 DEF TaskType
  <2>2. q = [i \in 1 .. c |-> [m |-> f[i], sibs |-> {}]]
    BY <1>8
  <2>3. \A i \in 1 .. c : [m |-> f[i], sibs |-> {}] \in Items
    BY <2>1 DEF Items
  <2> HIDE DEF c
  <2> QED BY <1>7, <2>2, <2>3
<1> HIDE DEF c, q
<1>10. Apart(q)
  BY <1>8, <1>9 DEF Apart, Group
<1>0. task' = [task EXCEPT ![t] = task'[t]] /\ task'[t] \in TaskType
        /\ task'[t].pc = "flush" /\ task'[t].sibs = {} /\ task'[t].left = task[t].left
        /\ task'[t].try = task[t].try /\ task'[t].code # "ok"
  BY <1>5 DEF TaskType, NotDispatched
<1>1. Own(t) /\ Busy(t)
  BY <1>5, <1>0 DEF Own, Busy, IInv, Shape
<1>2. WithinSizes' /\ Idle'
  BY <1>5, <1>1, CountKept DEF IInv, Idle, Own, Busy
<1>3. QueueApart' /\ QueuedNotBusy' /\ BusyApart' /\ pending' \in [Runs -> Seq(Items)]
  <2>1. Covers(t)' = {t[2]} /\ Covers(t) = {t[2]} \cup task[t].sibs
    BY <1>0 DEF Covers
  <2>2. \A i \in 1 .. Len(q) : Group(q[i]) \subseteq Covers(t) /\ Group(q[i]) \cap Covers(t)' = {}
    BY <1>5, <1>8, <1>9, <2>1 DEF Group, Neat
  <2>3. pending' = [pending EXCEPT ![t[1]] = q \o @]
    BY <1>6 DEF q
  <2> QED BY <1>1, <1>9, <1>10, <2>1, <2>2, <2>3, QueueEject
<1>4. Shape'
  BY <1>5, <1>0, <1>3 DEF IInv, Shape
<1>12. Neat(t)'
  BY <1>5, <1>0 DEF Neat
<1>13. Tidy(t)' /\ Has(t)'
  BY <1>5, <1>0 DEF Tidy, Has, HasLock, Covers
<1> QED BY <1>1, <1>2, <1>3, <1>4, <1>12, <1>13, NeatKept, OthersOK DEF IInv

LEMMA LoadOK == ASSUME Sizes, IInv, NEW r \in Runs, Load(r) PROVE IInv'
<1> DEFINE open == {m \in Matches : row[m] \notin Terminal}
<1> USE DEF grants
<1>1. /\ run[r] = "off" /\ run' = [run EXCEPT ![r] = "on"] /\ task' = task /\ slot' = slot /\ lease' = lease
      /\ lock' = lock /\ defers' = defers /\ lapses' = lapses /\ overran' = overran /\ row' = Mark(open, "STARTED")
      /\ \/ pending' = pending
         \/ \E m \in open : pending' = [pending EXCEPT ![r] = <<[m |-> m, sibs |-> open \ {m}]>>]
  BY DEF Load
<1>2. run \in [Runs -> {"off", "on", "over", "dead"}] /\ pending \in [Runs -> Seq(Items)]
  BY DEF IInv, Shape
<1>3. \A t \in Tasks : t[1] = r => ~Busy(t)
  BY <1>1 DEF IInv, Idle
<1>4. \A m \in open : LET q == <<[m |-> m, sibs |-> open \ {m}]>> IN q \in Seq(Items) /\ Apart(q)
  <2> SUFFICES ASSUME NEW m \in open
               PROVE LET q == <<[m |-> m, sibs |-> open \ {m}]>> IN q \in Seq(Items) /\ Apart(q)
    OBVIOUS
  <2>1. m \in Matches /\ open \ {m} \in SUBSET (Matches \ {m})
    OBVIOUS
  <2> HIDE DEF open
  <2> QED BY <2>1, OneItem
<1>5. pending' \in [Runs -> Seq(Items)] /\ QueueApart' /\ (\A s \in Runs : s # r => pending'[s] = pending[s])
  <2>1. CASE pending' = pending
    BY <1>2, <2>1 DEF IInv, QueueApart
  <2>2. CASE \E m \in open : pending' = [pending EXCEPT ![r] = <<[m |-> m, sibs |-> open \ {m}]>>]
    <3>1. PICK m \in open : pending' = [pending EXCEPT ![r] = <<[m |-> m, sibs |-> open \ {m}]>>]
      BY <2>2
    <3> DEFINE q == <<[m |-> m, sibs |-> open \ {m}]>>
    <3>2. q \in Seq(Items) /\ Apart(q)
      BY <1>4
    <3>3. pending' = [pending EXCEPT ![r] = q]
      BY <3>1
    <3> HIDE DEF q
    <3> QED BY <1>2, <3>2, <3>3 DEF IInv, QueueApart
  <2> QED BY <1>1, <2>1, <2>2
<1>6. "STARTED" \in RowType
  BY DEF RowType
<1>7. row' \in [Matches -> RowType]
  BY <1>1, <1>6, MarkFact
<1>8. Shape'
  BY <1>1, <1>2, <1>5, <1>7 DEF IInv, Shape
<1>9. Idle' /\ BusyApart' /\ GroupsNeat' /\ WithinSizes'
  BY <1>1, <1>2 DEF IInv, Idle, BusyApart, GroupsNeat, WithinSizes, Busy, Covers, Neat
<1>10. QueuedNotBusy'
  <2> SUFFICES ASSUME NEW t \in Tasks, NEW i \in 1 .. Len(pending'[t[1]]), Busy(t)'
               PROVE Group(pending'[t[1]][i]) \cap Covers(t)' = {}
    BY DEF QueuedNotBusy
  <2>1. Busy(t) /\ t[1] # r /\ t[1] \in Runs
    BY <1>1, <1>3 DEF Busy, Tasks
  <2>2. pending'[t[1]] = pending[t[1]] /\ Covers(t)' = Covers(t)
    BY <1>1, <1>5, <2>1 DEF Covers
  <2> QED BY <2>1, <2>2 DEF IInv, QueuedNotBusy
<1>11. \A t \in Tasks : Live(t)' => Tidy(t)' /\ (t \notin overran' => Has(t)')
  <2> SUFFICES ASSUME NEW t \in Tasks, Live(t)' PROVE Tidy(t)' /\ (t \notin overran' => Has(t)')
    OBVIOUS
  <2>1. Live(t)
    BY <1>1, <1>2 DEF Live, Tasks
  <2>2. Tidy(t) /\ (t \notin overran => Has(t))
    BY <2>1 DEF IInv
  <2> QED BY <1>1, <2>2 DEF Tidy, Has, HasLock, Covers
<1> QED BY <1>5, <1>8, <1>9, <1>10, <1>11 DEF IInv

LEMMA NextTargetOK == ASSUME Sizes, IInv, NEW r \in Runs, NextTarget(r) PROVE IInv'
<1> USE DEF grants
<1> DEFINE s == pending[r]
<1> PICK p : p = Head(s)
  OBVIOUS
<1> DEFINE t == <<r, p.m>>
<1>1. /\ run[r] = "on" /\ s # <<>> /\ task' = [task EXCEPT ![t] = [NoTask EXCEPT !.pc = "prepare", !.sibs = p.sibs]]
      /\ pending' = [pending EXCEPT ![r] = Tail(@)] /\ run' = run /\ row' = row /\ slot' = slot /\ lease' = lease
      /\ lock' = lock /\ defers' = defers /\ lapses' = lapses /\ overran' = overran
  BY DEF NextTarget
<1>2. /\ s \in Seq(Items) /\ Apart(s) /\ pending \in [Runs -> Seq(Items)] /\ task \in [Tasks -> TaskType]
      /\ run \in [Runs -> {"off", "on", "over", "dead"}]
  BY DEF IInv, Shape, QueueApart
<1>3. /\ Tail(s) \in Seq(Items) /\ p \in Items /\ p.m \notin p.sibs /\ Apart(Tail(s))
      /\ \A i \in 1 .. Len(Tail(s)) : Group(Tail(s)[i]) \cap Group(p) = {}
                 /\ \E j \in 1 .. Len(s) : Tail(s)[i] = s[j]
  <2> HIDE DEF s
  <2> QED BY <1>1, <1>2, TailApart
<1>4. 1 \in 1 .. Len(s) /\ p = s[1]
  <2> HIDE DEF s
  <2> QED BY <1>1, <1>2
<1>5. p.m \in Matches /\ p.sibs \subseteq Matches /\ t \in Tasks /\ t[1] = r /\ t[2] = p.m
  BY <1>3 DEF Items, Tasks
<1> HIDE DEF t, s
<1>6. ~Busy(t)
  <2>1. p.m \in Group(p) \cap Covers(t)
    BY <1>5 DEF Group, Covers
  <2> QED BY <1>4, <1>5, <2>1 DEF IInv, QueuedNotBusy, s
<1>7. Live(t) /\ Live(t)'
  BY <1>1, <1>5 DEF Live
<1>8. Tidy(t) /\ Neat(t)
  BY <1>5, <1>7 DEF IInv, GroupsNeat
<1>9. task[t].try = 1 /\ task[t].pc \in {"none", "done"}
  BY <1>6, <1>8 DEF Neat, Busy
<1>10. t \notin slot /\ t \notin lease /\ \A m \in Matches : lock[m] # t
  BY <1>8, <1>9 DEF Tidy, HasLock
<1>11. task'[t] = [pc |-> "prepare", sibs |-> p.sibs, left |-> {}, try |-> 1, requeues |-> 0, code |-> "ok"]
  BY <1>1, <1>2, <1>5 DEF NoTask
<1>12. task'[t] \in TaskType
  BY <1>5, <1>11 DEF TaskType, Sizes
<1>13. Own(t) /\ \A u \in Tasks : u # t => Covers(u)' = Covers(u) /\ (Busy(u)' <=> Busy(u))
  BY <1>1, <1>2, <1>5 DEF Own, Covers, Busy
<1>14. Covers(t)' = Group(p)
  BY <1>5, <1>11 DEF Covers, Group
<1>15. pending'[r] = Tail(s) /\ pending' \in [Runs -> Seq(Items)] /\ \A x \in Runs : x # r => pending'[x] = pending[x]
  BY <1>1, <1>2, <1>3 DEF s
<1>16. \A u \in Tasks : u # t /\ u[1] = r /\ Busy(u) => Covers(u) \cap Group(p) = {}
  BY <1>4 DEF IInv, QueuedNotBusy, s
<1>17. Shape'
  BY <1>1, <1>2, <1>12, <1>15 DEF IInv, Shape
<1>18. QueueApart'
  BY <1>3, <1>15 DEF IInv, QueueApart
<1>19. BusyApart'
  <2> SUFFICES ASSUME NEW u \in Tasks, NEW v \in Tasks, u # v, u[1] = v[1], Busy(u)', Busy(v)'
               PROVE Covers(u)' \cap Covers(v)' = {}
    BY DEF BusyApart
  <2>1. CASE u = t
    BY <1>5, <1>13, <1>14, <1>16, <2>1
  <2>2. CASE v = t
    BY <1>5, <1>13, <1>14, <1>16, <2>2
  <2>3. CASE u # t /\ v # t
    BY <1>13, <2>3 DEF IInv, BusyApart
  <2> QED BY <2>1, <2>2, <2>3
<1>20. QueuedNotBusy'
  <2> SUFFICES ASSUME NEW u \in Tasks, NEW i \in 1 .. Len(pending'[u[1]]), Busy(u)'
               PROVE Group(pending'[u[1]][i]) \cap Covers(u)' = {}
    BY DEF QueuedNotBusy
  <2>1. CASE u[1] # r
    <3>1. pending'[u[1]] = pending[u[1]] /\ u # t
      BY <1>5, <1>15, <2>1 DEF Tasks
    <3> QED BY <1>13, <3>1 DEF IInv, QueuedNotBusy
  <2>2. CASE u[1] = r
    <3>1. i \in 1 .. Len(Tail(s)) /\ pending'[u[1]][i] = Tail(s)[i]
      BY <1>15, <2>2
    <3>2. CASE u = t
      BY <1>3, <1>14, <3>1, <3>2
    <3>3. CASE u # t
      <4>1. PICK j \in 1 .. Len(s) : Tail(s)[i] = s[j]
        BY <1>3, <3>1
      <4>2. Busy(u) /\ Covers(u)' = Covers(u)
        BY <1>13, <3>3
      <4>3. Group(s[j]) \cap Covers(u) = {}
        BY <2>2, <4>2 DEF IInv, QueuedNotBusy, s
      <4> QED BY <3>1, <4>1, <4>2, <4>3
    <3> QED BY <3>2, <3>3
  <2> QED BY <2>1, <2>2
<1>21. Idle'
  BY <1>1, <1>5, <1>13 DEF IInv, Idle
<1>22. WithinSizes'
  BY <1>1 DEF IInv, WithinSizes
<1>23. Neat(t)'
  BY <1>3, <1>5, <1>11 DEF Neat
<1>24. Tidy(t)' /\ Has(t)'
  <2>1. task'[t].pc = "prepare" /\ task'[t].try = 1
    BY <1>11
  <2>2. t \notin slot' /\ t \notin lease' /\ \A m \in Matches : lock'[m] # t
    BY <1>1, <1>10
  <2> QED BY <2>1, <2>2 DEF Tidy, Has, HasLock
<1> QED BY <1>5, <1>13, <1>17, <1>18, <1>19, <1>20, <1>21, <1>22, <1>23, <1>24, NeatKept, OthersOK DEF IInv

LEMMA RunEndsOK == ASSUME Sizes, IInv, NEW r \in Runs, Finish(r) \/ Crash(r) PROVE IInv'
<1>1. /\ run[r] = "on" /\ \E x \in {"over", "dead"} : run' = [run EXCEPT ![r] = x]
      /\ task' = task /\ pending' = pending /\ row' = row /\ slot' = slot /\ lease' = lease
      /\ lock' = lock /\ defers' = defers /\ lapses' = lapses /\ overran' = overran
  BY DEF Finish, Crash, grants
<1>2. run \in [Runs -> {"off", "on", "over", "dead"}]
  BY DEF IInv, Shape
<1>3. Shape' /\ WithinSizes'
  BY <1>1, <1>2 DEF IInv, Shape, WithinSizes
<1>5. Idle'
  BY <1>1, <1>2 DEF IInv, Idle, Busy
<1>6. QueueApart' /\ QueuedNotBusy' /\ BusyApart' /\ GroupsNeat'
  BY <1>1 DEF IInv, QueueApart, QueuedNotBusy, BusyApart, GroupsNeat, Busy, Covers, Neat
<1>4. \A t \in Tasks : Live(t)' => Tidy(t)' /\ (t \notin overran' => Has(t)')
  <2> SUFFICES ASSUME NEW t \in Tasks, Live(t)' PROVE Tidy(t)' /\ (t \notin overran' => Has(t)')
    OBVIOUS
  <2>1. Live(t)
    BY <1>1, <1>2 DEF Live, Tasks
  <2>2. Tidy(t) /\ (t \notin overran => Has(t))
    BY <2>1 DEF IInv
  <2> QED BY <1>1, <2>2 DEF Tidy, Has, HasLock, Covers
<1> QED BY <1>3, <1>4, <1>5, <1>6 DEF IInv

LEMMA LapseOK == ASSUME Sizes, IInv, NEW t \in Tasks, Lapse(t) PROVE IInv'
<1>1. /\ task' = task /\ pending' = pending /\ row' = row /\ run' = run /\ defers' = defers
      /\ lapses' = lapses + 1 /\ overran' = Overrun(t)
      /\ slot' \in {slot, slot \ {t}} /\ lease' \in {lease, lease \ {t}}
      /\ lock' = lock \/ \E m \in Matches : lock[m] = t /\ lock' = [lock EXCEPT ![m] = Nobody]
  BY DEF Lapse, HasLock
<1>2. lock \in [Matches -> Tasks \cup {Nobody}] /\ lapses \in Nat /\ overran \subseteq Tasks
        /\ slot \subseteq Tasks /\ lease \subseteq Tasks
  BY DEF IInv, Shape
<1>3. /\ lock' \in [Matches -> Tasks \cup {Nobody}] /\ overran' \subseteq Tasks /\ overran \subseteq overran'
      /\ t \notin overran' => ~InUse(t)
      /\ \A m \in Matches : lock'[m] = lock[m] \/ (lock[m] = t /\ lock'[m] = Nobody)
  BY <1>1, <1>2 DEF Overrun
<1>4. Shape'
  BY <1>1, <1>2, <1>3 DEF IInv, Shape
<1>7. Idle' /\ QueueApart' /\ QueuedNotBusy' /\ BusyApart' /\ GroupsNeat'
  BY <1>1 DEF IInv, Idle, QueueApart, QueuedNotBusy, BusyApart, GroupsNeat, Busy, Covers, Neat
<1>5. WithinSizes'
  BY <1>1, CountKept
<1>6. \A u \in Tasks : Live(u)' => Tidy(u)' /\ (u \notin overran' => Has(u)')
  <2> SUFFICES ASSUME NEW u \in Tasks, Live(u)' PROVE Tidy(u)' /\ (u \notin overran' => Has(u)')
    OBVIOUS
  <2>1. Live(u)
    BY <1>1 DEF Live
  <2>2. Tidy(u) /\ (u \notin overran => Has(u))
    BY <2>1 DEF IInv
  <2>3. Tidy(u)'
    BY <1>1, <1>3, <2>2 DEF Tidy, HasLock, Covers, Sizes
  <2>4. ASSUME u \notin overran' PROVE Has(u)'
    <3>1. CASE u = t
      <4>1. task[u].pc \in {"none", "done"}
        BY <1>3, <2>1, <2>4, <3>1 DEF InUse
      <4> QED BY <1>1, <4>1 DEF Has, Covers
    <3>2. CASE u # t
      <4>1. Has(u) /\ Covers(u) \subseteq Matches
        BY <1>3, <2>2, <2>4 DEF IInv, Shape, TaskType, Tasks, Covers
      <4>2. \A m \in Matches : HasLock(u, m) => HasLock(u, m)'
        BY <1>3, <3>2 DEF HasLock
      <4>3. (u \in slot => u \in slot') /\ (u \in lease => u \in lease') /\ Covers(u)' = Covers(u)
        BY <1>1, <3>2 DEF Covers
      <4> QED BY <1>1, <4>1, <4>2, <4>3 DEF Has
    <3> QED BY <3>1, <3>2
  <2> QED BY <2>3, <2>4
<1> QED BY <1>4, <1>5, <1>6, <1>7 DEF IInv

\* Every step keeps the invariant.
LEMMA InvStep == ASSUME Sizes, IInv, [Next]_vars PROVE IInv'
<1>1. ASSUME NEW r \in Runs, Load(r) \/ NextTarget(r) \/ Finish(r) \/ Crash(r) PROVE IInv'
  BY <1>1, LoadOK, NextTargetOK, RunEndsOK
<1>2. ASSUME NEW t \in Tasks, Step(t) PROVE IInv'
  BY <1>2, PrepareOK, PrepareLimitedOK, PrepareBreakerOpenOK, PrepareUnresolvedOK, PrepareRefusedOK,
     AcquireSlotOK, SlotDeniedOK, AcquireLeaseOK, LeaseDeniedOK, AcquireLockOK, NotDispatchedOK,
     LockSiblingOK, SendOK, ParseOK, ErrbackOK, FlushCommitOK, FlushUnlockOK DEF Step
<1>3. ASSUME NEW t \in Tasks, Lapse(t) PROVE IInv'
  BY <1>3, LapseOK
<1>4. CASE UNCHANGED vars
  BY <1>4 DEF vars, IInv, Shape, Idle, QueueApart, QueuedNotBusy, BusyApart, GroupsNeat, WithinSizes, Busy, Covers, Neat,
              Tidy, Has, HasLock, Live
<1> QED BY <1>1, <1>2, <1>3, <1>4 DEF Next

\* The invariant holds in every reachable state.
LEMMA Inductive == ASSUME Sizes PROVE Spec => []IInv
<1>1. Init => IInv
  BY InitOK
<1>2. IInv /\ [Next]_vars => IInv'
  BY InvStep
<1> QED BY <1>1, <1>2, PTL DEF Spec

\* Every variable keeps its type and every group lists other matches than its fetcher.
THEOREM TypesHold == ASSUME Sizes PROVE Spec => []TypeOK
<1>1. IInv => TypeOK
  <2> SUFFICES ASSUME IInv PROVE TypeOK
    OBVIOUS
  <2>1. \A r \in Runs : \A i \in DOMAIN pending[r] : pending[r][i].m \in Matches
    <3>1. \A r \in Runs : pending[r] \in Seq(Items)
      BY DEF IInv, Shape
    <3>2. \A s \in Seq(Items) : \A i \in DOMAIN s : s[i] \in Items
      OBVIOUS
    <3> QED BY <3>1, <3>2 DEF Items
  <2>2. \A t \in Tasks : task[t] \in TaskType /\ t[2] \notin task[t].sibs
    BY DEF IInv, Shape, GroupsNeat, Neat
  <2> QED BY <2>1, <2>2 DEF IInv, Shape, TypeOK, TaskType, RowType
<1> QED BY <1>1, Inductive, PTL

\* For any number of runs and matches and any caps, a live run holds a slot, a lease or a
\* lock only for a request it is admitting, fetching or committing (NoLeak): every way out of the
\* gates, the errback and the ejection of siblings give back what was taken.
THEOREM GrantsReturn == ASSUME Sizes PROVE Spec => []NoLeak
<1>1. IInv => NoLeak
  BY DEF IInv, Tidy, NoLeak
<1> QED BY <1>1, Inductive, PTL

\* Two live requests whose grants did not lapse never work on the same match, from the fetch
\* to the commit of its result: the match lock of dispatch_admission, kept over retries, is enough.
THEOREM OneFetch == ASSUME Sizes PROVE Spec => []OneFetchPerMatch
<1>1. IInv => OneFetchPerMatch
  <2> SUFFICES ASSUME IInv, NEW t \in Tasks \ overran, NEW u \in Tasks \ overran, NEW m \in Matches,
                      t # u, Fetching(t, m), Fetching(u, m)
               PROVE FALSE
    BY DEF OneFetchPerMatch
  <2>1. Has(t) /\ Has(u)
    BY DEF IInv, Fetching
  <2>2. HasLock(t, m) /\ HasLock(u, m)
    BY <2>1 DEF Has, Fetching
  <2> QED BY <2>2 DEF HasLock
<1> QED BY <1>1, Inductive, PTL

\* The requests in flight whose grants did not lapse never exceed the workspace's slots nor
\* the fleet's leases (acquire_permission, admit_fleet).
THEOREM FlightBounded == ASSUME Sizes PROVE Spec => []InFlightBounded
<1>1. IInv => InFlightBounded
  <2> SUFFICES ASSUME IInv PROVE InFlightBounded
    OBVIOUS
  <2> DEFINE flying == {t \in Tasks \ overran : Live(t) /\ task[t].pc = "fetch"}
  <2>1. flying \subseteq slot /\ flying \subseteq lease
    BY DEF IInv, Has
  <2>2. Cardinality(flying) <= Cardinality(slot) /\ Cardinality(flying) <= Cardinality(lease)
           /\ IsFiniteSet(flying)
    BY <2>1, FS_Subset DEF IInv, WithinSizes
  <2>3. Cardinality(flying) \in Nat /\ Cardinality(slot) \in Nat /\ Cardinality(lease) \in Nat
    BY <2>2, FS_CardinalityType DEF IInv, WithinSizes
  <2>4. Cardinality(flying) <= Slots /\ Cardinality(flying) <= Leases
    BY <2>2, <2>3 DEF IInv, WithinSizes, Sizes
  <2> QED BY <2>4 DEF InFlightBounded
<1> QED BY <1>1, Inductive, PTL

\* A lock is freed by a step of the task whose token it holds, or by time (release_lock's
\* compare-and-delete).
THEOREM Fenced == ASSUME Sizes PROVE Spec => FencedRelease
<1>1. IInv /\ [Next]_vars => FencedReleaseStep
  <2> SUFFICES ASSUME IInv, [Next]_vars, NEW m \in Matches, lock[m] # Nobody, lock'[m] # lock[m], lapses' = lapses
               PROVE task'[lock[m]] # task[lock[m]]
    BY DEF FencedReleaseStep
  <2>1. \A t : ~Lapse(t)
    BY DEF Lapse, IInv, Shape
  <2>2. PICK t \in Tasks : Step(t)
    BY <2>1 DEF Next, vars, Load, NextTarget, Finish, Crash, grants
  <2>3. CASE AcquireLock(t) \/ LockSibling(t)
    BY <2>3 DEF AcquireLock, LockSibling, IInv, Shape
  <2>4. CASE PrepareLimited(t) \/ SlotDenied(t) \/ LeaseDenied(t)
    <3>1. task[t].pc \in {"prepare", "slot", "fleet"} /\ Denied(t) /\ Live(t)
      BY <2>4 DEF PrepareLimited, SlotDenied, LeaseDenied, At
    <3>2. lock' = Unlocked(t, Covers(t)) /\ task' = [task EXCEPT ![t] = Done]
      BY <3>1 DEF Denied, Done
    <3>3. lock[m] = t /\ task'[t].pc = "done"
      BY <3>2 DEF Unlocked, HasLock, IInv, Shape, Done, NoTask
    <3> QED BY <3>1, <3>3
  <2>5. CASE FlushUnlock(t)
    <3>1. task[t].pc = "unlock" /\ lock' = Unlocked(t, Covers(t)) /\ task' = [task EXCEPT ![t] = Done]
      BY <2>5 DEF FlushUnlock, At, Done
    <3>3. lock[m] = t /\ task'[t].pc = "done"
      BY <3>1 DEF Unlocked, HasLock, IInv, Shape, Done, NoTask
    <3> QED BY <3>1, <3>3
  <2> QED BY <2>2, <2>3, <2>4, <2>5 DEF Step, Prepare, PrepareBreakerOpen, PrepareUnresolved, PrepareRefused,
       AcquireSlot, AcquireLease, NotDispatched, Send, Parse, Errback, FlushCommit, grants
<1>2. IInv /\ [Next]_vars => [FencedReleaseStep]_vars
  BY <1>1
<1> QED BY <1>2, Inductive, PTL DEF Spec, FencedRelease

\* No step frees a lock whose page is fetched and not yet committed, save time (_flush_batch
\* commits before it releases).
THEOREM CommittedFirst == ASSUME Sizes PROVE Spec => CommitBeforeUnlock
<1>1. IInv /\ [Next]_vars => CommitBeforeUnlockStep
  <2> SUFFICES ASSUME IInv, [Next]_vars, NEW t \in Tasks, NEW m \in Matches, Live(t), HasLock(t, m),
                      task[t].pc = "flush", lock'[m] # t, lapses' = lapses
               PROVE FALSE
    BY DEF CommitBeforeUnlockStep
  <2>1. \A u : ~Lapse(u)
    BY DEF Lapse, IInv, Shape
  <2>2. PICK u \in Tasks : Step(u)
    BY <2>1 DEF Next, vars, Load, NextTarget, Finish, Crash, grants, HasLock
  <2>3. CASE AcquireLock(u) \/ LockSibling(u)
    BY <2>3 DEF AcquireLock, LockSibling, IInv, Shape, HasLock, Sizes
  <2>4. CASE PrepareLimited(u) \/ SlotDenied(u) \/ LeaseDenied(u) \/ FlushUnlock(u)
    <3>1. task[u].pc # "flush" /\ lock' \in {lock, Unlocked(u, Covers(u))}
      BY <2>4 DEF PrepareLimited, SlotDenied, LeaseDenied, FlushUnlock, At, Denied
    <3> QED BY <3>1 DEF Unlocked, HasLock
  <2> QED BY <2>2, <2>3, <2>4 DEF Step, Prepare, PrepareBreakerOpen, PrepareUnresolved, PrepareRefused,
       AcquireSlot, AcquireLease, NotDispatched, Send, Parse, Errback, FlushCommit, grants, HasLock
<1>2. IInv /\ [Next]_vars => [CommitBeforeUnlockStep]_vars
  BY <1>1
<1> QED BY <1>2, Inductive, PTL DEF Spec, CommitBeforeUnlock
==============================================================================
