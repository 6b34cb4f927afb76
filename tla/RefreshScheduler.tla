---------------------------- MODULE RefreshScheduler ----------------------------
(***************************************************************************)
(* The scheduler's refresh pass: replicas of the scheduler process poll    *)
(* refresh_rules for rows that are due, create one scrape job per firing   *)
(* and advance next_run_at.  Two passes exist, chosen per process by       *)
(* SCHEDULER_FAIR_QUEUE_ENABLED: the claim loop of refresh.py and the      *)
(* fair pass, which loads candidates first, asks a gate, fires each rule   *)
(* by id under FOR UPDATE SKIP LOCKED and keeps an in-process RetryLedger. *)
(* Every failure is recorded in a transaction of its own, after the firing *)
(* transaction has rolled back, and the row is not locked in between.      *)
(* Tenants create, edit and delete rules while passes run.  The order of   *)
(* a plan is FairQueue's subject; here a plan is any set of due rules.     *)
(***************************************************************************)
EXTENDS Naturals, FiniteSets

CONSTANTS Rules, Replicas, Interval, BackoffBase, BackoffMax, Batch,
          MaxAttempts, MaxNow, MaxFaults, MaxCrashes, MaxEdits

Nil == "none"

VARIABLES now,      \* the clock
          rule,     \* refresh_rules: the durable rows
          row,      \* the replica whose transaction holds the row lock
          occ,      \* refresh_rule_occurrences: claimed (rule, scheduled_for)
          pass,     \* each replica's pass in progress
          ledger,   \* each replica's RetryLedger
          fair,     \* replicas with SCHEDULER_FAIR_QUEUE_ENABLED
          late,     \* ghost: rules whose backoff was written over a row no longer due
          faults,   \* denials and exceptions so far, bounded by MaxFaults
          crashes, edits

vars == <<now, rule, row, occ, pass, ledger, fair, late, faults, crashes, edits>>
counters == <<faults, crashes, edits>>

Times == 0 .. (MaxNow + Interval + BackoffMax)

Idle == [pc |-> "idle", now |-> 0, todo |-> {}, rule |-> Nil, fired |-> 0, failed |-> 0]

FreshLedger == [attempts |-> [r \in Rules |-> 0], dead |-> {}]

Steps == {"idle", "plan", "gate", "fire", "job", "record", "count", "park", "clear"}

TypeOK ==
  /\ now \in 0 .. MaxNow
  /\ rule \in [Rules -> [live : BOOLEAN, born : BOOLEAN, enabled : BOOLEAN, cron : BOOLEAN,
                         next : Times, last : Times, fails : 0 .. MaxFaults]]
  /\ row \in [Rules -> Replicas \cup {Nil}]
  /\ occ \subseteq (Rules \X Times)
  /\ pass \in [Replicas -> [pc : Steps, now : 0 .. MaxNow, todo : SUBSET Rules,
                            rule : Rules \cup {Nil}, fired : 0 .. Batch, failed : 0 .. Batch]]
  /\ ledger \in [Replicas -> [attempts : [Rules -> 0 .. MaxAttempts], dead : SUBSET Rules]]
  /\ fair \subseteq Replicas
  /\ late \subseteq Rules
  /\ faults \in 0 .. MaxFaults /\ crashes \in 0 .. MaxCrashes /\ edits \in 0 .. MaxEdits

Init ==
  /\ now = 0
  /\ rule = [r \in Rules |-> [live |-> FALSE, born |-> FALSE, enabled |-> FALSE,
                              cron |-> FALSE, next |-> 0, last |-> 0, fails |-> 0]]
  /\ row = [r \in Rules |-> Nil]
  /\ occ = {} /\ late = {}
  /\ pass = [p \in Replicas |-> Idle]
  /\ ledger = [p \in Replicas |-> FreshLedger]
  /\ fair \in SUBSET Replicas
  /\ faults = 0 /\ crashes = 0 /\ edits = 0

-----------------------------------------------------------------------------
(* Cadence arithmetic. *)

\* A cron rule's next slot is the next boundary; an interval rule's is measured from the run.
compute_next_run_at(cron, t) ==
  IF cron THEN ((t \div Interval) + 1) * Interval ELSE t + Interval

failure_backoff(n) ==
  IF n * BackoffBase >= BackoffMax \/ 2 ^ n * BackoffBase >= BackoffMax
  THEN BackoffMax ELSE 2 ^ n * BackoffBase

Due(r, t) == rule[r].live /\ rule[r].enabled /\ rule[r].next <= t

-----------------------------------------------------------------------------
(* The API's writers.  A write waits for the row lock. *)

create_refresh_rule(r) ==
  /\ ~rule[r].born
  /\ \E c \in BOOLEAN :
       rule' = [rule EXCEPT ![r] = [live |-> TRUE, born |-> TRUE, enabled |-> TRUE, cron |-> c,
                                    next |-> compute_next_run_at(c, now), last |-> 0,
                                    fails |-> 0]]
  /\ UNCHANGED <<now, row, occ, pass, ledger, fair, late, counters>>

\* A patch sets enabled, the cadence or both; only a cadence change moves next_run_at.
update_refresh_rule(r) ==
  /\ rule[r].live /\ row[r] = Nil /\ edits < MaxEdits
  /\ \E e \in BOOLEAN, c \in BOOLEAN, moved \in BOOLEAN :
       /\ moved \/ (c = rule[r].cron /\ e # rule[r].enabled)
       /\ rule' = [rule EXCEPT ![r].enabled = e, ![r].cron = c,
                               ![r].next = IF moved THEN compute_next_run_at(c, now) ELSE @]
  /\ edits' = edits + 1
  /\ UNCHANGED <<now, row, occ, pass, ledger, fair, late, faults, crashes>>

\* The occurrence log is no foreign key: what the rule fired stays on record.
delete_refresh_rule(r) ==
  /\ rule[r].live /\ row[r] = Nil /\ edits < MaxEdits
  /\ rule' = [rule EXCEPT ![r].live = FALSE, ![r].enabled = FALSE]
  /\ edits' = edits + 1
  /\ UNCHANGED <<now, row, occ, pass, ledger, fair, late, faults, crashes>>

-----------------------------------------------------------------------------
(* The fair pass. *)

\* Usage and candidates are read in one session that is rolled back: nothing is locked.
load_due_candidates(p) ==
  /\ p \in fair /\ pass[p].pc = "idle"
  /\ \E todo \in SUBSET {r \in Rules : Due(r, now) /\ r \notin ledger[p].dead} :
       /\ todo # {} /\ Cardinality(todo) <= Batch
       /\ pass' = [pass EXCEPT ![p] = [Idle EXCEPT !.pc = "plan", !.now = now, !.todo = todo]]
  /\ UNCHANGED <<now, rule, row, occ, ledger, fair, late, counters>>

execute_plan(p) ==
  /\ p \in fair /\ pass[p].pc = "plan"
  /\ IF pass[p].todo = {}
     THEN pass' = [pass EXCEPT ![p] = Idle]
     ELSE \E r \in pass[p].todo :
            pass' = [pass EXCEPT ![p].pc = "gate", ![p].rule = r, ![p].todo = @ \ {r}]
  /\ UNCHANGED <<now, rule, row, occ, ledger, fair, late, counters>>

To(p, pc) == [pass EXCEPT ![p].pc = pc]

Next_item(p) == [pass EXCEPT ![p].pc = "plan", ![p].rule = Nil]

\* A denial leaves the rule due and consumes no retry; a fault is a failure of the rule.
gate_with_backoff(p) ==
  /\ pass[p].pc = "gate"
  /\ \/ /\ pass' = To(p, "fire")
        /\ UNCHANGED faults
     \/ /\ faults < MaxFaults                       \* CostAuthorizationDenied
        /\ faults' = faults + 1
        /\ pass' = Next_item(p)
     \/ /\ faults < MaxFaults
        /\ faults' = faults + 1
        /\ pass' = To(p, "record")
  /\ UNCHANGED <<now, rule, row, occ, ledger, fair, late, crashes, edits>>

record_success(p, r) == [ledger EXCEPT ![p].attempts[r] = 0]

\* Mutant: the due-ness the candidate list saw is trusted instead of rechecked under the lock.
Claimable_StaleCandidate(p, r) == rule[r].live /\ rule[r].enabled /\ row[r] = Nil

\* The locking select: enabled, still due at this pass's now, and not held by another.
Claimable(p, r) == Due(r, pass[p].now) /\ row[r] = Nil

\* Mutant: the occurrence is committed before the job is created.
Claimed_Early(r) == occ \cup {<<r, rule[r].next>>}

\* The occurrence row is part of the firing transaction: nothing is visible before commit.
Claimed(r) == occ

\* fire_refresh_rule up to the occurrence insert.  Each of the five ordinary refusals
\* returns False, which execute_plan takes for a dispatch that succeeded.
fire_refresh_rule(p) ==
  LET r == pass[p].rule IN
  /\ pass[p].pc = "fire"
  /\ IF Claimable(p, r) /\ <<r, rule[r].next>> \notin occ
     THEN /\ row' = [row EXCEPT ![r] = p]
          /\ occ' = Claimed(r)
          /\ pass' = To(p, "job")
          /\ UNCHANGED ledger
     ELSE /\ ledger' = record_success(p, r)
          /\ pass' = Next_item(p)
          /\ UNCHANGED <<row, occ>>
  /\ UNCHANGED <<now, rule, fair, late, counters>>

\* Mutant: the next run is counted from the slot that was due, not from the run.
Advance_FromSlot(p, r) ==
  [rule EXCEPT ![r].last = pass[p].now,
               ![r].next = compute_next_run_at(rule[r].cron, rule[r].next)]

Advance(p, r) ==
  [rule EXCEPT ![r].last = pass[p].now,
               ![r].next = compute_next_run_at(rule[r].cron, pass[p].now)]

\* create_scope_job and the commit of the firing transaction.
CommitFiring(p) ==
  LET r == pass[p].rule IN
  /\ pass[p].pc = "job"
  /\ rule' = Advance(p, r)
  /\ row' = [row EXCEPT ![r] = Nil]
  /\ occ' = IF p \in fair THEN occ \cup {<<r, rule[r].next>>} ELSE occ
  /\ late' = late \ {r}
  /\ pass' = IF p \in fair THEN To(p, "clear")
             ELSE [pass EXCEPT ![p].pc = "plan", ![p].rule = Nil, ![p].fired = @ + 1]
  /\ UNCHANGED <<now, ledger, fair, counters>>

\* create_scope_job raises: the session rolls back, releasing the row.
FiringRaises(p) ==
  /\ pass[p].pc = "job" /\ faults < MaxFaults
  /\ faults' = faults + 1
  /\ row' = [row EXCEPT ![pass[p].rule] = Nil]
  /\ pass' = To(p, "record")
  /\ UNCHANGED <<now, rule, occ, ledger, fair, late, crashes, edits>>

AfterRecord(p) ==
  IF p \in fair THEN To(p, "count")
  ELSE [pass EXCEPT ![p].pc = "plan", ![p].rule = Nil, ![p].failed = @ + 1]

\* The failure in its own transaction.  It takes the row as it now is: nothing tells it
\* that another replica has fired the rule since this pass's attempt rolled back.
record_rule_failure(p) ==
  LET r == pass[p].rule
      n == rule[r].fails + 1 IN
  /\ pass[p].pc = "record"
  /\ IF row[r] = Nil /\ rule[r].live
     THEN /\ rule' = [rule EXCEPT ![r].fails = n, ![r].next = pass[p].now + failure_backoff(n)]
          /\ late' = IF rule[r].next > pass[p].now THEN late \cup {r} ELSE late
     ELSE UNCHANGED <<rule, late>>                 \* held or gone: nothing is written
  /\ pass' = AfterRecord(p)
  /\ UNCHANGED <<now, row, occ, ledger, fair, counters>>

\* RetryLedger.record_failure: this process's own count of the rule's failures.
record_failure(p) ==
  LET r == pass[p].rule
      n == ledger[p].attempts[r] + 1 IN
  /\ pass[p].pc = "count"
  /\ ledger' = [ledger EXCEPT ![p].attempts[r] = n,
                              ![p].dead = IF n >= MaxAttempts THEN @ \cup {r} ELSE @]
  /\ pass' = IF n >= MaxAttempts THEN To(p, "park") ELSE Next_item(p)
  /\ UNCHANGED <<now, rule, row, occ, fair, late, counters>>

\* The durable disable waits for the row; an error in it is swallowed and the rule stays
\* enabled while this process's ledger refuses it.
record_dead_letter(p) ==
  LET r == pass[p].rule IN
  /\ pass[p].pc = "park"
  /\ \/ /\ row[r] = Nil
        /\ rule' = [rule EXCEPT ![r].enabled = FALSE]
        /\ UNCHANGED faults
     \/ /\ faults < MaxFaults
        /\ faults' = faults + 1
        /\ UNCHANGED rule
  /\ pass' = Next_item(p)
  /\ UNCHANGED <<now, row, occ, ledger, fair, late, crashes, edits>>

\* A firing that happened clears the durable count, unless another holds the row.
clear_rule_failures(p) ==
  LET r == pass[p].rule IN
  /\ pass[p].pc = "clear"
  /\ rule' = IF row[r] = Nil /\ rule[r].live THEN [rule EXCEPT ![r].fails = 0] ELSE rule
  /\ ledger' = record_success(p, r)
  /\ pass' = Next_item(p)
  /\ UNCHANGED <<now, row, occ, fair, late, counters>>

-----------------------------------------------------------------------------
(* The claim loop. *)

\* The oldest due row nobody holds, until the batch is fired, failed or nothing is left.
run_refresh_pass(p) ==
  LET at   == IF pass[p].pc = "idle" THEN now ELSE pass[p].now
      open == {r \in Rules : Due(r, at) /\ row[r] = Nil}
      first == {r \in open : \A q \in open : rule[r].next <= rule[q].next} IN
  /\ p \notin fair /\ pass[p].pc \in {"idle", "plan"}
  /\ pass[p].pc = "idle" => open # {}
  /\ IF open = {} \/ pass[p].fired = Batch \/ pass[p].failed = Batch
     THEN /\ pass' = [pass EXCEPT ![p] = Idle]
          /\ UNCHANGED row
     ELSE \E r \in first :
            /\ row' = [row EXCEPT ![r] = p]
            /\ pass' = [pass EXCEPT ![p].pc = "job", ![p].rule = r, ![p].now = at]
  /\ UNCHANGED <<now, rule, occ, ledger, fair, late, counters>>

-----------------------------------------------------------------------------
\* A replica dies: its transaction rolls back and its ledger is gone.
Crash(p) ==
  /\ crashes < MaxCrashes /\ pass[p].pc # "idle"
  /\ crashes' = crashes + 1
  /\ pass' = [pass EXCEPT ![p] = Idle]
  /\ ledger' = [ledger EXCEPT ![p] = FreshLedger]
  /\ row' = [r \in Rules |-> IF row[r] = p THEN Nil ELSE row[r]]
  /\ UNCHANGED <<now, rule, occ, fair, late, faults, edits>>

Tick == now < MaxNow /\ now' = now + 1
        /\ UNCHANGED <<rule, row, occ, pass, ledger, fair, late, counters>>

Step(p) ==
  \/ load_due_candidates(p) \/ execute_plan(p) \/ gate_with_backoff(p) \/ fire_refresh_rule(p)
  \/ CommitFiring(p) \/ FiringRaises(p) \/ record_rule_failure(p) \/ record_failure(p)
  \/ record_dead_letter(p) \/ clear_rule_failures(p) \/ run_refresh_pass(p)

Next ==
  \/ \E p \in Replicas : Step(p) \/ Crash(p)
  \/ \E r \in Rules : create_refresh_rule(r) \/ update_refresh_rule(r) \/ delete_refresh_rule(r)
  \/ Tick

Spec == Init /\ [][Next]_vars

\* The loop of main() keeps polling and a statement returns or raises.
Fairness == \A p \in Replicas : WF_vars(Step(p))

FairSpec == Spec /\ Fairness

-----------------------------------------------------------------------------
\* One firing per slot: a rule is not fired again before the slot that followed its last run,
\* whatever replicas, modes, crashes and stale candidate lists do.  The one exception the code
\* leaves is a failure recorded over a firing another replica made in between (late).
FiredOncePerSlotStep ==
  \A r \in Rules :
    (rule'[r].last # rule[r].last /\ rule[r].last # 0 /\ r \notin late /\ edits = 0)
      => rule'[r].last >= compute_next_run_at(rule[r].cron, rule[r].last)
FiredOncePerSlot == [][FiredOncePerSlotStep]_vars

\* A rule that is due is never refused by its own occurrence: the slot it waits for has no row
\* in refresh_rule_occurrences yet, but for a rule whose back-off was late.  Otherwise every later pass would return False without
\* advancing next_run_at and the rule would never run again.
SlotIsFree ==
  \A r \in Rules :
    (rule[r].live /\ rule[r].enabled /\ r \notin late) => <<r, rule[r].next>> \notin occ

DueNow(r) == Due(r, now)
DeadEverywhere(r) == \A p \in Replicas : p \in fair /\ r \in ledger[p].dead

\* Every due rule is eventually fired, pushed back, disabled or deleted - unless each fair
\* replica's own ledger has parked it and no claim-loop replica is left to pick it up.
DueRuleMoves ==
  \A r \in Rules :
    DueNow(r) ~> (~DueNow(r) \/ DeadEverywhere(r))

\* "Consecutive failures are what count": a rule is parked only while its durable count of
\* failures since the last firing has reached the bound.
FlakyNotParked ==
  [][\A r \in Rules : (rule[r].enabled /\ ~rule'[r].enabled /\ rule'[r].live /\ edits' = edits)
       => rule[r].fails >= MaxAttempts]_vars
=============================================================================
