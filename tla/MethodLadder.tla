------------------------------ MODULE MethodLadder ------------------------------
(***************************************************************************)
(* One target's walk down its profile's ladder of versioned methods, the   *)
(* Redis budget its first method is charged to, and the circuit of each    *)
(* method.  A dispatch pass, or the spider that loads a target without a   *)
(* method, picks the first one and charges the budget; two deliveries of   *)
(* the dispatch may overlap, and one that dies leaves its charge.  From    *)
(* then on the target carries its method, and the spider's handoff picks   *)
(* the next one without a budget (next_strategy_method(target, outcome)).  *)
(* The stats flush opens and closes circuits from what attempts reported.  *)
(* Nobody calls suppress(), and nobody passes proxy_budget_exhausted or    *)
(* open_method_ids: what they would rule out is left out.                  *)
(***************************************************************************)
EXTENDS Naturals, FiniteSets, FiniteSetsExt

CONSTANTS Passes,         \* executions of dispatch_job that may overlap
          N,              \* methods, numbered by priority
          Fallback, Cap,  \* the playbook's rationed method and its cap per refresh
          MaxPhysical, Deadline, Retries, Streak, Cooldown, Canary,
          MaxDefers,      \* SCRAPE_MAX_DEFER_CYCLES
          MaxNow, MaxCrashes, MaxLost

Methods == 1 .. N
Nil == 0

VARIABLES now,
          method,    \* domain_strategy_methods: the circuit of each method
          target,    \* scrape_job_targets: status, durable cursor, started_at
          pass,      \* what a dispatch pass has read of the target
          run,       \* the run that holds the target, if any, and its own method
          spent,     \* Redis: budget:{job}:{match}
          fallback,  \* Redis: budget:{job}:{match}:fallback
          pending,   \* Redis: outcomes not flushed yet, per method
          defers,    \* Redis: defer cycles consumed
          taken,     \* ghost: physical attempts made
          crashes,
          past       \* ghost: charges lost, stale cursors written, why it was refused

vars == <<now, method, target, pass, run, spent, fallback, pending, defers, taken, crashes, past>>

Never == MaxNow + Cooldown + Canary + 1
Unstarted == MaxNow + 1   \* started_at IS NULL
NoPass == [on |-> FALSE, started |-> Unstarted]
NoRun == [on |-> FALSE, m |-> Nil, left |-> 0]
MaxRaced == Cardinality(Passes)
MaxTaken == (N * (1 + MaxRaced) + MaxCrashes + MaxDefers) * (Retries + 1)

TypeOK ==
  /\ now \in 0 .. MaxNow
  /\ method \in [Methods -> [quarantined : BOOLEAN, streak : 0 .. MaxTaken,
                             cooldown : 0 .. Never, canary : 0 .. Never]]
  /\ target \in [status : {"PENDING", "STARTED", "DEFERRED", "COMPLETED", "FAILED"},
                 cur : Methods \cup {Nil}, started : 0 .. Unstarted]
  /\ pass \in [Passes -> [on : BOOLEAN, started : 0 .. Unstarted]]
  /\ run \in [on : BOOLEAN, m : Methods \cup {Nil}, left : 0 .. Retries]
  /\ spent \in 0 .. MaxLost + MaxRaced + 2 /\ fallback \in 0 .. Cap
  /\ pending \in [Methods -> [ok : 0 .. MaxTaken, bad : 0 .. MaxTaken]]
  /\ defers \in 0 .. MaxDefers /\ crashes \in 0 .. MaxCrashes
  /\ past \in [lost : 0 .. MaxLost + MaxRaced, raced : 0 .. MaxRaced,
               refused : {"no", "budget", "deadline"}]

\* Seeded methods are proven or on trial; a trial's first canary is in the future.
Init ==
  /\ now = 0
  /\ method \in [Methods -> {[quarantined |-> FALSE, streak |-> 0, cooldown |-> 0,
                              canary |-> Never],
                             [quarantined |-> TRUE, streak |-> 0, cooldown |-> 0,
                              canary |-> Canary]}]
  /\ target = [status |-> "PENDING", cur |-> Nil, started |-> Unstarted]
  /\ pass = [p \in Passes |-> NoPass]
  /\ run = NoRun
  /\ spent = 0 /\ fallback = 0 /\ defers = 0 /\ taken = 0 /\ crashes = 0
  /\ pending = [m \in Methods |-> [ok |-> 0, bad |-> 0]]
  /\ past = [lost |-> 0, raced |-> 0, refused |-> "no"]

-----------------------------------------------------------------------------
\* A quarantined or cooling method is a candidate only as a canary that is due.
is_eligible(m) ==
  \/ method[m].canary <= now
  \/ ~method[m].quarantined /\ method[m].cooldown <= now

FallbackSpent(m, used) == m = Fallback /\ used >= Cap

\* Mutant: the walk may take the method it stands on again.
Candidates_Inclusive(cur) == IF cur = Nil THEN Methods ELSE {m \in Methods : m >= cur}

Candidates(cur) == IF cur = Nil THEN Methods ELSE {m \in Methods : m > cur}

\* The methods the ladder would take after cur: with a preferred one first when none was taken.
resolve_next_physical_attempt(cur, preferred, used) ==
  LET fit == {m \in Candidates(cur) : is_eligible(m) /\ ~FallbackSpent(m, used)}
  IN IF fit = {} THEN Nil
     ELSE IF cur = Nil /\ preferred \in fit THEN preferred ELSE Min(fit)

\* A target that was never started cannot be late.
Late(started) == started # Unstarted /\ now >= started + Deadline

\* try_consume, then charge_fallback_attempt.  A refused charge is an INCR all the same, a
\* late one is not; Redis failing answers ALLOWED and charges nothing.
Charge(m, late, down) ==
  LET ok == ~late /\ (down \/ spent < MaxPhysical) IN
  [ok |-> ok, made |-> ~late /\ ~down, why |-> IF late THEN "deadline" ELSE "budget",
   fallback |-> IF ok /\ ~down /\ m = Fallback THEN 1 ELSE 0]

\* A charge and what became of it: it ends in the target's first cursor or its refusal
\* (kept), in the place of a cursor the pass had not read (races), or it is lost.
Charged(c, kept, races) ==
  /\ spent' = IF c.made THEN spent + 1 ELSE spent
  /\ fallback' = fallback + c.fallback
  /\ past' = [lost |-> past.lost + IF c.made /\ ~kept THEN 1 ELSE 0,
              raced |-> past.raced + IF races THEN 1 ELSE 0,
              refused |-> IF kept /\ ~c.ok THEN c.why ELSE past.refused]

Dispatchable == target.status \in {"PENDING", "DEFERRED"}

\* A dispatch pass reads the target, which has no method yet.
dispatch_reads(p) ==
  /\ ~pass[p].on /\ Dispatchable /\ target.cur = Nil
  /\ pass' = [pass EXCEPT ![p] = [on |-> TRUE, started |-> target.started]]
  /\ UNCHANGED <<now, method, target, run, spent, fallback, pending, defers, taken, crashes, past>>

\* It picks, charges and writes the cursor by primary key, whatever the row holds by now; a
\* refusal fails a target that is still PENDING or DEFERRED.
first_selection(p) ==
  /\ pass[p].on
  /\ pass' = [pass EXCEPT ![p] = NoPass]
  /\ \E preferred \in Methods \cup {Nil}, down \in BOOLEAN, dies \in BOOLEAN :
       LET m == resolve_next_physical_attempt(Nil, preferred, IF down THEN 0 ELSE fallback)
           c == Charge(m, Late(pass[p].started), down)
           kept == IF c.ok THEN target.cur = Nil ELSE Dispatchable IN
       IF m = Nil THEN ~dies /\ UNCHANGED <<target, spent, fallback, past>>
       ELSE /\ dies => past.lost < MaxLost
            /\ Charged(c, ~dies /\ kept, ~dies /\ c.ok /\ ~kept)
            /\ target' = IF dies THEN target
                         ELSE IF c.ok THEN [target EXCEPT !.cur = m]
                         ELSE IF Dispatchable THEN [target EXCEPT !.status = "FAILED"]
                         ELSE target
  /\ UNCHANGED <<now, method, run, pending, defers, taken, crashes>>

Starts(m) == /\ target' = [status |-> "STARTED", cur |-> m, started |-> now]
             /\ run' = [on |-> TRUE, m |-> m, left |-> Retries]

\* load_targets claims the target, which restarts its clock.  One that carries its method is
\* fetched with it and no budget is asked; for one without, the load picks and charges, and
\* with nothing to pick the target is fetched by its profile's default.
load_targets ==
  /\ Dispatchable
  /\ \/ target.cur # Nil /\ Starts(target.cur) /\ UNCHANGED <<spent, fallback, past>>
     \/ /\ target.cur = Nil
        /\ \E preferred \in Methods \cup {Nil}, down \in BOOLEAN, dies \in BOOLEAN :
             LET m == resolve_next_physical_attempt(Nil, preferred, IF down THEN 0 ELSE fallback)
                 c == Charge(m, FALSE, down) IN
             IF m = Nil THEN ~dies /\ Starts(Nil) /\ UNCHANGED <<spent, fallback, past>>
             ELSE /\ Charged(c, ~dies, FALSE)
                  /\ \/ dies /\ past.lost < MaxLost /\ UNCHANGED <<target, run>>
                     \/ ~dies /\ c.ok /\ Starts(m)
                     \/ ~dies /\ ~c.ok /\ target' = [target EXCEPT !.status = "FAILED", !.started = now]
                        /\ UNCHANGED run
  /\ UNCHANGED <<now, method, pass, pending, defers, taken, crashes>>

\* One fetch on the wire, and its outcome in the stats buffer.
Fetched(ok) ==
  /\ run.on
  /\ taken' = taken + 1
  /\ pending' = IF run.m = Nil THEN pending
                ELSE IF ok THEN [pending EXCEPT ![run.m].ok = @ + 1]
                ELSE [pending EXCEPT ![run.m].bad = @ + 1]
  /\ UNCHANGED <<now, method, pass, spent, fallback, defers, crashes, past>>

attempt_succeeds ==
  /\ Fetched(TRUE)
  /\ target' = [target EXCEPT !.status = "COMPLETED"]
  /\ run' = NoRun

attempt_retried ==
  /\ Fetched(FALSE) /\ run.left > 0
  /\ run' = [run EXCEPT !.left = @ - 1]
  /\ UNCHANGED target

\* The handoff's ladder has no budget: nothing is charged, no fallback counted.  An outcome
\* that ends the chain, or a ladder with no next rung, fails the target.
attempt_handed_on ==
  /\ Fetched(FALSE)
  /\ run' = NoRun
  /\ \E falls \in BOOLEAN :
       LET m == IF run.m = Nil THEN Nil ELSE resolve_next_physical_attempt(run.m, Nil, 0) IN
       target' = IF falls /\ m # Nil THEN [target EXCEPT !.status = "DEFERRED", !.cur = m]
                 ELSE [target EXCEPT !.status = "FAILED"]

\* A gate that stays shut hands the target back with its method, until the defer budget of
\* the target is spent; its clock is kept.
handed_back ==
  /\ run.on
  /\ run' = NoRun
  /\ IF defers < MaxDefers
     THEN target' = [target EXCEPT !.status = "DEFERRED"] /\ defers' = defers + 1
     ELSE target' = [target EXCEPT !.status = "FAILED"] /\ UNCHANGED defers
  /\ UNCHANGED <<now, method, pass, spent, fallback, pending, taken, crashes, past>>

\* A lost run's target is made dispatchable again: it keeps its method, its clock is cleared.
Crash ==
  /\ run.on /\ crashes < MaxCrashes
  /\ crashes' = crashes + 1
  /\ run' = NoRun
  /\ target' = [target EXCEPT !.status = "PENDING", !.started = Unstarted]
  /\ UNCHANGED <<now, method, pass, spent, fallback, pending, defers, taken, past>>

-----------------------------------------------------------------------------
\* Mutant: a demotion for blocking forgets to schedule the canary.
Quarantine_NoCanary(c) == [c EXCEPT !.quarantined = TRUE, !.cooldown = now + Cooldown,
                                    !.canary = Never]

Quarantine(c) == [c EXCEPT !.quarantined = TRUE, !.cooldown = now + Cooldown,
                           !.canary = now + Canary]

\* The flush drains one method's outcomes.  A high blocked rate demotes even beside successes;
\* failures alone demote by their streak, or by the failure rate of the method's lifetime.
update_method_circuit(m) ==
  LET d == pending[m]
      c == method[m] IN
  /\ d.ok + d.bad > 0
  /\ pending' = [pending EXCEPT ![m] = [ok |-> 0, bad |-> 0]]
  /\ \E blocked \in BOOLEAN, rate \in BOOLEAN :
       method' = [method EXCEPT ![m] =
         IF blocked /\ d.bad >= d.ok THEN Quarantine(c)
         ELSE IF d.ok > 0
         THEN [c EXCEPT !.streak = 0, !.quarantined = FALSE,
                        !.cooldown = IF c.quarantined THEN 0 ELSE @,
                        !.canary = IF c.quarantined THEN Never ELSE @]
         ELSE IF c.streak + d.bad >= Streak \/ rate
         THEN [Quarantine(c) EXCEPT !.streak = c.streak + d.bad]
         ELSE [c EXCEPT !.streak = c.streak + d.bad]]
  /\ UNCHANGED <<now, target, pass, run, spent, fallback, defers, taken, crashes, past>>

Tick == /\ now < MaxNow
        /\ now' = now + 1
        /\ UNCHANGED <<method, target, pass, run, spent, fallback, pending, defers, taken, crashes,
                       past>>

Next ==
  \/ \E p \in Passes : dispatch_reads(p) \/ first_selection(p)
  \/ load_targets \/ attempt_succeeds \/ attempt_retried \/ attempt_handed_on \/ handed_back
  \/ Crash \/ Tick
  \/ \E m \in Methods : update_method_circuit(m)

Spec == Init /\ [][Next]_vars

-----------------------------------------------------------------------------
\* A target's walk ends: whatever fails, crashes, is handed on or handed back, the fetches of
\* one refresh stay within one series of retries per rung, per lost run and per defer cycle;
\* only a pass that writes a cursor it has not read sends the walk back to its start
\* (methods.py's candidates after the current method, pipelines.py's durable cursor).
WalkBounded == taken <= (N * (1 + past.raced) + crashes + defers) * (Retries + 1)

\* "a re-pickup reuses the cursor and charges nothing" (targets._persist_load_selection): a
\* target is charged once for the cursor it carries and once for its refusal; every other
\* charge died with its transaction or lost a race, and only such charges can take the
\* rationed rung past what one cursor uses.
ChargedOnce ==
  /\ spent <= past.lost + (IF target.cur # Nil THEN 1 ELSE 0)
                        + (IF past.refused = "budget" THEN 1 ELSE 0)
  /\ fallback <= Cap /\ fallback <= past.lost + (IF target.cur # Nil THEN 1 ELSE 0)

\* A target is refused for a reason: its budget went to charges that were lost, but for the
\* one of a cursor, or it was once started, was handed back and is past its deadline
\* (the anchor of _target_attempt_budget: "A target never started ... has had no fetch yet").
RefusedForCause ==
  /\ past.refused = "budget" =>
       past.lost + (IF target.cur # Nil THEN 1 ELSE 0) >= MaxPhysical
  /\ past.refused = "deadline" => defers > 0 /\ now >= Deadline

\* A quarantined method can come back: it always has a canary to wait for
\* (flush._update_method_circuit, methods._is_eligible).
QuarantineHasExit == \A m \in Methods : method[m].quarantined => method[m].canary # Never

\* What the documentation says beyond that, and TLC refutes.
\* "Every physical attempt in the system is a method this function returned, so ... 'the
\* budget is checked before every physical attempt' [is] structurally true"
\* (methods.py:332): the handoff passes no budget and a retry asks nobody.
AttemptsWithinBudget == spent > 0 => taken <= MaxPhysical

\* "capping how many times ONE target may reach the expensive (browser) rung in one refresh"
\* (targets.py:352): the ladder that escalates counts nothing.
FallbackCharged == past.raced = 0 /\ target.cur = Fallback /\ spent > 0 => fallback > 0

\* "restarting at priority 1 would duplicate paid work" (methods.py:403): a pass that read the
\* target before its cursor was written starts it again.
NeverRestarted == past.raced = 0
=============================================================================
