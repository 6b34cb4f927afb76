--------------------------- MODULE FleetCaps ---------------------------
(***************************************************************************)
(* The monthly money caps of the fleet: a row per paid transport class and *)
(* month.  The first paid authorization of a month creates its row without *)
(* a limit (costauth/service.py), the operator's script writes limits      *)
(* (scripts/seed_fleet_budget_cap.py), and the maintenance task carries    *)
(* them into the next month (costauth/fleet_budget_policy.py).  The script *)
(* and the task read first and write at their commit, without a lock.      *)
(***************************************************************************)
EXTENDS Integers, FiniteSets, FiniteSetsExt

CONSTANTS Scopes,          \* DEFAULT_SCOPE_KEYS
          Settings,        \* configured caps, in half units; Unset for none
          Unset,
          Caps,            \* what the operator writes
          MonthsAhead,     \* months_ahead of the task
          MaxMonth, MaxRuns

VARIABLES budget, configured, month, task, script, ran, runs

vars == <<budget, configured, month, task, script, ran, runs>>

Months == 1..(MaxMonth + MonthsAhead + 1)
NoRow == -2
Null == -1
Pairs == Scopes \X Months
Capped(v) == v >= 0
Idle == [phase |-> "idle"]

\* Half a unit rounds to the even neighbour: to nothing.
usd_to_units(usd) == usd \div 2

\* Mutant: the month after the last one is left out.
period_keys_from_Short(now, ahead) == now..(now + ahead - 1)

period_keys_from(now, ahead) == now..(now + ahead)

\* Mutant: a configured cap is a cap, whatever it converts to.
Configured_AsIs(s) == IF configured[s] = Unset THEN Null ELSE usd_to_units(configured[s])

\* A setting that does not convert to a positive amount is no setting.
Configured(s) ==
    IF configured[s] = Unset \/ usd_to_units(configured[s]) <= 0 THEN Null
    ELSE usd_to_units(configured[s])

\* Mutant: the highest cap of the past is carried.
_latest_known_limit_Highest(limits, s, p) ==
    LET known == {q \in Months : q < p /\ Capped(limits[s, q])}
    IN  IF known = {} THEN Null ELSE Max({limits[s, q] : q \in known})

_latest_known_limit(limits, s, p) ==
    LET known == {q \in Months : q < p /\ Capped(limits[s, q])}
    IN  IF known = {} THEN Null ELSE limits[s, Max(known)]

\* The caps the task decides on; a month decided earlier in the run is known to the later ones.
\* Null: a limit is there already, or nothing is known.
roll_fleet_budget_caps_forward(limits, periods) ==
    LET f[p \in Months] ==
            [s \in Scopes |->
                IF p \notin periods \/ Capped(limits[s, p]) THEN Null
                ELSE IF Configured(s) # Null THEN Configured(s)
                ELSE IF p - 1 \in periods /\ f[p - 1][s] # Null THEN f[p - 1][s]
                ELSE _latest_known_limit(limits, s, p)]
    IN  [x \in Pairs |-> f[x[2]][x[1]]]

\* The rows of a plan as they are at the commit: an insert that meets a row fails the transaction.
Collides(plan, existed) == \E x \in Pairs : plan[x] # Null /\ ~existed[x] /\ budget[x] # NoRow
apply_budget_cap(plan) == [x \in Pairs |-> IF plan[x] # Null THEN plan[x] ELSE budget[x]]

\* No limit was written since the task read the table.
Undisturbed == \A x \in Pairs : Capped(budget[x]) => task.limits[x] = budget[x]

Init ==
    /\ budget = [x \in Pairs |-> NoRow]
    /\ configured \in [Scopes -> Settings]
    /\ month = 1 /\ task = Idle /\ script = Idle /\ ran = 0 /\ runs = 0

\* A paid authorization needs the row of the month and creates it without a limit.
_lock_fleet_budget(s) ==
    /\ budget[s, month] = NoRow
    /\ budget' = [budget EXCEPT ![s, month] = Null]
    /\ UNCHANGED <<configured, month, task, script, ran, runs>>

\* fleet_budget_rollforward: the limits are read, then the rows to write, then all is committed.
TaskRead ==
    /\ task = Idle /\ runs < MaxRuns
    /\ task' = [phase |-> "read", limits |-> budget, periods |-> period_keys_from(month, MonthsAhead), at |-> month]
    /\ runs' = runs + 1
    /\ UNCHANGED <<budget, configured, month, script, ran>>

plan_budget_rows ==
    /\ task.phase = "read"
    /\ task' = [phase |-> "planned", limits |-> task.limits, at |-> task.at,
                plan |-> roll_fleet_budget_caps_forward(task.limits, task.periods),
                existed |-> [x \in Pairs |-> budget[x] # NoRow]]
    /\ UNCHANGED <<budget, configured, month, script, ran, runs>>

fleet_budget_rollforward ==
    /\ task.phase = "planned"
    /\ task' = Idle
    /\ IF Collides(task.plan, task.existed) THEN UNCHANGED <<budget, ran>>
       ELSE /\ budget' = apply_budget_cap(task.plan)
            /\ ran' = IF Undisturbed THEN task.at ELSE 0
    /\ UNCHANGED <<configured, month, script, runs>>

\* The operator's script, dry or applied, for some scopes and months.
run(scopes, ahead, cap) ==
    /\ script = Idle /\ runs < MaxRuns
    /\ script' = [phase |-> "planned",
                  plan |-> [x \in Pairs |-> IF x[1] \in scopes /\ x[2] \in period_keys_from(month, ahead)
                                               /\ budget[x] # cap THEN cap ELSE Null],
                  existed |-> [x \in Pairs |-> budget[x] # NoRow]]
    /\ runs' = runs + 1
    /\ UNCHANGED <<budget, configured, month, task, ran>>

Apply ==
    /\ script.phase = "planned"
    /\ script' = Idle
    /\ IF Collides(script.plan, script.existed) THEN UNCHANGED <<budget, ran>>
       ELSE budget' = apply_budget_cap(script.plan) /\ ran' = 0
    /\ UNCHANGED <<configured, month, task, runs>>

\* A new month; no transaction is open across it.
NextMonth ==
    /\ month < MaxMonth /\ task = Idle /\ script = Idle
    /\ month' = month + 1
    /\ UNCHANGED <<budget, configured, task, script, ran, runs>>

Next ==
    \/ \E s \in Scopes : _lock_fleet_budget(s)
    \/ TaskRead \/ plan_budget_rows \/ fleet_budget_rollforward
    \/ \E ss \in SUBSET Scopes \ {{}}, a \in 0..1, c \in Caps : run(ss, a, c)
    \/ Apply \/ NextMonth

Spec == Init /\ [][Next]_vars

----------------------------------------------------------------------------
Earlier(b, s, p) == {q \in Months : q < p /\ Capped(b[s, q])}

\* Once the task has run since the operator's last write, a scope that ever had a cap has one in
\* every month the run covered: no month begins without a ceiling.
CappedAhead ==
    ran > 0 => \A s \in Scopes : \A p \in ran..(ran + MonthsAhead) :
                   (Earlier(budget, s, p) # {} => Capped(budget[s, p]))

\* A cap that denies all paid work is never written.
NeverZero == \A x \in Pairs : budget[x] # 0

\* Unless the operator wrote while it ran, the task leaves every limit it found as it was, and
\* what it adds without a setting is the cap of the nearest earlier month.
RollStep ==
    task.phase = "planned" /\ task' = Idle /\ Undisturbed =>
        \A s \in Scopes, p \in Months :
            /\ Capped(budget[s, p]) => budget'[s, p] = budget[s, p]
            /\ ~Capped(budget[s, p]) /\ Capped(budget'[s, p]) /\ Configured(s) = Null =>
                   budget'[s, p] = budget'[s, Max(Earlier(budget', s, p))]
RollKeeps == [][RollStep]_vars

\* The module's first rule: a limit that is there is never overwritten by the task.
NeverOverwritten ==
    [][task # task' /\ script' = script => \A x \in Pairs : Capped(budget[x]) => budget'[x] = budget[x]]_vars
=============================================================================
