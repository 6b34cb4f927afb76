------------------------------- MODULE OpsAlerts -------------------------------
(***************************************************************************)
(* The operational snapshot and its alert rules: collect_snapshot reads    *)
(* the sections one after the other over ONE database session, evaluate    *)
(* turns the snapshot into alerts, emit_snapshot logs them or says all     *)
(* clear.  A measure is the band its rule's thresholds put it in.  The     *)
(* nine rules whose attribute no collector sets return nothing and are     *)
(* left out.                                                               *)
(***************************************************************************)
EXTENDS Integers, Sequences, FiniteSets, SequencesExt

CONSTANTS MaxWorse,     \* how often the fleet may get worse
          MaxFails      \* how many reads of one probe may fail

\* The order in which collect_snapshot reads.
Order == <<"partitions", "domains", "discovery", "links", "rollups", "cost", "outbox", "breaker",
           "queue", "spend", "freshness", "optimizer", "redis", "scrapyd", "role">>
Sections == ToSet(Order)

\* The measures of each section, the bands of each from best to worst.
PartitionHealth == [current |-> <<"present", "missing">>, next |-> <<"present", "missing">>,
                    fuse |-> <<"long", "short">>]
DomainStats == [perUrl |-> <<"ok", "warning", "high">>, paidPerUrl |-> <<"ok", "high">>,
                usd |-> <<"ok", "warning", "high">>, wasted |-> <<"ok", "high">>,
                prices |-> <<"some", "none">>, perPrice |-> <<"ok", "high">>,
                success |-> <<"ok", "warning", "low">>]
DomainDiscovery == [runs |-> <<"few", "many", "high", "critical">>, surge |-> <<"no", "yes">>]
LinkOutcomes == [deadline |-> <<"none", "some">>]
RollupHealth == [lag |-> <<"fresh", "stale", "never">>]
CostRollupHealth == [mark |-> <<"fresh", "stale", "unseeded", "nostore">>, rows |-> <<"some", "none">>,
                     checked |-> <<"yes", "unreconciled", "noevidence">>,
                     variance |-> <<"ok", "high">>, closed |-> <<"recent", "old">>]
OutboxHealth == [pending |-> <<"ok", "warning", "high">>, dead |-> <<"none", "some">>,
                 oldest |-> <<"recent", "old">>]
BreakerHealth == [state |-> <<"CLOSED", "absent", "OPEN">>, evaluated |-> <<"fresh", "lagging", "stale">>]
QueueHealth == [pending |-> <<"recent", "old">>, started |-> <<"recent", "old">>,
                deferred |-> <<"recent", "old">>, job |-> <<"recent", "old">>]
SpendVelocity == [forecast24 |-> <<"ok", "warning", "over">>, forecast1 |-> <<"ok", "warning", "over">>,
                  unbudgeted |-> <<"none", "some">>, accelerating |-> <<"no", "yes">>]
Freshness == [attempt |-> <<"recent", "old", "silent">>, rules |-> <<"some", "none">>]
OptimizerChurn == [churn |-> <<"ok", "high">>]
RedisHealth == [policy |-> <<"OK", "UNKNOWN", "VIOLATION">>, evicted |-> <<"none", "some">>,
                memory |-> <<"ok", "high">>]
ScrapydHealth == [inflight |-> <<"ok", "many">>]
DatabaseRoleHealth == [tenant |-> <<"ok", "inert">>, system |-> <<"ok", "superuser">>]

Scale ==
  [partitions |-> PartitionHealth, domains |-> DomainStats, discovery |-> DomainDiscovery,
   links |-> LinkOutcomes, rollups |-> RollupHealth, cost |-> CostRollupHealth,
   outbox |-> OutboxHealth, breaker |-> BreakerHealth, queue |-> QueueHealth,
   spend |-> SpendVelocity, freshness |-> Freshness, optimizer |-> OptimizerChurn,
   redis |-> RedisHealth, scrapyd |-> ScrapydHealth, role |-> DatabaseRoleHealth]

Healthy(s) == [m \in DOMAIN Scale[s] |-> Scale[s][m][1]]

\* What s looks like after one of its measures has got one band worse.
Worse(s, f) ==
  {[f EXCEPT ![m] = Scale[s][m][SelectInSeq(Scale[s][m], LAMBDA b : b = f[m]) + 1]] :
     m \in {x \in DOMAIN f : f[x] # Last(Scale[s][x])}}

Unreadable == [unreadable |-> TRUE]
CRITICAL == 3
HIGH == 2
WARNING == 1

VARIABLES traffic,      \* how much the domain is scraped: the rules' minimum sample sizes
          ceiling,      \* a spend ceiling is configured
          facts,        \* Sections -> the fleet's measures
          worsened,
          at,           \* the next section the probe reads; 0 when no probe runs
          txn,          \* the session's transaction: "open", or "failed" after an error
          failed,       \* sections whose own read failed in this probe
          snap,         \* Sections -> the facts read, or Unreadable
          alerts        \* the alerts of the last finished probe: <<rule, severity>>
fleet == <<traffic, ceiling, facts, worsened>>
vars == <<fleet, at, txn, failed, snap, alerts>>

Init ==
  /\ traffic \in {"idle", "some", "busy"} /\ ceiling \in BOOLEAN
  /\ facts = [s \in Sections |-> Healthy(s)] /\ worsened = 0
  /\ at = 0 /\ txn = "open" /\ failed = {} /\ snap = facts /\ alerts = {}

(***************************************************************************)
(* The rules.  Each yields its alerts from the snapshot.                   *)
(***************************************************************************)
Fires(cond, rule, severity) == IF cond THEN {<<rule, severity>>} ELSE {}

\* Mutant: the CURRENT month's check hides behind the next month's.
_r_partition_Elif(p) ==
  IF p = Unreadable THEN {<<"partition.unavailable", HIGH>>}
  ELSE IF p.next = "missing"
       THEN {<<"partition.next_month_missing", IF p.fuse = "short" THEN CRITICAL ELSE HIGH>>}
       ELSE Fires(p.current = "missing", "partition.current_month_missing", CRITICAL)

_r_partition(p) ==
  IF p = Unreadable THEN {<<"partition.unavailable", HIGH>>}
  ELSE Fires(p.current = "missing", "partition.current_month_missing", CRITICAL)
       \cup Fires(p.next = "missing", "partition.next_month_missing",
                  IF p.fuse = "short" THEN CRITICAL ELSE HIGH)

_r_rollup(r) ==
  IF r = Unreadable THEN {<<"rollup.unavailable", HIGH>>}
  ELSE Fires(r.lag = "never", "rollup.never_run", CRITICAL)
       \cup Fires(r.lag = "stale", "rollup.stale", HIGH)

_r_cost_rollup(c) ==
  IF c = Unreadable THEN {<<"cost_rollup.unavailable", CRITICAL>>}
  ELSE Fires(c.mark = "nostore", "cost_rollup.watermark_store_missing", CRITICAL)
       \cup Fires(c.mark = "unseeded", "cost_rollup.watermark_never_seeded", CRITICAL)
       \cup Fires(c.mark = "stale", "cost_rollup.watermark_stale", CRITICAL)
       \cup Fires(c.rows = "none", "cost_rollup.no_data", CRITICAL)
       \cup Fires(c.rows = "some" /\ c.checked = "noevidence", "cost_rollup.provider_evidence_missing", CRITICAL)
       \cup Fires(c.rows = "some" /\ c.checked = "unreconciled", "cost_rollup.reconciliation_missing", CRITICAL)
       \cup Fires(c.rows = "some" /\ c.checked = "yes" /\ c.variance = "high", "cost_rollup.variance_high", CRITICAL)
       \cup Fires(c.closed = "old", "cost_rollup.ledger_silent", CRITICAL)

_r_outbox(o) ==
  IF o = Unreadable THEN {<<"outbox.unavailable", HIGH>>}
  ELSE Fires(o.dead = "some", "outbox.dead", HIGH)
       \cup Fires(o.pending = "high", "outbox.backlog", HIGH)
       \cup Fires(o.pending = "warning", "outbox.backlog", WARNING)
       \cup Fires(o.oldest = "old", "outbox.oldest_pending_age", HIGH)

\* An unreadable domain section is an empty one to the cost rules; _r_domain_success reports it.
_r_requests_per_url(d) ==
  IF d = Unreadable \/ traffic # "busy" THEN {}
  ELSE Fires(d.perUrl = "high", "cost.requests_per_url", HIGH)
       \cup Fires(d.perUrl = "warning", "cost.requests_per_url", WARNING)
       \cup Fires(d.paidPerUrl = "high", "cost.proxied_per_url", HIGH)

_r_domain_spend(d) ==
  IF d = Unreadable \/ traffic # "busy" THEN {}
  ELSE Fires(d.usd = "high", "cost.spend_per_domain_per_day", HIGH)
       \cup Fires(d.usd = "warning", "cost.spend_per_domain_per_day", WARNING)

_r_wasted_spend(d) ==
  IF d = Unreadable \/ traffic # "busy" THEN {} ELSE Fires(d.wasted = "high", "cost.wasted_paid_rate", HIGH)

_r_cost_per_successful_price(d) ==
  IF d = Unreadable \/ traffic = "idle" THEN {}
  ELSE IF d.prices = "none" THEN {<<"cost.zero_successful_prices", CRITICAL>>}
  ELSE Fires(d.perPrice = "high", "cost.per_successful_price", HIGH)

_r_domain_success(d) ==
  IF d = Unreadable THEN {<<"domains.unavailable", HIGH>>}
  ELSE IF traffic = "idle" THEN {}
  ELSE Fires(d.success = "low", "reliability.domain_success_rate", HIGH)
       \cup Fires(d.success = "warning", "reliability.domain_success_rate", WARNING)

Forecast(band) ==
  Fires(ceiling /\ band = "over", "cost.month_end_forecast", CRITICAL)
  \cup Fires(ceiling /\ band = "warning", "cost.month_end_forecast", WARNING)

_r_spend_forecast(s) ==
  IF s = Unreadable THEN {<<"spend.unavailable", HIGH>>}
  ELSE Fires(s.unbudgeted = "some", "cost.provider_without_budget", HIGH)
       \cup Forecast(s.forecast24) \cup Forecast(s.forecast1)
       \cup Fires(s.accelerating = "yes", "cost.spend_acceleration", HIGH)

\* "many" is the minimum for a surge to count.
_r_discovery(d) ==
  IF d = Unreadable THEN {<<"discovery.unavailable", HIGH>>}
  ELSE Fires(d.runs = "critical", "discovery.runs_per_domain_per_day", CRITICAL)
       \cup Fires(d.runs = "high", "discovery.runs_per_domain_per_day", HIGH)
       \cup Fires(d.runs # "few" /\ d.surge = "yes", "discovery.surge", HIGH)

\* No branch for a section that could not be read.
_r_deadline_failed_targets(l) ==
  Fires(l # Unreadable /\ l.deadline = "some", "jobs.deadline_failed_targets", HIGH)

_r_queue(q) ==
  IF q = Unreadable THEN {<<"queue.unavailable", HIGH>>}
  ELSE Fires(q.pending = "old", "queue.pending_target_age", HIGH)
       \cup Fires(q.started = "old", "queue.started_target_age", HIGH)
       \cup Fires(q.deferred = "old", "queue.deferred_target_age", WARNING)
       \cup Fires(q.job = "old", "queue.pending_job_age", HIGH)

_r_freshness(f) ==
  IF f = Unreadable THEN {<<"freshness.unavailable", HIGH>>}
  ELSE Fires(f.attempt = "silent", "freshness.pipeline_silent", CRITICAL)
       \cup Fires(f.attempt = "old", "freshness.pipeline_silent", HIGH)
       \cup Fires(f.rules = "none", "freshness.no_refresh_rules", HIGH)

_r_redis(r) ==
  IF r = Unreadable THEN {<<"redis.unavailable", WARNING>>}
  ELSE Fires(r.policy = "VIOLATION", "redis.policy_violation", CRITICAL)
       \cup Fires(r.policy = "UNKNOWN", "redis.policy_unknown", WARNING)
       \cup Fires(r.evicted = "some", "redis.evictions", CRITICAL)
       \cup Fires(r.memory = "high", "redis.memory", HIGH)

\* Mutant: a breaker that cannot be read has nothing to report.
_r_breaker_Blind(b) ==
  IF b = Unreadable THEN {}
  ELSE Fires(b.state = "OPEN", "breaker.open", CRITICAL)
       \cup Fires(b.state = "absent", "breaker.never_evaluated", HIGH)
       \cup Fires(b.state # "absent" /\ b.evaluated = "stale", "breaker.evaluator_stale", HIGH)

_r_breaker(b) ==
  IF b = Unreadable THEN {<<"breaker.unavailable", HIGH>>}
  ELSE Fires(b.state = "OPEN", "breaker.open", CRITICAL)
       \cup Fires(b.state = "absent", "breaker.never_evaluated", HIGH)
       \cup Fires(b.state # "absent" /\ b.evaluated = "stale", "breaker.evaluator_stale", HIGH)

\* No row, no evaluation time; an unreadable section has none either.
_r_breaker_evaluation_lag(b) ==
  Fires(b # Unreadable /\ b.state # "absent" /\ b.evaluated # "fresh", "breaker.evaluation_lag", WARNING)

_r_scrapyd(s) == Fires(s # Unreadable /\ s.inflight = "many", "scrapyd.saturation", WARNING)

_r_optimizer(o) == Fires(o # Unreadable /\ o.churn = "high", "optimizer.churn", WARNING)

_r_rls(r) == Fires(r = Unreadable \/ r.tenant = "inert", "security.rls_inert", CRITICAL)

_r_privileged_role(r) ==
  Fires(r # Unreadable /\ r.system = "superuser", "security.privileged_role_misconfigured", HIGH)

\* RULES, over a snapshot s.
evaluate(s) ==
  _r_partition(s["partitions"]) \cup _r_rollup(s["rollups"]) \cup _r_cost_rollup(s["cost"])
  \cup _r_outbox(s["outbox"]) \cup _r_requests_per_url(s["domains"]) \cup _r_domain_spend(s["domains"])
  \cup _r_wasted_spend(s["domains"]) \cup _r_cost_per_successful_price(s["domains"])
  \cup _r_spend_forecast(s["spend"]) \cup _r_discovery(s["discovery"]) \cup _r_domain_success(s["domains"])
  \cup _r_deadline_failed_targets(s["links"]) \cup _r_queue(s["queue"]) \cup _r_freshness(s["freshness"])
  \cup _r_redis(s["redis"]) \cup _r_breaker(s["breaker"]) \cup _r_scrapyd(s["scrapyd"])
  \cup _r_optimizer(s["optimizer"]) \cup _r_rls(s["role"]) \cup _r_privileged_role(s["role"])
  \cup _r_breaker_evaluation_lag(s["breaker"])

worst_severity(a) == IF a = {} THEN 0 ELSE CHOOSE n \in 0 .. 3 : /\ \E x \in a : x[2] = n
                                                                /\ \A x \in a : x[2] <= n

(***************************************************************************)
(* The probe                                                               *)
(***************************************************************************)
Start ==
  /\ at = 0
  /\ at' = 1 /\ txn' = "open" /\ failed' = {} /\ snap' = facts /\ alerts' = {}
  /\ UNCHANGED fleet

\* The two collectors that catch their own error and leave the transaction failed.
NoRollback == {"domains", "discovery"}

\* Mutant: _section returns its fallback without rolling the session back.
RolledBack_Never(s) == s = "partitions" \/ s = "links"

\* Whose error handler rolls the shared session back.
RolledBack(s) == s \notin NoRollback

\* Redis is not read through the session; _collect_spend's first query has a handler of its own
\* that rolls a failed transaction back.
NeedsTxn(s) == s \notin {"redis", "spend"}

ReadOk ==
  LET s == Order[at] IN
  /\ at \in DOMAIN Order /\ (txn = "open" \/ ~NeedsTxn(s))
  /\ txn' = IF s = "spend" THEN "open" ELSE txn
  /\ at' = at + 1
  /\ UNCHANGED <<fleet, failed, snap, alerts>>

\* The read itself fails: a missing table, a permission, a timeout.
ReadFails ==
  LET s == Order[at] IN
  /\ at \in DOMAIN Order /\ (txn = "open" \/ ~NeedsTxn(s)) /\ Cardinality(failed) < MaxFails
  /\ failed' = failed \cup {s}
  /\ snap' = [snap EXCEPT ![s] = Unreadable]
  /\ txn' = IF s = "redis" THEN txn ELSE IF RolledBack(s) THEN "open" ELSE "failed"
  /\ at' = at + 1
  /\ UNCHANGED <<fleet, alerts>>

\* Every statement on a failed transaction errors.
ReadInFailedTxn ==
  LET s == Order[at] IN
  /\ at \in DOMAIN Order /\ txn = "failed" /\ NeedsTxn(s)
  /\ snap' = [snap EXCEPT ![s] = Unreadable]
  /\ txn' = IF RolledBack(s) THEN "open" ELSE "failed"
  /\ at' = at + 1
  /\ UNCHANGED <<fleet, failed, alerts>>

\* evaluate, then emit_snapshot: the alerts are logged, or all clear is.
Finish ==
  /\ at > Len(Order)
  /\ alerts' = evaluate(snap) /\ at' = 0
  /\ UNCHANGED <<fleet, txn, failed, snap>>

\* The fleet changes between probes.
GetWorse(s) ==
  /\ at = 0 /\ worsened < MaxWorse /\ alerts = {} /\ snap = facts
  /\ \E f \in Worse(s, facts[s]) : facts' = [facts EXCEPT ![s] = f] /\ snap' = facts'
  /\ worsened' = worsened + 1
  /\ UNCHANGED <<traffic, ceiling, at, txn, failed, alerts>>

Next == Start \/ ReadOk \/ ReadFails \/ ReadInFailedTxn \/ Finish \/ \E s \in Sections : GetWorse(s)

Spec == Init /\ [][Next]_vars

Done == at > Len(Order)
Blind == {s \in Sections : snap[s] = Unreadable}

(***************************************************************************)
(* Properties                                                              *)
(***************************************************************************)
TypeOK ==
  /\ traffic \in {"idle", "some", "busy"} /\ ceiling \in BOOLEAN /\ worsened \in 0 .. MaxWorse
  /\ \A s \in Sections : \A m \in DOMAIN Scale[s] : facts[s][m] \in ToSet(Scale[s][m])
  /\ at \in 0 .. Len(Order) + 1 /\ txn \in {"open", "failed"} /\ failed \subseteq Sections
  /\ \A s \in Sections : snap[s] \in {facts[s], Unreadable}

\* One failed read blinds the sections whose own read failed and, at worst, the two that
\* follow the collectors without a rollback: the failed transaction never outlives the four
\* reads that catch their own errors (_section's "rollback is load-bearing").
BlindSpotContained ==
  Done => /\ Blind \subseteq failed \cup {"discovery", "links"}
          /\ txn = "open"

\* A probe that could not read one of the sections with an unavailable rule raises at least
\* HIGH (WARNING for Redis), so all clear is never said over one of those.
BlindIsSaid ==
  Done => \A worst \in {worst_severity(evaluate(snap))} :
            \A s \in Blind \ {"links", "optimizer", "scrapyd"} :
              worst >= IF s = "redis" THEN WARNING ELSE HIGH

\* A fleet that gets worse in one measure never gets a lower worst severity: the elif chains
\* and the overlapping thresholds of RULES are ordered the right way round.
WorseNotQuieter ==
  at = 0 /\ failed = {} => \A now \in {worst_severity(evaluate(facts))} :
              \A s \in Sections : \A f \in Worse(s, facts[s]) :
                worst_severity(evaluate([facts EXCEPT ![s] = f])) >= now

\* The module's own claim, "Every section degrades independently": a section is blind only
\* when its own read failed.  Does not hold: see BlindSpotContained.
DegradesIndependently == Done => Blind \subseteq failed
================================================================================
