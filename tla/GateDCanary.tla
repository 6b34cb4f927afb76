---------------------------- MODULE GateDCanary ----------------------------
(***************************************************************************)
(* scripts/run_gate_d_canary.py: the commands of the release canary and    *)
(* the files they hand to each other in the evidence bundle.  The sample   *)
(* is drawn from the matches of the database, stratum by stratum, and the  *)
(* remainder in proportion to the domains; the SLA is computed from the    *)
(* sample; the job is enqueued by the operator under the SLA on disk; the  *)
(* finished run is evaluated from its facts; the bundle is signed.  A match is a number,   *)
(* and the numbers are in the order of the seed's hash.                    *)
(***************************************************************************)
EXTENDS Integers, FiniteSets, FiniteSetsExt, TLC

CONSTANTS Pools,       \* the databases to start from: Ids -> rows
          Domains, Strata, Sizes,
          Floor,       \* the floor of a stratum
          Cost,        \* seconds of one target of a domain, attempts and latency included
          Certified,   \* the certified domains
          TargetSeconds, FleetSlots, MaxFaults,
          MaxCommands(_) \* how many commands are run over a database

VARIABLES rows, files, enqueued, facts, faults, commands

vars == <<rows, files, enqueued, facts, faults, commands>>

Nil == [absent |-> TRUE]
Ids == DOMAIN rows

\* load_candidate_pool: ACTIVE matches and the labelled subset.
Pool == {i \in Ids : rows[i].class = "ACTIVE" \/ rows[i].labelled}
In(s, i) == s \in rows[i].strata
Lowest(S, n) == {i \in S : Cardinality({j \in S : j < i}) < n}
Supply(s) == Cardinality({i \in Pool : In(s, i)})

\* The strata in the order of supply, then name: a total order of the set.
Before(s, t) == Supply(s) < Supply(t) \/ (Supply(s) = Supply(t) /\ Floor[s].name < Floor[t].name)

Wanted(s) == Min({Floor[s].n, Supply(s)})

\* One stratum adds, in order, what its floor lacks, up to the size.
Topped(s, chosen, size) ==
    LET have == Cardinality({i \in chosen : In(s, i)})
        lack == IF have >= Wanted(s) THEN 0 ELSE Wanted(s) - have
        room == size - Cardinality(chosen)
    IN  chosen \cup Lowest({i \in Pool \ chosen : In(s, i)}, Min({lack, room}))

\* Mutant: the labelled subset is drawn like everybody else.
Mandatory_Sampled(size) == {}

Mandatory(size) == Lowest({i \in Pool : rows[i].labelled}, size)

Floors(size) ==
    LET after[S \in SUBSET Strata] ==
            IF S = {} THEN Mandatory(size)
            ELSE LET last == CHOOSE s \in S : \A t \in S \ {s} : Before(t, s)
                 IN  Topped(last, after[S \ {last}], size)
    IN  after[Strata]

Of(d, S) == {i \in S : rows[i].domain = d}

\* The share of a domain in what is still to be chosen: n of total.
Quota(d, chosen, remaining) ==
    [n |-> remaining * Cardinality(Of(d, Pool \ chosen)), total |-> Cardinality(Pool \ chosen)]

\* Mutant: the whole parts are all that is dealt.
Leftover_None(remaining, allotted) == 0

Leftover(remaining, allotted) == remaining - allotted

\* _proportional_fill: the whole part of each quota, then one more by largest remainder.
_proportional_fill(chosen, remaining) ==
    LET q(d) == Quota(d, chosen, remaining)
        left == Pool \ chosen
        there == {d \in Domains : Of(d, left) # {}}
        whole(d) == Min({q(d).n \div q(d).total, Cardinality(Of(d, left))})
        rest == Leftover(remaining, MapThenSumSet(whole, there))
        rem(d) == q(d).n % q(d).total
        size(d) == Cardinality(Of(d, left))
        ahead(d, e) == \/ rem(d) > rem(e)
                       \/ rem(d) = rem(e) /\ size(d) > size(e)
                       \/ rem(d) = rem(e) /\ size(d) = size(e) /\ Cost[d].name < Cost[e].name
        open == {d \in there : whole(d) < size(d)}
        rank(d) == Cardinality({e \in open \ {d} : ahead(e, d)})
        got(d) == whole(d) + IF d \in open /\ rank(d) < rest THEN 1 ELSE 0
    IN  UNION {Lowest(Of(d, left), got(d)) : d \in there}

build_stratified_sample(size) ==
    LET base == Floors(size)
        remaining == size - Cardinality(base)
    IN  IF remaining = 0 THEN base ELSE base \cup _proportional_fill(base, remaining)

\* Mutant: a stratum that reaches nobody is not a problem.
validate_sample_Nonempty(S) == {}

validate_sample(S) ==
    {s \in Strata :
        LET have == Cardinality({i \in S : In(s, i)})
        IN  have = 0 \/ (have < Floor[s].n /\ Wanted(s) = Floor[s].n)}

compute_completion_sla(mix) ==
    LET seconds(d) == mix[d] * Cost[d].seconds
        fleet == MapThenSumSet(seconds, Domains) \div FleetSlots
    IN  Max({TargetSeconds, fleet} \cup {seconds(d) : d \in Domains})

(***************************************************************************)
(* The commands.  Each reads and writes the bundle as one step: nothing    *)
(* else runs beside it.                                                    *)
(***************************************************************************)
Command == commands < MaxCommands(rows) /\ commands' = commands + 1

\* The files are written whatever the validation says; only the exit code differs.
cmd_build_sample ==
    /\ Command
    /\ \E size \in Sizes, banner \in {"restore", "live"} :
         /\ Cardinality(Pool) >= size
         /\ LET S == build_stratified_sample(size)
                base == Floors(size)
            IN files' = [files EXCEPT !.target_set =
                           [hash |-> S, banner |-> banner, size |-> size, base |-> base,
                            problems |-> validate_sample(S),
                            mix |-> [d \in Domains |-> Cardinality(Of(d, S))]]]
    /\ UNCHANGED <<rows, enqueued, facts, faults>>

\* Mutant: the banner is the one of the command line's default.
Banner_Default(t) == "live"

Banner(t) == t.banner

cmd_precompute_sla ==
    /\ Command /\ files.target_set # Nil
    /\ files' = [files EXCEPT !.sla =
                   [hash |-> files.target_set.hash, banner |-> Banner(files.target_set),
                    drawn |-> files.target_set.banner,
                    seconds |-> compute_completion_sla(files.target_set.mix)]]
    /\ UNCHANGED <<rows, enqueued, facts, faults>>

\* require_owner_go: the step's own token and every gate of the deploy list.
require_owner_go(go, gates) == go /\ gates

\* The command only prints that enqueueing is permitted; the operator then enqueues by the
\* normal path, under the SLA printed.
cmd_enqueue ==
    /\ Command /\ enqueued = Nil
    /\ \E go, gates \in BOOLEAN : require_owner_go(go, gates)
    /\ files.sla # Nil /\ files.target_set # Nil
    /\ files.sla.banner # "restore"
    /\ enqueued' = [sla |-> files.sla, sample |-> files.target_set.hash]
    /\ UNCHANGED <<rows, files, facts, faults>>

(***************************************************************************)
(* Step 5.  The facts of a run and the checks over them; a fraction is     *)
(* compared by its cross product.                                          *)
(***************************************************************************)
\* Counts that must be zero, by the name of their check.
Zeroed == {"zero_unaccounted_targets", "no_success_labeled_failed", "stech_zero_false_not_listed",
           "no_duplicate_physical_dispatch", "no_shared_guard_identity",
           "no_unledgered_paid_operations", "no_grant_left_reserved_after_drain",
           "no_canary_attributable_invariant_alert"}

\* fresh rate per certified domain: above or below the floor of 90 in a hundred, or missing.
Good == [terminal |-> TRUE, elapsed |-> 1, sla |-> 1, total |-> 2, one |-> 2,
         count |-> [c \in Zeroed |-> 0], eligible |-> 2, fresh |-> 2,
         domain |-> [d \in Certified |-> "above"], technical |-> 0, app |-> 2, provider |-> 2,
         grants |-> 1, exact |-> 1, budget |-> 1, settled |-> 1, proxy |-> 1, combined |-> 1,
         ceiling |-> 1, railway |-> "confirmed", billed |-> 1, fired |-> TRUE, signed |-> TRUE]

Within2Pct(a, b) == Max({a, b}) = 0 \/ 100 * (Max({a, b}) - Min({a, b})) <= 2 * Max({a, b})

\* Mutant: no eligible target is a rate of one.
_rate_atLeast_Vacuous(n, d, pct) == 100 * n >= pct * d

\* _rate: nothing over nothing is zero.
_rate_atLeast(n, d, pct) == d > 0 /\ 100 * n >= pct * d

\* A certified domain whose rate is missing passes its floor; what Railway has not reported
\* is pending, which is no failure.
evaluate_canary(f) ==
    [c \in Zeroed |-> f.count[c] = 0] @@
    [terminal_within_sla |-> f.terminal /\ f.elapsed <= f.sla,
     one_explainable_terminal_outcome |-> f.one = f.total,
     fresh_comparable_offer_rate |-> _rate_atLeast(f.fresh, f.eligible, 95),
     certified_domain_floor |-> \A d \in Certified : f.domain[d] # "below",
     technical_failure_rate |-> ~(f.total > 0 /\ 100 * f.technical > 2 * f.total),
     provider_reconciliation_within_2pct |-> Within2Pct(f.app, f.provider),
     grant_operation_cardinality |-> f.grants = f.exact,
     budget_vs_ledger_reconciliation |-> Within2Pct(f.budget, f.settled),
     proxy_cost_ceiling |-> f.proxy <= f.ceiling,
     combined_cost_ceiling_provisional |-> f.combined <= f.ceiling,
     combined_cost_railway_confirmation |->
        f.railway = "unreported" \/ (f.railway = "confirmed" /\ f.billed <= f.ceiling),
     deliberate_test_alert_fired |-> f.fired,
     evidence_bundle_signed |-> f.signed]

Failed(f) ==
    LET checks == evaluate_canary(f)
    IN  {c \in DOMAIN checks : ~checks[c]}

\* Mutant: what is pending is reported before what failed.
verdict_PendingFirst(f) ==
    IF f.railway = "unreported" THEN "GO-PENDING-CONFIRMATION"
    ELSE IF Failed(f) # {} THEN "NO-GO" ELSE "GO"

verdict(f) ==
    IF Failed(f) # {} THEN "NO-GO"
    ELSE IF f.railway = "unreported" THEN "GO-PENDING-CONFIRMATION" ELSE "GO"

\* What can turn out worse in the facts of a run, one at a time; the facts of a certified
\* domain may get lost whatever they said.
Worsened(f) ==
    {[f EXCEPT !.count[c] = @ + 1] : c \in Zeroed}
    \cup {[f EXCEPT !.domain[d] = "below"] : d \in {e \in Certified : f.domain[e] = "above"}}
    \cup {[f EXCEPT !.domain[d] = "missing"] : d \in Certified}
    \cup {[f EXCEPT !.terminal = FALSE], [f EXCEPT !.elapsed = @ + 1],
          [f EXCEPT !.one = Max({0, @ - 1})], [f EXCEPT !.fresh = Max({0, @ - 1})],
          [f EXCEPT !.eligible = 0, !.fresh = 0], [f EXCEPT !.technical = @ + 1],
          [f EXCEPT !.provider = @ + 1], [f EXCEPT !.exact = Max({0, @ - 1})],
          [f EXCEPT !.settled = @ + 1], [f EXCEPT !.proxy = @ + 1], [f EXCEPT !.combined = @ + 1],
          [f EXCEPT !.billed = @ + 1], [f EXCEPT !.fired = FALSE], [f EXCEPT !.signed = FALSE],
          [f EXCEPT !.railway = IF @ = "confirmed" /\ f.billed <= f.ceiling THEN "unreported" ELSE "refuted"]}

\* The run that was enqueued turns out to have one more fault.
RunGoesWrong ==
    /\ enqueued # Nil /\ faults < MaxFaults
    /\ faults' = faults + 1
    /\ facts' \in Worsened(facts)
    /\ UNCHANGED <<rows, files, enqueued, commands>>

cmd_evaluate ==
    /\ Command /\ enqueued # Nil
    /\ files' = [files EXCEPT !.evaluation = [verdict |-> verdict(facts)]]
    /\ UNCHANGED <<rows, enqueued, facts, faults>>

\* Mutant: the recorded verdict is not looked at.
MaySign_Any(signNoGo) == TRUE

\* No evaluation on disk is no objection.
MaySign(signNoGo) ==
    files.evaluation # Nil => (files.evaluation.verdict = "NO-GO" => signNoGo)

\* Step 7 names its own token and no gate; the decision is the command line's.
cmd_sign ==
    /\ Command /\ files.target_set # Nil
    /\ \E go, signNoGo \in BOOLEAN, decision \in {"GO", "NO-GO"} :
         /\ require_owner_go(go, TRUE)
         /\ MaySign(signNoGo)
         /\ files' = [files EXCEPT !.approval =
              [decision |-> decision, preserved |-> signNoGo, evaluation |-> files.evaluation]]
    /\ UNCHANGED <<rows, enqueued, facts, faults>>

Init ==
    /\ rows \in Pools
    /\ files = [target_set |-> Nil, sla |-> Nil, evaluation |-> Nil, approval |-> Nil]
    /\ enqueued = Nil /\ facts = Good /\ faults = 0 /\ commands = 0

Next ==
    \/ cmd_build_sample \/ cmd_precompute_sla \/ cmd_enqueue
    \/ RunGoesWrong \/ cmd_evaluate \/ cmd_sign

Spec == Init /\ [][Next]_vars

(***************************************************************************)
(* Properties.                                                             *)
(***************************************************************************)
Sample == files.target_set
Built == Sample # Nil

\* The labelled matches are the regression corpus: they are all in the sample, or the
\* sample is made of nothing else (build_stratified_sample, "Mandatory first").
LabelledWhole ==
    Built => LET labelled == {i \in Ids : rows[i].labelled}
             IN  labelled \subseteq Sample.hash \/ Sample.hash \subseteq labelled

Taken(s) == Cardinality({i \in Sample.hash : In(s, i)})

\* A stratum short of its floor is named among the problems, whoever took its places: unless
\* the database itself cannot fill the floor and somebody of the stratum was drawn, which the
\* sample reports as capped (validate_sample).
ShortStratumIsSaid ==
    Built => \A s \in Strata :
        (Taken(s) < Floor[s].n /\ s \notin Sample.problems) => Supply(s) < Floor[s].n /\ Taken(s) > 0

\* The sample has the size asked for and only authorized matches; and the part no floor
\* claimed mirrors the domains of what was left: each gets the whole part of its share or
\* one more (_proportional_fill).
FillIsProportional ==
    Built =>
        LET left == Pool \ Sample.base
            n == Sample.size - Cardinality(Sample.base)
        IN  /\ Cardinality(Sample.hash) = Sample.size
            /\ Sample.hash \subseteq Pool
            /\ n > 0 => \A d \in Domains :
                 LET share == (n * Cardinality(Of(d, left))) \div Cardinality(left)
                 IN  Cardinality(Of(d, Sample.hash \ Sample.base)) \in {share, share + 1}

\* Nothing is enqueued on the strength of a sample drawn from the restored database,
\* whatever was rebuilt in between (cmd_enqueue).
RestoreNeverEnqueued == enqueued # Nil => enqueued.sla.drawn = "live"

\* A run that got worse in some respect never gets a better verdict, but by losing the facts
\* of a certified domain that was below its floor (evaluate_canary).
Rank(v) == CASE v = "GO" -> 2 [] v = "GO-PENDING-CONFIRMATION" -> 1 [] v = "NO-GO" -> 0
FactsLost == \E d \in Certified : facts.domain[d] = "below" /\ facts'.domain[d] = "missing"
WorseNeverHelps ==
    (RunGoesWrong /\ ~FactsLost) => Rank(verdict(facts')) <= Rank(verdict(facts))
VerdictMonotoneInFaults == [][WorseNeverHelps]_vars

\* A bundle that is signed although its verdict was NO-GO was preserved on purpose (cmd_sign).
NoGoOnlyPreserved ==
    files.approval # Nil /\ files.approval.evaluation # Nil =>
        (files.approval.evaluation.verdict = "NO-GO" => files.approval.preserved)

\* What the refusal of cmd_sign says of --sign-no-go: the evidence of a failed run "is
\* signed as a NO-GO record".  The decision written is the command line's, GO by default.
SignedAsNoGo ==
    files.approval # Nil /\ files.approval.evaluation # Nil =>
        (files.approval.evaluation.verdict = "NO-GO" => files.approval.decision = "NO-GO")

\* The SLA a run is judged by is the one of the sample on disk when it was enqueued.  A
\* rebuilt sample leaves the old SLA, and cmd_enqueue never reads TARGET_SET_HASH.txt.
EnqueuedSlaIsOfSample == enqueued # Nil => enqueued.sla.hash = enqueued.sample

\* What the strata's comment says of a floor above supply, "reported as capped": but the
\* capped stratum that was drawn less than it could be is not told from the one drawn whole.
CappedIsDrawnWhole ==
    Built => \A s \in Strata :
        Taken(s) < Min({Floor[s].n, Supply(s)}) => s \in Sample.problems

\* What CanaryFacts says of its checks: "no check can pass because a query silently returned
\* nothing".  A certified domain without a rate passes certified_domain_floor.
LostFactsNeverHelp == [][RunGoesWrong => Rank(verdict(facts')) <= Rank(verdict(facts))]_vars
=============================================================================
