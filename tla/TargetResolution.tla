-------------------------- MODULE TargetResolution --------------------------
(***************************************************************************)
(* Which access policy and which timeout a scrape target is loaded with.   *)
(* Tenants edit policies and domain rules through the API; the onboarding  *)
(* script writes both for a new domain; the timeout tuner writes the fleet *)
(* table; load_targets (scrape_core/targets.py) reads them in several      *)
(* statements of one READ COMMITTED transaction, through a short cache in  *)
(* Redis shared with the API.  One competitor, one domain, one group of    *)
(* two matches: the URL of one contains the pattern of a pattern rule.     *)
(* The references between the rows are soft: a deletion leaves them.  A    *)
(* run explores loads or applications of the script, not both: to a load,  *)
(* an application is one more edit of the same rows.                       *)
(***************************************************************************)
EXTENDS Integers, FiniteSets

CONSTANTS TTL,                             \* ACCESS_RESOLUTION_CACHE_TTL_SECONDS, in ticks
          MaxEdits, MaxLoads, MaxApplies, MaxClock

VARIABLES tier,     \* policy -> its rank, or GONE
          rule,     \* "any" (url_pattern NULL) or "pat" -> NoRule or the row
          learned,  \* domain_rules.request_timeout_seconds, 0 for NULL
          selector, \* the price selector of the scrape profile
          cache, load, said, named, clock, edits, loads

vars == <<tier, rule, learned, selector, cache, load, said, named, clock, edits, loads>>

GONE == -1
NONE == "none"
Ranks == 0 .. 2      \* DIRECT_ONLY, DIRECT_THEN_PROXY, PROXY_FIRST
NoRule == [policy |-> NONE]
NoEntry == [policy |-> "", at |-> 0]
Idle == [phase |-> "idle"]

\* "own" is the one the script names after the domain, "alt" one of the tenant's, "def" its
\* default, "glob" the fleet's, "foreign" another tenant's.
Policies == {"own", "alt", "def", "glob", "foreign"}
visible_policies == {p \in Policies \ {"foreign"} : tier[p] # GONE}
owned_policies == visible_policies \ {"glob"}

Matches == {"m1", "m2"}
HitsPattern(m) == m = "m1"

\* The pattern rule that the URL contains, then the rule without a pattern.
select_domain_rule(rules, m) ==
    IF rules["pat"] # NoRule /\ HitsPattern(m) THEN rules["pat"] ELSE rules["any"]

Enabled(rules) == [k \in DOMAIN rules |-> IF rules[k] # NoRule /\ rules[k].enabled THEN rules[k] ELSE NoRule]

\* Domain rule, workspace default, global default; what is not visible is unset.
resolve_effective_policy(rulePolicy, wsDefault, globDefault, visible) ==
    IF rulePolicy \in visible THEN rulePolicy
    ELSE IF wsDefault \in visible THEN wsDefault
    ELSE IF globDefault \in visible THEN globDefault ELSE NONE

IfThere(p) == IF p \in visible_policies THEN p ELSE NONE

Candidates(t, r) == {p \in Policies : t[p] # GONE /\ (p \in {"def", "glob"} \/ \E k \in DOMAIN r : Enabled(r)[k].policy = p)}

\* When a policy was last one that a resolution could have named.
Note == named' = [p \in Policies |->
            IF p \in Candidates(tier, rule) \cup Candidates(tier', rule') THEN clock ELSE named[p]]

(***************************************************************************)
(* The API.                                                                *)
(***************************************************************************)
Edit == edits < MaxEdits /\ edits' = edits + 1
ByApi == Edit /\ Note /\ UNCHANGED <<learned, selector, cache, load, said, clock, loads>>

create_access_policy == \E p \in {"alt", "def"}, k \in Ranks :
    tier[p] = GONE /\ tier' = [tier EXCEPT ![p] = k] /\ UNCHANGED rule /\ ByApi

update_access_policy == \E p \in owned_policies, k \in Ranks :
    tier[p] # k /\ tier' = [tier EXCEPT ![p] = k] /\ UNCHANGED rule /\ ByApi

\* The rules that name it are left alone.
delete_access_policy == \E p \in owned_policies :
    tier' = [tier EXCEPT ![p] = GONE] /\ UNCHANGED rule /\ ByApi

\* Mutant: any policy that exists may be named by a rule.
assert_policy_assignable_Any == {p \in Policies : tier[p] # GONE}

assert_policy_assignable == owned_policies

create_domain_access_rule == \E k \in {"any", "pat"}, p \in assert_policy_assignable, s \in {0, 2} :
    /\ rule[k] = NoRule
    /\ rule' = [rule EXCEPT ![k] = [policy |-> p, slow |-> s, enabled |-> TRUE]]
    /\ UNCHANGED tier /\ ByApi

update_domain_access_rule == \E k \in {"any", "pat"} :
    /\ rule[k] # NoRule
    /\ \/ \E p \in assert_policy_assignable : rule' = [rule EXCEPT ![k].policy = p]
       \/ rule' = [rule EXCEPT ![k].enabled = ~@]
    /\ UNCHANGED tier /\ ByApi

delete_domain_access_rule == \E k \in {"any", "pat"} :
    rule[k] # NoRule /\ rule' = [rule EXCEPT ![k] = NoRule] /\ UNCHANGED tier /\ ByApi

\* maintenance.domain_timeout_tune: ceil(1.5 p95) in 10..60 on the fleet's row of the domain.
clamp_domain_timeout(p95) == LET s == (3 * p95 + 1) \div 2 IN IF s < 10 THEN 10 ELSE IF s > 60 THEN 60 ELSE s

tune_domain_timeouts == \E p95 \in {20} :
    /\ Edit /\ clamp_domain_timeout(p95) # learned
    /\ learned' = clamp_domain_timeout(p95)
    /\ UNCHANGED <<tier, rule, selector, cache, load, said, named, clock, loads>>

(***************************************************************************)
(* load_targets, statement by statement, for one group.                    *)
(***************************************************************************)
LoadStep == UNCHANGED <<tier, rule, learned, selector, said, named, clock, edits>>

LoadDefaults ==
    /\ load = Idle /\ loads < MaxLoads /\ said.n = 0 /\ loads' = loads + 1
    /\ load' = [phase |-> "defaults", ws |-> IfThere("def"), glob |-> IfThere("glob")]
    /\ UNCHANGED cache /\ LoadStep

LoadRules ==
    /\ load.phase = "defaults"
    /\ load' = [phase |-> "rules", ws |-> load.ws, glob |-> load.glob, rules |-> Enabled(rule)]
    /\ UNCHANGED <<cache, loads>> /\ LoadStep

LoadVisible ==
    /\ load.phase = "rules"
    /\ load' = [phase |-> "visible", ws |-> load.ws, glob |-> load.glob, rules |-> load.rules,
                visible |-> visible_policies \cap
                    ({load.ws, load.glob} \cup {load.rules[k].policy : k \in DOMAIN load.rules})]
    /\ UNCHANGED <<cache, loads>> /\ LoadStep

\* Mutant: a hit starts the lifetime again.
Renewed_OnHit(entry) == [entry EXCEPT !.at = clock]

Renewed(entry) == entry

\* The first match of the group decides for all; the rule is matched before the cache is read.
\* An outage of Redis is a miss.
ResolveGroup == \E sample \in Matches, down \in BOOLEAN :
    /\ load.phase = "visible"
    /\ LET hit == ~down /\ cache # NoEntry
           matched == select_domain_rule(load.rules, sample)
           found == resolve_effective_policy(matched.policy, load.ws, load.glob, load.visible)
       IN  /\ load' = [phase |-> "resolved", policy |-> IF hit THEN cache.policy ELSE found,
                       rule |-> matched]
           /\ cache' = IF hit THEN Renewed(cache)
                       ELSE IF down THEN cache ELSE [policy |-> found, at |-> clock]
    /\ UNCHANGED loads /\ LoadStep

\* The learned column, then the policy's own timeout (30), then the default of 60.  The
\* target's rule is the tenant's: it has no such column.
resolve_request_timeout_seconds(r, policy) ==
    IF "request_timeout_seconds" \in DOMAIN r THEN r.request_timeout_seconds
    ELSE IF policy # NONE THEN 30 ELSE 60

\* The rows of the resolved ids are read last: an id whose row is gone yields no policy.
HandOut ==
    /\ load.phase = "resolved"
    /\ LET p == IF load.policy # NONE /\ tier[load.policy] # GONE THEN load.policy ELSE NONE
       IN load' = [phase |-> "loaded", policy |-> p, learned |-> learned,
                   timeout |-> resolve_request_timeout_seconds(load.rule, p)]
    /\ UNCHANGED <<cache, loads>> /\ LoadStep

Finish == load.phase = "loaded" /\ load' = Idle /\ UNCHANGED <<cache, loads>> /\ LoadStep

\* A load takes less than a tick.
Tick ==
    /\ clock < MaxClock /\ load = Idle
    /\ clock' = clock + 1
    /\ named' = [p \in Policies |-> IF p \in Candidates(tier, rule) THEN clock' ELSE named[p]]
    /\ cache' = IF cache # NoEntry /\ clock' - cache.at >= TTL THEN NoEntry ELSE cache
    /\ UNCHANGED <<tier, rule, learned, selector, load, said, edits, loads>>

(***************************************************************************)
(* scripts/onboard_competitor.py --apply: one transaction.  A step returns *)
(* the row it leaves and whether it refuses; a refusal rolls all back.     *)
(***************************************************************************)
\* A page of the new domain: no answer (0), an answer, a challenge instead of the product,
\* and where the price can be read from.
Sources == {"JSON_LD", "EMBEDDED_JSON", "CSS"}
PageShapes == {pg \in [status : {0, 200, 204, 403, 500}, challenge : BOOLEAN, has : SUBSET Sources] :
            pg.status \in {0, 204} => ~pg.challenge /\ pg.has = {}}

_detect_block(pg) == pg.status \in {403, 429} \/ pg.challenge

\* The sources are tried in order, on a page that answered and is no challenge.
probe_one(pg) ==
    LET ok == pg.status \in 200 .. 299 /\ ~_detect_block(pg)
    IN  [blocked |-> _detect_block(pg), clean |-> ok /\ pg.status = 200,
         method |-> IF ~ok THEN NONE
                    ELSE IF "JSON_LD" \in pg.has THEN "JSON_LD"
                    ELSE IF "EMBEDDED_JSON" \in pg.has THEN "EMBEDDED_JSON"
                    ELSE IF "CSS" \in pg.has THEN "CSS" ELSE NONE]

\* Nobody blocked and all clean, half of them blocked, or between.
recommend_access(outcomes) ==
    LET n(P(_)) == Cardinality({i \in DOMAIN outcomes : P(outcomes[i])})
        total == Cardinality(DOMAIN outcomes)
        blocked == n(LAMBDA o : o.blocked)
    IN  IF blocked = 0 /\ n(LAMBDA o : o.clean) = total THEN 0
        ELSE IF 2 * blocked >= total THEN 2 ELSE 1

\* One page with JSON-LD is enough to need no selector.
derive_extraction_config(outcomes) ==
    LET seen == {outcomes[i].method : i \in DOMAIN outcomes}
    IN  IF "JSON_LD" \notin seen /\ seen \cap {"EMBEDDED_JSON", "CSS"} # {} THEN "probed" ELSE NONE

Probed == {[rec |-> recommend_access(o), found |-> derive_extraction_config(o)] :
            o \in [1 .. 2 -> {probe_one(pg) : pg \in PageShapes}]}
DefaultSlow == 1

\* Mutant: the tier is compared the other way round.
_access_policy_diff_is_downgrade_Reversed(old, new) == new > old

_access_policy_diff_is_downgrade(old, new) == new < old

_get_or_create_or_update_access_policy(old, rec, update, allow) ==
    IF old = GONE THEN [row |-> rec, refused |-> FALSE]
    ELSE IF old = rec \/ ~update THEN [row |-> old, refused |-> FALSE]
    ELSE IF ~allow /\ _access_policy_diff_is_downgrade(old, rec) THEN [row |-> old, refused |-> TRUE]
    ELSE [row |-> rec, refused |-> FALSE]

\* _rule_diff: only the rates are compared.
_rule_diff(old) == old.slow # DefaultSlow
_rule_diff_is_downgrade(old) == DefaultSlow < old.slow

\* The row is written whole, the policy it names included.
_get_or_create_or_update_domain_access_rule(old, update, allow) ==
    LET new == [policy |-> "own", slow |-> DefaultSlow, enabled |-> TRUE]
    IN  IF old = NoRule THEN [row |-> new, refused |-> FALSE]
        ELSE IF ~_rule_diff(old) \/ ~update THEN [row |-> old, refused |-> FALSE]
        ELSE IF ~allow /\ _rule_diff_is_downgrade(old) THEN [row |-> old, refused |-> TRUE]
        ELSE [row |-> [new EXCEPT !.enabled = old.enabled], refused |-> FALSE]

\* Mutant: what the probe found replaces what is there.
_profile_diff_All(old, found) == found # NONE /\ found # old

\* Only an empty selector is filled.
_profile_diff(old, found) == old = NONE /\ found # NONE

_get_or_create_or_update_scrape_profile(old, found, update) ==
    IF update /\ _profile_diff(old, found) THEN found ELSE old

\* Mutant: what was written before the refusal is committed.
Refused_KeepsPolicy(p, refused) == refused /\ p.refused

Refused(p, refused) == refused

apply_onboarding ==
  /\ said.n < MaxApplies /\ loads = 0
  /\ \E pr \in Probed, update, allow \in BOOLEAN :
    LET p == _get_or_create_or_update_access_policy(tier["own"], pr.rec, update, allow)
        r == _get_or_create_or_update_domain_access_rule(rule["any"], update, allow)
        refused == p.refused \/ r.refused
    IN  /\ allow => update
        /\ said' = [n |-> said.n + 1, update |-> update, allow |-> allow, refused |-> refused]
        /\ tier' = IF Refused(p, refused) THEN tier ELSE [tier EXCEPT !["own"] = p.row]
        /\ rule' = IF refused THEN rule ELSE [rule EXCEPT !["any"] = r.row]
        /\ selector' = IF refused THEN selector
                       ELSE _get_or_create_or_update_scrape_profile(selector, pr.found, update)
        /\ Note
        /\ UNCHANGED <<learned, cache, load, clock, edits, loads>>

Init ==
    /\ tier \in [Policies -> {0, 2, GONE}]
    /\ tier["foreign"] = 0 /\ tier["glob"] = 0 /\ tier["alt"] = 2 /\ tier["def"] \in {0, GONE}
    /\ rule = [k \in {"any", "pat"} |-> NoRule]
    /\ learned = 0 /\ selector \in {NONE, "hand"}
    /\ cache = NoEntry /\ load = Idle
    /\ said = [n |-> 0, update |-> FALSE, allow |-> FALSE, refused |-> FALSE]
    /\ named = [p \in Policies |-> 0] /\ clock = 0 /\ edits = 0 /\ loads = 0

Next ==
    \/ create_access_policy \/ update_access_policy \/ delete_access_policy
    \/ create_domain_access_rule \/ update_domain_access_rule \/ delete_domain_access_rule
    \/ tune_domain_timeouts
    \/ LoadDefaults \/ LoadRules \/ LoadVisible \/ ResolveGroup \/ HandOut \/ Finish
    \/ Tick \/ apply_onboarding

Spec == Init /\ [][Next]_vars

(***************************************************************************)
(* Properties.                                                             *)
(***************************************************************************)

\* A target runs under its own tenant's policy or the fleet's, whatever was deleted and
\* whatever the cache holds; and no rule names another tenant's policy or the fleet's.
OwnPolicyOnly ==
    /\ load.phase = "loaded" => load.policy # "foreign"
    /\ \A k \in DOMAIN rule : rule[k].policy \notin {"foreign", "glob"}

\* A policy that no enabled rule and no default names any more is handed out for at most
\* the lifetime of a cache entry, however often the entry is hit in between.
StaleBounded ==
    load.phase = "loaded" /\ load.policy # NONE => clock - named[load.policy] < TTL

\* Without --allow-downgrade an application of the script never lowers the tier of the
\* domain's policy and never loosens the rates of its rule, by any path through the script.
Applied == said'.n # said.n
NeverLoosenedStep ==
    Applied /\ ~said'.allow =>
        /\ tier'["own"] >= tier["own"]
        /\ rule["any"] # NoRule => rule'["any"].slow >= rule["any"].slow
NeverLoosened == [][NeverLoosenedStep]_vars

\* A refused application leaves every row as it was; an application without
\* --update-existing leaves every row that existed as it was; and a selector that somebody
\* wrote by hand survives them all.
ReusedUnchangedStep ==
    Applied =>
        /\ said'.refused => <<tier', rule', selector'>> = <<tier, rule, selector>>
        /\ ~said'.update => /\ tier["own"] # GONE => tier' = tier
                            /\ rule["any"] # NoRule => rule' = rule
        /\ selector = "hand" => selector' = "hand"
ReusedUnchanged == [][ReusedUnchangedStep]_vars

\* What the comment above apply_onboarding says: "an operator can never *silently* loosen
\* an access tier or rate rule by re-running".  The rule is re-pointed to the script's own
\* policy when its rates differ, and the policy it named is not compared.
RuleTierHeldStep ==
    Applied /\ ~said'.allow /\ rule["any"] # NoRule =>
        tier'[rule'["any"].policy] >= tier[rule["any"].policy]
RuleTierHeld == [][RuleTierHeldStep]_vars

\* resolve_effective_policy: "a dangling/cross-workspace id is treated as unset and the
\* chain falls through".  An id out of the cache does not fall through.
FallsThrough == load.phase = "loaded" /\ tier["glob"] # GONE => load.policy # NONE

\* resolve_request_timeout_seconds: the learned value of the domain is its first source.
LearnedTimeoutUsed == load.phase = "loaded" /\ load.learned # 0 => load.timeout = load.learned
=============================================================================
