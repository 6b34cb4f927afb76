---------------------------- MODULE AccessDecision ----------------------------
(* _prepare_dispatch: how the next attempt of a target is decided.  The rate   *)
(* ceiling and the cooldown of its domain (Redis), the attempt engine, the    *)
(* spend breaker, the proxy and its monthly budget (Redis), in this order.    *)
(* Several targets share the counters.  Redis may be away.                    *)
EXTENDS Integers, FiniteSets, TLAPS

CONSTANTS Targets,
          Policies,     \* access policies a target may resolve to
          Starts,       \* learned first methods (None: no strategy)
          None,
          Ceiling,      \* max_requests_per_minute (None: no ceiling)
          Cooldown,     \* the domain rule has a cooldown
          Budget,       \* monthly_budget_limit of the provider (None: no limit)
          FailOpen,     \* PROXY_LEDGER_FAIL_OPEN
          MaxWindows,   \* bound on the ceiling windows
          MaxMonths     \* bound on the months

VARIABLES tgt,       \* Targets -> [policy, start, n, plan]
          count,     \* requests counted in the ceiling's window
          cooling,   \* the cooldown key of the domain is set
          used,      \* requests counted in the provider's month
          redis,     \* Redis answers
          open,      \* the breaker's answer is no
          provider,  \* an eligible provider is visible
          windows, months,
          paid,      \* history: proxied plans of the month
          last       \* history: the last decision taken

vars == <<tgt, count, cooling, used, redis, open, provider, windows, months, paid, last>>

Stop == [method |-> "STOP", proxy |-> FALSE]
Plan(m, p) == [method |-> m, proxy |-> p]
ProxyImplied(m) == m \in {"PROXY_HTTP", "PLAYWRIGHT_PROXY"}
Direct(n) == Plan(IF n = 1 THEN "DIRECT_HTTP" ELSE "DIRECT_HTTP_RETRY", FALSE)

-----------------------------------------------------------------------------
(* engine.py: the pure decision.                                             *)

NormalPlan(p, n, start) ==
  CASE n = 1 /\ start # None -> Plan(start, ProxyImplied(start))
    [] p.strategy = "DIRECT_ONLY" -> Direct(n)
    [] p.strategy = "DIRECT_THEN_PROXY" ->
         IF n = 1 THEN Plan("DIRECT_HTTP", p.proxyFirst)
         ELSE IF p.proxyRetry THEN Plan("PROXY_HTTP", TRUE) ELSE Direct(n)
    [] p.strategy \in {"PROXY_FIRST", "RESIDENTIAL_ONLY"} -> Plan("PROXY_HTTP", TRUE)
    [] p.strategy = "BROWSER_FALLBACK" -> IF n = 1 THEN Direct(1) ELSE Plan("PROXY_HTTP", TRUE)

TerminalPlan(p) ==
  IF p.strategy # "DIRECT_ONLY" /\ (p.strategy = "BROWSER_FALLBACK" \/ p.browser)
  THEN Plan("PLAYWRIGHT_PROXY", TRUE) ELSE Stop

\* Mutant: a step past the retries keeps its proxy.
DegradeForBudget_KeepsTerminal(p, n) ==
  IF n > p.retries + 1 THEN TerminalPlan(p)
  ELSE IF p.strategy \in {"PROXY_FIRST", "RESIDENTIAL_ONLY"} THEN Stop ELSE Direct(n)

DegradeForBudget(p, n) ==
  IF n > p.retries + 1 \/ p.strategy \in {"PROXY_FIRST", "RESIDENTIAL_ONLY"} THEN Stop ELSE Direct(n)

\* Mutant: no retries still means a browser.
NextAttempt_BrowserWithoutRetries(p, n, start, exhausted) ==
  LET plan == CASE n <= p.retries + 1 -> NormalPlan(p, n, start)
                [] n = p.retries + 2 -> TerminalPlan(p)
                [] OTHER -> Stop
  IN  IF exhausted /\ plan.proxy THEN DegradeForBudget(p, n) ELSE plan

NextAttempt(p, n, start, exhausted) ==
  LET plan == CASE n <= p.retries + 1 -> NormalPlan(p, n, start)
                [] n = p.retries + 2 /\ p.retries >= 1 -> TerminalPlan(p)
                [] OTHER -> Stop
  IN  IF exhausted /\ plan.proxy THEN DegradeForBudget(p, n) ELSE plan

-----------------------------------------------------------------------------
(* budget.py: each answer with whether the ledger was away.                  *)

\* check_rate_ceilings fails open; the count moves even when it says no.
RateAllowed  == Ceiling = None \/ ~redis \/ count < Ceiling
RateDegraded == Ceiling # None /\ ~redis
Counted      == IF Ceiling # None /\ redis /\ count <= Ceiling THEN count + 1 ELSE count

\* check_domain_cooldown_gate fails open.
CooldownAllowed == ~Cooldown \/ ~redis \/ ~cooling
LedgerDegraded  == RateDegraded \/ (Cooldown /\ ~redis)

\* Mutant: off by one.
BudgetAllowed_OffByOne == Budget = None \/ (IF redis THEN used <= Budget ELSE FailOpen)

\* incr_and_check_monthly_budget fails closed.
BudgetAllowed == Budget = None \/ (IF redis THEN used < Budget ELSE FailOpen)
Charged       == IF Budget # None /\ redis /\ used <= Budget THEN used + 1 ELSE used

-----------------------------------------------------------------------------
Init == /\ tgt \in [Targets -> [policy : Policies, start : Starts, n : {1}, plan : {Stop}, over : {FALSE}]]
        /\ count = 0 /\ used = 0 /\ cooling = FALSE
        /\ redis = TRUE /\ open \in BOOLEAN /\ provider \in BOOLEAN
        /\ windows = 1 /\ months = 1
        /\ paid = 0
        /\ last = [plan |-> Stop, code |-> "none", open |-> FALSE, redis |-> TRUE]

\* Mutant: the breaker is asked only while the ledger answers.
PaidDenied_LedgerOnly == LedgerDegraded /\ ~FailOpen

\* What stops a proxied plan before a proxy is chosen.
PaidDenied == (LedgerDegraded /\ ~FailOpen) \/ open

\* The decision for a plan whose gates up to here said yes: the plan it ends
\* with and the code it is skipped with, if it ends with none.
Decided(plan, degraded) ==
  CASE ~plan.proxy -> [plan |-> plan, code |-> "none"]
    [] plan.proxy /\ PaidDenied ->
         [plan |-> degraded,
          code |-> IF LedgerDegraded /\ ~FailOpen THEN "LIMIT_REACHED" ELSE "BREAKER_OPEN"]
    [] plan.proxy /\ ~PaidDenied /\ ~provider -> [plan |-> degraded, code |-> "PROXY_FAILED"]
    [] OTHER -> IF BudgetAllowed THEN [plan |-> plan, code |-> "none"]
                ELSE [plan |-> degraded, code |-> "LIMIT_REACHED"]

\* _prepare_dispatch.  A ceiling's no leaves the attempt to be asked again.
Prepare(t) ==
  /\ ~tgt[t].over
  /\ count' = Counted
  /\ cooling' = (cooling \/ (RateAllowed /\ Cooldown /\ redis))
  /\ LET p == tgt[t].policy
         plan == NextAttempt(p, tgt[t].n, tgt[t].start, FALSE)
         d == Decided(plan, NextAttempt(p, tgt[t].n, tgt[t].start, TRUE))
         charged == plan.proxy /\ ~PaidDenied /\ provider
     IN
     IF ~RateAllowed \/ ~CooldownAllowed
     THEN /\ last' = [plan |-> Stop, code |-> "RATE_LIMITED", open |-> open, redis |-> redis]
          /\ UNCHANGED <<tgt, used, paid>>
     ELSE /\ used' = IF charged THEN Charged ELSE used
          /\ paid' = IF d.plan.proxy THEN paid + 1 ELSE paid
          /\ last' = [plan |-> d.plan, open |-> open, redis |-> redis,
                      code |-> IF plan = Stop \/ d.plan # Stop THEN "none" ELSE d.code]
          /\ tgt' = [tgt EXCEPT ![t].plan = d.plan, ![t].over = d.plan = Stop]
  /\ UNCHANGED <<redis, open, provider, windows, months>>

\* The request failed: the next attempt is prepared.
Retry(t) ==
  /\ tgt[t].plan # Stop
  /\ tgt' = [tgt EXCEPT ![t].n = @ + 1, ![t].plan = Stop]
  /\ UNCHANGED <<count, cooling, used, redis, open, provider, windows, months, paid, last>>

\* The window's key and the cooldown's expire; the month turns and with it the budget's key.
WindowEnds ==
  /\ count > 0 /\ windows < MaxWindows
  /\ count' = 0 /\ cooling' = FALSE /\ windows' = windows + 1
  /\ UNCHANGED <<tgt, used, redis, open, provider, months, paid, last>>

MonthEnds ==
  /\ months < MaxMonths
  /\ used' = 0 /\ paid' = 0 /\ months' = months + 1
  /\ UNCHANGED <<tgt, count, cooling, redis, open, provider, windows, last>>

Environment ==
  /\ \/ redis' = ~redis /\ UNCHANGED <<open, provider>>
     \/ open' = ~open /\ UNCHANGED <<redis, provider>>
     \/ provider' = ~provider /\ UNCHANGED <<redis, open>>
  /\ UNCHANGED <<tgt, count, cooling, used, windows, months, paid, last>>

Next == (\E t \in Targets : Prepare(t) \/ Retry(t)) \/ WindowEnds \/ MonthEnds \/ Environment

Spec == Init /\ [][Next]_vars

-----------------------------------------------------------------------------
TypeOK ==
  /\ \A t \in Targets : tgt[t].n \in Nat \ {0} /\ tgt[t].plan.proxy \in BOOLEAN
  /\ count \in Nat /\ used \in Nat /\ paid \in Nat
  /\ last.code \in {"none", "RATE_LIMITED", "LIMIT_REACHED", "BREAKER_OPEN", "PROXY_FAILED"}

(* A provider's month never pays for more proxied attempts than its limit,    *)
(* whatever Redis does, unless the deployment chose to fail open.             *)
PaidWithinBudget == (Budget # None /\ ~FailOpen) => paid <= Budget

(* An attempt goes through a proxy only while the breaker allows it and, when *)
(* some gate needs the ledger, only while the ledger answers: degrading a     *)
(* step never brings a proxy back.                                            *)
NoPaidWhenDenied ==
  last.plan.proxy =>
    ~last.open /\ (FailOpen \/ last.redis \/ (Ceiling = None /\ ~Cooldown /\ Budget = None))

(* The ladder ends: a target makes at most one attempt per retry, one more    *)
(* for the browser, and a policy without retries makes exactly one.           *)
LadderEnds ==
  \A t \in Targets :
    tgt[t].plan # Stop => tgt[t].n <= tgt[t].policy.retries + (IF tgt[t].policy.retries = 0 THEN 1 ELSE 2)

(* "DIRECT_ONLY never proxies" (enums.AccessStrategy, access/engine.py).      *)
DirectOnlyNeverProxies ==
  \A t \in Targets : tgt[t].policy.strategy = "DIRECT_ONLY" => ~tgt[t].plan.proxy

(* A proxied attempt is recorded under a method collect_observation counts as *)
(* paid, so that the breaker sees what it is there to stop.                   *)
PaidIsCounted ==
  \A t \in Targets : tgt[t].plan.proxy => ProxyImplied(tgt[t].plan.method)

-----------------------------------------------------------------------------
(* Proofs.                                                                   *)

Strategies == {"DIRECT_ONLY", "DIRECT_THEN_PROXY", "PROXY_FIRST", "RESIDENTIAL_ONLY", "BROWSER_FALLBACK"}
Methods == {"DIRECT_HTTP", "DIRECT_HTTP_RETRY", "PROXY_HTTP", "PLAYWRIGHT", "PLAYWRIGHT_PROXY"}
Codes == {"none", "RATE_LIMITED", "LIMIT_REACHED", "BREAKER_OPEN", "PROXY_FAILED"}

\* What a resolved policy and a learned start are, and a limit that is set is a number.
Settings ==
  /\ \A p \in Policies : /\ p.strategy \in Strategies /\ p.retries \in Nat
                         /\ p.proxyFirst \in BOOLEAN /\ p.proxyRetry \in BOOLEAN
                         /\ p.browser \in BOOLEAN
  /\ Starts \subseteq {None} \cup Methods
  /\ Ceiling \in Nat \cup {None} /\ Budget \in Nat \cup {None}
  /\ Cooldown \in BOOLEAN /\ FailOpen \in BOOLEAN

Plans == [method : Methods \cup {"STOP"}, proxy : BOOLEAN]

\* What a policy allows of an attempt's number.
LastAttempt(p) == p.retries + (IF p.retries = 0 THEN 1 ELSE 2)

Shape ==
  /\ tgt \in [Targets -> [policy : Policies, start : Starts, n : Nat \ {0}, plan : Plans, over : BOOLEAN]]
  /\ count \in Nat /\ used \in Nat /\ paid \in Nat
  /\ redis \in BOOLEAN /\ open \in BOOLEAN
  /\ last \in [plan : Plans, code : Codes, open : BOOLEAN, redis : BOOLEAN]

\* While the ledger decides, the history of the month is what it counted, within the limit.
PaidIsCharged == (Budget # None /\ ~FailOpen) => paid <= used /\ paid <= Budget

IInv == Shape /\ PaidIsCharged /\ NoPaidWhenDenied /\ LadderEnds

\* Degrading a step never brings a proxy back, nor a plan past the retries.
LEMMA DegradedIsDirect ==
  ASSUME Settings, NEW p \in Policies, NEW n \in Nat \ {0}
  PROVE  LET d == DegradeForBudget(p, n)
         IN  d \in Plans /\ ~d.proxy /\ (d # Stop => n <= p.retries + 1)
BY DEF Settings, DegradeForBudget, Direct, Plan, Stop, Plans, Methods

\* The engine answers with a plan, and with Stop after the last attempt; the answer
\* under an exhausted budget has no proxy.
LEMMA EngineAnswers ==
  ASSUME Settings, NEW p \in Policies, NEW n \in Nat \ {0}, NEW start \in Starts, NEW e \in BOOLEAN
  PROVE  LET a == NextAttempt(p, n, start, e)
         IN  a \in Plans /\ (a # Stop => n <= LastAttempt(p)) /\ (e => ~a.proxy)
<1> DEFINE plan == CASE n <= p.retries + 1 -> NormalPlan(p, n, start)
                     [] n = p.retries + 2 /\ p.retries >= 1 -> TerminalPlan(p)
                     [] OTHER -> Stop
<1>1. NormalPlan(p, n, start) \in Plans
  BY DEF Settings, NormalPlan, ProxyImplied, Direct, Plan, Plans, Methods, Strategies
<1>2. TerminalPlan(p) \in Plans /\ Stop \in Plans
  BY DEF TerminalPlan, Plan, Stop, Plans, Methods
<1>3. plan \in Plans /\ (plan # Stop => n <= LastAttempt(p))
  BY <1>1, <1>2 DEF LastAttempt, Settings
<1>4. NextAttempt(p, n, start, e) = IF e /\ plan.proxy THEN DegradeForBudget(p, n) ELSE plan
  BY DEF NextAttempt
<1> HIDE DEF plan
<1>5. p.retries \in Nat /\ p.retries + 1 <= LastAttempt(p)
  BY DEF Settings, LastAttempt
<1> DEFINE d == DegradeForBudget(p, n)
<1>6. d \in Plans /\ ~d.proxy /\ (d # Stop => n <= p.retries + 1)
  BY DegradedIsDirect
<1>7. d # Stop => n <= LastAttempt(p)
  BY <1>5, <1>6 DEF LastAttempt
<1> HIDE DEF d
<1>8. plan.proxy \in BOOLEAN
  BY <1>3 DEF Plans
<1> QED BY <1>3, <1>4, <1>6, <1>7, <1>8 DEF d

LEMMA InitOK == ASSUME Settings PROVE Init => IInv
<1> SUFFICES ASSUME Init PROVE IInv
  OBVIOUS
<1>1. Stop \in Plans /\ ~Stop.proxy /\ "none" \in Codes
  BY DEF Stop, Plans, Codes
<1>2. \A t \in Targets : tgt[t].plan = Stop
  BY DEF Init
<1>3. Shape
  <2> DEFINE R == [policy : Policies, start : Starts, n : {1}, plan : {Stop}, over : {FALSE}]
             T == [policy : Policies, start : Starts, n : Nat \ {0}, plan : Plans, over : BOOLEAN]
  <2>1. ASSUME NEW x \in R PROVE x \in T
    <3>1. x.plan \in Plans /\ x.n \in Nat \ {0}
      BY <1>1
    <3>2. x.over = FALSE
      OBVIOUS
    <3>3. x = [policy |-> x.policy, start |-> x.start, n |-> x.n, plan |-> x.plan, over |-> x.over]
      OBVIOUS
    <3> QED BY <3>1, <3>2, <3>3
  <2>2. tgt \in [Targets -> R]
    BY DEF Init
  <2> HIDE DEF R, T
  <2>3. tgt \in [Targets -> T]
    BY <2>1, <2>2
  <2>4. last \in [plan : Plans, code : Codes, open : BOOLEAN, redis : BOOLEAN]
    BY <1>1 DEF Init
  <2> QED BY <2>3, <2>4 DEF Init, Shape, T
<1>4. PaidIsCharged /\ NoPaidWhenDenied
  BY <1>1 DEF Init, Settings, PaidIsCharged, NoPaidWhenDenied
<1>5. LadderEnds
  BY <1>2 DEF LadderEnds
<1> QED BY <1>3, <1>4, <1>5 DEF IInv

LEMMA PrepareOK ==
  ASSUME Settings, IInv, NEW t \in Targets, Prepare(t)
  PROVE  IInv'
<1> DEFINE p == tgt[t].policy
           n == tgt[t].n
           plan == NextAttempt(p, n, tgt[t].start, FALSE)
           degraded == NextAttempt(p, n, tgt[t].start, TRUE)
           d == Decided(plan, degraded)
           charged == plan.proxy /\ ~PaidDenied /\ provider
<1>1. p \in Policies /\ n \in Nat \ {0} /\ tgt[t].start \in Starts /\ tgt[t].plan \in Plans
  BY DEF IInv, Shape
<1>2. plan \in Plans /\ (plan # Stop => n <= LastAttempt(p))
  BY <1>1, EngineAnswers
<1>3. degraded \in Plans /\ ~degraded.proxy /\ (degraded # Stop => n <= LastAttempt(p))
  BY <1>1, EngineAnswers
<1>4. Stop \in Plans /\ ~Stop.proxy
  BY DEF Stop, Plans
<1>5. count' \in Nat /\ redis' = redis /\ open' = open
  BY DEF Prepare, Counted, IInv, Shape, Settings
<1>6. CASE ~RateAllowed \/ ~CooldownAllowed
  <2>1. /\ last' = [plan |-> Stop, code |-> "RATE_LIMITED", open |-> open, redis |-> redis]
        /\ tgt' = tgt /\ used' = used /\ paid' = paid
    BY <1>6 DEF Prepare
  <2>2. last' \in [plan : Plans, code : Codes, open : BOOLEAN, redis : BOOLEAN]
    BY <2>1, <1>4 DEF Codes, IInv, Shape
  <2> QED BY <2>1, <2>2, <1>4, <1>5 DEF IInv, Shape, PaidIsCharged, NoPaidWhenDenied, LadderEnds
<1>7. CASE RateAllowed /\ CooldownAllowed
  <2>1. /\ used' = IF charged THEN Charged ELSE used
        /\ paid' = IF d.plan.proxy THEN paid + 1 ELSE paid
        /\ last' = [plan |-> d.plan, open |-> open, redis |-> redis,
                    code |-> IF plan = Stop \/ d.plan # Stop THEN "none" ELSE d.code]
        /\ tgt' = [tgt EXCEPT ![t].plan = d.plan, ![t].over = d.plan = Stop]
    BY <1>7 DEF Prepare
  <2> HIDE DEF plan, degraded
  <2>2. /\ d.plan \in {plan, degraded} /\ d.code \in Codes
        /\ d.plan.proxy => charged /\ BudgetAllowed
    BY <1>2, <1>3 DEF Decided, Codes, Plans
  <2>3. d.plan \in Plans /\ (d.plan # Stop => n <= LastAttempt(p))
    BY <1>2, <1>3, <2>2
  <2> HIDE DEF d
  <2>4. d.plan.proxy \in BOOLEAN
    BY <2>3 DEF Plans
  <2>5. last' \in [plan : Plans, code : Codes, open : BOOLEAN, redis : BOOLEAN]
    <3>1. redis \in BOOLEAN /\ open \in BOOLEAN
      BY DEF IInv, Shape
    <3>2. (IF plan = Stop \/ d.plan # Stop THEN "none" ELSE d.code) \in Codes
      BY <2>2 DEF Codes
    <3> QED BY <2>1, <2>3, <3>1, <3>2
  <2>6. used' \in Nat /\ used <= used' /\ paid' \in Nat
    BY <2>1, <2>4 DEF Charged, IInv, Shape
  <2>7. Shape'
    <3>1. tgt \in [Targets -> [policy : Policies, start : Starts, n : Nat \ {0}, plan : Plans, over : BOOLEAN]]
          /\ redis \in BOOLEAN /\ open \in BOOLEAN
      BY DEF IInv, Shape
    <3>2. tgt' \in [Targets -> [policy : Policies, start : Starts, n : Nat \ {0}, plan : Plans, over : BOOLEAN]]
      <4>1. [tgt[t] EXCEPT !.plan = d.plan, !.over = d.plan = Stop]
              \in [policy : Policies, start : Starts, n : Nat \ {0}, plan : Plans, over : BOOLEAN]
        BY <2>3, <3>1
      <4>2. tgt' = [tgt EXCEPT ![t] = [tgt[t] EXCEPT !.plan = d.plan, !.over = d.plan = Stop]]
        BY <2>1, <3>1
      <4> QED BY <3>1, <4>1, <4>2
    <3> QED BY <1>5, <2>5, <2>6, <3>1, <3>2 DEF Shape
  <2>8. PaidIsCharged'
    <3> SUFFICES ASSUME Budget # None, ~FailOpen PROVE paid' <= used' /\ paid' <= Budget
      BY DEF PaidIsCharged
    <3>1. paid <= used /\ paid <= Budget /\ paid \in Nat /\ used \in Nat /\ Budget \in Nat
      BY DEF IInv, PaidIsCharged, Shape, Settings
    <3>2. CASE d.plan.proxy
      <4>1. redis /\ used < Budget /\ used' = used + 1
        BY <2>1, <2>2, <3>1, <3>2 DEF BudgetAllowed, Charged
      <4> QED BY <2>1, <3>1, <3>2, <4>1
    <3>3. CASE ~d.plan.proxy
      BY <2>1, <2>6, <3>1, <3>3
    <3> QED BY <3>2, <3>3
  <2>9. NoPaidWhenDenied'
    <3> SUFFICES ASSUME d.plan.proxy
                 PROVE ~open /\ (FailOpen \/ redis \/ (Ceiling = None /\ ~Cooldown /\ Budget = None))
      BY <2>1 DEF NoPaidWhenDenied
    <3>1. ~PaidDenied /\ BudgetAllowed
      BY <2>2
    <3> QED BY <3>1 DEF PaidDenied, BudgetAllowed, LedgerDegraded, RateDegraded, Settings
  <2>10. LadderEnds'
    <3> SUFFICES ASSUME NEW u \in Targets, tgt'[u].plan # Stop PROVE tgt'[u].n <= LastAttempt(tgt'[u].policy)
      BY DEF LadderEnds, LastAttempt
    <3>1. CASE u = t
      <4>1. tgt'[u].plan = d.plan /\ tgt'[u].n = n /\ tgt'[u].policy = p
        BY <2>1, <3>1 DEF IInv, Shape
      <4> QED BY <2>3, <4>1
    <3>2. CASE u # t
      <4>1. tgt'[u] = tgt[u]
        BY <2>1, <3>2 DEF IInv, Shape
      <4> QED BY <4>1 DEF IInv, LadderEnds, LastAttempt
    <3> QED BY <3>1, <3>2
  <2> QED BY <2>7, <2>8, <2>9, <2>10 DEF IInv
<1> QED BY <1>6, <1>7

LEMMA InvStep == ASSUME Settings, IInv, [Next]_vars PROVE IInv'
<1>1. ASSUME NEW t \in Targets, Retry(t) PROVE IInv'
  <2>1. tgt' = [tgt EXCEPT ![t].n = @ + 1, ![t].plan = Stop] /\ Stop \in Plans
    BY <1>1 DEF Retry, Stop, Plans
  <2>2. Shape'
    BY <1>1, <2>1 DEF Retry, IInv, Shape
  <2>3. LadderEnds'
    BY <2>1 DEF IInv, Shape, LadderEnds
  <2>4. PaidIsCharged' /\ NoPaidWhenDenied'
    BY <1>1 DEF Retry, IInv, PaidIsCharged, NoPaidWhenDenied
  <2> QED BY <2>2, <2>3, <2>4 DEF IInv
<1>2. CASE WindowEnds
  BY <1>2 DEF WindowEnds, IInv, Shape, PaidIsCharged, NoPaidWhenDenied, LadderEnds
<1>3. CASE MonthEnds
  BY <1>3 DEF MonthEnds, IInv, Shape, PaidIsCharged, NoPaidWhenDenied, LadderEnds, Settings
<1>4. CASE Environment
  BY <1>4 DEF Environment, IInv, Shape, PaidIsCharged, NoPaidWhenDenied, LadderEnds
<1>5. CASE UNCHANGED vars
  BY <1>5 DEF vars, IInv, Shape, PaidIsCharged, NoPaidWhenDenied, LadderEnds
<1> QED BY <1>1, <1>2, <1>3, <1>4, <1>5, PrepareOK DEF Next

LEMMA Inductive == ASSUME Settings PROVE Spec => []IInv
<1>1. Init => IInv
  BY InitOK
<1>2. IInv /\ [Next]_vars => IInv'
  BY InvStep
<1> QED BY <1>1, <1>2, PTL DEF Spec

\* For any number of targets, policies, windows and months, a provider's month pays for no more
\* proxied attempts than its limit unless the deployment fails open: incr_and_check_monthly_budget
\* counts before it answers and fails closed, and a degraded step has no proxy.
THEOREM BudgetHolds == ASSUME Settings PROVE Spec => []PaidWithinBudget
<1>1. IInv => PaidWithinBudget
  BY DEF IInv, PaidIsCharged, PaidWithinBudget
<1> QED BY <1>1, Inductive, PTL

\* An attempt goes through a proxy only while the breaker allows it and, where a gate needs the
\* ledger, while the ledger answers.
THEOREM DeniedIsUnpaid == ASSUME Settings PROVE Spec => []NoPaidWhenDenied
<1>1. IInv => NoPaidWhenDenied
  BY DEF IInv
<1> QED BY <1>1, Inductive, PTL

\* No target is attempted after its last attempt: one per retry, one for the browser, and exactly
\* one without retries (engine.py).
THEOREM LadderIsFinite == ASSUME Settings PROVE Spec => []LadderEnds
<1>1. IInv => LadderEnds
  BY DEF IInv
<1> QED BY <1>1, Inductive, PTL
==============================================================================
