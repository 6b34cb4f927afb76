---------------------------- MODULE PriceAnalysis ----------------------------
(***************************************************************************)
(* Price comparison of one product variant: the API handlers that change   *)
(* the client price or a match (routers/variants.py, routers/matches.py),  *)
(* the scrape that rewrites match_current_prices, and the Celery task      *)
(* recompute_variant (tasks_analysis.py) over the pure engine              *)
(* (alerts/engine.py).  A handler enqueues the recompute before its own    *)
(* request transaction commits; the task loads, reads the prior alert and  *)
(* writes in one transaction without locking what it has read, and Celery  *)
(* delivers at least once, so runs overlap.                                *)
(* Prices are integers in units of 0.0001, the scale of NUMERIC(18,4).     *)
(***************************************************************************)
EXTENDS Integers, FiniteSets, FiniteSetsExt, Sequences

CONSTANTS Matches, Workers,
          Prices,        \* the prices explored, positive
          Currencies,
          MaxChanges,    \* API requests and scrapes explored
          MaxRuns        \* task deliveries explored

VARIABLES variant,       \* the committed client price and currency
          match,         \* match[m]: "ACTIVE", "PAUSED" or "DELETED"
          row,           \* row[m]: the match_current_prices row
          request,       \* the API change written and not committed yet
          queued,        \* recompute messages on the broker
          task,          \* task[w]: a worker's run
          alert,         \* the variant_alert_states row
          state,         \* the variant_price_states row
          events,        \* price_alert_events, oldest first
          outbox,        \* webhook messages written
          changes, runs,
          raced          \* a run raced another one or an open request

vars == <<variant, match, row, request, queued, task, alert, state, events,
          outbox, changes, runs, raced>>

NoRow == [price |-> 0, cur |-> "none", ok |-> FALSE, comparable |-> FALSE]
NoRequest == [kind |-> "none"]
Idle == [at |-> "idle"]
NoAlert == [type |-> "none", status |-> "none", first |-> 0, resolved |-> 0]
NoState == [client |-> 0, cur |-> "none", used |-> {}, type |-> "none"]

(***************************************************************************)
(* alerts/engine.py                                                        *)
(***************************************************************************)
Half(n, d) == (2 * n + d) \div (2 * d)     \* ROUND_HALF_UP to a whole unit

(* The comparable rows and the ones to be written back as mismatched.      *)
Included(rows, cur) ==
    {m \in DOMAIN rows : rows[m].ok /\ rows[m].comparable
                         /\ rows[m].price > 0 /\ rows[m].cur = cur}
Mismatched(rows, cur) == {m \in DOMAIN rows : rows[m].cur \notin {"none", cur}}

\* Mutant: the filter forgets the currency.
filter_comparable_AnyCurrency(rows, cur) ==
    [included |-> {m \in DOMAIN rows : rows[m].ok /\ rows[m].comparable /\ rows[m].price > 0},
     mismatched |-> Mismatched(rows, cur)]

filter_comparable(rows, cur) ==
    [included |-> Included(rows, cur), mismatched |-> Mismatched(rows, cur)]

(* Percent below the average, in units of 0.0001 percent.                  *)
discount_vs_average(average, client) == Half((average - client) * 1000000, average)

\* Mutant: the last band leaves out a client price at the average.
decide_OpenBand(client, cheapest, average, highest, count) ==
    LET d == discount_vs_average(average, client)
    IN  IF count = 0 THEN "NO_COMPETITOR_DATA"
        ELSE IF client > highest THEN "RISK"
        ELSE IF client > cheapest THEN "HIGH_PRICE"
        ELSE IF d > 50000 THEN "CHANCE_TO_INCREASE_PRICE"
        ELSE IF d \in 10000..50000 THEN "NORMAL"
        ELSE IF d \in 1..9999 THEN "CLOSE_TO_COMPETITORS" ELSE "FALLBACK"

decide(client, cheapest, average, highest, count) ==
    LET d == discount_vs_average(average, client)
    IN  IF count = 0 THEN "NO_COMPETITOR_DATA"
        ELSE IF client > highest THEN "RISK"
        ELSE IF client > cheapest THEN "HIGH_PRICE"
        ELSE IF d > 50000 THEN "CHANCE_TO_INCREASE_PRICE"
        ELSE IF d \in 10000..50000 THEN "NORMAL"
        ELSE IF d \in 0..9999 THEN "CLOSE_TO_COMPETITORS" ELSE "FALLBACK"

analyze(client, cur, rows) ==
    LET split == filter_comparable(rows, cur)
        n == Cardinality(split.included)
        prices == {rows[m].price : m \in split.included}
        total == FoldSet(LAMBDA m, acc : acc + rows[m].price, 0, split.included)
    IN  [type |-> IF n = 0 THEN "NO_COMPETITOR_DATA"
                  ELSE decide(client, Min(prices), Half(total, n), Max(prices), n),
         used |-> split.included, mismatched |-> split.mismatched]

\* Mutant: a change between two active alerts is not an event.
transition_OnlyEdges(prev, new) ==
    IF prev = "none" THEN IF new = "NORMAL" THEN "none" ELSE "CREATED"
    ELSE IF prev # "NORMAL" /\ new = "NORMAL" THEN "RESOLVED"
    ELSE IF prev = "NORMAL" /\ new # "NORMAL" THEN "REOPENED" ELSE "none"

(* The severity is a function of the type, so the type decides.            *)
transition(prev, new) ==
    IF prev = "none" THEN IF new = "NORMAL" THEN "none" ELSE "CREATED"
    ELSE IF prev = new THEN "none"
    ELSE IF new = "NORMAL" THEN "RESOLVED"
    ELSE IF prev = "NORMAL" THEN "REOPENED" ELSE "UPDATED"

(***************************************************************************)
(* The environment                                                         *)
(***************************************************************************)
Init ==
    /\ variant \in [price : Prices, cur : Currencies]
    /\ match = [m \in Matches |-> "ACTIVE"]
    /\ row = [m \in Matches |-> NoRow]
    /\ request = NoRequest /\ queued = 0
    /\ task = [w \in Workers |-> Idle]
    /\ alert = NoAlert /\ state = NoState /\ events = <<>> /\ outbox = 0
    /\ changes = 0 /\ runs = 0 /\ raced = FALSE

(* The persistence pipeline writes the row and asks for a recompute.       *)
Scrape(m) ==
    /\ changes < MaxChanges /\ match[m] = "ACTIVE"
    /\ \E p \in Prices, c \in Currencies :
         row' = [row EXCEPT ![m] = [price |-> p, cur |-> c, ok |-> TRUE, comparable |-> TRUE]]
    /\ queued' = queued + 1 /\ changes' = changes + 1
    /\ UNCHANGED <<variant, match, request, task, alert, state, events, outbox, runs, raced>>

(* The handlers enqueue while their own transaction is still open.         *)
update_variant ==
    /\ request = NoRequest /\ changes < MaxChanges
    /\ \E p \in Prices, c \in Currencies :
         /\ [price |-> p, cur |-> c] # variant
         /\ request' = [kind |-> "variant", to |-> [price |-> p, cur |-> c]]
    /\ queued' = queued + 1 /\ changes' = changes + 1
    /\ UNCHANGED <<variant, match, row, task, alert, state, events, outbox, runs, raced>>

update_match(m) ==
    /\ request = NoRequest /\ changes < MaxChanges /\ match[m] = "ACTIVE"
    /\ request' = [kind |-> "match", m |-> m, to |-> "PAUSED"]
    /\ queued' = queued + 1 /\ changes' = changes + 1
    /\ UNCHANGED <<variant, match, row, task, alert, state, events, outbox, runs, raced>>

delete_match(m) ==
    /\ request = NoRequest /\ changes < MaxChanges /\ match[m] # "DELETED"
    /\ request' = [kind |-> "match", m |-> m, to |-> "DELETED"]
    /\ queued' = queued + 1 /\ changes' = changes + 1
    /\ UNCHANGED <<variant, match, row, task, alert, state, events, outbox, runs, raced>>

(* The request's session commits once the handler has answered.            *)
RequestCommits ==
    /\ request # NoRequest
    /\ variant' = IF request.kind = "variant" THEN request.to ELSE variant
    /\ match' = IF request.kind = "match" THEN [match EXCEPT ![request.m] = request.to]
                ELSE match
    /\ request' = NoRequest
    /\ UNCHANGED <<row, queued, task, alert, state, events, outbox, changes, runs, raced>>

(***************************************************************************)
(* recompute_variant                                                       *)
(***************************************************************************)
(* It takes every price row of the variant, whatever became of the match.  *)
_load_competitor_rows == row

Load(w) ==
    /\ queued > 0 /\ task[w] = Idle /\ runs < MaxRuns
    /\ queued' = queued - 1 /\ runs' = runs + 1
    /\ task' = [task EXCEPT ![w] = [at |-> "loaded", client |-> variant,
                 out |-> analyze(variant.price, variant.cur, _load_competitor_rows)]]
    /\ raced' = (raced \/ request # NoRequest \/ \E v \in Workers : task[v] # Idle)
    /\ UNCHANGED <<variant, match, row, request, alert, state, events, outbox, changes>>

_load_prior_alert_state(w) ==
    /\ task[w].at = "loaded"
    /\ task' = [task EXCEPT ![w] = [at |-> "prior", client |-> task[w].client,
                                    out |-> task[w].out, prior |-> alert]]
    /\ UNCHANGED <<variant, match, row, request, queued, alert, state, events, outbox,
                   changes, runs, raced>>

_write_back_currency_mismatches(mismatched) ==
    [m \in Matches |-> IF m \in mismatched /\ row[m].comparable
                       THEN [row[m] EXCEPT !.comparable = FALSE] ELSE row[m]]

\* Mutant: a reopened alert keeps the time it was resolved.
_upsert_alert_state_KeepsResolved(new, prior, event, now) ==
    [type |-> new, status |-> IF new = "NORMAL" THEN "RESOLVED" ELSE "ACTIVE",
     first |-> IF event \in {"CREATED", "REOPENED"} \/ prior = NoAlert THEN now ELSE prior.first,
     resolved |-> IF event = "RESOLVED" THEN now ELSE prior.resolved]

_upsert_alert_state(new, prior, event, now) ==
    [type |-> new, status |-> IF new = "NORMAL" THEN "RESOLVED" ELSE "ACTIVE",
     first |-> IF event \in {"CREATED", "REOPENED"} \/ prior = NoAlert THEN now ELSE prior.first,
     resolved |-> IF event = "RESOLVED" THEN now
                  ELSE IF event = "REOPENED" THEN 0 ELSE prior.resolved]

_upsert_price_state(client, out) ==
    [client |-> client.price, cur |-> client.cur, used |-> out.used, type |-> out.type]

_write_alert_event(prior, new, event) ==
    IF event = "none" THEN events
    ELSE Append(events, [event |-> event, prev |-> prior.type, new |-> new])

(* The writes and the commit; last_seen_at is the count of runs.           *)
recompute_variant(w) ==
    /\ task[w].at = "prior"
    /\ LET out == task[w].out
           prior == task[w].prior
           event == transition(prior.type, out.type)
       IN  /\ row' = _write_back_currency_mismatches(out.mismatched)
           /\ alert' = _upsert_alert_state(out.type, prior, event, runs)
           /\ state' = _upsert_price_state(task[w].client, out)
           /\ events' = _write_alert_event(prior, out.type, event)
           /\ outbox' = outbox + IF event = "none" THEN 0 ELSE 1
    /\ task' = [task EXCEPT ![w] = Idle]
    /\ UNCHANGED <<variant, match, request, queued, changes, runs, raced>>

(* The worker dies, or the broker redelivers: the message comes back.      *)
Redeliver(w) ==
    /\ task[w] # Idle
    /\ task' = [task EXCEPT ![w] = Idle] /\ queued' = queued + 1
    /\ UNCHANGED <<variant, match, row, request, alert, state, events, outbox,
                   changes, runs, raced>>

Next ==
    \/ \E m \in Matches : Scrape(m) \/ update_match(m) \/ delete_match(m)
    \/ update_variant \/ RequestCommits
    \/ \E w \in Workers : Load(w) \/ _load_prior_alert_state(w)
                          \/ recompute_variant(w) \/ Redeliver(w)

Spec == Init /\ [][Next]_vars

(***************************************************************************)
(* Properties                                                              *)
(***************************************************************************)
(* An active alert carries no resolution time, however the runs overlap:   *)
(* _upsert_alert_state copies resolved_at from a prior row it has read     *)
(* without a lock, and that row may be any earlier one.                    *)
ActiveNotResolved == alert.status = "ACTIVE" => alert.resolved = 0

(* While runs do not overlap, the last event tells the current alert: no   *)
(* change of type goes unrecorded and no event tells of a type not stored. *)
LastEventIsState ==
    raced \/ alert = NoAlert \/
      IF events = <<>> THEN alert.type = "NORMAL"
      ELSE events[Len(events)].new = alert.type

Rank == <<"CHANCE_TO_INCREASE_PRICE", "NORMAL", "CLOSE_TO_COMPETITORS", "HIGH_PRICE", "RISK">>
RankOf(t) == CHOOSE i \in 1..5 : Rank[i] = t

(* Against the rows as they are, a higher client price never makes the     *)
(* verdict milder, and the branch decide() calls unreachable is: rounding  *)
(* the mean to the money scale cannot take it below the cheapest price.    *)
VerdictMonotone ==
    \A c \in Currencies : Included(row, c) # {} =>
      \A p, q \in Prices :
        LET tp == analyze(p, c, row).type
            tq == analyze(q, c, row).type
        IN  /\ tp \in Range(Rank) /\ tq \in Range(Rank)
            /\ p <= q => RankOf(tp) <= RankOf(tq)

(* Every change reaches the stored benchmarks: once nothing is queued or   *)
(* running, and unless runs raced each other or an open request, the last  *)
(* recompute used exactly the comparable rows of the variant's currency    *)
(* and stored the verdict they give.                                       *)
BenchmarksFresh ==
    (queued = 0 /\ request = NoRequest /\ ~raced /\ state # NoState
       /\ \A w \in Workers : task[w] = Idle) =>
      /\ state.used = Included(row, variant.cur)
      /\ state.type = analyze(variant.price, variant.cur, row).type

(* matches.py: on archive, pause or delete "the comparable set changed, so *)
(* recompute the variant's benchmarks/alert".                              *)
InactiveNotCounted ==
    (queued = 0 /\ request = NoRequest /\ \A w \in Workers : task[w] = Idle) =>
      \A m \in state.used : match[m] = "ACTIVE"

(* variants.py: "a client price/currency change is reflected immediately". *)
ClientPriceReflected ==
    (queued = 0 /\ request = NoRequest /\ state # NoState
       /\ \A w \in Workers : task[w] = Idle) =>
      state.client = variant.price /\ state.cur = variant.cur

(* tasks_analysis.py: "at-least-once Celery delivery is always safe here"; *)
(* a transition is told once.                                              *)
NoDuplicateEvent ==
    \A i \in 1..(Len(events) - 1) : events[i] # events[i + 1]
=============================================================================
