----------------------------- MODULE ProxyBreaker -----------------------------
(* The spend breaker: one durable row that evaluators (the maintenance beat   *)
(* and every scraping process) trip and close, and the gates that read it     *)
(* through a per-process cache before a paid request.  What a window of       *)
(* traffic amounts to is one Boolean, hot: whether evaluate_thresholds trips  *)
(* on it.                                                                   *)
EXTENDS Integers, FiniteSets

CONSTANTS Evaluators,   \* transactions that evaluate
          Gates,        \* scraping processes
          Interval,     \* PROXY_BREAKER_EVAL_INTERVAL_SECONDS
          Cooldown,     \* PROXY_BREAKER_AUTO_CLOSE_AFTER_SECONDS
          Cache,        \* PROXY_BREAKER_STATE_CACHE_SECONDS
          MaxAge,       \* breaker_max_evidence_age_seconds
          MaxEval,      \* how long an evaluation's transaction may last
          MaxNow,       \* bound on the clock
          MaxResets     \* bound on an operator's resets

VARIABLES now,
          row,      \* the committed proxy_circuit_breakers row
          ev,       \* Evaluators -> its transaction
          gate,     \* Gates -> _gate_cache
          hot,      \* the current window trips
          resets,
          opened,   \* history: when the row last became OPEN
          allowed   \* history: the answer of the last gate asked

vars == <<now, row, ev, gate, hot, resets, opened, allowed>>

Idle    == [pc |-> "idle", snap |-> [state |-> "NONE"], at |-> 0, hot |-> FALSE]
NoCache == [allowed |-> FALSE, at |-> -1]
Absent  == [state |-> "NONE", trippedAt |-> -1, evaluatedAt |-> -Interval - 1, trips |-> 0]
\* Who holds the row lock: an evaluation from its lease UPDATE to its commit.
Locked  == \E e \in Evaluators : ev[e].pc = "claimed"

Init == /\ now = 0
        /\ row = Absent
        /\ ev = [e \in Evaluators |-> Idle]
        /\ gate = [g \in Gates |-> NoCache]
        /\ hot \in BOOLEAN
        /\ resets = 0
        /\ opened = -1
        /\ allowed = "nobody"

-----------------------------------------------------------------------------
\* _get_or_create_row: a plain read; the ORM keeps what it read.
EvalRead(e) ==
  /\ ev[e].pc = "idle"
  /\ ev' = [ev EXCEPT ![e] = [pc |-> "read", snap |-> row, at |-> now, hot |-> FALSE]]
  /\ UNCHANGED <<now, row, gate, hot, resets, opened, allowed>>

\* Mutant: the lease is not compared with the last evaluation.
Due_Always(e) == TRUE

Due(e) == row.evaluatedAt < ev[e].at - Interval

\* The lease UPDATE waits for the row lock.  It takes the row it finds then, and
\* the evaluation goes on with the row it read before.  Two first evaluations
\* insert the same scope; the second fails.
EvalClaim(e) ==
  /\ ev[e].pc = "read" /\ ~Locked
  /\ IF Due(e) /\ (ev[e].snap.state = "NONE" => row.state = "NONE")
     THEN ev' = [ev EXCEPT ![e].pc = "claimed", ![e].hot = hot]
     ELSE ev' = [ev EXCEPT ![e] = Idle]
  /\ UNCHANGED <<now, row, gate, hot, resets, opened, allowed>>

\* Mutant: a re-trip restarts the incident.
Tripped_Again(s, at) == [s EXCEPT !.state = "OPEN", !.trippedAt = at, !.trips = @ + 1]

\* trip_breaker on the row as the transaction knows it.
Tripped(s, at) ==
  IF s.state = "OPEN" THEN s
  ELSE [s EXCEPT !.state = "OPEN", !.trippedAt = at, !.trips = @ + 1]

\* Mutant: the cooldown alone closes the breaker.
Verdict_CooldownOnly(s, at, h) ==
  CASE s.state = "OPEN" /\ at - s.trippedAt >= Cooldown -> [s EXCEPT !.state = "CLOSED"]
    [] h -> Tripped(s, at)
    [] OTHER -> IF s.state = "NONE" THEN [s EXCEPT !.state = "CLOSED"] ELSE s

\* evaluate_and_persist after the lease: what the transaction makes of the row.
Verdict(s, at, h) ==
  CASE h -> Tripped(s, at)
    [] ~h /\ s.state = "OPEN" /\ at - s.trippedAt >= Cooldown -> [s EXCEPT !.state = "CLOSED"]
    [] OTHER -> IF s.state = "NONE" THEN [s EXCEPT !.state = "CLOSED"] ELSE s

\* The commit writes the columns the transaction changed, and only those.
Flushed(old, new) ==
  [c \in DOMAIN row |-> IF c = "evaluatedAt" THEN row[c]
                        ELSE IF new[c] # old[c] THEN new[c] ELSE row[c]]

EvalCommit(e) ==
  /\ ev[e].pc = "claimed"
  /\ LET s == ev[e].snap IN
       row' = [Flushed(s, Verdict(s, ev[e].at, ev[e].hot)) EXCEPT !.evaluatedAt = ev[e].at]
  /\ opened' = IF row'.state = "OPEN" /\ row.state # "OPEN" THEN now ELSE opened
  /\ ev' = [ev EXCEPT ![e] = Idle]
  /\ UNCHANGED <<now, gate, hot, resets, allowed>>

\* A process dies or a query fails: the transaction rolls back.
EvalFails(e) ==
  /\ ev[e].pc # "idle"
  /\ ev' = [ev EXCEPT ![e] = Idle]
  /\ UNCHANGED <<now, row, gate, hot, resets, opened, allowed>>

\* close_breaker by an operator.
Reset ==
  /\ row.state = "OPEN" /\ ~Locked /\ resets < MaxResets
  /\ row' = [row EXCEPT !.state = "CLOSED"]
  /\ resets' = resets + 1
  /\ UNCHANGED <<now, ev, gate, hot, opened, allowed>>

-----------------------------------------------------------------------------
\* Mutant: a denied answer only is kept fresh.
Fresh_Sticky(g) == gate[g].at >= 0 /\ (gate[g].allowed \/ now - gate[g].at < Cache)

Fresh(g) == gate[g].at >= 0 /\ now - gate[g].at < Cache

\* paid_requests_allowed
AskGate(g) ==
  /\ IF Fresh(g) THEN UNCHANGED gate
     ELSE gate' = [gate EXCEPT ![g] = [allowed |-> row.state # "OPEN", at |-> now]]
  /\ allowed' = IF gate'[g].allowed THEN "gate" ELSE "nobody"
  /\ UNCHANGED <<now, row, ev, hot, resets, opened>>

\* The row cannot be read: no, and the answer is not kept.
AskGateUnreadable(g) ==
  /\ ~Fresh(g)
  /\ allowed' = "nobody"
  /\ UNCHANGED <<now, row, ev, gate, hot, resets, opened>>

\* defer_rate_limited_target drops the cache before it defers for the breaker.
DropCache(g) ==
  /\ gate[g].at >= 0 /\ ~gate[g].allowed
  /\ gate' = [gate EXCEPT ![g] = NoCache]
  /\ UNCHANGED <<now, row, ev, hot, resets, opened, allowed>>

\* _check_breaker of a proxied transport, uncached.
Authorized == row.state = "CLOSED" /\ now - row.evaluatedAt <= MaxAge

AskAuthorizer ==
  /\ allowed' = IF Authorized THEN "authorizer" ELSE "nobody"
  /\ UNCHANGED <<now, row, ev, gate, hot, resets, opened>>

-----------------------------------------------------------------------------
Traffic ==
  /\ hot' = ~hot
  /\ UNCHANGED <<now, row, ev, gate, resets, opened, allowed>>

Tick ==
  /\ now < MaxNow
  /\ \A e \in Evaluators : ev[e].pc # "idle" => now - ev[e].at < MaxEval
  /\ now' = now + 1
  /\ allowed' = "nobody"
  /\ UNCHANGED <<row, ev, gate, hot, resets, opened>>

Next == \/ \E e \in Evaluators : EvalRead(e) \/ EvalClaim(e) \/ EvalCommit(e) \/ EvalFails(e)
        \/ \E g \in Gates : AskGate(g) \/ AskGateUnreadable(g) \/ DropCache(g)
        \/ AskAuthorizer \/ Reset \/ Traffic \/ Tick

Spec == Init /\ [][Next]_vars

-----------------------------------------------------------------------------
TypeOK ==
  /\ row.state \in {"NONE", "OPEN", "CLOSED"} /\ row.trippedAt \in -1 .. MaxNow
  /\ \A e \in Evaluators : ev[e].pc \in {"idle", "read", "claimed"} /\ ev[e].at \in 0 .. MaxNow
  /\ \A g \in Gates : gate[g].allowed \in BOOLEAN /\ gate[g].at \in -1 .. MaxNow
  /\ allowed \in {"nobody", "gate", "authorizer"}

(* Once a trip is durable, no scraping process starts paid work later than    *)
(* the cache's age allows, and none is authorized at all.                     *)
TripStopsPaid ==
  row.state = "OPEN" =>
    /\ allowed = "authorizer" => now = opened
    /\ allowed = "gate" => now - opened < Cache

(* Only an operator closes the breaker early: an evaluation closes it when    *)
(* the incident is a full cooldown old and the window it read is clean; a     *)
(* transaction that waited for another one's lock included.                   *)
ClosesWhenOverStep ==
  (row.state = "OPEN" /\ row'.state = "CLOSED" /\ UNCHANGED resets) =>
    /\ row'.evaluatedAt - row.trippedAt >= Cooldown
    /\ \E e \in Evaluators : ev[e].pc = "claimed" /\ ~ev[e].hot
ClosesWhenOver == [][ClosesWhenOverStep]_vars

(* An evaluation that trips leaves the breaker OPEN, unless an operator reset *)
(* it after the evaluation read the row: the ORM then has nothing to write.   *)
TripTakesStep ==
  \A e \in Evaluators :
    (ev[e].pc = "claimed" /\ ev[e].hot /\ row'.evaluatedAt = ev[e].at /\ ev'[e].pc = "idle"
       /\ ~(ev[e].snap.state = "OPEN" /\ row.state = "CLOSED"))
      => row'.state = "OPEN"
TripTakes == [][TripTakesStep]_vars

(* trip_count counts incidents: it moves exactly when a breaker that was not  *)
(* OPEN becomes OPEN, so a runaway that re-trips is one incident.             *)
TripsCountIncidentsStep ==
  row'.trips > row.trips <=> (row'.state = "OPEN" /\ row.state # "OPEN")
TripsCountIncidents == [][TripsCountIncidentsStep]_vars
==============================================================================
