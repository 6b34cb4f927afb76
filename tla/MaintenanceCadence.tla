--------------------------- MODULE MaintenanceCadence ---------------------------
(***************************************************************************)
(* The durable maintenance cadences: a row per job in maintenance_cadences *)
(* holds its deadline, and every scheduler replica's poll claims the ones  *)
(* that are due with a conditional UPDATE, enqueues the job's task and     *)
(* commits.  The enqueue wrappers swallow a broker error.                  *)
(***************************************************************************)
EXTENDS Naturals, FiniteSets

CONSTANTS Cadences,    \* _DURABLE_CADENCES
          Replicas, Interval, MaxNow, MaxCrashes, MaxOutages

Nil == "none"

VARIABLES now, due,    \* maintenance_cadences.next_due_at; 0 is EPOCH_DUE; no row before the first tick
          row,         \* the replica whose uncommitted UPDATE holds the row
          tick,        \* each replica's tick: step, its now and the cadences left to try
          broker,      \* the broker accepts messages
          sent,        \* <<cadence, deadline>> |-> tasks enqueued for it
          crashes, outages

vars == <<now, due, row, tick, broker, sent, crashes, outages>>

Idle == [pc |-> "idle", now |-> 0, todo |-> {}, key |-> Nil]

Deadlines == 0 .. (MaxNow + Interval)

TypeOK ==
  /\ now \in 0 .. MaxNow
  /\ DOMAIN due \subseteq Cadences /\ \A k \in DOMAIN due : due[k] \in Deadlines
  /\ row \in [Cadences -> Replicas \cup {Nil}]
  /\ \A p \in Replicas : tick[p].todo \subseteq Cadences
  /\ sent \in [Cadences \X Deadlines -> Nat]

Init ==
  /\ now = 0
  /\ due = [k \in {} |-> 0]
  /\ row = [k \in Cadences |-> Nil]
  /\ tick = [p \in Replicas |-> Idle]
  /\ broker = TRUE
  /\ sent = [x \in Cadences \X Deadlines |-> 0]
  /\ crashes = 0 /\ outages = 0

\* INSERT ... ON CONFLICT DO NOTHING for every key, committed before the first claim.
ensure_cadence_rows(p) ==
  /\ tick[p].pc = "idle"
  /\ \E k \in Cadences : k \in DOMAIN due => due[k] <= now      \* else the tick does nothing
  /\ due' = [k \in Cadences |-> IF k \in DOMAIN due THEN due[k] ELSE 0]
  /\ tick' = [tick EXCEPT ![p] = [pc |-> "claim", now |-> now, todo |-> Cadences, key |-> Nil]]
  /\ UNCHANGED <<now, row, broker, sent, crashes, outages>>

\* Mutant: the deadline is read in one statement and moved in another, without the row.
RowFree_Unlocked(p, k) == TRUE

\* The UPDATE waits for another claimant's transaction and re-reads its WHERE afterwards.
RowFree(p, k) == row[k] = Nil

claim_cadence(p) ==
  /\ tick[p].pc = "claim"
  /\ \E k \in tick[p].todo :
       /\ RowFree(p, k)
       /\ IF due[k] <= tick[p].now
          THEN /\ row' = [row EXCEPT ![k] = p]
               /\ tick' = [tick EXCEPT ![p].pc = "enqueue", ![p].key = k, ![p].todo = @ \ {k}]
          ELSE /\ tick' = [tick EXCEPT ![p].todo = @ \ {k}]
               /\ UNCHANGED row
  /\ UNCHANGED <<now, due, broker, sent, crashes, outages>>

\* _enqueue_<cadence>: a broker error is logged and swallowed, so the claim goes on to commit.
enqueue_task(p) ==
  LET k == tick[p].key IN
  /\ tick[p].pc = "enqueue"
  /\ sent' = IF broker THEN [sent EXCEPT ![<<k, due[k]>>] = @ + 1] ELSE sent
  /\ tick' = [tick EXCEPT ![p].pc = "commit"]
  /\ UNCHANGED <<now, due, row, broker, crashes, outages>>

NextDue(p, k) == tick[p].now + Interval

CommitClaim(p) ==
  LET k == tick[p].key IN
  /\ tick[p].pc = "commit"
  /\ due' = [due EXCEPT ![k] = NextDue(p, k)]
  /\ row' = [row EXCEPT ![k] = IF @ = p THEN Nil ELSE @]
  /\ tick' = [tick EXCEPT ![p].pc = "claim", ![p].key = Nil]
  /\ UNCHANGED <<now, broker, sent, crashes, outages>>

EndTick(p) ==
  /\ tick[p].pc = "claim" /\ tick[p].todo = {}
  /\ tick' = [tick EXCEPT ![p] = Idle]
  /\ UNCHANGED <<now, due, row, broker, sent, crashes, outages>>

\* The process dies, or a statement raises and the tick ends: the open transaction rolls back.
Abort(p) ==
  /\ crashes < MaxCrashes /\ tick[p].pc # "idle"
  /\ crashes' = crashes + 1
  /\ tick' = [tick EXCEPT ![p] = Idle]
  /\ row' = [k \in Cadences |-> IF row[k] = p THEN Nil ELSE row[k]]
  /\ UNCHANGED <<now, due, broker, sent, outages>>

BrokerFlips ==
  /\ broker => outages < MaxOutages
  /\ broker' = ~broker
  /\ outages' = IF broker THEN outages + 1 ELSE outages
  /\ UNCHANGED <<now, due, row, tick, sent, crashes>>

Tick == now < MaxNow /\ now' = now + 1
        /\ UNCHANGED <<due, row, tick, broker, sent, crashes, outages>>

Step(p) == ensure_cadence_rows(p) \/ claim_cadence(p) \/ enqueue_task(p) \/ CommitClaim(p)
           \/ EndTick(p)

Next == (\E p \in Replicas : Step(p) \/ Abort(p)) \/ BrokerFlips \/ Tick

Spec == Init /\ [][Next]_vars

Fairness == \A p \in Replicas : WF_vars(Step(p))

-----------------------------------------------------------------------------
\* Two replicas never run one deadline's job twice: a second task for a deadline exists only
\* when a tick was cut off between its enqueue and its commit.
SentOncePerDeadline ==
  \A x \in DOMAIN sent : sent[x] <= 1 + crashes

\* "duplicate-over-miss": a deadline that has been moved on had its task enqueued.
CadenceNotLost ==
  [][\A k \in DOMAIN due : due'[k] # due[k] => sent[<<k, due[k]>>] > 0]_vars
=============================================================================
