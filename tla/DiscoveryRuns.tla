----------------------------- MODULE DiscoveryRuns -----------------------------
(***************************************************************************)
(* Strategy discovery: the operator's request for a run, the triggers of   *)
(* automatic runs, and the task that samples a site and records the        *)
(* outcome.  A profile stands for its key, (competitor, url_pattern).      *)
(*                                                                         *)
(* run_discovery is ONE database transaction: the row it inserts or marks  *)
(* RUNNING is only flushed, and committed after the paid sample, by        *)
(* _fail_run or by the last line of the outcome it reached.  Its last      *)
(* statement on the winning path, the re-base of strategy_attempt_stats,   *)
(* names a conflict target that only a partial unique index matches, so    *)
(* the database refuses it and the whole transaction rolls back.           *)
(* Messages are acknowledged when the task returns or raises; a worker     *)
(* that is killed, or outlives the visibility timeout, has its message     *)
(* delivered again.                                                        *)
(***************************************************************************)
EXTENDS Naturals, FiniteSets, FiniteSetsExt

CONSTANTS Profiles, Workers, MaxPerDay, Day, MaxNow, MaxMsgs,
          MaxCrashes, MaxRedeliveries

Nil == "none"

Msgs == 1 .. MaxMsgs
MaxRows == MaxMsgs + MaxCrashes + MaxRedeliveries   \* deliveries: a bound for the types

VARIABLES now,
          run,       \* strategy_discovery_runs: the operator's rows, by message
          made,      \* strategy_discovery_runs: committed rows of machine-triggered runs, by time
          second,    \* strategy_discovery_runs: rows made beside an operator's row
          asked,     \* the operator's requests whose row is not committed yet
          msg,       \* broker: the discovery messages
          worker,    \* each worker's delivery and transaction
          lock,      \* the worker whose transaction has written an operator's row
          samples,   \* ghost: paid samples of machine-triggered runs, by time
          crashes, redelivered

vars == <<now, run, made, second, asked, msg, worker, lock, samples,
          crashes, redelivered>>
faults == <<crashes, redelivered>>
rows == <<run, made, second>>

Free == [pc |-> "free", msg |-> 0, own |-> FALSE, failed |-> FALSE, at |-> 0]
NoRun == [p |-> Nil, status |-> "none", at |-> 0]
NoMsg == [p |-> Nil, operator |-> FALSE, queued |-> 0]

Nothing == [p \in Profiles |-> [t \in 0 .. MaxNow |-> 0]]

TypeOK ==
  /\ now \in 0 .. MaxNow
  /\ run \in [Msgs -> [p : Profiles \cup {Nil}, at : 0 .. MaxNow,
                       status : {"none", "PENDING", "FAILED", "NO_WINNER", "COMPLETED"}]]
  /\ made \in [Profiles -> [0 .. MaxNow -> 0 .. MaxRows]]
  /\ second \in [Profiles -> [0 .. MaxNow -> 0 .. MaxRows]]
  /\ samples \in [Profiles -> [0 .. MaxNow -> 0 .. MaxRows]]
  /\ asked \subseteq Msgs
  /\ msg \in [Msgs -> [p : Profiles \cup {Nil}, operator : BOOLEAN, queued : 0 .. 2]]
  /\ worker \in [Workers -> [pc : {"free", "claim", "probe", "record"}, msg : Msgs \cup {0},
                             own : BOOLEAN, failed : BOOLEAN, at : 0 .. MaxNow]]
  /\ lock \in [Msgs -> Workers \cup {Nil}]
  /\ crashes \in 0 .. MaxCrashes /\ redelivered \in 0 .. MaxRedeliveries

Init ==
  /\ now = 0
  /\ run = [m \in Msgs |-> NoRun]
  /\ made = Nothing /\ second = Nothing /\ samples = Nothing
  /\ asked = {}
  /\ msg = [m \in Msgs |-> NoMsg]
  /\ worker = [w \in Workers |-> Free]
  /\ lock = [m \in Msgs |-> Nil]
  /\ crashes = 0 /\ redelivered = 0

Unsent == {m \in Msgs : msg[m].p = Nil}

\* Messages get the next free number.
NewMsg == CHOOSE m \in Unsent : \A k \in Unsent : m <= k

-----------------------------------------------------------------------------
(* The operator. *)

\* The message goes to the broker inside the request's transaction, before its commit.
create_discovery_run(p) ==
  /\ Unsent # {}
  /\ msg' = [msg EXCEPT ![NewMsg] = [p |-> p, operator |-> TRUE, queued |-> 1]]
  /\ asked' = asked \cup {NewMsg}
  /\ UNCHANGED <<now, rows, worker, lock, samples, faults>>

CommitRequest(m) ==
  /\ m \in asked
  /\ asked' = asked \ {m}
  /\ run' = [run EXCEPT ![m] = [p |-> msg[m].p, status |-> "PENDING", at |-> now]]
  /\ UNCHANGED <<now, made, second, msg, worker, lock, samples, faults>>

-----------------------------------------------------------------------------
(* The machine triggers. *)

\* A message from the scan, the pattern backfill, a rediscovery or a first scrape, published
\* by the outbox relay or directly; it names the key and no run.
Trigger(p) ==
  /\ Unsent # {}
  /\ msg' = [msg EXCEPT ![NewMsg] = [p |-> p, operator |-> FALSE, queued |-> 1]]
  /\ UNCHANGED <<now, rows, asked, worker, lock, samples, faults>>

-----------------------------------------------------------------------------
(* run_discovery. *)

\* A row exists for the database only once its transaction has committed.
auto_run_in_flight(p) == \E m \in Msgs : run[m].p = p /\ run[m].status = "RUNNING"

Window == {t \in 0 .. MaxNow : t <= now /\ t + Day >= now}

InWindow(count) == FoldSet(LAMBDA t, n : n + count[t], 0, Window)

runs_in_trailing_day(p) ==
  InWindow(made[p]) + InWindow(second[p])
    + Cardinality({m \in Msgs : run[m].p = p /\ run[m].at \in Window})

\* Mutant: only the operator's runs are held to the ceiling's ledger.
Refused_NoCeiling(m) ==
  IF msg[m].operator
  THEN run[m].p # Nil /\ run[m].status # "PENDING"
  ELSE auto_run_in_flight(msg[m].p)

Refused(m) ==
  IF msg[m].operator
  THEN run[m].p # Nil /\ run[m].status # "PENDING"
  ELSE auto_run_in_flight(msg[m].p) \/ runs_in_trailing_day(msg[m].p) >= MaxPerDay

Deliver(w, m) ==
  /\ worker[w].pc = "free" /\ msg[m].queued > 0
  /\ msg' = [msg EXCEPT ![m].queued = @ - 1]
  /\ IF Refused(m)
     THEN UNCHANGED worker
     ELSE \* the operator's row is updated only if this read saw it
          worker' = [worker EXCEPT ![w] = [pc |-> "claim", msg |-> m, failed |-> FALSE,
                                           own |-> run[m].p # Nil, at |-> now]]
  /\ UNCHANGED <<now, rows, asked, lock, samples, faults>>

\* Ends w's transaction: the row, if the operator's, is unlocked.
Unlock(w) == [m \in Msgs |-> IF lock[m] = w THEN Nil ELSE lock[m]]

\* The row this transaction commits: the operator's, or one of its own.
Commit(w, s) ==
  LET m == worker[w].msg
      add(count) == [count EXCEPT ![msg[m].p][worker[w].at] = @ + 1] IN
  /\ \/ worker[w].own /\ run' = [run EXCEPT ![m].status = s] /\ UNCHANGED <<made, second>>
     \/ ~worker[w].own /\ msg[m].operator /\ second' = add(second) /\ UNCHANGED <<run, made>>
     \/ ~worker[w].own /\ ~msg[m].operator /\ made' = add(made) /\ UNCHANGED <<run, second>>
  /\ lock' = Unlock(w)
  /\ worker' = [worker EXCEPT ![w] = Free]

\* The flush of RUNNING takes the row lock of an operator's row and waits for it.
claim(w) ==
  LET m == worker[w].msg IN
  /\ worker[w].pc = "claim"
  /\ worker[w].own => lock[m] = Nil
  /\ \/ /\ worker' = [worker EXCEPT ![w].pc = "probe"]
        /\ lock' = IF worker[w].own THEN [lock EXCEPT ![m] = w] ELSE lock
        /\ UNCHANGED rows
     \/ Commit(w, "FAILED")              \* sample too small, no safe URL, or no grant
  /\ UNCHANGED <<now, asked, msg, samples, faults>>

\* The probe spends; it ends in tallies or in an exception.
probe_sample(w) ==
  LET m == worker[w].msg IN
  /\ worker[w].pc = "probe"
  /\ samples' = IF msg[m].operator THEN samples
                ELSE [samples EXCEPT ![msg[m].p][worker[w].at] = @ + 1]
  /\ \E bad \in BOOLEAN :
       worker' = [worker EXCEPT ![w].pc = "record", ![w].failed = bad]
  /\ UNCHANGED <<now, rows, asked, msg, lock, faults>>

\* An exception in the probe, or tallies without a winner.
record_outcome(w) ==
  /\ worker[w].pc = "record"
  /\ Commit(w, IF worker[w].failed THEN "FAILED" ELSE "NO_WINNER")
  /\ UNCHANGED <<now, asked, msg, samples, faults>>

\* The re-base raises: COMPLETED, the seeded profile and the row itself are rolled back, the
\* exception leaves the task and the message is acknowledged.
record_winner(w) ==
  /\ worker[w].pc = "record" /\ ~worker[w].failed
  /\ lock' = Unlock(w)
  /\ worker' = [worker EXCEPT ![w] = Free]
  /\ UNCHANGED <<now, rows, asked, msg, samples, faults>>

-----------------------------------------------------------------------------
(* Faults and the clock. *)

Crash(w) ==
  /\ worker[w].pc # "free" /\ crashes < MaxCrashes /\ msg[worker[w].msg].queued < 2
  /\ crashes' = crashes + 1
  /\ msg' = [msg EXCEPT ![worker[w].msg].queued = @ + 1]
  /\ lock' = Unlock(w)
  /\ worker' = [worker EXCEPT ![w] = Free]
  /\ UNCHANGED <<now, rows, asked, samples, redelivered>>

\* The visibility timeout passes while a worker is still on the message.
Redeliver(w) ==
  /\ worker[w].pc # "free" /\ redelivered < MaxRedeliveries /\ msg[worker[w].msg].queued < 2
  /\ redelivered' = redelivered + 1
  /\ msg' = [msg EXCEPT ![worker[w].msg].queued = @ + 1]
  /\ UNCHANGED <<now, rows, asked, worker, lock, samples, crashes>>

Tick == /\ now < MaxNow
        /\ now' = now + 1
        /\ UNCHANGED <<rows, asked, msg, worker, lock, samples,
                       faults>>

Next ==
  \/ \E p \in Profiles : create_discovery_run(p) \/ Trigger(p)
  \/ \E m \in Msgs : CommitRequest(m)
  \/ \E w \in Workers, m \in Msgs : Deliver(w, m)
  \/ \E w \in Workers :
       \/ claim(w) \/ probe_sample(w)
       \/ record_outcome(w) \/ record_winner(w)
       \/ Crash(w) \/ Redeliver(w)
  \/ Tick

Spec == Init /\ [][Next]_vars

-----------------------------------------------------------------------------
\* The per-key ceiling as the ledger sees it: the automatic runs recorded in a trailing day
\* pass the maximum by at most one run per other worker, since the count that admits a run
\* (run_discovery, _runs_in_trailing_day) is read without a lock.
RunsPerDayBounded ==
  \A p \in Profiles : InWindow(made[p]) <= MaxPerDay + Cardinality(Workers) - 1

\* The ceiling as its comment states it, "the structural bound that a correctness bug cannot
\* talk its way past", enforced "at the point of spend": the samples a day pays for stay
\* within it, the unlocked count's slack granted.  A run that finds a winner, and one that is
\* killed, leaves no row behind and is not counted.
SampledWithinCeiling ==
  \A p \in Profiles : InWindow(samples[p]) <= MaxPerDay + Cardinality(Workers) - 1
=============================================================================
