--------------------------- MODULE DispatchIntents ---------------------------
(* The dispatch protocol of one scrape job: Celery deliveries that turn a     *)
(* planned batch into exactly one Scrapyd run.  A batch is named by its       *)
(* dispatch identity.  Four stores take part and share no transaction:        *)
(*   - Postgres: the dispatch_intents row of every identity (intent), the     *)
(*     job's cancellation generation (gen) and the targets' dispatched_at     *)
(*     stamp (stamped);                                                       *)
(*   - Redis: the dispatched:{job}:{identity} guard (guard);                  *)
(*   - the Scrapyd nodes, which accept the same jobid twice, keep a bounded   *)
(*     finished history and lose everything on a restart (run, hist);         *)
(*   - the deliveries' own memory, lost in a crash (me).                      *)
(* Time is a bounded clock, because leases, windows and TTLs decide here.     *)
EXTENDS Integers, Sequences, FiniteSets

CONSTANTS Identities,   \* dispatch identities of the job's batches
          Nodes,        \* the Scrapyd pool of those identities
          Deliveries,   \* concurrent task executions that dispatch
          CallerOwned,  \* those of them that run recover_stalled_batches
          None,         \* no node, no identity
          Cancellable,  \* may an operator cancel the job
          MaxTime,      \* bound on the clock
          MaxPosts,     \* bound on schedule.json requests per identity
          HttpTimeout,  \* the client's request timeout
          NetDelay,     \* how long a sent request may stay undelivered
          Lease,        \* AbsencePolicy.min_age_seconds
          Quorum,       \* AbsencePolicy.quorum
          Window,       \* AbsencePolicy.window_seconds
          Horizon,      \* AbsencePolicy.horizon_seconds
          SentinelTTL,  \* TTL of the pending sentinel
          GuardTTL,     \* TTL of the committed guard
          Keep          \* finished_to_keep of a Scrapyd node

ASSUME BoundsAssumption ==
  /\ {MaxTime, MaxPosts, HttpTimeout, NetDelay, Lease, Window, Horizon} \subseteq Nat
  /\ {Quorum, SentinelTTL, GuardTTL, Keep} \subseteq Nat \ {0}
  /\ CallerOwned \subseteq Deliveries
  /\ Cancellable \in BOOLEAN
  /\ None \notin Nodes \cup Identities

\* "Must comfortably exceed the dispatch client's own HTTP timeout."
ASSUME LeaseAssumption == NetDelay < Lease /\ HttpTimeout < Lease

\* The claim outlives the request it protects, by 90 seconds and more.
ASSUME GuardAssumption == HttpTimeout < SentinelTTL /\ HttpTimeout < GuardTTL

VARIABLES now,       \* wall clock, in ticks
          gen,       \* scrape_jobs.cancellation_generation; CANCELLED once > 0
          cancelPc,  \* progress of cancel_and_reconcile_job
          intent,    \* Identities -> the dispatch_intents row
          guard,     \* Identities -> the Redis guard
          stamped,   \* Identities -> the batch's targets carry dispatched_at
          run,       \* Identities -> POST number -> the request and its run
          hist,      \* Nodes -> finished runs the node still lists, oldest first
          me,        \* Deliveries -> local state of the execution
          sweepAt,   \* clock of the reconciler pass that is under way
          verdict,   \* Identities -> what that pass has still to write
          excuse,    \* history: Identities -> why a second POST may have left
          fencedAt   \* history: when the cancellation fence was committed

jobVars   == <<gen, cancelPc, fencedAt>>
nodeVars  == <<run, hist>>
sweepVars == <<sweepAt, verdict>>
vars == <<now, jobVars, intent, guard, stamped, nodeVars, me, sweepVars, excuse>>

Never == -1
Time  == 0 .. MaxTime
Posts == 1 .. MaxPosts

OPEN_QUESTION_STATES == {"POSTED", "RECONCILED_AMBIGUOUS"}
IntentStates == OPEN_QUESTION_STATES \cup
                  {"NONE", "PLANNED", "RECONCILED_MISSING", "CONFIRMED", "FAILED"}

Row == [state : IntentStates, node : Nodes \cup {None},
        posted : Time \cup {Never}, confirmed : Time \cup {Never},
        absent : 0 .. Quorum, firstAbsent : Time \cup {Never}, gen : {0, 1}]
NoRow == [state |-> "NONE", node |-> None, posted |-> Never,
          confirmed |-> Never, absent |-> 0, firstAbsent |-> Never, gen |-> 0]

Guard   == [val : {"none", "sentinel", "jobid"}, exp : Int]
NoGuard == [val |-> "none", exp |-> Never]

\* What became of a schedule.json request.  Accepted: the node took the run,
\* which is live, finished and still listed, or gone (killed or forgotten).
Accepted  == {"live", "finished", "gone"}
RunStates == Accepted \cup {"unsent", "inflight", "dropped"}
\* at: when the request left while it is in flight, when the run went once gone
Unsent    == [st |-> "unsent", node |-> None, at |-> Never]

Entry     == [st : RunStates, node : Nodes \cup {None}, at : Time \cup {Never}]

\* Where an execution is between two of its commits or calls; Brief are the
\* places it leaves in less than a tick, since nothing there waits on a network.
Brief    == {"ask", "claim", "record", "send", "fail", "release", "confirm", "guard"}
PcStates == Brief \cup {"idle", "receiver", "reconcile", "apply", "wait", "stamp"}

Local == [pc : PcStates, who : Identities \cup {None}, since : Time,
          heard : {"none", "listed", "silent", "opaque"},
          ticket : Posts \cup {0}, draft : Row]
Idle == [pc |-> "idle", who |-> None, since |-> 0, heard |-> "none",
         ticket |-> 0, draft |-> NoRow]

Causes == {"abandoned", "overtaken", "outdated", "uncommitted"}

Init ==
  /\ now = 0 /\ gen = 0 /\ cancelPc = "none" /\ fencedAt = Never
  /\ intent = [i \in Identities |-> NoRow]
  /\ guard = [i \in Identities |-> NoGuard]
  /\ stamped = [i \in Identities |-> FALSE]
  /\ run = [i \in Identities |-> [k \in Posts |-> Unsent]]
  /\ hist = [n \in Nodes |-> << >>]
  /\ me = [d \in Deliveries |-> Idle]
  /\ sweepAt = 0 /\ verdict = [i \in Identities |-> "none"]
  /\ excuse = [i \in Identities |-> {}]

------------------------------------------------------------------------------
(* Rows, guards and listings                                                 *)

\* list_job_states: pending, running and finished entries of one node.
Listed(i, n) == \E k \in Posts : run[i][k].node = n /\ run[i][k].st \in {"live", "finished"}

\* A store over the caller's session reads its own uncommitted row.
RowOf(d) == IF d \in CallerOwned THEN me[d].draft ELSE intent[me[d].who]

\* The execution moves on; a store-owned transition commits at once, a
\* caller-owned one stays private to its open transaction.
Goto(d, label) == me' = [me EXCEPT ![d].pc = label] /\ UNCHANGED intent
WriteGoto(d, row, label) ==
  IF d \in CallerOwned
  THEN me' = [me EXCEPT ![d].pc = label, ![d].draft = row] /\ UNCHANGED intent
  ELSE me' = [me EXCEPT ![d].pc = label] /\ intent' = [intent EXCEPT ![me[d].who] = row]

\* The execution returns or raises; recover_stalled_batches commits its
\* transaction in a finally clause either way.
Leave(d) ==
  /\ me' = [me EXCEPT ![d] = Idle]
  /\ intent' = IF d \in CallerOwned THEN [intent EXCEPT ![me[d].who] = me[d].draft] ELSE intent

\* DispatchIntentStore.confirm, which alone writes last_seen_at, with confirmed_at
Confirmed(row) == [row EXCEPT !.state = "CONFIRMED", !.confirmed = now,
                              !.absent = 0, !.firstAbsent = Never]

\* Mutant: the generation is recorded and never compared.
FenceStale_Unread(row) == FALSE

\* _assert_fence_current: the intent's generation is stale, or the job CANCELLED
FenceStale(row) == row.gen # gen \/ gen > 0

\* Mutant: the pending sentinel decodes as a committed guard value.
Guarded_Sentinel(i) == guard[i].val # "none"

\* decode_guard_value: the sentinel is no committed dispatch.
Guarded(i) == guard[i].val = "jobid"
SetGuard(i, val, ttl) == guard' = [guard EXCEPT ![i] = [val |-> val, exp |-> now + ttl]]

\* Mutant: the node's memory is never questioned.
HistoryIntact_Trusting(i) == intent[i].posted # Never

\* _history_is_intact over the witnesses _confirmed_witnesses collects
HistoryIntact(i) ==
  /\ intent[i].posted # Never
  /\ \A w \in Identities :
        (/\ intent[w].state = "CONFIRMED"
         /\ intent[w].node = intent[i].node
         /\ intent[w].confirmed >= intent[i].posted) => Listed(w, intent[w].node)

\* Mutant: the in-flight lease is forgotten.
TooYoung_NoLease(row, t) == row.posted = Never

\* DispatchIntentStore.record_absence: the ladder, in the order of its rungs
TooYoung(row, t)    == row.posted = Never \/ t - row.posted < Lease
Untrusted(row, t, intact) == ~intact \/ row.confirmed # Never \/ t - row.posted > Horizon
FirstAbsent(row, t) == IF row.firstAbsent = Never THEN t ELSE row.firstAbsent
Observations(row)   == IF row.absent = Quorum THEN Quorum ELSE row.absent + 1
Settled(row, t)     == Observations(row) = Quorum /\ t - FirstAbsent(row, t) >= Window

record_absence(row, t, intact) ==
  IF row.state \notin OPEN_QUESTION_STATES \/ TooYoung(row, t) THEN row
  ELSE IF Untrusted(row, t, intact) THEN [row EXCEPT !.state = "RECONCILED_AMBIGUOUS"]
  ELSE [row EXCEPT !.absent = Observations(row),
                   !.firstAbsent = FirstAbsent(row, t),
                   !.state = IF Settled(row, t) THEN "RECONCILED_MISSING"
                             ELSE "RECONCILED_AMBIGUOUS"]

------------------------------------------------------------------------------
(* One delivery: plan, reconcile, claim, POST, commit or release             *)

\* Mutant: the new generation is not flushed before the dispatch, so no row is locked.
JobRowLocked_Unflushed == FALSE

\* recover_stalled_batches has flushed a new planning_generation and holds the
\* lock of the job's row until its transaction ends.
JobRowLocked == \E d \in CallerOwned : me[d].pc # "idle"

\* Step 1 of dispatch_job: the plan is committed before anything is sent.  The
\* batch's targets are selected because they carry no stamp; an unsettled
\* intent is skipped.  A new identity writes the job's row.  The identities of
\* recover_stalled_batches are always new (planning_generation + 1), and their
\* rows stay inside its open transaction.
Plan(d, i, n) ==
  LET row == IF intent[i].state = "NONE"
             THEN [NoRow EXCEPT !.state = "PLANNED", !.node = n, !.gen = gen]
             ELSE intent[i]
      next == IF intent[i].state = "RECONCILED_MISSING" THEN "receiver" ELSE "reconcile"
  IN
  /\ me[d].pc = "idle" /\ ~stamped[i]
  /\ intent[i].state \notin OPEN_QUESTION_STATES
  /\ intent[i].state = "NONE" => ~JobRowLocked
  /\ IF d \in CallerOwned
     THEN /\ intent[i].state = "NONE" /\ UNCHANGED intent
          /\ me' = [me EXCEPT ![d].pc = next, ![d].who = i, ![d].draft = row]
     ELSE /\ intent' = [intent EXCEPT ![i] = row]
          /\ me' = [me EXCEPT ![d].pc = next, ![d].who = i]
  /\ UNCHANGED <<now, jobVars, guard, stamped, nodeVars, sweepVars, excuse>>

\* receiver_holds_execution: a re-POST out of RECONCILED_MISSING asks the node
\* first.  Held: adopt.  No answer: give the grant back and leave.
ReceiverCheck(d) ==
  LET i == me[d].who IN
  /\ me[d].pc = "receiver"
  /\ \/ Leave(d)
     \/ /\ Listed(i, intent[i].node)
        /\ me' = [me EXCEPT ![d] = Idle]
        /\ intent' = [intent EXCEPT ![i] = Confirmed(intent[i])]
     \/ /\ ~Listed(i, intent[i].node)
        /\ Goto(d, "reconcile")
  /\ UNCHANGED <<now, jobVars, guard, stamped, nodeVars, sweepVars, excuse>>

\* Step 0 of schedule(): the fence, then a committed dispatch heals the guard.
Reconcile(d) ==
  LET row == RowOf(d) IN
  /\ me[d].pc = "reconcile"
  /\ \/ /\ FenceStale(row)
        /\ Leave(d) /\ UNCHANGED guard
     \/ /\ ~FenceStale(row) /\ row.state = "CONFIRMED"
        /\ Goto(d, "stamp") /\ SetGuard(me[d].who, "jobid", GuardTTL)
     \/ /\ ~FenceStale(row) /\ row.state # "CONFIRMED"
        /\ Goto(d, "ask") /\ UNCHANGED guard
  /\ UNCHANGED <<now, jobVars, stamped, nodeVars, sweepVars, excuse>>

\* Step 0b, reading half, in a transaction of its own: an unsettled intent is a
\* refusal unless it is an aged POSTED row; then the whole pool is asked, over
\* HTTP.  Any other state, one that was CONFIRMED meanwhile included, is "None":
\* the ordinary claim and POST follow.
AskPool(d) ==
  LET i == me[d].who  row == RowOf(d) IN
  /\ me[d].pc = "ask"
  /\ \/ /\ row.state \notin OPEN_QUESTION_STATES
        /\ Goto(d, "claim")
        /\ excuse' = IF row.state = "CONFIRMED"
                     THEN [excuse EXCEPT ![i] = @ \cup {"overtaken"}] ELSE excuse
     \/ /\ \/ row.state = "RECONCILED_AMBIGUOUS"
           \/ row.state = "POSTED" /\ row.posted # Never /\ now - row.posted < Lease
        /\ Leave(d) /\ UNCHANGED excuse
     \/ /\ row.state = "POSTED" /\ (row.posted = Never \/ now - row.posted >= Lease)
        /\ \E up \in SUBSET Nodes :
             me' = [me EXCEPT ![d].pc = "apply", ![d].since = now,
                      ![d].heard = IF \E n \in up : Listed(i, n) THEN "listed"
                                   ELSE IF up = Nodes THEN "silent" ELSE "opaque"]
        /\ UNCHANGED <<intent, excuse>>
  /\ UNCHANGED <<now, jobVars, guard, stamped, nodeVars, sweepVars>>

\* Mutant: a node that did not answer counts as a node that denies the run.
ApplyAnswer_Blind(d) ==
  LET row == RowOf(d) IN
  /\ me[d].pc = "apply"
  /\ \/ /\ me[d].heard = "listed"
        /\ WriteGoto(d, Confirmed(row), "stamp")
        /\ SetGuard(me[d].who, "jobid", GuardTTL)
     \/ /\ me[d].heard \in {"opaque", "silent"}
        /\ WriteGoto(d, [row EXCEPT !.state = "PLANNED", !.posted = Never], "claim")
        /\ UNCHANGED guard
  /\ UNCHANGED <<now, jobVars, stamped, nodeVars, sweepVars, excuse>>

\* Step 0b, writing half: adopt, refuse, or roll the intent back to PLANNED.  The
\* row is written as it was read before the pool was asked: a POST recorded since
\* is rolled back with it.
ApplyAnswer(d) ==
  LET row == RowOf(d) IN
  /\ me[d].pc = "apply"
  /\ \/ /\ me[d].heard = "listed"
        /\ WriteGoto(d, Confirmed(row), "stamp")
        /\ SetGuard(me[d].who, "jobid", GuardTTL)
     \/ /\ me[d].heard = "opaque"
        /\ Leave(d) /\ UNCHANGED guard
     \/ /\ me[d].heard = "silent"
        /\ WriteGoto(d, [row EXCEPT !.state = "PLANNED", !.posted = Never], "claim")
        /\ UNCHANGED guard
  /\ excuse' = IF me[d].heard = "silent" /\ row.posted >= me[d].since
               THEN [excuse EXCEPT ![me[d].who] = @ \cup {"outdated"}] ELSE excuse
  /\ UNCHANGED <<now, jobVars, stamped, nodeVars, sweepVars>>

\* Step 1 of schedule(): SET NX; a committed guard is a no-op, a sentinel refuses.
Claim(d) ==
  LET i == me[d].who IN
  /\ me[d].pc = "claim"
  /\ \/ guard[i].val = "none" /\ Goto(d, "record") /\ SetGuard(i, "sentinel", SentinelTTL)
     \/ Guarded(i) /\ Goto(d, "stamp") /\ UNCHANGED guard
     \/ guard[i].val = "sentinel" /\ Leave(d) /\ UNCHANGED guard
  /\ UNCHANGED <<now, jobVars, stamped, nodeVars, sweepVars, excuse>>

\* Step 2: POSTED is recorded before the network call.  The absence ledger of
\* an earlier POST (absent, firstAbsent) is left as it was.
record_post(d) ==
  /\ me[d].pc = "record"
  /\ WriteGoto(d, [RowOf(d) EXCEPT !.state = "POSTED", !.posted = now], "send")
  /\ UNCHANGED <<now, jobVars, guard, stamped, nodeVars, sweepVars, excuse>>

\* _post_schedule: the request leaves; Scrapyd does not deduplicate the jobid.
Send(d) ==
  LET i == me[d].who IN
  /\ me[d].pc = "send"
  /\ \E k \in Posts :
       /\ run[i][k].st = "unsent" /\ \A j \in 1 .. k - 1 : run[i][j].st # "unsent"
       /\ run' = [run EXCEPT ![i][k] = [st |-> "inflight", node |-> RowOf(d).node, at |-> now]]
       /\ me' = [me EXCEPT ![d].pc = "wait", ![d].since = now, ![d].ticket = k]
  /\ UNCHANGED <<now, jobVars, intent, guard, stamped, hist, sweepVars, excuse>>

\* status=ok: the node holds the run.
Answered(d) ==
  /\ me[d].pc = "wait" /\ run[me[d].who][me[d].ticket].st \in Accepted
  /\ Goto(d, "confirm")
  /\ UNCHANGED <<now, jobVars, guard, stamped, nodeVars, sweepVars, excuse>>

\* The request is known not to have reached the node (refused, 401, non-ok).
PostRefused(d) ==
  LET i == me[d].who  k == me[d].ticket IN
  /\ me[d].pc = "wait" /\ run[i][k].st \in {"inflight", "dropped"}
  /\ run' = [run EXCEPT ![i][k] = [Unsent EXCEPT !.st = "dropped"]]
  /\ Goto(d, "fail")
  /\ UNCHANGED <<now, jobVars, guard, stamped, hist, sweepVars, excuse>>

\* A read timeout or a reset connection: the request may still be accepted, or
\* already has been.  The except BaseException clause does not tell it apart.
PostAbandoned(d) ==
  LET i == me[d].who IN
  /\ me[d].pc = "wait" /\ run[i][me[d].ticket].st # "dropped"
  /\ excuse' = [excuse EXCEPT ![i] = @ \cup {"abandoned"}]
  /\ Goto(d, "fail")
  /\ UNCHANGED <<now, jobVars, guard, stamped, nodeVars, sweepVars>>

\* Mutant: a state the column's enum does not have.
Fail_Unknown(d) ==
  /\ me[d].pc = "fail"
  /\ WriteGoto(d, [RowOf(d) EXCEPT !.state = "ERROR"], "release")
  /\ UNCHANGED <<now, jobVars, guard, stamped, nodeVars, sweepVars, excuse>>

\* Step 4, release: the intent is FAILED, then the guard is deleted and the
\* exception leaves the task.
Fail(d) ==
  /\ me[d].pc = "fail"
  /\ WriteGoto(d, [RowOf(d) EXCEPT !.state = "FAILED"], "release")
  /\ UNCHANGED <<now, jobVars, guard, stamped, nodeVars, sweepVars, excuse>>

Release(d) ==
  /\ me[d].pc = "release"
  /\ guard' = [guard EXCEPT ![me[d].who] = NoGuard]
  /\ Leave(d)
  /\ UNCHANGED <<now, jobVars, stamped, nodeVars, sweepVars, excuse>>

\* Step 3, commit: the durable CONFIRMED first, then the Redis guard.
ConfirmPost(d) ==
  /\ me[d].pc = "confirm"
  /\ WriteGoto(d, Confirmed(RowOf(d)), "guard")
  /\ UNCHANGED <<now, jobVars, guard, stamped, nodeVars, sweepVars, excuse>>

CommitGuard(d) ==
  /\ me[d].pc = "guard"
  /\ SetGuard(me[d].who, "jobid", GuardTTL)
  /\ Goto(d, "stamp")
  /\ UNCHANGED <<now, jobVars, stamped, nodeVars, sweepVars, excuse>>

\* get_committed_dispatch: this very identity, read from the guard first and
\* from the fenced intent otherwise.
Committed(d) ==
  Guarded(me[d].who) \/ (RowOf(d).state = "CONFIRMED" /\ ~FenceStale(RowOf(d)))

\* stamp_targets_dispatched: only a committed dispatch is stamped.
Stamp(d) ==
  /\ me[d].pc = "stamp"
  /\ stamped' = [stamped EXCEPT ![me[d].who] = @ \/ Committed(d)]
  /\ Leave(d)
  /\ UNCHANGED <<now, jobVars, guard, nodeVars, sweepVars, excuse>>

\* The worker process dies: SIGKILL, deploy, Celery's hard time limit.  An open
\* transaction is rolled back; what was sent stays sent.
Crash(d) ==
  /\ me[d].pc # "idle"
  /\ me' = [me EXCEPT ![d] = Idle]
  /\ excuse' = IF d \in CallerOwned /\ me[d].ticket # 0
               THEN [excuse EXCEPT ![me[d].who] = @ \cup {"uncommitted"}] ELSE excuse
  /\ UNCHANGED <<now, jobVars, intent, guard, stamped, nodeVars, sweepVars>>

\* A spider or a reaper hands the batch's targets back (DEFERRED, or reverted to
\* PENDING with the stamp cleared), so the next delivery may select them again.
HandBack(i) ==
  /\ stamped[i] /\ \E k \in Posts : run[i][k].st \in Accepted
  /\ stamped' = [stamped EXCEPT ![i] = FALSE]
  /\ UNCHANGED <<now, jobVars, intent, guard, nodeVars, me, sweepVars, excuse>>

------------------------------------------------------------------------------
(* Scrapyd nodes                                                             *)

Accept(i, k) ==
  /\ run[i][k].st = "inflight"
  /\ run' = [run EXCEPT ![i][k].st = "live", ![i][k].at = Never]
  /\ UNCHANGED <<now, jobVars, intent, guard, stamped, hist, me, sweepVars, excuse>>

Lose(i, k) ==
  /\ run[i][k].st = "inflight"
  /\ run' = [run EXCEPT ![i][k] = [Unsent EXCEPT !.st = "dropped"]]
  /\ UNCHANGED <<now, jobVars, intent, guard, stamped, hist, me, sweepVars, excuse>>

Gone == [Unsent EXCEPT !.st = "gone", !.at = now]

\* A run ends; beyond Keep finished entries the node forgets the oldest.
Finish(n, i, k) ==
  LET h == Append(hist[n], <<i, k>>)
      ended == [run EXCEPT ![i][k].st = "finished"]
  IN
  /\ run[i][k].st = "live" /\ run[i][k].node = n
  /\ IF Len(h) > Keep
     THEN /\ hist' = [hist EXCEPT ![n] = Tail(h)]
          /\ run' = [ended EXCEPT ![Head(h)[1]][Head(h)[2]] = Gone]
     ELSE /\ hist' = [hist EXCEPT ![n] = h]
          /\ run' = ended
  /\ UNCHANGED <<now, jobVars, intent, guard, stamped, me, sweepVars, excuse>>

\* MemoryJobStorage: a restarted node has killed its runs and knows none.
Restart(n) ==
  /\ \E i \in Identities : Listed(i, n)
  /\ hist' = [hist EXCEPT ![n] = << >>]
  /\ run' = [i \in Identities |-> [k \in Posts |->
               IF run[i][k].node = n /\ run[i][k].st \in {"live", "finished"}
               THEN Gone ELSE run[i][k]]]
  /\ UNCHANGED <<now, jobVars, intent, guard, stamped, me, sweepVars, excuse>>

------------------------------------------------------------------------------
(* The reconciler sweep, reconcile_inflight_intents                          *)

\* The scan reads every unsettled row and the witnesses, then asks each node
\* once; a node that does not answer leaves its rows alone.
SweepScan(up) ==
  LET todo == {i \in Identities : /\ intent[i].state \in OPEN_QUESTION_STATES
                                  /\ intent[i].node \in up}
  IN
  /\ \A i \in Identities : verdict[i] = "none"
  /\ todo # {}
  /\ verdict' = [i \in Identities |->
       IF i \notin todo THEN "none"
       ELSE IF Listed(i, intent[i].node) THEN "listed"
       ELSE IF HistoryIntact(i) THEN "silent" ELSE "forgetful"]
  /\ sweepAt' = now
  /\ UNCHANGED <<now, jobVars, intent, guard, stamped, nodeVars, me, excuse>>

\* Mutant: the run is noted as seen and the row is left an open question.
SweepSettle_SeenOnly(i) ==
  /\ verdict[i] # "none"
  /\ intent' = [intent EXCEPT ![i] =
       IF verdict[i] = "listed" THEN [@ EXCEPT !.confirmed = now]
       ELSE record_absence(@, sweepAt, verdict[i] = "silent")]
  /\ verdict' = [verdict EXCEPT ![i] = "none"]
  /\ sweepAt' = IF \A j \in Identities \ {i} : verdict[j] = "none" THEN 0 ELSE sweepAt
  /\ UNCHANGED <<now, jobVars, guard, stamped, nodeVars, me, excuse>>

\* One row settled, in a transaction of its own, on the current row.
SweepSettle(i) ==
  /\ verdict[i] # "none"
  /\ intent' = [intent EXCEPT ![i] =
       IF verdict[i] = "listed" THEN Confirmed(@)
       ELSE record_absence(@, sweepAt, verdict[i] = "silent")]
  /\ verdict' = [verdict EXCEPT ![i] = "none"]
  /\ sweepAt' = IF \A j \in Identities \ {i} : verdict[j] = "none" THEN 0 ELSE sweepAt
  /\ UNCHANGED <<now, jobVars, guard, stamped, nodeVars, me, excuse>>

------------------------------------------------------------------------------
(* cancel_and_reconcile_job, and the clock                                   *)

\* The fence is committed first; it is a write to the job's row.
CancelFence ==
  /\ Cancellable /\ cancelPc = "none" /\ ~JobRowLocked
  /\ gen' = 1 /\ cancelPc' = "fenced" /\ fencedAt' = now
  /\ UNCHANGED <<now, intent, guard, stamped, nodeVars, me, sweepVars, excuse>>

\* Best-effort cancel.json to the node of every recorded intent: any of the live
\* runs may stop, and any may be missed.
CancelRuns ==
  /\ cancelPc = "fenced"
  /\ \E stop \in SUBSET {i \in Identities : intent[i].node # None} :
       run' = [i \in Identities |-> [k \in Posts |->
                IF i \in stop /\ run[i][k].st = "live" THEN Gone ELSE run[i][k]]]
  /\ cancelPc' = "stopped"
  /\ UNCHANGED <<now, gen, fencedAt, intent, guard, stamped, hist, me, sweepVars, excuse>>

CancelGuards ==
  /\ cancelPc = "stopped"
  /\ guard' = [i \in Identities |-> NoGuard]
  /\ cancelPc' = "done"
  /\ UNCHANGED <<now, gen, fencedAt, intent, stamped, nodeVars, me, sweepVars, excuse>>

\* Time passes.  A waiting request, to schedule.json or listjobs.json, times out
\* in HttpTimeout, a sent one is delivered or lost in NetDelay; expired Redis
\* keys are gone.
Tick ==
  /\ now < MaxTime
  /\ \A d \in Deliveries :
       /\ me[d].pc \notin Brief
       /\ me[d].pc \in {"wait", "apply"} => now - me[d].since < HttpTimeout
  /\ \A i \in Identities, k \in Posts :
       run[i][k].st = "inflight" => now - run[i][k].at < NetDelay
  /\ now' = now + 1
  /\ guard' = [i \in Identities |-> IF guard[i].exp <= now' THEN NoGuard ELSE guard[i]]
  /\ UNCHANGED <<jobVars, intent, stamped, nodeVars, me, sweepVars, excuse>>

Deliver(d) ==
  \/ \E i \in Identities, n \in Nodes : Plan(d, i, n)
  \/ ReceiverCheck(d) \/ Reconcile(d) \/ AskPool(d) \/ ApplyAnswer(d)
  \/ Claim(d) \/ record_post(d) \/ Send(d)
  \/ Answered(d) \/ PostRefused(d) \/ PostAbandoned(d)
  \/ Fail(d) \/ Release(d) \/ ConfirmPost(d) \/ CommitGuard(d) \/ Stamp(d)
  \/ Crash(d)

Next ==
  \/ \E d \in Deliveries : Deliver(d)
  \/ \E i \in Identities : HandBack(i) \/ SweepSettle(i)
  \/ \E i \in Identities, k \in Posts : Accept(i, k) \/ Lose(i, k)
  \/ \E n \in Nodes : \/ Restart(n)
                       \/ \E i \in Identities, k \in Posts : Finish(n, i, k)
  \/ \E up \in SUBSET Nodes : SweepScan(up)
  \/ CancelFence \/ CancelRuns \/ CancelGuards
  \/ Tick

Spec == Init /\ [][Next]_vars

\* Celery beat runs the reconciler every five minutes, and a node that is down
\* comes back: a pass that every node answers happens again and again, and each
\* row of a pass is settled.  Deliveries, runs and the operator owe nothing.
Fairness == /\ WF_vars(SweepScan(Nodes))
            /\ \A i \in Identities : WF_vars(SweepSettle(i))
FairSpec == Spec /\ Fairness

------------------------------------------------------------------------------
(* Properties                                                                *)

\* Every row, guard and local state is one the code's types allow.
TypeOK ==
  /\ now \in Time /\ gen \in {0, 1}
  /\ cancelPc \in {"none", "fenced", "stopped", "done"}
  /\ fencedAt \in Time \cup {Never}
  /\ intent \in [Identities -> Row]
  /\ guard \in [Identities -> Guard]
  /\ stamped \in [Identities -> BOOLEAN]
  /\ run \in [Identities -> [Posts -> Entry]]
  /\ hist \in [Nodes -> Seq(Identities \X Posts)]
  /\ me \in [Deliveries -> Local]
  /\ sweepAt \in Time
  /\ verdict \in [Identities -> {"none", "listed", "silent", "forgetful"}]
  /\ excuse \in [Identities -> SUBSET Causes]

DoubleRun(i) == \E j, k \in Posts : j # k /\ run[i][j].st = "live" /\ run[i][k].st = "live"

\* "A retried at-least-once Celery dispatch must never double-run a batch"
\* (scrapyd/client.py): while the job is not cancelled, no two runs of one
\* identity are live at the same time.
NoDoubleRun == gen = 0 => \A i \in Identities : ~DoubleRun(i)

\* What the protocol does guarantee against concurrent deliveries, crashes,
\* expiring guards, lost requests and restarting nodes: two live runs of one
\* identity only after one of four named events, a POST of unknown outcome that
\* was closed as FAILED (abandoned), a confirmation that landed between the two
\* reads of schedule() (overtaken), a denial written over the record of a POST
\* that left after the pool was asked (outdated), or a recovery that died with
\* its intent row uncommitted (uncommitted).
DoubleRunExcused == gen = 0 => \A i \in Identities : DoubleRun(i) => excuse[i] # {}

\* "An aged-out guard over a CONFIRMED intent resolves to the committed jobid":
\* a dispatch the reconciler confirmed is not sent a second time because the
\* sentinel expired.
ConfirmedNotReposted == gen = 0 => \A i \in Identities : DoubleRun(i) => excuse[i] # {"overtaken"}

\* A worker that dies after the POST of recover_stalled_batches leaves a durable
\* record of it, so the next recovery does not send the same batch again.
RecoveryNotReposted == gen = 0 => \A i \in Identities : DoubleRun(i) => excuse[i] # {"uncommitted"}

\* RECONCILED_MISSING, the state that authorizes spending on a second run, is
\* never given to a batch whose request may still arrive or whose run is live.
MissingIsTrue ==
  \A i \in Identities :
    intent[i].state = "RECONCILED_MISSING" /\ excuse[i] = {} =>
      \A k \in Posts : run[i][k].st \notin {"inflight", "live"}

\* "One answer cannot distinguish never arrived from arrived a moment ago": the
\* denials behind RECONCILED_MISSING are all about the request it is a verdict
\* on, the first of them included.
MissingCorroborated ==
  \A i \in Identities :
    intent[i].state = "RECONCILED_MISSING" => intent[i].firstAbsent >= intent[i].posted

\* A run of w that its node had accepted, and forgotten before time t.
LostBefore(w, t) ==
  /\ \E k \in Posts : run[w][k].st = "gone"
  /\ \A k \in Posts : run[w][k].st \in {"unsent", "dropped", "gone"} /\ run[w][k].at < t

\* A node that has demonstrably forgotten a run it took after ours testifies to
\* nothing: no batch is RECONCILED_MISSING on denials that began after such a
\* confirmed witness had vanished from the same node.
WitnessVetoesDenials ==
  \A i, w \in Identities :
    /\ intent[i].state = "RECONCILED_MISSING" /\ intent[i].posted <= intent[i].firstAbsent
    /\ intent[w].state = "CONFIRMED" /\ intent[w].node = intent[i].node
    /\ intent[w].confirmed \in intent[i].posted .. intent[i].firstAbsent - 1
    => ~LostBefore(w, intent[i].firstAbsent)

\* The same where a confirmation is committed as it is made.  A recovery's becomes
\* readable only with its transaction, later than the confirmed_at it carries: a
\* pass in between does not see the witness, and the sentence above fails.
LostWitnessVetoes == CallerOwned = {} => WitnessVetoesDenials

\* Targets carry dispatched_at, and leave the dispatcher's sight, only when a
\* node did take the batch, whatever the guard and the intent went through.
StampHasRun ==
  \A i \in Identities : stamped[i] => \E k \in Posts : run[i][k].st \in Accepted

Leaves(i, k) == run[i][k].st = "unsent" /\ run'[i][k].st # "unsent"

\* Once the fence is committed, cancelled work stops being sent: an execution
\* that read the fence before may still POST, and only within the time its
\* question to the pool may take.
PostsStopAfterFence ==
  [][\A i \in Identities, k \in Posts :
       fencedAt # Never /\ Leaves(i, k) => now <= fencedAt + HttpTimeout]_vars

\* "With the fence in place, a dispatch that races this delete is rejected on its
\* stale generation": nothing is sent once cancel has deleted the guards.
RacingDispatchRejected ==
  [][\A i \in Identities, k \in Posts : cancelPc = "done" => ~Leaves(i, k)]_vars

Unsettled(i) == intent[i].state \in OPEN_QUESTION_STATES /\ Listed(i, intent[i].node)

\* An intent left open by a crash whose run its node lists is settled, or the
\* node stops listing it; it never stays an open question under the sweep.
OpenRunSettled == \A i \in Identities : Unsettled(i) ~> ~Unsettled(i)
==============================================================================
