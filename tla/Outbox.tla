------------------------------- MODULE Outbox -------------------------------
(* The transactional outbox between a domain transaction and the task that    *)
(* must look at what it wrote.  A producer writes its rows and one message in *)
(* a transaction; drain passes claim messages with SKIP LOCKED and publish    *)
(* before they commit; Celery delivers at least once and acknowledges late.   *)
(* Three kinds of message: "sweep" (finalize, hand-off, breaker defer: the    *)
(* task reads everything its key names), "recompute" (the same, behind a      *)
(* Redis SET NX in the producer) and "event" (create_webhook_event, behind a  *)
(* Redis SET NX in the consumer).                                             *)
EXTENDS Integers, FiniteSets, TLAPS

CONSTANTS Producers,    \* domain transactions, each with the message it writes
          Drains,       \* concurrent executions of outbox_drain
          Workers,      \* Celery worker slots
          Keys,         \* dedup keys
          NoKey,        \* a message written without one
          Kinds,        \* the kinds of message in play
          MaxAttempts,  \* OUTBOX_MAX_ATTEMPTS
          BackoffBase,  \* OUTBOX_RETRY_BACKOFF_BASE_SECONDS
          MaxBackoff,   \* MAX_BACKOFF_SECONDS
          BatchLimit,   \* OUTBOX_DRAIN_BATCH_LIMIT
          Delay,        \* the debounce delays producers ask for
          Retention,    \* RETENTION_OUTBOX_MESSAGES_DAYS
          MaxQueued,    \* bound on the broker's copies of one message
          MaxTime       \* bound on the clock

ASSUME OutboxAssumption ==
  /\ NoKey \notin Keys /\ Kinds \subseteq {"sweep", "recompute", "event"} /\ Kinds # {}
  /\ {MaxAttempts, BackoffBase, MaxBackoff, BatchLimit, Retention, MaxQueued, MaxTime} \subseteq Nat
  /\ MaxAttempts > 0 /\ Delay \subseteq Nat /\ Delay # {}

VARIABLES now,     \* wall clock, in ticks
          prod,    \* Producers -> the domain transaction
          row,     \* Producers -> the outbox_messages row it inserted
          redis,   \* the SET NX keys that are set: <<kind, key>>
          drain,   \* Drains -> a drain pass
          queued,  \* Producers -> copies of the message in the broker
          work,    \* Workers -> the task being run
          seen,    \* producers whose rows a finished task has read
          events,  \* producers whose webhook_events row exists
          raised,  \* producers whose task ended in an exception
          sent     \* history: sent without an error, by a pass that has not died

vars == <<now, prod, row, redis, drain, queued, work, seen, events, raised, sent>>

Time == 0 .. MaxTime
\* A message may become available after the clock has stopped.
Later == 0 .. MaxTime + MaxBackoff + BackoffBase
           + (CHOOSE n \in Delay : \A m \in Delay : m <= n)

Transaction == [pc : {"idle", "open", "committed", "aborted"}, kind : Kinds,
                key : Keys \cup {NoKey}, avail : Later, inserts : BOOLEAN]
MessageRow  == [status : {"absent", "PENDING", "PUBLISHED", "DEAD", "deleted", "buried"},
                attempts : 0 .. MaxAttempts, avail : Later, updated : Time]
Pass        == [pc : {"idle", "ready", "claimed", "sent", "raised"},
                msg : Producers \cup {NoKey}, at : Time, left : 0 .. BatchLimit]
Task        == [pc : {"idle", "started"}, msg : Producers \cup {NoKey}, snapshot : SUBSET Producers]

NoRow  == [status |-> "absent", attempts |-> 0, avail |-> 0, updated |-> 0]
NoPass == [pc |-> "idle", msg |-> NoKey, at |-> 0, left |-> 0]
NoTask == [pc |-> "idle", msg |-> NoKey, snapshot |-> {}]

Init ==
  /\ now = 0
  /\ prod \in [Producers -> {[pc |-> "idle", kind |-> kind, key |-> key, avail |-> 0,
                              inserts |-> FALSE] : kind \in Kinds, key \in Keys \cup {NoKey}}]
  /\ row = [p \in Producers |-> NoRow]
  /\ redis = {}
  /\ drain = [d \in Drains |-> NoPass]
  /\ queued = [p \in Producers |-> 0]
  /\ work = [w \in Workers |-> NoTask]
  /\ seen = {} /\ events = {} /\ raised = {} /\ sent = {}

------------------------------------------------------------------------------
(* Producers                                                                 *)

Keyed(p)      == prod[p].key # NoKey
SameKey(p, q) == Keyed(p) /\ prod[q].key = prod[p].key /\ prod[q].kind = prod[p].kind
RedisKey(p)   == <<prod[p].kind, prod[p].key>>

\* ON CONFLICT DO NOTHING against the partial unique index over PENDING rows.
Duplicate(p) == \E q \in Producers \ {p} : SameKey(p, q) /\ row[q].status = "PENDING"

\* An insert of the same key that has not committed makes the second one wait.
Blocked(p) == \E q \in Producers \ {p} : SameKey(p, q) /\ prod[q].pc = "open" /\ prod[q].inserts

\* The domain rows, then write_outbox_message, in one open transaction.  A
\* recompute asks Redis first and writes no message if the key is taken; a
\* Redis that does not answer is a yes.
Write(p) ==
  /\ prod[p].pc = "idle"
  /\ \E delay \in Delay, redisDown \in BOOLEAN :
       LET asks  == prod[p].kind = "recompute" /\ Keyed(p) /\ ~redisDown
           taken == asks /\ RedisKey(p) \in redis
       IN
       /\ taken \/ ~Blocked(p)
       /\ prod' = [prod EXCEPT ![p].pc = "open", ![p].avail = now + delay,
                               ![p].inserts = ~taken /\ ~Duplicate(p)]
       /\ redis' = IF asks THEN redis \cup {RedisKey(p)} ELSE redis
  /\ UNCHANGED <<now, row, drain, queued, work, seen, events, raised, sent>>

\* The caller commits: rows and message become visible together.
Commit(p) ==
  /\ prod[p].pc = "open"
  /\ prod' = [prod EXCEPT ![p].pc = "committed"]
  /\ row' = IF prod[p].inserts
            THEN [row EXCEPT ![p] = [NoRow EXCEPT !.status = "PENDING", !.avail = prod[p].avail,
                                                  !.updated = now]]
            ELSE row
  /\ UNCHANGED <<now, redis, drain, queued, work, seen, events, raised, sent>>

Rollback(p) ==
  /\ prod[p].pc = "open"
  /\ prod' = [prod EXCEPT ![p].pc = "aborted"]
  /\ UNCHANGED <<now, row, redis, drain, queued, work, seen, events, raised, sent>>

------------------------------------------------------------------------------
(* drain_outbox                                                              *)

next_backoff_seconds(attempts) ==
  LET exponent == IF attempts < 1 THEN 0 ELSE IF attempts - 1 < 20 THEN attempts - 1 ELSE 20
      wait     == BackoffBase * 2 ^ exponent
  IN IF attempts < 1 \/ wait < MaxBackoff THEN wait ELSE MaxBackoff

Locked(p) == \E d \in Drains : drain[d].msg = p

\* One clock reading serves the whole pass.
DrainBegin(d) ==
  /\ drain[d].pc = "idle"
  /\ drain' = [drain EXCEPT ![d] = [NoPass EXCEPT !.pc = "ready", !.at = now, !.left = BatchLimit]]
  /\ UNCHANGED <<now, prod, row, redis, queued, work, seen, events, raised, sent>>

\* Mutant: the claim reads rows another pass holds.
Claimable_Unlocked(d) == {p \in Producers : row[p].status = "PENDING" /\ row[p].avail <= drain[d].at}

\* _claim_one: FOR UPDATE SKIP LOCKED, oldest available_at first.
Claimable(d) == {p \in Producers : row[p].status = "PENDING" /\ row[p].avail <= drain[d].at
                                     /\ ~Locked(p)}

\* Mutant: the status flips when the message is claimed, before it is sent.
DrainClaim_First(d) ==
  /\ drain[d].pc = "ready" /\ drain[d].left > 0
  /\ \E p \in Claimable(d) :
       /\ \A q \in Claimable(d) : row[p].avail <= row[q].avail
       /\ drain' = [drain EXCEPT ![d].pc = "claimed", ![d].msg = p, ![d].left = @ - 1]
       /\ row' = [row EXCEPT ![p].status = "PUBLISHED"]
  /\ UNCHANGED <<now, prod, redis, queued, work, seen, events, raised, sent>>

\* Mutant: the pass has no batch limit.
DrainClaim_Endless(d) ==
  /\ drain[d].pc = "ready"
  /\ \E p \in Claimable(d) :
       /\ \A q \in Claimable(d) : row[p].avail <= row[q].avail
       /\ drain' = [drain EXCEPT ![d].pc = "claimed", ![d].msg = p, ![d].left = @ - 1]
  /\ UNCHANGED <<now, prod, row, redis, queued, work, seen, events, raised, sent>>

DrainClaim(d) ==
  /\ drain[d].pc = "ready" /\ drain[d].left > 0
  /\ \E p \in Claimable(d) :
       /\ \A q \in Claimable(d) : row[p].avail <= row[q].avail
       /\ drain' = [drain EXCEPT ![d].pc = "claimed", ![d].msg = p, ![d].left = @ - 1]
  /\ UNCHANGED <<now, prod, row, redis, queued, work, seen, events, raised, sent>>

\* Nothing to claim, or the batch limit: the pass is over.
DrainEnd(d) ==
  /\ drain[d].pc = "ready" /\ (drain[d].left = 0 \/ Claimable(d) = {})
  /\ drain' = [drain EXCEPT ![d] = NoPass]
  /\ UNCHANGED <<now, prod, row, redis, queued, work, seen, events, raised, sent>>

\* publish: the broker has the message, or the call raises, with or without it.
DrainPublish(d) ==
  /\ drain[d].pc = "claimed"
  /\ \E arrives \in BOOLEAN, raises \in BOOLEAN :
       /\ arrives \/ raises
       /\ arrives => queued[drain[d].msg] < MaxQueued
       /\ queued' = IF arrives THEN [queued EXCEPT ![drain[d].msg] = @ + 1] ELSE queued
       /\ drain' = [drain EXCEPT ![d].pc = IF raises THEN "raised" ELSE "sent"]
       /\ sent' = IF raises THEN sent ELSE sent \cup {drain[d].msg}
  /\ UNCHANGED <<now, prod, row, redis, work, seen, events, raised>>

\* Mutant: the row of a failed publish is rolled back.
Settled_RolledBack(r, pc, at) ==
  IF pc = "sent" THEN [r EXCEPT !.status = "PUBLISHED", !.attempts = @ + 1, !.updated = at] ELSE r

\* What the message's transaction commits after the publish.
Settled(r, pc, at) ==
  LET tried == [r EXCEPT !.attempts = @ + 1, !.updated = at] IN
  IF pc = "sent" THEN [tried EXCEPT !.status = "PUBLISHED"]
  ELSE IF tried.attempts >= MaxAttempts THEN [tried EXCEPT !.status = "DEAD"]
  ELSE [tried EXCEPT !.avail = at + next_backoff_seconds(tried.attempts)]

DrainSettle(d) ==
  LET p == drain[d].msg IN
  /\ drain[d].pc \in {"sent", "raised"}
  /\ row' = [row EXCEPT ![p] = Settled(@, drain[d].pc, drain[d].at)]
  /\ drain' = [drain EXCEPT ![d].pc = "ready", ![d].msg = NoKey]
  /\ UNCHANGED <<now, prod, redis, queued, work, seen, events, raised, sent>>

\* The worker dies; the open transaction is gone and the row is as it was.
DrainDies(d) ==
  /\ drain[d].pc # "idle"
  /\ drain' = [drain EXCEPT ![d] = NoPass]
  /\ sent' = IF drain[d].pc = "sent" THEN sent \ {drain[d].msg} ELSE sent
  /\ UNCHANGED <<now, prod, row, redis, queued, work, seen, events, raised>>

\* sweep_outbox: only what is finished is deleted, the dead ten times later.
Expired(p) == \/ row[p].status = "PUBLISHED" /\ now - row[p].updated > Retention
              \/ row[p].status = "DEAD" /\ now - row[p].updated > 10 * Retention
Reconcile ==
  /\ \E p \in Producers : Expired(p)
  /\ row' = [p \in Producers |-> IF ~Expired(p) THEN row[p] ELSE
       [NoRow EXCEPT !.status = IF row[p].status = "DEAD" THEN "buried" ELSE "deleted"]]
  /\ UNCHANGED <<now, prod, redis, drain, queued, work, seen, events, raised, sent>>

------------------------------------------------------------------------------
(* The consumers                                                             *)

Committed == {p \in Producers : prod[p].pc = "committed"}
IsEvent(p) == prod[p].kind = "event"

\* A worker takes a message.  A sweep or a recompute reads the committed rows.
\* create_webhook_event sets its Redis key, and is over at once if it was set.
TaskStart(w) ==
  /\ work[w].pc = "idle"
  /\ \E p \in Producers, redisDown \in BOOLEAN :
       LET asks  == IsEvent(p) /\ Keyed(p) /\ ~redisDown
           taken == asks /\ RedisKey(p) \in redis
       IN
       /\ queued[p] > 0
       /\ queued' = [queued EXCEPT ![p] = @ - 1]
       /\ redis' = IF asks THEN redis \cup {RedisKey(p)} ELSE redis
       /\ work' = IF taken THEN work
                  ELSE [work EXCEPT ![w] = [pc |-> "started", msg |-> p, snapshot |->
                          IF IsEvent(p) THEN {} ELSE {q \in Committed : q = p \/ SameKey(p, q)}]]
  /\ UNCHANGED <<now, prod, row, drain, seen, events, raised, sent>>

\* The task's transaction commits and the message is acknowledged.  The event's
\* row has the message's id: ON CONFLICT DO NOTHING.
TaskEnd(w) ==
  LET p == work[w].msg IN
  /\ work[w].pc = "started"
  /\ seen' = seen \cup work[w].snapshot
  /\ events' = IF IsEvent(p) THEN events \cup {p} ELSE events
  /\ work' = [work EXCEPT ![w] = NoTask]
  /\ UNCHANGED <<now, prod, row, redis, drain, queued, raised, sent>>

\* task_acks_on_failure_or_timeout: a task that raises is acknowledged as well.
TaskRaises(w) ==
  /\ work[w].pc = "started"
  /\ raised' = raised \cup {work[w].msg}
  /\ work' = [work EXCEPT ![w] = NoTask]
  /\ UNCHANGED <<now, prod, row, redis, drain, queued, seen, events, sent>>

\* task_acks_late and task_reject_on_worker_lost: the message is delivered again.
WorkerDies(w) ==
  /\ work[w].pc = "started"
  /\ work' = [work EXCEPT ![w] = NoTask]
  /\ queued' = [queued EXCEPT ![work[w].msg] = @ + 1]
  /\ UNCHANGED <<now, prod, row, redis, drain, seen, events, raised, sent>>

\* A Redis key outlives its TTL.
KeyExpires ==
  /\ \E k \in redis : redis' = redis \ {k}
  /\ UNCHANGED <<now, prod, row, drain, queued, work, seen, events, raised, sent>>

Tick ==
  /\ now < MaxTime
  /\ now' = now + 1
  /\ UNCHANGED <<prod, row, redis, drain, queued, work, seen, events, raised, sent>>

Produce(p) == Write(p) \/ Commit(p) \/ Rollback(p)
Drain(d)   == DrainBegin(d) \/ DrainClaim(d) \/ DrainEnd(d) \/ DrainPublish(d) \/ DrainSettle(d)
                \/ DrainDies(d)
Consume(w) == TaskStart(w) \/ TaskEnd(w) \/ TaskRaises(w) \/ WorkerDies(w)

Next == \/ \E p \in Producers : Produce(p)
        \/ \E d \in Drains : Drain(d)
        \/ \E w \in Workers : Consume(w)
        \/ Reconcile \/ KeyExpires \/ Tick

Spec == Init /\ [][Next]_vars

\* The scheduler starts a drain every few seconds; a pass that was begun goes on
\* unless its worker dies, and not every pass dies before it settles a message.
\* The clock runs.
Fairness ==
  /\ WF_vars(Tick)
  /\ \A d \in Drains : /\ WF_vars(DrainBegin(d)) /\ WF_vars(DrainEnd(d))
                       /\ SF_vars(DrainClaim(d)) /\ SF_vars(DrainPublish(d))
                       /\ SF_vars(DrainSettle(d))
FairSpec == Spec /\ Fairness

------------------------------------------------------------------------------
(* Properties                                                                *)

\* Every row, pass, task and transaction is one the schema's types allow.
TypeOK ==
  /\ now \in Time /\ prod \in [Producers -> Transaction] /\ row \in [Producers -> MessageRow]
  /\ redis \subseteq Kinds \X Keys /\ drain \in [Drains -> Pass]
  /\ queued \in [Producers -> Nat] /\ work \in [Workers -> Task]
  /\ {seen, events, raised, sent} \subseteq SUBSET Producers

\* The message of q is still on its way, or its failure was reported: it is a
\* dead letter, or its task raised.
Underway(q) == \/ prod[q].pc = "open" /\ prod[q].inserts
               \/ row[q].status \in {"PENDING", "DEAD", "buried"}
               \/ queued[q] > 0 \/ q \in raised

\* What p committed has been read by its task, or a task will read it.
WillRead(p) ==
  \/ p \in seen
  \/ \E q \in Producers : /\ q = p \/ SameKey(p, q)
                          /\ Underway(q) \/ \E w \in Workers : p \in work[w].snapshot

\* An event is recorded under its own message's id, or will be.
WillRecord(p) == p \in events \/ Underway(p) \/ \E w \in Workers : work[w].msg = p

\* Publish-then-commit and late acknowledgement lose nothing: a message that was
\* inserted is followed by its task, whatever dies in between.  (A task that
\* raises is acknowledged and left to the periodic sweeps; an event with a
\* dedup key is EventRecorded's subject.)
InsertedCovered ==
  \A p \in Committed : prod[p].inserts =>
    IF IsEvent(p) THEN ~Keyed(p) => WillRecord(p) ELSE WillRead(p)

\* Concurrent passes do not publish the same message: a second copy is sent only
\* after the pass of the first one died, or its publish raised.
SentNotReclaimed == \A d \in Drains : drain[d].pc = "claimed" => drain[d].msg \notin sent

Pending(p) == row[p].status = "PENDING"
ParkedAway(p) == row[p].avail > MaxTime

\* A message that may be published is published or becomes a dead letter: a
\* failing broker cannot make the dispatcher spin on it.
Drained ==
  \A p \in Producers :
    Pending(p) ~> (~Pending(p) \/ ParkedAway(p))

\* A write while a message of its key is PENDING "is an ON CONFLICT no-op that
\* its one delivery covers": no committed hand-off is left without a reader.
DebounceCovers == \A p \in Committed : prod[p].kind = "sweep" => WillRead(p)

\* The SET NX in front of a recompute is "explicitly not a correctness guard":
\* every committed observation is followed by a recompute that reads it.
RecomputeRecorded == \A p \in Committed : prod[p].kind = "recompute" => WillRead(p)

\* The SET NX in create_webhook_event is "never a reason to drop a genuine
\* event": a committed event, or another of its key, is recorded.
EventRecorded ==
  \A p \in Committed : IsEvent(p) =>
    WillRecord(p) \/ \E q \in Producers : SameKey(p, q) /\ WillRecord(q)

-----------------------------------------------------------------------------
(* Proofs, for any number of producers, drain passes, workers and attempts:   *)
(* publish-then-commit and late acknowledgement lose no message, whatever     *)
(* dies between two steps.                                                    *)


Message == Producers \cup {NoKey}

\* The states of the parts, as far as the argument tells them apart.
Txn  == [pc : {"idle", "open", "committed", "aborted"}, kind : Kinds, key : Keys \cup {NoKey},
         avail : Int, inserts : BOOLEAN]
Rec  == [status : {"absent", "PENDING", "PUBLISHED", "DEAD", "deleted", "buried"},
         attempts : Nat, avail : Int, updated : Int]
Run  == [pc : {"idle", "ready", "claimed", "sent", "raised"}, msg : Message, at : Int, left : Int]
Job  == [pc : {"idle", "started"}, msg : Message, snapshot : SUBSET Producers]

TypeInv ==
  /\ prod \in [Producers -> Txn] /\ row \in [Producers -> Rec]
  /\ drain \in [Drains -> Run] /\ work \in [Workers -> Job]
  /\ queued \in [Producers -> Nat] /\ now \in Int
  /\ raised \subseteq Producers /\ seen \subseteq Producers /\ events \subseteq Producers

\* The messages this is about: all but the events with a dedup key.
Followed(p) == IsEvent(p) => ~Keyed(p)

\* A copy of the message is with the broker or a worker, or its task is over.
Delivered(p) ==
  \/ queued[p] > 0 \/ p \in raised
  \/ IF IsEvent(p) THEN p \in events ELSE p \in seen
  \/ \E w \in Workers : work[w].pc = "started" /\ work[w].msg = p

\* A row exists only by a commit, and a copy only of a row.
RowOK ==
  \A p \in Producers :
    /\ row[p].status # "absent" <=> prod[p].pc = "committed" /\ prod[p].inserts
    /\ queued[p] > 0 => row[p].status # "absent"

\* A pass has one message, PENDING and its own, from the claim to the settling.
ClaimOK ==
  \A d \in Drains :
    /\ drain[d].msg # NoKey <=> drain[d].pc \in {"claimed", "sent", "raised"}
    /\ drain[d].msg # NoKey => row[drain[d].msg].status = "PENDING"
    /\ \A e \in Drains : drain[d].msg = drain[e].msg /\ drain[d].msg # NoKey => d = e

\* A task has a message whose rows are committed; if it reads them it reads the message's own.
TaskOK ==
  \A w \in Workers : work[w].pc = "started" =>
    /\ work[w].msg \in Producers /\ row[work[w].msg].status # "absent"
    /\ ~IsEvent(work[w].msg) => work[w].msg \in work[w].snapshot

\* What a pass has sent, and what it settled as sent, was delivered.
SentOK ==
  /\ \A d \in Drains : drain[d].pc = "sent" /\ Followed(drain[d].msg) => Delivered(drain[d].msg)
  /\ \A p \in Producers : row[p].status \in {"PUBLISHED", "deleted"} /\ Followed(p) => Delivered(p)

IInv == TypeInv /\ RowOK /\ ClaimOK /\ TaskOK /\ SentOK

\* Nothing has been written, sent or taken.
LEMMA InitInv == Init => IInv
<1> SUFFICES ASSUME Init PROVE IInv
  OBVIOUS
<1> USE DEF Init, NoRow, NoPass, NoTask
<1>1. NoPass \in Run /\ NoTask \in Job /\ NoRow \in Rec
  BY OutboxAssumption DEF Run, Job, Rec, Message
<1>2. ASSUME NEW kind \in Kinds, NEW key \in Keys \cup {NoKey}
      PROVE  [pc |-> "idle", kind |-> kind, key |-> key, avail |-> 0, inserts |-> FALSE] \in Txn
  BY DEF Txn
<1>3. prod \in [Producers -> Txn]
  BY <1>2
<1>t. TypeInv
  BY <1>1, <1>3 DEF TypeInv
<1>4. RowOK /\ ClaimOK /\ TaskOK /\ SentOK
  BY DEF RowOK, ClaimOK, TaskOK, SentOK
<1> QED BY <1>t, <1>4 DEF IInv

\* A backoff is a number.
LEMMA BackoffType == ASSUME NEW n \in Nat PROVE next_backoff_seconds(n) \in Int
<1>1. \A m \in Nat : 2 ^ m \in Int
  BY SMT
<1> QED BY <1>1, OutboxAssumption DEF next_backoff_seconds

\* Every step keeps the invariant: one step per action, one leaf per conjunct.
LEMMA InvStep == IInv /\ [Next]_vars => IInv'
<1> SUFFICES ASSUME IInv, [Next]_vars PROVE IInv'
  OBVIOUS
<1> USE DEF IInv
<1>1. ASSUME NEW p \in Producers, Write(p) PROVE IInv'
  <2>1. TypeInv'
    <3>1. \A delay \in Delay : now + delay \in Int
      BY OutboxAssumption DEF TypeInv
    <3>2. PICK delay \in Delay, yes \in BOOLEAN :
            prod' = [prod EXCEPT ![p] = [@ EXCEPT !.pc = "open", !.avail = now + delay, !.inserts = yes]]
      <4>1. PICK delay \in Delay, redisDown \in BOOLEAN :
              prod' = [prod EXCEPT ![p].pc = "open", ![p].avail = now + delay,
                                   ![p].inserts = ~(prod[p].kind = "recompute" /\ Keyed(p) /\ ~redisDown
                                                      /\ RedisKey(p) \in redis) /\ ~Duplicate(p)]
        BY <1>1 DEF Write
      <4> DEFINE yes == ~(prod[p].kind = "recompute" /\ Keyed(p) /\ ~redisDown
                            /\ RedisKey(p) \in redis) /\ ~Duplicate(p)
      <4>2. yes \in BOOLEAN
        OBVIOUS
      <4>3. prod' = [prod EXCEPT ![p] = [@ EXCEPT !.pc = "open", !.avail = now + delay, !.inserts = yes]]
        BY <4>1, Zenon
      <4> QED BY <4>2, <4>3
    <3>3. [prod[p] EXCEPT !.pc = "open", !.avail = now + delay, !.inserts = yes] \in Txn
      BY <3>1 DEF TypeInv, Txn
    <3>4. prod' \in [Producers -> Txn]
      BY <3>2, <3>3 DEF TypeInv
    <3> QED BY <1>1, <3>4 DEF Write, TypeInv
  <2>2. RowOK'
    BY <1>1 DEF Write, RedisKey, RowOK, ClaimOK, TaskOK, TypeInv, Txn, Rec, Run, Job, Message
  <2>3. ClaimOK'
    BY <1>1 DEF Write, RedisKey, ClaimOK, TypeInv, Txn, Rec, Run, Job, Message
  <2>4. TaskOK'
    BY <1>1 DEF Write, RedisKey, TaskOK, RowOK, TypeInv, Txn, Rec, Run, Job, IsEvent, Message
  <2>5. SentOK'
    BY <1>1 DEF Write, RedisKey, SentOK, RowOK, ClaimOK, TaskOK, TypeInv, Txn, Rec, Run, Job, Delivered, Followed, IsEvent, Keyed, Message
  <2> QED BY <2>1, <2>2, <2>3, <2>4, <2>5
<1>2. ASSUME NEW p \in Producers, Commit(p) PROVE IInv'
  <2>1. TypeInv'
    <3>1. prod' \in [Producers -> Txn]
      BY <1>2 DEF Commit, TypeInv, Txn
    <3>2. [NoRow EXCEPT !.status = "PENDING", !.avail = prod[p].avail, !.updated = now] \in Rec
      BY DEF NoRow, TypeInv, Rec, Txn
    <3>3. row' \in [Producers -> Rec]
      BY <1>2, <3>2 DEF Commit, TypeInv
    <3> QED BY <1>2, <3>1, <3>3 DEF Commit, TypeInv
  <2>2. RowOK'
    BY <1>2 DEF Commit, NoRow, RowOK, ClaimOK, TaskOK, TypeInv, Txn, Rec, Run, Job, Message
  <2>3. ClaimOK'
    BY <1>2 DEF Commit, NoRow, ClaimOK, TypeInv, Txn, Rec, Run, Job, Message
  <2>4. TaskOK'
    BY <1>2 DEF Commit, NoRow, TaskOK, RowOK, TypeInv, Txn, Rec, Run, Job, IsEvent, Message
  <2>5. SentOK'
    BY <1>2 DEF Commit, NoRow, SentOK, RowOK, ClaimOK, TaskOK, TypeInv, Txn, Rec, Run, Job, Delivered, Followed, IsEvent, Keyed, Message
  <2> QED BY <2>1, <2>2, <2>3, <2>4, <2>5
<1>3. ASSUME NEW p \in Producers, Rollback(p) PROVE IInv'
  <2>1. TypeInv'
    <3>1. [prod[p] EXCEPT !.pc = "aborted"] \in Txn
      BY DEF TypeInv, Txn
    <3>2. prod' \in [Producers -> Txn]
      BY <1>3, <3>1 DEF Rollback, TypeInv
    <3> QED BY <1>3, <3>2 DEF Rollback, TypeInv
  <2>2. RowOK'
    BY <1>3 DEF Rollback, RowOK, ClaimOK, TaskOK, TypeInv, Txn, Rec, Run, Job, Message
  <2>3. ClaimOK'
    BY <1>3 DEF Rollback, ClaimOK, TypeInv, Txn, Rec, Run, Job, Message
  <2>4. TaskOK'
    BY <1>3 DEF Rollback, TaskOK, RowOK, TypeInv, Txn, Rec, Run, Job, IsEvent, Message
  <2>5. SentOK'
    BY <1>3 DEF Rollback, SentOK, RowOK, ClaimOK, TaskOK, TypeInv, Txn, Rec, Run, Job, Delivered, Followed, IsEvent, Keyed, Message
  <2> QED BY <2>1, <2>2, <2>3, <2>4, <2>5
<1>4. ASSUME NEW d \in Drains, DrainBegin(d) PROVE IInv'
  <2>1. TypeInv'
    <3>1. BatchLimit \in Int /\ now \in Int
      BY OutboxAssumption DEF TypeInv
    <3>2. [NoPass EXCEPT !.pc = "ready", !.at = now, !.left = BatchLimit] \in Run
      BY <3>1 DEF NoPass, Run, Message
    <3> QED BY <1>4, <3>2 DEF DrainBegin, TypeInv
  <2>2. RowOK'
    BY <1>4 DEF DrainBegin, NoPass, RowOK, ClaimOK, TaskOK, TypeInv, Txn, Rec, Run, Job, Message
  <2>3. ClaimOK'
    BY <1>4 DEF DrainBegin, NoPass, ClaimOK, TypeInv, Txn, Rec, Run, Job, Message
  <2>4. TaskOK'
    BY <1>4 DEF DrainBegin, NoPass, TaskOK, RowOK, TypeInv, Txn, Rec, Run, Job, IsEvent, Message
  <2>5. SentOK'
    BY <1>4 DEF DrainBegin, NoPass, SentOK, RowOK, ClaimOK, TaskOK, TypeInv, Txn, Rec, Run, Job, Delivered, Followed, IsEvent, Keyed, Message
  <2> QED BY <2>1, <2>2, <2>3, <2>4, <2>5
<1>5. ASSUME NEW d \in Drains, DrainClaim(d) PROVE IInv'
  <2>1. TypeInv'
    BY <1>5 DEF DrainClaim, Claimable, Locked, TypeInv, Message, Txn, Rec, Run, Job
  <2>2. RowOK'
    BY <1>5 DEF DrainClaim, Claimable, Locked, RowOK, ClaimOK, TaskOK, TypeInv, Txn, Rec, Run, Job, Message
  <2>3. ClaimOK'
    BY <1>5 DEF DrainClaim, Claimable, Locked, ClaimOK, TypeInv, Txn, Rec, Run, Job, Message
  <2>4. TaskOK'
    BY <1>5 DEF DrainClaim, Claimable, Locked, TaskOK, RowOK, TypeInv, Txn, Rec, Run, Job, IsEvent, Message
  <2>5. SentOK'
    <3>0. UNCHANGED <<prod, row, queued, work, seen, events, raised>>
      BY <1>5 DEF DrainClaim
    <3>1. \A p : (Delivered(p)' <=> Delivered(p)) /\ (Followed(p)' <=> Followed(p))
      BY <3>0 DEF Delivered, Followed, IsEvent, Keyed
    <3>2. \A e \in Drains : drain'[e].pc = "sent" => drain'[e] = drain[e]
      BY <1>5 DEF DrainClaim, TypeInv, Run
    <3> QED BY <3>0, <3>1, <3>2 DEF SentOK
  <2> QED BY <2>1, <2>2, <2>3, <2>4, <2>5
<1>6. ASSUME NEW d \in Drains, DrainEnd(d) PROVE IInv'
  <2>1. TypeInv'
    BY <1>6 DEF DrainEnd, NoPass, TypeInv, Message, Txn, Rec, Run, Job
  <2>2. RowOK'
    BY <1>6 DEF DrainEnd, NoPass, RowOK, ClaimOK, TaskOK, TypeInv, Txn, Rec, Run, Job, Message
  <2>3. ClaimOK'
    BY <1>6 DEF DrainEnd, NoPass, ClaimOK, TypeInv, Txn, Rec, Run, Job, Message
  <2>4. TaskOK'
    BY <1>6 DEF DrainEnd, NoPass, TaskOK, RowOK, TypeInv, Txn, Rec, Run, Job, IsEvent, Message
  <2>5. SentOK'
    BY <1>6 DEF DrainEnd, NoPass, SentOK, RowOK, ClaimOK, TaskOK, TypeInv, Txn, Rec, Run, Job, Delivered, Followed, IsEvent, Keyed, Message
  <2> QED BY <2>1, <2>2, <2>3, <2>4, <2>5
<1>7. ASSUME NEW d \in Drains, DrainPublish(d) PROVE IInv'
  <2>1. TypeInv'
    <3>1. drain' \in [Drains -> Run]
      BY <1>7 DEF DrainPublish, TypeInv, Run
    <3>2. queued' = queued \/ queued' = [queued EXCEPT ![drain[d].msg] = @ + 1]
      BY <1>7 DEF DrainPublish
    <3>3. queued' \in [Producers -> Nat]
      BY <3>2 DEF TypeInv
    <3> QED BY <1>7, <3>1, <3>3 DEF DrainPublish, TypeInv
  <2>2. RowOK'
    BY <1>7 DEF DrainPublish, RowOK, ClaimOK, TaskOK, TypeInv, Txn, Rec, Run, Job, Message
  <2>3. ClaimOK'
    BY <1>7 DEF DrainPublish, ClaimOK, TypeInv, Txn, Rec, Run, Job, Message
  <2>4. TaskOK'
    BY <1>7 DEF DrainPublish, TaskOK, RowOK, TypeInv, Txn, Rec, Run, Job, IsEvent, Message
  <2>5. SentOK'
    BY <1>7 DEF DrainPublish, SentOK, RowOK, ClaimOK, TaskOK, TypeInv, Txn, Rec, Run, Job, Delivered, Followed, IsEvent, Keyed, Message
  <2> QED BY <2>1, <2>2, <2>3, <2>4, <2>5
<1>8. ASSUME NEW d \in Drains, DrainSettle(d) PROVE IInv'
  <2>1. TypeInv'
    <3>1. drain' \in [Drains -> Run]
      <4>1. drain \in [Drains -> Run]
        BY DEF TypeInv
      <4>2. drain' = [drain EXCEPT ![d] = [drain[d] EXCEPT !.pc = "ready", !.msg = NoKey]]
        BY <1>8, <4>1 DEF DrainSettle
      <4>3. [drain[d] EXCEPT !.pc = "ready", !.msg = NoKey] \in Run
        BY <4>1 DEF Run, Message
      <4> QED BY <4>1, <4>2, <4>3
    <3>2. ASSUME NEW r \in Rec PROVE Settled(r, drain[d].pc, drain[d].at) \in Rec
      <4>1. r.attempts + 1 \in Nat /\ next_backoff_seconds(r.attempts + 1) \in Int
        BY BackoffType DEF Rec
      <4>2. drain[d].at \in Int
        BY DEF TypeInv, Run
      <4>3. [r EXCEPT !.attempts = @ + 1, !.updated = drain[d].at] \in Rec
        BY <4>1, <4>2 DEF Rec
      <4>4. ASSUME NEW t \in Rec, NEW at \in Int
            PROVE  /\ [t EXCEPT !.status = "PUBLISHED"] \in Rec /\ [t EXCEPT !.status = "DEAD"] \in Rec
                   /\ [t EXCEPT !.avail = at] \in Rec
        BY DEF Rec
      <4>5. [r EXCEPT !.attempts = @ + 1, !.updated = drain[d].at].attempts = r.attempts + 1
        BY DEF Rec
      <4>6. drain[d].at + next_backoff_seconds(r.attempts + 1) \in Int
        BY <4>1, <4>2
      <4> QED BY <4>3, <4>4, <4>5, <4>6 DEF Settled
    <3>3. row' \in [Producers -> Rec]
      BY <1>8, <3>2 DEF DrainSettle, TypeInv
    <3> QED BY <1>8, <3>1, <3>3 DEF DrainSettle, TypeInv
  <2>2. RowOK'
    BY <1>8 DEF DrainSettle, Settled, RowOK, ClaimOK, TaskOK, TypeInv, Txn, Rec, Run, Job, Message
  <2>3. ClaimOK'
    BY <1>8 DEF DrainSettle, Settled, ClaimOK, TypeInv, Txn, Rec, Run, Job, Message
  <2>4. TaskOK'
    BY <1>8 DEF DrainSettle, Settled, TaskOK, RowOK, TypeInv, Txn, Rec, Run, Job, IsEvent, Message
  <2>5. SentOK'
    <3>0. UNCHANGED <<prod, queued, work, seen, events, raised>>
      BY <1>8 DEF DrainSettle
    <3>1. \A p : (Delivered(p)' <=> Delivered(p)) /\ (Followed(p)' <=> Followed(p))
      BY <3>0 DEF Delivered, Followed, IsEvent, Keyed
    <3>2. \A e \in Drains : drain'[e].pc = "sent" => drain'[e] = drain[e]
      BY <1>8 DEF DrainSettle, TypeInv, Run
    <3>3. ASSUME NEW p \in Producers, p # drain[d].msg PROVE row'[p] = row[p]
      BY <1>8, <3>3 DEF DrainSettle, TypeInv
    <3>4. ASSUME drain[d].msg \in Producers, row'[drain[d].msg].status \in {"PUBLISHED", "deleted"}
          PROVE  drain[d].pc = "sent"
      <4>1. drain[d].pc \in {"sent", "raised"} /\ row[drain[d].msg].status = "PENDING"
        BY <1>8, <3>4, OutboxAssumption DEF DrainSettle, ClaimOK
      <4>2. row'[drain[d].msg] = Settled(row[drain[d].msg], drain[d].pc, drain[d].at)
              /\ row[drain[d].msg] \in Rec
        BY <1>8, <3>4 DEF DrainSettle, TypeInv
      <4> QED BY <3>4, <4>1, <4>2 DEF Settled, Rec
    <3> QED BY <3>1, <3>2, <3>3, <3>4 DEF SentOK
  <2> QED BY <2>1, <2>2, <2>3, <2>4, <2>5
<1>9. ASSUME NEW d \in Drains, DrainDies(d) PROVE IInv'
  <2>1. TypeInv'
    BY <1>9 DEF DrainDies, NoPass, TypeInv, Message, Txn, Rec, Run, Job
  <2>2. RowOK'
    BY <1>9 DEF DrainDies, NoPass, RowOK, ClaimOK, TaskOK, TypeInv, Txn, Rec, Run, Job, Message
  <2>3. ClaimOK'
    BY <1>9 DEF DrainDies, NoPass, ClaimOK, TypeInv, Txn, Rec, Run, Job, Message
  <2>4. TaskOK'
    BY <1>9 DEF DrainDies, NoPass, TaskOK, RowOK, TypeInv, Txn, Rec, Run, Job, IsEvent, Message
  <2>5. SentOK'
    BY <1>9 DEF DrainDies, NoPass, SentOK, RowOK, ClaimOK, TaskOK, TypeInv, Txn, Rec, Run, Job, Delivered, Followed, IsEvent, Keyed, Message
  <2> QED BY <2>1, <2>2, <2>3, <2>4, <2>5
<1>10. ASSUME NEW w \in Workers, TaskStart(w) PROVE IInv'
  <2>1. TypeInv'
    BY <1>10 DEF TaskStart, Committed, TypeInv, Message, Txn, Rec, Run, Job
  <2>2. RowOK'
    BY <1>10 DEF TaskStart, Committed, RowOK, ClaimOK, TaskOK, TypeInv, Txn, Rec, Run, Job, Message
  <2>3. ClaimOK'
    BY <1>10 DEF TaskStart, Committed, ClaimOK, TypeInv, Txn, Rec, Run, Job, Message
  <2>4. TaskOK'
    BY <1>10 DEF TaskStart, Committed, TaskOK, RowOK, TypeInv, Txn, Rec, Run, Job, IsEvent, Message
  <2>5. SentOK'
    BY <1>10 DEF TaskStart, Committed, SentOK, RowOK, ClaimOK, TaskOK, TypeInv, Txn, Rec, Run, Job, Delivered, Followed, IsEvent, Keyed, Message
  <2> QED BY <2>1, <2>2, <2>3, <2>4, <2>5
<1>11. ASSUME NEW w \in Workers, TaskEnd(w) PROVE IInv'
  <2>1. TypeInv'
    <3>1. work[w] \in Job /\ NoTask \in Job
      BY DEF TypeInv, Job, NoTask, Message
    <3>2. work[w].msg \in Producers /\ work[w].snapshot \subseteq Producers
      BY <1>11, <3>1 DEF TaskEnd, TaskOK, Job
    <3> QED BY <1>11, <3>1, <3>2 DEF TaskEnd, TypeInv
  <2>2. RowOK'
    BY <1>11 DEF TaskEnd, NoTask, RowOK, ClaimOK, TaskOK, TypeInv, Txn, Rec, Run, Job, Message
  <2>3. ClaimOK'
    BY <1>11 DEF TaskEnd, NoTask, ClaimOK, TypeInv, Txn, Rec, Run, Job, Message
  <2>4. TaskOK'
    BY <1>11 DEF TaskEnd, NoTask, TaskOK, RowOK, TypeInv, Txn, Rec, Run, Job, IsEvent, Message
  <2>5. SentOK'
    BY <1>11 DEF TaskEnd, NoTask, SentOK, RowOK, ClaimOK, TaskOK, TypeInv, Txn, Rec, Run, Job, Delivered, Followed, IsEvent, Keyed, Message
  <2> QED BY <2>1, <2>2, <2>3, <2>4, <2>5
<1>12. ASSUME NEW w \in Workers, TaskRaises(w) PROVE IInv'
  <2>1. TypeInv'
    <3>1. NoTask \in Job /\ work[w].msg \in Producers
      BY <1>12 DEF Job, NoTask, Message, TaskRaises, TaskOK
    <3> QED BY <1>12, <3>1 DEF TaskRaises, TypeInv
  <2>2. RowOK'
    BY <1>12 DEF TaskRaises, NoTask, RowOK, ClaimOK, TaskOK, TypeInv, Txn, Rec, Run, Job, Message
  <2>3. ClaimOK'
    BY <1>12 DEF TaskRaises, NoTask, ClaimOK, TypeInv, Txn, Rec, Run, Job, Message
  <2>4. TaskOK'
    BY <1>12 DEF TaskRaises, NoTask, TaskOK, RowOK, TypeInv, Txn, Rec, Run, Job, IsEvent, Message
  <2>5. SentOK'
    BY <1>12 DEF TaskRaises, NoTask, SentOK, RowOK, ClaimOK, TaskOK, TypeInv, Txn, Rec, Run, Job, Delivered, Followed, IsEvent, Keyed, Message
  <2> QED BY <2>1, <2>2, <2>3, <2>4, <2>5
<1>13. ASSUME NEW w \in Workers, WorkerDies(w) PROVE IInv'
  <2>1. TypeInv'
    <3>1. NoTask \in Job /\ work[w].msg \in Producers
      BY <1>13 DEF Job, NoTask, Message, WorkerDies, TaskOK
    <3>2. queued' \in [Producers -> Nat]
      BY <1>13, <3>1 DEF WorkerDies, TypeInv
    <3> QED BY <1>13, <3>1, <3>2 DEF WorkerDies, TypeInv
  <2>2. RowOK'
    BY <1>13 DEF WorkerDies, NoTask, RowOK, ClaimOK, TaskOK, TypeInv, Txn, Rec, Run, Job, Message
  <2>3. ClaimOK'
    BY <1>13 DEF WorkerDies, NoTask, ClaimOK, TypeInv, Txn, Rec, Run, Job, Message
  <2>4. TaskOK'
    BY <1>13 DEF WorkerDies, NoTask, TaskOK, RowOK, TypeInv, Txn, Rec, Run, Job, IsEvent, Message
  <2>5. SentOK'
    BY <1>13 DEF WorkerDies, NoTask, SentOK, RowOK, ClaimOK, TaskOK, TypeInv, Txn, Rec, Run, Job, Delivered, Followed, IsEvent, Keyed, Message
  <2> QED BY <2>1, <2>2, <2>3, <2>4, <2>5
<1>14. CASE Reconcile
  <2>1. TypeInv'
    BY <1>14 DEF Reconcile, Expired, NoRow, TypeInv, Message, Txn, Rec, Run, Job
  <2>2. RowOK'
    BY <1>14 DEF Reconcile, Expired, NoRow, RowOK, ClaimOK, TaskOK, TypeInv, Txn, Rec, Run, Job, Message
  <2>3. ClaimOK'
    BY <1>14 DEF Reconcile, Expired, NoRow, ClaimOK, TypeInv, Txn, Rec, Run, Job, Message
  <2>4. TaskOK'
    BY <1>14 DEF Reconcile, Expired, NoRow, TaskOK, RowOK, TypeInv, Txn, Rec, Run, Job, IsEvent, Message
  <2>5. SentOK'
    BY <1>14 DEF Reconcile, Expired, NoRow, SentOK, RowOK, ClaimOK, TaskOK, TypeInv, Txn, Rec, Run, Job, Delivered, Followed, IsEvent, Keyed, Message
  <2> QED BY <2>1, <2>2, <2>3, <2>4, <2>5
<1>15. CASE KeyExpires
  <2>1. TypeInv'
    BY <1>15 DEF KeyExpires, TypeInv, Message, Txn, Rec, Run, Job
  <2>2. RowOK'
    BY <1>15 DEF KeyExpires, RowOK, ClaimOK, TaskOK, TypeInv, Txn, Rec, Run, Job, Message
  <2>3. ClaimOK'
    BY <1>15 DEF KeyExpires, ClaimOK, TypeInv, Txn, Rec, Run, Job, Message
  <2>4. TaskOK'
    BY <1>15 DEF KeyExpires, TaskOK, RowOK, TypeInv, Txn, Rec, Run, Job, IsEvent, Message
  <2>5. SentOK'
    BY <1>15 DEF KeyExpires, SentOK, RowOK, ClaimOK, TaskOK, TypeInv, Txn, Rec, Run, Job, Delivered, Followed, IsEvent, Keyed, Message
  <2> QED BY <2>1, <2>2, <2>3, <2>4, <2>5
<1>16. CASE Tick
  <2>1. TypeInv'
    BY <1>16 DEF Tick, TypeInv, Message, Txn, Rec, Run, Job
  <2>2. RowOK'
    BY <1>16 DEF Tick, RowOK, ClaimOK, TaskOK, TypeInv, Txn, Rec, Run, Job, Message
  <2>3. ClaimOK'
    BY <1>16 DEF Tick, ClaimOK, TypeInv, Txn, Rec, Run, Job, Message
  <2>4. TaskOK'
    BY <1>16 DEF Tick, TaskOK, RowOK, TypeInv, Txn, Rec, Run, Job, IsEvent, Message
  <2>5. SentOK'
    BY <1>16 DEF Tick, SentOK, RowOK, ClaimOK, TaskOK, TypeInv, Txn, Rec, Run, Job, Delivered, Followed, IsEvent, Keyed, Message
  <2> QED BY <2>1, <2>2, <2>3, <2>4, <2>5
<1>17. CASE UNCHANGED vars
  BY <1>17 DEF vars, TypeInv, RowOK, ClaimOK, TaskOK, SentOK, Delivered, Followed, IsEvent, Keyed
<1> QED BY <1>1, <1>2, <1>3, <1>4, <1>5, <1>6, <1>7, <1>8, <1>9, <1>10, <1>11, <1>12, <1>13, <1>14, <1>15, <1>16, <1>17 DEF Next, Produce, Drain, Consume

\* Everything above holds in every reachable state.
LEMMA Inv == Spec => []IInv
<1>1. IInv /\ [Next]_vars => IInv'
  BY InvStep
<1> QED BY InitInv, <1>1, PTL DEF Spec

\* A committed message is followed by its task, or its failure is reported: drain_outbox
\* publishes before it commits and Celery acknowledges after the task, so a pass or a worker
\* that dies between the two only repeats work.
THEOREM NothingLost == Spec => []InsertedCovered
<1>1. ASSUME IInv PROVE InsertedCovered
  <2> SUFFICES ASSUME NEW p \in Committed, prod[p].inserts, Followed(p)
               PROVE  IF IsEvent(p) THEN WillRecord(p) ELSE WillRead(p)
    BY DEF InsertedCovered, Followed
  <2>1. p \in Producers /\ row[p].status # "absent"
    BY <1>1 DEF IInv, RowOK, Committed
  <2>2. Underway(p) \/ Delivered(p)
    BY <1>1, <2>1 DEF IInv, SentOK, TypeInv, Rec, Underway
  <2>3. CASE IsEvent(p)
    BY <2>2, <2>3 DEF Delivered, WillRecord, Underway
  <2>4. CASE ~IsEvent(p)
    BY <1>1, <2>1, <2>2, <2>4 DEF Delivered, WillRead, Underway, IInv, TaskOK
  <2> QED BY <2>3, <2>4
<1> QED BY Inv, <1>1, PTL

\* What was sent and whose pass lives is settled, or held by the pass that sent it: no other pass
\* finds it PENDING and free.
HeldOK ==
  /\ sent \subseteq Producers
  /\ \A p \in sent : \/ row[p].status \in {"PUBLISHED", "deleted"}
                     \/ \E d \in Drains : drain[d].pc = "sent" /\ drain[d].msg = p

LEMMA HeldStep == IInv /\ HeldOK /\ [Next]_vars => HeldOK'
<1> SUFFICES ASSUME IInv, HeldOK, [Next]_vars PROVE HeldOK'
  OBVIOUS
<1> USE DEF IInv
<1>1. ASSUME NEW p \in Producers, Produce(p) PROVE HeldOK'
  <2>1. CASE Write(p) \/ Rollback(p)
    BY <2>1 DEF Write, Rollback, HeldOK
  <2>2. CASE Commit(p)
    <3>1. row[p].status = "absent"
      BY <2>2 DEF Commit, RowOK
    <3>2. p \notin sent
      BY <3>1 DEF HeldOK, ClaimOK
    <3> QED BY <2>2, <3>2 DEF Commit, HeldOK, TypeInv
  <2> QED BY <1>1, <2>1, <2>2 DEF Produce
<1>2. ASSUME NEW d \in Drains, DrainBegin(d) \/ DrainEnd(d) \/ DrainClaim(d) PROVE HeldOK'
  <2>1. drain[d].pc # "sent" /\ row' = row /\ sent' = sent /\ \A e \in Drains : e # d => drain'[e] = drain[e]
    BY <1>2 DEF DrainBegin, DrainEnd, DrainClaim, TypeInv
  <2> QED BY <2>1 DEF HeldOK
<1>3. ASSUME NEW d \in Drains, DrainPublish(d) PROVE HeldOK'
  <2>1. PICK raises \in BOOLEAN :
          /\ drain' = [drain EXCEPT ![d].pc = IF raises THEN "raised" ELSE "sent"]
          /\ sent' = IF raises THEN sent ELSE sent \cup {drain[d].msg}
          /\ row' = row
    BY <1>3 DEF DrainPublish
  <2>2. drain[d].pc = "claimed" /\ drain[d] \in Run /\ drain[d].msg \in Producers
    BY <1>3 DEF DrainPublish, ClaimOK, TypeInv, Run, Message
  <2>3. /\ \A e \in Drains : e # d => drain'[e] = drain[e]
        /\ drain'[d].msg = drain[d].msg /\ drain'[d].pc = IF raises THEN "raised" ELSE "sent"
    BY <2>1, <2>2 DEF TypeInv, Run
  <2> QED BY <2>1, <2>2, <2>3 DEF HeldOK
<1>4. ASSUME NEW d \in Drains, DrainSettle(d) PROVE HeldOK'
  <2> DEFINE p == drain[d].msg
  <2>1. p \in Producers /\ p # NoKey
    BY <1>4 DEF DrainSettle, ClaimOK, TypeInv, Run, Message
  <2>2. \A e \in Drains : e # d => drain'[e] = drain[e]
    BY <1>4 DEF DrainSettle, TypeInv
  <2>3. \A q \in Producers : q # p => row'[q] = row[q]
    BY <1>4 DEF DrainSettle, TypeInv
  <2>4. drain[d].pc = "sent" => row'[p].status = "PUBLISHED"
    BY <1>4, <2>1 DEF DrainSettle, Settled, TypeInv, Rec
  <2>5. p \in sent => drain[d].pc = "sent"
    BY <2>1 DEF HeldOK, ClaimOK
  <2>6. sent' = sent
    BY <1>4 DEF DrainSettle
  <2> QED BY <2>2, <2>3, <2>4, <2>5, <2>6 DEF HeldOK
<1>5. ASSUME NEW d \in Drains, DrainDies(d) PROVE HeldOK'
  <2>1. /\ \A e \in Drains : e # d => drain'[e] = drain[e]
        /\ row' = row /\ sent' = IF drain[d].pc = "sent" THEN sent \ {drain[d].msg} ELSE sent
    BY <1>5 DEF DrainDies, TypeInv
  <2> QED BY <2>1 DEF HeldOK
<1>6. CASE Reconcile
  <2>1. \A p \in Producers : /\ row[p].status = "PUBLISHED" => row'[p].status \in {"PUBLISHED", "deleted"}
                            /\ row[p].status = "deleted" => row'[p].status = "deleted"
    BY <1>6 DEF Reconcile, Expired, NoRow
  <2> QED BY <1>6, <2>1 DEF Reconcile, HeldOK
<1>7. CASE KeyExpires \/ Tick \/ UNCHANGED vars \/ \E w \in Workers : Consume(w)
  BY <1>7 DEF KeyExpires, Tick, vars, Consume, TaskStart, TaskEnd, TaskRaises, WorkerDies, HeldOK
<1> QED BY <1>1, <1>2, <1>3, <1>4, <1>5, <1>6, <1>7 DEF Next, Drain

\* However many passes run at once, a message one of them has sent is claimed again only after
\* that pass died: the row stays PENDING and locked until the settling commits (_claim_one).
THEOREM SentOnce == Spec => []SentNotReclaimed
<1>1. IInv /\ HeldOK => SentNotReclaimed
  BY DEF IInv, HeldOK, ClaimOK, SentNotReclaimed
<1>2. Init => HeldOK
  BY DEF Init, HeldOK
<1> QED BY Inv, HeldStep, <1>1, <1>2, PTL DEF Spec
==============================================================================
