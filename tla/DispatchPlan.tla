---------------------------- MODULE DispatchPlan ----------------------------
(***************************************************************************)
(* The planning half of dispatch_job (tasks_jobs.py): a delivery reads the *)
(* offerable targets, resolves each to a domain, a mode and a rung of its  *)
(* strategy, clusters and chunks them into batches (jobs/coalescing.py,    *)
(* jobs/batching.py), places every batch on a node against a cached load   *)
(* snapshot (jobs/nodes.py, jobs/node_load.py), reserves its cost, commits *)
(* the plan, and only then POSTs batch by batch.  DispatchIntents models   *)
(* what one POST and its reconciliation do; here the question is whether   *)
(* the plan itself, derived again at every delivery, names the same work,  *)
(* loses none of it and leaves no reservation behind.                      *)
(***************************************************************************)
EXTENDS Integers, FiniteSets, SequencesExt

CONSTANTS Targets,      \* match ids of the job, a set of naturals
          Kinds,        \* what a target may resolve to
          HttpPool,     \* SCRAPYD_HTTP_URLS, a sequence of nodes
          BrowserPool,  \* SCRAPYD_BROWSER_URLS
          HttpMax,      \* SCRAPE_DISPATCH_HTTP_BATCH_MAX
          BrowserMax,   \* SCRAPE_BATCH_BROWSER_MAX
          MaxPending,   \* SCRAPYD_MAX_PENDING_PER_NODE
          Loads,        \* what a node may answer to daemonstatus
          MaxPasses,    \* deliveries of the task explored
          MaxFaults     \* crashes and failed POSTs explored

VARIABLES kind,         \* kind[t]: what target t resolves to
          db,           \* the committed rows
          work,         \* the rows as the open transaction sees them
          cached,       \* cached[n]: the Redis copy of a node's load
          denied,       \* denied[t]: the dispatch-denied key of a target
          grants,       \* the reservations, each with its state
          posts,        \* the requests that reached a node
          pass,         \* the delivery in progress
          passes, faults

vars == <<kind, db, work, cached, denied, grants, posts, pass, passes, faults>>

PoolNodes == Range(HttpPool) \cup Range(BrowserPool)
NoLoad == [running |-> -1, pending |-> -1, up |-> FALSE]
BROWSER == 0
HTTP == 1
Terminal == {"FAILED", "SKIPPED"}
Idle == [phase |-> "idle", batches |-> <<>>, at |-> 1, loads |-> <<>>,
         snap |-> <<>>, planned |-> <<>>]

(***************************************************************************)
(* jobs/coalescing.py                                                      *)
(***************************************************************************)
(* A target with no canonical hash is its own cluster.  The other members  *)
(* of the key (workspace, region, transport, ...) are one component here.  *)
coalescing_key(t) ==
    IF kind[t].hash = 0 THEN <<1, t, kind[t].rung>> ELSE <<0, kind[t].hash, kind[t].rung>>

_sort_key(a, b) ==
    LET x == coalescing_key(a)
        y == coalescing_key(b)
    IN  \/ x[1] < y[1]
        \/ x[1] = y[1] /\ x[2] < y[2]
        \/ x[1] = y[1] /\ x[2] = y[2] /\ x[3] < y[3]

(* sorted() is stable: members of one cluster keep the order of the rows.  *)
cluster_for_coalescing(rows) ==
    LET before(i, j) == \/ _sort_key(rows[i], rows[j])
                        \/ ~_sort_key(rows[j], rows[i]) /\ i < j
        order == SetToSortSeq(DOMAIN rows, before)
    IN  [i \in DOMAIN rows |-> rows[order[i]]]

(***************************************************************************)
(* jobs/batching.py                                                        *)
(***************************************************************************)
GroupOf(t) == <<kind[t].dom, kind[t].mode, kind[t].rung>>
GroupMax(g) == IF g[2] = BROWSER THEN BrowserMax ELSE HttpMax

GroupBefore(g, h) ==
    \/ g[1] < h[1]
    \/ g[1] = h[1] /\ g[2] < h[2]
    \/ g[1] = h[1] /\ g[2] = h[2] /\ g[3] < h[3]

_unanimous(values) ==
    LET known == values \ {0}
    IN  IF Cardinality(known) = 1 THEN CHOOSE v \in known : TRUE ELSE 0

_unique_physical_requests(chunk) ==
    IF \A t \in Range(chunk) : kind[t].hash = 0 THEN 0
    ELSE Cardinality({coalescing_key(t) : t \in Range(chunk)})

Batch(g, chunk) ==
    [group |-> g, matches |-> chunk,
     initial |-> _unanimous({kind[t].rung : t \in Range(chunk)}),
     cheap |-> _unanimous({kind[t].cheap : t \in Range(chunk)}),
     unique |-> _unique_physical_requests(chunk)]

\* Mutant: the last, short chunk of a group is not emitted.
Chunks_Floor(g, members) ==
    [c \in 1..(Len(members) \div GroupMax(g)) |->
        Batch(g, SubSeq(members, (c - 1) * GroupMax(g) + 1, c * GroupMax(g)))]

Chunks(g, members) ==
    [c \in 1..((Len(members) + GroupMax(g) - 1) \div GroupMax(g)) |->
        Batch(g, SubSeq(members, (c - 1) * GroupMax(g) + 1,
                        IF c * GroupMax(g) < Len(members) THEN c * GroupMax(g)
                                                          ELSE Len(members)))]

plan_batches(rows) ==
    LET groups == SetToSortSeq({GroupOf(t) : t \in Range(rows)}, GroupBefore)
    IN  FlattenSeq([i \in DOMAIN groups |->
            Chunks(groups[i], SelectSeq(rows, LAMBDA t : GroupOf(t) = groups[i]))])

(***************************************************************************)
(* jobs/nodes.py and jobs/node_load.py                                     *)
(***************************************************************************)
PoolOf(b) == IF b.group[2] = BROWSER THEN BrowserPool ELSE HttpPool

Rotated(dom, pool) ==
    [i \in DOMAIN pool |-> pool[((dom + i - 1) % Len(pool)) + 1]]

select_node(dom, pool) == Rotated(dom, pool)[1]

Eligible(load) == load.up /\ load.pending < MaxPending
depth(load) == load.running + load.pending

(* The least loaded eligible node, the first of the rotation on a tie.     *)
choose_node(dom, pool, loads) ==
    LET order == Rotated(dom, pool)
        ok == {i \in DOMAIN order : Eligible(loads[order[i]])}
    IN  IF ok = {} THEN "none"
        ELSE order[CHOOSE i \in ok : \A j \in ok :
                     \/ depth(loads[order[i]]) < depth(loads[order[j]])
                     \/ depth(loads[order[i]]) = depth(loads[order[j]]) /\ i <= j]

\* Mutant: a placement is not counted against the snapshot it was decided on.
reserve_node_Forgotten(loads, n) == loads

reserve_node(loads, n) == [loads EXCEPT ![n].pending = @ + 1]

(* One read of a pool: the Redis copy when it is there, the probe's answer *)
(* otherwise, which is then cached (an unreachable node for longer).       *)
read_node_loads(answers) ==
    [n \in PoolNodes |-> IF cached[n] # NoLoad THEN cached[n] ELSE answers[n]]

(* The identity names the work: generation, rung, domain, mode, match set. *)
_batch_identity(b) == <<work.gen, b.group, Range(b.matches)>>

Sticky(b) == _batch_identity(b) \in DOMAIN work.intents

\* Mutant: a retry chooses its node again.
place_Rechosen(b, loads) ==
    LET n == choose_node(b.group[1], PoolOf(b), loads)
    IN  IF n # "none" THEN n
        ELSE IF /\ Len(PoolOf(b)) = 1
                /\ \A m \in Range(PoolOf(b)) : ~loads[m].up
             THEN select_node(b.group[1], PoolOf(b)) ELSE "none"

(* An identity with an intent keeps its node; otherwise the least loaded;  *)
(* a single node that does not answer is placed on anyway.                 *)
place(b, loads) ==
    LET n == choose_node(b.group[1], PoolOf(b), loads)
    IN  IF Sticky(b) THEN work.intents[_batch_identity(b)].node
        ELSE IF n # "none" THEN n
        ELSE IF /\ Len(PoolOf(b)) = 1
                /\ \A m \in Range(PoolOf(b)) : ~loads[m].up
             THEN select_node(b.group[1], PoolOf(b)) ELSE "none"

Placed(b, loads) ==
    IF Sticky(b) \/ choose_node(b.group[1], PoolOf(b), loads) = "none" THEN loads
    ELSE reserve_node(loads, choose_node(b.group[1], PoolOf(b), loads))

(***************************************************************************)
(* The reservation of a batch: rungs are 1 DIRECT, 2 PROXY, 3 BROWSER, and *)
(* 0 where no rung is known.                                               *)
(***************************************************************************)
_batch_unique_requests(b) == IF b.unique = 0 THEN Len(b.matches) ELSE b.unique

reservation_rung(b) ==
    IF b.initial # 0 THEN b.initial ELSE IF b.group[2] = BROWSER THEN 3 ELSE 2

_batch_first_rung_reservation(b) ==
    [rung |-> reservation_rung(b),
     requests |-> _batch_unique_requests(b),
     bytes |-> IF reservation_rung(b) = 1 THEN 0 ELSE _batch_unique_requests(b),
     climb |-> b.initial > 1 /\ b.cheap # 0 /\ b.initial # b.cheap]

_batch_authorization_request(b) ==
    [key |-> _batch_identity(b), cost |-> _batch_first_rung_reservation(b)]

(***************************************************************************)
(* The delivery                                                            *)
(***************************************************************************)
Init ==
    /\ kind \in [Targets -> Kinds]
    /\ db = [status |-> [t \in Targets |-> "PENDING"],
             sent |-> [t \in Targets |-> FALSE],
             cursor |-> [t \in Targets |-> FALSE],
             gen |-> 0, intents |-> <<>>]
    /\ work = db
    /\ cached = [n \in PoolNodes |-> NoLoad]
    /\ denied = [t \in Targets |-> "no"]
    /\ grants = <<>> /\ posts = {} /\ pass = Idle /\ passes = 0 /\ faults = 0

Offerable == {t \in Targets : db.status[t] = "PENDING" /\ ~db.sent[t]}

(* _resolve_domains_and_modes: a target whose match or competitor is gone  *)
(* is SKIPPED, one whose attempt budget refuses is FAILED, the others get  *)
(* a rung the first time and keep it afterwards.                           *)
Resolved(t) == kind[t].fate \notin {"gone", "spent"}
Selects(t) == kind[t].rung # 0 /\ ~db.cursor[t]

_resolve_domains_and_modes(rows) ==
    [db EXCEPT
       !.status = [t \in Targets |->
                     IF t \notin Range(rows) THEN @[t]
                     ELSE IF kind[t].fate = "gone" THEN "SKIPPED"
                     ELSE IF kind[t].fate = "spent" THEN "FAILED" ELSE @[t]],
       !.cursor = [t \in Targets |->
                     @[t] \/ (t \in Range(rows) /\ Resolved(t) /\ Selects(t))],
       !.gen = @ + IF \E t \in Range(rows) : Resolved(t) /\ Selects(t) THEN 1 ELSE 0]

(* The rows come back in no order the query asks for.                      *)
Deliver ==
    /\ pass.phase = "idle" /\ passes < MaxPasses /\ Offerable # {}
    /\ \E rows \in SetToSeqs(Offerable) :
         LET plannable == SelectSeq(rows, Resolved)
         IN  /\ work' = _resolve_domains_and_modes(rows)
             /\ pass' = [Idle EXCEPT !.phase = "plan",
                           !.batches = plan_batches(cluster_for_coalescing(plannable))]
    /\ passes' = passes + 1
    /\ UNCHANGED <<kind, db, cached, denied, grants, posts, faults>>

(* The placement reads the pools once, when the first batch asks.          *)
Probe ==
    /\ pass.phase = "plan" /\ pass.loads = <<>> /\ pass.at <= Len(pass.batches)
    /\ \E answers \in [PoolNodes -> Loads] :
         /\ \A n \in PoolNodes : cached[n] # NoLoad => answers[n] = cached[n]
         /\ cached' = read_node_loads(answers)
         /\ pass' = [pass EXCEPT !.loads = read_node_loads(answers),
                                 !.snap = read_node_loads(answers)]
    /\ UNCHANGED <<kind, db, work, denied, grants, posts, passes, faults>>

Current == pass.batches[pass.at]
Placing == /\ pass.phase = "plan" /\ pass.loads # <<>>
           /\ pass.at <= Len(pass.batches)
Unsupported(b) == \E t \in Range(b.matches) : kind[t].fate = "unsupported"

_skip_unsupported_batch ==
    /\ Placing /\ Unsupported(Current)
    /\ work' = [work EXCEPT !.status = [t \in Targets |->
                  IF t \in Range(Current.matches) THEN "SKIPPED" ELSE @[t]]]
    /\ pass' = [pass EXCEPT !.at = @ + 1]
    /\ UNCHANGED <<kind, db, cached, denied, grants, posts, passes, faults>>

NodeOf == place(Current, pass.loads)
StateOf(b) == IF Sticky(b) THEN work.intents[_batch_identity(b)].state ELSE "none"

(* No room, or an open question: no grant, no intent, the targets stay.    *)
DeferBatch ==
    /\ Placing /\ ~Unsupported(Current)
    /\ NodeOf = "none" \/ StateOf(Current) = "open"
    /\ pass' = [pass EXCEPT !.at = @ + 1, !.loads = Placed(Current, @)]
    /\ UNCHANGED <<kind, db, work, cached, denied, grants, posts, passes, faults>>

(* A permanent denial fails the batch at once; a temporary one starts the  *)
(* retry window of each target and fails those whose window has passed.    *)
_terminalize_denied_targets(permanent) ==
    {t \in Range(Current.matches) : permanent \/ denied[t] = "old"}

DenyBatch ==
    /\ Placing /\ ~Unsupported(Current)
    /\ NodeOf # "none" /\ StateOf(Current) # "open"
    /\ kind[Head(Current.matches)].fate = "denied"
    /\ \E permanent \in BOOLEAN :
         /\ work' = [work EXCEPT !.status = [t \in Targets |->
                       IF t \in _terminalize_denied_targets(permanent)
                       THEN "FAILED" ELSE @[t]]]
         /\ denied' = IF permanent THEN denied
                      ELSE [t \in Targets |->
                              IF t \in Range(Current.matches) /\ denied[t] = "no"
                              THEN "new" ELSE denied[t]]
    /\ pass' = [pass EXCEPT !.at = @ + 1, !.loads = Placed(Current, @)]
    /\ UNCHANGED <<kind, db, cached, grants, posts, passes, faults>>

(* authorize() answers a live grant of the same key again.                 *)
LiveGrant(key) == \E i \in DOMAIN grants : grants[i].key = key /\ grants[i].state = "held"

PlanBatch ==
    /\ Placing /\ ~Unsupported(Current)
    /\ NodeOf # "none" /\ StateOf(Current) # "open"
    /\ kind[Head(Current.matches)].fate # "denied"
    /\ LET id == _batch_identity(Current)
           req == _batch_authorization_request(Current)
       IN  /\ grants' = IF LiveGrant(id) THEN grants
                        ELSE Append(grants, [key |-> id, cost |-> req.cost,
                                             state |-> "held", pass |-> passes])
           /\ work' = [work EXCEPT !.intents =
                         IF id \in DOMAIN @ THEN @
                         ELSE [x \in DOMAIN @ \cup {id} |-> IF x = id
                                 THEN [node |-> NodeOf, state |-> "planned"] ELSE @[x]]]
           /\ pass' = [pass EXCEPT !.at = @ + 1, !.loads = Placed(Current, @),
                         !.planned = Append(@, [id |-> id, node |-> NodeOf,
                                                fresh |-> ~Sticky(Current),
                                                recovery |-> StateOf(Current) = "missing"])]
    /\ UNCHANGED <<kind, db, cached, denied, posts, passes, faults>>

(* The whole plan becomes durable before a single request is made.         *)
Commit ==
    /\ pass.phase = "plan" /\ pass.at > Len(pass.batches)
    /\ db' = work
    /\ pass' = [pass EXCEPT !.phase = "post", !.at = 1]
    /\ UNCHANGED <<kind, work, cached, denied, grants, posts, passes, faults>>

Released(keys) ==
    [i \in DOMAIN grants |->
       IF grants[i].key \in keys /\ grants[i].state = "held"
       THEN [grants[i] EXCEPT !.state = "released"] ELSE grants[i]]

\* Mutant: a failed POST releases its own grant only.
Undispatched_Own == {pass.planned[pass.at].id}

(* The items not dispatched yet, the failing one included.                 *)
Undispatched == {pass.planned[i].id : i \in pass.at..Len(pass.planned)}

Posting == pass.phase = "post" /\ pass.at <= Len(pass.planned)
Item == pass.planned[pass.at]

\* Mutant: the whole plan is stamped by the first accepted request.
Stamped_Plan(r, ids) ==
    [r EXCEPT !.sent = [t \in Targets |->
        @[t] \/ \E i \in DOMAIN pass.planned : t \in pass.planned[i].id[3]]]

Stamped(r, ids) ==
    [r EXCEPT !.sent = [t \in Targets |-> @[t] \/ \E id \in ids : t \in id[3]]]

(* receiver_holds_execution before a recovery is posted again: anything    *)
(* but a plain no settles the item without a request.                      *)
RecoverySettled ==
    /\ Posting /\ Item.recovery
    /\ \E holds \in BOOLEAN :
         db' = IF holds THEN [db EXCEPT !.intents[Item.id].state = "committed"] ELSE db
    /\ work' = db'
    /\ grants' = Released({Item.id})
    /\ pass' = [pass EXCEPT !.at = @ + 1]
    /\ UNCHANGED <<kind, cached, denied, posts, passes, faults>>

(* schedule() answers a committed identity without a request; otherwise    *)
(* the request is accepted, and the targets are stamped and committed.     *)
Schedule ==
    /\ Posting
    /\ LET done == db.intents[Item.id].state = "committed"
       IN  /\ posts' = IF done THEN posts
                       ELSE posts \cup {[id |-> Item.id, node |-> Item.node, pass |-> passes]}
           /\ db' = Stamped([db EXCEPT !.intents[Item.id].state = "committed"], {Item.id})
           /\ grants' = [i \in DOMAIN grants |->
                 IF grants[i].key = Item.id /\ grants[i].state = "held"
                 THEN [grants[i] EXCEPT !.state = "used"] ELSE grants[i]]
    /\ work' = db'
    /\ pass' = [pass EXCEPT !.at = @ + 1]
    /\ UNCHANGED <<kind, cached, denied, passes, faults>>

(* The request fails, or its answer is lost: every grant not dispatched    *)
(* yet is released and the delivery ends.                                  *)
ScheduleRaises ==
    /\ Posting /\ faults < MaxFaults /\ db.intents[Item.id].state # "committed"
    /\ \E reached \in BOOLEAN :
         /\ posts' = IF reached THEN posts \cup {[id |-> Item.id, node |-> Item.node,
                                                  pass |-> passes]} ELSE posts
         /\ db' = IF reached THEN [db EXCEPT !.intents[Item.id].state = "open"] ELSE db
    /\ work' = db'
    /\ grants' = Released(Undispatched)
    /\ pass' = Idle
    /\ faults' = faults + 1
    /\ UNCHANGED <<kind, cached, denied, passes>>

Finish ==
    /\ pass.phase = "post" /\ pass.at > Len(pass.planned)
    /\ pass' = Idle
    /\ UNCHANGED <<kind, db, work, cached, denied, grants, posts, passes, faults>>

(* The worker dies: the open transaction is lost, reservations stay until  *)
(* the sweeper finds them.                                                 *)
Crash ==
    /\ pass.phase # "idle" /\ faults < MaxFaults
    /\ work' = db /\ pass' = Idle /\ faults' = faults + 1
    /\ grants' = [i \in DOMAIN grants |->
                    IF grants[i].state = "held" THEN [grants[i] EXCEPT !.state = "orphaned"]
                    ELSE grants[i]]
    /\ UNCHANGED <<kind, db, cached, denied, posts, passes>>

(* The reconciler settles an open request; DispatchIntents has the detail. *)
Reconcile ==
    /\ pass.phase = "idle"
    /\ \E id \in DOMAIN db.intents : \E s \in {"committed", "missing"} :
         /\ db.intents[id].state = "open"
         /\ db' = [db EXCEPT !.intents[id].state = s]
    /\ work' = db'
    /\ UNCHANGED <<kind, cached, denied, grants, posts, pass, passes, faults>>

(* The cached loads lapse and the denial windows pass.                     *)
Lapse ==
    /\ pass.phase = "idle"
    /\ cached' = [n \in PoolNodes |-> NoLoad]
    /\ denied' = [t \in Targets |-> IF denied[t] = "new" THEN "old" ELSE denied[t]]
    /\ cached' # cached \/ denied' # denied
    /\ UNCHANGED <<kind, db, work, grants, posts, pass, passes, faults>>

Next ==
    \/ Deliver \/ Probe \/ _skip_unsupported_batch \/ DeferBatch \/ DenyBatch
    \/ PlanBatch \/ Commit \/ RecoverySettled \/ Schedule \/ ScheduleRaises
    \/ Finish \/ Crash \/ Reconcile \/ Lapse

Spec == Init /\ [][Next]_vars

(***************************************************************************)
(* Properties                                                              *)
(***************************************************************************)
(* Every planned target is in exactly one batch, a batch holds targets of  *)
(* one domain, mode and rung only, and no batch exceeds its ceiling: the   *)
(* promise of plan_batches, after clustering and whatever the row order.   *)
PlanPartitions ==
    pass.phase = "plan" =>
      /\ \A t \in Targets :
           LET in == {i \in DOMAIN pass.batches : t \in Range(pass.batches[i].matches)}
           IN  IF t \in Offerable /\ Resolved(t) THEN Cardinality(in) = 1 ELSE in = {}
      /\ \A i \in DOMAIN pass.batches :
           LET b == pass.batches[i]
           IN  /\ Len(b.matches) \in 1..(IF b.group[2] = BROWSER THEN BrowserMax ELSE HttpMax)
               /\ Cardinality(Range(b.matches)) = Len(b.matches)
               /\ \A t \in Range(b.matches) :
                    <<kind[t].dom, kind[t].mode, kind[t].rung>> = b.group

(* Every request for one identity goes to the node its intent names, over  *)
(* deliveries, crashes and changing loads: the reconciler asks one node.   *)
OneNodePerIdentity ==
    \A p \in posts : p.id \in DOMAIN db.intents /\ p.node = db.intents[p.id].node

(* The batches a pass places afresh on a node fit in the room the node     *)
(* reported to that pass, its own earlier placements counted.              *)
RoomRespected ==
    pass.loads # <<>> =>
      \A n \in PoolNodes :
        LET placed == {i \in DOMAIN pass.planned :
                         pass.planned[i].fresh /\ pass.planned[i].node = n}
        IN  pass.snap[n].up => placed = {} \/ pass.snap[n].pending + Cardinality(placed) <= MaxPending

(* When no delivery is running, no reservation is held for a batch that    *)
(* was not dispatched: every error path gives back what it had reserved.   *)
NoGrantLeft ==
    pass.phase = "idle" => \A i \in DOMAIN grants : grants[i].state # "held"

(* A target is stamped dispatched only when a request for a batch holding  *)
(* it reached a node, or a recovery proved that the run is there.          *)
StampedHasRun ==
    \A t \in Targets : db.sent[t] =>
        \E p \in posts : t \in p.id[3]

(* coalescing.py: "chunking keeps a same-URL cluster in the same chunk     *)
(* whenever the cluster is smaller than the chunk ceiling".                *)
ClusterKept ==
    pass.phase = "plan" =>
      \A i, j \in DOMAIN pass.batches :
        \A t \in Range(pass.batches[i].matches), u \in Range(pass.batches[j].matches) :
          LET cluster == {v \in Targets : v \in Offerable /\ Resolved(v)
                            /\ GroupOf(v) = GroupOf(t)
                            /\ coalescing_key(v) = coalescing_key(t)}
          IN  /\ GroupOf(t) = GroupOf(u) /\ coalescing_key(t) = coalescing_key(u)
              /\ Cardinality(cluster) < GroupMax(GroupOf(t))
              => i = j

(* tasks_jobs.py: a duplicate delivery or a retry "re-derives the SAME     *)
(* number and therefore the same dispatch identity, which is what turns    *)
(* an at-least-once delivery into exactly one POST".  TLC refutes it for   *)
(* three targets: a redelivery chunks what is left into other batches.     *)
OnePostPerTarget ==
    \A p, q \in posts :
       p.id[1] = q.id[1] /\ p.id[3] \cap q.id[3] # {} => p.id = q.id
=============================================================================
