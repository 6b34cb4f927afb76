----------------------------- MODULE DiscoveryScan -----------------------------
(***************************************************************************)
(* The chunked scan over the profiles that require discovery.  One         *)
(* invocation reads a chunk after the durable cursor, writes an outbox     *)
(* message per profile, moves the cursor in a transaction of its own and   *)
(* enqueues the next invocation, if the pass is not complete.  A daily     *)
(* cadence starts it; the pattern backfill, the stats flush and the        *)
(* operator change which profiles require discovery while a pass runs.     *)
(***************************************************************************)
EXTENDS Naturals, FiniteSets

CONSTANTS Profiles,      \* profile ids, 1 .. n: the scan's keyset order
          Scans,         \* scan messages in the broker or running, at most
          Chunk, MaxCrashes, MaxChanges

Nil == 0

VARIABLES status,    \* domain_strategy_profiles.status
          stale,     \* profiles with an old url_pattern_version
          pending,   \* outbox: discovery messages not published yet, one per profile
          cursor,    \* strategy_discovery_state.cursor_profile_id
          scan,      \* the scan tasks
          crashes, changes

vars == <<status, stale, pending, cursor, scan, crashes, changes>>

Off == [pc |-> "off", batch |-> {}, done |-> FALSE]
Queued == [pc |-> "queued", batch |-> {}, done |-> FALSE]

TypeOK ==
  /\ status \in [Profiles -> {"required", "active"}]
  /\ stale \subseteq Profiles /\ pending \subseteq Profiles
  /\ cursor \in Profiles \cup {Nil}
  /\ scan \in [Scans -> [pc : {"off", "queued", "write", "advance", "again"},
                         batch : SUBSET Profiles, done : BOOLEAN]]
  /\ crashes \in 0 .. MaxCrashes /\ changes \in 0 .. MaxChanges

Init ==
  /\ status \in [Profiles -> {"required", "active"}]
  /\ stale = {} \/ stale = Profiles
  /\ pending = {} /\ cursor = Nil
  /\ scan = [s \in Scans |-> Off]
  /\ crashes = 0 /\ changes = 0

-----------------------------------------------------------------------------
\* The first Chunk required profiles after the cursor, in id order.
discovery_scan_query ==
  {p \in Profiles : /\ status[p] = "required" /\ p > cursor
                    /\ Cardinality({q \in Profiles : /\ status[q] = "required"
                                                     /\ q > cursor /\ q < p}) < Chunk}

\* The scheduler's daily cadence; it does not know whether a pass is still running.
Cadence(s) ==
  /\ scan[s].pc = "off"
  /\ scan' = [scan EXCEPT ![s] = Queued]
  /\ UNCHANGED <<status, stale, pending, cursor, crashes, changes>>

scan_read(s) ==
  /\ scan[s].pc = "queued"
  /\ scan' = [scan EXCEPT ![s] = [pc |-> "write", batch |-> discovery_scan_query,
                                  done |-> Cardinality(discovery_scan_query) < Chunk]]
  /\ UNCHANGED <<status, stale, pending, cursor, crashes, changes>>

\* A profile whose message is still PENDING in the outbox is not written twice.
scan_write(s) ==
  /\ scan[s].pc = "write"
  /\ pending' = pending \cup scan[s].batch
  /\ scan' = [scan EXCEPT ![s].pc = "advance"]
  /\ UNCHANGED <<status, stale, cursor, crashes, changes>>

\* Mutant: the cursor stays where the last full chunk left it when a pass ends.
plan_next_scan_chunk_NoWrap(batch, done) ==
  IF done THEN cursor ELSE CHOOSE p \in batch : \A q \in batch : q <= p

plan_next_scan_chunk(batch, done) ==
  IF done THEN Nil ELSE CHOOSE p \in batch : \A q \in batch : q <= p

scan_advance(s) ==
  /\ scan[s].pc = "advance"
  /\ cursor' = plan_next_scan_chunk(scan[s].batch, scan[s].done)
  /\ scan' = [scan EXCEPT ![s] = IF @.done THEN Off ELSE [@ EXCEPT !.pc = "again"]]
  /\ UNCHANGED <<status, stale, pending, crashes, changes>>

scan_again(s) ==
  /\ scan[s].pc = "again"
  /\ scan' = [scan EXCEPT ![s] = Queued]
  /\ UNCHANGED <<status, stale, pending, cursor, crashes, changes>>

\* A killed worker's message is delivered again and starts from the committed cursor.
Crash(s) ==
  /\ scan[s].pc \in {"write", "advance", "again"} /\ crashes < MaxCrashes
  /\ crashes' = crashes + 1
  /\ scan' = [scan EXCEPT ![s] = Queued]
  /\ UNCHANGED <<status, stale, pending, cursor, changes>>

\* The outbox relay publishes the message; the run it starts is DiscoveryRuns' subject.
Relay(p) ==
  /\ p \in pending
  /\ pending' = pending \ {p}
  /\ UNCHANGED <<status, stale, cursor, scan, crashes, changes>>

\* A new pattern, or no match left to derive one from, sends the profile to discovery.
pattern_backfill(p) ==
  /\ p \in stale
  /\ stale' = stale \ {p}
  /\ \/ UNCHANGED <<status, pending>>
     \/ /\ status' = [status EXCEPT ![p] = "required"]
        /\ pending' = pending \cup {p}
  /\ UNCHANGED <<cursor, scan, crashes, changes>>

\* The stats flush promotes a profile, the operator patches its status.
Change(p) ==
  /\ changes < MaxChanges
  /\ changes' = changes + 1
  /\ status' = [status EXCEPT ![p] = IF @ = "required" THEN "active" ELSE "required"]
  /\ UNCHANGED <<stale, pending, cursor, scan, crashes>>

Step(s) == scan_read(s) \/ scan_write(s) \/ scan_advance(s) \/ scan_again(s)

Next ==
  \/ \E s \in Scans : Cadence(s) \/ Step(s) \/ Crash(s)
  \/ \E p \in Profiles : Relay(p) \/ pattern_backfill(p) \/ Change(p)

Spec == Init /\ [][Next]_vars

\* The cadence is durable (MaintenanceCadence) and the worker pool serves every scan message.
Fairness == \A s \in Scans : WF_vars(Cadence(s)) /\ WF_vars(Step(s))

FairSpec == Spec /\ Fairness

-----------------------------------------------------------------------------
Required(p) == status[p] = "required"
Chosen(p) == p \in pending

\* No required profile is left out by the chunked scan: however invocations are killed between
\* writing their chunk and moving the cursor, and whatever profiles join or leave behind the
\* cursor, each is enqueued or stops requiring discovery (strategy_discovery_scan).
ScanReaches ==
  \A p \in Profiles : Required(p) ~> (Chosen(p) \/ ~Required(p))
=============================================================================
