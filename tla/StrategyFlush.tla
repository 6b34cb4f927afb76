----------------------------- MODULE StrategyFlush -----------------------------
(***************************************************************************)
(* How a strategy profile learns: spiders count attempts in Redis,         *)
(* flush_stats drains the counts of dirty profiles into                    *)
(* strategy_attempt_stats, promotes a method, switches the preferred one   *)
(* within the hysteresis band, rolls a bad switch back, and sends the      *)
(* profile to rediscovery; light_recheck looks between flushes.            *)
(*                                                                         *)
(* A drain deletes the counts from Redis at once, while what it feeds is   *)
(* committed with the workspace's transaction.  Re-proving a DEGRADED      *)
(* profile's own method runs _rebase_method_stats, whose conflict target   *)
(* no unique index matches, so that flush raises and rolls back.           *)
(* One profile and one method type; methods are numbered in flush order.   *)
(***************************************************************************)
EXTENDS Naturals, Sequences, FiniteSets, FiniteSetsExt, SequencesExt

CONSTANTS N,             \* access methods
          Flushes,       \* flush_stats tasks running at once
          MinOk,         \* promotion: qualifying successes in one drain, and distinct URLs
          MinSwitch,     \* hysteresis: distinct URLs a method change needs
          RollbackMin,   \* post-switch attempts before a switch is judged
          MaxFail,       \* consecutive failures that trigger rediscovery
          MaxAttempts, MaxPatches, MaxAborts

Methods == 1 .. N
Nil == 0
Zero == [m \in Methods |-> [ok |-> 0, bad |-> 0, urls |-> 0]]

VARIABLES buf,      \* Redis: the counts of each method and its URL set's size
          dirty,    \* Redis: the profile is in the workspace's dirty set
          prof,     \* domain_strategy_profiles row
          stats,    \* strategy_attempt_stats rows
          sw,       \* strategy_method_switches rows, oldest first
          fl,       \* the flush tasks: what they drained, the row they loaded, what they wrote
          row,      \* the flush whose open transaction has written the profile row
          seen,     \* ghost: attempts recorded, per method
          degraded, \* ghost: committed ACTIVE -> DEGRADED transitions
          asked,    \* discovery messages sent for them
          overlap,  \* ghost: two flushes of the profile have been open at once
          undone,   \* ghost: messages whose transaction rolled back afterwards
          patches, aborts

vars == <<buf, dirty, prof, stats, sw, fl, row, seen, degraded, asked, overlap, undone,
          patches, aborts>>

Free == "free"

Tally == [ok : 0 .. MaxAttempts, bad : 0 .. MaxAttempts]
Counts == [ok : 0 .. MaxAttempts, bad : 0 .. MaxAttempts, urls : 0 .. MaxAttempts]
Row == [status : {"LEARNING", "ACTIVE", "DEGRADED"}, preferred : Methods \cup {Nil},
        fails : 0 .. MaxAttempts]
Switch == [from : Methods, to : Methods, at : Tally, base : Tally, rolled : BOOLEAN]

NewRow == [status |-> "LEARNING", preferred |-> Nil, fails |-> 0]
Written == [prof |-> NewRow, stats |-> [m \in Methods |-> [ok |-> 0, bad |-> 0]],
            sw |-> <<>>, asked |-> FALSE, fell |-> FALSE]
Idle == [pc |-> "idle", next |-> 1, held |-> Zero, snap |-> NewRow, out |-> Written]

TypeOK ==
  /\ buf \in [Methods -> Counts] /\ dirty \in BOOLEAN
  /\ prof \in Row /\ stats \in [Methods -> Tally]
  /\ \A i \in DOMAIN sw : sw[i] \in Switch
  /\ \A f \in Flushes : /\ fl[f].pc \in {"idle", "drain", "decide", "srem", "commit"}
                        /\ fl[f].next \in 1 .. N + 1
                        /\ fl[f].held \in [Methods -> Counts] /\ fl[f].snap \in Row
                        /\ fl[f].out.prof \in Row /\ fl[f].out.asked \in BOOLEAN
  /\ row \in Flushes \cup {Free}
  /\ seen \in [Methods -> 0 .. MaxAttempts]
  /\ degraded \in Nat /\ asked \in Nat /\ undone \in Nat /\ patches \in 0 .. MaxPatches
  /\ overlap \in BOOLEAN /\ aborts \in 0 .. MaxAborts

Init ==
  /\ buf = Zero /\ dirty = FALSE
  /\ prof = NewRow
  /\ stats = Written.stats /\ sw = <<>>
  /\ fl = [f \in Flushes |-> Idle] /\ row = Free
  /\ seen = [m \in Methods |-> 0]
  /\ degraded = 0 /\ asked = 0 /\ undone = 0 /\ patches = 0
  /\ overlap = FALSE /\ aborts = 0

-----------------------------------------------------------------------------
(* The spider's side. *)

\* Every success qualifies and is of a new URL; the dirty mark is the last command.
record_attempt(m, ok) ==
  /\ FoldSet(LAMBDA k, n : n + seen[k], 0, Methods) < MaxAttempts
  /\ buf' = IF ok THEN [buf EXCEPT ![m].ok = @ + 1, ![m].urls = @ + 1]
            ELSE [buf EXCEPT ![m].bad = @ + 1]
  /\ dirty' = TRUE
  /\ seen' = [seen EXCEPT ![m] = @ + 1]
  /\ UNCHANGED <<prof, stats, sw, fl, row, degraded, asked, undone, overlap, patches, aborts>>

\* The operator patches the status.
update_profile ==
  /\ patches < MaxPatches /\ row = Free /\ prof.status = "ACTIVE"
  /\ prof' = [prof EXCEPT !.status = "LEARNING"]
  /\ patches' = patches + 1
  /\ UNCHANGED <<buf, dirty, stats, sw, fl, row, seen, degraded, asked, undone, overlap, aborts>>

-----------------------------------------------------------------------------
(* One flush of the profile. *)

flush_begin(f) ==
  /\ fl[f].pc = "idle" /\ dirty
  /\ fl' = [fl EXCEPT ![f] = [Idle EXCEPT !.pc = "drain", !.snap = prof]]
  /\ overlap' = (overlap \/ \E g \in Flushes : fl[g].pc # "idle")
  /\ UNCHANGED <<buf, dirty, prof, stats, sw, row, seen, degraded, asked, undone, patches, aborts>>


\* The script reads the counts, deletes them, and leaves the URL set.
Drained(m) == [buf EXCEPT ![m].ok = 0, ![m].bad = 0]

drain(f) ==
  LET m == fl[f].next IN
  /\ fl[f].pc = "drain"
  /\ buf' = Drained(m)
  /\ fl' = [fl EXCEPT ![f].held[m] = buf[m], ![f].next = m + 1,
                      ![f].pc = IF m = N THEN "decide" ELSE "drain"]
  /\ UNCHANGED <<dirty, prof, stats, sw, row, seen, degraded, asked, undone, overlap, patches, aborts>>

\* The rows _upsert_stats leaves in this transaction.
Upserted(f) ==
  [m \in Methods |-> [ok |-> stats[m].ok + fl[f].held[m].ok,
                      bad |-> stats[m].bad + fl[f].held[m].bad]]

candidate_was_rolled_back(m) == \E i \in DOMAIN sw : sw[i].to = m /\ sw[i].rolled

Required(m) == IF candidate_was_rolled_back(m) THEN MinSwitch + 1 ELSE MinSwitch

evaluate_switch(m, incumbent, urls, aged) ==
  incumbent = Nil \/ m = incumbent \/ (urls >= Required(m) /\ aged)

evaluate_promotion(c) == c.ok >= MinOk /\ c.urls >= MinOk

\* The first method that earns it; the guarded UPDATE then finds the profile ACTIVE.
Promoted(f, aged) ==
  LET fit == {m \in Methods : /\ evaluate_promotion(fl[f].held[m])
                              /\ evaluate_switch(m, fl[f].snap.preferred, fl[f].held[m].urls, aged)}
  IN IF prof.status = "ACTIVE" \/ fit = {} THEN Nil ELSE Min(fit)

Preferred(f, win, m) == IF win # Nil /\ win < m THEN win ELSE fl[f].snap.preferred

\* Re-proving the preferred method of a profile that was DEGRADED when it was loaded.
rebase_raises(f, win) ==
  win # Nil /\ fl[f].snap.status = "DEGRADED" /\ win = fl[f].snap.preferred

\* recent_failure_count is assigned from the value loaded with the row.
Fails(f, win) ==
  LET mine == {m \in Methods : m = Preferred(f, win, m)} IN
  IF \E m \in mine : fl[f].held[m].ok > 0 THEN 0
  ELSE LET bad == FoldSet(LAMBDA m, n : n + fl[f].held[m].bad, 0, mine) IN
       IF bad > 0 THEN fl[f].snap.fails + bad ELSE prof.fails

Rate(t) == IF t.ok + t.bad = 0 THEN 2 ELSE (2 * t.ok) \div (t.ok + t.bad)   \* halves

\* The latest open switch is judged on what its method did since.
evaluate_rollback(switch, now) ==
  LET ok == now[switch.to].ok - switch.at.ok
      bad == now[switch.to].bad - switch.at.bad IN
  /\ ok + bad >= RollbackMin
  /\ switch.base.ok + switch.base.bad > 0
  /\ Rate([ok |-> ok, bad |-> bad]) < Rate(switch.base)

Open(s) == {i \in DOMAIN s : ~s[i].rolled}

latest_open_switch(s) == IF Open(s) = {} THEN 0 ELSE Max(Open(s))

\* Mutant: the method is put back but the switch stays open.
mark_rolled_back_Forgotten(s, i) == s

mark_rolled_back(s, i) == [s EXCEPT ![i].rolled = TRUE]

\* Consecutive signals of recent attempts may trigger it too: any answer of theirs.
evaluate_rediscovery(p, now, signals) ==
  \/ signals \/ p.fails >= MaxFail
  \/ p.preferred # Nil /\ Rate(now[p.preferred]) = 0

\* Mutant: the UPDATE is not guarded by the status.
Degradable_Any(p) == TRUE

Degradable(p) == p.status = "ACTIVE"

\* What the transaction has written when flush_profile reaches its end.
Decided(f, win, signals) ==
  LET now == Upserted(f)
      old == fl[f].snap.preferred
      row1 == [prof EXCEPT !.status = IF win = Nil THEN @ ELSE "ACTIVE",
                           !.preferred = IF win = Nil THEN @ ELSE win,
                           !.fails = Fails(f, win)]
      sw1 == IF win = Nil \/ old = Nil \/ win = old THEN sw
             ELSE Append(sw, [from |-> old, to |-> win, at |-> now[win], base |-> stats[old],
                              rolled |-> FALSE])
      i == latest_open_switch(sw1)
      back == i # 0 /\ evaluate_rollback(sw1[i], now)
      row2 == IF back THEN [row1 EXCEPT !.preferred = sw1[i].from] ELSE row1
      sw2 == IF back THEN mark_rolled_back(sw1, i) ELSE sw1
      again == evaluate_rediscovery(row2, now, signals) /\ Degradable(row2)
  IN [prof |-> IF again THEN [row2 EXCEPT !.status = "DEGRADED"] ELSE row2,
      stats |-> now, sw |-> sw2, asked |-> again, fell |-> again /\ row2.status = "ACTIVE"]

\* The transaction takes the row lock; a discovery message leaves before it commits.
decide(f) ==
  /\ fl[f].pc = "decide" /\ row = Free
  /\ \E aged \in BOOLEAN, signals \in BOOLEAN :
       LET win == Promoted(f, aged)
           out == Decided(f, win, signals) IN
       \/ /\ rebase_raises(f, win)
          /\ fl' = [fl EXCEPT ![f] = Idle]
          /\ UNCHANGED <<buf, row, asked>>
       \/ /\ ~rebase_raises(f, win)
          /\ buf' = IF win = Nil THEN buf ELSE [buf EXCEPT ![win].urls = 0]
          /\ row' = f
          /\ asked' = asked + (IF out.asked THEN 1 ELSE 0)
          /\ fl' = [fl EXCEPT ![f].pc = "srem", ![f].out = out]
  /\ UNCHANGED <<dirty, prof, stats, sw, seen, degraded, undone, overlap, patches, aborts>>

srem(f) ==
  /\ fl[f].pc = "srem"
  /\ dirty' = FALSE
  /\ fl' = [fl EXCEPT ![f].pc = "commit"]
  /\ UNCHANGED <<buf, prof, stats, sw, row, seen, degraded, asked, undone, overlap, patches, aborts>>

\* The workspace's transaction commits; what was held is counted.
commit(f) ==
  /\ fl[f].pc = "commit"
  /\ prof' = fl[f].out.prof /\ stats' = fl[f].out.stats /\ sw' = fl[f].out.sw
  /\ degraded' = degraded + (IF fl[f].out.fell THEN 1 ELSE 0)
  /\ row' = Free
  /\ fl' = [fl EXCEPT ![f] = Idle]
  /\ UNCHANGED <<buf, dirty, seen, asked, undone, overlap, patches, aborts>>

\* Another profile of the workspace raises, or the worker dies: all of it rolls back.
Abort(f) ==
  /\ fl[f].pc # "idle" /\ aborts < MaxAborts
  /\ aborts' = aborts + 1
  /\ undone' = undone + (IF fl[f].pc \in {"srem", "commit"} /\ fl[f].out.asked THEN 1 ELSE 0)
  /\ row' = IF row = f THEN Free ELSE row
  /\ fl' = [fl EXCEPT ![f] = Idle]
  /\ UNCHANGED <<buf, dirty, prof, stats, sw, seen, degraded, asked, overlap, patches>>

-----------------------------------------------------------------------------
\* Stored and pending counts together; one transaction, one profile at a time.
light_recheck ==
  /\ prof.status = "ACTIVE" /\ row = Free
  /\ \E signals \in BOOLEAN :
       evaluate_rediscovery(prof, [m \in Methods |-> [ok |-> stats[m].ok + buf[m].ok,
                                                      bad |-> stats[m].bad + buf[m].bad]], signals)
  /\ prof' = [prof EXCEPT !.status = "DEGRADED"]
  /\ asked' = asked + 1 /\ degraded' = degraded + 1
  /\ UNCHANGED <<buf, dirty, stats, sw, fl, row, seen, undone, overlap, patches, aborts>>

Next ==
  \/ \E m \in Methods, ok \in BOOLEAN : record_attempt(m, ok)
  \/ update_profile \/ light_recheck
  \/ \E f \in Flushes : flush_begin(f) \/ drain(f) \/ decide(f) \/ srem(f) \/ commit(f) \/ Abort(f)

Spec == Init /\ [][Next]_vars

-----------------------------------------------------------------------------
Attempts(t) == t.ok + t.bad

\* An attempt is counted at most once: what the rows, the buffer and the open flushes hold of
\* a method never exceeds what its spiders recorded, however flushes overlap, abort and repeat
\* (stats_buffer.drain, flush._upsert_stats).
CountedOnce ==
  \A m \in Methods :
    Attempts(stats[m]) + Attempts(buf[m])
      + FoldSet(LAMBDA f, n : n + Attempts(fl[f].held[m]), 0, Flushes) <= seen[m]

\* The switch audit nests: the newest switch not rolled back is the one that installed the
\* preferred method, so a rollback replaces the method it judged (flush._maybe_rollback_switch).
\* Overlapping flushes break it: the second one's incumbent is the row it loaded.
NewestSwitchRules ==
  Open(sw) # {} /\ ~overlap => prof.preferred = sw[Max(Open(sw))].to

\* A degradation asks for discovery exactly once: no transition commits without its message,
\* and a message without a transition is one whose transaction rolled back
\* (rediscovery.apply_rediscovery, light_recheck).
RediscoveryOnce ==
  asked = degraded + undone
    + Cardinality({f \in Flushes : fl[f].pc \in {"srem", "commit"} /\ fl[f].out.asked})

\* "a record_attempt racing in after this drain re-dirties the profile via its own SADD,
\* picked up next cycle" (flush.py): with no flush under way, buffered counts are marked.
PendingIsDirty ==
  (\A f \in Flushes : fl[f].pc = "idle") /\ (\E m \in Methods : Attempts(buf[m]) > 0) => dirty
=============================================================================
