------------------------------ MODULE ResultSpool ------------------------------
(***************************************************************************)
(* BatchedPersistencePipeline: a scraped item is appended to the host's    *)
(* SQLite spool before it is buffered, a batch is persisted by one         *)
(* Postgres transaction in a thread, and the spool rows are deleted after  *)
(* the commit.  A spider that opens replays the rows it finds, whoever     *)
(* wrote them: the file is per host and several spiders run on a host, so  *)
(* a row can be in two flushes at once.  A process may die between any two *)
(* steps.                                                                  *)
(*                                                                         *)
(* One match.  Item i is the i-th scrape by scraped_at, and spool row i.   *)
(* The admission waiters of process_item only delay a producer, which a    *)
(* producer that is free to wait already covers.                           *)
(***************************************************************************)
EXTENDS Integers, FiniteSets, FiniteSetsExt, WellFoundedInduction, TLAPS

CONSTANTS Items,           \* 1 .. n
          Spiders,         \* spider processes of the host; each runs once
          Jobs, JobOf,     \* the scrape job each item belongs to
          MaxItems,        \* SCRAPE_FLUSH_MAX_ITEMS
          MaxPending,      \* SCRAPE_FLUSH_MAX_PENDING_BATCHES
          QuarantineAfter, \* SCRAPE_FLUSH_QUARANTINE_AFTER
          Override         \* scrapes after which a worse reading wins (24 hours)

Nil == 0
ItemKinds == {"weak", "strong", "out_of_stock", "handoff"}
Conf(k) == IF k = "strong" THEN 2 ELSE IF k = "weak" THEN 1 ELSE 0

VARIABLES kind,      \* what item i turned out to be; "none" before it is scraped
          ord,       \* the strategy ordinal a handoff item was fetched under
          live,      \* spool rows of kind SCRAPE_RESULT
          quar,      \* items with a row of kind quarantined
          tries,     \* attempts column of a live row
          proc,      \* the spider processes: up, in-memory buffer, flushes, replay timers
          obs,       \* price_observations: <<item, the flush that minted the id>>
          attempts,  \* request_attempts rows, by attempt_uuid
          writes,    \* flush transactions committed per item, the source of fresh ids
          cur,       \* match_current_prices
          rung,      \* strategy_attempt_ordinal of each job's target
          cancelled  \* jobs with status CANCELLED

vars == <<kind, ord, live, quar, tries, proc, obs, attempts, writes, cur, rung, cancelled>>

Absent == [at |-> Nil, item |-> Nil, conf |-> 0, obs |-> Nil, stock |-> "unknown"]
Down == [up |-> "new", buf |-> {}, flights |-> {}, timers |-> {}]
Scraped == {i \in Items : kind[i] # "none"}
Bound == 2 * Cardinality(Spiders) + QuarantineAfter

TypeOK ==
  /\ kind \in [Items -> ItemKinds \cup {"none"}] /\ ord \in [Items -> 0 .. Cardinality(Items)]
  /\ live \subseteq Scraped /\ quar \subseteq Scraped
  /\ tries \in [Items -> 0 .. Bound] /\ writes \in [Items -> 0 .. Bound]
  /\ \A s \in Spiders :
       /\ proc[s].up \in {"new", "up", "down"} /\ proc[s].buf \subseteq Scraped
       /\ proc[s].flights \subseteq
            [items : SUBSET Scraped, at : {"flush", "done", "failed", "copied"}]
       /\ proc[s].timers \subseteq SUBSET Scraped
  /\ obs \subseteq Items \X (1 .. Bound) /\ attempts \subseteq Scraped
  /\ cur.at \in Items \cup {Nil} /\ cur.item \in Items \cup {Nil}
  /\ rung \in [Jobs -> 0 .. Cardinality(Items)] /\ cancelled \subseteq Jobs

Init ==
  /\ kind = [i \in Items |-> "none"] /\ ord = [i \in Items |-> 0]
  /\ live = {} /\ quar = {} /\ tries = [i \in Items |-> 0]
  /\ proc = [s \in Spiders |-> Down]
  /\ obs = {} /\ attempts = {} /\ writes = [i \in Items |-> 0]
  /\ cur = Absent /\ rung = [j \in Jobs |-> 0] /\ cancelled = {}

db == <<obs, attempts, writes, cur, rung>>
Flight(B, at) == [items |-> B, at |-> at]

----------------------------------------------------------------------------
(* pending(limit): the oldest live rows; _dispatch_entries cuts them into  *)
(* chunks of max_items.                                                    *)
Oldest(S, n) == {i \in S : Cardinality({j \in S : j < i}) < n}
Chunks(S) ==
  {C \in SUBSET S \ {{}} : \E k \in 0 .. Cardinality(S) :
     C = {i \in S : Cardinality({j \in S : j < i}) \div MaxItems = k}}
Replay(S) == {Flight(C, "flush") : C \in Chunks(S)}

(* open_spider: replay_pending, with no regard to who else holds a row.    *)
open_spider(s) ==
  /\ proc[s].up = "new"
  /\ proc' = [proc EXCEPT ![s].up = "up", ![s].flights = Replay(Oldest(live, MaxItems * MaxPending))]
  /\ UNCHANGED <<kind, ord, live, quar, tries, db, cancelled>>

(* process_item: spool first, then buffer; a full buffer is flushed.  The  *)
(* target's ordinal is the one the run was handed.                         *)
Buffered(p, i) ==
  LET b == p.buf \cup {i} IN
    IF Cardinality(b) >= MaxItems
      THEN [p EXCEPT !.buf = {}, !.flights = @ \cup {Flight(b, "flush")}]
      ELSE [p EXCEPT !.buf = b]

process_item(s, i, k) ==
  /\ proc[s].up = "up" /\ kind[i] = "none" /\ \A j \in Items : j < i => kind[j] # "none"
  /\ kind' = [kind EXCEPT ![i] = k] /\ ord' = [ord EXCEPT ![i] = rung[JobOf[i]]]
  /\ live' = live \cup {i}
  /\ proc' = [proc EXCEPT ![s] = Buffered(@, i)]
  /\ UNCHANGED <<quar, tries, db, cancelled>>

(* _time_based_flush, and the flush of close_spider.                       *)
time_based_flush(s) ==
  /\ proc[s].up = "up" /\ proc[s].buf # {}
  /\ proc' = [proc EXCEPT ![s].buf = {}, ![s].flights = @ \cup {Flight(proc[s].buf, "flush")}]
  /\ UNCHANGED <<kind, ord, live, quar, tries, db, cancelled>>

----------------------------------------------------------------------------
(* _flush_batch, one transaction.  Items of a cancelled job are fenced:    *)
(* their attempt is recorded, their observation is not, and no price of a  *)
(* fenced match is written.                                                *)
Fenced(B) == {i \in B : JobOf[i] \in cancelled}

\* Mutant: the insert has no conflict clause.
Inserted_Blind(B) == obs \cup {<<i, writes[i] + 1>> : i \in B}

(* ON CONFLICT (workspace_id, attempt_uuid, ...) DO NOTHING.               *)
Inserted(B) ==
  obs \cup {<<i, writes[i] + 1>> : i \in {j \in B : \A o \in obs : o[1] # j}}

(* _monotonic_conflict_where and _confidence_conflict_where: the upsert of *)
(* row i over the stored row, with the observation id minted by this flush.*)
Newer(i) ==
  \/ cur.at < i
  \/ /\ cur.at = i /\ kind[i] # "out_of_stock"
     /\ cur.obs = Nil \/ cur.obs < writes[i] + 1
AsGood(i) ==
  \/ cur.conf = 0 \/ Conf(kind[i]) = 0
  \/ cur.conf <= Conf(kind[i])
  \/ i > cur.at + Override

\* Mutant: the last flush to land wins.
Overwrites_LastWins(i) == AsGood(i)

Overwrites(i) == Newer(i) /\ AsGood(i)

Upserted(i) ==
  IF cur # Absent /\ ~Overwrites(i) THEN cur
  ELSE IF kind[i] = "out_of_stock" THEN [cur EXCEPT !.at = i, !.stock = "out"]
  ELSE [at |-> i, item |-> i, conf |-> Conf(kind[i]), obs |-> writes[i] + 1, stock |-> "in"]

(* Per match the batch writes its newest row only; a handoff has no price. *)
Priced(B) == {i \in B : kind[i] # "handoff"}
CurrentAfter(B) ==
  IF Fenced(B) # {} \/ Priced(B) = {} THEN cur ELSE Upserted(Max(Priced(B)))

(* The outcome marks of the batch: a handoff moves the target to the next  *)
(* ordinal after the one its item was fetched under.                       *)
RungAfter(B) ==
  [j \in Jobs |->
     LET h == {i \in B \ Fenced(B) : kind[i] = "handoff" /\ JobOf[i] = j} IN
       IF h = {} THEN rung[j] ELSE ord[Max(h)] + 1]

Persist(B) ==
  /\ obs' = Inserted(B \ Fenced(B)) /\ attempts' = attempts \cup B
  /\ writes' = [i \in Items |-> IF i \in B THEN writes[i] + 1 ELSE writes[i]]
  /\ cur' = CurrentAfter(B) /\ rung' = RungAfter(B)

At(s, f, to) == [proc EXCEPT ![s].flights = (@ \ {f}) \cup {[f EXCEPT !.at = to]}]

(* The transaction commits; the commit may still be reported as an error.  *)
flush_commits(s, f) ==
  /\ f \in proc[s].flights /\ f.at = "flush"
  /\ Persist(f.items)
  /\ \E to \in {"done", "failed"} : proc' = At(s, f, to)
  /\ UNCHANGED <<kind, ord, live, quar, tries, cancelled>>

(* It fails and rolls back.                                                *)
flush_fails(s, f) ==
  /\ f \in proc[s].flights /\ f.at = "flush"
  /\ proc' = At(s, f, "failed")
  /\ UNCHANGED <<kind, ord, live, quar, tries, db, cancelled>>

Ended(s, f) == [proc EXCEPT ![s].flights = @ \ {f}]

(* _on_flush_success: resolve the rows.                                    *)
on_flush_success(s, f) ==
  /\ f \in proc[s].flights /\ f.at = "done"
  /\ live' = live \ f.items
  /\ proc' = Ended(s, f)
  /\ UNCHANGED <<kind, ord, quar, tries, db, cancelled>>

(* _on_flush_failure: defer_many counts the failure on the rows that still *)
(* exist; the exhausted ones are moved to quarantine, the rest replayed    *)
(* after a delay.  The move is an append, then a delete.                   *)
Exhausted(B) == {i \in B \cap live : tries[i] + 1 >= QuarantineAfter}

\* Mutant: an exhausted row is deleted.
Quarantined_Dropped(x) == quar

Quarantined(x) == quar \cup x

on_flush_failure(s, f) ==
  LET x == Exhausted(f.items) rest == f.items \ x IN
    /\ f \in proc[s].flights /\ f.at = "failed"
    /\ tries' = [i \in Items |-> IF i \in f.items \cap live THEN tries[i] + 1 ELSE tries[i]]
    /\ quar' = Quarantined(x)
    /\ proc' = [proc EXCEPT
         ![s].flights = (@ \ {f}) \cup (IF x = {} THEN {} ELSE {Flight(x, "copied")}),
         ![s].timers = IF rest = {} THEN @ ELSE @ \cup {rest}]
    /\ UNCHANGED <<kind, ord, live, db, cancelled>>

quarantine_resolves(s, f) ==
  /\ f \in proc[s].flights /\ f.at = "copied"
  /\ live' = live \ f.items
  /\ proc' = Ended(s, f)
  /\ UNCHANGED <<kind, ord, quar, tries, db, cancelled>>

(* _replay_rows: what is left of the rows when the delay is over.          *)
replay_rows(s, T) ==
  /\ T \in proc[s].timers /\ proc[s].up = "up"
  /\ proc' = [proc EXCEPT ![s].timers = @ \ {T}, ![s].flights = @ \cup Replay(T \cap live)]
  /\ UNCHANGED <<kind, ord, live, quar, tries, db, cancelled>>

(* The process ends: killed, or closed with its grace over.                *)
Exit(s) ==
  /\ proc[s].up = "up"
  /\ proc' = [proc EXCEPT ![s] = [Down EXCEPT !.up = "down"]]
  /\ UNCHANGED <<kind, ord, live, quar, tries, db, cancelled>>

(* A cancellation commits its fence.                                       *)
Cancel(j) ==
  /\ j \notin cancelled /\ cancelled' = cancelled \cup {j}
  /\ UNCHANGED <<kind, ord, live, quar, tries, proc, db>>

Next ==
  \/ \E s \in Spiders :
       \/ open_spider(s) \/ time_based_flush(s) \/ Exit(s)
       \/ \E i \in Items, k \in ItemKinds : process_item(s, i, k)
       \/ \E f \in proc[s].flights :
            \/ flush_commits(s, f) \/ flush_fails(s, f)
            \/ on_flush_success(s, f) \/ on_flush_failure(s, f) \/ quarantine_resolves(s, f)
       \/ \E T \in proc[s].timers : replay_rows(s, T)
  \/ \E j \in Jobs : Cancel(j)

Spec == Init /\ [][Next]_vars
----------------------------------------------------------------------------
(* A scraped item is recorded in Postgres, waiting in the spool, or        *)
(* quarantined, at every instant and whichever process dies: money already *)
(* spent on a fetch leaves a trace.                                        *)
NothingLost == \A i \in Scraped : i \in attempts \cup live \cup quar

(* An item replayed by two spiders, or after a lost acknowledgement, has   *)
(* one observation.                                                        *)
OneObservation == \A o, p \in obs : o[1] = p[1] => o = p

(* Flushes land in any order, and still the current price is not behind an *)
(* observed price unless a reading at least as new was worse than it and   *)
(* the two are within Override: a stale price is never kept for its        *)
(* confidence, and never kept without a reason.                            *)
Prices == {o[1] : o \in {p \in obs : kind[p[1]] \in {"weak", "strong"}}}
CurrentNotBehind ==
  cancelled = {} =>
    \A i \in Prices :
      \/ cur.at >= i
      \/ /\ i <= cur.at + Override
         /\ \E j \in Prices : j >= i /\ cur.conf > Conf(kind[j])

(* "the update may proceed when the incoming reading is at least as good": *)
(* an observed price that is newer than the current one was read worse.    *)
AsGoodProceeds ==
  cancelled = {} => \A i \in Prices : cur.at >= i \/ cur.conf > Conf(kind[i])

(* "a second insert of the same fetch is a no-op": the current price names *)
(* an observation that exists.                                             *)
CurrentNamesObservation == cur.obs # Nil => <<cur.item, cur.obs>> \in obs

(* A target is never sent back to a rung it has left.                      *)
RungForward == [][\A j \in Jobs : rung'[j] >= rung[j]]_vars
----------------------------------------------------------------------------
(* Proofs, for any number of items, spiders and jobs and any sizes.        *)
Sizes == /\ Cardinality(Items) \in Nat /\ Items = 1 .. Cardinality(Items)
         /\ Override \in Nat

Rows == [items : SUBSET Items, at : {"flush", "done", "failed", "copied"}]
Process == [up : {"new", "up", "down"}, buf : SUBSET Items, flights : SUBSET Rows,
            timers : SUBSET SUBSET Items]

\* Every value is one the code can build.
Shape ==
  /\ kind \in [Items -> ItemKinds \cup {"none"}]
  /\ live \in SUBSET Items /\ quar \in SUBSET Items /\ attempts \in SUBSET Items
  /\ proc \in [Spiders -> Process]
  /\ writes \in [Items -> Nat] /\ obs \in SUBSET (Items \X Nat)
  /\ cur \in [at : Nat, item : Nat, conf : Nat, obs : Nat, stock : {"unknown", "in", "out"}]

\* Whatever a process holds, the spool holds or the database has, was scraped.
Seen ==
  /\ live \subseteq Scraped
  /\ \A o \in obs : o[1] \in Scraped
  /\ \A s \in Spiders :
       /\ proc[s].buf \subseteq Scraped
       /\ \A f \in proc[s].flights : f.items \subseteq Scraped

\* A flush that is about to delete its spool rows has the items somewhere else.
Handed ==
  \A s \in Spiders : \A f \in proc[s].flights :
    /\ f.at = "done" => f.items \subseteq attempts
    /\ f.at = "copied" => f.items \subseteq quar

\* CurrentNotBehind with the reading that is in the way within Override as well: what
\* was refused for it cannot be kept out by a price that a later override replaced.
Behind ==
  cancelled = {} =>
    \A i \in Prices :
      \/ cur.at >= i
      \/ /\ i <= cur.at + Override
         /\ \E j \in Prices : j >= i /\ j <= cur.at + Override /\ cur.conf > Conf(kind[j])

IInv == Shape /\ Seen /\ Handed /\ NothingLost /\ OneObservation /\ Behind

\* Max of a finite set of positions is one of them and the greatest.
LEMMA MaxOf == ASSUME Sizes, NEW S \in SUBSET Items, S # {}
               PROVE  /\ Items \subseteq Nat
                      /\ Max(S) \in S /\ \A j \in S : Max(S) >= j
<1>1. PICK n \in Nat : Items = 1 .. n
  BY DEF Sizes
<1> DEFINE T == {n - i : i \in S}
<1>2. T \subseteq Nat /\ T # {}
  <2>1. \A i \in S : n - i \in Nat
    BY <1>1
  <2>2. PICK i \in S : TRUE
    OBVIOUS
  <2>3. n - i \in T
    BY <2>2
  <2> QED BY <2>1, <2>3
<1> HIDE DEF T
<1>3. PICK x \in T : \A y \in T : ~ (<<y, x>> \in OpToRel(<, Nat))
  BY <1>2, WFMin, NatLessThanWellFounded, Zenon
<1>4. \A y \in T : ~ (y < x)
  BY <1>2, <1>3 DEF OpToRel
<1>5. PICK i \in S : x = n - i
  BY <1>3 DEF T
<1>6. \A j \in S : i >= j
  <2> TAKE j \in S
  <2>1. n - j \in T
    BY DEF T
  <2> QED BY <1>1, <1>4, <1>5, <2>1
<1>7. \E m \in S : \A j \in S : m >= j
  BY <1>6
<1>8. Max(S) \in S /\ \A j \in S : Max(S) >= j
  BY <1>7 DEF Max
<1> QED BY <1>1, <1>8

\* What a replay hands to a flush is part of what was asked for.
LEMMA ReplayWithin == ASSUME NEW S \in SUBSET Items
                      PROVE  /\ \A f \in Replay(S) : f \in Rows /\ f.at = "flush" /\ f.items \subseteq S
                             /\ \A n : Oldest(S, n) \subseteq S
<1>1. ASSUME NEW f \in Replay(S) PROVE f \in Rows /\ f.at = "flush" /\ f.items \subseteq S
  <2>1. PICK C \in Chunks(S) : f = Flight(C, "flush")
    BY DEF Replay
  <2>2. C \subseteq S
    BY DEF Chunks
  <2> QED BY <2>1, <2>2 DEF Flight, Rows
<1>2. \A n : Oldest(S, n) \subseteq S
  BY DEF Oldest
<1> QED BY <1>1, <1>2

LEMMA InitOK == ASSUME Sizes, Init PROVE IInv
<1>1. Shape
  <2>1. Down \in Process
    BY DEF Down, Process
  <2>2. Absent \in [at : Nat, item : Nat, conf : Nat, obs : Nat, stock : {"unknown", "in", "out"}]
    BY DEF Absent, Nil
  <2>3. proc \in [Spiders -> Process] /\ cur \in [at : Nat, item : Nat, conf : Nat, obs : Nat, stock : {"unknown", "in", "out"}]
    BY <2>1, <2>2 DEF Init
  <2> QED BY <2>3 DEF Init, Shape
<1>2. Seen /\ Handed
  BY DEF Init, Seen, Handed, Down, Scraped
<1>3. NothingLost /\ OneObservation /\ Behind
  BY DEF Init, NothingLost, OneObservation, Behind, Prices, Scraped
<1> QED BY <1>1, <1>2, <1>3 DEF IInv

\* Only the processes change and the spool's rows move: a row that leaves is in the database
\* or in quarantine.
LEMMA RowsMove ==
  ASSUME IInv, UNCHANGED <<kind, db>>, cancelled \subseteq cancelled',
         live' \subseteq live, quar \subseteq quar', quar' \subseteq Items,
         \A i \in live \ live' : i \in attempts \cup quar',
         proc' \in [Spiders -> Process],
         \A s \in Spiders : /\ proc'[s].buf \subseteq Scraped
                            /\ \A f \in proc'[s].flights :
                                 /\ f.items \subseteq Scraped
                                 /\ f.at = "done" => f.items \subseteq attempts
                                 /\ f.at = "copied" => f.items \subseteq quar'
  PROVE  IInv'
<1>1. Scraped' = Scraped /\ Prices' = Prices
  BY DEF Scraped, Prices, db
<1>2. Shape'
  BY DEF IInv, Shape, db
<1>3. Seen'
  BY <1>1 DEF IInv, Seen, db
<1>4. Handed'
  BY DEF Handed, db
<1>5. NothingLost' /\ OneObservation'
  BY <1>1 DEF IInv, NothingLost, OneObservation, db
<1>6. Behind'
  BY <1>1 DEF IInv, Behind, Conf, db
<1> QED BY <1>2, <1>3, <1>4, <1>5, <1>6 DEF IInv

\* The spool does not change either.
LEMMA OnlyProcesses ==
  ASSUME IInv, UNCHANGED <<kind, live, quar, db>>, cancelled \subseteq cancelled',
         proc' \in [Spiders -> Process],
         \A s \in Spiders : /\ proc'[s].buf \subseteq Scraped
                            /\ \A f \in proc'[s].flights :
                                 /\ f.items \subseteq Scraped
                                 /\ f.at = "done" => f.items \subseteq attempts
                                 /\ f.at = "copied" => f.items \subseteq quar
  PROVE  IInv'
BY RowsMove DEF IInv, Shape

LEMMA OpenOK == ASSUME Sizes, IInv, NEW s \in Spiders, open_spider(s) PROVE IInv'
<1> DEFINE R == Replay(Oldest(live, MaxItems * MaxPending))
<1>1. proc' = [proc EXCEPT ![s].up = "up", ![s].flights = R]
  BY DEF open_spider
<1>2. /\ \A f \in R : f \in Rows /\ f.at = "flush" /\ f.items \subseteq live
  <2>1. live \in SUBSET Items
    BY DEF IInv, Shape
  <2>2. Oldest(live, MaxItems * MaxPending) \subseteq live
    BY <2>1, ReplayWithin
  <2>3. Oldest(live, MaxItems * MaxPending) \in SUBSET Items
    BY <2>1, <2>2
  <2> QED BY <2>2, <2>3, ReplayWithin
<1> HIDE DEF R
<1>3. proc' \in [Spiders -> Process]
  <2>1. proc \in [Spiders -> Process] /\ R \in SUBSET Rows
    BY <1>2 DEF IInv, Shape
  <2>2. proc' = [proc EXCEPT ![s] = [proc[s] EXCEPT !.up = "up", !.flights = R]]
    BY <1>1, <2>1
  <2>3. [proc[s] EXCEPT !.up = "up", !.flights = R] \in Process
    BY <2>1 DEF Process
  <2> QED BY <2>1, <2>2, <2>3
<1>4. \A u \in Spiders : /\ proc'[u].buf \subseteq Scraped
                         /\ \A f \in proc'[u].flights :
                              /\ f.items \subseteq Scraped
                              /\ f.at = "done" => f.items \subseteq attempts
                              /\ f.at = "copied" => f.items \subseteq quar
  BY <1>1, <1>2 DEF IInv, Shape, Seen, Handed, Process
<1> QED BY <1>3, <1>4, OnlyProcesses DEF open_spider

LEMMA TimedOK == ASSUME Sizes, IInv, NEW s \in Spiders, time_based_flush(s) PROVE IInv'
<1>1. proc' = [proc EXCEPT ![s].buf = {}, ![s].flights = @ \cup {Flight(proc[s].buf, "flush")}]
  BY DEF time_based_flush
<1>2. Flight(proc[s].buf, "flush") \in Rows /\ Flight(proc[s].buf, "flush").at = "flush"
      /\ Flight(proc[s].buf, "flush").items = proc[s].buf
  BY DEF Flight, Rows, IInv, Shape, Process
<1>3. proc' \in [Spiders -> Process]
  <2>1. proc[s] \in Process /\ (proc[s].flights \cup {Flight(proc[s].buf, "flush")}) \in SUBSET Rows
    BY <1>2 DEF IInv, Shape, Process
  <2>2. proc'[s] \in Process
    BY <1>1, <2>1 DEF IInv, Shape, Process
  <2> QED BY <1>1, <2>2 DEF IInv, Shape
<1>4. \A u \in Spiders : /\ proc'[u].buf \subseteq Scraped
                         /\ \A f \in proc'[u].flights :
                              /\ f.items \subseteq Scraped
                              /\ f.at = "done" => f.items \subseteq attempts
                              /\ f.at = "copied" => f.items \subseteq quar
  BY <1>1, <1>2 DEF IInv, Shape, Seen, Handed, Process
<1> QED BY <1>3, <1>4, OnlyProcesses DEF time_based_flush

LEMMA ReplayRowsOK ==
  ASSUME Sizes, IInv, NEW s \in Spiders, NEW T \in proc[s].timers, replay_rows(s, T) PROVE IInv'
<1> DEFINE R == Replay(T \cap live)
<1>1. proc' = [proc EXCEPT ![s].timers = @ \ {T}, ![s].flights = @ \cup R]
  BY DEF replay_rows
<1>2. /\ \A f \in R : f \in Rows /\ f.at = "flush" /\ f.items \subseteq live
  <2>1. T \cap live \in SUBSET Items
    BY DEF IInv, Shape
  <2> QED BY <2>1, ReplayWithin
<1> HIDE DEF R
<1>3. proc' \in [Spiders -> Process]
  <2>1. proc \in [Spiders -> Process] /\ proc[s] \in Process
    BY DEF IInv, Shape
  <2>2. proc[s].flights \cup R \in SUBSET Rows /\ proc[s].timers \ {T} \in SUBSET SUBSET Items
    BY <1>2, <2>1 DEF Process
  <2>3. proc' = [proc EXCEPT ![s] = [proc[s] EXCEPT !.timers = @ \ {T}, !.flights = @ \cup R]]
    BY <1>1, <2>1
  <2>4. [proc[s] EXCEPT !.timers = @ \ {T}, !.flights = @ \cup R] \in Process
    BY <2>1, <2>2 DEF Process
  <2> QED BY <2>1, <2>3, <2>4
<1>4. \A u \in Spiders : /\ proc'[u].buf \subseteq Scraped
                         /\ \A f \in proc'[u].flights :
                              /\ f.items \subseteq Scraped
                              /\ f.at = "done" => f.items \subseteq attempts
                              /\ f.at = "copied" => f.items \subseteq quar
  BY <1>1, <1>2 DEF IInv, Shape, Seen, Handed, Process
<1> QED BY <1>3, <1>4, OnlyProcesses DEF replay_rows

LEMMA ExitOK == ASSUME Sizes, IInv, NEW s \in Spiders, Exit(s) PROVE IInv'
<1> DEFINE D == [Down EXCEPT !.up = "down"]
<1>1. D \in Process /\ D.buf = {} /\ D.flights = {}
  BY DEF Down, Process
<1>2. proc' = [proc EXCEPT ![s] = D]
  BY DEF Exit
<1> HIDE DEF D
<1>3. proc' \in [Spiders -> Process]
  BY <1>1, <1>2 DEF IInv, Shape
<1>4. \A u \in Spiders : /\ proc'[u].buf \subseteq Scraped
                         /\ \A f \in proc'[u].flights :
                              /\ f.items \subseteq Scraped
                              /\ f.at = "done" => f.items \subseteq attempts
                              /\ f.at = "copied" => f.items \subseteq quar
  BY <1>1, <1>2 DEF IInv, Shape, Seen, Handed
<1> QED BY <1>3, <1>4, OnlyProcesses DEF Exit

LEMMA FailsOK == ASSUME Sizes, IInv, NEW s \in Spiders, NEW f \in proc[s].flights, flush_fails(s, f)
                 PROVE IInv'
<1> DEFINE g == [f EXCEPT !.at = "failed"]
<1>1. f \in Rows /\ g \in Rows /\ g.at = "failed" /\ g.items = f.items
  BY DEF IInv, Shape, Process, Rows
<1>2. proc' = [proc EXCEPT ![s].flights = (@ \ {f}) \cup {g}]
  BY DEF flush_fails, At
<1> HIDE DEF g
<1>3. proc' \in [Spiders -> Process]
  BY <1>1, <1>2 DEF IInv, Shape, Process
<1>4. \A u \in Spiders : /\ proc'[u].buf \subseteq Scraped
                         /\ \A h \in proc'[u].flights :
                              /\ h.items \subseteq Scraped
                              /\ h.at = "done" => h.items \subseteq attempts
                              /\ h.at = "copied" => h.items \subseteq quar
  BY <1>1, <1>2 DEF IInv, Shape, Seen, Handed, Process
<1> QED BY <1>3, <1>4, OnlyProcesses DEF flush_fails

LEMMA CancelOK == ASSUME IInv, NEW j \in Jobs, Cancel(j) PROVE IInv'
<1>1. proc' = proc /\ UNCHANGED <<kind, live, quar, db>> /\ cancelled \subseteq cancelled'
  BY DEF Cancel
<1> QED BY <1>1, OnlyProcesses DEF IInv, Shape, Seen, Handed

LEMMA EndedOK ==
  ASSUME IInv, NEW s \in Spiders, NEW f \in proc[s].flights, proc' = Ended(s, f)
  PROVE  /\ proc' \in [Spiders -> Process]
         /\ f.items \subseteq Items
         /\ \A u \in Spiders : /\ proc'[u].buf \subseteq Scraped
                               /\ \A h \in proc'[u].flights :
                                    /\ h.items \subseteq Scraped
                                    /\ h.at = "done" => h.items \subseteq attempts
                                    /\ h.at = "copied" => h.items \subseteq quar
<1>1. proc[s] \in Process /\ (proc[s].flights \ {f}) \in SUBSET Rows /\ f \in Rows
  BY DEF IInv, Shape, Process
<1>2. proc'[s] \in Process /\ proc' = [proc EXCEPT ![s] = proc'[s]]
      /\ proc'[s].buf = proc[s].buf /\ proc'[s].flights \subseteq proc[s].flights
  BY <1>1 DEF Ended, IInv, Shape, Process
<1>3. proc' \in [Spiders -> Process]
  BY <1>2 DEF IInv, Shape
<1>4. f.items \subseteq Items
  BY <1>1 DEF Rows
<1>5. \A u \in Spiders : proc'[u].buf = proc[u].buf /\ proc'[u].flights \subseteq proc[u].flights
  BY <1>2 DEF IInv, Shape
<1> QED BY <1>3, <1>4, <1>5 DEF IInv, Seen, Handed

LEMMA SuccessOK ==
  ASSUME IInv, NEW s \in Spiders, NEW f \in proc[s].flights, on_flush_success(s, f) PROVE IInv'
<1>1. f.items \subseteq attempts
  BY DEF on_flush_success, IInv, Handed
<1> QED BY <1>1, EndedOK, RowsMove DEF on_flush_success, IInv, Shape

LEMMA QuarantineOK ==
  ASSUME IInv, NEW s \in Spiders, NEW f \in proc[s].flights, quarantine_resolves(s, f) PROVE IInv'
<1>1. f.items \subseteq quar
  BY DEF quarantine_resolves, IInv, Handed
<1> QED BY <1>1, EndedOK, RowsMove DEF quarantine_resolves, IInv, Shape

LEMMA FailureOK ==
  ASSUME IInv, NEW s \in Spiders, NEW f \in proc[s].flights, on_flush_failure(s, f) PROVE IInv'
<1> DEFINE x == Exhausted(f.items)
           rest == f.items \ x
           C == IF x = {} THEN {} ELSE {Flight(x, "copied")}
           F == (proc[s].flights \ {f}) \cup C
           M == IF rest = {} THEN proc[s].timers ELSE proc[s].timers \cup {rest}
<1>1. f \in Rows /\ f.items \in SUBSET Items /\ f.items \subseteq Scraped /\ proc[s] \in Process
  BY DEF IInv, Shape, Seen, Process, Rows
<1>2. x \in SUBSET Items /\ x \subseteq f.items /\ rest \in SUBSET Items
  BY <1>1 DEF Exhausted
<1>3. quar' = quar \cup x /\ proc' = [proc EXCEPT ![s].flights = F, ![s].timers = M]
  BY DEF on_flush_failure, Quarantined
<1> HIDE DEF x, rest
<1>4. C \in SUBSET Rows /\ \A h \in C : h.at = "copied" /\ h.items = x
  BY <1>2 DEF Flight, Rows
<1> HIDE DEF C
<1>5. F \in SUBSET Rows /\ M \in SUBSET SUBSET Items
  BY <1>1, <1>2, <1>4 DEF Process
<1>6. proc' = [proc EXCEPT ![s] = proc'[s]] /\ proc'[s] \in Process
      /\ proc'[s].buf = proc[s].buf /\ proc'[s].flights = F
  <2> HIDE DEF F, M
  <2> QED BY <1>1, <1>3, <1>5 DEF IInv, Shape, Process
<1>7. proc' \in [Spiders -> Process]
  BY <1>6 DEF IInv, Shape
<1>8. ASSUME NEW u \in Spiders
      PROVE  /\ proc'[u].buf \subseteq Scraped
             /\ \A h \in proc'[u].flights :
                  /\ h.items \subseteq Scraped
                  /\ h.at = "done" => h.items \subseteq attempts
                  /\ h.at = "copied" => h.items \subseteq quar'
  <2>1. CASE u = s
    BY <1>1, <1>2, <1>3, <1>4, <1>6, <2>1 DEF IInv, Seen, Handed
  <2>2. CASE u # s
    <3>1. proc'[u] = proc[u]
      BY <1>6, <2>2 DEF IInv, Shape
    <3> QED BY <3>1, <1>3 DEF IInv, Seen, Handed
  <2> QED BY <2>1, <2>2
<1>9. live' = live /\ quar \subseteq quar' /\ quar' \subseteq Items
  BY <1>2, <1>3 DEF on_flush_failure, IInv, Shape
<1> QED BY <1>7, <1>8, <1>9, RowsMove DEF on_flush_failure

LEMMA ProcessOK ==
  ASSUME IInv, NEW s \in Spiders, NEW i \in Items, NEW k \in ItemKinds, process_item(s, i, k)
  PROVE  IInv'
<1> DEFINE b == proc[s].buf \cup {i}
           g == Flight(b, "flush")
<1>1. /\ kind[i] = "none" /\ k # "none"
      /\ kind' = [kind EXCEPT ![i] = k] /\ kind' \in [Items -> ItemKinds \cup {"none"}]
      /\ live' = live \cup {i} /\ UNCHANGED <<quar, obs, attempts, writes, cur, rung, cancelled>>
      /\ proc' = [proc EXCEPT ![s] = Buffered(proc[s], i)]
  BY DEF process_item, ItemKinds, IInv, Shape, db
<1>2. Scraped' = Scraped \cup {i} /\ i \notin Scraped
  BY <1>1 DEF Scraped, IInv, Shape
<1>3. proc[s] \in Process /\ b \in SUBSET Items /\ b \subseteq Scraped'
  BY <1>2 DEF IInv, Shape, Process, Seen
<1>4. g \in Rows /\ g.at = "flush" /\ g.items = b
  BY <1>3 DEF Flight, Rows
<1> HIDE DEF g
<1>5. \/ Buffered(proc[s], i) = [proc[s] EXCEPT !.buf = {}, !.flights = @ \cup {g}]
      \/ Buffered(proc[s], i) = [proc[s] EXCEPT !.buf = b]
  BY DEF Buffered, g
<1> HIDE DEF b
<1>6. (proc[s].flights \cup {g}) \in SUBSET Rows
  BY <1>3, <1>4 DEF Process
<1>7. Buffered(proc[s], i) \in Process /\ Buffered(proc[s], i).buf \subseteq Scraped'
      /\ Buffered(proc[s], i).flights \subseteq proc[s].flights \cup {g}
  BY <1>3, <1>5, <1>6 DEF Process
<1>8. Shape'
  BY <1>1, <1>7 DEF IInv, Shape
<1>9. ASSUME NEW u \in Spiders
      PROVE  /\ proc'[u].buf \subseteq Scraped'
             /\ \A h \in proc'[u].flights : h \in proc[u].flights \/ h = g
  BY <1>1, <1>2, <1>7 DEF IInv, Shape, Seen
<1>10. Seen'
  BY <1>1, <1>2, <1>3, <1>4, <1>9 DEF IInv, Seen
<1>11. Handed'
  BY <1>1, <1>4, <1>9 DEF IInv, Handed
<1>12. NothingLost' /\ OneObservation'
  BY <1>1, <1>2 DEF IInv, NothingLost, OneObservation
<1>13. \A o \in obs : o[1] # i /\ kind'[o[1]] = kind[o[1]]
  BY <1>1, <1>2 DEF IInv, Seen, Shape, Scraped
<1>14. Prices' = Prices /\ \A j \in Prices : kind'[j] = kind[j]
  BY <1>1, <1>13 DEF Prices
<1>15. Behind'
  BY <1>1, <1>14 DEF IInv, Behind, Conf
<1> QED BY <1>8, <1>10, <1>11, <1>12, <1>15 DEF IInv

\* A commit without a cancellation: the newest priced row of the batch is offered to the upsert.
LEMMA CurrentOK ==
  ASSUME Sizes, IInv, cancelled = {}, NEW B \in SUBSET Items, B \subseteq Scraped, Persist(B),
         UNCHANGED <<kind, cancelled>>
  PROVE  Behind'
<1> DEFINE P == {j \in B : kind[j] \in {"weak", "strong"}}
<1>1. /\ kind \in [Items -> ItemKinds \cup {"none"}]
      /\ cur \in [at : Nat, item : Nat, conf : Nat, obs : Nat, stock : {"unknown", "in", "out"}]
      /\ writes \in [Items -> Nat] /\ Override \in Nat /\ Items \subseteq Nat
      /\ \A j \in Items : j >= 1
  BY DEF IInv, Shape, Sizes
<1>2. \A j \in Items : Conf(kind[j]) \in Nat /\ (kind[j] \in {"weak", "strong"} => Conf(kind[j]) > 0)
  BY DEF Conf
<1>3. Fenced(B) = {}
  BY DEF Fenced
<1>4. Prices' \subseteq Prices \cup P /\ Prices \subseteq Prices' /\ P \subseteq Prices'
  <2>1. obs' = obs \cup {<<j, writes[j] + 1>> : j \in {m \in B : \A o \in obs : o[1] # m}}
    BY <1>3 DEF Persist, Inserted
  <2>2. \A o \in obs' : o \in obs \/ o[1] \in B
    BY <2>1
  <2>3. Prices' \subseteq Prices \cup P
    BY <2>2 DEF Prices
  <2>4. Prices \subseteq Prices'
    BY <2>1 DEF Prices
  <2>5. ASSUME NEW j \in P PROVE j \in Prices'
    <3>1. CASE \E o \in obs : o[1] = j
      BY <3>1, <2>1 DEF Prices
    <3>2. CASE \A o \in obs : o[1] # j
      <4>1. <<j, writes[j] + 1>> \in obs' /\ <<j, writes[j] + 1>>[1] = j
        BY <3>2, <2>1
      <4> QED BY <4>1 DEF Prices
    <3> QED BY <3>1, <3>2
  <2> QED BY <2>3, <2>4, <2>5
<1>5. Prices \subseteq Items
  BY DEF Prices, IInv, Shape
<1>6. P \subseteq Priced(B) /\ Priced(B) \in SUBSET Items
  BY DEF Priced
<1>7. CASE Priced(B) = {}
  <2>1. cur' = cur
    BY <1>7 DEF Persist, CurrentAfter
  <2>2. Prices' = Prices
    BY <1>4, <1>6, <1>7
  <2> QED BY <2>1, <2>2 DEF IInv, Behind, Conf
<1>8. CASE Priced(B) # {}
  <2> DEFINE i == Max(Priced(B))
  <2>1. i \in Priced(B) /\ \A j \in P : i >= j
    BY <1>6, <1>8, MaxOf
  <2>2. cur' = Upserted(i)
    BY <1>3, <1>8 DEF Persist, CurrentAfter
  <2> HIDE DEF i
  <2>3. i \in Items /\ i \in B /\ kind[i] \in {"weak", "strong", "out_of_stock"}
    <3>1. i \in B /\ kind[i] # "handoff" /\ i \in Items
      BY <2>1 DEF Priced
    <3>2. kind[i] # "none"
      BY <3>1 DEF Scraped
    <3> QED BY <1>1, <3>1, <3>2 DEF ItemKinds
  <2>4. cur = Absent => Prices = {}
    <3>1. ASSUME cur = Absent, NEW p \in Prices PROVE FALSE
      <4>1. cur.at = 0 /\ cur.conf = 0
        BY <3>1 DEF Absent, Nil
      <4>2. ~ (cur.at >= p)
        BY <1>1, <1>5, <4>1
      <4>3. PICK j \in Prices : cur.conf > Conf(kind[j])
        BY <4>2 DEF IInv, Behind
      <4> QED BY <1>2, <1>5, <4>1, <4>3
    <3> QED BY <3>1
  <2>5. CASE cur = Absent \/ Overwrites(i)
    <3>1. /\ cur'.at = i
          /\ cur'.conf = IF kind[i] = "out_of_stock" THEN cur.conf ELSE Conf(kind[i])
      BY <1>1, <2>2, <2>5 DEF Upserted
    <3>2. ASSUME NEW p \in Prices, ~ (i >= p)
          PROVE  /\ p <= i + Override
                 /\ \E j \in Prices : j >= p /\ j <= i + Override /\ cur'.conf > Conf(kind[j])
      <4>1. Newer(i) /\ AsGood(i)
        BY <2>4, <2>5 DEF Overwrites
      <4>2. cur.at <= i
        BY <1>1, <2>3, <4>1 DEF Newer
      <4>3. p <= cur.at + Override
        BY <1>1, <1>5, <2>3, <3>2, <4>2 DEF IInv, Behind
      <4>4. PICK j \in Prices : j >= p /\ j <= cur.at + Override /\ cur.conf > Conf(kind[j])
        BY <1>1, <1>5, <2>3, <3>2, <4>2 DEF IInv, Behind
      <4>5. cur'.conf >= cur.conf
        <5>1. CASE kind[i] = "out_of_stock"
          BY <1>1, <3>1, <5>1
        <5>2. CASE kind[i] # "out_of_stock"
          <6>1. ~ (i > cur.at + Override)
            BY <1>1, <1>5, <2>3, <3>2, <4>3
          <6>2. cur.conf # 0 /\ Conf(kind[i]) # 0
            BY <1>1, <1>2, <1>5, <2>3, <4>4, <5>2
          <6> QED BY <1>1, <1>2, <2>3, <3>1, <4>1, <5>2, <6>1, <6>2 DEF AsGood
        <5> QED BY <5>1, <5>2
      <4>6. cur'.conf \in Nat
        BY <1>1, <1>2, <2>3, <3>1
      <4> QED BY <1>1, <1>2, <1>5, <2>3, <4>2, <4>3, <4>4, <4>5, <4>6
    <3>3. \A p \in Prices' : p >= 0 /\ (p \in Prices \/ i >= p)
      BY <1>1, <1>4, <1>5, <2>1
    <3> QED BY <1>4, <3>1, <3>2, <3>3 DEF Behind, Conf
  <2>6. CASE ~ (cur = Absent \/ Overwrites(i))
    <3>1. cur' = cur
      BY <2>2, <2>6 DEF Upserted
    <3>2. ASSUME NEW p \in P, ~ (cur.at >= p)
          PROVE  /\ p <= cur.at + Override
                 /\ \E j \in Prices' : j >= p /\ j <= cur.at + Override /\ cur.conf > Conf(kind[j])
      <4>1. i >= p /\ p \in Items
        BY <2>1
      <4>2. Newer(i)
        BY <1>1, <2>3, <3>2, <4>1 DEF Newer
      <4>3. cur.conf > Conf(kind[i]) /\ Conf(kind[i]) # 0 /\ i <= cur.at + Override
        BY <1>1, <1>2, <2>3, <2>6, <4>2 DEF Overwrites, AsGood
      <4>4. i \in P
        BY <2>3, <4>3 DEF Conf
      <4> QED BY <1>1, <1>4, <2>3, <4>1, <4>3, <4>4
    <3>3. \A p \in Prices' : p \in Prices \/ p \in P
      BY <1>4
    <3> QED BY <1>4, <3>1, <3>2, <3>3 DEF IInv, Behind, Conf
  <2> QED BY <2>5, <2>6
<1> QED BY <1>7, <1>8

LEMMA CommitOK ==
  ASSUME Sizes, IInv, NEW s \in Spiders, NEW f \in proc[s].flights, flush_commits(s, f)
  PROVE  IInv'
<1> DEFINE B == f.items
<1>1. PICK to \in {"done", "failed"} : proc' = At(s, f, to)
  BY DEF flush_commits
<1> DEFINE g == [f EXCEPT !.at = to]
<1>2. proc[s] \in Process /\ f \in Rows /\ B \in SUBSET Items /\ B \subseteq Scraped
  BY DEF IInv, Shape, Seen, Process, Rows
<1>3. g \in Rows /\ g.at = to /\ g.items = B
  BY <1>2 DEF Rows
<1>4. proc' = [proc EXCEPT ![s].flights = (@ \ {f}) \cup {g}]
  BY <1>1 DEF At
<1> HIDE DEF g
<1>5. ((proc[s].flights \ {f}) \cup {g}) \in SUBSET Rows
  BY <1>2, <1>3 DEF Process
<1>6. proc' = [proc EXCEPT ![s] = proc'[s]] /\ proc'[s] \in Process
      /\ proc'[s].buf = proc[s].buf /\ proc'[s].flights \subseteq proc[s].flights \cup {g}
  BY <1>2, <1>4, <1>5 DEF IInv, Shape, Process
<1>7. Persist(B) /\ UNCHANGED <<kind, live, quar, cancelled>>
  BY DEF flush_commits
<1> HIDE DEF B
<1>8. attempts' = attempts \cup B /\ obs' = Inserted(B \ Fenced(B)) /\ cur' = CurrentAfter(B)
      /\ writes' = [i \in Items |-> IF i \in B THEN writes[i] + 1 ELSE writes[i]]
  BY <1>7 DEF Persist
<1>9. Scraped' = Scraped
  BY <1>7 DEF Scraped
<1>10. obs' = obs \cup {<<i, writes[i] + 1>> : i \in {j \in B \ Fenced(B) : \A o \in obs : o[1] # j}}
  BY <1>8 DEF Inserted
<1>11. obs' \in SUBSET (Items \X Nat) /\ writes' \in [Items -> Nat]
  <2>1. \A i \in B : writes[i] + 1 \in Nat
    BY <1>2 DEF IInv, Shape
  <2>2. \A i \in B : <<i, writes[i] + 1>> \in Items \X Nat
    BY <1>2, <2>1
  <2>3. obs' \subseteq Items \X Nat
    BY <1>10, <2>2 DEF IInv, Shape
  <2>4. writes' \in [Items -> Nat]
    BY <1>8, <2>1 DEF IInv, Shape
  <2> QED BY <2>3, <2>4
<1>12. cur' \in [at : Nat, item : Nat, conf : Nat, obs : Nat, stock : {"unknown", "in", "out"}]
  <2> DEFINE i == Max(Priced(B))
  <2>1. CASE cur' = cur
    BY <2>1 DEF IInv, Shape
  <2>2. CASE cur' # cur
    <3>1. Priced(B) # {} /\ cur' = Upserted(i)
      BY <2>2, <1>8 DEF CurrentAfter
    <3>2. i \in Items /\ Items \subseteq Nat
      BY <1>2, <3>1, MaxOf DEF Priced
    <3> HIDE DEF i
    <3>3. i \in Nat /\ Conf(kind[i]) \in Nat /\ writes[i] + 1 \in Nat
      BY <3>2 DEF Conf, IInv, Shape
    <3> QED BY <3>1, <3>3, <2>2 DEF Upserted, IInv, Shape
  <2> QED BY <2>1, <2>2
<1>13. Shape'
  BY <1>2, <1>6, <1>7, <1>8, <1>11, <1>12 DEF IInv, Shape
<1>14. ASSUME NEW u \in Spiders
       PROVE  proc'[u].buf = proc[u].buf /\ \A h \in proc'[u].flights : h \in proc[u].flights \/ h = g
  BY <1>6 DEF IInv, Shape
<1>15. Seen'
  <2>1. \A o \in obs' : o[1] \in Scraped
    BY <1>2, <1>10 DEF IInv, Seen
  <2> QED BY <2>1, <1>2, <1>3, <1>7, <1>9, <1>14 DEF IInv, Seen
<1>16. Handed'
  BY <1>3, <1>7, <1>8, <1>14 DEF IInv, Handed
<1>17. NothingLost'
  BY <1>7, <1>8, <1>9 DEF IInv, NothingLost
<1>18. OneObservation'
  BY <1>10 DEF IInv, OneObservation
<1>19. Behind'
  <2>1. CASE cancelled = {}
    BY <2>1, <1>2, <1>7, CurrentOK
  <2>2. CASE cancelled # {}
    BY <2>2, <1>7 DEF Behind
  <2> QED BY <2>1, <2>2
<1> QED BY <1>13, <1>15, <1>16, <1>17, <1>18, <1>19 DEF IInv

LEMMA InvStep == ASSUME Sizes, IInv, [Next]_vars PROVE IInv'
<1>1. CASE UNCHANGED vars
  <2>1. UNCHANGED <<kind, live, quar, db, proc, cancelled>>
    BY <1>1 DEF vars, db
  <2> QED BY <2>1, OnlyProcesses DEF IInv, Shape, Seen, Handed
<1>2. ASSUME NEW s \in Spiders, NEW f \in proc[s].flights,
             \/ flush_commits(s, f) \/ flush_fails(s, f)
             \/ on_flush_success(s, f) \/ on_flush_failure(s, f) \/ quarantine_resolves(s, f)
      PROVE  IInv'
  BY <1>2, CommitOK, FailsOK, SuccessOK, FailureOK, QuarantineOK
<1> QED BY <1>1, <1>2, OpenOK, TimedOK, ExitOK, ProcessOK, ReplayRowsOK, CancelOK DEF Next

LEMMA Inductive == ASSUME Sizes PROVE Spec => []IInv
<1>1. Init => IInv
  BY InitOK
<1>2. IInv /\ [Next]_vars => IInv'
  BY InvStep
<1> QED BY <1>1, <1>2, PTL DEF Spec

\* For any number of spiders, items and jobs, whichever process dies and however often a batch is
\* replayed, a scraped item is in Postgres, in the spool or in quarantine.
THEOREM SpoolKeeps == ASSUME Sizes PROVE Spec => []NothingLost
<1>1. IInv => NothingLost
  BY DEF IInv
<1> QED BY <1>1, Inductive, PTL

\* Two flushes of one row never leave two observations of it.
THEOREM ObservedOnce == ASSUME Sizes PROVE Spec => []OneObservation
<1>1. IInv => OneObservation
  BY DEF IInv
<1> QED BY <1>1, Inductive, PTL

\* In whatever order flushes land and however they were batched, the current price is behind an
\* observed one only for a worse reading at least as new, and by no more than Override.
THEOREM NotBehind == ASSUME Sizes PROVE Spec => []CurrentNotBehind
<1>1. IInv => CurrentNotBehind
  BY DEF IInv, Behind, CurrentNotBehind
<1> QED BY <1>1, Inductive, PTL
=============================================================================
