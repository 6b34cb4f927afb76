---------------------------- MODULE DailyRollup ----------------------------
(***************************************************************************)
(* The daily price rollup and the retention of what it is derived from:    *)
(* libs/shared/app_shared/maintenance/{rollups,rollup_sql,                 *)
(* rollup_watermark,retention,partitions}.py and the tasks daily_rollup,   *)
(* retention_drop and partition_create of tasks_maintenance.py.            *)
(*                                                                         *)
(* A day's price_observations are walked in keyset batches; every batch    *)
(* upserts the rollup rows of its keys and the day's rollup_completion     *)
(* checkpoint in one transaction.  The cadence walks the days owed since   *)
(* the rollup_watermarks cursor, an operator may recompute any day, and    *)
(* retention drops a whole partition of observations when its days are     *)
(* covered.  Workers are Celery workers; any of them may be killed between *)
(* two transactions.                                                       *)
(*                                                                         *)
(* Abstractions: a (workspace, variant) pair is a key 1..N in keyset       *)
(* order; an observation is its day and key; a rollup row is the version   *)
(* of the client price it snapshot, 0 for no row; a partition is PartDays  *)
(* days; dates are day numbers; today is the UTC day.                      *)
(***************************************************************************)
EXTENDS Integers, FiniteSets, FiniteSetsExt

CONSTANTS
  N,             \* keys
  BatchLimit,    \* ROLLUP_BATCH_SIZE
  LastDay,       \* bound: the days of the model
  PartDays,      \* days in a partition
  Lookahead,     \* PARTITION_CREATE_LOOKAHEAD_MONTHS, in partitions
  Retention,     \* RETENTION_PRICE_OBSERVATIONS_DAYS
  MaxDays,       \* ROLLUP_BACKFILL_MAX_DAYS
  SeedLag,       \* ROLLUP_WATERMARK_SEED_LAG_DAYS
  Workers,       \* Celery workers of the maintenance queue
  MaxLate,       \* bound: days an observation may be replayed late
  MaxPrice,      \* bound: client price versions of a variant
  MaxRedo,       \* bound: operator recomputes
  MaxCrashes     \* bound: workers killed

VARIABLES
  today,       \* the UTC date
  obs,         \* [day -> keys observed on it], kept after the drop
  part,        \* [partition -> "absent" | "live" | "dropped"]
  priced,      \* variant_price_states: version of the client price, 0 none
  roll,        \* variant_price_daily_rollups: [day -> [key -> version]]
  comp,        \* rollup_completion: [day -> [cursor, complete]]
  wm,          \* rollup_watermarks: last complete day, -1 without a row
  seed,        \* the day the cursor was seeded at
  wk,          \* [worker -> what it is doing]
  walked,      \* days some walk has reached the end of
  redone, crashes

vars == <<today, obs, part, priced, roll, comp, wm, seed, wk, walked, redone,
          crashes>>

VariantKeys == 1..N
Days == 1..LastDay
Parts == 1..((LastDay + PartDays - 1) \div PartDays)
PartOf(d) == ((d - 1) \div PartDays) + 1
DaysOf(p) == {d \in Days : PartOf(d) = p}

Idle == [pc |-> "idle", mode |-> "none", day |-> 0, last |-> 0, cursor |-> 0]

TypeOK ==
  /\ today \in Days
  /\ obs \in [Days -> SUBSET VariantKeys]
  /\ part \in [Parts -> {"absent", "live", "dropped"}]
  /\ priced \in [VariantKeys -> 0..MaxPrice]
  /\ roll \in [Days -> [VariantKeys -> 0..MaxPrice]]
  /\ comp \in [Days -> [cursor : 0..N, complete : BOOLEAN]]
  /\ wm \in -1..LastDay /\ seed \in -1..LastDay
  /\ wk \in [Workers -> [pc : {"idle", "enter", "batch", "advance", "drop"},
                         mode : {"none", "cadence", "recompute", "day",
                                 "retention"},
                         day : 0..LastDay, last : 0..LastDay,
                         cursor : 0..N]]
  /\ walked \subseteq Days /\ redone \in 0..MaxRedo /\ crashes \in 0..MaxCrashes

Init ==
  /\ today = 2
  /\ obs = [d \in Days |-> {}]
  /\ part = [p \in Parts |-> IF p = 1 THEN "live" ELSE "absent"]
  /\ priced = [k \in VariantKeys |-> 0]
  /\ roll = [d \in Days |-> [k \in VariantKeys |-> 0]]
  /\ comp = [d \in Days |-> [cursor |-> 0, complete |-> FALSE]]
  /\ wm = -1 /\ seed = -1
  /\ wk = [w \in Workers |-> Idle]
  /\ walked = {} /\ redone = 0 /\ crashes = 0

-----------------------------------------------------------------------------
(* The rest of the system.                                                 *)

Observed(d, k) ==
  /\ part[PartOf(d)] = "live"
  /\ k \notin obs[d]
  /\ obs' = [obs EXCEPT ![d] = @ \cup {k}]
  /\ UNCHANGED <<today, part, priced, roll, comp, wm, seed, wk, walked, redone,
                 crashes>>

\* A batch of prices is committed; a write without a partition fails.  (The
\* last day of the model is only there to be the day after.)
Observe(k) == today < LastDay /\ Observed(today, k)

\* The result spool delivers a batch of an earlier day.
Replay(d, k) == d < today /\ d >= today - MaxLate /\ Observed(d, k)

\* The price-analysis worker writes the variant's state, or rewrites it.
Price(k) ==
  /\ priced[k] < MaxPrice
  /\ priced' = [priced EXCEPT ![k] = @ + 1]
  /\ UNCHANGED <<today, obs, part, roll, comp, wm, seed, wk, walked, redone,
                 crashes>>

NextDay ==
  /\ today < LastDay
  /\ today' = today + 1
  /\ UNCHANGED <<obs, part, priced, roll, comp, wm, seed, wk, walked, redone,
                 crashes>>

-----------------------------------------------------------------------------
(* partition_create                                                        *)

create_missing_partitions ==
  LET wanted == {p \in Parts : p >= PartOf(today)
                             /\ p <= PartOf(today) + Lookahead
                             /\ part[p] = "absent"}
  IN  /\ wanted # {}
      /\ part' = [p \in Parts |-> IF p \in wanted THEN "live" ELSE part[p]]
      /\ UNCHANGED <<today, obs, priced, roll, comp, wm, seed, wk, walked,
                     redone, crashes>>

-----------------------------------------------------------------------------
(* daily_rollup                                                            *)

Yesterday == today - 1

\* plan_backfill_days: the last of the days this run owes, oldest first.
LastOwed(from) == Min({Yesterday, from + MaxDays})

\* run_rollup_catchup reads the cursor, seeding it on first use.
StartCadence(w) ==
  /\ wk[w].pc = "idle"
  /\ LET from == IF wm = -1 THEN Max({0, Yesterday - SeedLag}) ELSE wm
     IN  /\ from < Yesterday
         /\ wm' = from
         /\ seed' = IF wm = -1 THEN from ELSE seed
         /\ wk' = [wk EXCEPT ![w] = [pc |-> "enter", mode |-> "cadence",
                                     day |-> from + 1, last |-> LastOwed(from),
                                     cursor |-> 0]]
  /\ UNCHANGED <<today, obs, part, priced, roll, comp, walked, redone, crashes>>

\* An operator's recompute of a window, or a single explicit day.
StartOperator(w, mode, d, e) ==
  /\ wk[w].pc = "idle" /\ redone < MaxRedo
  /\ d <= e /\ e <= Yesterday /\ (mode = "day" => e = d)
  /\ redone' = redone + 1
  /\ wk' = [wk EXCEPT ![w] = [pc |-> "enter", mode |-> mode, day |-> d,
                              last |-> e, cursor |-> 0]]
  /\ UNCHANGED <<today, obs, part, priced, roll, comp, wm, seed, walked, crashes>>

\* After a day: the next one of the range, or the end of the run.
After(t) ==
  IF t.day < t.last
  THEN [t EXCEPT !.pc = "enter", !.day = @ + 1, !.cursor = 0]
  ELSE Idle

\* Mutant: the checkpoint's cursor is written and never read.
ResumeAt_Start(t) == 0 * t.day

\* The key a walk starts after: the checkpoint's, or the first.
ResumeAt(t) == IF t.mode = "recompute" THEN 0 ELSE comp[t.day].cursor

\* run_daily_rollup reads the day's checkpoint; a recompute disregards it
\* (the cleared row commits with the first batch).
EnterDay(w) ==
  LET t == wk[w] IN
  /\ t.pc = "enter"
  /\ wk' = [wk EXCEPT ![w] =
       IF t.mode # "recompute" /\ comp[t.day].complete
       THEN IF t.mode = "cadence" THEN [t EXCEPT !.pc = "advance"] ELSE After(t)
       ELSE [t EXCEPT !.pc = "batch",
                      !.cursor = ResumeAt(t)]]
  /\ UNCHANGED <<today, obs, part, priced, roll, comp, wm, seed, walked, redone,
                 crashes>>

\* The driver of one batch: the first BatchLimit keys past the cursor.
Driver(d, cursor) ==
  LET there == IF part[PartOf(d)] = "live"
               THEN {k \in obs[d] : k > cursor} ELSE {}
  IN  {k \in there : Cardinality({j \in there : j < k}) < BatchLimit}

\* driver_rows < batch_limit
Done(driver) == Cardinality(driver) < BatchLimit

\* One batch: the rollup rows of its keys (a key without a price state is
\* skipped) and the checkpoint, committed together.  Between batches a run
\* stops at its deadline (not a recompute, which has none); the cadence
\* then enqueues itself again.
BatchStep(w, stop) ==
  LET t == wk[w]
      driver == Driver(t.day, t.cursor)
      cursor == IF driver = {} THEN t.cursor ELSE Max(driver)
      done == Done(driver)
  IN
  /\ t.pc = "batch"
  /\ stop => ~done /\ t.mode # "recompute"
  /\ roll' = [roll EXCEPT ![t.day] =
                [k \in VariantKeys |-> IF k \in driver /\ priced[k] > 0
                                THEN priced[k] ELSE @[k]]]
  /\ comp' = [comp EXCEPT ![t.day] = [cursor |-> cursor, complete |-> done]]
  /\ walked' = IF done THEN walked \cup {t.day} ELSE walked
  /\ wk' = [wk EXCEPT ![w] =
       IF done THEN IF t.mode = "cadence" THEN [t EXCEPT !.pc = "advance"]
                    ELSE After(t)
       ELSE IF stop THEN Idle
       ELSE [t EXCEPT !.cursor = cursor]]
  /\ UNCHANGED <<today, obs, part, priced, wm, seed, redone, crashes>>

\* Mutant: the cursor moves to the end of the range that was planned.
advance_watermark_ToLast(t) == Max({wm, t.last})

\* GREATEST(last_complete_date, completed_date)
advance_watermark(t) == Max({wm, t.day})

AdvanceStep(w) ==
  LET t == wk[w] IN
  /\ t.pc = "advance"
  /\ wm' = advance_watermark(t)
  /\ wk' = [wk EXCEPT ![w] = After(t)]
  /\ UNCHANGED <<today, obs, part, priced, roll, comp, seed, walked, redone,
                 crashes>>

-----------------------------------------------------------------------------
(* retention_drop                                                          *)

\* part.end <= now - retention: the day after the partition's last one.
partition_eligible(p) ==
  /\ part[p] = "live"
  /\ Max(DaysOf(p)) + 1 <= today - Retention

\* Mutant: the gate of dates alone, some rollup of the day is enough.
KeysCovered_DateOnly(p) ==
  \A d \in DaysOf(p) :
     obs[d] = {} \/ \E k \in obs[d] : roll[d][k] > 0

\* Gate 1: every key observed has its rollup row.
KeysCovered(p) == \A d \in DaysOf(p) : \A k \in obs[d] : roll[d][k] > 0

\* Gate 2: every day of the range has a complete checkpoint.
DaysComplete(p) == \A d \in DaysOf(p) : comp[d].complete

RetentionCheck(w, p) ==
  /\ wk[w].pc = "idle"
  /\ partition_eligible(p)
  /\ KeysCovered(p)
  /\ wk' = [wk EXCEPT ![w] = [Idle EXCEPT !.pc = "drop", !.mode = "retention",
                                          !.day = p]]
  /\ UNCHANGED <<today, obs, part, priced, roll, comp, wm, seed, walked, redone,
                 crashes>>

RetentionDrop(w) ==
  /\ wk[w].pc = "drop"
  /\ part' = IF DaysComplete(wk[w].day)
             THEN [part EXCEPT ![wk[w].day] = "dropped"] ELSE part
  /\ wk' = [wk EXCEPT ![w] = Idle]
  /\ UNCHANGED <<today, obs, priced, roll, comp, wm, seed, walked, redone,
                 crashes>>

\* A worker is killed between two of its transactions.
Crash(w) ==
  /\ wk[w].pc # "idle" /\ crashes < MaxCrashes
  /\ wk' = [wk EXCEPT ![w] = Idle]
  /\ crashes' = crashes + 1
  /\ UNCHANGED <<today, obs, part, priced, roll, comp, wm, seed, walked, redone>>

-----------------------------------------------------------------------------
Cadence(w) == StartCadence(w) \/ EnterDay(w) \/ BatchStep(w, FALSE)
              \/ AdvanceStep(w)

Next ==
  \/ \E k \in VariantKeys : Observe(k)
  \/ \E d \in Days, k \in VariantKeys : Replay(d, k)
  \/ \E k \in VariantKeys : Price(k)
  \/ NextDay
  \/ create_missing_partitions
  \/ \E w \in Workers :
        \/ StartCadence(w)
        \/ \E mode \in {"recompute", "day"}, d, e \in Days :
              StartOperator(w, mode, d, e)
        \/ EnterDay(w)
        \/ \E stop \in BOOLEAN : BatchStep(w, stop)
        \/ AdvanceStep(w)
        \/ \E p \in Parts : RetentionCheck(w, p)
        \/ RetentionDrop(w)
        \/ Crash(w)

Spec == Init /\ [][Next]_vars

\* A worker that has started goes on, and the durable cadence keeps enqueueing
\* the task: its queue is first in, first out, so a worker that other tasks
\* keep leaving free comes to it (strong fairness, not weak).
Fairness == \A w \in Workers : SF_vars(Cadence(w)) /\ WF_vars(RetentionDrop(w))

FairSpec == Spec /\ Fairness

-----------------------------------------------------------------------------
(* Properties                                                              *)

\* A partition of observations is dropped only when every variant observed
\* on one of its days has its daily rollup row: nothing run_retention drops
\* is lost to the history (rollups_cover), whatever the cadence, an
\* operator's recompute and a killed worker did to the day.
DroppedIsRolled ==
  \A p \in Parts : part[p] = "dropped" =>
     \A d \in DaysOf(p) : \A k \in obs[d] : roll[d][k] > 0

\* The cadence never leaves a day behind: every day between the seed and
\* the watermark was walked to its end by some run, across deadlines, kills,
\* overlapping runs and days no run was scheduled on.
WatermarkComplete ==
  \A d \in Days : seed >= 0 /\ d > seed /\ d <= wm => d \in walked

\* The checkpoint of a complete day vouches that every variant observed on
\* it has a rollup row (CompletionRow.complete).
CompleteMeansCovered ==
  \A d \in Days : comp[d].complete => \A k \in obs[d] : roll[d][k] > 0

Owed(d) == seed >= 0 /\ seed < d /\ d < today
Rolled(d) == comp[d].complete

\* Every day past the seed is walked to its end sooner or later, however
\* often runs stop at their deadline, are killed or overlap.
DayRolled ==
  \A d \in Days : Owed(d) ~> Rolled(d)
=============================================================================
