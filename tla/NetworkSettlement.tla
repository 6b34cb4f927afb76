------------------------- MODULE NetworkSettlement -------------------------
(***************************************************************************)
(* What becomes of a closed network operation: it is reconciled with the   *)
(* provider's usage (libs/shared/app_shared/netledger/reconcile.py), rolled *)
(* up into the day's fleet cost rows (netledger/rollups.py), and, for the  *)
(* sub-resources of a browser navigation, summarised and deleted           *)
(* (maintenance/ledger_summaries.py).  The three are tasks of              *)
(* tasks_maintenance.py; any two workers may run any two of them.          *)
(*                                                                         *)
(* Abstractions: a usage window is the set of operations its evidence      *)
(* covers (adjacent windows overlap by the grace); whether the bytes of an *)
(* operation's host agree with the provider's is a choice; a settlement is *)
(* its provenance and its created_at; a fleet row's bucket is the playbook *)
(* version it was computed under, and the row is the set of operations it  *)
(* counts with the settlement version each contributes.  clk orders the    *)
(* timestamps the code compares (created_at, updated_at).                  *)
(***************************************************************************)
EXTENDS Integers, Sequences, FiniteSets, FiniteSetsExt

CONSTANTS
  Navs, Subs,    \* operations: navigations, and sub-resources of them
  NavOf,         \* [Subs -> Navs]: parent_operation_id
  Windows,       \* imported provider exports
  Covers,        \* [Windows -> SUBSET operations]
  LastDay,       \* bound: days
  ChildAge,      \* RETENTION_NETWORK_OPERATION_CHILDREN_DAYS
  Workers,
  MaxBumps,      \* bound: playbook versions promoted
  MaxRuns,       \* bound: reconciliations started
  MaxAborts      \* bound: transactions rolled back

VARIABLES
  day, clk,
  closed,      \* [operation -> day of closed_at, 0 while open]
  gone,        \* sub-resources deleted after summarisation
  summary,     \* [navigation -> sub-resources its summary row counts]
  settled,     \* network_operation_settlements: [operation -> versions]
  imported,    \* windows with provider_usage_records
  ver,         \* domain_playbooks.profile_version
  rows,        \* fleet_network_cost_rollups: [day -> {[ver, op, sv]}]
  rolledAt,    \* [day -> max(updated_at)], 0 if never rolled
  wm,          \* the rollup's watermark: days up to it were rolled
  wk,          \* [worker -> its transaction]
  runs, bumps, aborts

vars == <<day, clk, closed, gone, summary, settled, imported, ver, rows,
          rolledAt, wm, wk, runs, bumps, aborts>>

Operations == Navs \cup Subs
Days == 1..LastDay
SubsOf(p) == {c \in Subs : NavOf[c] = p}
Idle == [pc |-> "idle"]

\* The rows of the ledger that are still there.
Row(o) == closed[o] > 0 /\ o \notin gone

TypeOK ==
  /\ day \in Days
  /\ closed \in [Operations -> 0..LastDay]
  /\ gone \subseteq Subs
  /\ summary \in [Navs -> SUBSET Subs]
  /\ \A o \in Operations : \A i \in DOMAIN settled[o] :
        settled[o][i].prov \in Windows /\ settled[o][i].at \in 1..clk
  /\ imported \subseteq Windows
  /\ \A d \in Days : rows[d] \subseteq
        [ver : 0..MaxBumps, op : Operations, sv : 0..MaxRuns]
  /\ \A d \in Days : rolledAt[d] \in 0..clk
  /\ wm \in 0..LastDay

Init ==
  /\ day = 1 /\ clk = 0
  /\ closed = [o \in Operations |-> 0]
  /\ gone = {} /\ summary = [p \in Navs |-> {}]
  /\ settled = [o \in Operations |-> <<>>]
  /\ imported = {} /\ ver = 0
  /\ rows = [d \in Days |-> {}] /\ rolledAt = [d \in Days |-> 0] /\ wm = 0
  /\ wk = [w \in Workers |-> Idle]
  /\ runs = 0 /\ bumps = 0 /\ aborts = 0

-----------------------------------------------------------------------------
\* The recorder closes an operation.  A sub-resource is flushed after its
\* navigation opened and within ChildAge days of it.
Close(o) ==
  /\ closed[o] = 0
  /\ o \in Subs => closed[NavOf[o]] > 0 /\ day - closed[NavOf[o]] < ChildAge
  /\ closed' = [closed EXCEPT ![o] = day]
  /\ UNCHANGED <<day, clk, gone, summary, settled, imported, ver, rows,
                 rolledAt, wm, wk, runs, bumps, aborts>>

NextDay ==
  /\ day < LastDay /\ day' = day + 1
  /\ UNCHANGED <<clk, closed, gone, summary, settled, imported, ver, rows,
                 rolledAt, wm, wk, runs, bumps, aborts>>

PromotePlaybook ==
  /\ bumps < MaxBumps /\ bumps' = bumps + 1 /\ ver' = ver + 1
  /\ UNCHANGED <<day, clk, closed, gone, summary, settled, imported, rows,
                 rolledAt, wm, wk, runs, aborts>>

\* The same export imported again is recognised by its hash.
import_provider_usage(u) ==
  /\ u \notin imported
  /\ imported' = imported \cup {u}
  /\ UNCHANGED <<day, clk, closed, gone, summary, settled, ver, rows,
                 rolledAt, wm, wk, runs, bumps, aborts>>

-----------------------------------------------------------------------------
(* reconcile_window                                                        *)

\* Mutant: the latest settlement's provenance is not looked at.
Unsettled_Always(o, u) == Len(settled[o]) <= runs \/ u = u

\* The latest settlement does not already come from this window.
Unsettled(o, u) ==
  settled[o] = <<>> \/ settled[o][Len(settled[o])].prov # u

\* What a window's report may settle: any of the operations it covers, for a host's bytes
\* agree within the threshold or they do not.
Matched(u) == SUBSET {o \in Covers[u] : Row(o)}

\* A run reads at one moment: the window's evidence, the operations whose bytes agree with it,
\* and for each of them the version it would append.
ReconcileRead(w, u, agree) ==
  /\ wk[w].pc = "idle" /\ runs < MaxRuns
  /\ u \in imported
  /\ agree \in Matched(u)
  /\ runs' = runs + 1
  /\ clk' = clk + 1
  /\ wk' = [wk EXCEPT ![w] =
       [pc |-> "settle", win |-> u, at |-> clk + 1,
        plan |-> [o \in {x \in agree : Unsettled(x, u)} |->
                    Len(settled[o]) + 1]]]
  /\ UNCHANGED <<day, closed, gone, summary, settled, imported, ver, rows,
                 rolledAt, wm, bumps, aborts>>

\* Mutant: no unique key over (operation_id, settlement_version).
Conflict_None(t) == t.at < 0

\* uq_nos_operation_id_settlement_version
Conflict(t) == \E o \in DOMAIN t.plan : Len(settled[o]) >= t.plan[o]

\* All of the window's settlements, or none of them.
ReconcileCommit(w) ==
  LET t == wk[w] IN
  /\ t.pc = "settle"
  /\ settled' = IF Conflict(t) THEN settled
                ELSE [o \in Operations |->
                        IF o \in DOMAIN t.plan
                        THEN Append(settled[o], [prov |-> t.win, at |-> t.at])
                        ELSE settled[o]]
  /\ wk' = [wk EXCEPT ![w] = Idle]
  /\ UNCHANGED <<day, clk, closed, gone, summary, imported, ver, rows,
                 rolledAt, wm, runs, bumps, aborts>>

-----------------------------------------------------------------------------
(* run_cost_rollup                                                         *)

\* _fetch_day_rows and aggregate_fleet_cost_buckets: the day's operations
\* in the bucket of the current playbook version, each with its latest
\* settlement.
DayBuckets(d) ==
  {[ver |-> ver, op |-> o, sv |-> Len(settled[o])] :
     o \in {x \in Operations : Row(x) /\ closed[x] = d}}

\* Mutant: a day is rolled once.
Late_Never(d) == rolledAt[d] < 0

\* days_with_late_settlements
Late(d) ==
  /\ rolledAt[d] > 0
  /\ \E o \in Operations : Row(o) /\ closed[o] = d
       /\ \E i \in DOMAIN settled[o] : settled[o][i].at > rolledAt[d]

RollRead(w, d, mode) ==
  /\ wk[w].pc = "idle"
  /\ d < day
  /\ \/ mode = "cadence" /\ d = wm + 1
     \/ mode = "reroll" /\ d <= wm /\ Late(d)
  /\ clk' = clk + 1
  /\ wk' = [wk EXCEPT ![w] = [pc |-> "roll", mode |-> mode, d |-> d,
                              at |-> clk + 1, buckets |-> DayBuckets(d)]]
  /\ UNCHANGED <<day, closed, gone, summary, settled, imported, ver, rows,
                 rolledAt, wm, runs, bumps, aborts>>

\* The upserts overwrite the buckets they name and leave the others; the
\* watermark moves with a day of the cadence.
RollCommit(w) ==
  LET t == wk[w]
      named == {b.ver : b \in t.buckets}
  IN
  /\ t.pc = "roll"
  /\ rows' = [rows EXCEPT ![t.d] = {b \in @ : b.ver \notin named} \cup t.buckets]
  /\ rolledAt' = [rolledAt EXCEPT ![t.d] =
                    IF t.buckets = {} THEN @ ELSE Max({@, t.at})]
  /\ wm' = IF t.mode = "cadence" THEN Max({wm, t.d}) ELSE wm
  /\ wk' = [wk EXCEPT ![w] = Idle]
  /\ UNCHANGED <<day, clk, closed, gone, summary, settled, imported, ver, runs,
                 bumps, aborts>>

-----------------------------------------------------------------------------
(* run_ledger_child_summarization                                          *)

\* Mutant: the age of the navigation is not a condition.
Eligible_AnyAge(p) ==
  closed[p] > 0 /\ settled[p] # <<>> /\ summary[p] = {}

\* _eligible_parents_stmt
Eligible(p) ==
  /\ closed[p] > 0 /\ day - closed[p] >= ChildAge
  /\ settled[p] # <<>>
  /\ summary[p] = {}

SummaryRead(w, p) ==
  /\ wk[w].pc = "idle" /\ Eligible(p)
  /\ {c \in SubsOf(p) : Row(c)} # {}
  /\ wk' = [wk EXCEPT ![w] = [pc |-> "summary", nav |-> p,
                              counted |-> {c \in SubsOf(p) : Row(c)}]]
  /\ UNCHANGED <<day, clk, closed, gone, summary, settled, imported, ver, rows,
                 rolledAt, wm, runs, bumps, aborts>>

\* INSERT ... ON CONFLICT DO NOTHING, then DELETE of every child there is.
SummaryCommit(w) ==
  LET t == wk[w] IN
  /\ t.pc = "summary"
  /\ summary' = [summary EXCEPT ![t.nav] = IF @ = {} THEN t.counted ELSE @]
  /\ gone' = gone \cup {c \in SubsOf(t.nav) : Row(c)}
  /\ wk' = [wk EXCEPT ![w] = Idle]
  /\ UNCHANGED <<day, clk, closed, settled, imported, ver, rows, rolledAt, wm,
                 runs, bumps, aborts>>

\* A transaction rolls back: its worker is killed or the database fails.
Abort(w) ==
  /\ wk[w].pc # "idle" /\ aborts < MaxAborts
  /\ aborts' = aborts + 1
  /\ wk' = [wk EXCEPT ![w] = Idle]
  /\ UNCHANGED <<day, clk, closed, gone, summary, settled, imported, ver, rows,
                 rolledAt, wm, runs, bumps>>

-----------------------------------------------------------------------------
Commit(w) == ReconcileCommit(w) \/ RollCommit(w) \/ SummaryCommit(w)
Roll(w) == \E d \in Days, mode \in {"cadence", "reroll"} : RollRead(w, d, mode)

Next ==
  \/ \E o \in Operations : Close(o)
  \/ NextDay \/ PromotePlaybook
  \/ \E u \in Windows : import_provider_usage(u)
  \/ \E w \in Workers :
        \/ \E u \in Windows : \E agree \in SUBSET Covers[u] :
              ReconcileRead(w, u, agree)
        \/ ReconcileCommit(w)
        \/ Roll(w)
        \/ RollCommit(w)
        \/ \E p \in Navs : SummaryRead(w, p)
        \/ SummaryCommit(w)
        \/ Abort(w)

Spec == Init /\ [][Next]_vars

\* Transactions end, and the cadence keeps running the rollup.
Fairness == \A w \in Workers : WF_vars(Commit(w)) /\ WF_vars(Roll(w))
FairSpec == Spec /\ Fairness

-----------------------------------------------------------------------------
(* Properties                                                              *)

\* A new settlement version means new information: two successive versions
\* of an operation never come from the same window, however often and by
\* however many workers it is reconciled (reconcile.py, "Idempotent
\* reconciliation").
ProvenanceFresh ==
  \A o \in Operations : \A i \in 1..(Len(settled[o]) - 1) :
     settled[o][i].prov # settled[o][i + 1].prov

\* Every sub-resource deleted from the ledger is counted by the summary of
\* its navigation: the aggregate and the delete are two statements, and a
\* flush may add a child between them.
DeletedIsSummed == \A c \in gone : c \in summary[NavOf[c]]

SettledLate(o, d) ==
  /\ closed[o] = d /\ d <= wm /\ rolledAt[d] > 0
  /\ \A w \in Workers : wk[w].pc # "roll"
  /\ \E i \in DOMAIN settled[o] : settled[o][i].at > rolledAt[d]
Rerolled(o, d) == o \in gone \/ \E b \in rows[d] : b.op = o /\ b.sv > 0

\* A settlement written after its day was rolled, and while no rollup is
\* under way, is in the day's rows sooner or later.
LateIsRerolled ==
  \A o \in Operations, d \in Days :
     SettledLate(o, d) ~> Rerolled(o, d)

\* Reconciling a window again appends nothing: "a retried or
\* doubly-scheduled run costs nothing extra".
SettledOncePerWindow ==
  \A o \in Operations : \A i, j \in DOMAIN settled[o] :
     i # j => settled[o][i].prov # settled[o][j].prov

\* "a window reconciled late is always re-rolled": every settled operation
\* is reconciled in its day's rows sooner or later.
SettlementIsRolled ==
  \A o \in Operations, d \in Days :
     (closed[o] = d /\ d <= wm /\ settled[o] # <<>>)
        ~> (o \in gone \/ \E b \in rows[d] : b.op = o /\ b.sv > 0)

\* No operation is counted by two rows of a day.
CountedInOneRow ==
  \A d \in Days : \A a, b \in rows[d] : a.op = b.op => a.ver = b.ver
=============================================================================
