--------------------------- MODULE ControlPlane ---------------------------
(***************************************************************************)
(* The rules a billing system declares for one workspace and the refresh   *)
(* rules the scheduler runs (control_plane/service.py): a MONITOR rule     *)
(* drives a workspace-wide refresh rule, its own or one it adopts; a       *)
(* REPRICE rule is only stored.  The tenant's own refresh-rule endpoints   *)
(* and the scheduler's firings change the same rows.  A request is one     *)
(* transaction here; `driver' remembers which declared rule wrote a        *)
(* refresh rule last.                                                      *)
(***************************************************************************)
EXTENDS Integers, FiniteSets

CONSTANTS Externals,   \* the billing system's rule ids
          Rules,       \* ids of refresh rules
          Cadences,    \* CADENCE_INTERVAL_MINUTES, in ticks
          Tags, NoTag, \* owner tags
          Nobody,
          MaxClock, MaxCalls

VARIABLES intent, sched, driver, clock, calls

vars == <<intent, sched, driver, clock, calls>>

NoIntent == [kind |-> "none"]
NoRule == [live |-> FALSE, enabled |-> FALSE, cron |-> FALSE, every |-> 0, next |-> 0]
Declared == {e \in Externals : intent[e] # NoIntent}
Sweeps == {r \in Rules : sched[r].live /\ sched[r].enabled}
Linked(e) == intent[e] # NoIntent /\ intent[e].link # Nobody

\* A cron expression here matches every tick.
compute_next_run_at(rule) == clock + (IF rule.cron THEN 1 ELSE rule.every)

\* Mutant: a quarantined rule runs again as soon as it is declared enabled.
Runs_Enabled(row) == row.enabled

Runs(row) == row.enabled /\ ~row.quarantined

\* Mutant: the next run stays where the old cadence put it.
_apply_cadence_NextKept(rule, row) ==
    [rule EXCEPT !.enabled = Runs(row), !.every = IF rule.cron THEN @ ELSE row.cadence]

\* A cron rule keeps its cron; its switch and its next run are driven all the same.
_apply_cadence(rule, row) ==
    LET timed == [rule EXCEPT !.enabled = Runs(row),
                              !.every = IF rule.cron THEN @ ELSE row.cadence]
    IN  [timed EXCEPT !.next = compute_next_run_at(timed)]

\* The refresh rule a MONITOR row drives: its link, any enabled sweep, or a new rule.
_adopt_or_create_refresh_rule(row) ==
    IF row.link # Nobody THEN {row.link}
    ELSE IF Sweeps # {} THEN Sweeps
    ELSE {r \in Rules : ~sched[r].live}

Init ==
    /\ intent = [e \in Externals |-> NoIntent]
    /\ sched = [r \in Rules |-> NoRule]
    /\ driver = [r \in Rules |-> Nobody]
    /\ clock = 0 /\ calls = 0

Call == calls < MaxCalls /\ calls' = calls + 1

\* POST and PUT of a rule: the row is written; a MONITOR rule drives its refresh rule.
upsert_rule(e, kind, cadence, enabled, tag) ==
    LET old == intent[e]
        row == [kind |-> kind, cadence |-> cadence, enabled |-> enabled,
                tag |-> IF tag # NoTag THEN tag ELSE IF old = NoIntent THEN NoTag ELSE old.tag,
                quarantined |-> old # NoIntent /\ old.quarantined,
                link |-> IF old = NoIntent THEN Nobody ELSE old.link]
    IN  /\ Call
        /\ \/ /\ kind = "MONITOR"
              /\ \E r \in _adopt_or_create_refresh_rule(row) :
                     LET base == IF sched[r].live THEN sched[r]
                                 ELSE [NoRule EXCEPT !.live = TRUE, !.every = cadence]
                     IN  /\ intent' = [intent EXCEPT ![e] = [row EXCEPT !.link = r]]
                         /\ sched' = [sched EXCEPT ![r] = _apply_cadence(base, row)]
                         /\ driver' = [driver EXCEPT ![r] = e]
           \/ /\ kind = "REPRICE"
              /\ intent' = [intent EXCEPT ![e] = row]
              /\ UNCHANGED <<sched, driver>>
        /\ UNCHANGED clock

Stopped(e) ==
    IF Linked(e) THEN [sched EXCEPT ![intent[e].link].enabled = FALSE] ELSE sched

Drove(e) == IF Linked(e) THEN [driver EXCEPT ![intent[e].link] = e] ELSE driver

\* A proof of ownership that names another owner is refused; no proof is accepted.
Owns(e, proof) == intent[e].tag = NoTag \/ proof = NoTag \/ proof = intent[e].tag

\* Mutant: the rule is marked and what it drives goes on.
quarantine_rule_MarkOnly(e, proof) ==
    /\ Call /\ e \in Declared /\ Owns(e, proof)
    /\ intent' = [intent EXCEPT ![e].quarantined = TRUE]
    /\ driver' = Drove(e) /\ UNCHANGED <<clock, sched>>

quarantine_rule(e, proof) ==
    /\ Call /\ e \in Declared /\ Owns(e, proof)
    /\ intent' = [intent EXCEPT ![e].quarantined = TRUE]
    /\ sched' = Stopped(e) /\ driver' = Drove(e) /\ UNCHANGED clock

\* Mutant: the row goes, its refresh rule keeps sweeping.
delete_rule_Forgets(e) ==
    /\ Call /\ e \in Declared
    /\ intent' = [intent EXCEPT ![e] = NoIntent]
    /\ driver' = Drove(e) /\ UNCHANGED <<clock, sched>>

\* The declared rule is deleted, its refresh rule only switched off.
delete_rule(e) ==
    /\ Call /\ e \in Declared
    /\ intent' = [intent EXCEPT ![e] = NoIntent]
    /\ sched' = Stopped(e) /\ driver' = Drove(e) /\ UNCHANGED clock

\* The tenant's endpoints: create, switch and delete a refresh rule of its own accord.
create_refresh_rule(r, cron, every) ==
    /\ Call /\ ~sched[r].live
    /\ sched' = [sched EXCEPT ![r] = [live |-> TRUE, enabled |-> TRUE, cron |-> cron, every |-> every,
                                      next |-> clock + (IF cron THEN 1 ELSE every)]]
    /\ driver' = [driver EXCEPT ![r] = Nobody]
    /\ UNCHANGED <<intent, clock>>

\* A switch leaves the next run where it is; a new cadence computes it again.
update_refresh_rule(r, enabled, every) ==
    LET patched == [sched[r] EXCEPT !.enabled = enabled, !.every = every]
    IN  /\ Call /\ sched[r].live /\ patched # sched[r] /\ (sched[r].cron => every = sched[r].every)
        /\ sched' = [sched EXCEPT ![r] = IF every = sched[r].every THEN patched
                                         ELSE [patched EXCEPT !.next = compute_next_run_at(patched)]]
        /\ driver' = [driver EXCEPT ![r] = Nobody]
        /\ UNCHANGED <<intent, clock>>

\* The link of a declared rule is ON DELETE SET NULL.
delete_refresh_rule(r) ==
    /\ Call /\ sched[r].live
    /\ sched' = [sched EXCEPT ![r] = NoRule]
    /\ driver' = [driver EXCEPT ![r] = Nobody]
    /\ intent' = [e \in Externals |-> IF intent[e] # NoIntent /\ intent[e].link = r
                                      THEN [intent[e] EXCEPT !.link = Nobody] ELSE intent[e]]
    /\ UNCHANGED clock

\* The scheduler fires a due rule, and is never a tick late.
Fire(r) ==
    /\ sched[r].live /\ sched[r].enabled /\ sched[r].next <= clock
    /\ sched' = [sched EXCEPT ![r].next = compute_next_run_at(sched[r])]
    /\ UNCHANGED <<intent, driver, clock, calls>>

Tick ==
    /\ clock < MaxClock /\ \A r \in Sweeps : sched[r].next > clock
    /\ clock' = clock + 1
    /\ UNCHANGED <<intent, sched, driver, calls>>

Next ==
    \/ \E e \in Externals, k \in {"MONITOR", "REPRICE"}, c \in Cadences, b \in BOOLEAN, t \in Tags \cup {NoTag} :
           upsert_rule(e, k, c, b, t)
    \/ \E e \in Externals, t \in Tags \cup {NoTag} : quarantine_rule(e, t)
    \/ \E e \in Externals : delete_rule(e)
    \/ \E r \in Rules, b \in BOOLEAN, c \in Cadences : create_refresh_rule(r, b, c)
    \/ \E r \in Rules, b \in BOOLEAN, c \in Cadences : update_refresh_rule(r, b, c)
    \/ \E r \in Rules : delete_refresh_rule(r) \/ Fire(r)
    \/ Tick

Spec == Init /\ [][Next]_vars

----------------------------------------------------------------------------
Drives(e, r) == driver[r] = e /\ sched[r].live

\* A sweep that a MONITOR rule wrote last runs exactly when that rule is enabled and not
\* quarantined, on the cadence it declares unless a cron expression keeps its own.
DrivenAsDeclared ==
    \A e \in Externals, r \in Rules :
        Drives(e, r) /\ intent[e] # NoIntent /\ intent[e].kind = "MONITOR" /\ intent[e].link = r =>
            /\ sched[r].enabled = (intent[e].enabled /\ ~intent[e].quarantined)
            /\ sched[r].enabled => sched[r].cron \/ sched[r].every = intent[e].cadence

\* A rule that is gone or quarantined leaves no sweep behind, whatever kind it has become, until
\* another rule or the tenant takes the refresh rule over.
NoOrphanSweep ==
    \A e \in Externals, r \in Rules :
        Drives(e, r) /\ sched[r].enabled => intent[e] # NoIntent /\ ~intent[e].quarantined

\* A running sweep is never parked beyond one of its own periods, whoever changed its cadence or
\* switched it off and on again.
NextWithinCadence ==
    \A r \in Sweeps : sched[r].next <= clock + (IF sched[r].cron THEN 1 ELSE sched[r].every)

\* quarantine_rule's comment: "Reversible by a later upsert."
QuarantineReversible ==
    [][\A e \in Externals :
          intent[e] # NoIntent /\ ~intent[e].enabled /\ intent'[e] # NoIntent /\ intent'[e].enabled
            => ~intent'[e].quarantined]_vars

\* The module's third point: a monitor rule adopts a sweep rather than adding a second one.
OneSweep ==
    [][\A r \in Rules : r \notin Sweeps /\ r \in Sweeps' /\ driver'[r] # Nobody => Sweeps = {}]_vars

\* upsert_rule's comment: REPRICE schedules nothing.
RepriceSweepsNothing ==
    \A e \in Externals, r \in Rules :
        Drives(e, r) /\ sched[r].enabled => intent[e] # NoIntent /\ intent[e].kind = "MONITOR"
=============================================================================
