--------------------------- MODULE Entitlements ---------------------------
(***************************************************************************)
(* The entitlement row of one workspace and its three writers: the billing *)
(* system's replication (control_plane/service.py), the operator's seed    *)
(* and brake, and the periodic refresh of seeded rows                      *)
(* (costauth/entitlements.py).  Cost authorization reads it and fails      *)
(* closed.  A request reads the row, decides, and its session writes the   *)
(* columns it changed when it commits, without a lock and without a        *)
(* version check: Read and Commit are two steps.                           *)
(***************************************************************************)
EXTENDS Integers, FiniteSets

CONSTANTS Requests,
          MaxEvidenceAge, \* entitlement_max_evidence_age_seconds, in ticks
          RefreshEvery,   \* the cadence of entitlement_refresh, in ticks
          MaxVersion, MaxClock, MaxRequests

VARIABLES row, saas, req, clock, refreshed, requests, seen, braked, raced

vars == <<row, saas, req, clock, refreshed, requests, seen, braked, raced>>

\* The billing vocabulary and the state each status becomes; two of them become one.
SAAS_STATUS_TO_ENGINE_STATE ==
    [ACTIVE |-> "ACTIVE", DELINQUENT |-> "PAST_DUE", PAUSED |-> "SUSPENDED",
     KILLED |-> "SUSPENDED", CANCELED |-> "CANCELLED"]

NoRow == [state |-> "none", version |-> 0, observed |-> 0]
Idle == [phase |-> "idle"]

\* A seeded version names the day it was written; a replicated one is a positive number.
seeded_evidence_version(day) == -(day + 1)
is_seeded_evidence_version(v) == v < 0
stored_evidence_version(r) == IF is_seeded_evidence_version(r.version) THEN 0 ELSE r.version

\* Mutant: an ACTIVE row is good however old it is.
_check_entitlement_AnyAge(r) == r # NoRow /\ r.state = "ACTIVE"

_check_entitlement(r) ==
    r # NoRow /\ clock - r.observed <= MaxEvidenceAge /\ r.state = "ACTIVE"

\* Mutant: the version alone orders two statements, a replay of an old refresh included.
Fresh_VersionOnly(r, p) == r = NoRow \/ p.version >= stored_evidence_version(r)

\* An older version, or the same one stated no later, is ignored.
Fresh(r, p) ==
    \/ r = NoRow
    \/ p.version > stored_evidence_version(r)
    \/ p.version = stored_evidence_version(r) /\ p.as_of > r.observed

replicate_entitlement(r, p) ==
    IF ~Fresh(r, p) THEN r
    ELSE [state |-> SAAS_STATUS_TO_ENGINE_STATE[p.status], version |-> p.version, observed |-> p.as_of]

quarantine_entitlement(r) == [r EXCEPT !.state = "SUSPENDED"]

\* Mutant: the seed stamps every row it finds.
seed_workspace_entitlements_All(r, now) ==
    [state |-> "ACTIVE", version |-> seeded_evidence_version(now), observed |-> now]

\* A missing row and a seeded one are seeded; evidence of another origin is left alone.
seed_workspace_entitlements(r, now) ==
    IF r = NoRow \/ is_seeded_evidence_version(r.version)
    THEN [state |-> "ACTIVE", version |-> seeded_evidence_version(now), observed |-> now]
    ELSE r

\* What the session would write for the row it read.
Wanted(q) ==
    CASE q.kind = "replicate"  -> replicate_entitlement(q.snap, q.pay)
      [] q.kind = "quarantine" -> IF q.snap = NoRow THEN NoRow ELSE quarantine_entitlement(q.snap)
      [] q.kind = "seed"       -> seed_workspace_entitlements(q.snap, q.at)

\* The UPDATE names the columns that differ from the ones read.
Merged(q) ==
    [f \in DOMAIN row |-> IF Wanted(q)[f] # q.snap[f] THEN Wanted(q)[f] ELSE row[f]]

Init ==
    /\ row = NoRow /\ saas = [version |-> 1, status |-> "ACTIVE"]
    /\ req = [p \in Requests |-> Idle]
    /\ clock = 0 /\ refreshed = 0 /\ requests = 0
    /\ seen = {} /\ braked = FALSE /\ raced = FALSE

\* The billing system's desired state changes; every change has its own version.
SaasChange(s) ==
    /\ saas.version < MaxVersion /\ s # saas.status
    /\ saas' = [version |-> saas.version + 1, status |-> s]
    /\ UNCHANGED <<row, req, clock, refreshed, requests, seen, braked, raced>>

\* A statement of the current state is sent; it arrives whenever it arrives.
Send(p) ==
    /\ req[p] = Idle /\ requests < MaxRequests
    /\ req' = [req EXCEPT ![p] = [phase |-> "sent", kind |-> "replicate",
                                  pay |-> [version |-> saas.version, status |-> saas.status, as_of |-> clock]]]
    /\ requests' = requests + 1
    /\ UNCHANGED <<row, saas, clock, refreshed, seen, braked, raced>>

\* The PUT is handled: the row is read.
Receive(p) ==
    /\ req[p].phase = "sent"
    /\ req' = [req EXCEPT ![p] = [phase |-> "read", kind |-> "replicate", snap |-> row, pay |-> req[p].pay]]
    /\ UNCHANGED <<row, saas, clock, refreshed, requests, seen, braked, raced>>

\* The operator's brake, and the operator's seed, read it too.
quarantine_entity(p) ==
    /\ req[p] = Idle /\ requests < MaxRequests /\ row # NoRow
    /\ req' = [req EXCEPT ![p] = [phase |-> "read", kind |-> "quarantine", snap |-> row]]
    /\ requests' = requests + 1
    /\ UNCHANGED <<row, saas, clock, refreshed, seen, braked, raced>>

run_seed(p) ==
    /\ req[p] = Idle /\ requests < MaxRequests
    /\ req' = [req EXCEPT ![p] = [phase |-> "read", kind |-> "seed", snap |-> row, at |-> clock]]
    /\ requests' = requests + 1
    /\ UNCHANGED <<row, saas, clock, refreshed, seen, braked, raced>>

\* The session commits: an insert that meets a row fails, an update writes its columns.
Commit(p) ==
    LET q == req[p]
        lost == q.snap = NoRow /\ row # NoRow
    IN  /\ q.phase = "read"
        /\ req' = [req EXCEPT ![p] = Idle]
        /\ row' = IF lost THEN row ELSE Merged(q)
        /\ raced' = (raced \/ row # q.snap)
        /\ seen' = IF q.kind = "replicate" /\ ~lost THEN seen \cup {q.pay} ELSE seen
        /\ braked' = IF q.kind = "quarantine" THEN TRUE
                     ELSE IF Wanted(q) # q.snap THEN FALSE ELSE braked
        /\ UNCHANGED <<saas, clock, refreshed, requests>>

\* Mutant: a suspended placeholder is not kept fresh.
refresh_seeded_entitlements_Active(r) ==
    IF is_seeded_evidence_version(r.version) /\ r.state = "ACTIVE" THEN [r EXCEPT !.observed = clock] ELSE r

\* One UPDATE on the prefix of the version.
refresh_seeded_entitlements(r) ==
    IF is_seeded_evidence_version(r.version) THEN [r EXCEPT !.observed = clock] ELSE r

entitlement_refresh ==
    /\ row' = refresh_seeded_entitlements(row) /\ refreshed' = clock
    /\ UNCHANGED <<saas, req, clock, requests, seen, braked, raced>>

\* Time passes, in hours: no transaction lasts one, and the refresh is never later than its cadence.
Tick ==
    /\ \A p \in Requests : req[p].phase # "read"
    /\ clock < MaxClock /\ clock < refreshed + RefreshEvery
    /\ clock' = clock + 1
    /\ UNCHANGED <<row, saas, req, refreshed, requests, seen, braked, raced>>

Next ==
    \/ \E s \in DOMAIN SAAS_STATUS_TO_ENGINE_STATE : SaasChange(s)
    \/ \E p \in Requests : Send(p) \/ Receive(p) \/ quarantine_entity(p) \/ run_seed(p) \/ Commit(p)
    \/ entitlement_refresh
    \/ Tick

Spec == Init /\ [][Next]_vars

----------------------------------------------------------------------------
Precedes(a, b) == a.version < b.version \/ (a.version = b.version /\ a.as_of <= b.as_of)
Newest == CHOOSE m \in seen : \A n \in seen : Precedes(n, m)

\* Unless two requests overlapped, the row carries the newest statement handled, whatever order
\* the statements came in and whatever the seed did since; only the brake changes its state.
NewestRules ==
    raced \/ seen = {}
    \/ /\ row.version = Newest.version /\ row.observed = Newest.as_of
       /\ row.state = (IF braked THEN "SUSPENDED" ELSE SAAS_STATUS_TO_ENGINE_STATE[Newest.status])

\* A placeholder never ages out, suspended or not: until billing evidence replaces it the refresh
\* keeps it inside the age the gate accepts.
PlaceholderFresh ==
    ~raced /\ is_seeded_evidence_version(row.version) => clock - row.observed <= MaxEvidenceAge

\* Paid work passes the gate only on a seed, or on a statement the billing system made with
\* status ACTIVE no longer ago than the evidence may be old.
GateBacked ==
    _check_entitlement(row) /\ ~raced =>
        \/ is_seeded_evidence_version(row.version)
        \/ \E m \in seen : m.status = "ACTIVE" /\ clock - m.as_of <= MaxEvidenceAge
                           /\ \A n \in seen : n.version <= m.version

\* replicate_entitlement's comment: an out-of-order redelivery can never roll a tenant back.
NeverRolledBack ==
    [][row # NoRow => stored_evidence_version(row') >= stored_evidence_version(row)]_vars
=============================================================================
