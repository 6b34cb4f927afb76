--------------------------- MODULE DomainLifecycle ---------------------------
(***************************************************************************)
(* The certification state of one competitor domain: operators and         *)
(* automatic demotions move it (domains/lifecycle.py, transition, under    *)
(* scripts/domain_lifecycle.py), every process reads it through a cache    *)
(* (domains/state_lookup.py) and cost authorization grants paid work by it *)
(* (costauth/service.py, _check_domain).  transition reads the row without *)
(* a lock and writes state and version when its session commits.           *)
(***************************************************************************)
EXTENDS Integers, Sequences, FiniteSets

CONSTANTS Operators, Processes,
          CacheSeconds,   \* DEFAULT_CACHE_SECONDS, in ticks
          MaxClock, MaxMoves

VARIABLES playbook, audit, move, cache, clock, moves, since, granted, raced

vars == <<playbook, audit, move, cache, clock, moves, since, granted, raced>>

DomainStates == {"UNKNOWN", "DIRECT_CANARY", "PROFILE_CANARY", "ACTIVE", "DEGRADED",
                 "QUARANTINED", "UNSUPPORTED"}
CANARY_STATES == {"DIRECT_CANARY", "PROFILE_CANARY"}
Purposes == {"DISCOVERY_DIRECT", "SCRAPE", "BROWSER_ESCALATION"}
NoMove == [to |-> "none"]
NoEntry == [state |-> "none", at |-> 0]

ALLOWED_TRANSITIONS ==
    [UNKNOWN        |-> {"DIRECT_CANARY", "UNSUPPORTED", "QUARANTINED"},
     DIRECT_CANARY  |-> {"PROFILE_CANARY", "UNSUPPORTED", "QUARANTINED", "UNKNOWN"},
     PROFILE_CANARY |-> {"ACTIVE", "DIRECT_CANARY", "UNSUPPORTED", "QUARANTINED"},
     ACTIVE         |-> {"DEGRADED", "QUARANTINED", "UNSUPPORTED"},
     DEGRADED       |-> {"ACTIVE", "PROFILE_CANARY", "QUARANTINED", "UNSUPPORTED"},
     QUARANTINED    |-> {"UNKNOWN", "UNSUPPORTED"},
     UNSUPPORTED    |-> {"UNKNOWN"}]

(* The gates a state opens, as the set of their names.                     *)
authorization_rules_for_state(s) ==
    IF s \in {"QUARANTINED", "UNSUPPORTED"} THEN {}
    ELSE {"paid"} \cup (IF s # "UNKNOWN" THEN {"broad_crawl"} ELSE {})
                  \cup (IF s \notin {"UNKNOWN", "DEGRADED"} THEN {"expensive_escalation"} ELSE {})

capabilities_granted(from, to) ==
    authorization_rules_for_state(to) \ authorization_rules_for_state(from)

\* Mutant: the capabilities alone decide, the certification edge is free.
approval_required_TableOnly(from, to) == capabilities_granted(from, to) # {}

approval_required(from, to) == to = "ACTIVE" \/ capabilities_granted(from, to) # {}

_required_domain_gate(purpose) ==
    CASE purpose = "BROWSER_ESCALATION" -> "expensive_escalation"
      [] purpose = "DISCOVERY_DIRECT" -> "paid"
      [] purpose = "SCRAPE" -> "broad_crawl"

(* The gates are nested: the later ones are refused with the earlier.      *)
Permits(state, purpose) ==
    LET rules == authorization_rules_for_state(state)
        gate == _required_domain_gate(purpose)
    IN  /\ "paid" \in rules
        /\ gate # "paid" => "broad_crawl" \in rules
        /\ gate = "expensive_escalation" => "expensive_escalation" \in rules

Init ==
    /\ playbook = [state |-> "UNKNOWN", version |-> 1, canaried |-> FALSE]
    /\ audit = <<>>
    /\ move = [o \in Operators |-> NoMove]
    /\ cache = [p \in Processes |-> NoEntry]
    /\ clock = 0 /\ moves = 0 /\ since = 0 /\ granted = {} /\ raced = FALSE

Tick ==
    /\ clock < MaxClock /\ clock' = clock + 1 /\ granted' = {}
    /\ UNCHANGED <<playbook, audit, move, cache, moves, since, raced>>

(* The guards of transition, on the row as it was read.                    *)
transition(o) ==
    /\ move[o] = NoMove /\ moves < MaxMoves /\ moves' = moves + 1
    /\ \E to \in ALLOWED_TRANSITIONS[playbook.state], approver \in BOOLEAN :
         /\ approval_required(playbook.state, to) => approver
         /\ move' = [move EXCEPT ![o] = [to |-> to, from |-> playbook.state,
                                         version |-> playbook.version, approver |-> approver]]
    /\ UNCHANGED <<playbook, audit, cache, clock, since, granted, raced>>

\* Mutant: a move into a canary state does not stamp the canary.
Moved_NoStamp(m) ==
    [state |-> m.to, version |-> m.version + 1, canaried |-> playbook.canaried]

\* Mutant: the audit row is written and the playbook's state is not.
Moved_SameState(m) ==
    [state |-> playbook.state, version |-> m.version + 1,
     canaried |-> playbook.canaried \/ m.to \in CANARY_STATES]

(* What the session writes: the values computed from what it has read.     *)
Moved(m) ==
    [state |-> m.to, version |-> m.version + 1,
     canaried |-> playbook.canaried \/ m.to \in CANARY_STATES]

(* cmd_transition commits, unless it is a dry run.                         *)
cmd_transition(o) ==
    /\ move[o] # NoMove
    /\ playbook' = Moved(move[o])
    /\ audit' = Append(audit, [from |-> move[o].from, to |-> move[o].to,
                               approver |-> move[o].approver, version |-> move[o].version + 1,
                               was |-> playbook.state])
    /\ raced' = (raced \/ playbook.version # move[o].version)
    /\ move' = [move EXCEPT ![o] = NoMove]
    /\ since' = clock
    /\ UNCHANGED <<cache, clock, moves, granted>>

DryRun(o) ==
    /\ move[o] # NoMove /\ move' = [move EXCEPT ![o] = NoMove]
    /\ UNCHANGED <<playbook, audit, cache, clock, moves, since, granted, raced>>

\* Mutant: an entry that is used is taken as fetched again.
Cached_Renewed(p) ==
    IF cache[p] # NoEntry THEN [state |-> cache[p].state, at |-> clock]
    ELSE [state |-> playbook.state, at |-> clock]

(* A cached state younger than the limit, else the committed one.          *)
Cached(p) ==
    IF cache[p] # NoEntry /\ clock - cache[p].at < CacheSeconds THEN cache[p]
    ELSE [state |-> playbook.state, at |-> clock]

get_domain_state(p) == Cached(p).state

(* A process authorizes one piece of paid work.                            *)
_check_domain(p, purpose) ==
    /\ Permits(get_domain_state(p), purpose)
    /\ cache' = [cache EXCEPT ![p] = Cached(p)]
    /\ granted' = granted \cup {<<p, purpose>>}
    /\ UNCHANGED <<playbook, audit, move, clock, moves, since, raced>>

Denied(p, purpose) ==
    /\ ~ Permits(get_domain_state(p), purpose)
    /\ cache' = [cache EXCEPT ![p] = Cached(p)]
    /\ UNCHANGED <<playbook, audit, move, clock, moves, since, granted, raced>>

Restart(p) ==
    /\ cache[p] # NoEntry /\ cache' = [cache EXCEPT ![p] = NoEntry]
    /\ UNCHANGED <<playbook, audit, move, clock, moves, since, granted, raced>>

Next ==
    \/ Tick
    \/ \E o \in Operators : transition(o) \/ cmd_transition(o) \/ DryRun(o)
    \/ \E p \in Processes : Restart(p) \/ \E u \in Purposes : _check_domain(p, u) \/ Denied(p, u)

Spec == Init /\ [][Next]_vars

(***************************************************************************)
(* Properties                                                              *)
(***************************************************************************)
(* However operators race, a domain that is certified was certified by a   *)
(* recorded human: the last audit row that led to ACTIVE has an approver.  *)
ActiveApproved ==
    playbook.state = "ACTIVE" => audit # <<>> /\ audit[Len(audit)].approver

(* No order of moves, racing ones included, certifies or degrades a domain *)
(* that never entered a canary state.                                      *)
CanariedBeforeActive == playbook.state \in {"ACTIVE", "DEGRADED"} => playbook.canaried

(* Once a state has been committed for the cache's lifetime, no process    *)
(* grants work the state refuses, whatever it has cached before.           *)
RefusalReachesAll ==
    clock - since >= CacheSeconds =>
      \A g \in granted : Permits(playbook.state, g[2])

(* Without racing moves the audit trail is a chain of allowed edges, from  *)
(* the first state to the present one, and counts the versions.            *)
AuditIsChain ==
    raced \/
      /\ \A i \in DOMAIN audit :
           /\ audit[i].from = IF i = 1 THEN "UNKNOWN" ELSE audit[i - 1].to
           /\ audit[i].to \in ALLOWED_TRANSITIONS[audit[i].from]
           /\ audit[i].version = i + 1
      /\ audit # <<>> => audit[Len(audit)].to = playbook.state

(* lifecycle.py: "requires a recorded human approver for every             *)
(* capability-granting edge"; what the commit grants is measured from the  *)
(* state it replaces.                                                      *)
GrantsApproved ==
    \A i \in DOMAIN audit :
      capabilities_granted(audit[i].was, audit[i].to) # {} => audit[i].approver
=============================================================================
