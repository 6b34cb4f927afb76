------------------------------ MODULE Accounts ------------------------------
(***************************************************************************)
(* Workspaces, their API keys and the sessions of their users: the         *)
(* provisioning surface of the SaaS (routers/admin.py), key management     *)
(* (routers/api_keys.py), the authentication of a request against the      *)
(* cached status of its workspace (deps.py, security/status_cache.py) and  *)
(* the rotation of refresh tokens (routers/auth.py, security/tokens.py).   *)
(* A dependency with yield commits after the answer has been sent, as the  *)
(* FastAPI version in uv.lock does, so an answer may precede its commit    *)
(* and a commit may fail behind it.                                        *)
(***************************************************************************)
EXTENDS Integers, FiniteSets

CONSTANTS Calls,         \* provisioning calls for one external_ref, retries among them
          Spaces, Legacy, \* workspaces; the one that predates external_ref
          Keys, LegacyKey,
          Clients,       \* requests that authenticate, one after another each
          Tokens, First, \* refresh tokens of one login
          None, STATUS_CACHE_TTL, MaxDown, MaxFails, MaxTurns

VARIABLES ws, key, call, known, cache, redis, auth, downFor, lateBy, blind, token, parent, turn, fails, turns

vars == <<ws, key, call, known, cache, redis, auth, downFor, lateBy, blind, token, parent, turn, fails, turns>>
accounts == <<ws, key, call, known>>
requests == <<cache, redis, auth, downFor, lateBy, blind>>
sessions == <<token, parent, turn>>
bounds == <<fails, turns>>

Fail == fails < MaxFails /\ fails' = fails + 1

\* A workspace from before external_ref has a bootstrap key that is named for the ref.
Init ==
    /\ \E old \in BOOLEAN :
        /\ ws = [w \in Spaces |-> IF old /\ w = Legacy THEN "unnamed" ELSE "none"]
        /\ key = [k \in Keys |-> IF old /\ k = LegacyKey THEN [st |-> "active", of |-> Legacy, boot |-> TRUE]
                                 ELSE [st |-> "none", of |-> None, boot |-> FALSE]]
    /\ call = [c \in Calls |-> [pc |-> "idle", of |-> None, key |-> None]]
    /\ known = {} /\ cache = [w \in Spaces |-> [v |-> None, age |-> 0]] /\ redis = TRUE
    /\ auth = [a \in Clients |-> [pc |-> "idle", of |-> None, read |-> None, held |-> FALSE]]
    /\ downFor = [w \in Spaces |-> 0] /\ lateBy = 0 /\ blind = FALSE
    /\ token = [t \in Tokens |-> IF t = First THEN "live" ELSE "none"]
    /\ parent = [t \in Tokens |-> None] /\ turn = [c \in Calls |-> None]
    /\ fails = 0 /\ turns = 0

(***************************************************************************)
(* Provisioning                                                            *)
(***************************************************************************)
Named == {w \in Spaces : ws[w] \in {"active", "suspended"}}
Pending(w) == \E c \in Calls : call[c].pc \in {"written", "answered"} /\ call[c].of = w
Blocked(c) == \E d \in Calls \ {c} : call[d].pc \in {"written", "answered"}
Call(c, pc, w, k) == call' = [call EXCEPT ![c] = [pc |-> pc, of |-> w, key |-> k]]

\* Mutant: the workspaces from before the column are not looked for.
_legacy_workspace_for_ref_None == {}

\* Known by the name of its bootstrap key; one that has a ref is no legacy workspace.
_legacy_workspace_for_ref == {w \in Spaces : ws[w] = "unnamed" /\ \E k \in Keys : key[k].boot /\ key[k].of = w}

\* By external_ref first: found, it is returned without a key.  Else a legacy workspace is
\* adopted, whose row a concurrent call may hold.  Else a new one is to be inserted.
Look(c) ==
    /\ call[c].pc = "idle"
    /\ IF Named # {} THEN Call(c, "done", None, None)
       ELSE IF _legacy_workspace_for_ref # {}
            THEN \E w \in _legacy_workspace_for_ref : ~Pending(w) /\ Call(c, "written", w, None)
            ELSE Call(c, "looked", None, None)
    /\ UNCHANGED <<ws, key, known, requests, sessions, bounds>>

\* Mutant: a call that lost the race still mints a key.
Converged_Minting(c) == \E k \in Keys : key[k].st = "none" /\ Call(c, "written", CHOOSE w \in Named : TRUE, k)

\* A concurrent call of the same ref won: converge on it, without a key.
Converged(c) == Call(c, "done", None, None)

\* The insert waits for a concurrent one of the same ref, and collides with it once committed.
provision_workspace(c) ==
    /\ call[c].pc = "looked" /\ ~Blocked(c)
    /\ IF Named # {} THEN Converged(c)
       ELSE \E w \in Spaces \ {Legacy}, k \in Keys :
                ws[w] = "none" /\ key[k].st = "none" /\ Call(c, "written", w, k)
    /\ UNCHANGED <<ws, key, known, requests, sessions, bounds>>

\* The answer, which may be lost, with the plaintext of the key.
Answer(c) ==
    /\ call[c].pc = "written"
    /\ call' = [call EXCEPT ![c].pc = "answered"]
    /\ \/ known' = known \cup ({call[c].key} \ {None}) /\ UNCHANGED fails
       \/ Fail /\ UNCHANGED known
    /\ UNCHANGED <<ws, key, requests, sessions, turns>>

\* The commit behind the answer.
get_admin_session(c) ==
    LET w == call[c].of
        k == call[c].key
    IN  /\ call[c].pc = "answered"
        /\ call' = [call EXCEPT ![c] = [pc |-> "done", of |-> None, key |-> None]]
        /\ \/ /\ ws' = [ws EXCEPT ![w] = IF @ \in {"none", "unnamed"} THEN "active" ELSE @]
              /\ key' = IF k = None THEN key ELSE [key EXCEPT ![k] = [st |-> "active", of |-> w, boot |-> TRUE]]
              /\ UNCHANGED fails
           \/ Fail /\ UNCHANGED <<ws, key>>
        /\ UNCHANGED <<known, requests, sessions, turns>>

(***************************************************************************)
(* Keys and workspaces                                                     *)
(***************************************************************************)
\* A further key of a workspace that exists; it is how a lost bootstrap key is replaced.
create_api_key(w) ==
    /\ ws[w] # "none" /\ turns < MaxTurns /\ turns' = turns + 1
    /\ \E k \in Keys :
        /\ key[k].st = "none" /\ ~\E c \in Calls : call[c].key = k
        /\ key' = [key EXCEPT ![k] = [st |-> "active", of |-> w, boot |-> FALSE]]
        /\ known' = known \cup {k}
    /\ UNCHANGED <<ws, call, requests, sessions, fails>>

revoke_api_key(k) ==
    /\ key[k].st = "active" /\ turns < MaxTurns /\ turns' = turns + 1
    /\ key' = [key EXCEPT ![k].st = "revoked"]
    /\ UNCHANGED <<ws, call, known, requests, sessions, fails>>

\* Suspended in the database; the cached status is left to expire.
archive_workspace(w) ==
    /\ ws[w] = "active" /\ turns < MaxTurns /\ turns' = turns + 1
    /\ ws' = [ws EXCEPT ![w] = "suspended"] /\ downFor' = [downFor EXCEPT ![w] = 0]
    /\ UNCHANGED <<key, call, known, cache, redis, auth, lateBy, blind, sessions, fails>>

(***************************************************************************)
(* Authentication                                                          *)
(***************************************************************************)
Auth(a, pc, w, read) == auth' = [auth EXCEPT ![a] = [pc |-> pc, of |-> w, read |-> read, held |-> FALSE]]

\* The key is read from the database, whatever the caches say.
_authenticate_api_key(a) ==
    /\ auth[a].pc = "idle"
    /\ \E k \in known : key[k].st = "active" /\ Auth(a, "status", key[k].of, None)
    /\ UNCHANGED <<accounts, cache, redis, downFor, lateBy, blind, sessions, bounds>>

Max2(x, y) == IF x > y THEN x ELSE y
Decide(a, w, status) ==
    /\ Auth(a, "idle", None, None)
    /\ lateBy' = IF status = "active" /\ ws[w] = "suspended" THEN Max2(lateBy, downFor[w]) ELSE lateBy
    /\ blind' = (blind \/ (status = "active" /\ ~redis))

\* Mutant: a hit renews the entry.
Renewed_OnHit(w) == [cache EXCEPT ![w].age = 0]

Renewed(w) == cache

_cache_get(a) ==
    LET w == auth[a].of IN
    /\ auth[a].pc = "status" /\ redis /\ cache[w].v # None
    /\ Decide(a, w, cache[w].v) /\ cache' = Renewed(w)
    /\ UNCHANGED <<accounts, redis, downFor, sessions, bounds>>

\* A miss, or an error of Redis, reads the row ...
_get_cached_status(a) ==
    LET w == auth[a].of IN
    /\ auth[a].pc = "status" /\ (~redis \/ cache[w].v = None)
    /\ Auth(a, "read", w, IF ws[w] = "suspended" THEN "suspended" ELSE "active")
    /\ UNCHANGED <<accounts, cache, redis, downFor, lateBy, blind, sessions, bounds>>

\* ... and stores it, when Redis answers, for a whole TTL.
_cache_set(a) ==
    LET w == auth[a].of IN
    /\ auth[a].pc = "read"
    /\ cache' = IF redis THEN [cache EXCEPT ![w] = [v |-> auth[a].read, age |-> 0]] ELSE cache
    /\ Decide(a, w, auth[a].read)
    /\ UNCHANGED <<accounts, redis, downFor, sessions, bounds>>

\* Time passes; a read is stored within one unit.
Tick ==
    /\ \A a \in Clients : ~auth[a].held
    /\ \E w \in Spaces : ws[w] = "suspended" /\ downFor[w] < MaxDown
    /\ auth' = [a \in Clients |-> [auth[a] EXCEPT !.held = (auth[a].pc = "read")]]
    /\ cache' = [w \in Spaces |-> IF cache[w].v = None \/ cache[w].age + 1 = STATUS_CACHE_TTL
                                  THEN [v |-> None, age |-> 0] ELSE [cache[w] EXCEPT !.age = @ + 1]]
    /\ downFor' = [w \in Spaces |-> IF ws[w] = "suspended" THEN downFor[w] + 1 ELSE 0]
    /\ UNCHANGED <<accounts, redis, lateBy, blind, sessions, bounds>>

\* Redis goes away and comes back, with its entries.
Outage ==
    /\ redis' = ~redis /\ turns < MaxTurns /\ turns' = turns + 1
    /\ UNCHANGED <<accounts, cache, auth, downFor, lateBy, blind, sessions, fails>>

(***************************************************************************)
(* Refresh tokens                                                          *)
(***************************************************************************)
\* Mutant: the rotation does not ask whether the token is live.
Rotates_Any(t) == token[t] # "none"

Rotates(t) == token[t] = "live"

\* One statement revokes the presented token and names its family; a caller that matched no row
\* is refused, and a token presented after its rotation ends the family.
ROTATE_REFRESH_TOKEN(c, t) ==
    /\ turn[c] = None /\ token[t] # "none" /\ turns < MaxTurns /\ turns' = turns + 1
    /\ IF Rotates(t)
       THEN turn' = [turn EXCEPT ![c] = t] /\ token' = [token EXCEPT ![t] = "revoked"]
       ELSE /\ token' = [u \in Tokens |-> IF token[u] = "none" THEN "none" ELSE "revoked"]
            /\ UNCHANGED turn
    /\ UNCHANGED <<accounts, requests, parent, fails>>

\* The pair is issued in a transaction of its own; a process that dies before it leaves the
\* client without a live token.
_issue_pair(c) ==
    /\ turn[c] # None /\ turn' = [turn EXCEPT ![c] = None]
    /\ \/ /\ \E t \in Tokens :
              /\ token[t] = "none"
              /\ token' = [token EXCEPT ![t] = "live"] /\ parent' = [parent EXCEPT ![t] = turn[c]]
          /\ UNCHANGED fails
       \/ Fail /\ UNCHANGED <<token, parent>>
    /\ UNCHANGED <<accounts, requests, turns>>

logout(t) ==
    /\ token[t] = "live" /\ turns < MaxTurns /\ turns' = turns + 1
    /\ token' = [token EXCEPT ![t] = "revoked"]
    /\ UNCHANGED <<accounts, requests, parent, turn, fails>>

Next ==
    \/ \E c \in Calls : Look(c) \/ provision_workspace(c) \/ Answer(c) \/ get_admin_session(c) \/ _issue_pair(c)
    \/ \E w \in Spaces : create_api_key(w) \/ archive_workspace(w)
    \/ \E k \in Keys : revoke_api_key(k)
    \/ \E a \in Clients : _authenticate_api_key(a) \/ _cache_get(a) \/ _get_cached_status(a) \/ _cache_set(a)
    \/ Tick \/ Outage
    \/ \E c \in Calls, t \in Tokens : ROTATE_REFRESH_TOKEN(c, t)
    \/ \E t \in Tokens : logout(t)

Spec == Init /\ [][Next]_vars

----------------------------------------------------------------------------
\* Calls and retries for one ref, in any order, with lost answers and failed commits, leave at
\* most one workspace of it, the one from before the column included.
OneWorkspacePerRef == Cardinality({w \in Spaces : ws[w] # "none"}) <= 1

\* admin.py: "a retry must never widen the set of live keys".
OneBootstrapKey == Cardinality({k \in Keys : key[k].boot}) <= 1

\* A request of a suspended workspace is refused once the status may no longer be cached: a TTL
\* after the suspension and the time a reader may hold what it read before it.
RefusedWithinTtl == lateBy <= STATUS_CACHE_TTL + 1

\* A refresh token has one successor, however often and by however many it is presented.
RotatedOnce == \A t \in Tokens : Cardinality({u \in Tokens : parent[u] = t} \cup {c \in Calls : turn[c] = t}) <= 1

\* status_cache.py: "any Redis error, or a missing row, returns STATUS_UNAVAILABLE".
RedisErrorDenies == ~blind

\* admin.py: a bootstrap key "whose plaintext is returned exactly once"; a key its caller was
\* given is one the engine knows.
GivenKeyExists == \A k \in known : key[k].st # "none" \/ \E c \in Calls : call[c].key = k
=============================================================================
