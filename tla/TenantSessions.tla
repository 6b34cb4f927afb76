--------------------------- MODULE TenantSessions ---------------------------
(***************************************************************************)
(* The tenant boundary of a database session: app_shared/database.py, the  *)
(* row policies of models/rls.py that read app.workspace_id, the request   *)
(* dependency of the API (deps.py) and the start-up check of the ordinary  *)
(* role (db/rls_guard.py).  Requests and worker tasks share the server     *)
(* connections behind PgBouncer, which hands one out for a transaction at  *)
(* a time; the requests also share the threads of the API's pool.          *)
(***************************************************************************)
EXTENDS Integers, FiniteSets, TLAPS

CONSTANTS Requests, Tasks,     \* API requests; worker tasks, which run in another process
          Workspaces, None,
          Servers,             \* server connections
          ThreadPool,          \* API_THREAD_POOL_SIZE
          Engines,             \* identities an Engine object may have
          MaxTxns, MaxStray, MaxForks

ASSUME SessionsAssumption ==
    /\ Requests \cap Tasks = {} /\ Servers # {}
    /\ None \notin Workspaces /\ None \notin Servers

VARIABLES principal, phase, wanted, txns, conn, seen, session, local, saved,
          engine, checked, role, asserted, hatch, reused, strays, forks

vars == <<principal, phase, wanted, txns, conn, seen, session, local, saved,
          engine, checked, role, asserted, hatch, reused, strays, forks>>
guard == <<engine, checked, role, asserted, hatch, reused, forks>>
gucs == <<session, local, saved>>

Actors == Requests \cup Tasks
Nobody == [home |-> None, header |-> None, super |-> FALSE]
NoConn == [a \in Actors |-> None]

\* A request comes with the workspace of its credential and the one its header names; a
\* SUPER_ADMIN has no workspace of its own.
Principals == {p \in [home : Workspaces \cup {None}, header : Workspaces \cup {None}, super : BOOLEAN] :
                  p.super => p.home = None}

Init ==
    /\ principal \in [Requests -> Principals]
    /\ phase = [a \in Actors |-> IF a \in Tasks THEN "running" ELSE "arrived"]
    /\ wanted = NoConn /\ conn = NoConn /\ txns = [a \in Actors |-> 0] /\ seen = [a \in Actors |-> {}]
    /\ session = [s \in Servers |-> None] /\ local = session /\ saved = session
    /\ engine = None /\ checked = {} /\ reused = FALSE /\ strays = 0 /\ forks = 0
    /\ role \in {"confined", "bypass"} /\ asserted \in BOOLEAN /\ hatch \in BOOLEAN

\* A request that has ended leaves nothing behind.
Ended(r) ==
    /\ phase' = [phase EXCEPT ![r] = "done"] /\ wanted' = [wanted EXCEPT ![r] = None]
    /\ txns' = [txns EXCEPT ![r] = 0] /\ principal' = [principal EXCEPT ![r] = Nobody]

(***************************************************************************)
(* Connections                                                             *)
(***************************************************************************)
\* Threads of the pool; a task has its own, and the exit of the dependency takes none of them.
WithThread == {r \in Requests : phase[r] \in {"auth", "running"}}
FreeServers == {s \in Servers : \A a \in Actors : conn[a] # s}

\* Mutant: the pool hands a connection out as it came back.
_reset_workspace_context_Not(s) == session[s]

\* RESET runs in the transaction the checkout opens: a rollback undoes it.
_reset_workspace_context(s) == None

\* Mutant: the context is set once, in the session's first transaction.
bind_workspace_context_Once(a) == IF txns[a] = 0 THEN wanted[a] ELSE None

\* after_begin: the context of the session is set in each of its transactions.
bind_workspace_context(a) == IF a \in Requests THEN wanted[a] ELSE None

\* The first statement of a transaction takes a connection, resets it and sets the context.
Checkout(a, s) ==
    /\ s \in FreeServers /\ conn[a] = None /\ txns[a] < MaxTxns
    /\ conn' = [conn EXCEPT ![a] = s] /\ txns' = [txns EXCEPT ![a] = @ + 1]
    /\ saved' = [saved EXCEPT ![s] = session[s]]
    /\ session' = [session EXCEPT ![s] = _reset_workspace_context(s)]
    /\ local' = [local EXCEPT ![s] = bind_workspace_context(a)]

Begin(a, s) ==
    /\ phase[a] = "running" /\ Checkout(a, s)
    /\ UNCHANGED <<principal, phase, wanted, seen, strays, guard>>

\* pool_timeout: a caller that waits for a connection too long fails.
PoolTimeout(r) ==
    /\ r \in Requests /\ phase[r] = "running" /\ conn[r] = None /\ FreeServers = {}
    /\ Ended(r)
    /\ UNCHANGED <<conn, seen, strays, gucs, guard>>

\* A task sets the context of its transaction, of one workspace after another.
set_workspace_context(a, w) ==
    /\ a \in Tasks /\ conn[a] # None
    /\ local' = [local EXCEPT ![conn[a]] = w] /\ wanted' = [wanted EXCEPT ![a] = w]
    /\ UNCHANGED <<principal, phase, txns, conn, seen, session, saved, strays, guard>>

\* current_setting('app.workspace_id', true)
Current(s) == IF local[s] # None THEN local[s] ELSE session[s]

\* The policy: the rows of the current workspace, none without one; a role that bypasses row
\* security reads every row.
emit_rls_policy(s) == IF role = "bypass" THEN Workspaces ELSE {Current(s)} \ {None}

Query(a) ==
    /\ phase[a] = "running" /\ conn[a] # None
    /\ seen' = [seen EXCEPT ![a] = {emit_rls_policy(conn[a])}]
    /\ UNCHANGED <<principal, phase, wanted, txns, conn, strays, gucs, guard>>

\* A statement sets the context of the session instead of the transaction.
StraySet(a) ==
    /\ phase[a] = "running" /\ conn[a] # None /\ wanted[a] # None
    /\ strays < MaxStray /\ strays' = strays + 1
    /\ session' = [session EXCEPT ![conn[a]] = wanted[a]]
    /\ local' = [local EXCEPT ![conn[a]] = None]
    /\ UNCHANGED <<principal, phase, wanted, txns, conn, seen, saved, guard>>

\* The end of a transaction gives the connection back.
Released(a, committed) ==
    LET s == conn[a] IN
    /\ conn' = [conn EXCEPT ![a] = None]
    /\ local' = [local EXCEPT ![s] = None] /\ saved' = [saved EXCEPT ![s] = None]
    /\ session' = [session EXCEPT ![s] = IF committed THEN @ ELSE saved[s]]

EndTransaction(a) ==
    /\ phase[a] = "running" /\ conn[a] # None
    /\ \E committed \in BOOLEAN : Released(a, committed)
    /\ wanted' = IF a \in Tasks THEN [wanted EXCEPT ![a] = None] ELSE wanted
    /\ seen' = [seen EXCEPT ![a] = {}]
    /\ UNCHANGED <<principal, phase, txns, strays, guard>>

(***************************************************************************)
(* The engine and the check of its role                                    *)
(***************************************************************************)
rls_assertion_enabled == asserted
violations == role = "bypass"
bypass_allowed == hatch

\* Mutant: the engine is kept although its role was refused.
assert_ordinary_role_cannot_bypass_rls_LogOnly(e) == FALSE

\* Refuses an unconfined role, but an engine it has seen is not looked at again.
assert_ordinary_role_cannot_bypass_rls(e) == e \notin checked /\ violations /\ ~bypass_allowed

\* get_engine: the refused engine is disposed of, and the next caller builds another; its
\* identity, id(bind), may be that of the disposed one.
get_engine(e) ==
    LET refused == rls_assertion_enabled /\ assert_ordinary_role_cannot_bypass_rls(e)
    IN  /\ engine = None
        /\ checked' = IF rls_assertion_enabled THEN checked \cup {e} ELSE checked
        /\ engine' = IF refused THEN None ELSE e
        /\ reused' = (reused \/ (rls_assertion_enabled /\ e \in checked))

\* A forked process disposes of the engine and forgets what was checked.
dispose_engine ==
    /\ forks < MaxForks /\ forks' = forks + 1
    /\ engine # None /\ \A r \in Requests : phase[r] \in {"arrived", "done"}
    /\ engine' = None /\ checked' = {} /\ reused' = FALSE
    /\ UNCHANGED <<principal, phase, wanted, txns, conn, seen, strays, gucs, role, asserted, hatch>>

(***************************************************************************)
(* A request                                                               *)
(***************************************************************************)
\* The dependency runs in a thread of its own.
StartAuth(r) ==
    /\ phase[r] = "arrived" /\ Cardinality(WithThread) < ThreadPool
    /\ phase' = [phase EXCEPT ![r] = "auth"]
    /\ UNCHANGED <<principal, wanted, txns, conn, seen, strays, gucs, guard>>

\* A credential with a workspace may act only there; one without must be a SUPER_ADMIN's and
\* name one.
_resolve_workspace(p) ==
    IF p.home # None THEN (IF p.header \in {None, p.home} THEN p.home ELSE None)
    ELSE IF p.super THEN p.header ELSE None

\* 401 and 403.
Reject(r) ==
    /\ phase[r] = "auth" /\ _resolve_workspace(principal[r]) = None
    /\ Ended(r)
    /\ UNCHANGED <<conn, seen, strays, gucs, guard>>

\* Mutant: the dependency executes the SET itself and so takes a connection.
Bound_Executes(r, s) ==
    /\ s \in FreeServers /\ conn' = [conn EXCEPT ![r] = s] /\ local' = [local EXCEPT ![s] = wanted'[r]]
    /\ UNCHANGED <<txns, session, saved>>

\* The session is only told its workspace; it takes no connection.
Bound(r, s) == UNCHANGED <<conn, txns, gucs>>

get_current_principal(r) ==
    /\ phase[r] = "auth" /\ _resolve_workspace(principal[r]) # None
    /\ \/ /\ engine # None
          /\ phase' = [phase EXCEPT ![r] = "bound"]
          /\ wanted' = [wanted EXCEPT ![r] = _resolve_workspace(principal[r])]
          /\ \E s \in Servers : Bound(r, s)
          /\ UNCHANGED <<principal, engine, checked, reused>>
       \/ \E e \in Engines :
              /\ get_engine(e)
              /\ IF engine' = None THEN Ended(r) ELSE UNCHANGED <<principal, phase, wanted, txns>>
              /\ UNCHANGED <<conn, gucs>>
    /\ UNCHANGED <<seen, strays, role, asserted, hatch, forks>>

\* The handler needs a thread again.
StartHandler(r) ==
    /\ phase[r] = "bound" /\ Cardinality(WithThread) < ThreadPool
    /\ phase' = [phase EXCEPT ![r] = "running"]
    /\ UNCHANGED <<principal, wanted, txns, conn, seen, strays, gucs, guard>>

Finish(r) ==
    /\ r \in Requests /\ phase[r] = "running"
    /\ phase' = [phase EXCEPT ![r] = IF conn[r] = None THEN "done" ELSE "leaving"]
    /\ seen' = [seen EXCEPT ![r] = {}]
    /\ UNCHANGED <<principal, wanted, txns, conn, strays, gucs, guard>>

\* The dependency commits; after an exception the session is closed, which rolls back.
get_session(r) ==
    /\ phase[r] = "leaving"
    /\ \E committed \in BOOLEAN : Released(r, committed)
    /\ Ended(r)
    /\ UNCHANGED <<seen, strays, guard>>

Next ==
    \/ \E a \in Actors : \E s \in Servers : Begin(a, s)
    \/ \E a \in Actors : Query(a) \/ StraySet(a) \/ EndTransaction(a)
    \/ \E a \in Tasks, w \in Workspaces : set_workspace_context(a, w)
    \/ \E r \in Requests :
          StartAuth(r) \/ Reject(r) \/ get_current_principal(r) \/ StartHandler(r) \/ Finish(r) \/ get_session(r) \/ PoolTimeout(r)
    \/ dispose_engine

Spec == Init /\ [][Next]_vars

----------------------------------------------------------------------------
\* The workspace a request is entitled to, said of the credential alone.
Entitled(r) == {principal[r].home} \cup (IF principal[r].super /\ principal[r].home = None THEN {principal[r].header} ELSE {})

\* Under a confined role a request reads the rows of the workspace it is entitled to, in each of
\* its transactions and whatever connection it gets: never another's, and never none at all.
OwnRowsOnly ==
    role = "confined" => \A r \in Requests : \A rows \in seen[r] : \E w \in Entitled(r) \ {None} : rows = {w}

\* A task that has not set a workspace in its transaction reads nothing, also on a connection
\* whose session was left with the workspace of another.
FailsClosed ==
    role = "confined" => \A t \in Tasks : \A rows \in seen[t] : rows # {} => wanted[t] # None

\* When every connection is taken and every thread too, somebody who holds a connection can
\* run: connections are not held by requests that wait for a thread.
NoInversion ==
    (FreeServers = {} /\ Cardinality(WithThread) = ThreadPool) =>
        \E a \in Actors : conn[a] # None /\ phase[a] \in {"running", "leaving"}

\* With the check on and no exemption, no request is served through a role that bypasses row
\* security, unless an engine took the identity of one checked before.
ServedConfined == (asserted /\ ~hatch /\ engine # None /\ ~reused) => role = "confined"

\* What a request or a task is never exposed to, besides the rows of another: reading without a
\* workspace, waiting on each other for good, a role that row security does not bind.
SessionsSafe == FailsClosed /\ NoInversion /\ ServedConfined

\* rls_guard.py: "Refuse to proceed when the ordinary connection can bypass RLS."
NeverServedUnconfined == (asserted /\ ~hatch /\ engine # None) => role = "confined"

----------------------------------------------------------------------------
(* The boundary holds for any number of requests, tasks, connections and    *)
(* threads: what is in the server's settings is what the session that holds *)
(* the connection wants, from its first statement to the end of each of its *)
(* transactions.                                                            *)

Context == Workspaces \cup {None}

\* Every setting, session and request is one the code can build.
TypeInv ==
    /\ principal \in [Requests -> Principals]
    /\ phase \in [Actors -> {"arrived", "auth", "bound", "running", "leaving", "done"}]
    /\ wanted \in [Actors -> Context] /\ conn \in [Actors -> Servers \cup {None}]
    /\ session \in [Servers -> Context] /\ local \in [Servers -> Context] /\ saved \in [Servers -> Context]
    /\ seen \in [Actors -> SUBSET SUBSET Workspaces] /\ role \in {"confined", "bypass"}

\* A request has been given its workspace before it runs.
BoundOK ==
    \A r \in Requests : phase[r] \in {"bound", "running"} =>
        wanted[r] # None /\ wanted[r] = _resolve_workspace(principal[r])

\* A connection is held by one session, which has a thread or is on its way out.
ConnOK ==
    /\ \A a \in Actors : conn[a] # None => phase[a] \in {"running", "leaving"}
    /\ \A a, b \in Actors : conn[a] = conn[b] /\ conn[a] # None => a = b

\* The current workspace of a held connection is the one its session wants; a task wants
\* none before it holds one.
ContextOK ==
    /\ \A a \in Actors : conn[a] # None => Current(conn[a]) = wanted[a]
    /\ \A t \in Tasks : conn[t] = None => wanted[t] = None

\* What was read was read on the connection that is still held.
ReadOK ==
    \A a \in Actors :
        /\ seen[a] # {} => conn[a] # None /\ phase[a] = "running"
        /\ role = "confined" => \A rows \in seen[a] :
               IF a \in Requests THEN rows = {wanted[a]} ELSE rows # {} => wanted[a] # None

IInv == TypeInv /\ BoundOK /\ ConnOK /\ ContextOK /\ ReadOK /\ ServedConfined

\* Nothing is held, read or set when the processes start.
LEMMA InitInv == Init => IInv
<1> SUFFICES ASSUME Init PROVE IInv
  OBVIOUS
<1> USE SessionsAssumption DEF Init, NoConn, Actors
<1>1. TypeInv
  BY DEF TypeInv, Context
<1>2. BoundOK /\ ConnOK /\ ContextOK /\ ReadOK /\ ServedConfined
  BY DEF BoundOK, ConnOK, ContextOK, ReadOK, ServedConfined, Current
<1> QED BY <1>1, <1>2 DEF IInv

\* Every step keeps the invariant: one step per action, one leaf per conjunct.
LEMMA InvStep == IInv /\ [Next]_vars => IInv'
<1> SUFFICES ASSUME IInv, [Next]_vars PROVE IInv'
  OBVIOUS
<1> USE SessionsAssumption DEF IInv
<1>r. _resolve_workspace(Nobody) = None /\ Nobody \in Principals
  BY DEF _resolve_workspace, Nobody, Principals
<1>w. \A r \in Requests : _resolve_workspace(principal[r]) \in Context
  BY DEF _resolve_workspace, Principals, TypeInv, Context
<1>1. ASSUME NEW a \in Actors, NEW s \in Servers, Begin(a, s) PROVE IInv'
  <2>1. TypeInv'
    BY <1>1 DEF Begin, Checkout, FreeServers, _reset_workspace_context, bind_workspace_context, guard, TypeInv, Context, Actors
  <2>2. BoundOK'
    BY <1>1 DEF Begin, Checkout, FreeServers, _reset_workspace_context, bind_workspace_context, guard, BoundOK, TypeInv, Actors
  <2>3. ConnOK'
    BY <1>1 DEF Begin, Checkout, FreeServers, _reset_workspace_context, bind_workspace_context, guard, ConnOK, TypeInv, Actors
  <2>4. ContextOK'
    BY <1>1 DEF Begin, Checkout, FreeServers, _reset_workspace_context, bind_workspace_context, guard, ContextOK, ConnOK, TypeInv, Current, Actors
  <2>5. ReadOK'
    BY <1>1 DEF Begin, Checkout, FreeServers, _reset_workspace_context, bind_workspace_context, guard, ReadOK, ConnOK, ContextOK, BoundOK, TypeInv, Current, Actors
  <2>6. ServedConfined'
    BY <1>1 DEF Begin, Checkout, FreeServers, _reset_workspace_context, bind_workspace_context, guard, ServedConfined, TypeInv
  <2> QED BY <2>1, <2>2, <2>3, <2>4, <2>5, <2>6
<1>2. ASSUME NEW a \in Actors, Query(a) PROVE IInv'
  <2>1. TypeInv'
    BY <1>2 DEF Query, emit_rls_policy, Current, guard, gucs, TypeInv, Context, Actors
  <2>2. BoundOK'
    BY <1>2 DEF Query, emit_rls_policy, Current, guard, gucs, BoundOK, TypeInv, Actors
  <2>3. ConnOK'
    BY <1>2 DEF Query, emit_rls_policy, Current, guard, gucs, ConnOK, TypeInv, Actors
  <2>4. ContextOK'
    BY <1>2 DEF Query, emit_rls_policy, Current, guard, gucs, ContextOK, ConnOK, TypeInv, Current, Actors
  <2>5. ReadOK'
    BY <1>2 DEF Query, emit_rls_policy, Current, guard, gucs, ReadOK, ConnOK, ContextOK, BoundOK, TypeInv, Current, Actors
  <2>6. ServedConfined'
    BY <1>2 DEF Query, emit_rls_policy, Current, guard, gucs, ServedConfined, TypeInv
  <2> QED BY <2>1, <2>2, <2>3, <2>4, <2>5, <2>6
<1>3. ASSUME NEW a \in Actors, StraySet(a) PROVE IInv'
  <2>1. TypeInv'
    BY <1>3 DEF StraySet, guard, TypeInv, Context, Actors
  <2>2. BoundOK'
    BY <1>3 DEF StraySet, guard, BoundOK, TypeInv, Actors
  <2>3. ConnOK'
    BY <1>3 DEF StraySet, guard, ConnOK, TypeInv, Actors
  <2>4. ContextOK'
    BY <1>3 DEF StraySet, guard, ContextOK, ConnOK, TypeInv, Current, Actors
  <2>5. ReadOK'
    BY <1>3 DEF StraySet, guard, ReadOK, ConnOK, ContextOK, BoundOK, TypeInv, Current, Actors
  <2>6. ServedConfined'
    BY <1>3 DEF StraySet, guard, ServedConfined, TypeInv
  <2> QED BY <2>1, <2>2, <2>3, <2>4, <2>5, <2>6
<1>4. ASSUME NEW a \in Actors, EndTransaction(a) PROVE IInv'
  <2>1. TypeInv'
    BY <1>4 DEF EndTransaction, Released, guard, TypeInv, Context, Actors
  <2>2. BoundOK'
    BY <1>4 DEF EndTransaction, Released, guard, BoundOK, TypeInv, Actors
  <2>3. ConnOK'
    BY <1>4 DEF EndTransaction, Released, guard, ConnOK, TypeInv, Actors
  <2>4. ContextOK'
    BY <1>4 DEF EndTransaction, Released, guard, ContextOK, ConnOK, TypeInv, Current, Actors
  <2>5. ReadOK'
    BY <1>4 DEF EndTransaction, Released, guard, ReadOK, ConnOK, ContextOK, BoundOK, TypeInv, Current, Actors
  <2>6. ServedConfined'
    BY <1>4 DEF EndTransaction, Released, guard, ServedConfined, TypeInv
  <2> QED BY <2>1, <2>2, <2>3, <2>4, <2>5, <2>6
<1>5. ASSUME NEW a \in Tasks, NEW w \in Workspaces, set_workspace_context(a, w) PROVE IInv'
  <2>1. TypeInv'
    BY <1>5 DEF set_workspace_context, guard, TypeInv, Context, Actors
  <2>2. BoundOK'
    BY <1>5 DEF set_workspace_context, guard, BoundOK, TypeInv, Actors
  <2>3. ConnOK'
    BY <1>5 DEF set_workspace_context, guard, ConnOK, TypeInv, Actors
  <2>4. ContextOK'
    BY <1>5 DEF set_workspace_context, guard, ContextOK, ConnOK, TypeInv, Current, Actors
  <2>5. ReadOK'
    BY <1>5 DEF set_workspace_context, guard, ReadOK, ConnOK, ContextOK, BoundOK, TypeInv, Current, Actors
  <2>6. ServedConfined'
    BY <1>5 DEF set_workspace_context, guard, ServedConfined, TypeInv
  <2> QED BY <2>1, <2>2, <2>3, <2>4, <2>5, <2>6
<1>6. ASSUME NEW r \in Requests, StartAuth(r) PROVE IInv'
  <2>1. TypeInv'
    BY <1>6 DEF StartAuth, guard, gucs, TypeInv, Context, Actors
  <2>2. BoundOK'
    BY <1>6 DEF StartAuth, guard, gucs, BoundOK, TypeInv, Actors
  <2>3. ConnOK'
    BY <1>6 DEF StartAuth, guard, gucs, ConnOK, TypeInv, Actors
  <2>4. ContextOK'
    BY <1>6 DEF StartAuth, guard, gucs, ContextOK, ConnOK, TypeInv, Current, Actors
  <2>5. ReadOK'
    BY <1>6 DEF StartAuth, guard, gucs, ReadOK, ConnOK, ContextOK, BoundOK, TypeInv, Current, Actors
  <2>6. ServedConfined'
    BY <1>6 DEF StartAuth, guard, gucs, ServedConfined, TypeInv
  <2> QED BY <2>1, <2>2, <2>3, <2>4, <2>5, <2>6
<1>7. ASSUME NEW r \in Requests, Reject(r) PROVE IInv'
  <2>1. TypeInv'
    BY <1>7, <1>r, <1>w DEF Reject, Ended, guard, gucs, TypeInv, Context, Actors
  <2>2. BoundOK'
    BY <1>7, <1>r, <1>w DEF Reject, Ended, guard, gucs, BoundOK, TypeInv, Actors
  <2>3. ConnOK'
    BY <1>7 DEF Reject, Ended, guard, gucs, ConnOK, TypeInv, Actors
  <2>4. ContextOK'
    BY <1>7 DEF Reject, Ended, guard, gucs, ContextOK, ConnOK, TypeInv, Current, Actors
  <2>5. ReadOK'
    BY <1>7, <1>r, <1>w DEF Reject, Ended, guard, gucs, ReadOK, ConnOK, ContextOK, BoundOK, TypeInv, Current, Actors
  <2>6. ServedConfined'
    BY <1>7 DEF Reject, Ended, guard, gucs, ServedConfined, TypeInv
  <2> QED BY <2>1, <2>2, <2>3, <2>4, <2>5, <2>6
<1>8. ASSUME NEW r \in Requests, get_current_principal(r) PROVE IInv'
  <2>1. TypeInv'
    BY <1>8, <1>r, <1>w DEF get_current_principal, Bound, Ended, gucs, get_engine, TypeInv, Context, Actors
  <2>2. BoundOK'
    BY <1>8, <1>r, <1>w DEF get_current_principal, Bound, Ended, gucs, get_engine, BoundOK, TypeInv, Actors
  <2>3. ConnOK'
    BY <1>8 DEF get_current_principal, Bound, Ended, gucs, get_engine, ConnOK, TypeInv, Actors
  <2>4. ContextOK'
    BY <1>8 DEF get_current_principal, Bound, Ended, gucs, get_engine, ContextOK, ConnOK, TypeInv, Current, Actors
  <2>5. ReadOK'
    BY <1>8, <1>r, <1>w DEF get_current_principal, Bound, Ended, gucs, get_engine, ReadOK, ConnOK, ContextOK, BoundOK, TypeInv, Current, Actors
  <2>6. ServedConfined'
    <3>1. CASE engine # None
      BY <1>8, <3>1 DEF get_current_principal, get_engine, ServedConfined
    <3>2. ASSUME NEW e \in Engines, get_engine(e), UNCHANGED <<role, asserted, hatch>> PROVE ServedConfined'
      <4>1. CASE e \in checked
        BY <3>2, <4>1 DEF get_engine, rls_assertion_enabled, ServedConfined
      <4>2. CASE e \notin checked
        BY <3>2, <4>2 DEF get_engine, rls_assertion_enabled, violations, bypass_allowed,
          assert_ordinary_role_cannot_bypass_rls, ServedConfined, TypeInv
      <4> QED BY <4>1, <4>2
    <3> QED BY <1>8, <3>1, <3>2 DEF get_current_principal
  <2> QED BY <2>1, <2>2, <2>3, <2>4, <2>5, <2>6
<1>9. ASSUME NEW r \in Requests, StartHandler(r) PROVE IInv'
  <2>1. TypeInv'
    BY <1>9 DEF StartHandler, guard, gucs, TypeInv, Context, Actors
  <2>2. BoundOK'
    BY <1>9 DEF StartHandler, guard, gucs, BoundOK, TypeInv, Actors
  <2>3. ConnOK'
    BY <1>9 DEF StartHandler, guard, gucs, ConnOK, TypeInv, Actors
  <2>4. ContextOK'
    BY <1>9 DEF StartHandler, guard, gucs, ContextOK, ConnOK, TypeInv, Current, Actors
  <2>5. ReadOK'
    BY <1>9 DEF StartHandler, guard, gucs, ReadOK, ConnOK, ContextOK, BoundOK, TypeInv, Current, Actors
  <2>6. ServedConfined'
    BY <1>9 DEF StartHandler, guard, gucs, ServedConfined, TypeInv
  <2> QED BY <2>1, <2>2, <2>3, <2>4, <2>5, <2>6
<1>10. ASSUME NEW r \in Requests, Finish(r) PROVE IInv'
  <2>1. TypeInv'
    BY <1>10 DEF Finish, guard, gucs, TypeInv, Context, Actors
  <2>2. BoundOK'
    BY <1>10 DEF Finish, guard, gucs, BoundOK, TypeInv, Actors
  <2>3. ConnOK'
    BY <1>10 DEF Finish, guard, gucs, ConnOK, TypeInv, Actors
  <2>4. ContextOK'
    BY <1>10 DEF Finish, guard, gucs, ContextOK, ConnOK, TypeInv, Current, Actors
  <2>5. ReadOK'
    BY <1>10 DEF Finish, guard, gucs, ReadOK, ConnOK, ContextOK, BoundOK, TypeInv, Current, Actors
  <2>6. ServedConfined'
    BY <1>10 DEF Finish, guard, gucs, ServedConfined, TypeInv
  <2> QED BY <2>1, <2>2, <2>3, <2>4, <2>5, <2>6
<1>11. ASSUME NEW r \in Requests, get_session(r) PROVE IInv'
  <2>1. TypeInv'
    <3> USE <1>11 DEF get_session, Released, Ended, guard
    <3>1. principal' \in [Requests -> Principals] /\ seen' = seen /\ role' = role
      BY <1>r DEF TypeInv
    <3>2. /\ phase' \in [Actors -> {"arrived", "auth", "bound", "running", "leaving", "done"}]
          /\ wanted' \in [Actors -> Context] /\ conn' \in [Actors -> Servers \cup {None}]
      BY DEF TypeInv, Context, Actors
    <3>3. /\ session' \in [Servers -> Context] /\ local' \in [Servers -> Context]
          /\ saved' \in [Servers -> Context]
      <4> HIDE DEF Released, Ended, guard
      <4>1. PICK committed \in BOOLEAN : Released(r, committed)
        BY <1>11
      <4>2. saved[conn[r]] \in Context \/ conn[r] \notin Servers
        BY DEF TypeInv
      <4>3. None \in Context
        BY DEF Context
      <4>4. /\ session \in [Servers -> Context] /\ local \in [Servers -> Context]
            /\ saved \in [Servers -> Context]
        BY DEF TypeInv
      <4>5. local' \in [Servers -> Context] /\ saved' \in [Servers -> Context]
        BY <4>1, <4>3, <4>4 DEF Released
      <4>6. session' \in [Servers -> Context]
        BY <4>1, <4>2, <4>4 DEF Released
      <4> QED BY <4>5, <4>6
    <3> QED BY <3>1, <3>2, <3>3 DEF TypeInv
  <2>2. BoundOK'
    BY <1>11, <1>r, <1>w DEF get_session, Released, Ended, guard, BoundOK, TypeInv, Actors
  <2>3. ConnOK'
    BY <1>11 DEF get_session, Released, Ended, guard, ConnOK, TypeInv, Actors
  <2>4. ContextOK'
    BY <1>11 DEF get_session, Released, Ended, guard, ContextOK, ConnOK, TypeInv, Current, Actors
  <2>5. ReadOK'
    BY <1>11, <1>r, <1>w DEF get_session, Released, Ended, guard, ReadOK, ConnOK, ContextOK, BoundOK, TypeInv, Current, Actors
  <2>6. ServedConfined'
    BY <1>11 DEF get_session, Released, Ended, guard, ServedConfined, TypeInv
  <2> QED BY <2>1, <2>2, <2>3, <2>4, <2>5, <2>6
<1>12. ASSUME NEW r \in Requests, PoolTimeout(r) PROVE IInv'
  <2>1. TypeInv'
    BY <1>12, <1>r, <1>w DEF PoolTimeout, Ended, guard, gucs, TypeInv, Context, Actors
  <2>2. BoundOK'
    BY <1>12, <1>r, <1>w DEF PoolTimeout, Ended, guard, gucs, BoundOK, TypeInv, Actors
  <2>3. ConnOK'
    BY <1>12 DEF PoolTimeout, Ended, guard, gucs, ConnOK, TypeInv, Actors
  <2>4. ContextOK'
    BY <1>12 DEF PoolTimeout, Ended, guard, gucs, ContextOK, ConnOK, TypeInv, Current, Actors
  <2>5. ReadOK'
    BY <1>12, <1>r, <1>w DEF PoolTimeout, Ended, guard, gucs, ReadOK, ConnOK, ContextOK, BoundOK, TypeInv, Current, Actors
  <2>6. ServedConfined'
    BY <1>12 DEF PoolTimeout, Ended, guard, gucs, ServedConfined, TypeInv
  <2> QED BY <2>1, <2>2, <2>3, <2>4, <2>5, <2>6
<1>13. CASE dispose_engine
  <2>1. TypeInv'
    BY <1>13 DEF dispose_engine, gucs, TypeInv, Context, Actors
  <2>2. BoundOK'
    BY <1>13 DEF dispose_engine, gucs, BoundOK, TypeInv, Actors
  <2>3. ConnOK'
    BY <1>13 DEF dispose_engine, gucs, ConnOK, TypeInv, Actors
  <2>4. ContextOK'
    BY <1>13 DEF dispose_engine, gucs, ContextOK, ConnOK, TypeInv, Current, Actors
  <2>5. ReadOK'
    BY <1>13 DEF dispose_engine, gucs, ReadOK, ConnOK, ContextOK, BoundOK, TypeInv, Current, Actors
  <2>6. ServedConfined'
    BY <1>13 DEF dispose_engine, gucs, ServedConfined, TypeInv
  <2> QED BY <2>1, <2>2, <2>3, <2>4, <2>5, <2>6
<1>14. CASE UNCHANGED vars
  BY <1>14 DEF vars, TypeInv, BoundOK, ConnOK, ContextOK, ReadOK, ServedConfined, Current, Context
<1> QED BY <1>1, <1>2, <1>3, <1>4, <1>5, <1>6, <1>7, <1>8, <1>9, <1>10, <1>11, <1>12, <1>13, <1>14 DEF Next

\* Everything above holds in every reachable state.
LEMMA Inv == Spec => []IInv
<1>1. IInv /\ [Next]_vars => IInv'
  BY InvStep
<1> QED BY InitInv, <1>1, PTL DEF Spec

\* Under a confined role a request never reads another workspace's rows, nor none, however many
\* sessions share a connection and whatever was left in its settings: the reset and the binding
\* at each begin (database.py) are enough.
THEOREM TenantBoundary == Spec => []OwnRowsOnly
<1>1. IInv => OwnRowsOnly
  BY SessionsAssumption DEF IInv, ReadOK, BoundOK, OwnRowsOnly, Entitled, _resolve_workspace, TypeInv, Principals, Actors
<1> QED BY Inv, <1>1, PTL

\* A task without a workspace reads nothing, callers that wait for threads hold no connection, and
\* an unconfined role is not served once checked (database.py, deps.py, rls_guard.py).
THEOREM SessionsAreSafe == Spec => []SessionsSafe
<1>1. IInv => FailsClosed
  BY SessionsAssumption DEF IInv, ReadOK, FailsClosed, Actors
<1>2. IInv => NoInversion
  BY SessionsAssumption DEF IInv, ConnOK, NoInversion, FreeServers
<1>3. IInv => SessionsSafe
  BY <1>1, <1>2 DEF IInv, SessionsSafe
<1> QED BY Inv, <1>3, PTL
=============================================================================
