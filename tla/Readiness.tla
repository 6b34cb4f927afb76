----------------------------- MODULE Readiness -----------------------------
(***************************************************************************)
(* GET /ready (apps/api/app/routers/ready.py) over the heartbeats of one   *)
(* required service (app_shared/heartbeat.py) and the release identity of  *)
(* the running image (app_shared/release.py).  Processes beat under an     *)
(* instance identity, with a fencing token of Redis, and are replaced,     *)
(* killed or left behind as zombies; a beat reads its key and then writes  *)
(* it.  Concurrent requests share one generation lock, one cached verdict  *)
(* and a pool of two probe threads that a hung dependency keeps.           *)
(***************************************************************************)
EXTENDS Integers, Sequences, SequencesExt, FiniteSets

CONSTANTS Processes, Requests,
          Images,            \* what an image and its environment say of its head
          IdentityOf(_),     \* the instance identity a process beats under
          TTL,               \* HEARTBEAT_TTL_SECONDS
          MIN_INSTANCES,     \* the service's floor, 0 when none is declared
          MaxClock, MaxFaults

VARIABLES clock, dep, head, image, fence, record, proc,   \* the fleet
          req, lock, cached, pool,                        \* the API process
          faults, held, lastUp                       \* bound and history

vars == <<clock, dep, head, image, fence, record, proc, req, lock, cached, pool,
          faults, held, lastUp>>
fleet == <<clock, dep, head, image, fence, record, proc, faults>>
api == <<req, lock, cached, pool>>

Identities == {IdentityOf(p) : p \in Processes}
WORKERS == 2                        \* _PROBE_EXECUTOR
Checks == <<"database", "redis", "migrations", "heartbeats">>
DepOf(check) == IF check \in {"database", "migrations"} THEN "database" ELSE "redis"
NoRecord == [fence |-> -1, mono |-> -1, at |-> -1]
Unasked == [at |-> "idle", checks |-> [c \in ToSet(Checks) |-> "open"], ready |-> FALSE,
            stale |-> FALSE]

Init ==
    /\ clock = 0
    /\ dep = [d \in {"database", "redis"} |-> "up"]
    /\ head \in {"code", "other"}
    /\ image \in Images
    /\ fence = 0
    /\ record = [i \in Identities |-> NoRecord]
    /\ proc = [p \in Processes |-> [st |-> "new", fence |-> 0]]
    /\ req = [r \in Requests |-> Unasked]
    /\ lock = "free"
    /\ cached = "none"
    /\ pool = <<>>
    /\ faults = 0
    /\ held = {}
    /\ lastUp = -TTL - 1

(***************************************************************************)
(* HeartbeatEmitter: start takes a token, or none when Redis fails; a beat *)
(* is refused by a record of a higher fence, or of its own fence and not   *)
(* older.  Redis forgets a record TTL after its last write.                *)
(***************************************************************************)
start(p) ==
    /\ proc[p].st = "new"
    /\ IF dep["redis"] = "up"
       THEN /\ fence' = fence + 1
            /\ proc' = [proc EXCEPT ![p] = [st |-> "up", fence |-> fence + 1]]
       ELSE /\ proc' = [proc EXCEPT ![p] = [st |-> "up", fence |-> 0]]
            /\ UNCHANGED fence
    /\ UNCHANGED <<clock, dep, head, image, record, faults, api>>

Stored(i) == IF record[i].at + TTL >= clock THEN record[i] ELSE NoRecord

Refuses(stored, f) == \/ stored.fence > f
                      \/ stored.fence = f /\ clock <= stored.mono

BeatRead(p) ==
    /\ proc[p].st = "up"
    /\ dep["redis"] = "up"
    /\ ~Refuses(Stored(IdentityOf(p)), proc[p].fence)
    /\ proc' = [proc EXCEPT ![p].st = "writing"]
    /\ UNCHANGED <<clock, dep, head, image, fence, record, faults, api>>

write_heartbeat(p) ==
    /\ proc[p].st = "writing"
    /\ record' = IF dep["redis"] = "up"
                 THEN [record EXCEPT ![IdentityOf(p)] =
                           [fence |-> proc[p].fence, mono |-> clock, at |-> clock]]
                 ELSE record
    /\ proc' = [proc EXCEPT ![p].st = "up"]
    /\ UNCHANGED <<clock, dep, head, image, fence, faults, api>>

(* PeriodicHeartbeat.stop, or the process is killed: its record stays.     *)
stop(p) ==
    /\ proc[p].st \in {"up", "writing"}
    /\ proc' = [proc EXCEPT ![p] = [st |-> "gone", fence |-> 0]]
    /\ UNCHANGED <<clock, dep, head, image, fence, record, faults, api>>

aggregate_service_freshness ==
    LET fresh == {i \in Identities : Stored(i) # NoRecord /\ clock - Stored(i).at <= TTL}
    IN  Cardinality(fresh) >= MIN_INSTANCES

(***************************************************************************)
(* The release identity: the script tree of the image, or else what the    *)
(* build or the environment says of it.                                    *)
(***************************************************************************)
BuildClaim == CASE image.baked = "none" -> image.env
                [] image.baked = "no head" -> "none"
                [] OTHER -> image.baked

code_migration_head == IF image.tree THEN "code" ELSE "none"

expected_db_migration ==
    IF code_migration_head # "none" THEN code_migration_head ELSE BuildClaim

\* Mutant: the heads are reported, as /version does, and not compared.
_check_migrations_Reported == expected_db_migration # "none" /\ head # "none"

_check_migrations ==
    /\ expected_db_migration # "none"
    /\ head # "none"
    /\ expected_db_migration = head

_check_heartbeats == MIN_INSTANCES = 0 \/ aggregate_service_freshness

(***************************************************************************)
(* The probes.  The first WORKERS of the pool run; a probe ends when its   *)
(* dependency answers or the driver gives it up; the request waiting for   *)
(* it gives it up when it is not answered in time, and leaves it there.    *)
(***************************************************************************)
Probe(check) ==
    /\ dep[DepOf(check)] = "up"
    /\ check = "migrations" => _check_migrations
    /\ check = "heartbeats" => _check_heartbeats

Answered(check, ok) == [req EXCEPT ![lock].checks[check] = IF ok THEN "ok" ELSE "failed"]

Finish(n) ==
    /\ n <= WORKERS
    /\ pool' = RemoveAt(pool, n)
    /\ req' = IF pool[n].waited THEN Answered(pool[n].check, Probe(pool[n].check)) ELSE req
    /\ UNCHANGED <<fleet, lock, cached>>

_await_probe_timeout(n) ==
    /\ pool[n].waited
    /\ n > WORKERS \/ dep[DepOf(pool[n].check)] = "hung"
    /\ pool' = [pool EXCEPT ![n].waited = FALSE]
    /\ req' = Answered(pool[n].check, FALSE)
    /\ UNCHANGED <<fleet, lock, cached>>

NextCheck(r) == SelectInSeq(Checks, LAMBDA c : req[r].checks[c] = "open")

(* One check of a generation: its probe is submitted, or it fails unasked  *)
(* behind the dependency it needs.                                         *)
_compute_ready_response(r) ==
    /\ lock = r
    /\ NextCheck(r) # 0
    /\ \A n \in 1..Len(pool) : ~pool[n].waited
    /\ LET check == Checks[NextCheck(r)]
       IN  IF check # DepOf(check) /\ req[r].checks[DepOf(check)] = "failed"
           THEN req' = Answered(check, FALSE) /\ UNCHANGED pool
           ELSE pool' = Append(pool, [check |-> check, waited |-> TRUE]) /\ UNCHANGED req
    /\ UNCHANGED <<fleet, lock, cached>>

Conclude(r) ==
    LET ok == \A c \in ToSet(Checks) : req[r].checks[c] = "ok"
    IN  /\ lock = r
        /\ NextCheck(r) = 0
        /\ req' = [req EXCEPT ![r].at = "answered", ![r].ready = ok]
        /\ cached' = IF ok THEN "ready" ELSE "not ready"
        /\ lock' = "free"
        /\ UNCHANGED <<fleet, pool>>

ready(r) ==
    /\ req[r].at = "idle"
    /\ IF lock = "free"
       THEN lock' = r /\ req' = [req EXCEPT ![r].at = "probing"]
       ELSE /\ req' = IF cached # "none"
                      THEN [req EXCEPT ![r].at = "answered", ![r].stale = TRUE,
                                       ![r].ready = cached = "ready"]
                      ELSE [req EXCEPT ![r].at = "waiting"]
            /\ UNCHANGED lock
    /\ UNCHANGED <<fleet, cached, pool>>

Acquire(r) ==
    /\ req[r].at = "waiting"
    /\ lock = "free"
    /\ lock' = r
    /\ req' = [req EXCEPT ![r].at = "probing"]
    /\ UNCHANGED <<fleet, cached, pool>>

(***************************************************************************)
(* The environment: time, faults and repairs, a migration.                 *)
(***************************************************************************)
Tick ==
    /\ clock < MaxClock
    /\ clock' = clock + 1
    /\ UNCHANGED <<dep, head, image, fence, record, proc, faults, api>>

Fault(d, how) ==
    /\ dep[d] # how
    /\ how # "up" => faults < MaxFaults
    /\ dep' = [dep EXCEPT ![d] = how]
    /\ faults' = IF how = "up" THEN faults ELSE faults + 1
    /\ UNCHANGED <<clock, head, image, fence, record, proc, api>>

Migrate ==
    /\ head = "other"
    /\ head' = "code"
    /\ UNCHANGED <<clock, dep, image, fence, record, proc, faults, api>>

Step ==
    \/ \E p \in Processes : start(p) \/ BeatRead(p) \/ write_heartbeat(p) \/ stop(p)
    \/ \E r \in Requests : \/ ready(r) \/ Acquire(r)
                           \/ _compute_ready_response(r) \/ Conclude(r)
    \/ \E n \in 1..Len(pool) : Finish(n) \/ _await_probe_timeout(n)
    \/ Tick \/ Migrate
    \/ \E d \in {"database", "redis"}, how \in {"up", "down", "hung"} : Fault(d, how)

(* What was true at some moment of the generation in flight.               *)
Facts == {d \in {"database", "redis"} : dep[d] = "up"}
         \union {f \in {"migrations"} : expected_db_migration = head}
         \union {f \in {"heartbeats"} : clock - lastUp <= TTL}

Watch ==
    /\ lastUp' = IF \E p \in Processes : proc'[p].st \in {"up", "writing"}
                 THEN clock' ELSE lastUp
    /\ held' = IF lock' = "free" THEN {} ELSE IF lock # lock' THEN Facts' ELSE held \union Facts'

Next == Step /\ Watch

Spec == Init /\ [][Next]_vars

(* A generation about to answer 200 has earned it: at some moment of the   *)
(* generation the database answered, at one Redis did, at one the heads    *)
(* were equal, and at one a process of the required service had been       *)
(* running within one TTL.  A probe left behind by an earlier generation,  *)
(* a record nobody refreshes and a verdict of a check that was never run   *)
(* count for nothing.                                                      *)
ReadyIsEarned ==
    \A r \in Requests :
        lock = r /\ (\A c \in ToSet(Checks) : req[r].checks[c] = "ok") =>
            ToSet(Checks) \subseteq held

(* What ready.py says of its timeboxes: "one hung dependency cannot delay  *)
(* or hide the verdict on the other".                                      *)
RedisFails == /\ lock # "free"
              /\ req[lock].checks["redis"] = "open"
              /\ req'[lock].checks["redis"] = "failed"
HungHidesNoOther == [][RedisFails => dep["redis"] # "up"]_vars

(* What ready.py says of an unresolved head: an image whose script tree    *)
(* cannot be read fails the check.                                         *)
UnresolvedFails == \A r \in Requests : req[r].ready => image.tree

(* What heartbeat.py says of a lost race: the higher fence stays.          *)
FenceLowered == \E i \in Identities : /\ Stored(i) # NoRecord
                                      /\ record'[i].fence < record[i].fence
HigherFenceStays == [][~FenceLowered]_vars

(* What heartbeat.py says of a zombie: a process whose replacement has     *)
(* beaten never refreshes the key again.                                   *)
ZombieLockedOut == [][\A i \in Identities : record'[i].fence >= record[i].fence]_vars
=============================================================================
