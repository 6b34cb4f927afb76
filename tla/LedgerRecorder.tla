--------------------------- MODULE LedgerRecorder ---------------------------
(***************************************************************************)
(* The writer of the network ledger at the network boundary: the           *)
(* downloader middleware of a spider process (netledger_middleware.py),    *)
(* its recorder (netledger/recorder.py) and the local event queue all      *)
(* processes of a host share (netledger/buffer.py).  A row is opened       *)
(* before the socket and closed once after it; a close that fails and the  *)
(* sub-resources of a page go through the queue and are replayed by a      *)
(* flush of this process or of another.  Any write may fail, before or     *)
(* after its commit, and a process may die between two of them.            *)
(***************************************************************************)
EXTENDS Integers, FiniteSets, TLAPS

CONSTANTS Processes, Ops,
          Pages,           \* operations of a browser page, with one sub-resource each
          Priced,          \* pages whose sub-resource carries a cost and an allocation
          None,
          MaxFails, MaxCrashes

ASSUME PagesAssumption == Priced \subseteq Pages /\ Pages \subseteq Ops

VARIABLES ledger, accrued, child, buf, phase, owner, intents, flush, fails, crashes, overlapped

vars == <<ledger, accrued, child, buf, phase, owner, intents, flush, fails, crashes, overlapped>>

NoFlush == [on |-> FALSE, todo |-> {}, done |-> {}, cur |-> None, known |-> FALSE]
Batch(events) == [on |-> TRUE, todo |-> events, done |-> {}, cur |-> None, known |-> FALSE]
CLOSE_RECOVERY(o, outcome) == [kind |-> "close", of |-> o, outcome |-> outcome]
CHILD_OPERATION(o) == [kind |-> "child", of |-> o, outcome |-> "real"]
Fail == fails < MaxFails /\ fails' = fails + 1

Init ==
    /\ ledger = [o \in Ops |-> "none"] /\ accrued = [o \in Ops |-> 0] /\ child = [o \in Ops |-> 0]
    /\ buf = {} /\ phase = [o \in Ops |-> "new"] /\ owner = [o \in Ops |-> None]
    /\ intents = [p \in Processes |-> {}] /\ flush = [p \in Processes |-> NoFlush]
    /\ fails = 0 /\ crashes = 0 /\ overlapped = FALSE

(***************************************************************************)
(* Open, fetch, close                                                      *)
(***************************************************************************)
\* Mutant: a ledger that cannot be written does not stop the fetch.
Refused_No == "opened"

\* LedgerOpenError becomes IgnoreRequest.
Refused == "ignored"

\* The row is committed before the request goes on; a failed insert, and a commit whose answer
\* is lost, both refuse the request.
open_sync(p, o) ==
    /\ phase[o] = "new"
    /\ owner' = [owner EXCEPT ![o] = p]
    /\ \/ /\ ledger' = [ledger EXCEPT ![o] = "open"] /\ phase' = [phase EXCEPT ![o] = "opened"]
          /\ intents' = [intents EXCEPT ![p] = @ \cup {o}] /\ UNCHANGED fails
       \/ /\ Fail /\ phase' = [phase EXCEPT ![o] = Refused]
          /\ \/ UNCHANGED ledger
             \/ ledger' = [ledger EXCEPT ![o] = "open"]
          /\ UNCHANGED intents
    /\ UNCHANGED <<accrued, child, buf, flush, crashes, overlapped>>

\* Bytes move.
Fetch(o) ==
    /\ phase[o] = "opened"
    /\ phase' = [phase EXCEPT ![o] = "fetched"]
    /\ UNCHANGED <<ledger, accrued, child, buf, owner, intents, flush, fails, crashes, overlapped>>

\* close_sync: the request is marked, the sub-resources go to the queue; a queue that cannot be
\* written raises, and the close below is not reached.
_drain_subresources(o) ==
    /\ phase[o] = "fetched"
    /\ \/ /\ phase' = [phase EXCEPT ![o] = "closing"]
          /\ buf' = IF o \in Pages THEN buf \cup {CHILD_OPERATION(o)} ELSE buf
          /\ UNCHANGED fails
       \/ /\ o \in Pages /\ Fail /\ phase' = [phase EXCEPT ![o] = "abandoned"] /\ UNCHANGED buf
    /\ UNCHANGED <<ledger, accrued, child, owner, intents, flush, crashes, overlapped>>

\* The UPDATE of an open row; a closed one is left as it is.
_apply_close(o, outcome) == IF ledger[o] = "open" THEN outcome ELSE ledger[o]

\* Mutant: a close that fails is forgotten.
Deferred_Dropped(o) == buf

Deferred(o) == buf \cup {CLOSE_RECOVERY(o, "real")}

\* The close succeeds, or it fails (before or after its commit) and is queued, or the queue
\* fails with it and the loss is logged.  A queued close stays among the open intents.
close(o) ==
    /\ phase[o] = "closing"
    /\ \/ /\ ledger' = [ledger EXCEPT ![o] = _apply_close(o, "real")]
          /\ phase' = [phase EXCEPT ![o] = IF ledger[o] = "open" THEN "settling" ELSE "closed"]
          /\ intents' = [intents EXCEPT ![owner[o]] = @ \ {o}] /\ UNCHANGED <<buf, fails>>
       \/ /\ Fail
          /\ \/ UNCHANGED ledger
             \/ ledger' = [ledger EXCEPT ![o] = _apply_close(o, "real")]
          /\ \/ buf' = Deferred(o) /\ phase' = [phase EXCEPT ![o] = "deferred"]
             \/ UNCHANGED buf /\ phase' = [phase EXCEPT ![o] = "lost"]
          /\ UNCHANGED intents
    /\ UNCHANGED <<accrued, child, owner, flush, crashes, overlapped>>

\* settle_partial runs after the commit, for the close that closed the row; its failure is logged.
_settle(o) ==
    /\ phase[o] = "settling"
    /\ phase' = [phase EXCEPT ![o] = "closed"]
    /\ \/ accrued' = [accrued EXCEPT ![o] = @ + 1] /\ UNCHANGED fails
       \/ Fail /\ UNCHANGED accrued
    /\ UNCHANGED <<ledger, child, buf, owner, intents, flush, crashes, overlapped>>

(***************************************************************************)
(* Flush: by any process of the host, at its start, its end and after a    *)
(* page.                                                                   *)
(***************************************************************************)
Pending(p) ==
    /\ ~flush[p].on /\ buf # {}
    /\ flush' = [flush EXCEPT ![p] = Batch(buf)]
    /\ overlapped' = (overlapped \/ \E q \in Processes \ {p} : flush[q].on)
    /\ UNCHANGED <<ledger, accrued, child, buf, phase, owner, intents, fails, crashes>>

\* Mutant: the insert is not preceded by a look.
Known_Never(e) == FALSE

Known(e) == e.kind = "child" /\ child[e.of] > 0

\* The next event is taken; for a sub-resource its row is looked up.
FlushRead(p, e) ==
    /\ flush[p].on /\ flush[p].cur = None /\ e \in flush[p].todo
    /\ flush' = [flush EXCEPT ![p].cur = e, ![p].todo = @ \ {e}, ![p].known = Known(e)]
    /\ UNCHANGED <<ledger, accrued, child, buf, phase, owner, intents, fails, crashes, overlapped>>

\* Mutant: an event that could not be written is resolved with the rest.
Kept_Resolved(p, e) == flush' = [flush EXCEPT ![p].cur = None, ![p].done = @ \cup {e}]

\* A failed event is deferred: it stays in the queue.
Kept(p, e) == flush' = [flush EXCEPT ![p].cur = None]

Wrote(p, e) == flush' = [flush EXCEPT ![p].cur = None, ![p].done = @ \cup {e}]

\* The insert of a sub-resource and its close are one transaction; the unique allocation of a
\* priced one is the only constraint a second copy meets.
_write_child(p) ==
    LET e == flush[p].cur
        o == e.of
        second == ~flush[p].known /\ child[o] > 0
    IN  /\ flush[p].cur # None /\ e.kind = "child"
        /\ \/ /\ ~(second /\ o \in Priced)
              /\ child' = [child EXCEPT ![o] = IF flush[p].known THEN @ ELSE @ + 1]
              /\ Wrote(p, e) /\ UNCHANGED fails
           \/ /\ second /\ o \in Priced /\ Kept(p, e) /\ UNCHANGED <<child, fails>>
           \/ /\ Fail /\ Kept(p, e) /\ UNCHANGED child
        /\ UNCHANGED <<ledger, accrued, buf, phase, owner, intents, crashes, overlapped>>

\* Mutant: a replay accrues whether or not it closed the row.
Accrues_Always(e) == e.outcome = "real"

\* Only the close that closed the row accrues, and a dangling one never does.
Accrues(e) == ledger[e.of] = "open" /\ e.outcome = "real"

_replay_close(p) ==
    LET e == flush[p].cur
        o == e.of
    IN  /\ flush[p].cur # None /\ e.kind = "close"
        /\ \/ /\ ledger' = [ledger EXCEPT ![o] = _apply_close(o, e.outcome)]
              /\ accrued' = [accrued EXCEPT ![o] = IF Accrues(e) THEN @ + 1 ELSE @]
              /\ Wrote(p, e) /\ UNCHANGED fails
           \/ /\ Fail /\ Kept(p, e) /\ UNCHANGED <<ledger, accrued>>
        /\ UNCHANGED <<child, buf, phase, owner, intents, crashes, overlapped>>

\* What was written is deleted from the queue when the batch is through.
resolve(p) ==
    /\ flush[p].on /\ flush[p].cur = None /\ flush[p].todo = {}
    /\ buf' = buf \ flush[p].done
    /\ flush' = [flush EXCEPT ![p] = NoFlush]
    /\ UNCHANGED <<ledger, accrued, child, phase, owner, intents, fails, crashes, overlapped>>

(***************************************************************************)
(* The end of a process                                                    *)
(***************************************************************************)
\* spider_closed: what is still an open intent is closed as unterminated, before the flush.
_close_dangling(p, o) ==
    /\ o \in intents[p] /\ phase[o] \in {"opened", "abandoned", "deferred", "lost"}
    /\ \A r \in Ops : owner[r] = p => phase[r] \notin {"fetched", "closing", "settling"}
    /\ \/ /\ ledger' = [ledger EXCEPT ![o] = _apply_close(o, "dangling")]
          /\ intents' = [intents EXCEPT ![p] = @ \ {o}] /\ UNCHANGED <<buf, fails>>
       \/ /\ Fail /\ buf' = buf \cup {CLOSE_RECOVERY(o, "dangling")}
          /\ intents' = [intents EXCEPT ![p] = @ \ {o}] /\ UNCHANGED ledger
    /\ phase' = [phase EXCEPT ![o] = IF @ = "opened" THEN "unfetched" ELSE @]
    /\ UNCHANGED <<accrued, child, owner, flush, crashes, overlapped>>

\* The process dies; the next one has its id and starts with an empty memory.
Crash(p) ==
    /\ crashes < MaxCrashes /\ crashes' = crashes + 1
    /\ intents' = [intents EXCEPT ![p] = {}] /\ flush' = [flush EXCEPT ![p] = NoFlush]
    /\ phase' = [o \in Ops |-> IF owner[o] = p /\ phase[o] \in {"opened", "fetched", "closing", "settling"}
                               THEN "crashed" ELSE phase[o]]
    /\ UNCHANGED <<ledger, accrued, child, buf, owner, fails, overlapped>>

Next ==
    \/ \E p \in Processes, o \in Ops : open_sync(p, o) \/ _close_dangling(p, o)
    \/ \E o \in Ops : Fetch(o) \/ _drain_subresources(o) \/ close(o) \/ _settle(o)
    \/ \E p \in Processes : Pending(p) \/ _write_child(p) \/ _replay_close(p) \/ resolve(p) \/ Crash(p)
    \/ \E p \in Processes : \E e \in flush[p].todo : FlushRead(p, e)

Spec == Init /\ [][Next]_vars

----------------------------------------------------------------------------
InBuffer(kind, o) == \E e \in buf : e.kind = kind /\ e.of = o
Finished == {o \in Ops : phase[o] \in {"deferred", "settling", "closed"}}

\* No socket without a ledger row.
NoSocketWithoutRow == \A o \in Ops : phase[o] \in {"fetched", "closing"} \cup {"opened"} => ledger[o] # "none"

\* A close that returned is in the ledger or in the queue, through failed writes, failed flushes
\* and processes that die between a write and the deletion of its event.
CloseKept ==
    \A o \in Finished : ledger[o] \in {"real", "dangling"} \/ InBuffer("close", o)

\* An operation accrues at most once, and only when its real outcome stands in the ledger,
\* however often its close is replayed and by however many processes.
AccruedOnce == \A o \in Ops : accrued[o] <= 1 /\ (accrued[o] = 1 => ledger[o] = "real")

\* A sub-resource handed over is in the ledger or in the queue.
ChildKept ==
    \A o \in Pages : phase[o] \in {"closing", "settling", "closed", "deferred", "lost"} =>
        child[o] > 0 \/ InBuffer("child", o)

\* It has one row, but for one that carries no cost and was flushed by two processes at once.
ChildOnce == \A o \in Pages : child[o] <= 1 \/ (overlapped /\ o \notin Priced)

\* The rows of the ledger, of requests and of sub-resources.
LedgerKept == NoSocketWithoutRow /\ ChildOnce

\* recorder.py: "The operation stays OPEN in the ledger until that replay succeeds".  A deferred
\* close ends with its own outcome.
DeferredCloseStands == \A o \in Ops : phase[o] = "deferred" => ledger[o] # "dangling"

\* buffer.py: the identity is "a unique column -- a replayed insert collides and is skipped".
ReplayCollides == \A o \in Pages : child[o] <= 1
----------------------------------------------------------------------------
(* Proofs, for any number of processes, operations and pages, and any number *)
(* of failures and crashes.                                                  *)

Event == [kind : {"close", "child"}, of : Ops, outcome : {"real", "dangling"}]
Flush == [on : BOOLEAN, todo : SUBSET Event, done : SUBSET Event, cur : Event \cup {None},
          known : BOOLEAN]
Phase == {"new", "ignored", "opened", "fetched", "closing", "abandoned", "settling",
          "closed", "deferred", "lost", "unfetched", "crashed"}

\* Every row, event and flush is one the code can build.
TypeInv ==
  /\ ledger \in [Ops -> {"none", "open", "real", "dangling"}]
  /\ accrued \in [Ops -> Nat] /\ child \in [Ops -> Nat]
  /\ buf \in SUBSET Event /\ phase \in [Ops -> Phase]
  /\ flush \in [Processes -> Flush] /\ overlapped \in BOOLEAN

\* What a request has become says what its row is: no row before it is opened, one
\* ever after, and the row is closed once its close has been answered.
RowOK ==
  \A o \in Ops :
    /\ phase[o] = "new" => ledger[o] = "none"
    /\ phase[o] \notin {"new", "ignored"} => ledger[o] # "none"
    /\ phase[o] = "settling" => ledger[o] = "real" /\ accrued[o] = 0
    /\ phase[o] = "closed" => ledger[o] \in {"real", "dangling"}

\* The cost is charged by the step that closes the row, or by the one after it.
CostOK ==
  \A o \in Ops :
    /\ accrued[o] <= 1
    /\ ledger[o] # "real" => accrued[o] = 0

\* Everything a flush has in hand: the events it has still to write, and those it
\* wrote, whose rows are in the ledger.
InHand(p) == flush[p].todo \cup ({flush[p].cur} \ {None})
Written(e) ==
  /\ e.kind = "close" => ledger[e.of] \in {"real", "dangling"}
  /\ e.kind = "child" => child[e.of] > 0

\* A queued close is of an operation that has a row, and a flush resolves what it wrote.
QueueOK ==
  /\ \A e \in buf : e.kind = "close" => ledger[e.of] # "none"
  /\ \A p \in Processes :
       /\ \A e \in InHand(p) : e.kind = "close" => ledger[e.of] # "none"
       /\ \A e \in flush[p].done : Written(e)

\* A sub-resource a flush has seen has its row, and one it has not seen gets a second
\* row only from two flushes at once.
SeenOK ==
  \A p \in Processes : flush[p].cur # None =>
    /\ flush[p].on
    /\ flush[p].cur.kind = "child" =>
         /\ flush[p].known => child[flush[p].cur.of] > 0
         /\ ~flush[p].known /\ child[flush[p].cur.of] > 0 => overlapped

\* Two flushes at once have been noticed.
AloneOK == \A p, q \in Processes : p # q /\ flush[p].on /\ flush[q].on => overlapped

IInv ==
  /\ TypeInv /\ RowOK /\ CostOK /\ QueueOK /\ SeenOK /\ AloneOK
  /\ CloseKept /\ ChildKept /\ ChildOnce

\* Nothing has been opened, queued or written.
LEMMA InitInv == Init => IInv
<1> SUFFICES ASSUME Init PROVE IInv
  OBVIOUS
<1>1. NoFlush \in Flush
  BY DEF NoFlush, Flush
<1>2. TypeInv
  BY <1>1 DEF TypeInv, Init, Phase
<1>3. RowOK /\ CostOK
  BY DEF RowOK, CostOK, Init
<1>4. QueueOK /\ SeenOK /\ AloneOK
  BY DEF QueueOK, SeenOK, AloneOK, InHand, Init, NoFlush
<1>5. CloseKept /\ ChildKept /\ ChildOnce
  BY PagesAssumption DEF CloseKept, Finished, ChildKept, ChildOnce, Init
<1> QED BY <1>2, <1>3, <1>4, <1>5 DEF IInv

------------------------------------------------------------------------------
(* Types                                                                     *)

\* What a flush does to its own record keeps the record's type.
LEMMA FlushType ==
  ASSUME TypeInv, NEW p \in Processes, NEW e \in Event
  PROVE  /\ Wrote(p, e) => flush' \in [Processes -> Flush]
         /\ Kept(p, e) => flush' \in [Processes -> Flush]
BY DEF TypeInv, Flush, NoFlush, Wrote, Kept

\* Every step keeps the types.
LEMMA TypeStep == TypeInv /\ [Next]_vars => TypeInv'
<1> SUFFICES ASSUME TypeInv, [Next]_vars PROVE TypeInv'
  OBVIOUS
<1> USE DEF TypeInv
<1>1. ASSUME NEW p \in Processes, NEW o \in Ops, open_sync(p, o) PROVE TypeInv'
  BY <1>1 DEF open_sync, Refused, Phase
<1>2. ASSUME NEW p \in Processes, NEW o \in Ops, _close_dangling(p, o) PROVE TypeInv'
  <2>1. CLOSE_RECOVERY(o, "dangling") \in Event
    BY DEF CLOSE_RECOVERY, Event
  <2> QED BY <1>2, <2>1 DEF _close_dangling, _apply_close, Phase
<1>3. ASSUME NEW o \in Ops, Fetch(o) PROVE TypeInv'
  BY <1>3 DEF Fetch, Phase
<1>4. ASSUME NEW o \in Ops, _drain_subresources(o) PROVE TypeInv'
  <2>1. CHILD_OPERATION(o) \in Event
    BY DEF CHILD_OPERATION, Event
  <2> QED BY <1>4, <2>1 DEF _drain_subresources, Phase
<1>5. ASSUME NEW o \in Ops, close(o) PROVE TypeInv'
  <2>1. CLOSE_RECOVERY(o, "real") \in Event
    BY DEF CLOSE_RECOVERY, Event
  <2> QED BY <1>5, <2>1 DEF close, Deferred, _apply_close, Phase
<1>6. ASSUME NEW o \in Ops, _settle(o) PROVE TypeInv'
  BY <1>6 DEF _settle, Phase
<1>7. ASSUME NEW p \in Processes, Pending(p) PROVE TypeInv'
  <2>1. Batch(buf) \in Flush
    BY DEF Batch, Flush
  <2>2. overlapped' \in BOOLEAN
    BY <1>7 DEF Pending
  <2> QED BY <1>7, <2>1, <2>2 DEF Pending
<1>8. ASSUME NEW p \in Processes, NEW e \in flush[p].todo, FlushRead(p, e) PROVE TypeInv'
  <2>1. e \in Event /\ Known(e) \in BOOLEAN
    BY DEF Flush, Known
  <2>2. flush' \in [Processes -> Flush]
    BY <1>8, <2>1 DEF FlushRead, Flush
  <2> QED BY <1>8, <2>2 DEF FlushRead
<1>9. ASSUME NEW p \in Processes, _write_child(p) PROVE TypeInv'
  <2>1. flush[p].cur \in Event
    BY <1>9 DEF _write_child, Flush
  <2>2. flush' \in [Processes -> Flush]
    BY <1>9, <2>1, FlushType DEF _write_child
  <2>3. child' \in [Ops -> Nat]
    BY <1>9, <2>1 DEF _write_child, Event
  <2> QED BY <1>9, <2>2, <2>3 DEF _write_child
<1>10. ASSUME NEW p \in Processes, _replay_close(p) PROVE TypeInv'
  <2>1. flush[p].cur \in Event
    BY <1>10 DEF _replay_close, Flush
  <2>2. flush' \in [Processes -> Flush]
    BY <1>10, <2>1, FlushType DEF _replay_close
  <2>3. accrued' \in [Ops -> Nat] /\ ledger' \in [Ops -> {"none", "open", "real", "dangling"}]
    BY <1>10, <2>1 DEF _replay_close, _apply_close, Event
  <2> QED BY <1>10, <2>2, <2>3 DEF _replay_close
<1>11. ASSUME NEW p \in Processes, resolve(p) PROVE TypeInv'
  <2>1. NoFlush \in Flush
    BY DEF NoFlush, Flush
  <2> QED BY <1>11, <2>1 DEF resolve
<1>12. ASSUME NEW p \in Processes, Crash(p) PROVE TypeInv'
  <2>1. NoFlush \in Flush
    BY DEF NoFlush, Flush
  <2> QED BY <1>12, <2>1 DEF Crash, Phase
<1>13. CASE UNCHANGED vars
  BY <1>13 DEF vars
<1> QED BY <1>1, <1>2, <1>3, <1>4, <1>5, <1>6, <1>7, <1>8, <1>9, <1>10, <1>11, <1>12, <1>13 DEF Next

------------------------------------------------------------------------------
(* The invariant                                                             *)

\* Every step keeps the invariant: one step per action, one leaf per conjunct.
LEMMA InvStep == IInv /\ [Next]_vars => IInv'
<1> SUFFICES ASSUME IInv, [Next]_vars PROVE IInv'
  OBVIOUS
<1>t. TypeInv'
  BY TypeStep DEF IInv
<1> USE PagesAssumption DEF IInv
<1>1. ASSUME NEW p \in Processes, NEW o \in Ops, open_sync(p, o) PROVE IInv'
  <2>1. RowOK'
    BY <1>1, <1>t DEF open_sync, Refused, RowOK, TypeInv
  <2>2. CostOK'
    BY <1>1, <1>t DEF open_sync, Refused, CostOK, RowOK, TypeInv
  <2>3. QueueOK'
    BY <1>1, <1>t DEF open_sync, Refused, QueueOK, RowOK, SeenOK, InHand, Written, TypeInv, Flush, Event
  <2>4. SeenOK'
    BY <1>1, <1>t DEF open_sync, Refused, SeenOK, AloneOK, TypeInv, Flush, Event
  <2>5. AloneOK'
    BY <1>1, <1>t DEF open_sync, Refused, AloneOK, TypeInv, Flush
  <2>6. CloseKept'
    BY <1>1, <1>t DEF open_sync, Refused, CloseKept, Finished, InBuffer, RowOK, QueueOK, Written, TypeInv, Event
  <2>7. ChildKept'
    BY <1>1, <1>t DEF open_sync, Refused, ChildKept, InBuffer, QueueOK, Written, TypeInv, Event
  <2>8. ChildOnce'
    BY <1>1, <1>t DEF open_sync, Refused, ChildOnce, SeenOK, TypeInv, Flush, Event
  <2> QED BY <1>t, <2>1, <2>2, <2>3, <2>4, <2>5, <2>6, <2>7, <2>8
<1>2. ASSUME NEW p \in Processes, NEW o \in Ops, _close_dangling(p, o) PROVE IInv'
  <2>1. RowOK'
    BY <1>2, <1>t DEF _close_dangling, _apply_close, CLOSE_RECOVERY, RowOK, TypeInv
  <2>2. CostOK'
    BY <1>2, <1>t DEF _close_dangling, _apply_close, CLOSE_RECOVERY, CostOK, RowOK, TypeInv
  <2>3. QueueOK'
    BY <1>2, <1>t DEF _close_dangling, _apply_close, CLOSE_RECOVERY, QueueOK, RowOK, SeenOK, InHand, Written, TypeInv, Flush, Event
  <2>4. SeenOK'
    BY <1>2, <1>t DEF _close_dangling, _apply_close, CLOSE_RECOVERY, SeenOK, AloneOK, TypeInv, Flush, Event
  <2>5. AloneOK'
    BY <1>2, <1>t DEF _close_dangling, _apply_close, CLOSE_RECOVERY, AloneOK, TypeInv, Flush
  <2>6. CloseKept'
    BY <1>2, <1>t DEF _close_dangling, _apply_close, CLOSE_RECOVERY, CloseKept, Finished, InBuffer, RowOK, QueueOK, Written, TypeInv, Event
  <2>7. ChildKept'
    BY <1>2, <1>t DEF _close_dangling, _apply_close, CLOSE_RECOVERY, ChildKept, InBuffer, QueueOK, Written, TypeInv, Event
  <2>8. ChildOnce'
    BY <1>2, <1>t DEF _close_dangling, _apply_close, CLOSE_RECOVERY, ChildOnce, SeenOK, TypeInv, Flush, Event
  <2> QED BY <1>t, <2>1, <2>2, <2>3, <2>4, <2>5, <2>6, <2>7, <2>8
<1>3. ASSUME NEW o \in Ops, Fetch(o) PROVE IInv'
  <2>1. RowOK'
    BY <1>3, <1>t DEF Fetch, RowOK, TypeInv
  <2>2. CostOK'
    BY <1>3, <1>t DEF Fetch, CostOK, RowOK, TypeInv
  <2>3. QueueOK'
    BY <1>3, <1>t DEF Fetch, QueueOK, RowOK, SeenOK, InHand, Written, TypeInv, Flush, Event
  <2>4. SeenOK'
    BY <1>3, <1>t DEF Fetch, SeenOK, AloneOK, TypeInv, Flush, Event
  <2>5. AloneOK'
    BY <1>3, <1>t DEF Fetch, AloneOK, TypeInv, Flush
  <2>6. CloseKept'
    BY <1>3, <1>t DEF Fetch, CloseKept, Finished, InBuffer, RowOK, QueueOK, Written, TypeInv, Event
  <2>7. ChildKept'
    BY <1>3, <1>t DEF Fetch, ChildKept, InBuffer, QueueOK, Written, TypeInv, Event
  <2>8. ChildOnce'
    BY <1>3, <1>t DEF Fetch, ChildOnce, SeenOK, TypeInv, Flush, Event
  <2> QED BY <1>t, <2>1, <2>2, <2>3, <2>4, <2>5, <2>6, <2>7, <2>8
<1>4. ASSUME NEW o \in Ops, _drain_subresources(o) PROVE IInv'
  <2>1. RowOK'
    BY <1>4, <1>t DEF _drain_subresources, CHILD_OPERATION, RowOK, TypeInv
  <2>2. CostOK'
    BY <1>4, <1>t DEF _drain_subresources, CHILD_OPERATION, CostOK, RowOK, TypeInv
  <2>3. QueueOK'
    BY <1>4, <1>t DEF _drain_subresources, CHILD_OPERATION, QueueOK, RowOK, SeenOK, InHand, Written, TypeInv, Flush, Event
  <2>4. SeenOK'
    BY <1>4, <1>t DEF _drain_subresources, CHILD_OPERATION, SeenOK, AloneOK, TypeInv, Flush, Event
  <2>5. AloneOK'
    BY <1>4, <1>t DEF _drain_subresources, CHILD_OPERATION, AloneOK, TypeInv, Flush
  <2>6. CloseKept'
    BY <1>4, <1>t DEF _drain_subresources, CHILD_OPERATION, CloseKept, Finished, InBuffer, RowOK, QueueOK, Written, TypeInv, Event
  <2>7. ChildKept'
    <3> USE <1>4, <1>t DEF _drain_subresources
    <3>1. \A r \in Pages \ {o} : phase'[r] = phase[r]
      BY PagesAssumption DEF TypeInv
    <3>2. o \in Pages /\ phase'[o] = "closing" => CHILD_OPERATION(o) \in buf'
      BY DEF TypeInv
    <3>3. buf \subseteq buf'
      OBVIOUS
    <3>4. phase'[o] \in {"closing", "abandoned"}
      BY DEF TypeInv
    <3> QED BY <3>1, <3>2, <3>3, <3>4 DEF ChildKept, InBuffer, CHILD_OPERATION
  <2>8. ChildOnce'
    BY <1>4, <1>t DEF _drain_subresources, CHILD_OPERATION, ChildOnce, SeenOK, TypeInv, Flush, Event
  <2> QED BY <1>t, <2>1, <2>2, <2>3, <2>4, <2>5, <2>6, <2>7, <2>8
<1>5. ASSUME NEW o \in Ops, close(o) PROVE IInv'
  <2>1. RowOK'
    BY <1>5, <1>t DEF close, Deferred, _apply_close, CLOSE_RECOVERY, RowOK, CostOK, TypeInv
  <2>2. CostOK'
    BY <1>5, <1>t DEF close, Deferred, _apply_close, CLOSE_RECOVERY, CostOK, RowOK, TypeInv
  <2>3. QueueOK'
    BY <1>5, <1>t DEF close, Deferred, _apply_close, CLOSE_RECOVERY, QueueOK, RowOK, SeenOK, InHand, Written, TypeInv, Flush, Event
  <2>4. SeenOK'
    BY <1>5, <1>t DEF close, Deferred, _apply_close, CLOSE_RECOVERY, SeenOK, AloneOK, TypeInv, Flush, Event
  <2>5. AloneOK'
    BY <1>5, <1>t DEF close, Deferred, _apply_close, CLOSE_RECOVERY, AloneOK, TypeInv, Flush
  <2>6. CloseKept'
    <3> USE <1>5, <1>t DEF close
    <3>1. \A r \in Finished' : r = o \/ r \in Finished
      BY DEF Finished, TypeInv
    <3>2. \A r \in Ops : ledger[r] \in {"real", "dangling"} => ledger'[r] \in {"real", "dangling"}
      BY DEF _apply_close, TypeInv
    <3>3. buf \subseteq buf'
      BY DEF Deferred
    <3>4. ASSUME o \in Finished' PROVE ledger'[o] \in {"real", "dangling"} \/ InBuffer("close", o)'
      <4>1. CASE buf' = Deferred(o)
        <5>1. CLOSE_RECOVERY(o, "real") \in buf'
          BY <4>1 DEF Deferred
        <5> QED BY <5>1 DEF InBuffer, CLOSE_RECOVERY
      <4>2. CASE buf' # Deferred(o)
        <5>1. phase'[o] \in {"settling", "closed"}
          BY <3>4, <4>2 DEF Finished, TypeInv
        <5>2. ledger' = [ledger EXCEPT ![o] = _apply_close(o, "real")]
          BY <5>1, <4>2 DEF TypeInv
        <5> QED BY <5>2 DEF _apply_close, TypeInv, RowOK
      <4> QED BY <4>1, <4>2
    <3> QED BY <3>1, <3>2, <3>3, <3>4 DEF CloseKept, InBuffer, Finished
  <2>7. ChildKept'
    BY <1>5, <1>t DEF close, Deferred, _apply_close, CLOSE_RECOVERY, ChildKept, InBuffer, QueueOK, Written, TypeInv, Event
  <2>8. ChildOnce'
    BY <1>5, <1>t DEF close, Deferred, _apply_close, CLOSE_RECOVERY, ChildOnce, SeenOK, TypeInv, Flush, Event
  <2> QED BY <1>t, <2>1, <2>2, <2>3, <2>4, <2>5, <2>6, <2>7, <2>8
<1>6. ASSUME NEW o \in Ops, _settle(o) PROVE IInv'
  <2>1. RowOK'
    BY <1>6, <1>t DEF _settle, RowOK, TypeInv
  <2>2. CostOK'
    BY <1>6, <1>t DEF _settle, CostOK, RowOK, TypeInv
  <2>3. QueueOK'
    BY <1>6, <1>t DEF _settle, QueueOK, RowOK, SeenOK, InHand, Written, TypeInv, Flush, Event
  <2>4. SeenOK'
    BY <1>6, <1>t DEF _settle, SeenOK, AloneOK, TypeInv, Flush, Event
  <2>5. AloneOK'
    BY <1>6, <1>t DEF _settle, AloneOK, TypeInv, Flush
  <2>6. CloseKept'
    BY <1>6, <1>t DEF _settle, CloseKept, Finished, InBuffer, RowOK, QueueOK, Written, TypeInv, Event
  <2>7. ChildKept'
    BY <1>6, <1>t DEF _settle, ChildKept, InBuffer, QueueOK, Written, TypeInv, Event
  <2>8. ChildOnce'
    BY <1>6, <1>t DEF _settle, ChildOnce, SeenOK, TypeInv, Flush, Event
  <2> QED BY <1>t, <2>1, <2>2, <2>3, <2>4, <2>5, <2>6, <2>7, <2>8
<1>7. ASSUME NEW p \in Processes, Pending(p) PROVE IInv'
  <2>1. RowOK'
    BY <1>7, <1>t DEF Pending, Batch, RowOK, TypeInv
  <2>2. CostOK'
    BY <1>7, <1>t DEF Pending, Batch, CostOK, RowOK, TypeInv
  <2>3. QueueOK'
    BY <1>7, <1>t DEF Pending, Batch, QueueOK, RowOK, SeenOK, InHand, Written, TypeInv, Flush, Event
  <2>4. SeenOK'
    BY <1>7, <1>t DEF Pending, Batch, SeenOK, AloneOK, TypeInv, Flush, Event
  <2>5. AloneOK'
    BY <1>7, <1>t DEF Pending, Batch, AloneOK, TypeInv, Flush
  <2>6. CloseKept'
    BY <1>7, <1>t DEF Pending, Batch, CloseKept, Finished, InBuffer, RowOK, QueueOK, Written, TypeInv, Event
  <2>7. ChildKept'
    BY <1>7, <1>t DEF Pending, Batch, ChildKept, InBuffer, QueueOK, Written, TypeInv, Event
  <2>8. ChildOnce'
    BY <1>7, <1>t DEF Pending, Batch, ChildOnce, SeenOK, TypeInv, Flush, Event
  <2> QED BY <1>t, <2>1, <2>2, <2>3, <2>4, <2>5, <2>6, <2>7, <2>8
<1>8. ASSUME NEW p \in Processes, NEW e \in flush[p].todo, FlushRead(p, e) PROVE IInv'
  <2>1. RowOK'
    BY <1>8, <1>t DEF FlushRead, Known, RowOK, TypeInv
  <2>2. CostOK'
    BY <1>8, <1>t DEF FlushRead, Known, CostOK, RowOK, TypeInv
  <2>0. /\ flush[p].on /\ flush'[p].on /\ flush'[p].cur = e /\ flush'[p].todo = flush[p].todo \ {e}
        /\ flush'[p].done = flush[p].done /\ flush'[p].known = Known(e)
        /\ \A q \in Processes \ {p} : flush'[q] = flush[q]
        /\ UNCHANGED <<ledger, child, buf, overlapped>>
    BY <1>8, <1>t DEF FlushRead, TypeInv, Flush
  <2>3. QueueOK'
    <3>1. \A q \in Processes : InHand(q)' \subseteq InHand(q) /\ flush'[q].done = flush[q].done
      BY <2>0 DEF InHand
    <3> QED BY <2>0, <3>1, <1>t DEF QueueOK, Written
  <2>4. SeenOK'
    <3>1. ASSUME NEW q \in Processes \ {p}, flush'[q].cur # None
          PROVE  /\ flush'[q].on
                 /\ flush'[q].cur.kind = "child" =>
                      /\ flush'[q].known => child'[flush'[q].cur.of] > 0
                      /\ ~flush'[q].known /\ child'[flush'[q].cur.of] > 0 => overlapped'
      BY <2>0, <3>1, <1>t DEF SeenOK
    <3> QED BY <2>0, <3>1 DEF SeenOK, Known
  <2>5. AloneOK'
    BY <1>8, <1>t DEF FlushRead, Known, AloneOK, TypeInv, Flush
  <2>6. CloseKept'
    BY <1>8, <1>t DEF FlushRead, Known, CloseKept, Finished, InBuffer, RowOK, QueueOK, Written, TypeInv, Event
  <2>7. ChildKept'
    BY <1>8, <1>t DEF FlushRead, Known, ChildKept, InBuffer, QueueOK, Written, TypeInv, Event
  <2>8. ChildOnce'
    BY <1>8, <1>t DEF FlushRead, Known, ChildOnce, SeenOK, TypeInv, Flush, Event
  <2> QED BY <1>t, <2>1, <2>2, <2>3, <2>4, <2>5, <2>6, <2>7, <2>8
<1>9. ASSUME NEW p \in Processes, _write_child(p) PROVE IInv'
  <2>0. UNCHANGED <<ledger, accrued, phase>>
    BY <1>9 DEF _write_child
  <2>1. RowOK'
    BY <2>0 DEF RowOK
  <2>2. CostOK'
    BY <2>0 DEF CostOK
  <2>3. QueueOK'
    BY <1>9, <1>t DEF _write_child, Wrote, Kept, QueueOK, RowOK, SeenOK, InHand, Written, TypeInv, Flush, Event
  <2>4. SeenOK'
    <3>1. /\ flush'[p].cur = None /\ \A q \in Processes \ {p} : flush'[q] = flush[q]
          /\ flush[p].cur # None /\ overlapped' = overlapped
      BY <1>9, <1>t DEF _write_child, Wrote, Kept, TypeInv, Flush
    <3>2. \A o \in Ops : child[o] > 0 => child'[o] > 0
      BY <1>9, <1>t DEF _write_child, TypeInv
    <3>3. ASSUME NEW q \in Processes, flush'[q].cur # None
          PROVE  /\ q # p /\ flush'[q] = flush[q] /\ flush[q].on /\ flush[p].on
                 /\ flush[q].cur \in Event
      BY <3>1, <3>3, <1>t DEF SeenOK, TypeInv, Flush
    <3>4. \A q \in Processes : flush'[q].cur # None => overlapped
      BY <3>3, <1>t DEF AloneOK
    <3> QED BY <3>1, <3>2, <3>3, <3>4, <1>t DEF SeenOK, Event
  <2>5. AloneOK'
    BY <1>9, <1>t DEF _write_child, Wrote, Kept, AloneOK, TypeInv, Flush
  <2>6. CloseKept'
    BY <1>9, <1>t DEF _write_child, Wrote, Kept, CloseKept, Finished, InBuffer, RowOK, QueueOK, Written, TypeInv, Event
  <2>7. ChildKept'
    BY <1>9, <1>t DEF _write_child, Wrote, Kept, ChildKept, InBuffer, QueueOK, Written, TypeInv, Event
  <2>8. ChildOnce'
    BY <1>9, <1>t DEF _write_child, Wrote, Kept, ChildOnce, SeenOK, TypeInv, Flush, Event
  <2> QED BY <1>t, <2>1, <2>2, <2>3, <2>4, <2>5, <2>6, <2>7, <2>8
<1>10. ASSUME NEW p \in Processes, _replay_close(p) PROVE IInv'
  <2>1. RowOK'
    <3>1. flush[p].cur \in Event
      BY <1>10, <1>t DEF _replay_close, TypeInv, Flush
    <3> QED BY <1>10, <1>t, <3>1 DEF _replay_close, _apply_close, Accrues, RowOK, TypeInv, Event
  <2>2. CostOK'
    BY <1>10, <1>t DEF _replay_close, Wrote, Kept, _apply_close, Accrues, CostOK, RowOK, TypeInv
  <2>3. QueueOK'
    BY <1>10, <1>t DEF _replay_close, Wrote, Kept, _apply_close, Accrues, QueueOK, RowOK, SeenOK, InHand, Written, TypeInv, Flush, Event
  <2>4. SeenOK'
    BY <1>10, <1>t DEF _replay_close, Wrote, Kept, _apply_close, Accrues, SeenOK, AloneOK, TypeInv, Flush, Event
  <2>5. AloneOK'
    BY <1>10, <1>t DEF _replay_close, Wrote, Kept, _apply_close, Accrues, AloneOK, TypeInv, Flush
  <2>6. CloseKept'
    BY <1>10, <1>t DEF _replay_close, Wrote, Kept, _apply_close, Accrues, CloseKept, Finished, InBuffer, RowOK, QueueOK, Written, TypeInv, Event
  <2>7. ChildKept'
    BY <1>10, <1>t DEF _replay_close, Wrote, Kept, _apply_close, Accrues, ChildKept, InBuffer, QueueOK, Written, TypeInv, Event
  <2>8. ChildOnce'
    BY <1>10, <1>t DEF _replay_close, Wrote, Kept, _apply_close, Accrues, ChildOnce, SeenOK, TypeInv, Flush, Event
  <2> QED BY <1>t, <2>1, <2>2, <2>3, <2>4, <2>5, <2>6, <2>7, <2>8
<1>11. ASSUME NEW p \in Processes, resolve(p) PROVE IInv'
  <2>1. RowOK'
    BY <1>11, <1>t DEF resolve, NoFlush, RowOK, TypeInv
  <2>2. CostOK'
    BY <1>11, <1>t DEF resolve, NoFlush, CostOK, RowOK, TypeInv
  <2>3. QueueOK'
    BY <1>11, <1>t DEF resolve, NoFlush, QueueOK, RowOK, SeenOK, InHand, Written, TypeInv, Flush, Event
  <2>4. SeenOK'
    BY <1>11, <1>t DEF resolve, NoFlush, SeenOK, AloneOK, TypeInv, Flush, Event
  <2>5. AloneOK'
    BY <1>11, <1>t DEF resolve, NoFlush, AloneOK, TypeInv, Flush
  <2>6. CloseKept'
    BY <1>11, <1>t DEF resolve, NoFlush, CloseKept, Finished, InBuffer, RowOK, QueueOK, Written, TypeInv, Event
  <2>7. ChildKept'
    BY <1>11, <1>t DEF resolve, NoFlush, ChildKept, InBuffer, QueueOK, Written, TypeInv, Event
  <2>8. ChildOnce'
    BY <1>11, <1>t DEF resolve, NoFlush, ChildOnce, SeenOK, TypeInv, Flush, Event
  <2> QED BY <1>t, <2>1, <2>2, <2>3, <2>4, <2>5, <2>6, <2>7, <2>8
<1>12. ASSUME NEW p \in Processes, Crash(p) PROVE IInv'
  <2>1. RowOK'
    BY <1>12, <1>t DEF Crash, NoFlush, RowOK, TypeInv
  <2>2. CostOK'
    BY <1>12, <1>t DEF Crash, NoFlush, CostOK, RowOK, TypeInv
  <2>3. QueueOK'
    BY <1>12, <1>t DEF Crash, NoFlush, QueueOK, RowOK, SeenOK, InHand, Written, TypeInv, Flush, Event
  <2>4. SeenOK'
    BY <1>12, <1>t DEF Crash, NoFlush, SeenOK, AloneOK, TypeInv, Flush, Event
  <2>5. AloneOK'
    BY <1>12, <1>t DEF Crash, NoFlush, AloneOK, TypeInv, Flush
  <2>6. CloseKept'
    BY <1>12, <1>t DEF Crash, NoFlush, CloseKept, Finished, InBuffer, RowOK, QueueOK, Written, TypeInv, Event
  <2>7. ChildKept'
    BY <1>12, <1>t DEF Crash, NoFlush, ChildKept, InBuffer, QueueOK, Written, TypeInv, Event
  <2>8. ChildOnce'
    BY <1>12, <1>t DEF Crash, NoFlush, ChildOnce, SeenOK, TypeInv, Flush, Event
  <2> QED BY <1>t, <2>1, <2>2, <2>3, <2>4, <2>5, <2>6, <2>7, <2>8
<1>13. CASE UNCHANGED vars
  BY <1>13, <1>t DEF vars, IInv, AloneOK, ChildKept, ChildOnce, CloseKept, CostOK, Event, Finished, Flush, InBuffer, InHand, QueueOK, RowOK, SeenOK, TypeInv, Written
<1> QED BY <1>1, <1>2, <1>3, <1>4, <1>5, <1>6, <1>7, <1>8, <1>9, <1>10, <1>11, <1>12, <1>13 DEF Next

------------------------------------------------------------------------------
(* What the ledger promises                                                  *)

\* Everything above holds in every reachable state.
LEMMA Inv == Spec => []IInv
<1>1. IInv /\ [Next]_vars => IInv'
  BY InvStep
<1> QED BY InitInv, <1>1, PTL DEF Spec

\* No operation is charged twice, and only one whose real outcome stands in the ledger is
\* charged, whatever is replayed, by however many processes, and whatever fails: only the
\* close that closes the row accrues (_apply_close, _replay_close, settle_partial).
THEOREM AccruesOnce == Spec => []AccruedOnce
<1>1. IInv => AccruedOnce
  BY DEF IInv, CostOK, AccruedOnce, TypeInv
<1> QED BY Inv, <1>1, PTL

\* A close that returned is in the ledger or still in the queue: an event leaves the queue
\* only after the flush that wrote it (recorder.flush, buffer.resolve).
THEOREM ClosesKept == Spec => []CloseKept
<1>1. IInv => CloseKept
  BY DEF IInv
<1> QED BY Inv, <1>1, PTL

\* A page's sub-resource is never lost between the queue and the ledger.
THEOREM ChildrenKept == Spec => []ChildKept
<1>1. IInv => ChildKept
  BY DEF IInv
<1> QED BY Inv, <1>1, PTL

\* No socket is opened without a row in the ledger (open_sync before the download), and a
\* sub-resource has one row unless two flushes overlapped and nothing priced it.
THEOREM RowsKept == Spec => []LedgerKept
<1>1. IInv => LedgerKept
  BY DEF IInv, RowOK, LedgerKept, NoSocketWithoutRow
<1> QED BY Inv, <1>1, PTL
==============================================================================
