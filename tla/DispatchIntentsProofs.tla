------------------------ MODULE DispatchIntentsProofs ------------------------
(* Proofs about the dispatch protocol, for any number of identities, nodes,  *)
(* deliveries and POSTs and any timing parameters.                           *)
EXTENDS DispatchIntents, TLAPS

\* The numeric constants, one by one.
LEMMA Bounds ==
  /\ MaxTime \in Nat /\ MaxPosts \in Nat /\ HttpTimeout \in Nat /\ NetDelay \in Nat
  /\ Lease \in Nat /\ Window \in Nat /\ Horizon \in Nat
  /\ Quorum \in Nat \ {0} /\ SentinelTTL \in Nat \ {0} /\ GuardTTL \in Nat \ {0}
  /\ Keep \in Nat \ {0}
BY BoundsAssumption

\* The constant values of the model have their types.
LEMMA ConstantRows ==
  /\ NoRow \in Row /\ Unsent \in Entry
  /\ Idle \in Local
BY Bounds DEF NoRow, Row, IntentStates, OPEN_QUESTION_STATES, Unsent, Entry, RunStates,
   Accepted, Idle, Local, PcStates, Brief, Never, Time

\* confirm() and record_absence() turn a row into a row.
LEMMA ConfirmedType ==
  ASSUME NEW row \in Row, now \in Time
  PROVE  Confirmed(row) \in Row
<1> 0 \in 0 .. Quorum
  BY Bounds
<1> QED BY DEF Confirmed, Row, IntentStates

\* An absence leaves a row a row.
LEMMA AbsenceType ==
  ASSUME NEW row \in Row, NEW t \in Time, NEW b \in BOOLEAN
  PROVE  record_absence(row, t, b) \in Row
<1> Observations(row) \in 0 .. Quorum
  BY Bounds DEF Observations, Row
<1> FirstAbsent(row, t) \in Time \cup {Never}
  BY DEF FirstAbsent, Row
<1> QED BY DEF record_absence, Row, IntentStates, OPEN_QUESTION_STATES

------------------------------------------------------------------------------
(* Type correctness                                                          *)

\* A busy execution works on an identity, and one that waits for an answer has
\* sent a request: without it the rows and runs it writes are not the job's.
WorkerOK ==
  \A d \in Deliveries :
    /\ me[d].pc # "idle" => me[d].who \in Identities
    /\ me[d].pc = "wait" => me[d].ticket \in Posts

TypeInv == TypeOK /\ WorkerOK

\* The initial state is well typed.
LEMMA InitType == Init => TypeInv
<1> SUFFICES ASSUME Init PROVE TypeInv
  OBVIOUS
<1>1. Idle \in Local /\ NoRow \in Row /\ Unsent \in Entry /\ NoGuard \in Guard
  BY ConstantRows DEF NoGuard, Guard, Never
<1>2. 0 \in Time
  BY Bounds DEF Time
<1>3. hist \in [Nodes -> Seq(Identities \X Posts)]
  BY DEF Init
<1>4. TypeOK
  BY <1>1, <1>2, <1>3 DEF TypeOK, Init
<1>5. WorkerOK
  BY DEF WorkerOK, Init, Idle
<1> QED BY <1>4, <1>5 DEF TypeInv

\* The types of what one execution changes in a step.
StepOK == /\ me' \in [Deliveries -> Local]
          /\ intent' \in [Identities -> Row]
          /\ WorkerOK'

\* The row a busy execution reads is a row.
LEMMA RowOfType ==
  ASSUME TypeInv, NEW d \in Deliveries, me[d].pc # "idle"
  PROVE  RowOf(d) \in Row
BY DEF TypeInv, TypeOK, WorkerOK, RowOf, Local

\* Moving on, with or without a row to write, and leaving keep the types.
LEMMA GotoType ==
  ASSUME TypeInv, NEW d \in Deliveries, me[d].pc # "idle",
         NEW label \in PcStates \ {"wait"}, Goto(d, label)
  PROVE  StepOK
<1>t. me \in [Deliveries -> Local] /\ me[d] \in Local
  BY DEF TypeInv, TypeOK
<1>0. [me[d] EXCEPT !.pc = label] \in Local
  BY <1>t DEF Local
<1>1. me' \in [Deliveries -> Local]
  BY <1>0, <1>t DEF Goto
<1>2. WorkerOK'
  BY <1>t DEF TypeInv, WorkerOK, Goto, Local
<1> QED BY <1>1, <1>2 DEF StepOK, Goto, TypeInv, TypeOK

\* Writing one's row and moving on keeps the types.
LEMMA WriteGotoType ==
  ASSUME TypeInv, NEW d \in Deliveries, me[d].pc # "idle", NEW row \in Row,
         NEW label \in PcStates \ {"wait"}, WriteGoto(d, row, label)
  PROVE  StepOK
<1>0. /\ [me[d] EXCEPT !.pc = label] \in Local
      /\ [me[d] EXCEPT !.pc = label, !.draft = row] \in Local
  <2>1. me[d] \in Local
    BY DEF TypeInv, TypeOK
  <2> QED BY <2>1 DEF Local
<1>1. me' \in [Deliveries -> Local]
  BY <1>0 DEF TypeInv, TypeOK, WriteGoto
<1>2. WorkerOK'
  <2> SUFFICES ASSUME NEW e \in Deliveries
               PROVE  /\ me'[e].pc # "idle" => me'[e].who \in Identities
                      /\ me'[e].pc = "wait" => me'[e].ticket \in Posts
    BY DEF WorkerOK
  <2>0. me'[e] = me[e] \/ (e = d /\ me'[e] \in {[me[d] EXCEPT !.pc = label],
                                              [me[d] EXCEPT !.pc = label, !.draft = row]})
    BY DEF TypeInv, TypeOK, WriteGoto
  <2>a. me[d] \in Local
    BY DEF TypeInv, TypeOK
  <2>b. ASSUME NEW r \in {[me[d] EXCEPT !.pc = label], [me[d] EXCEPT !.pc = label, !.draft = row]}
        PROVE  r.who = me[d].who /\ r.ticket = me[d].ticket
    BY <2>a DEF Local
  <2>1. me'[e].who = me[e].who /\ me'[e].ticket = me[e].ticket
    BY <2>0, <2>b
  <2>2. me'[e].pc = IF e = d THEN label ELSE me[e].pc
    BY DEF TypeInv, TypeOK, WriteGoto, Local
  <2> QED BY <2>1, <2>2 DEF TypeInv, WorkerOK
<1>3. intent' \in [Identities -> Row]
  BY DEF WriteGoto, TypeInv, TypeOK
<1> QED BY <1>1, <1>2, <1>3 DEF StepOK

\* So does leaving, which commits a recovery's draft.
LEMMA LeaveType ==
  ASSUME TypeInv, NEW d \in Deliveries, me[d].pc # "idle", Leave(d)
  PROVE  StepOK
<1>1. me[d].draft \in Row
  BY DEF TypeInv, TypeOK, Local
<1>2. me' \in [Deliveries -> Local]
  BY ConstantRows DEF TypeInv, TypeOK, Leave
<1>3. WorkerOK'
  BY DEF TypeInv, TypeOK, WorkerOK, Leave, Idle
<1>4. intent' \in [Identities -> Row]
  BY <1>1 DEF Leave, TypeInv, TypeOK
<1> QED BY <1>2, <1>3, <1>4 DEF StepOK

\* Setting and deleting the guard keep its type.
LEMMA SetGuardType ==
  ASSUME TypeInv, NEW i \in Identities, NEW val \in {"none", "sentinel", "jobid"},
         NEW ttl \in Nat, SetGuard(i, val, ttl)
  PROVE  guard' \in [Identities -> Guard]
<1>1. now + ttl \in Int
  BY Bounds DEF TypeInv, TypeOK, Time
<1> QED BY <1>1 DEF SetGuard, TypeInv, TypeOK, Guard

\* Nothing but the clock, the guard, the runs and the sweep can still go wrong.
RestOK == /\ now' \in Time /\ gen' \in {0, 1}
          /\ cancelPc' \in {"none", "fenced", "stopped", "done"}
          /\ fencedAt' \in Time \cup {Never}
          /\ guard' \in [Identities -> Guard]
          /\ stamped' \in [Identities -> BOOLEAN]
          /\ run' \in [Identities -> [Posts -> Entry]]
          /\ hist' \in [Nodes -> Seq(Identities \X Posts)]
          /\ sweepAt' \in Time
          /\ verdict' \in [Identities -> {"none", "listed", "silent", "forgetful"}]
          /\ excuse' \in [Identities -> SUBSET Causes]

\* The two halves of a well-typed step.
LEMMA TypeParts == StepOK /\ RestOK => TypeInv'
BY DEF StepOK, RestOK, TypeInv, TypeOK

\* One action of one delivery at a time.
LEMMA DeliverType ==
  ASSUME TypeInv, NEW d \in Deliveries, Deliver(d)
  PROVE  TypeInv'
<1> USE TypeParts
<1>t. /\ me \in [Deliveries -> Local] /\ intent \in [Identities -> Row]
      /\ guard \in [Identities -> Guard] /\ run \in [Identities -> [Posts -> Entry]]
      /\ stamped \in [Identities -> BOOLEAN] /\ now \in Time /\ gen \in {0, 1}
      /\ excuse \in [Identities -> SUBSET Causes]
  BY DEF TypeInv, TypeOK
<1>w. me[d].pc # "idle" => me[d].who \in Identities /\ RowOf(d) \in Row
  BY RowOfType DEF TypeInv, WorkerOK
<1>g. NoGuard \in Guard /\ {"jobid", "sentinel"} \subseteq {"none", "sentinel", "jobid"}
  BY DEF NoGuard, Guard, Never
<1>l. {"reconcile", "receiver", "ask", "apply", "claim", "stamp", "record", "send", "fail",
       "release", "confirm", "guard"} \subseteq PcStates \ {"wait"}
  BY DEF PcStates, Brief
<1>1. ASSUME NEW i \in Identities, NEW n \in Nodes, Plan(d, i, n) PROVE TypeInv'
  <2> DEFINE row == IF intent[i].state = "NONE"
                    THEN [NoRow EXCEPT !.state = "PLANNED", !.node = n, !.gen = gen]
                    ELSE intent[i]
             next == IF intent[i].state = "RECONCILED_MISSING" THEN "receiver" ELSE "reconcile"
  <2>1. row \in Row
    BY <1>t, ConstantRows DEF Row, IntentStates
  <2>0. me[d] \in Local /\ next \in PcStates
    BY <1>t, <1>l
  <2> HIDE DEF row, next
  <2>2. /\ [me[d] EXCEPT !.pc = next, !.who = i] \in Local
        /\ [me[d] EXCEPT !.pc = next, !.who = i, !.draft = row] \in Local
    BY <2>0, <2>1 DEF Local
  <2>3. \/ me' = [me EXCEPT ![d] = [me[d] EXCEPT !.pc = next, !.who = i]]
        \/ me' = [me EXCEPT ![d] = [me[d] EXCEPT !.pc = next, !.who = i, !.draft = row]]
    BY <1>1, <1>t DEF Plan, row, next
  <2>4. me' \in [Deliveries -> Local]
    BY <2>2, <2>3, <1>t
  <2>5. intent' \in [Identities -> Row]
    BY <1>1, <1>t, <2>1 DEF Plan, row
  <2>6. /\ [me[d] EXCEPT !.pc = next, !.who = i].who = i
        /\ [me[d] EXCEPT !.pc = next, !.who = i, !.draft = row].who = i
        /\ [me[d] EXCEPT !.pc = next, !.who = i].pc # "wait"
        /\ [me[d] EXCEPT !.pc = next, !.who = i, !.draft = row].pc # "wait"
    BY <1>t, <1>l DEF Local, next
  <2>7. WorkerOK'
    BY <2>3, <2>6, <1>t DEF TypeInv, WorkerOK
  <2>8. RestOK
    BY <1>1 DEF Plan, RestOK, TypeInv, TypeOK, jobVars, nodeVars, sweepVars
  <2> QED BY <2>4, <2>5, <2>7, <2>8 DEF StepOK
<1>2. ASSUME ReceiverCheck(d) PROVE TypeInv'
  <2>1. me[d].pc # "idle" /\ RestOK
    BY <1>2 DEF ReceiverCheck, RestOK, TypeInv, TypeOK, jobVars, nodeVars, sweepVars
  <2>2. CASE Leave(d)
    BY <2>1, <2>2, LeaveType
  <2>3. CASE Goto(d, "reconcile")
    BY <2>1, <2>3, <1>l, GotoType
  <2>4. CASE /\ me' = [me EXCEPT ![d] = Idle]
             /\ intent' = [intent EXCEPT ![me[d].who] = Confirmed(intent[me[d].who])]
    <3>1. me' \in [Deliveries -> Local]
      BY <2>4, <1>t, ConstantRows
    <3>2. Confirmed(intent[me[d].who]) \in Row
      BY <1>t, <1>w, <2>1, ConfirmedType
    <3>3. intent' \in [Identities -> Row]
      BY <2>4, <1>t, <3>2
    <3>4. WorkerOK'
      BY <2>4, <1>t DEF TypeInv, WorkerOK, Idle
    <3> QED BY <2>1, <3>1, <3>3, <3>4 DEF StepOK
  <2> QED BY <1>2, <2>2, <2>3, <2>4 DEF ReceiverCheck
<1>3. ASSUME Reconcile(d) PROVE TypeInv'
  <2>1. me[d].pc # "idle"
    BY <1>3 DEF Reconcile
  <2>2. StepOK
    BY <1>3, <1>l, <2>1, LeaveType, GotoType DEF Reconcile
  <2>3. guard' \in [Identities -> Guard]
    <3>1. guard' = guard \/ SetGuard(me[d].who, "jobid", GuardTTL)
      BY <1>3 DEF Reconcile
    <3> QED BY <3>1, <1>t, <1>w, <1>g, <2>1, SetGuardType, Bounds
  <2>4. RestOK
    BY <1>3, <2>3 DEF Reconcile, RestOK, TypeInv, TypeOK, jobVars, nodeVars, sweepVars
  <2> QED BY <2>2, <2>4
<1>4. ASSUME AskPool(d) PROVE TypeInv'
  <2>1. me[d].pc # "idle" /\ me[d].who \in Identities
    BY <1>4, <1>w DEF AskPool
  <2>2. excuse' \in [Identities -> SUBSET Causes]
    <3>1. excuse' = excuse \/ excuse' = [excuse EXCEPT ![me[d].who] = @ \cup {"overtaken"}]
      BY <1>4 DEF AskPool
    <3> QED BY <3>1, <1>t, <2>1 DEF Causes
  <2>3. RestOK
    BY <1>4, <2>2 DEF AskPool, RestOK, TypeInv, TypeOK, jobVars, nodeVars, sweepVars
  <2>4. CASE Goto(d, "claim") \/ Leave(d)
    BY <2>1, <2>3, <2>4, <1>l, GotoType, LeaveType
  <2>5. ASSUME NEW h \in {"listed", "silent", "opaque"}, UNCHANGED intent,
               me' = [me EXCEPT ![d] = [me[d] EXCEPT !.pc = "apply", !.since = now, !.heard = h]]
        PROVE  TypeInv'
    <3> DEFINE r == [me[d] EXCEPT !.pc = "apply", !.since = now, !.heard = h]
    <3>0. me[d] \in Local /\ "apply" \in PcStates /\ now \in Time
      BY <1>t, <1>l
    <3>1. r \in Local
      BY <3>0 DEF Local
    <3>2. r.who = me[d].who /\ r.pc = "apply"
      BY <1>t DEF Local
    <3> HIDE DEF r
    <3>3. me' = [me EXCEPT ![d] = r]
      BY <2>5 DEF r
    <3>4. me' \in [Deliveries -> Local] /\ WorkerOK'
      BY <3>1, <3>2, <3>3, <2>1, <1>t DEF TypeInv, WorkerOK
    <3> QED BY <3>4, <2>5, <2>3, <1>t DEF StepOK
  <2>6. ASSUME NEW up \in SUBSET Nodes, UNCHANGED intent,
               me' = [me EXCEPT ![d].pc = "apply", ![d].since = now,
                        ![d].heard = IF \E n \in up : Listed(me[d].who, n) THEN "listed"
                                     ELSE IF up = Nodes THEN "silent" ELSE "opaque"]
        PROVE  TypeInv'
    <3> DEFINE h == IF \E n \in up : Listed(me[d].who, n) THEN "listed"
                    ELSE IF up = Nodes THEN "silent" ELSE "opaque"
    <3>1. h \in {"listed", "silent", "opaque"}
      OBVIOUS
    <3>2. me' = [me EXCEPT ![d].pc = "apply", ![d].since = now, ![d].heard = h]
      BY <2>6
    <3> HIDE DEF h
    <3>3. me' = [me EXCEPT ![d] = [me[d] EXCEPT !.pc = "apply", !.since = now, !.heard = h]]
      BY <3>2, <1>t
    <3> QED BY <2>5, <2>6, <3>1, <3>3
  <2> QED BY <1>4, <2>4, <2>6 DEF AskPool
<1>5. ASSUME ApplyAnswer(d) PROVE TypeInv'
  <2>1. me[d].pc # "idle" /\ me[d].who \in Identities /\ RowOf(d) \in Row
    BY <1>5, <1>w DEF ApplyAnswer
  <2>2. Confirmed(RowOf(d)) \in Row
    BY <2>1, <1>t, ConfirmedType
  <2>3. [RowOf(d) EXCEPT !.state = "PLANNED", !.posted = Never] \in Row
    BY <2>1 DEF Row, IntentStates
  <2>4. StepOK
    BY <1>5, <1>l, <2>1, <2>2, <2>3, LeaveType, WriteGotoType DEF ApplyAnswer
  <2>5. guard' \in [Identities -> Guard]
    <3>1. guard' = guard \/ SetGuard(me[d].who, "jobid", GuardTTL)
      BY <1>5 DEF ApplyAnswer
    <3> QED BY <3>1, <1>t, <1>g, <2>1, SetGuardType, Bounds
  <2>e. excuse' \in [Identities -> SUBSET Causes]
    <3>1. excuse' = excuse \/ excuse' = [excuse EXCEPT ![me[d].who] = @ \cup {"outdated"}]
      BY <1>5 DEF ApplyAnswer
    <3> QED BY <3>1, <1>t, <2>1 DEF Causes
  <2>6. RestOK
    BY <1>5, <2>5, <2>e DEF ApplyAnswer, RestOK, TypeInv, TypeOK, jobVars, nodeVars, sweepVars
  <2> QED BY <2>4, <2>6
<1>6. ASSUME Claim(d) PROVE TypeInv'
  <2>1. me[d].pc # "idle" /\ me[d].who \in Identities
    BY <1>6, <1>w DEF Claim
  <2>2. StepOK
    BY <1>6, <1>l, <2>1, LeaveType, GotoType DEF Claim
  <2>3. guard' \in [Identities -> Guard]
    <3>1. guard' = guard \/ SetGuard(me[d].who, "sentinel", SentinelTTL)
      BY <1>6 DEF Claim
    <3> QED BY <3>1, <1>t, <1>g, <2>1, SetGuardType, Bounds
  <2>4. RestOK
    BY <1>6, <2>3 DEF Claim, RestOK, TypeInv, TypeOK, jobVars, nodeVars, sweepVars
  <2> QED BY <2>2, <2>4
<1>7. ASSUME record_post(d) PROVE TypeInv'
  <2>1. me[d].pc # "idle"
    BY <1>7 DEF record_post
  <2>2. [RowOf(d) EXCEPT !.state = "POSTED", !.posted = now] \in Row
    BY <1>t, <1>w, <2>1 DEF Row, IntentStates, OPEN_QUESTION_STATES
  <2>3. StepOK
    BY <1>7, <1>l, <2>1, <2>2, WriteGotoType DEF record_post
  <2>4. RestOK
    BY <1>7 DEF record_post, RestOK, TypeInv, TypeOK, jobVars, nodeVars, sweepVars
  <2> QED BY <2>3, <2>4
<1>8. ASSUME Send(d) PROVE TypeInv'
  <2>1. me[d].pc # "idle" /\ me[d].who \in Identities /\ RowOf(d) \in Row
    BY <1>8, <1>w DEF Send
  <2>2. PICK k \in Posts :
          /\ run' = [run EXCEPT ![me[d].who][k] =
                       [st |-> "inflight", node |-> RowOf(d).node, at |-> now]]
          /\ me' = [me EXCEPT ![d].pc = "wait", ![d].since = now, ![d].ticket = k]
    BY <1>8 DEF Send
  <2>3. [st |-> "inflight", node |-> RowOf(d).node, at |-> now] \in Entry
    BY <1>t, <2>1 DEF Entry, Row, RunStates
  <2>4. run' \in [Identities -> [Posts -> Entry]]
    BY <1>t, <2>1, <2>2, <2>3
  <2> DEFINE r == [me[d] EXCEPT !.pc = "wait", !.since = now, !.ticket = k]
  <2>p. me[d] \in Local /\ now \in Time /\ "wait" \in PcStates
    BY <1>t DEF PcStates
  <2>5. r \in Local
    BY <2>2, <2>p DEF Local
  <2>6. r.who = me[d].who /\ r.ticket = k
    BY <1>t DEF Local
  <2> HIDE DEF r
  <2>7. me' = [me EXCEPT ![d] = r]
    BY <2>2, <1>t DEF r
  <2>8. me' \in [Deliveries -> Local] /\ WorkerOK'
    BY <2>5, <2>6, <2>7, <2>1, <1>t DEF TypeInv, WorkerOK
  <2>9. RestOK
    BY <1>8, <2>4 DEF Send, RestOK, TypeInv, TypeOK, jobVars, sweepVars
  <2>10. intent' \in [Identities -> Row]
    BY <1>8, <1>t DEF Send
  <2> QED BY <2>8, <2>9, <2>10 DEF StepOK
<1>9. ASSUME Answered(d) PROVE TypeInv'
  <2>1. me[d].pc # "idle"
    BY <1>9 DEF Answered
  <2>2. StepOK
    BY <1>9, <1>l, <1>w, <2>1, LeaveType, GotoType, WriteGotoType DEF Answered
  <2>3. RestOK
    BY <1>9 DEF Answered, RestOK, TypeInv, TypeOK, jobVars, nodeVars, sweepVars
  <2> QED BY <2>2, <2>3
<1>10. ASSUME PostRefused(d) PROVE TypeInv'
  <2>1. me[d].pc # "idle" /\ me[d].who \in Identities /\ me[d].ticket \in Posts
    BY <1>10, <1>w DEF PostRefused, TypeInv, WorkerOK
  <2>2. [Unsent EXCEPT !.st = "dropped"] \in Entry
    BY ConstantRows DEF Entry, RunStates
  <2>3. run' \in [Identities -> [Posts -> Entry]]
    BY <1>10, <1>t, <2>1, <2>2 DEF PostRefused
  <2>4. StepOK
    BY <1>10, <1>l, <2>1, GotoType DEF PostRefused
  <2>5. RestOK
    BY <1>10, <2>3 DEF PostRefused, RestOK, TypeInv, TypeOK, jobVars, sweepVars
  <2> QED BY <2>4, <2>5
<1>11. ASSUME PostAbandoned(d) PROVE TypeInv'
  <2>1. me[d].pc # "idle" /\ me[d].who \in Identities
    BY <1>11, <1>w DEF PostAbandoned
  <2>2. excuse' \in [Identities -> SUBSET Causes]
    BY <1>11, <1>t, <2>1 DEF PostAbandoned, Causes
  <2>3. StepOK
    BY <1>11, <1>l, <2>1, GotoType DEF PostAbandoned
  <2>4. RestOK
    BY <1>11, <2>2 DEF PostAbandoned, RestOK, TypeInv, TypeOK, jobVars, nodeVars, sweepVars
  <2> QED BY <2>3, <2>4
<1>12. ASSUME Fail(d) PROVE TypeInv'
  <2>1. me[d].pc # "idle"
    BY <1>12 DEF Fail
  <2>2. [RowOf(d) EXCEPT !.state = "FAILED"] \in Row
    BY <1>t, <1>w, <2>1 DEF Row, IntentStates
  <2>3. StepOK
    BY <1>12, <1>l, <2>1, <2>2, WriteGotoType DEF Fail
  <2>4. RestOK
    BY <1>12 DEF Fail, RestOK, TypeInv, TypeOK, jobVars, nodeVars, sweepVars
  <2> QED BY <2>3, <2>4
<1>13. ASSUME Release(d) PROVE TypeInv'
  <2>1. me[d].pc # "idle" /\ me[d].who \in Identities
    BY <1>13, <1>w DEF Release
  <2>2. guard' \in [Identities -> Guard]
    BY <1>13, <1>t, <1>g, <2>1 DEF Release
  <2>3. StepOK
    BY <1>13, <2>1, LeaveType DEF Release
  <2>4. RestOK
    BY <1>13, <2>2 DEF Release, RestOK, TypeInv, TypeOK, jobVars, nodeVars, sweepVars
  <2> QED BY <2>3, <2>4
<1>14. ASSUME ConfirmPost(d) PROVE TypeInv'
  <2>1. me[d].pc # "idle"
    BY <1>14 DEF ConfirmPost
  <2>2. Confirmed(RowOf(d)) \in Row
    BY <1>t, <1>w, <2>1, ConfirmedType
  <2>3. StepOK
    BY <1>14, <1>l, <2>1, <2>2, WriteGotoType DEF ConfirmPost
  <2>4. RestOK
    BY <1>14 DEF ConfirmPost, RestOK, TypeInv, TypeOK, jobVars, nodeVars, sweepVars
  <2> QED BY <2>3, <2>4
<1>15. ASSUME CommitGuard(d) PROVE TypeInv'
  <2>1. me[d].pc # "idle" /\ me[d].who \in Identities
    BY <1>15, <1>w DEF CommitGuard
  <2>2. guard' \in [Identities -> Guard]
    BY <1>15, <1>g, <2>1, SetGuardType, Bounds DEF CommitGuard
  <2>3. StepOK
    BY <1>15, <1>l, <2>1, GotoType DEF CommitGuard
  <2>4. RestOK
    BY <1>15, <2>2 DEF CommitGuard, RestOK, TypeInv, TypeOK, jobVars, nodeVars, sweepVars
  <2> QED BY <2>3, <2>4
<1>16. ASSUME Stamp(d) PROVE TypeInv'
  <2>1. me[d].pc # "idle" /\ me[d].who \in Identities
    BY <1>16, <1>w DEF Stamp
  <2>2. stamped' \in [Identities -> BOOLEAN]
    BY <1>16, <1>t, <2>1, Zenon DEF Stamp
  <2>3. StepOK
    BY <1>16, <2>1, LeaveType DEF Stamp
  <2>4. RestOK
    BY <1>16, <2>2 DEF Stamp, RestOK, TypeInv, TypeOK, jobVars, nodeVars, sweepVars
  <2> QED BY <2>3, <2>4
<1>17. ASSUME Crash(d) PROVE TypeInv'
  <2>1. me[d].pc # "idle" /\ me[d].who \in Identities
    BY <1>17, <1>w DEF Crash
  <2>2. excuse' \in [Identities -> SUBSET Causes]
    BY <1>17, <1>t, <2>1 DEF Crash, Causes
  <2>3. me' \in [Deliveries -> Local]
    BY <1>17, <1>t, ConstantRows DEF Crash
  <2>4. WorkerOK'
    BY <1>17, <1>t DEF Crash, TypeInv, WorkerOK, Idle
  <2>5. RestOK
    BY <1>17, <2>2 DEF Crash, RestOK, TypeInv, TypeOK, jobVars, nodeVars, sweepVars
  <2>6. intent' \in [Identities -> Row]
    BY <1>17, <1>t DEF Crash
  <2> QED BY <2>3, <2>4, <2>5, <2>6 DEF StepOK
<1> QED BY <1>1, <1>2, <1>3, <1>4, <1>5, <1>6, <1>7, <1>8, <1>9, <1>10, <1>11, <1>12, <1>13,
           <1>14, <1>15, <1>16, <1>17 DEF Deliver

\* A finished run joins its node's history, and the oldest one may be forgotten.
LEMMA FinishType ==
  ASSUME TypeInv, NEW n \in Nodes, NEW i \in Identities, NEW k \in Posts, Finish(n, i, k)
  PROVE  /\ run' \in [Identities -> [Posts -> Entry]]
         /\ hist' \in [Nodes -> Seq(Identities \X Posts)]
<1>t. /\ run \in [Identities -> [Posts -> Entry]] /\ now \in Time
      /\ hist \in [Nodes -> Seq(Identities \X Posts)]
  BY DEF TypeInv, TypeOK
<1> DEFINE h == Append(hist[n], <<i, k>>)
           e == [run[i][k] EXCEPT !.st = "finished"]
           ended == [run EXCEPT ![i] = [run[i] EXCEPT ![k] = e]]
<1>0. run[i][k] \in Entry /\ "finished" \in RunStates
  BY <1>t DEF RunStates, Accepted
<1>1. e \in Entry
  BY <1>0 DEF Entry
<1>2. ended \in [Identities -> [Posts -> Entry]]
  BY <1>t, <1>1
<1>3. [run EXCEPT ![i][k].st = "finished"] = ended
  BY <1>t
<1>4. Gone \in Entry
  BY <1>t, ConstantRows DEF Gone, Entry, RunStates, Accepted
<1>5. hist[n] \in Seq(Identities \X Posts) /\ <<i, k>> \in Identities \X Posts
  BY <1>t
<1> HIDE DEF ended, e
<1>6. h \in Seq(Identities \X Posts) /\ h # << >>
  BY <1>5
<1>7. Head(h) \in Identities \X Posts /\ Tail(h) \in Seq(Identities \X Posts)
  BY <1>6
<1>8. Head(h)[1] \in Identities /\ Head(h)[2] \in Posts
  BY <1>7
<1>9. \/ run' = ended
      \/ run' = [ended EXCEPT ![Head(h)[1]][Head(h)[2]] = Gone]
  BY <1>3 DEF Finish
<1>10. \/ hist' = [hist EXCEPT ![n] = h]
      \/ hist' = [hist EXCEPT ![n] = Tail(h)]
  BY DEF Finish
<1> HIDE DEF h, ended
<1>11. run' \in [Identities -> [Posts -> Entry]]
  BY <1>8, <1>9, <1>2, <1>4
<1>12. hist' \in [Nodes -> Seq(Identities \X Posts)]
  BY <1>6, <1>7, <1>10, <1>t
<1> QED BY <1>11, <1>12

\* The batch handed back, the nodes, the sweep, the cancellation and the clock
\* leave the deliveries alone.
LEMMA EnvironmentType ==
  ASSUME TypeInv, Next, UNCHANGED me
  PROVE  \/ \E d \in Deliveries : Deliver(d)
         \/ TypeInv'
<1> USE TypeParts
<1>t. /\ intent \in [Identities -> Row] /\ guard \in [Identities -> Guard]
      /\ run \in [Identities -> [Posts -> Entry]] /\ now \in Time
      /\ stamped \in [Identities -> BOOLEAN]
      /\ hist \in [Nodes -> Seq(Identities \X Posts)]
      /\ sweepAt \in Time
      /\ verdict \in [Identities -> {"none", "listed", "silent", "forgetful"}]
  BY DEF TypeInv, TypeOK
<1>0. 0 \in Time
  BY Bounds DEF Time
<1>s. intent' \in [Identities -> Row] => StepOK
  BY DEF StepOK, TypeInv, TypeOK, WorkerOK
<1>gone. Gone \in Entry /\ [Unsent EXCEPT !.st = "dropped"] \in Entry
  BY <1>t, ConstantRows DEF Gone, Entry, RunStates, Accepted
<1>1. ASSUME NEW i \in Identities, HandBack(i) PROVE TypeInv'
  <2>1. stamped' \in [Identities -> BOOLEAN]
    BY <1>1, <1>t DEF HandBack
  <2> QED BY <1>1, <2>1, <1>s, <1>t DEF HandBack, RestOK, TypeInv, TypeOK, jobVars, nodeVars, sweepVars
<1>2. ASSUME NEW i \in Identities, SweepSettle(i) PROVE TypeInv'
  <2>1. /\ Confirmed(intent[i]) \in Row
        /\ record_absence(intent[i], sweepAt, verdict[i] = "silent") \in Row
    BY <1>t, ConfirmedType, AbsenceType
  <2>2. intent' \in [Identities -> Row]
    BY <1>2, <1>t, <2>1 DEF SweepSettle
  <2>3. verdict' \in [Identities -> {"none", "listed", "silent", "forgetful"}]
    BY <1>2, <1>t DEF SweepSettle
  <2>4. sweepAt' \in Time
    BY <1>2, <1>t, <1>0 DEF SweepSettle
  <2> QED BY <1>2, <2>2, <2>3, <2>4, <1>s DEF SweepSettle, RestOK, TypeInv, TypeOK, jobVars, nodeVars, sweepVars
<1>3. ASSUME NEW i \in Identities, NEW k \in Posts, Accept(i, k) PROVE TypeInv'
  <2>0. run[i][k] \in Entry /\ "live" \in RunStates
    BY <1>t DEF RunStates, Accepted
  <2>1. [run[i][k] EXCEPT !.st = "live", !.at = Never] \in Entry
    BY <2>0 DEF Entry
  <2>2. run' = [run EXCEPT ![i] = [run[i] EXCEPT ![k] =
                 [run[i][k] EXCEPT !.st = "live", !.at = Never]]]
    BY <1>3, <1>t DEF Accept
  <2>3. run' \in [Identities -> [Posts -> Entry]]
    BY <1>t, <2>1, <2>2
  <2> QED BY <1>3, <2>3, <1>s, <1>t DEF Accept, RestOK, TypeInv, TypeOK, jobVars, nodeVars, sweepVars
<1>4. ASSUME NEW i \in Identities, NEW k \in Posts, Lose(i, k) PROVE TypeInv'
  <2>1. run' \in [Identities -> [Posts -> Entry]]
    BY <1>4, <1>t, <1>gone DEF Lose
  <2> QED BY <1>4, <2>1, <1>s, <1>t DEF Lose, RestOK, TypeInv, TypeOK, jobVars, nodeVars, sweepVars
<1>5. ASSUME NEW n \in Nodes, NEW i \in Identities, NEW k \in Posts, Finish(n, i, k) PROVE TypeInv'
  BY <1>5, FinishType, <1>s, <1>t DEF Finish, RestOK, TypeInv, TypeOK, jobVars, nodeVars, sweepVars
<1>6. ASSUME NEW n \in Nodes, Restart(n) PROVE TypeInv'
  <2>1. run' \in [Identities -> [Posts -> Entry]]
    BY <1>6, <1>t, <1>gone DEF Restart
  <2>2. hist' \in [Nodes -> Seq(Identities \X Posts)]
    BY <1>6, <1>t DEF Restart
  <2> QED BY <1>6, <2>1, <2>2, <1>s, <1>t DEF Restart, RestOK, TypeInv, TypeOK, jobVars, nodeVars, sweepVars
<1>7. ASSUME NEW up \in SUBSET Nodes, SweepScan(up) PROVE TypeInv'
  <2>1. verdict' \in [Identities -> {"none", "listed", "silent", "forgetful"}]
    BY <1>7 DEF SweepScan
  <2> QED BY <1>7, <2>1, <1>s, <1>t DEF SweepScan, RestOK, TypeInv, TypeOK, jobVars, nodeVars, sweepVars
<1>8. ASSUME CancelFence PROVE TypeInv'
  BY <1>8, <1>s, <1>t DEF CancelFence, RestOK, TypeInv, TypeOK, jobVars, nodeVars, sweepVars
<1>9. ASSUME CancelRuns PROVE TypeInv'
  <2>1. run' \in [Identities -> [Posts -> Entry]]
    BY <1>9, <1>t, <1>gone DEF CancelRuns
  <2> QED BY <1>9, <2>1, <1>s, <1>t DEF CancelRuns, RestOK, TypeInv, TypeOK, jobVars, nodeVars, sweepVars
<1>10. ASSUME CancelGuards PROVE TypeInv'
  <2>1. guard' \in [Identities -> Guard]
    BY <1>10 DEF CancelGuards, NoGuard, Guard, Never
  <2> QED BY <1>10, <2>1, <1>s, <1>t DEF CancelGuards, RestOK, TypeInv, TypeOK, jobVars, nodeVars, sweepVars
<1>11. ASSUME Tick PROVE TypeInv'
  <2>1. now' \in Time
    BY <1>11, <1>t, Bounds DEF Tick, Time
  <2>2. NoGuard \in Guard
    BY DEF NoGuard, Guard, Never
  <2>3. guard' \in [Identities -> Guard]
    BY <1>11, <1>t, <2>2 DEF Tick
  <2> QED BY <1>11, <2>1, <2>3, <1>s, <1>t DEF Tick, RestOK, TypeInv, TypeOK, jobVars, nodeVars, sweepVars
<1> QED BY <1>1, <1>2, <1>3, <1>4, <1>5, <1>6, <1>7, <1>8, <1>9, <1>10, <1>11 DEF Next

\* What happens on a node changes the runs and its history, and nothing else.
LEMMA NodeFrame ==
  ASSUME \/ \E j \in Identities, m \in Posts : Accept(j, m) \/ Lose(j, m)
         \/ \E n \in Nodes : Restart(n) \/ \E j \in Identities, m \in Posts : Finish(n, j, m)
  PROVE  UNCHANGED <<now, jobVars, intent, guard, stamped, me, sweepVars, excuse>>
<1>1. ASSUME NEW j \in Identities, NEW m \in Posts, Accept(j, m)
      PROVE  UNCHANGED <<now, jobVars, intent, guard, stamped, me, sweepVars, excuse>>
  BY <1>1 DEF Accept
<1>2. ASSUME NEW j \in Identities, NEW m \in Posts, Lose(j, m)
      PROVE  UNCHANGED <<now, jobVars, intent, guard, stamped, me, sweepVars, excuse>>
  BY <1>2 DEF Lose
<1>3. ASSUME NEW n \in Nodes, Restart(n)
      PROVE  UNCHANGED <<now, jobVars, intent, guard, stamped, me, sweepVars, excuse>>
  BY <1>3 DEF Restart
<1>4. ASSUME NEW n \in Nodes, NEW j \in Identities, NEW m \in Posts, Finish(n, j, m)
      PROVE  UNCHANGED <<now, jobVars, intent, guard, stamped, me, sweepVars, excuse>>
  BY <1>4 DEF Finish
<1> QED BY <1>1, <1>2, <1>3, <1>4

\* Only a delivery's own steps touch its memory, the clock moves by itself, and only
\* the fence writes the job's generation.
LEMMA EnvironmentFrame ==
  ASSUME Next, ~\E d \in Deliveries : Deliver(d)
  PROVE  UNCHANGED me /\ (Tick \/ UNCHANGED now) /\ (CancelFence \/ UNCHANGED <<gen, fencedAt>>)
<1>1. CASE \E j \in Identities : HandBack(j)
  BY <1>1 DEF HandBack, jobVars
<1>2. CASE \E j \in Identities : SweepSettle(j)
  BY <1>2 DEF SweepSettle, jobVars
<1>3. CASE \/ \E j \in Identities, m \in Posts : Accept(j, m) \/ Lose(j, m)
           \/ \E n \in Nodes : Restart(n) \/ \E j \in Identities, m \in Posts : Finish(n, j, m)
  BY <1>3, NodeFrame DEF jobVars
<1>4. CASE \E up \in SUBSET Nodes : SweepScan(up)
  BY <1>4 DEF SweepScan, jobVars
<1>5. CASE CancelFence
  BY <1>5 DEF CancelFence
<1>6. CASE CancelRuns
  BY <1>6 DEF CancelRuns
<1>7. CASE CancelGuards
  BY <1>7 DEF CancelGuards
<1>8. CASE Tick
  BY <1>8 DEF Tick, jobVars
<1> QED BY <1>1, <1>2, <1>3, <1>4, <1>5, <1>6, <1>7, <1>8 DEF Next

LEMMA OnlyDeliver == ASSUME Next, ~\E d \in Deliveries : Deliver(d) PROVE UNCHANGED me
BY EnvironmentFrame

\* Type correctness is inductive.
LEMMA TypeStep == TypeInv /\ [Next]_vars => TypeInv'
<1> SUFFICES ASSUME TypeInv, [Next]_vars PROVE TypeInv'
  OBVIOUS
<1>1. ASSUME NEW d \in Deliveries, Deliver(d) PROVE TypeInv'
  BY <1>1, DeliverType
<1>2. CASE Next /\ ~\E d \in Deliveries : Deliver(d)
  BY <1>2, OnlyDeliver, EnvironmentType
<1>3. CASE UNCHANGED vars
  BY <1>3 DEF vars, jobVars, nodeVars, sweepVars, TypeInv, TypeOK, WorkerOK
<1> QED BY <1>1, <1>2, <1>3

\* Every behaviour of the protocol stays within the types of the schema.
THEOREM TypeCorrect == Spec => []TypeOK
<1>1. TypeInv => TypeOK
  BY DEF TypeInv
<1> QED BY <1>1, InitType, TypeStep, PTL DEF Spec

------------------------------------------------------------------------------
(* Every claim that a batch was dispatched is backed by a run                *)

HasRun(i) == \E k \in Posts : run[i][k].st \in Accepted

\* What the stores claim: a stamp, a committed guard, a CONFIRMED row, or a
\* sweep's listing that is still to be written.
Claims(i) == stamped[i] \/ Guarded(i) \/ intent[i].state = "CONFIRMED" \/ verdict[i] = "listed"

\* What an execution carries in its memory towards such a claim.
Trusts(m, i) ==
  m.who = i /\ (m.pc \in {"confirm", "guard"} \/ m.heard = "listed" \/ m.draft.state = "CONFIRMED")

Clean(i) == ~Claims(i) /\ \A d \in Deliveries : ~Trusts(me[d], i)

\* An execution that is over remembers nothing.
Rested == \A d \in Deliveries : me[d].pc = "idle" => me[d] = Idle

\* The inductive invariant: StampHasRun alone is not inductive, since the stamp
\* is copied from the guard or the row, the row from an answer, the guard from
\* the row, and a recovery's row from its open transaction.
RunBacked == Rested /\ \A i \in Identities : HasRun(i) \/ Clean(i)

\* An execution touches the runs by a POST only, and no node's history.
LEMMA DeliverRuns ==
  ASSUME NEW d \in Deliveries, Deliver(d)
  PROVE  /\ UNCHANGED run \/ Send(d) \/ PostRefused(d)
         /\ UNCHANGED hist
<1>0. CASE \E j \in Identities, n \in Nodes : Plan(d, j, n)
  BY <1>0 DEF Plan, nodeVars
<1>1. CASE ReceiverCheck(d)
  BY <1>1 DEF ReceiverCheck, nodeVars
<1>2. CASE Reconcile(d)
  BY <1>2 DEF Reconcile, nodeVars
<1>3. CASE AskPool(d)
  BY <1>3 DEF AskPool, nodeVars
<1>4. CASE ApplyAnswer(d)
  BY <1>4 DEF ApplyAnswer, nodeVars
<1>5. CASE Claim(d)
  BY <1>5 DEF Claim, nodeVars
<1>6. CASE record_post(d)
  BY <1>6 DEF record_post, nodeVars
<1>7. CASE Answered(d)
  BY <1>7 DEF Answered, nodeVars
<1>8. CASE PostAbandoned(d)
  BY <1>8 DEF PostAbandoned, nodeVars
<1>9. CASE Fail(d)
  BY <1>9 DEF Fail, nodeVars
<1>10. CASE Release(d)
  BY <1>10 DEF Release, nodeVars
<1>11. CASE ConfirmPost(d)
  BY <1>11 DEF ConfirmPost, nodeVars
<1>12. CASE CommitGuard(d)
  BY <1>12 DEF CommitGuard, nodeVars
<1>13. CASE Stamp(d)
  BY <1>13 DEF Stamp, nodeVars
<1>14. CASE Crash(d)
  BY <1>14 DEF Crash, nodeVars
<1>15. CASE Send(d)
  BY <1>15 DEF Send
<1>16. CASE PostRefused(d)
  BY <1>16 DEF PostRefused
<1> QED BY <1>0, <1>1, <1>2, <1>3, <1>4, <1>5, <1>6, <1>7, <1>8, <1>9, <1>10, <1>11, <1>12, <1>13, <1>14,
           <1>15, <1>16 DEF Deliver

\* A run a node has taken stays taken, whatever becomes of it.
LEMMA AcceptedStays ==
  ASSUME TypeInv, Next, NEW i \in Identities, HasRun(i)
  PROVE  HasRun(i)'
<1>t. run \in [Identities -> [Posts -> Entry]]
  BY DEF TypeInv, TypeOK
<1>1. PICK k \in Posts : run[i][k].st \in Accepted
  BY DEF HasRun
<1> SUFFICES run'[i][k].st \in Accepted
  BY DEF HasRun
<1>u. CASE UNCHANGED run
  BY <1>1, <1>u
<1>g. Gone.st \in Accepted /\ "inflight" \notin Accepted /\ "unsent" \notin Accepted
      /\ "dropped" \notin Accepted
  BY DEF Gone, Unsent, Accepted
<1>2. ASSUME NEW d \in Deliveries, Send(d) PROVE run'[i][k].st \in Accepted
  <2>1. PICK j \in Posts : /\ run[me[d].who][j].st = "unsent"
                           /\ run' = [run EXCEPT ![me[d].who][j] =
                                [st |-> "inflight", node |-> RowOf(d).node, at |-> now]]
    BY <1>2 DEF Send
  <2>2. ~(i = me[d].who /\ k = j)
    BY <1>1, <1>g, <2>1
  <2> QED BY <1>t, <1>1, <2>1, <2>2
<1>3. ASSUME NEW d \in Deliveries, PostRefused(d) PROVE run'[i][k].st \in Accepted
  <2>1. ~(i = me[d].who /\ k = me[d].ticket)
    BY <1>1, <1>3, <1>g DEF PostRefused
  <2> QED BY <1>t, <1>1, <1>3, <2>1 DEF PostRefused
<1>4. ASSUME NEW j \in Identities, NEW m \in Posts, Accept(j, m)
      PROVE  run'[i][k].st \in Accepted
  BY <1>t, <1>1, <1>4, <1>g DEF Accept
<1>5. ASSUME NEW j \in Identities, NEW m \in Posts, Lose(j, m)
      PROVE  run'[i][k].st \in Accepted
  BY <1>t, <1>1, <1>5, <1>g DEF Lose
<1>6. ASSUME NEW n \in Nodes, NEW j \in Identities, NEW m \in Posts, Finish(n, j, m)
      PROVE  run'[i][k].st \in Accepted
  <2> DEFINE ended == [run EXCEPT ![j][m].st = "finished"]
             old == Head(Append(hist[n], <<j, m>>))
  <2>1. ended[i][k].st \in Accepted /\ ended \in [Identities -> [Posts -> Entry]]
    <3>1. run[j][m] \in Entry /\ [run[j][m] EXCEPT !.st = "finished"] \in Entry
      <4>1. run[j][m] \in Entry /\ "finished" \in RunStates
        BY <1>t DEF RunStates, Accepted
      <4> QED BY <4>1 DEF Entry
    <3>2. ended = [run EXCEPT ![j] = [run[j] EXCEPT ![m] = [run[j][m] EXCEPT !.st = "finished"]]]
      BY <1>t
    <3>3. ended \in [Identities -> [Posts -> Entry]]
      BY <1>t, <3>1, <3>2
    <3>4. [run[j][m] EXCEPT !.st = "finished"].st = "finished"
      BY <3>1 DEF Entry
    <3>5. ended[i][k].st \in Accepted
      BY <1>t, <1>1, <3>2, <3>4 DEF Accepted
    <3> QED BY <3>3, <3>5
  <2>2. run' = ended \/ run' = [ended EXCEPT ![old[1]][old[2]] = Gone]
    BY <1>6 DEF Finish
  <2> HIDE DEF ended, old
  <2> QED BY <2>1, <2>2, <1>g
<1>7. ASSUME NEW n \in Nodes, Restart(n) PROVE run'[i][k].st \in Accepted
  BY <1>7, <1>1, <1>g DEF Restart
<1>8. ASSUME CancelRuns PROVE run'[i][k].st \in Accepted
  BY <1>8, <1>1, <1>g DEF CancelRuns
<1>9. ASSUME NEW d \in Deliveries, Deliver(d)
      PROVE  UNCHANGED run \/ Send(d) \/ PostRefused(d)
  BY <1>9, DeliverRuns
<1>10. ASSUME NEW j \in Identities, HandBack(j) \/ SweepSettle(j) PROVE UNCHANGED run
  BY <1>10 DEF HandBack, SweepSettle, nodeVars
<1>11. ASSUME NEW up \in SUBSET Nodes, SweepScan(up) PROVE UNCHANGED run
  BY <1>11 DEF SweepScan, nodeVars
<1>12. ASSUME CancelFence \/ CancelGuards \/ Tick PROVE UNCHANGED run
  BY <1>12 DEF CancelFence, CancelGuards, Tick, nodeVars
<1> QED BY <1>u, <1>2, <1>3, <1>4, <1>5, <1>6, <1>7, <1>8, <1>9, <1>10, <1>11, <1>12 DEF Next

\* What a step must leave of the executions' memories for i to stay clean.
CleanStep(i) ==
  /\ \A e \in Deliveries : ~Trusts(me'[e], i)
  /\ intent'[i].state # "CONFIRMED"

\* An execution that is over trusts no run.
LEMMA IdleTrustsNothing == ASSUME NEW i \in Identities PROVE ~Trusts(Idle, i)
BY BoundsAssumption DEF Trusts, Idle

\* Moving on makes nobody trust a run.
LEMMA GotoClean ==
  ASSUME TypeInv, NEW i \in Identities, Clean(i), NEW d \in Deliveries, NEW label,
         label \in {"confirm", "guard"} => me[d].who # i, Goto(d, label)
  PROVE  CleanStep(i)
<1>1. me \in [Deliveries -> Local] /\ me[d] \in Local
  BY DEF TypeInv, TypeOK
<1> DEFINE m == [me[d] EXCEPT !.pc = label]
<1>2. m.pc = label /\ m.who = me[d].who /\ m.heard = me[d].heard /\ m.draft = me[d].draft
  BY <1>1 DEF Local
<1>3. ~Trusts(m, i)
  <2>1. ~Trusts(me[d], i)
    BY DEF Clean
  <2> HIDE DEF m
  <2> QED BY <1>2, <2>1 DEF Trusts
<1>4. me' = [me EXCEPT ![d] = m] /\ intent' = intent
  BY <1>1 DEF Goto
<1> HIDE DEF m
<1>5. \A e \in Deliveries : me'[e] = IF e = d THEN m ELSE me[e]
  BY <1>1, <1>4
<1> QED BY <1>3, <1>4, <1>5 DEF CleanStep, Clean, Claims

\* Nor does writing a row that claims none.
LEMMA WriteGotoClean ==
  ASSUME TypeInv, NEW i \in Identities, Clean(i), NEW d \in Deliveries, NEW label, NEW row,
         label \in {"confirm", "guard"} \/ row.state = "CONFIRMED" => me[d].who # i,
         WriteGoto(d, row, label)
  PROVE  CleanStep(i)
<1>1. CASE d \notin CallerOwned
  <2>1. me \in [Deliveries -> Local] /\ me[d] \in Local /\ intent \in [Identities -> Row]
    BY DEF TypeInv, TypeOK
  <2> DEFINE m == [me[d] EXCEPT !.pc = label]
  <2>2. m.pc = label /\ m.who = me[d].who /\ m.heard = me[d].heard /\ m.draft = me[d].draft
    BY <2>1 DEF Local
  <2>3. ~Trusts(m, i)
    <3>1. ~Trusts(me[d], i)
      BY DEF Clean
    <3> HIDE DEF m
    <3> QED BY <2>2, <3>1 DEF Trusts
  <2>4. me' = [me EXCEPT ![d] = m] /\ intent' = [intent EXCEPT ![me[d].who] = row]
    BY <1>1, <2>1 DEF WriteGoto
  <2> HIDE DEF m
  <2>5. \A e \in Deliveries : me'[e] = IF e = d THEN m ELSE me[e]
    BY <2>1, <2>4
  <2>6. intent'[i].state # "CONFIRMED"
    BY <2>1, <2>4 DEF Clean, Claims
  <2> QED BY <2>3, <2>5, <2>6 DEF CleanStep, Clean
<1>2. CASE d \in CallerOwned
  <2>1. me \in [Deliveries -> Local] /\ me[d] \in Local
    BY DEF TypeInv, TypeOK
  <2> DEFINE m == [me[d] EXCEPT !.pc = label, !.draft = row]
  <2>2. m.pc = label /\ m.who = me[d].who /\ m.heard = me[d].heard /\ m.draft = row
    BY <2>1 DEF Local
  <2>3. ~Trusts(m, i)
    <3>1. ~Trusts(me[d], i)
      BY DEF Clean
    <3> HIDE DEF m
    <3> QED BY <2>2, <3>1 DEF Trusts
  <2>4. me' = [me EXCEPT ![d] = m] /\ intent' = intent
    BY <1>2, <2>1 DEF WriteGoto
  <2> HIDE DEF m
  <2>5. \A e \in Deliveries : me'[e] = IF e = d THEN m ELSE me[e]
    BY <2>1, <2>4
  <2> QED BY <2>3, <2>4, <2>5 DEF CleanStep, Clean, Claims
<1> QED BY <1>1, <1>2

\* Nor does leaving.
LEMMA LeaveClean ==
  ASSUME TypeInv, NEW i \in Identities, Clean(i), NEW d \in Deliveries, Leave(d)
  PROVE  CleanStep(i)
<1>1. me \in [Deliveries -> Local] /\ intent \in [Identities -> Row]
  BY DEF TypeInv, TypeOK
<1>2. \A e \in Deliveries : me'[e] = IF e = d THEN Idle ELSE me[e]
  BY <1>1 DEF Leave
<1>3. me[d].who = i => me[d].draft.state # "CONFIRMED"
  BY DEF Clean, Trusts
<1>4. intent'[i].state # "CONFIRMED"
  BY <1>1, <1>3 DEF Leave, Clean, Claims
<1> QED BY <1>2, <1>4, IdleTrustsNothing DEF CleanStep, Clean

\* A batch stays clean if no record of it and no execution comes to claim a run.
LEMMA CleanParts ==
  ASSUME NEW i \in Identities, CleanStep(i), ~stamped'[i], guard'[i].val # "jobid",
         verdict'[i] # "listed"
  PROVE  Clean(i)'
BY DEF CleanStep, Clean, Claims, Guarded

\* A row that reads CONFIRMED, to its execution, is that of no clean identity.
LEMMA RowOfClean ==
  ASSUME NEW i \in Identities, Clean(i), NEW d \in Deliveries, RowOf(d).state = "CONFIRMED"
  PROVE  me[d].who # i
BY DEF RowOf, Clean, Claims, Trusts

\* A guard that names no run claims none.
LEMMA SetGuardClean ==
  ASSUME TypeInv, NEW i \in Identities, Clean(i), NEW j, NEW val, NEW ttl, SetGuard(j, val, ttl),
         val = "jobid" => j # i
  PROVE  guard'[i].val # "jobid"
<1>1. guard \in [Identities -> Guard] /\ guard[i].val # "jobid"
  BY DEF TypeInv, TypeOK, Clean, Claims, Guarded
<1> QED BY <1>1 DEF SetGuard

\* A node lists only what it accepted.
LEMMA ListedHasRun ==
  ASSUME NEW i \in Identities, NEW n \in Nodes \cup {None}, Listed(i, n)
  PROVE  HasRun(i)
BY DEF Listed, HasRun, Accepted

\* No step of an execution makes a clean identity claim a run it does not have.
LEMMA DeliverClean ==
  ASSUME TypeInv, Rested, NEW i \in Identities, ~HasRun(i), Clean(i),
         NEW d \in Deliveries, Deliver(d)
  PROVE  Clean(i)'
<1>t. /\ me \in [Deliveries -> Local] /\ intent \in [Identities -> Row] /\ me[d] \in Local
      /\ stamped \in [Identities -> BOOLEAN]
  BY DEF TypeInv, TypeOK
<1>c. ~stamped[i] /\ guard[i].val # "jobid" /\ verdict[i] # "listed" /\ ~Trusts(me[d], i)
      /\ intent[i].state # "CONFIRMED"
  BY DEF Clean, Claims, Guarded
<1>1. ASSUME NEW j \in Identities, NEW n \in Nodes, Plan(d, j, n) PROVE Clean(i)'
  <2> DEFINE row == IF intent[j].state = "NONE"
                    THEN [NoRow EXCEPT !.state = "PLANNED", !.node = n, !.gen = gen]
                    ELSE intent[j]
             next == IF intent[j].state = "RECONCILED_MISSING" THEN "receiver" ELSE "reconcile"
             m1 == [me[d] EXCEPT !.pc = next, !.who = j]
             m2 == [me[d] EXCEPT !.pc = next, !.who = j, !.draft = row]
  <2>1. me[d] = Idle
    BY <1>1 DEF Plan, Rested
  <2>2. /\ m1.pc = next /\ m1.heard = "none" /\ m1.draft = NoRow
        /\ m2.pc = next /\ m2.heard = "none" /\ m2.draft = row
    BY <2>1 DEF Idle
  <2>3. NoRow.state = "NONE" /\ [NoRow EXCEPT !.state = "PLANNED", !.node = n, !.gen = gen].state = "PLANNED"
    BY DEF NoRow
  <2>4. /\ d \notin CallerOwned => /\ intent' = [intent EXCEPT ![j] = row]
                                   /\ me' = [me EXCEPT ![d] = m1]
        /\ d \in CallerOwned => /\ intent' = intent /\ intent[j].state = "NONE"
                                /\ me' = [me EXCEPT ![d] = m2]
    BY <1>1, <1>t DEF Plan
  <2>5. next \notin {"idle", "confirm", "guard"}
    OBVIOUS
  <2>6. ~Trusts(m1, i) /\ (d \in CallerOwned => ~Trusts(m2, i))
    <3>1. d \in CallerOwned => row.state = "PLANNED"
      BY <2>3, <2>4
    <3> HIDE DEF row, next, m1, m2
    <3> QED BY <2>2, <2>3, <2>5, <3>1 DEF Trusts
  <2>7. intent'[i].state # "CONFIRMED"
    BY <2>3, <2>4, <1>t, <1>c
  <2> HIDE DEF row, next, m1, m2
  <2>8. \A e \in Deliveries : me'[e] = me[e] \/ (e = d /\ me'[e] = IF d \in CallerOwned THEN m2 ELSE m1)
    BY <2>4, <1>t
  <2>9. CleanStep(i)
    BY <2>2, <2>5, <2>6, <2>7, <2>8 DEF CleanStep, Clean
  <2>10. UNCHANGED <<stamped, guard, verdict>>
    BY <1>1 DEF Plan, sweepVars
  <2> QED BY <2>9, <2>10, <1>c, CleanParts
<1>2. ASSUME ReceiverCheck(d) PROVE Clean(i)'
  <2>1. UNCHANGED <<stamped, guard, verdict>> /\ me[d].who \in Identities
    BY <1>2 DEF ReceiverCheck, sweepVars, TypeInv, WorkerOK
  <2>2. CASE Leave(d)
    BY <2>1, <2>2, <1>c, LeaveClean, CleanParts
  <2>3. CASE Goto(d, "reconcile")
    BY <2>1, <2>3, <1>c, GotoClean, CleanParts
  <2>4. CASE /\ Listed(me[d].who, intent[me[d].who].node)
             /\ me' = [me EXCEPT ![d] = Idle]
             /\ intent' = [intent EXCEPT ![me[d].who] = Confirmed(intent[me[d].who])]
    <3>1. intent[me[d].who].node \in Nodes \cup {None}
      BY <1>t, <2>1 DEF Row
    <3>2. me[d].who # i
      BY <2>1, <2>4, <3>1, ListedHasRun
    <3>3. intent'[i].state # "CONFIRMED"
      BY <2>4, <3>2, <1>t, <1>c
    <3>4. \A e \in Deliveries : me'[e] = IF e = d THEN Idle ELSE me[e]
      BY <2>4, <1>t
    <3>5. CleanStep(i)
      BY <3>3, <3>4, IdleTrustsNothing DEF CleanStep, Clean
    <3> QED BY <3>5, <2>1, <1>c, CleanParts
  <2> QED BY <1>2, <2>2, <2>3, <2>4 DEF ReceiverCheck
<1>3. ASSUME Reconcile(d) PROVE Clean(i)'
  <2>1. CleanStep(i)
    BY <1>3, LeaveClean, GotoClean DEF Reconcile
  <2>2. guard'[i].val # "jobid"
    <3>1. CASE UNCHANGED guard
      BY <3>1, <1>c
    <3>2. CASE RowOf(d).state = "CONFIRMED" /\ SetGuard(me[d].who, "jobid", GuardTTL)
      BY <3>2, RowOfClean, SetGuardClean
    <3> QED BY <1>3, <3>1, <3>2 DEF Reconcile
  <2>3. UNCHANGED <<stamped, verdict>>
    BY <1>3 DEF Reconcile, sweepVars
  <2> QED BY <2>1, <2>2, <2>3, <1>c, CleanParts
<1>4. ASSUME AskPool(d) PROVE Clean(i)'
  <2>1. UNCHANGED <<stamped, guard, verdict>> /\ me[d].who \in Identities
    BY <1>4 DEF AskPool, sweepVars, TypeInv, WorkerOK
  <2>2. CASE Goto(d, "claim")
    BY <2>1, <2>2, <1>c, GotoClean, CleanParts
  <2>3. CASE Leave(d)
    BY <2>1, <2>3, <1>c, LeaveClean, CleanParts
  <2>4. ASSUME NEW up \in SUBSET Nodes, NEW heard,
               heard = IF \E n \in up : Listed(me[d].who, n) THEN "listed"
                       ELSE IF up = Nodes THEN "silent" ELSE "opaque",
               me' = [me EXCEPT ![d].pc = "apply", ![d].since = now, ![d].heard = heard],
               intent' = intent
        PROVE  Clean(i)'
    <3> DEFINE m == [me[d] EXCEPT !.pc = "apply", !.since = now, !.heard = heard]
    <3>1. m.pc = "apply" /\ m.who = me[d].who /\ m.heard = heard /\ m.draft = me[d].draft
      BY <1>t DEF Local
    <3>2. me' = [me EXCEPT ![d] = m]
      BY <2>4, <1>t
    <3> HIDE DEF m
    <3>3. me[d].who = i => heard # "listed"
      BY <2>4, ListedHasRun
    <3>4. ~Trusts(m, i)
      BY <3>1, <3>3, <1>c DEF Trusts
    <3>5. \A e \in Deliveries : me'[e] = IF e = d THEN m ELSE me[e]
      BY <3>2, <1>t
    <3>6. CleanStep(i)
      BY <3>1, <3>4, <3>5, <1>c, <2>4 DEF CleanStep, Clean
    <3> QED BY <3>6, <2>1, <1>c, CleanParts
  <2> QED BY <1>4, <2>2, <2>3, <2>4 DEF AskPool
<1>5. ASSUME ApplyAnswer(d) PROVE Clean(i)'
  <2>r. RowOf(d) \in Row
    BY <1>5, RowOfType DEF ApplyAnswer
  <2>1. UNCHANGED <<stamped, verdict>>
    BY <1>5 DEF ApplyAnswer, sweepVars
  <2>2. CASE /\ me[d].heard = "listed" /\ WriteGoto(d, Confirmed(RowOf(d)), "stamp")
             /\ SetGuard(me[d].who, "jobid", GuardTTL)
    <3>1. me[d].who # i
      BY <2>2, <1>c DEF Trusts
    <3>2. CleanStep(i) /\ guard'[i].val # "jobid"
      BY <2>2, <3>1, WriteGotoClean, SetGuardClean
    <3> QED BY <3>2, <2>1, <1>c, CleanParts
  <2>3. CASE Leave(d) /\ UNCHANGED guard
    BY <2>1, <2>3, <1>c, LeaveClean, CleanParts
  <2>4. CASE /\ WriteGoto(d, [RowOf(d) EXCEPT !.state = "PLANNED", !.posted = Never], "claim")
             /\ UNCHANGED guard
    <3>1. [RowOf(d) EXCEPT !.state = "PLANNED", !.posted = Never].state # "CONFIRMED"
      BY <2>r DEF Row
    <3> QED BY <2>1, <2>4, <3>1, <1>c, WriteGotoClean, CleanParts
  <2> QED BY <1>5, <2>2, <2>3, <2>4 DEF ApplyAnswer
<1>6. ASSUME Claim(d) PROVE Clean(i)'
  <2>1. CleanStep(i)
    BY <1>6, LeaveClean, GotoClean DEF Claim
  <2>2. guard'[i].val # "jobid"
    BY <1>6, <1>c, SetGuardClean DEF Claim
  <2>3. UNCHANGED <<stamped, verdict>>
    BY <1>6 DEF Claim, sweepVars
  <2> QED BY <2>1, <2>2, <2>3, <1>c, CleanParts
<1>7. ASSUME record_post(d) PROVE Clean(i)'
  <2>1. RowOf(d) \in Row
    BY <1>7, RowOfType DEF record_post
  <2>2. [RowOf(d) EXCEPT !.state = "POSTED", !.posted = now].state # "CONFIRMED"
    BY <2>1 DEF Row
  <2>3. WriteGoto(d, [RowOf(d) EXCEPT !.state = "POSTED", !.posted = now], "send")
        /\ UNCHANGED <<stamped, guard, verdict>>
    BY <1>7 DEF record_post, sweepVars
  <2> QED BY <2>2, <2>3, <1>c, WriteGotoClean, CleanParts
<1>8. ASSUME Send(d) PROVE Clean(i)'
  <2>1. PICK k \in Posts : me' = [me EXCEPT ![d].pc = "wait", ![d].since = now, ![d].ticket = k]
    BY <1>8 DEF Send
  <2> DEFINE m == [me[d] EXCEPT !.pc = "wait", !.since = now, !.ticket = k]
  <2>2. m.pc = "wait" /\ m.who = me[d].who /\ m.heard = me[d].heard /\ m.draft = me[d].draft
    BY <1>t DEF Local
  <2>3. me' = [me EXCEPT ![d] = m]
    BY <2>1, <1>t
  <2>4. UNCHANGED <<intent, stamped, guard, verdict>>
    BY <1>8 DEF Send, sweepVars
  <2> HIDE DEF m
  <2>5. ~Trusts(m, i)
    BY <2>2, <1>c DEF Trusts
  <2>6. \A e \in Deliveries : me'[e] = IF e = d THEN m ELSE me[e]
    BY <2>3, <1>t
  <2>7. CleanStep(i)
    BY <2>2, <2>4, <2>5, <2>6, <1>c DEF CleanStep, Clean
  <2> QED BY <2>4, <2>7, <1>c, CleanParts
<1>9. ASSUME Answered(d) PROVE Clean(i)'
  <2>1. me[d].ticket \in Posts
    BY <1>9 DEF Answered, TypeInv, WorkerOK
  <2>2. me[d].who # i
    BY <1>9, <2>1 DEF Answered, HasRun
  <2>3. Goto(d, "confirm") /\ UNCHANGED <<stamped, guard, verdict>>
    BY <1>9 DEF Answered, sweepVars
  <2> QED BY <2>2, <2>3, <1>c, GotoClean, CleanParts
<1>10. ASSUME PostRefused(d) \/ PostAbandoned(d) PROVE Clean(i)'
  <2>1. Goto(d, "fail") /\ UNCHANGED <<stamped, guard, verdict>>
    BY <1>10 DEF PostRefused, PostAbandoned, sweepVars
  <2> QED BY <2>1, <1>c, GotoClean, CleanParts
<1>11. ASSUME Fail(d) PROVE Clean(i)'
  <2>1. RowOf(d) \in Row
    BY <1>11, RowOfType DEF Fail
  <2>2. [RowOf(d) EXCEPT !.state = "FAILED"].state # "CONFIRMED"
    BY <2>1 DEF Row
  <2>3. WriteGoto(d, [RowOf(d) EXCEPT !.state = "FAILED"], "release")
        /\ UNCHANGED <<stamped, guard, verdict>>
    BY <1>11 DEF Fail, sweepVars
  <2> QED BY <2>2, <2>3, <1>c, WriteGotoClean, CleanParts
<1>12. ASSUME Release(d) PROVE Clean(i)'
  <2>1. Leave(d) /\ UNCHANGED <<stamped, verdict>> /\ guard' = [guard EXCEPT ![me[d].who] = NoGuard]
    BY <1>12 DEF Release, sweepVars
  <2>2. guard \in [Identities -> Guard] /\ NoGuard.val # "jobid"
    BY DEF TypeInv, TypeOK, NoGuard
  <2>3. guard'[i].val # "jobid"
    BY <2>1, <2>2, <1>c
  <2> QED BY <2>1, <2>3, <1>c, LeaveClean, CleanParts
<1>13. ASSUME ConfirmPost(d) PROVE Clean(i)'
  <2>1. me[d].who # i
    BY <1>13, <1>c DEF ConfirmPost, Trusts
  <2>2. WriteGoto(d, Confirmed(RowOf(d)), "guard") /\ UNCHANGED <<stamped, guard, verdict>>
    BY <1>13 DEF ConfirmPost, sweepVars
  <2> QED BY <2>1, <2>2, <1>c, WriteGotoClean, CleanParts
<1>14. ASSUME CommitGuard(d) PROVE Clean(i)'
  <2>1. me[d].who # i
    BY <1>14, <1>c DEF CommitGuard, Trusts
  <2>2. Goto(d, "stamp") /\ SetGuard(me[d].who, "jobid", GuardTTL) /\ UNCHANGED <<stamped, verdict>>
    BY <1>14 DEF CommitGuard, sweepVars
  <2>3. guard'[i].val # "jobid"
    BY <2>1, <2>2, SetGuardClean
  <2> QED BY <2>2, <2>3, <1>c, GotoClean, CleanParts
<1>15. ASSUME Stamp(d) PROVE Clean(i)'
  <2>1. Leave(d) /\ UNCHANGED <<guard, verdict>>
    BY <1>15 DEF Stamp, sweepVars
  <2>2. me[d].who = i => ~Committed(d)
    BY <1>c, RowOfClean DEF Committed, Guarded
  <2>3. ~stamped'[i]
    BY <1>15, <1>t, <1>c, <2>2 DEF Stamp
  <2> QED BY <2>1, <2>3, <1>c, LeaveClean, CleanParts
<1>16. ASSUME Crash(d) PROVE Clean(i)'
  <2>1. \A e \in Deliveries : me'[e] = IF e = d THEN Idle ELSE me[e]
    BY <1>16, <1>t DEF Crash
  <2>2. UNCHANGED <<intent, stamped, guard, verdict>>
    BY <1>16 DEF Crash, sweepVars
  <2>3. CleanStep(i)
    BY <2>1, <2>2, <1>c, IdleTrustsNothing DEF CleanStep, Clean
  <2> QED BY <2>2, <2>3, <1>c, CleanParts
<1> QED BY <1>1, <1>2, <1>3, <1>4, <1>5, <1>6, <1>7, <1>8, <1>9, <1>10, <1>11, <1>12, <1>13,
           <1>14, <1>15, <1>16 DEF Deliver

\* Neither the nodes, the sweep, the operator nor the clock do either.
LEMMA EnvironmentClean ==
  ASSUME TypeInv, NEW i \in Identities, ~HasRun(i), Clean(i), Next, UNCHANGED me,
         ~\E d \in Deliveries : Deliver(d)
  PROVE  Clean(i)'
<1>t. /\ intent \in [Identities -> Row] /\ guard \in [Identities -> Guard]
      /\ stamped \in [Identities -> BOOLEAN]
      /\ verdict \in [Identities -> {"none", "listed", "silent", "forgetful"}]
  BY DEF TypeInv, TypeOK
<1>c. /\ ~stamped[i] /\ guard[i].val # "jobid" /\ verdict[i] # "listed"
      /\ intent[i].state # "CONFIRMED" /\ \A e \in Deliveries : ~Trusts(me'[e], i)
  BY DEF Clean, Claims, Guarded
<1>p. ASSUME ~stamped'[i], guard'[i].val # "jobid", verdict'[i] # "listed",
             intent'[i].state # "CONFIRMED"
      PROVE  Clean(i)'
  BY <1>p, <1>c DEF Clean, Claims, Guarded
<1>1. ASSUME NEW j \in Identities, HandBack(j) PROVE Clean(i)'
  BY <1>1, <1>p, <1>c, <1>t DEF HandBack, sweepVars
<1>2. ASSUME NEW j \in Identities, SweepSettle(j) PROVE Clean(i)'
  <2>1. ASSUME NEW row \in Row, NEW t, NEW intact, row.state # "CONFIRMED"
        PROVE  record_absence(row, t, intact).state # "CONFIRMED"
    BY <2>1 DEF record_absence, Row
  <2>2. CASE j = i
    <3>1. intent'[i] = record_absence(intent[i], sweepAt, verdict[i] = "silent")
      BY <1>2, <2>2, <1>c, <1>t DEF SweepSettle
    <3>2. intent'[i].state # "CONFIRMED"
      BY <2>1, <3>1, <1>c, <1>t
    <3>3. UNCHANGED <<stamped, guard>> /\ verdict'[i] # "listed"
      BY <1>2, <2>2, <1>t DEF SweepSettle
    <3> QED BY <3>2, <3>3, <1>p, <1>c
  <2>3. CASE j # i
    <3>1. intent'[i] = intent[i] /\ verdict'[i] = verdict[i] /\ UNCHANGED <<stamped, guard>>
      BY <1>2, <2>3, <1>t DEF SweepSettle
    <3> QED BY <3>1, <1>p, <1>c
  <2> QED BY <2>2, <2>3
<1>3. ASSUME NEW up \in SUBSET Nodes, SweepScan(up) PROVE Clean(i)'
  <2>1. intent[i].node \in Nodes \cup {None}
    BY <1>t DEF Row
  <2>2. ~Listed(i, intent[i].node)
    BY <2>1, ListedHasRun
  <2>3. verdict'[i] # "listed"
    BY <1>3, <2>2 DEF SweepScan
  <2>4. UNCHANGED <<intent, stamped, guard>>
    BY <1>3 DEF SweepScan
  <2> QED BY <2>3, <2>4, <1>p, <1>c
<1>4. ASSUME NEW j \in Identities, NEW k \in Posts, Accept(j, k) \/ Lose(j, k) PROVE Clean(i)'
  BY <1>4, <1>p, <1>c DEF Accept, Lose, sweepVars
<1>5. ASSUME NEW n \in Nodes, Restart(n) PROVE Clean(i)'
  BY <1>5, <1>p, <1>c DEF Restart, sweepVars
<1>6. ASSUME NEW n \in Nodes, NEW j \in Identities, NEW k \in Posts, Finish(n, j, k)
      PROVE  Clean(i)'
  <2>1. UNCHANGED <<intent, stamped, guard, verdict>>
    BY <1>6 DEF Finish, sweepVars
  <2> QED BY <2>1, <1>p, <1>c
<1>7. ASSUME CancelFence \/ CancelRuns PROVE Clean(i)'
  BY <1>7, <1>p, <1>c DEF CancelFence, CancelRuns, sweepVars
<1>8. ASSUME CancelGuards \/ Tick PROVE Clean(i)'
  <2>1. guard'[i].val # "jobid"
    BY <1>8, <1>c, <1>t DEF CancelGuards, Tick, NoGuard
  <2>2. UNCHANGED <<intent, stamped, verdict>>
    BY <1>8 DEF CancelGuards, Tick, sweepVars
  <2> QED BY <2>1, <2>2, <1>p, <1>c
<1> QED BY <1>1, <1>2, <1>3, <1>4, <1>5, <1>6, <1>7, <1>8 DEF Next

\* An execution ends by forgetting everything, and in no other way.
LEMMA DeliverRested ==
  ASSUME TypeInv, Rested, NEW d \in Deliveries, Deliver(d)
  PROVE  Rested'
<1>t. me \in [Deliveries -> Local] /\ me[d] \in Local
  BY DEF TypeInv, TypeOK
<1>e. ASSUME NEW m, me' = [me EXCEPT ![d] = m], m = Idle \/ m.pc # "idle" PROVE Rested'
  BY <1>e, <1>t DEF Rested
<1>g. ASSUME NEW label, label # "idle", Goto(d, label) PROVE Rested'
  <2>1. [me[d] EXCEPT !.pc = label].pc # "idle" /\ me' = [me EXCEPT ![d] = [me[d] EXCEPT !.pc = label]]
    BY <1>g, <1>t DEF Goto, Local
  <2> QED BY <2>1, <1>e
<1>w. ASSUME NEW label, NEW row, label # "idle", WriteGoto(d, row, label) PROVE Rested'
  <2>1. /\ [me[d] EXCEPT !.pc = label].pc # "idle"
        /\ [me[d] EXCEPT !.pc = label, !.draft = row].pc # "idle"
    BY <1>w, <1>t DEF Local
  <2>2. \/ me' = [me EXCEPT ![d] = [me[d] EXCEPT !.pc = label]]
        \/ me' = [me EXCEPT ![d] = [me[d] EXCEPT !.pc = label, !.draft = row]]
    BY <1>w, <1>t DEF WriteGoto
  <2> QED BY <2>1, <2>2, <1>e
<1>l. ASSUME Leave(d) PROVE Rested'
  BY <1>l, <1>e DEF Leave
<1>1. ASSUME NEW j \in Identities, NEW n \in Nodes, Plan(d, j, n) PROVE Rested'
  <2> DEFINE row == IF intent[j].state = "NONE"
                    THEN [NoRow EXCEPT !.state = "PLANNED", !.node = n, !.gen = gen]
                    ELSE intent[j]
             next == IF intent[j].state = "RECONCILED_MISSING" THEN "receiver" ELSE "reconcile"
  <2>1. \/ me' = [me EXCEPT ![d] = [me[d] EXCEPT !.pc = next, !.who = j]]
        \/ me' = [me EXCEPT ![d] = [me[d] EXCEPT !.pc = next, !.who = j, !.draft = row]]
    BY <1>1, <1>t DEF Plan
  <2>2. next # "idle"
    OBVIOUS
  <2> HIDE DEF row, next
  <2>3. /\ [me[d] EXCEPT !.pc = next, !.who = j].pc # "idle"
        /\ [me[d] EXCEPT !.pc = next, !.who = j, !.draft = row].pc # "idle"
    BY <2>2, <1>t DEF Local
  <2> QED BY <2>1, <2>3, <1>e
<1>2. ASSUME ReceiverCheck(d) PROVE Rested'
  BY <1>2, <1>l, <1>g, <1>e DEF ReceiverCheck
<1>3. ASSUME Reconcile(d) PROVE Rested'
  BY <1>3, <1>l, <1>g DEF Reconcile
<1>4. ASSUME AskPool(d) PROVE Rested'
  <2>1. ASSUME NEW heard,
               me' = [me EXCEPT ![d].pc = "apply", ![d].since = now, ![d].heard = heard]
        PROVE  Rested'
    <3>1. [me[d] EXCEPT !.pc = "apply", !.since = now, !.heard = heard].pc # "idle"
      BY <1>t DEF Local
    <3>2. me' = [me EXCEPT ![d] = [me[d] EXCEPT !.pc = "apply", !.since = now, !.heard = heard]]
      BY <2>1, <1>t
    <3> QED BY <3>1, <3>2, <1>e
  <2> QED BY <1>4, <1>l, <1>g, <2>1 DEF AskPool
<1>5. ASSUME ApplyAnswer(d) PROVE Rested'
  BY <1>5, <1>l, <1>w DEF ApplyAnswer
<1>6. ASSUME Claim(d) PROVE Rested'
  BY <1>6, <1>l, <1>g DEF Claim
<1>7. ASSUME Send(d) PROVE Rested'
  <2>1. PICK k \in Posts : me' = [me EXCEPT ![d].pc = "wait", ![d].since = now, ![d].ticket = k]
    BY <1>7 DEF Send
  <2>2. [me[d] EXCEPT !.pc = "wait", !.since = now, !.ticket = k].pc # "idle"
    BY <1>t DEF Local
  <2>3. me' = [me EXCEPT ![d] = [me[d] EXCEPT !.pc = "wait", !.since = now, !.ticket = k]]
    BY <2>1, <1>t
  <2> QED BY <2>2, <2>3, <1>e
<1>8. ASSUME record_post(d) \/ Fail(d) \/ ConfirmPost(d) PROVE Rested'
  BY <1>8, <1>w DEF record_post, Fail, ConfirmPost
<1>9. ASSUME Answered(d) \/ PostRefused(d) \/ PostAbandoned(d) \/ CommitGuard(d) PROVE Rested'
  BY <1>9, <1>g DEF Answered, PostRefused, PostAbandoned, CommitGuard
<1>10. ASSUME Release(d) \/ Stamp(d) \/ Crash(d) PROVE Rested'
  BY <1>10, <1>l, <1>e DEF Release, Stamp, Crash
<1> QED BY <1>1, <1>2, <1>3, <1>4, <1>5, <1>6, <1>7, <1>8, <1>9, <1>10 DEF Deliver

\* The dispatched_at stamp never outruns the dispatch: for any number of
\* batches, nodes and concurrent deliveries, and any lease, TTL and history
\* length, a batch marked dispatched was taken by a node.
THEOREM StampedIsDispatched == Spec => []StampHasRun
<1>1. Init => RunBacked
  <2> SUFFICES ASSUME Init PROVE RunBacked
    OBVIOUS
  <2>1. \A d \in Deliveries : me[d] = Idle
    BY DEF Init
  <2>2. ASSUME NEW i \in Identities PROVE Clean(i)
    <3>1. ~stamped[i] /\ guard[i] = NoGuard /\ intent[i] = NoRow /\ verdict[i] = "none"
      BY DEF Init
    <3>2. NoGuard.val = "none" /\ NoRow.state = "NONE"
      BY DEF NoGuard, NoRow
    <3>3. ~Claims(i)
      BY <3>1, <3>2 DEF Claims, Guarded
    <3> QED BY <2>1, <3>3, IdleTrustsNothing DEF Clean
  <2> QED BY <2>1, <2>2 DEF RunBacked, Rested
<1>2. TypeInv /\ RunBacked /\ [Next]_vars => RunBacked'
  <2> SUFFICES ASSUME TypeInv, RunBacked, [Next]_vars PROVE RunBacked'
    OBVIOUS
  <2>1. CASE UNCHANGED vars
    <3>1. UNCHANGED <<me, stamped, guard, intent, verdict, run>>
      BY <2>1 DEF vars, nodeVars, sweepVars
    <3> QED BY <3>1 DEF RunBacked, Rested, HasRun, Clean, Claims, Guarded
  <2>2. ASSUME Next PROVE Rested'
    <3>1. CASE ~\E d \in Deliveries : Deliver(d)
      BY <2>2, <3>1, OnlyDeliver DEF RunBacked, Rested
    <3>2. ASSUME NEW d \in Deliveries, Deliver(d) PROVE Rested'
      BY <3>2, DeliverRested DEF RunBacked
    <3> QED BY <3>1, <3>2
  <2>3. ASSUME Next, NEW i \in Identities PROVE (HasRun(i) \/ Clean(i))'
    <3>1. CASE HasRun(i)
      BY <2>3, <3>1, AcceptedStays
    <3>2. CASE ~HasRun(i) /\ ~\E d \in Deliveries : Deliver(d)
      BY <2>3, <3>2, OnlyDeliver, EnvironmentClean DEF RunBacked
    <3>3. ASSUME ~HasRun(i), NEW d \in Deliveries, Deliver(d) PROVE Clean(i)'
      BY <2>3, <3>3, DeliverClean DEF RunBacked
    <3> QED BY <3>1, <3>2, <3>3
  <2> QED BY <2>1, <2>2, <2>3 DEF RunBacked
<1>3. RunBacked => StampHasRun
  BY DEF RunBacked, Clean, Claims, HasRun, StampHasRun
<1>4. TypeInv /\ [Next]_vars => TypeInv'
  BY TypeStep
<1> QED BY <1>1, <1>2, <1>3, <1>4, InitType, PTL DEF Spec
------------------------------------------------------------------------------
(* Cancelled work stops being sent                                           *)

\* What may still happen once the fence is committed: an execution that has yet
\* to ask the pool read the fence in this very tick; one that waits for the
\* answer asked before the fence, and waits no longer than a request may; one
\* that goes on to POST had its answer by then.
FenceOK(m) ==
  /\ m.pc = "apply" => m.since <= now /\ now <= m.since + HttpTimeout
  /\ gen # 0 =>
       /\ m.pc = "ask" => now <= fencedAt
       /\ m.pc = "apply" => m.since <= fencedAt
       /\ m.pc \in {"claim", "record", "send"} => now <= fencedAt + HttpTimeout

\* What a node lists as finished was once sent to it.
HistSent ==
  \A n \in Nodes : \A j \in 1 .. Len(hist[n]) :
    run[hist[n][j][1]][hist[n][j][2]].st # "unsent"

FenceInv == /\ gen = 0 <=> fencedAt = Never
            /\ \A d \in Deliveries : FenceOK(me[d])
            /\ HistSent

\* No request becomes unsent again, and only Send makes one leave.
LEMMA SentBySend ==
  ASSUME TypeInv, HistSent, Next, NEW i \in Identities, NEW k \in Posts
  PROVE  /\ run[i][k].st # "unsent" => run'[i][k].st # "unsent"
         /\ Leaves(i, k) => \E d \in Deliveries : Send(d)
<1>t. run \in [Identities -> [Posts -> Entry]] /\ hist \in [Nodes -> Seq(Identities \X Posts)]
  BY DEF TypeInv, TypeOK
<1>g. Gone.st = "gone" /\ [Unsent EXCEPT !.st = "dropped"].st = "dropped"
  BY DEF Gone, Unsent
<1> DEFINE Kept == run[i][k].st # "unsent" <=> run'[i][k].st # "unsent"
<1>q. Kept => /\ run[i][k].st # "unsent" => run'[i][k].st # "unsent"
              /\ ~Leaves(i, k)
  BY DEF Leaves
<1>1. CASE UNCHANGED run
  BY <1>1, <1>q
<1>2. ASSUME NEW d \in Deliveries, Send(d)
      PROVE  run[i][k].st # "unsent" => run'[i][k].st # "unsent"
  <2>1. PICK j \in Posts : /\ run[me[d].who][j].st = "unsent"
                           /\ run' = [run EXCEPT ![me[d].who][j] =
                                [st |-> "inflight", node |-> RowOf(d).node, at |-> now]]
    BY <1>2 DEF Send
  <2> QED BY <1>t, <2>1
<1>3. ASSUME NEW d \in Deliveries, PostRefused(d) PROVE Kept
  BY <1>3, <1>g, <1>t DEF PostRefused
<1>4. ASSUME NEW j \in Identities, NEW m \in Posts, Accept(j, m) PROVE Kept
  <2>1. run[j][m] \in Entry
    BY <1>t
  <2>2. [run[j][m] EXCEPT !.st = "live", !.at = Never].st = "live"
    BY <2>1 DEF Entry
  <2>3. run' = [run EXCEPT ![j] = [run[j] EXCEPT ![m] =
                  [run[j][m] EXCEPT !.st = "live", !.at = Never]]]
    BY <1>4, <1>t DEF Accept
  <2> QED BY <1>4, <2>2, <2>3, <1>t DEF Accept
<1>5. ASSUME NEW j \in Identities, NEW m \in Posts, Lose(j, m) PROVE Kept
  BY <1>5, <1>g, <1>t DEF Lose
<1>6. ASSUME NEW n \in Nodes, NEW j \in Identities, NEW m \in Posts, Finish(n, j, m) PROVE Kept
  <2> DEFINE ended == [run EXCEPT ![j][m].st = "finished"]
             h == Append(hist[n], <<j, m>>)
  <2>1. run[j][m] \in Entry /\ run[j][m].st = "live"
    BY <1>6, <1>t DEF Finish
  <2>2. ended = [run EXCEPT ![j] = [run[j] EXCEPT ![m] = [run[j][m] EXCEPT !.st = "finished"]]]
    BY <1>t
  <2>3. [run[j][m] EXCEPT !.st = "finished"].st = "finished"
    BY <2>1 DEF Entry
  <2>4. ended[i][k].st # "unsent" <=> run[i][k].st # "unsent"
    BY <2>1, <2>2, <2>3, <1>t
  <2>5. /\ Head(h) \in Identities \X Posts
        /\ run[Head(h)[1]][Head(h)[2]].st # "unsent"
    <3>1. CASE hist[n] = << >>
      BY <3>1, <2>1, <1>t
    <3>2. CASE hist[n] # << >>
      <4>1. Head(h) = hist[n][1] /\ 1 \in 1 .. Len(hist[n])
        BY <3>2, <1>t
      <4>2. hist[n][1] \in Identities \X Posts
        BY <4>1, <1>t
      <4>3. run[hist[n][1][1]][hist[n][1][2]].st # "unsent"
        BY <4>1 DEF HistSent
      <4> HIDE DEF h
      <4> QED BY <4>1, <4>2, <4>3
    <3> QED BY <3>1, <3>2
  <2>6. run' = ended \/ run' = [ended EXCEPT ![Head(h)[1]][Head(h)[2]] = Gone]
    BY <1>6 DEF Finish
  <2>7. ended \in [Identities -> [Posts -> Entry]]
    <3>1. "finished" \in RunStates
      BY DEF RunStates, Accepted
    <3>2. [run[j][m] EXCEPT !.st = "finished"] \in Entry
      BY <2>1, <3>1 DEF Entry
    <3> QED BY <2>2, <3>2, <1>t
  <2> HIDE DEF ended, h
  <2>8. CASE run' = ended
    BY <2>4, <2>8
  <2>9. CASE run' = [ended EXCEPT ![Head(h)[1]][Head(h)[2]] = Gone]
    <3>1. PICK a \in Identities, b \in Posts : Head(h) = <<a, b>>
      BY <2>5
    <3>0. Head(h)[1] = a /\ Head(h)[2] = b
      BY <3>1
    <3>2. run' = [ended EXCEPT ![a][b] = Gone] /\ run[a][b].st # "unsent"
      BY <2>5, <2>9, <3>0
    <3>3. run'[i][k] = IF i = a /\ k = b THEN Gone ELSE ended[i][k]
      BY <2>7, <3>2
    <3>4. i = a /\ k = b => run[i][k].st # "unsent"
      BY <3>2
    <3> QED BY <2>4, <3>3, <3>4, <1>g
  <2> QED BY <2>6, <2>8, <2>9
<1>7. ASSUME NEW n \in Nodes, Restart(n) PROVE Kept
  BY <1>7, <1>g DEF Restart
<1>8. ASSUME CancelRuns PROVE Kept
  BY <1>8, <1>g DEF CancelRuns
<1>9. ASSUME NEW j \in Identities, HandBack(j) \/ SweepSettle(j) PROVE UNCHANGED run
  BY <1>9 DEF HandBack, SweepSettle, nodeVars
<1>10. ASSUME NEW up \in SUBSET Nodes, SweepScan(up) PROVE UNCHANGED run
  BY <1>10 DEF SweepScan, nodeVars
<1>11. ASSUME CancelFence \/ CancelGuards \/ Tick PROVE UNCHANGED run
  BY <1>11 DEF CancelFence, CancelGuards, Tick, nodeVars
<1> HIDE DEF Kept
<1> QED BY <1>q, <1>1, <1>2, <1>3, <1>4, <1>5, <1>6, <1>7, <1>8, <1>9, <1>10, <1>11, DeliverRuns
        DEF Next

\* A node's history grows by a run that was live, and shrinks at its old end.
LEMMA HistSentKept ==
  ASSUME TypeInv, HistSent, Next
  PROVE  HistSent'
<1>t. run \in [Identities -> [Posts -> Entry]] /\ hist \in [Nodes -> Seq(Identities \X Posts)]
  BY DEF TypeInv, TypeOK
<1>s. ASSUME NEW i \in Identities, NEW k \in Posts, run[i][k].st # "unsent"
      PROVE  run'[i][k].st # "unsent"
  BY <1>s, SentBySend
<1> SUFFICES ASSUME NEW n \in Nodes, NEW p \in 1 .. Len(hist'[n])
             PROVE  run'[hist'[n][p][1]][hist'[n][p][2]].st # "unsent"
  BY DEF HistSent
<1>1. CASE hist'[n] = hist[n]
  <2>1. hist[n][p] \in Identities \X Posts
    BY <1>1, <1>t
  <2> QED BY <1>1, <1>s, <2>1 DEF HistSent
<1>2. ASSUME NEW j \in Identities, NEW m \in Posts, Finish(n, j, m)
      PROVE  run'[hist'[n][p][1]][hist'[n][p][2]].st # "unsent"
  <2> DEFINE h == Append(hist[n], <<j, m>>)
  <2>1. h \in Seq(Identities \X Posts) /\ Len(h) = Len(hist[n]) + 1
    BY <1>t
  <2>2. hist'[n] = h \/ hist'[n] = Tail(h)
    BY <1>2, <1>t DEF Finish
  <2>3. PICK q \in 1 .. Len(h) : hist'[n][p] = h[q]
    <3>1. CASE hist'[n] = h
      BY <3>1
    <3>2. CASE hist'[n] = Tail(h)
      <4>1. h # << >>
        <5>1. hist[n] \in Seq(Identities \X Posts)
          BY <1>t
        <5>2. Len(hist[n]) \in Nat
          BY <5>1
        <5>3. Len(h) # 0 /\ Len(<< >>) = 0
          BY <2>1, <5>2
        <5> HIDE DEF h
        <5> QED BY <5>3
      <4>0. Len(Tail(h)) = Len(h) - 1
        BY <2>1, <4>1
      <4>2. p \in 1 .. Len(h) - 1
        BY <3>2, <4>0
      <4>3. Tail(h)[p] = h[p + 1] /\ p + 1 \in 1 .. Len(h)
        BY <2>1, <4>1, <4>2
      <4> QED BY <3>2, <4>3
    <3> QED BY <2>2, <3>1, <3>2
  <2>4. h[q] \in Identities \X Posts
    BY <2>1
  <2>5. run[h[q][1]][h[q][2]].st # "unsent"
    <3>1. CASE q = Len(hist[n]) + 1
      <4>1. h[q] = <<j, m>>
        BY <3>1, <1>t
      <4>2. run[j][m].st = "live"
        BY <1>2 DEF Finish
      <4> HIDE DEF h
      <4> QED BY <4>1, <4>2
    <3>2. CASE q # Len(hist[n]) + 1
      <4>1. q \in 1 .. Len(hist[n]) /\ h[q] = hist[n][q]
        BY <3>2, <2>1, <1>t
      <4> QED BY <4>1 DEF HistSent
    <3> QED BY <3>1, <3>2
  <2> HIDE DEF h
  <2> QED BY <2>3, <2>4, <2>5, <1>s
<1>3. ASSUME NEW o \in Nodes \ {n}, NEW j \in Identities, NEW m \in Posts, Finish(o, j, m)
      PROVE  hist'[n] = hist[n]
  BY <1>3, <1>t DEF Finish
<1>4. ASSUME NEW o \in Nodes, Restart(o)
      PROVE  run'[hist'[n][p][1]][hist'[n][p][2]].st # "unsent"
  <2>1. o # n
    <3>1. o = n => Len(hist'[n]) = 0
      BY <1>4, <1>t DEF Restart
    <3> QED BY <3>1
  <2>2. hist'[n] = hist[n]
    BY <1>4, <2>1, <1>t DEF Restart
  <2> QED BY <1>1, <2>2
<1>5. ASSUME NEW d \in Deliveries, Deliver(d) PROVE UNCHANGED hist
  BY <1>5, DeliverRuns
<1>6. ASSUME NEW j \in Identities, HandBack(j) \/ SweepSettle(j) PROVE UNCHANGED hist
  BY <1>6 DEF HandBack, SweepSettle, nodeVars
<1>7. ASSUME NEW up \in SUBSET Nodes, SweepScan(up) PROVE UNCHANGED hist
  BY <1>7 DEF SweepScan, nodeVars
<1>8. ASSUME CancelFence \/ CancelGuards \/ CancelRuns \/ Tick PROVE UNCHANGED hist
  BY <1>8 DEF CancelFence, CancelGuards, CancelRuns, Tick, nodeVars
<1>9. ASSUME NEW j \in Identities, NEW m \in Posts, Accept(j, m) \/ Lose(j, m)
      PROVE  UNCHANGED hist
  BY <1>9 DEF Accept, Lose
<1> QED BY <1>1, <1>2, <1>3, <1>4, <1>5, <1>6, <1>7, <1>8, <1>9 DEF Next

\* A step of an execution that leaves the clock and the fence alone.
LEMMA FenceMove ==
  ASSUME TypeInv, FenceInv, HistSent', NEW d \in Deliveries, NEW m,
         me' = [me EXCEPT ![d] = m], FenceOK(m), UNCHANGED <<now, jobVars>>
  PROVE  FenceInv'
<1>1. me \in [Deliveries -> Local]
  BY DEF TypeInv, TypeOK
<1>2. ASSUME NEW e \in Deliveries PROVE FenceOK(me'[e])
  BY <1>1 DEF FenceInv
<1> QED BY <1>2 DEF FenceInv, FenceOK, jobVars

\* Moving on keeps the fence if the new label does.
LEMMA FenceGoto ==
  ASSUME TypeInv, FenceInv, HistSent', NEW d \in Deliveries, NEW label, NEW row,
         label # "apply", label = "ask" => gen = 0,
         label \in {"claim", "record", "send"} /\ gen # 0 => now <= fencedAt + HttpTimeout,
         Goto(d, label) \/ WriteGoto(d, row, label), UNCHANGED <<now, jobVars>>
  PROVE  FenceInv'
<1>1. me \in [Deliveries -> Local] /\ me[d] \in Local
  BY DEF TypeInv, TypeOK
<1> DEFINE m1 == [me[d] EXCEPT !.pc = label]
           m2 == [me[d] EXCEPT !.pc = label, !.draft = row]
<1>2. m1.pc = label /\ m2.pc = label
  BY <1>1 DEF Local
<1>3. me' = [me EXCEPT ![d] = m1] \/ me' = [me EXCEPT ![d] = m2]
  BY <1>1 DEF Goto, WriteGoto
<1> HIDE DEF m1, m2
<1>4. FenceOK(m1) /\ FenceOK(m2)
  BY <1>2 DEF FenceOK
<1> QED BY <1>3, <1>4, FenceMove

\* An execution that is over is not behind the fence.
LEMMA FenceIdle == FenceOK(Idle)
BY DEF FenceOK, Idle

\* Leaving keeps the fence.
LEMMA FenceLeave ==
  ASSUME TypeInv, FenceInv, HistSent', NEW d \in Deliveries, Leave(d), UNCHANGED <<now, jobVars>>
  PROVE  FenceInv'
BY FenceIdle, FenceMove DEF Leave

\* So does every step of an execution.
LEMMA FenceDeliver ==
  ASSUME TypeInv, FenceInv, HistSent', NEW d \in Deliveries, Deliver(d)
  PROVE  FenceInv'
<1>t. /\ me \in [Deliveries -> Local] /\ me[d] \in Local /\ now \in Nat
      /\ fencedAt \in Nat \cup {Never} /\ HttpTimeout \in Nat
      /\ me[d].since \in Nat
  BY Bounds DEF TypeInv, TypeOK, Time, Local
<1>f. (gen = 0 <=> fencedAt = Never) /\ FenceOK(me[d])
  BY DEF FenceInv
<1>1. ASSUME NEW i \in Identities, NEW n \in Nodes, Plan(d, i, n) PROVE FenceInv'
  <2> DEFINE row == IF intent[i].state = "NONE"
                    THEN [NoRow EXCEPT !.state = "PLANNED", !.node = n, !.gen = gen]
                    ELSE intent[i]
             next == IF intent[i].state = "RECONCILED_MISSING" THEN "receiver" ELSE "reconcile"
             m1 == [me[d] EXCEPT !.pc = next, !.who = i]
             m2 == [me[d] EXCEPT !.pc = next, !.who = i, !.draft = row]
  <2>1. me' = [me EXCEPT ![d] = m1] \/ me' = [me EXCEPT ![d] = m2]
    BY <1>1, <1>t DEF Plan
  <2>2. m1.pc \in {"receiver", "reconcile"} /\ m2.pc \in {"receiver", "reconcile"}
    BY <1>t DEF Local
  <2> HIDE DEF m1, m2
  <2>3. FenceOK(m1) /\ FenceOK(m2)
    BY <2>2 DEF FenceOK
  <2>4. UNCHANGED <<now, jobVars>>
    BY <1>1 DEF Plan
  <2> QED BY <2>1, <2>3, <2>4, FenceMove
<1>2. ASSUME ReceiverCheck(d) PROVE FenceInv'
  <2>1. UNCHANGED <<now, jobVars>>
    BY <1>2 DEF ReceiverCheck
  <2>2. Leave(d) \/ me' = [me EXCEPT ![d] = Idle] \/ Goto(d, "reconcile")
    BY <1>2 DEF ReceiverCheck
  <2> QED BY <2>1, <2>2, FenceLeave, FenceGoto, FenceMove, FenceIdle
<1>3. ASSUME Reconcile(d) PROVE FenceInv'
  <2>1. UNCHANGED <<now, jobVars>>
    BY <1>3 DEF Reconcile
  <2>2. Leave(d) \/ Goto(d, "stamp") \/ (gen = 0 /\ Goto(d, "ask"))
    BY <1>3 DEF Reconcile, FenceStale, TypeInv, TypeOK
  <2> QED BY <2>1, <2>2, FenceLeave, FenceGoto
<1>4. ASSUME AskPool(d) PROVE FenceInv'
  <2>1. UNCHANGED <<now, jobVars>> /\ me[d].pc = "ask"
    BY <1>4 DEF AskPool
  <2>2. gen # 0 => now <= fencedAt /\ fencedAt \in Nat
    BY <2>1, <1>f, <1>t DEF FenceOK
  <2>3. CASE Goto(d, "claim") \/ Leave(d)
    <3>1. gen # 0 => now <= fencedAt + HttpTimeout
      BY <2>2, <1>t
    <3> QED BY <2>1, <2>3, <3>1, FenceLeave, FenceGoto
  <2>4. ASSUME NEW heard,
               me' = [me EXCEPT ![d].pc = "apply", ![d].since = now, ![d].heard = heard]
        PROVE  FenceInv'
    <3> DEFINE m == [me[d] EXCEPT !.pc = "apply", !.since = now, !.heard = heard]
    <3>1. m.pc = "apply" /\ m.since = now
      BY <1>t DEF Local
    <3>2. me' = [me EXCEPT ![d] = m]
      BY <2>4, <1>t
    <3> HIDE DEF m
    <3>3. FenceOK(m)
      BY <3>1, <2>2, <1>t DEF FenceOK
    <3> QED BY <3>2, <3>3, <2>1, FenceMove
  <2> QED BY <1>4, <2>3, <2>4 DEF AskPool
<1>5. ASSUME ApplyAnswer(d) PROVE FenceInv'
  <2>1. UNCHANGED <<now, jobVars>> /\ me[d].pc = "apply"
    BY <1>5 DEF ApplyAnswer
  <2>2. gen # 0 => now <= fencedAt + HttpTimeout
    BY <2>1, <1>f, <1>t DEF FenceOK
  <2>3. Leave(d) \/ \E row : WriteGoto(d, row, "stamp") \/ WriteGoto(d, row, "claim")
    BY <1>5 DEF ApplyAnswer
  <2> QED BY <2>1, <2>2, <2>3, FenceLeave, FenceGoto
<1>6. ASSUME Claim(d) PROVE FenceInv'
  <2>1. UNCHANGED <<now, jobVars>> /\ me[d].pc = "claim"
    BY <1>6 DEF Claim
  <2>2. gen # 0 => now <= fencedAt + HttpTimeout
    BY <2>1, <1>f DEF FenceOK
  <2>3. Leave(d) \/ Goto(d, "record") \/ Goto(d, "stamp")
    BY <1>6 DEF Claim
  <2> QED BY <2>1, <2>2, <2>3, FenceLeave, FenceGoto
<1>7. ASSUME record_post(d) PROVE FenceInv'
  <2>1. UNCHANGED <<now, jobVars>> /\ me[d].pc = "record"
    BY <1>7 DEF record_post
  <2>2. gen # 0 => now <= fencedAt + HttpTimeout
    BY <2>1, <1>f DEF FenceOK
  <2>3. \E row : WriteGoto(d, row, "send")
    BY <1>7 DEF record_post
  <2> QED BY <2>1, <2>2, <2>3, FenceGoto
<1>8. ASSUME Send(d) PROVE FenceInv'
  <2>1. UNCHANGED <<now, jobVars>>
    BY <1>8 DEF Send
  <2>2. PICK k \in Posts : me' = [me EXCEPT ![d].pc = "wait", ![d].since = now, ![d].ticket = k]
    BY <1>8 DEF Send
  <2> DEFINE m == [me[d] EXCEPT !.pc = "wait", !.since = now, !.ticket = k]
  <2>3. m.pc = "wait"
    BY <1>t DEF Local
  <2>4. me' = [me EXCEPT ![d] = m]
    BY <2>2, <1>t
  <2> HIDE DEF m
  <2>5. FenceOK(m)
    BY <2>3 DEF FenceOK
  <2> QED BY <2>1, <2>4, <2>5, FenceMove
<1>9. ASSUME Answered(d) \/ PostRefused(d) \/ PostAbandoned(d) \/ CommitGuard(d) PROVE FenceInv'
  <2>1. UNCHANGED <<now, jobVars>>
    BY <1>9 DEF Answered, PostRefused, PostAbandoned, CommitGuard
  <2>2. Goto(d, "confirm") \/ Goto(d, "fail") \/ Goto(d, "stamp")
    BY <1>9 DEF Answered, PostRefused, PostAbandoned, CommitGuard
  <2> QED BY <2>1, <2>2, FenceGoto
<1>10. ASSUME Fail(d) \/ ConfirmPost(d) PROVE FenceInv'
  <2>1. UNCHANGED <<now, jobVars>>
    BY <1>10 DEF Fail, ConfirmPost
  <2>2. \E row : WriteGoto(d, row, "release") \/ WriteGoto(d, row, "guard")
    BY <1>10 DEF Fail, ConfirmPost
  <2> QED BY <2>1, <2>2, FenceGoto
<1>11. ASSUME Release(d) \/ Stamp(d) \/ Crash(d) PROVE FenceInv'
  <2>1. UNCHANGED <<now, jobVars>>
    BY <1>11 DEF Release, Stamp, Crash
  <2>2. Leave(d) \/ me' = [me EXCEPT ![d] = Idle]
    BY <1>11 DEF Release, Stamp, Crash
  <2> QED BY <2>1, <2>2, FenceLeave, FenceMove, FenceIdle
<1> QED BY <1>1, <1>2, <1>3, <1>4, <1>5, <1>6, <1>7, <1>8, <1>9, <1>10, <1>11 DEF Deliver

\* The fence invariant is inductive.
LEMMA FenceStep == TypeInv /\ FenceInv /\ [Next]_vars => FenceInv'
<1> SUFFICES ASSUME TypeInv, FenceInv, [Next]_vars PROVE FenceInv'
  OBVIOUS
<1>t. /\ me \in [Deliveries -> Local] /\ now \in Nat /\ fencedAt \in Nat \cup {Never}
      /\ HttpTimeout \in Nat /\ \A d \in Deliveries : me[d].since \in Nat
  BY Bounds DEF TypeInv, TypeOK, Time, Local
<1>1. CASE UNCHANGED vars
  <2>1. UNCHANGED <<now, gen, fencedAt, me, hist, run>>
    BY <1>1 DEF vars, jobVars, nodeVars
  <2> QED BY <2>1 DEF FenceInv, FenceOK, HistSent
<1>2. Next => HistSent'
  BY HistSentKept DEF FenceInv
<1>3. ASSUME NEW d \in Deliveries, Deliver(d) PROVE FenceInv'
  BY <1>2, <1>3, FenceDeliver DEF Next
<1>4. CASE CancelFence
  <2>1. UNCHANGED <<now, me>> /\ gen' = 1 /\ fencedAt' = now
    BY <1>4 DEF CancelFence
  <2>2. ASSUME NEW d \in Deliveries PROVE FenceOK(me[d])'
    <3>1. FenceOK(me[d])
      BY DEF FenceInv
    <3> QED BY <2>1, <3>1, <1>t DEF FenceOK
  <2>3. (gen = 0 <=> fencedAt = Never)'
    BY <2>1, <1>t DEF Never
  <2> QED BY <1>2, <1>4, <2>2, <2>3 DEF FenceInv, Next
<1>5. CASE Tick
  <2>1. now' = now + 1 /\ UNCHANGED <<gen, fencedAt, me>>
    BY <1>5 DEF Tick, jobVars
  <2>2. ASSUME NEW d \in Deliveries PROVE FenceOK(me[d])'
    <3>1. me[d].pc \notin {"ask", "claim", "record", "send"}
      BY <1>5 DEF Tick, Brief
    <3>2. me[d].pc = "apply" => now - me[d].since < HttpTimeout
      BY <1>5 DEF Tick
    <3>3. FenceOK(me[d])
      BY DEF FenceInv
    <3> QED BY <2>1, <3>1, <3>2, <3>3, <1>t DEF FenceOK
  <2> QED BY <1>2, <1>5, <2>1, <2>2 DEF FenceInv, Next
<1>6. ASSUME Next, UNCHANGED <<now, gen, fencedAt, me>> PROVE FenceInv'
  BY <1>2, <1>6 DEF FenceInv, FenceOK
<1>7. ASSUME Next, ~\E d \in Deliveries : Deliver(d), ~CancelFence, ~Tick
      PROVE  UNCHANGED <<now, gen, fencedAt, me>>
  BY <1>7, EnvironmentFrame
<1> QED BY <1>1, <1>3, <1>4, <1>5, <1>6, <1>7

\* In the initial state no cancel has begun and no delivery has work in hand.
LEMMA FenceInit == Init => FenceInv
<1> SUFFICES ASSUME Init PROVE FenceInv
  OBVIOUS
<1>1. gen = 0 /\ fencedAt = Never /\ \A d \in Deliveries : me[d] = Idle
  BY DEF Init
<1>2. HistSent
  BY DEF Init, HistSent
<1> QED BY <1>1, <1>2, FenceIdle DEF FenceInv

\* Once a cancellation is committed, no request leaves later than the time a
\* question to the pool may take, for any number of batches and executions.
THEOREM CancelledWorkStops == Spec => PostsStopAfterFence
<1> DEFINE Step == \A i \in Identities, k \in Posts :
                     fencedAt # Never /\ Leaves(i, k) => now <= fencedAt + HttpTimeout
<1>1. TypeInv /\ FenceInv /\ [Next]_vars => [Step]_vars
  <2> SUFFICES ASSUME TypeInv, FenceInv, Next, NEW i \in Identities, NEW k \in Posts,
                      fencedAt # Never, Leaves(i, k)
               PROVE  now <= fencedAt + HttpTimeout
    BY DEF Step
  <2>1. PICK d \in Deliveries : Send(d)
    BY SentBySend DEF FenceInv
  <2> QED BY <2>1 DEF Send, FenceInv, FenceOK
<1> QED BY <1>1, FenceInit, InitType, TypeStep, FenceStep, PTL DEF Spec, PostsStopAfterFence

------------------------------------------------------------------------------
(* No second run without a named cause                                       *)

Active   == {"inflight", "live"}
Act(i)   == {k \in Posts : run[i][k].st \in Active}
On(d, i) == me[d].who = i
Quiet(i) == Act(i) = {} /\ \A d \in Deliveries : On(d, i) => me[d].pc # "send"

\* The record of i that its executions read and write: the row, or the draft of
\* the recovery that has yet to commit it.
RecIn(i, m, rows) ==
  IF \E d \in CallerOwned : m[d].who = i
  THEN m[CHOOSE d \in CallerOwned : m[d].who = i].draft ELSE rows[i]
Rec(i) == RecIn(i, me, intent)

\* A recovery works alone on a batch that has no row yet, and on a fresh record
\* until its POST; every other execution works on a batch that has a row.
SoloWork(d) ==
  IF d \in CallerOwned
  THEN /\ intent[me[d].who].state = "NONE" /\ me[d].draft.state # "NONE"
       /\ \A e \in Deliveries \ {d} : me[e].who # me[d].who
       /\ me[d].pc \notin {"receiver", "apply"}
       /\ me[d].pc \in {"reconcile", "ask", "claim", "record"} => me[d].draft.state = "PLANNED"
  ELSE intent[me[d].who].state # "NONE"

\* So does the sweep; and the operator deletes guards only behind the fence.
Solo ==
  /\ \A d \in Deliveries : me[d].pc # "idle" => SoloWork(d)
  /\ \A i \in Identities : verdict[i] # "none" => intent[i].state # "NONE"
  /\ cancelPc # "none" => gen # 0

\* An execution that is over works on nothing.
LEMMA IdleIsOff ==
  ASSUME TypeInv, Rested, NEW d \in Deliveries
  PROVE  /\ me[d].pc = "idle" <=> me[d].who = None
         /\ me[d].pc # "idle" => me[d].who \in Identities
BY BoundsAssumption DEF Rested, Idle, TypeInv, WorkerOK

\* A recovery's batch is recorded in its draft, any other in the row.
LEMMA RecOwned ==
  ASSUME NEW i, NEW d \in CallerOwned
  PROVE  /\ me[d].who = i /\ (\A e \in CallerOwned : me[e].who = i => e = d) => Rec(i) = me[d].draft
         /\ me'[d].who = i /\ (\A e \in CallerOwned : me'[e].who = i => e = d)
              => Rec(i)' = me'[d].draft
<1>1. ASSUME NEW m, NEW rows, m[d].who = i, \A e \in CallerOwned : m[e].who = i => e = d
      PROVE  RecIn(i, m, rows) = m[d].draft
  <2>1. (CHOOSE e \in CallerOwned : m[e].who = i) = d
    BY <1>1
  <2> QED BY <1>1, <2>1 DEF RecIn
<1>2. Rec(i) = RecIn(i, me, intent) /\ Rec(i)' = RecIn(i, me', intent')
  BY DEF Rec, RecIn
<1> QED BY <1>1, <1>2

\* Without a recovery at work the record of a batch is its row.
LEMMA RecPlain ==
  ASSUME NEW i
  PROVE  /\ (\A e \in CallerOwned : me[e].who # i) => Rec(i) = intent[i]
         /\ (\A e \in CallerOwned : me'[e].who # i) => Rec(i)' = intent'[i]
BY DEF Rec, RecIn

\* Where nobody on i moved and its row stayed, its record stayed.
LEMMA RecSame ==
  ASSUME NEW i, intent'[i] = intent[i],
         \A e \in CallerOwned : me[e].who = i \/ me'[e].who = i => me'[e] = me[e]
  PROVE  Rec(i)' = Rec(i)
<1>1. CASE \E e \in CallerOwned : me[e].who = i
  <2>1. \A e \in CallerOwned : me[e].who = i <=> me'[e].who = i
    OBVIOUS
  <2>2. (CHOOSE e \in CallerOwned : me[e].who = i) = (CHOOSE e \in CallerOwned : me'[e].who = i)
    BY <2>1
  <2>3. me[CHOOSE e \in CallerOwned : me[e].who = i].who = i
    BY <1>1
  <2> QED BY <1>1, <2>1, <2>2, <2>3 DEF Rec, RecIn
<1>2. CASE ~\E e \in CallerOwned : me[e].who = i
  BY <1>2, RecPlain
<1> QED BY <1>1, <1>2

\* The row that an execution reads is the record of its batch.
LEMMA RecRow ==
  ASSUME TypeInv, Rested, Solo, NEW d \in Deliveries, me[d].pc # "idle"
  PROVE  /\ RowOf(d) = Rec(me[d].who)
         /\ Rec(me[d].who) \in Row /\ Rec(me[d].who).state # "NONE"
         /\ d \in CallerOwned => \A e \in CallerOwned : me[e].who = me[d].who => e = d
         /\ d \notin CallerOwned => \A e \in CallerOwned : me[e].who # me[d].who
<1>s. SoloWork(d) /\ me[d].who \in Identities /\ me[d].who # None
  BY IdleIsOff, BoundsAssumption DEF Solo
<1>c. CallerOwned \subseteq Deliveries
  BY BoundsAssumption
<1>1. CASE d \in CallerOwned
  <2>1. \A e \in CallerOwned : me[e].who = me[d].who => e = d
    BY <1>1, <1>s, <1>c DEF SoloWork
  <2>2. Rec(me[d].who) = me[d].draft
    BY <1>1, <2>1, RecOwned
  <2>3. me[d].draft \in Row
    BY DEF TypeInv, TypeOK, Local
  <2> QED BY <1>1, <1>s, <2>1, <2>2, <2>3 DEF RowOf, SoloWork
<1>2. CASE d \notin CallerOwned
  <2>1. ASSUME NEW e \in CallerOwned, me[e].who = me[d].who PROVE FALSE
    <3>1. me[e].pc # "idle"
      BY <1>s, <1>c, <2>1, IdleIsOff
    <3> QED BY <1>2, <1>s, <1>c, <2>1, <3>1 DEF Solo, SoloWork
  <2>2. Rec(me[d].who) = intent[me[d].who]
    BY <2>1, RecPlain
  <2>3. intent[me[d].who] \in Row
    BY <1>s DEF TypeInv, TypeOK
  <2> QED BY <1>2, <1>s, <2>1, <2>2, <2>3 DEF RowOf, SoloWork
<1> QED BY <1>1, <1>2

\* What a step of d on i leaves of the others' memories and records.
Apart(d, i) ==
  /\ \A e \in Deliveries \ {d} : me'[e] = me[e]
  /\ \A j \in Identities \ {i} : Rec(j)' = Rec(j)

\* d keeps its batch and what it knows of its request.
Onward(d, i, label) ==
  /\ me'[d].pc = label /\ me'[d].who = i
  /\ me'[d].ticket = me[d].ticket /\ me'[d].since = me[d].since /\ me'[d].heard = me[d].heard

\* A step that edits one execution and the row of its batch is apart from the rest.
LEMMA MoveApart ==
  ASSUME TypeInv, NEW d \in Deliveries, NEW i \in Identities, me[d].who = i, me'[d].who \in {i, None},
         \A e \in Deliveries \ {d} : me'[e] = me[e],
         \A j \in Identities \ {i} : intent'[j] = intent[j]
  PROVE  Apart(d, i)
<1>1. ASSUME NEW j \in Identities \ {i} PROVE Rec(j)' = Rec(j)
  <2>1. \A e \in CallerOwned : me[e].who = j \/ me'[e].who = j => me'[e] = me[e]
    BY BoundsAssumption
  <2> QED BY <2>1, RecSame
<1> QED BY <1>1 DEF Apart

\* What an edit of an execution's memory does to the record: nothing.
LEMMA EditEffect ==
  ASSUME TypeInv, Rested, Solo, NEW d \in Deliveries, NEW i \in Identities, me[d].who = i,
         NEW m, m.who = i, m.draft = me[d].draft, me' = [me EXCEPT ![d] = m], UNCHANGED intent
  PROVE  Apart(d, i) /\ me'[d] = m /\ Rec(i)' = Rec(i)
<1>t. me \in [Deliveries -> Local] /\ CallerOwned \subseteq Deliveries
  BY BoundsAssumption DEF TypeInv, TypeOK
<1>3. me'[d] = m /\ \A e \in Deliveries \ {d} : me'[e] = me[e]
  BY <1>t
<1>4. Rec(i)' = Rec(i)
  <2>0. me[d].pc # "idle"
    BY IdleIsOff, BoundsAssumption
  <2>1. CASE d \notin CallerOwned
    <3>1. \A e \in CallerOwned : me[e].who = i \/ me'[e].who = i => me'[e] = me[e]
      BY <2>1, <1>3, <1>t
    <3> QED BY <3>1, RecSame
  <2>2. CASE d \in CallerOwned
    <3>1. \A e \in CallerOwned : me[e].who = i => e = d
      BY <2>0, <2>2, RecRow
    <3>2. \A e \in CallerOwned : me'[e].who = i => e = d
      BY <3>1, <1>3, <1>t
    <3> QED BY <2>2, <3>1, <3>2, <1>3, RecOwned
  <2> QED BY <2>1, <2>2
<1> QED BY <1>3, <1>4, MoveApart

\* So does moving on.
LEMMA GotoEffect ==
  ASSUME TypeInv, Rested, Solo, NEW d \in Deliveries, NEW i \in Identities, me[d].who = i,
         NEW label, Goto(d, label)
  PROVE  Apart(d, i) /\ Onward(d, i, label) /\ Rec(i)' = Rec(i)
<1>t. me \in [Deliveries -> Local] /\ me[d] \in Local
  BY DEF TypeInv, TypeOK
<1> DEFINE m == [me[d] EXCEPT !.pc = label]
<1>1. /\ m.pc = label /\ m.who = i /\ m.draft = me[d].draft
      /\ m.ticket = me[d].ticket /\ m.since = me[d].since /\ m.heard = me[d].heard
  BY <1>t DEF Local
<1>2. me' = [me EXCEPT ![d] = m] /\ intent' = intent
  BY <1>t DEF Goto
<1> HIDE DEF m
<1>3. Apart(d, i) /\ me'[d] = m /\ Rec(i)' = Rec(i)
  BY <1>1, <1>2, EditEffect
<1> QED BY <1>1, <1>3 DEF Onward

\* A write to the row or the draft is a write to the record.
LEMMA WriteGotoEffect ==
  ASSUME TypeInv, Rested, Solo, NEW d \in Deliveries, NEW i \in Identities, me[d].who = i,
         NEW label, NEW row, WriteGoto(d, row, label)
  PROVE  Apart(d, i) /\ Onward(d, i, label) /\ Rec(i)' = row
<1>t. /\ me \in [Deliveries -> Local] /\ me[d] \in Local /\ intent \in [Identities -> Row]
      /\ CallerOwned \subseteq Deliveries
  BY BoundsAssumption DEF TypeInv, TypeOK
<1>0. me[d].pc # "idle"
  BY IdleIsOff, BoundsAssumption
<1>1. CASE d \in CallerOwned
  <2> DEFINE m == [me[d] EXCEPT !.pc = label, !.draft = row]
  <2>1. /\ m.pc = label /\ m.who = i /\ m.draft = row
        /\ m.ticket = me[d].ticket /\ m.since = me[d].since /\ m.heard = me[d].heard
    BY <1>t DEF Local
  <2>2. me' = [me EXCEPT ![d] = m] /\ intent' = intent
    BY <1>1, <1>t DEF WriteGoto
  <2> HIDE DEF m
  <2>3. me'[d] = m /\ \A e \in Deliveries \ {d} : me'[e] = me[e]
    BY <2>2, <1>t
  <2>4. \A e \in CallerOwned : me'[e].who = i => e = d
    BY <1>0, <1>1, <2>3, <1>t, RecRow
  <2>5. Rec(i)' = row
    BY <1>1, <2>1, <2>3, <2>4, RecOwned
  <2> QED BY <2>1, <2>2, <2>3, <2>5, MoveApart DEF Onward
<1>2. CASE d \notin CallerOwned
  <2> DEFINE m == [me[d] EXCEPT !.pc = label]
  <2>1. /\ m.pc = label /\ m.who = i
        /\ m.ticket = me[d].ticket /\ m.since = me[d].since /\ m.heard = me[d].heard
    BY <1>t DEF Local
  <2>2. me' = [me EXCEPT ![d] = m] /\ intent' = [intent EXCEPT ![i] = row]
    BY <1>2, <1>t DEF WriteGoto
  <2> HIDE DEF m
  <2>3. me'[d] = m /\ \A e \in Deliveries \ {d} : me'[e] = me[e]
    BY <2>2, <1>t
  <2>4. \A e \in CallerOwned : me'[e].who # i
    BY <1>0, <1>2, <2>3, <1>t, RecRow
  <2>5. Rec(i)' = row
    BY <2>4, <2>2, <1>t, RecPlain
  <2>6. \A j \in Identities \ {i} : intent'[j] = intent[j]
    BY <2>2, <1>t
  <2> QED BY <2>1, <2>3, <2>5, <2>6, MoveApart DEF Onward
<1> QED BY <1>1, <1>2

\* An execution that ends leaves the row, no draft of its own.
LEMMA DropEffect ==
  ASSUME TypeInv, Rested, Solo, NEW d \in Deliveries, NEW i \in Identities, me[d].who = i,
         me' = [me EXCEPT ![d] = Idle], \A j \in Identities \ {i} : intent'[j] = intent[j]
  PROVE  Apart(d, i) /\ me'[d] = Idle /\ Rec(i)' = intent'[i]
<1>t. /\ me \in [Deliveries -> Local] /\ CallerOwned \subseteq Deliveries
      /\ Idle.who = None /\ None \notin Identities
  BY BoundsAssumption DEF TypeInv, TypeOK, Idle
<1>0. me[d].pc # "idle"
  BY IdleIsOff, <1>t
<1>1. me'[d] = Idle /\ \A e \in Deliveries \ {d} : me'[e] = me[e]
  BY <1>t
<1>3. \A e \in CallerOwned : me'[e].who # i
  BY <1>0, <1>1, <1>t, RecRow
<1> QED BY <1>1, <1>3, <1>t, RecPlain, MoveApart

\* Leaving commits the draft: the record does not change, its place does.
LEMMA LeaveEffect ==
  ASSUME TypeInv, Rested, Solo, NEW d \in Deliveries, NEW i \in Identities, me[d].who = i, Leave(d)
  PROVE  Apart(d, i) /\ me'[d] = Idle /\ Rec(i)' = Rec(i)
<1>t. intent \in [Identities -> Row] /\ me[d].pc # "idle"
  BY IdleIsOff, BoundsAssumption DEF TypeInv, TypeOK
<1>1. me' = [me EXCEPT ![d] = Idle] /\ \A j \in Identities \ {i} : intent'[j] = intent[j]
  BY <1>t DEF Leave
<1>2. Rec(i) = RowOf(d)
  BY <1>t, RecRow
<1>3. intent'[i] = RowOf(d)
  BY <1>t DEF Leave, RowOf
<1> QED BY <1>1, <1>2, <1>3, DropEffect

\* The row a new batch is planned with.
Planned(n) == [NoRow EXCEPT !.state = "PLANNED", !.node = n, !.gen = gen]

\* Planning writes the record of a new batch and leaves any other alone.
LEMMA PlanEffect ==
  ASSUME TypeInv, Rested, Solo, NEW d \in Deliveries, NEW i \in Identities, NEW n \in Nodes,
         Plan(d, i, n)
  PROVE  /\ Apart(d, i) /\ Rec(i) = intent[i]
         /\ me'[d].who = i /\ me'[d].pc \in {"receiver", "reconcile"} /\ me[d].who = None
         /\ Rec(i).state # "NONE" => Rec(i)' = Rec(i) /\ d \notin CallerOwned /\ intent' = intent
         /\ Rec(i).state = "NONE" => /\ Rec(i)' = Planned(n)
                                     /\ me'[d].pc = "reconcile"
                                     /\ \A e \in CallerOwned : me[e].who = None
                                     /\ \A e \in Deliveries : me[e].who # i
         /\ d \in CallerOwned => intent' = intent /\ me'[d].draft = Rec(i)'
         /\ d \notin CallerOwned => intent'[i] = Rec(i)'
         /\ \A j \in Identities \ {i} : intent'[j] = intent[j]
<1>t. /\ me \in [Deliveries -> Local] /\ me[d] \in Local /\ intent \in [Identities -> Row]
      /\ CallerOwned \subseteq Deliveries /\ None \notin Identities
  BY BoundsAssumption DEF TypeInv, TypeOK
<1>0. me[d].who = None /\ me[d].pc = "idle"
  BY IdleIsOff DEF Plan
<1>1. \A e \in CallerOwned : me[e].who # i
  <2> SUFFICES ASSUME NEW e \in CallerOwned, me[e].who = i PROVE FALSE
    OBVIOUS
  <2>1. me[e].pc # "idle"
    BY <1>t, IdleIsOff
  <2>2. intent[i].state = "NONE"
    BY <2>1, <1>t DEF Solo, SoloWork
  <2> QED BY <2>1, <2>2 DEF Plan, JobRowLocked
<1>2. Rec(i) = intent[i]
  BY <1>1, RecPlain
<1>3. intent[i].state = "NONE" => \A e \in CallerOwned : me[e].who = None
  BY <1>t, IdleIsOff DEF Plan, JobRowLocked
<1>4. intent[i].state = "NONE" => \A e \in Deliveries : me[e].who # i
  BY <1>t, <1>3, IdleIsOff DEF Solo, SoloWork
<1> DEFINE row == IF intent[i].state = "NONE"
                  THEN Planned(n) ELSE intent[i]
           next == IF intent[i].state = "RECONCILED_MISSING" THEN "receiver" ELSE "reconcile"
<1>5. CASE d \in CallerOwned
  <2> DEFINE m == [me[d] EXCEPT !.pc = next, !.who = i, !.draft = row]
  <2>1. me' = [me EXCEPT ![d] = m] /\ intent' = intent /\ intent[i].state = "NONE"
    BY <1>5, <1>t DEF Plan, Planned
  <2>2. m.pc = next /\ m.who = i /\ m.draft = row
    BY <1>t DEF Local
  <2>n. next \in {"receiver", "reconcile"} /\ next = "reconcile"
    BY <2>1
  <2>r. row = Planned(n)
    BY <2>1
  <2> HIDE DEF m, next, row
  <2>3. me'[d] = m /\ \A e \in Deliveries \ {d} : me'[e] = me[e]
    BY <2>1, <1>t
  <2>4. \A e \in CallerOwned : me'[e].who = i => e = d
    BY <1>1, <2>3, <1>t
  <2>5. Rec(i)' = row
    BY <1>5, <2>2, <2>3, <2>4, RecOwned
  <2>6. ASSUME NEW j \in Identities \ {i} PROVE Rec(j)' = Rec(j)
    <3>1. \A e \in CallerOwned : me[e].who = j \/ me'[e].who = j => me'[e] = me[e]
      BY <1>0, <1>t, <2>2, <2>3
    <3> QED BY <3>1, <2>1, RecSame
  <2> QED BY <1>5, <1>0, <1>2, <1>3, <1>4, <2>1, <2>2, <2>n, <2>r, <2>3, <2>5, <2>6 DEF Apart
<1>6. CASE d \notin CallerOwned
  <2> DEFINE m == [me[d] EXCEPT !.pc = next, !.who = i]
  <2>1. me' = [me EXCEPT ![d] = m] /\ intent' = [intent EXCEPT ![i] = row]
    BY <1>6, <1>t DEF Plan, Planned
  <2>2. m.pc = next /\ m.who = i
    BY <1>t DEF Local
  <2>n. next \in {"receiver", "reconcile"} /\ (intent[i].state = "NONE" => next = "reconcile")
    OBVIOUS
  <2>r. /\ intent[i].state = "NONE" => row = Planned(n)
        /\ intent[i].state # "NONE" => row = intent[i]
    OBVIOUS
  <2> HIDE DEF m, next, row
  <2>3. me'[d] = m /\ \A e \in Deliveries \ {d} : me'[e] = me[e]
    BY <2>1, <1>t
  <2>4. \A e \in CallerOwned : me'[e].who # i
    BY <1>1, <1>6, <2>3, <1>t
  <2>5. Rec(i)' = row
    BY <2>1, <2>4, <1>t, RecPlain
  <2>6. ASSUME NEW j \in Identities \ {i} PROVE Rec(j)' = Rec(j)
    <3>1. \A e \in CallerOwned : me[e].who = j \/ me'[e].who = j => me'[e] = me[e]
      BY <1>6, <1>t, <2>3
    <3> QED BY <3>1, <2>1, <1>t, RecSame
  <2>7. /\ intent'[i] = row /\ \A j \in Identities \ {i} : intent'[j] = intent[j]
        /\ intent[i].state # "NONE" => intent' = intent
    BY <2>1, <2>r, <1>t
  <2> QED BY <1>6, <1>0, <1>2, <2>7, <1>3, <1>4, <2>1, <2>2, <2>n, <2>r, <2>3, <2>5, <2>6 DEF Apart
<1> QED BY <1>5, <1>6

\* An execution leaves the clock, the job's row and the sweep alone.
LEMMA DeliverKeeps ==
  ASSUME NEW d \in Deliveries, Deliver(d)
  PROVE  UNCHANGED <<now, gen, cancelPc, fencedAt, sweepAt, verdict>>
<1>0. CASE \E j \in Identities, n \in Nodes : Plan(d, j, n)
  BY <1>0 DEF Plan, jobVars, sweepVars
<1>1. CASE ReceiverCheck(d) \/ Reconcile(d) \/ AskPool(d) \/ ApplyAnswer(d) \/ Claim(d)
  BY <1>1 DEF ReceiverCheck, Reconcile, AskPool, ApplyAnswer, Claim, jobVars, sweepVars
<1>2. CASE record_post(d) \/ Send(d) \/ Answered(d) \/ PostRefused(d) \/ PostAbandoned(d)
  BY <1>2 DEF record_post, Send, Answered, PostRefused, PostAbandoned, jobVars, sweepVars
<1>3. CASE Fail(d) \/ Release(d) \/ ConfirmPost(d) \/ CommitGuard(d) \/ Stamp(d) \/ Crash(d)
  BY <1>3 DEF Fail, Release, ConfirmPost, CommitGuard, Stamp, Crash, jobVars, sweepVars
<1> QED BY <1>0, <1>1, <1>2, <1>3 DEF Deliver

AllSolo == \A d \in Deliveries : me[d].pc # "idle" => SoloWork(d)

\* No row is ever taken back.
RowsStay == \A j \in Identities : intent[j].state # "NONE" => intent'[j].state # "NONE"

\* Whoever moves leaves the others as solitary as they were.
LEMMA SoloMove ==
  ASSUME TypeInv, Rested, Solo, NEW d \in Deliveries, NEW i \in Identities, me[d].who = i,
         me'[d].who \in {i, None}, \A e \in Deliveries \ {d} : me'[e] = me[e],
         \A j \in Identities \ {i} : intent'[j] = intent[j],
         me'[d].pc # "idle" => SoloWork(d)',
         \/ intent'[i].state = "NONE" <=> intent[i].state = "NONE"
         \/ d \in CallerOwned /\ intent'[i].state # "NONE"
  PROVE  AllSolo' /\ RowsStay
<1>1. me[d].pc # "idle" /\ SoloWork(d) /\ None \notin Identities
  BY IdleIsOff, BoundsAssumption DEF Solo
<1>2. ASSUME NEW e \in Deliveries \ {d}, me'[e].pc # "idle" PROVE SoloWork(e)'
  <2>1. SoloWork(e) /\ me'[e] = me[e] /\ me[e].who \in Identities
    BY <1>2, IdleIsOff DEF Solo
  <2>2. CASE me[e].who # i
    BY <1>1, <2>1, <2>2 DEF SoloWork
  <2>3. CASE me[e].who = i
    <3>1. d \notin CallerOwned /\ e \notin CallerOwned
      BY <1>1, <2>1, <2>3 DEF SoloWork
    <3> QED BY <2>1, <2>3, <3>1 DEF SoloWork
  <2> QED BY <2>2, <2>3
<1> QED BY <1>2 DEF AllSolo, RowsStay

\* No step of an execution puts a second one beside a recovery.
LEMMA DeliverSolo ==
  ASSUME TypeInv, Rested, Solo, NEW d \in Deliveries, Deliver(d)
  PROVE  Solo'
<1>t. /\ me \in [Deliveries -> Local] /\ me[d] \in Local /\ intent \in [Identities -> Row]
      /\ CallerOwned \subseteq Deliveries /\ Idle.who = None /\ Idle.pc = "idle"
      /\ None \notin Identities
  BY BoundsAssumption DEF TypeInv, TypeOK, Idle
<1>s. me[d].pc # "idle" => SoloWork(d) /\ me[d].who \in Identities /\ RowOf(d).state # "NONE"
  BY IdleIsOff, RecRow DEF Solo
<1> DEFINE Fresh == {"reconcile", "ask", "claim", "record"}
<1>e. ASSUME me[d].pc # "idle", NEW m, m.who = me[d].who, m.draft = me[d].draft,
             me' = [me EXCEPT ![d] = m], UNCHANGED intent,
             d \in CallerOwned => /\ m.pc \notin {"receiver", "apply"}
                                  /\ m.pc \in Fresh => me[d].draft.state = "PLANNED"
      PROVE  AllSolo' /\ RowsStay
  <2>1. me'[d] = m /\ \A e \in Deliveries \ {d} : me'[e] = me[e]
    BY <1>e, <1>t
  <2>2. SoloWork(d)'
    BY <1>e, <1>s, <2>1 DEF SoloWork
  <2> QED BY <1>e, <1>s, <2>1, <2>2, SoloMove
<1>g. ASSUME me[d].pc # "idle", NEW label, Goto(d, label),
             d \in CallerOwned => /\ label \notin {"receiver", "apply"}
                                  /\ label \in Fresh => me[d].draft.state = "PLANNED"
      PROVE  AllSolo' /\ RowsStay
  <2> DEFINE m == [me[d] EXCEPT !.pc = label]
  <2>1. m.who = me[d].who /\ m.draft = me[d].draft /\ m.pc = label
    BY <1>t DEF Local
  <2>2. me' = [me EXCEPT ![d] = m] /\ UNCHANGED intent
    BY <1>g, <1>t DEF Goto
  <2> HIDE DEF m
  <2> QED BY <1>g, <1>e, <2>1, <2>2
<1>w. ASSUME me[d].pc # "idle", NEW label, NEW row, WriteGoto(d, row, label), row.state # "NONE",
             d \in CallerOwned => label \notin Fresh \cup {"receiver", "apply"}
      PROVE  AllSolo' /\ RowsStay
  <2>1. CASE d \in CallerOwned
    <3> DEFINE m == [me[d] EXCEPT !.pc = label, !.draft = row]
    <3>1. m.who = me[d].who /\ m.draft = row /\ m.pc = label
      BY <1>t DEF Local
    <3>2. me' = [me EXCEPT ![d] = m] /\ UNCHANGED intent
      BY <1>w, <2>1, <1>t DEF WriteGoto
    <3> HIDE DEF m
    <3>3. me'[d] = m /\ \A e \in Deliveries \ {d} : me'[e] = me[e]
      BY <3>2, <1>t
    <3>4. SoloWork(d)'
      BY <1>w, <1>s, <2>1, <3>1, <3>2, <3>3 DEF SoloWork
    <3> QED BY <1>w, <1>s, <3>1, <3>2, <3>3, <3>4, SoloMove
  <2>2. CASE d \notin CallerOwned
    <3> DEFINE m == [me[d] EXCEPT !.pc = label]
    <3>1. m.who = me[d].who /\ m.pc = label
      BY <1>t DEF Local
    <3>2. me' = [me EXCEPT ![d] = m] /\ intent' = [intent EXCEPT ![me[d].who] = row]
      BY <1>w, <2>2, <1>t DEF WriteGoto
    <3> HIDE DEF m
    <3>3. me'[d] = m /\ \A e \in Deliveries \ {d} : me'[e] = me[e]
      BY <3>2, <1>t
    <3>4. intent'[me[d].who] = row /\ \A j \in Identities \ {me[d].who} : intent'[j] = intent[j]
      BY <3>2, <1>t, <1>s, <1>w
    <3>5. SoloWork(d)' /\ intent[me[d].who].state # "NONE"
      BY <1>w, <1>s, <2>2, <3>1, <3>3, <3>4 DEF SoloWork
    <3> QED BY <1>w, <1>s, <3>1, <3>3, <3>4, <3>5, SoloMove
  <2> QED BY <2>1, <2>2
<1>l. ASSUME me[d].pc # "idle", Leave(d) PROVE AllSolo' /\ RowsStay
  <2>1. me'[d] = Idle /\ \A e \in Deliveries \ {d} : me'[e] = me[e]
    BY <1>l, <1>t DEF Leave
  <2>2. /\ \A j \in Identities \ {me[d].who} : intent'[j] = intent[j]
        /\ d \notin CallerOwned => intent' = intent
        /\ d \in CallerOwned => intent'[me[d].who] = me[d].draft
    BY <1>l, <1>s, <1>t DEF Leave
  <2>3. d \in CallerOwned => me[d].draft.state # "NONE"
    BY <1>l, <1>s DEF RowOf
  <2> QED BY <1>l, <1>s, <1>t, <2>1, <2>2, <2>3, SoloMove
<1>1. ASSUME NEW i \in Identities, NEW n \in Nodes, Plan(d, i, n) PROVE AllSolo' /\ RowsStay
  <2>1. Apart(d, i) /\ me'[d].who = i /\ me'[d].pc \in {"receiver", "reconcile"} /\ me[d].who = None
    BY <1>1, PlanEffect
  <2>2. ASSUME NEW e \in Deliveries \ {d}, me'[e].pc # "idle" PROVE SoloWork(e)'
    <3>1. me'[e] = me[e] /\ SoloWork(e) /\ me[e].who \in Identities
      BY <2>1, <2>2, IdleIsOff DEF Apart, Solo
    <3>2. CASE me[e].who = i
      <4>1. Rec(i).state # "NONE"
        BY <1>1, <3>2, PlanEffect
      <4>2. Rec(i)' = Rec(i) /\ d \notin CallerOwned /\ Rec(i) = intent[i]
        BY <1>1, <4>1, PlanEffect
      <4>3. intent' = intent
        BY <1>1, <4>1, PlanEffect
      <4>4. e \notin CallerOwned
        BY <3>1, <3>2, <4>1, <4>2 DEF SoloWork
      <4> QED BY <3>1, <4>3, <4>4 DEF SoloWork
    <3>3. CASE me[e].who # i
      <4>1. intent'[me[e].who] = intent[me[e].who]
        BY <1>1, <1>t, <3>1, <3>3, PlanEffect
      <4> QED BY <2>1, <3>1, <3>3, <4>1 DEF SoloWork, Apart
    <3> QED BY <3>2, <3>3
  <2>3. SoloWork(d)'
    <3>1. Rec(i) = intent[i]
      BY <1>1, PlanEffect
    <3>2. CASE d \in CallerOwned
      <4>1. Rec(i).state = "NONE"
        BY <1>1, <3>2, PlanEffect
      <4>2. /\ Rec(i)' = Planned(n)
            /\ me'[d].pc = "reconcile" /\ \A e \in Deliveries : me[e].who # i
            /\ intent' = intent /\ me'[d].draft = Rec(i)'
        BY <1>1, <3>2, <4>1, PlanEffect
      <4>3. me'[d].draft.state = "PLANNED"
        BY <4>2 DEF NoRow, Planned
      <4> QED BY <2>1, <3>1, <3>2, <4>1, <4>2, <4>3 DEF SoloWork, Apart
    <3>3. CASE d \notin CallerOwned
      <4>1. intent'[i] = Rec(i)'
        BY <1>1, <3>3, PlanEffect
      <4>2. CASE Rec(i).state = "NONE"
        <5>1. Rec(i)' = Planned(n)
          BY <1>1, <4>2, PlanEffect
        <5>2. intent'[i].state = "PLANNED"
          BY <4>1, <5>1, <1>t DEF NoRow, Planned
        <5> QED BY <2>1, <3>3, <5>2 DEF SoloWork
      <4>3. CASE Rec(i).state # "NONE"
        <5>1. Rec(i)' = Rec(i)
          BY <1>1, <4>3, PlanEffect
        <5> QED BY <2>1, <3>3, <4>1, <4>3, <5>1, <1>t DEF SoloWork
      <4> QED BY <4>2, <4>3
    <3> QED BY <3>2, <3>3
  <2>4. RowsStay
    <3>1. CASE Rec(i).state = "NONE"
      <4>1. \A j \in Identities \ {i} : intent'[j] = intent[j]
        BY <1>1, <1>t, PlanEffect
      <4>2. intent[i].state = "NONE"
        BY <1>1, <3>1, PlanEffect
      <4> QED BY <4>1, <4>2 DEF RowsStay
    <3>2. CASE Rec(i).state # "NONE"
      <4>1. Rec(i)' = Rec(i) /\ d \notin CallerOwned /\ Rec(i) = intent[i]
        BY <1>1, <3>2, PlanEffect
      <4>2. intent' = intent
        BY <1>1, <3>2, PlanEffect
      <4> QED BY <4>2 DEF RowsStay
    <3> QED BY <3>1, <3>2
  <2> QED BY <2>2, <2>3, <2>4 DEF AllSolo
<1>2. ASSUME ReceiverCheck(d) PROVE AllSolo' /\ RowsStay
  <2>1. me[d].pc = "receiver" /\ d \notin CallerOwned
    BY <1>2, <1>s DEF ReceiverCheck, SoloWork
  <2>2. ASSUME me' = [me EXCEPT ![d] = Idle],
               intent' = [intent EXCEPT ![me[d].who] = Confirmed(intent[me[d].who])]
        PROVE  AllSolo' /\ RowsStay
    <3>1. intent[me[d].who] \in Row
      BY <1>s, <1>t, <2>1
    <3>2. Confirmed(intent[me[d].who]).state # "NONE"
      BY <3>1 DEF Confirmed, Row
    <3>3. me'[d] = Idle /\ \A e \in Deliveries \ {d} : me'[e] = me[e]
      BY <2>2, <1>t
    <3>4. /\ intent'[me[d].who].state # "NONE" /\ intent[me[d].who].state # "NONE"
          /\ \A j \in Identities \ {me[d].who} : intent'[j] = intent[j]
      BY <1>s, <1>t, <2>1, <2>2, <3>2 DEF SoloWork
    <3> QED BY <1>s, <1>t, <2>1, <3>3, <3>4, SoloMove
  <2> QED BY <1>2, <1>l, <1>g, <2>1, <2>2 DEF ReceiverCheck
<1>3. ASSUME Reconcile(d) PROVE AllSolo' /\ RowsStay
  <2>1. me[d].pc = "reconcile" /\ (d \in CallerOwned => me[d].draft.state = "PLANNED")
    BY <1>3, <1>s DEF Reconcile, SoloWork
  <2> QED BY <1>3, <1>l, <1>g, <2>1 DEF Reconcile
<1>4. ASSUME AskPool(d) PROVE AllSolo' /\ RowsStay
  <2>1. me[d].pc = "ask" /\ (d \in CallerOwned => me[d].draft.state = "PLANNED")
    BY <1>4, <1>s DEF AskPool, SoloWork
  <2>2. ASSUME NEW heard, d \notin CallerOwned, UNCHANGED intent,
               me' = [me EXCEPT ![d].pc = "apply", ![d].since = now, ![d].heard = heard]
        PROVE  AllSolo' /\ RowsStay
    <3> DEFINE m == [me[d] EXCEPT !.pc = "apply", !.since = now, !.heard = heard]
    <3>1. me' = [me EXCEPT ![d] = m]
      BY <2>2, <1>t
    <3>2. m.who = me[d].who /\ m.draft = me[d].draft
      BY <1>t DEF Local
    <3> HIDE DEF m
    <3> QED BY <1>e, <2>1, <2>2, <3>1, <3>2
  <2>3. d \in CallerOwned => RowOf(d).state # "POSTED"
    BY <2>1 DEF RowOf
  <2> QED BY <1>4, <1>l, <1>g, <2>1, <2>2, <2>3 DEF AskPool
<1>5. ASSUME ApplyAnswer(d) PROVE AllSolo' /\ RowsStay
  <2>1. me[d].pc = "apply" /\ d \notin CallerOwned /\ RowOf(d) \in Row
    BY <1>5, <1>s, RowOfType DEF ApplyAnswer, SoloWork
  <2>2. /\ Confirmed(RowOf(d)).state # "NONE"
        /\ [RowOf(d) EXCEPT !.state = "PLANNED", !.posted = Never].state # "NONE"
    BY <2>1 DEF Confirmed, Row
  <2> QED BY <1>5, <1>l, <1>w, <2>1, <2>2 DEF ApplyAnswer
<1>6. ASSUME Claim(d) PROVE AllSolo' /\ RowsStay
  <2>1. me[d].pc = "claim" /\ (d \in CallerOwned => me[d].draft.state = "PLANNED")
    BY <1>6, <1>s DEF Claim, SoloWork
  <2> QED BY <1>6, <1>l, <1>g, <2>1 DEF Claim
<1>7. ASSUME record_post(d) \/ Fail(d) \/ ConfirmPost(d) PROVE AllSolo' /\ RowsStay
  <2>1. me[d].pc \in {"record", "fail", "confirm"} /\ RowOf(d) \in Row
    BY <1>7, <1>s, RecRow DEF record_post, Fail, ConfirmPost
  <2>2. /\ Confirmed(RowOf(d)).state # "NONE"
        /\ [RowOf(d) EXCEPT !.state = "FAILED"].state # "NONE"
        /\ [RowOf(d) EXCEPT !.state = "POSTED", !.posted = now].state # "NONE"
    BY <2>1 DEF Confirmed, Row
  <2> QED BY <1>7, <1>w, <2>1, <2>2 DEF record_post, Fail, ConfirmPost
<1>8. ASSUME Send(d) PROVE AllSolo' /\ RowsStay
  <2>1. PICK k \in Posts : me' = [me EXCEPT ![d].pc = "wait", ![d].since = now, ![d].ticket = k]
    BY <1>8 DEF Send
  <2> DEFINE m == [me[d] EXCEPT !.pc = "wait", !.since = now, !.ticket = k]
  <2>2. me' = [me EXCEPT ![d] = m]
    BY <2>1, <1>t
  <2>3. m.who = me[d].who /\ m.draft = me[d].draft /\ m.pc = "wait"
    BY <1>t DEF Local
  <2> HIDE DEF m
  <2>4. me[d].pc # "idle" /\ UNCHANGED intent
    BY <1>8 DEF Send
  <2> QED BY <1>e, <2>2, <2>3, <2>4
<1>9. ASSUME Answered(d) \/ PostRefused(d) \/ PostAbandoned(d) \/ CommitGuard(d) PROVE AllSolo' /\ RowsStay
  <2>1. me[d].pc # "idle"
    BY <1>9 DEF Answered, PostRefused, PostAbandoned, CommitGuard
  <2> QED BY <1>9, <1>g, <2>1 DEF Answered, PostRefused, PostAbandoned, CommitGuard
<1>10. ASSUME Release(d) \/ Stamp(d) PROVE AllSolo' /\ RowsStay
  BY <1>10, <1>l DEF Release, Stamp
<1>11. ASSUME Crash(d) PROVE AllSolo' /\ RowsStay
  <2>1. /\ me[d].pc # "idle" /\ UNCHANGED intent
        /\ me'[d] = Idle /\ \A e \in Deliveries \ {d} : me'[e] = me[e]
    BY <1>11, <1>t DEF Crash
  <2> QED BY <1>s, <1>t, <2>1, SoloMove
<1>12. AllSolo' /\ RowsStay
  BY <1>1, <1>2, <1>3, <1>4, <1>5, <1>6, <1>7, <1>8, <1>9, <1>10, <1>11 DEF Deliver
<1>13. \A i \in Identities : verdict'[i] # "none" => intent'[i].state # "NONE"
  BY <1>12, DeliverKeeps DEF Solo, RowsStay
<1> QED BY <1>12, <1>13, DeliverKeeps DEF Solo, AllSolo

\* Requests only advance: none becomes live again, and one that is still in
\* flight is the one that was.
RunsFall(i) ==
  \A k \in Posts : run'[i][k].st \in Active =>
    /\ run[i][k].st \in Active /\ run'[i][k].node = run[i][k].node
    /\ run'[i][k].st = "inflight" => run'[i][k] = run[i][k]

\* One request replaced by a later stage of itself.
LEMMA FallOne ==
  ASSUME TypeInv, NEW i \in Identities, NEW j \in Identities, NEW m \in Posts, NEW r,
         run' = [run EXCEPT ![j][m] = r],
         r.st \in Active => r.st # "inflight" /\ run[j][m].st \in Active /\ r.node = run[j][m].node
  PROVE  RunsFall(i)
<1>t. run \in [Identities -> [Posts -> Entry]]
  BY DEF TypeInv, TypeOK
<1>1. ASSUME NEW k \in Posts PROVE run'[i][k] = IF i = j /\ k = m THEN r ELSE run[i][k]
  BY <1>t
<1> QED BY <1>1 DEF RunsFall

\* Only a POST starts a run: outside the executions, runs only fall.
LEMMA EnvironmentRuns ==
  ASSUME TypeInv, Next, ~\E d \in Deliveries : Deliver(d), NEW i \in Identities
  PROVE  RunsFall(i)
<1>t. run \in [Identities -> [Posts -> Entry]] /\ hist \in [Nodes -> Seq(Identities \X Posts)]
  BY DEF TypeInv, TypeOK
<1>g. Gone.st \notin Active /\ [Unsent EXCEPT !.st = "dropped"].st \notin Active
  BY DEF Gone, Unsent, Active
<1>1. CASE UNCHANGED run
  BY <1>1 DEF RunsFall
<1>2. ASSUME NEW j \in Identities, NEW m \in Posts, Accept(j, m) PROVE RunsFall(i)
  <2> DEFINE r == [run[j][m] EXCEPT !.st = "live", !.at = Never]
  <2>1. run[j][m] \in Entry
    BY <1>t
  <2>2. r.st = "live" /\ r.node = run[j][m].node
    BY <2>1 DEF Entry
  <2>3. run' = [run EXCEPT ![j][m] = r] /\ run[j][m].st = "inflight"
    BY <1>2, <1>t DEF Accept
  <2> HIDE DEF r
  <2> QED BY <2>2, <2>3, FallOne DEF Active
<1>3. ASSUME NEW j \in Identities, NEW m \in Posts, Lose(j, m) PROVE RunsFall(i)
  BY <1>3, <1>g, FallOne DEF Lose
<1>4. ASSUME NEW n \in Nodes, NEW j \in Identities, NEW m \in Posts, Finish(n, j, m)
      PROVE  RunsFall(i)
  <2> DEFINE r == [run[j][m] EXCEPT !.st = "finished"]
             h == Append(hist[n], <<j, m>>)
  <2>1. run[j][m] \in Entry
    BY <1>t
  <2>2. r.st = "finished" /\ r \in Entry
    BY <2>1 DEF Entry, RunStates, Accepted
  <2>3. \/ run' = [run EXCEPT ![j][m] = r]
        \/ run' = [[run EXCEPT ![j][m] = r] EXCEPT ![Head(h)[1]][Head(h)[2]] = Gone]
    BY <1>4, <1>t DEF Finish
  <2>4. Head(h) \in Identities \X Posts
    BY <1>t
  <2> HIDE DEF h, r
  <2>5. CASE run' = [run EXCEPT ![j][m] = r]
    BY <2>2, <2>5, FallOne DEF Active
  <2>6. CASE run' = [[run EXCEPT ![j][m] = r] EXCEPT ![Head(h)[1]][Head(h)[2]] = Gone]
    <3>1. PICK a \in Identities, b \in Posts : Head(h) = <<a, b>>
      BY <2>4
    <3>0. Head(h)[1] = a /\ Head(h)[2] = b
      BY <3>1
    <3>2. run' = [[run EXCEPT ![j][m] = r] EXCEPT ![a][b] = Gone]
      BY <2>6, <3>0
    <3>3. ASSUME NEW k \in Posts
          PROVE  run'[i][k] = IF i = a /\ k = b THEN Gone ELSE IF i = j /\ k = m THEN r ELSE run[i][k]
      BY <3>2, <1>t
    <3> QED BY <3>3, <2>2, <1>g DEF RunsFall, Active
  <2> QED BY <2>3, <2>5, <2>6
<1>5. ASSUME NEW n \in Nodes, Restart(n) PROVE RunsFall(i)
  <2>1. \A k \in Posts : run'[i][k] = run[i][k] \/ run'[i][k] = Gone
    BY <1>5 DEF Restart
  <2> QED BY <2>1, <1>g DEF RunsFall
<1>6. ASSUME CancelRuns PROVE RunsFall(i)
  <2>1. \A k \in Posts : run'[i][k] = run[i][k] \/ run'[i][k] = Gone
    BY <1>6 DEF CancelRuns
  <2> QED BY <2>1, <1>g DEF RunsFall
<1>7. CASE \E j \in Identities : HandBack(j) \/ SweepSettle(j)
  BY <1>7, <1>1 DEF HandBack, SweepSettle, nodeVars
<1>8. CASE (\E up \in SUBSET Nodes : SweepScan(up)) \/ CancelFence \/ CancelGuards \/ Tick
  BY <1>8, <1>1 DEF SweepScan, CancelFence, CancelGuards, Tick, nodeVars
<1> QED BY <1>2, <1>3, <1>4, <1>5, <1>6, <1>7, <1>8 DEF Next

\* So they do in every step of an execution but its POST.
LEMMA DeliverFalls ==
  ASSUME TypeInv, NEW d \in Deliveries, Deliver(d), NEW i \in Identities, ~(Send(d) /\ me[d].who = i)
  PROVE  RunsFall(i)
<1>t. run \in [Identities -> [Posts -> Entry]]
  BY DEF TypeInv, TypeOK
<1>1. CASE UNCHANGED run
  BY <1>1 DEF RunsFall
<1>2. CASE Send(d)
  <2>1. run'[i] = run[i]
    BY <1>2, <1>t DEF Send
  <2> QED BY <2>1 DEF RunsFall
<1>3. CASE PostRefused(d)
  <2>1. me[d].who \in Identities /\ me[d].ticket \in Posts
    BY <1>3 DEF PostRefused, TypeInv, WorkerOK
  <2>2. [Unsent EXCEPT !.st = "dropped"].st \notin Active
    BY DEF Unsent, Active
  <2> QED BY <1>3, <2>1, <2>2, FallOne DEF PostRefused
<1> QED BY <1>1, <1>2, <1>3, DeliverRuns

\* What an environment step leaves of the rows: the sweep settles unsettled
\* ones, and nothing else writes any.
LEMMA EnvironmentRows ==
  ASSUME TypeInv, Solo, Next, ~\E d \in Deliveries : Deliver(d)
  PROVE  /\ RowsStay /\ \A j \in Identities : intent[j].state = "NONE" => intent'[j] = intent[j]
         /\ \A j \in Identities : verdict'[j] # "none" => intent'[j].state # "NONE"
         /\ cancelPc' # "none" => gen' # 0
<1>t. intent \in [Identities -> Row]
  BY DEF TypeInv, TypeOK
<1>1. CASE UNCHANGED <<intent, verdict, gen, cancelPc>>
  BY <1>1 DEF Solo, RowsStay
<1>2. CASE (\E j \in Identities : HandBack(j)) \/ Tick
  BY <1>1, <1>2 DEF HandBack, Tick, jobVars, sweepVars
<1>3. CASE \E j \in Identities, m \in Posts : Accept(j, m) \/ Lose(j, m)
  BY <1>1, <1>3, NodeFrame DEF jobVars, sweepVars
<1>4. CASE \E n \in Nodes : Restart(n) \/ \E j \in Identities, m \in Posts : Finish(n, j, m)
  BY <1>1, <1>4, NodeFrame DEF jobVars, sweepVars
<1>5. CASE CancelFence \/ CancelRuns \/ CancelGuards
  BY <1>5 DEF CancelFence, CancelRuns, CancelGuards, sweepVars, Solo, RowsStay
<1>6. ASSUME NEW j \in Identities, SweepSettle(j)
      PROVE  /\ RowsStay /\ \A i \in Identities : intent[i].state = "NONE" => intent'[i] = intent[i]
             /\ \A i \in Identities : verdict'[i] # "none" => intent'[i].state # "NONE"
             /\ cancelPc' # "none" => gen' # 0
  <2>1. intent[j] \in Row /\ intent[j].state # "NONE"
    BY <1>6, <1>t DEF SweepSettle, Solo
  <2>2. Confirmed(intent[j]).state # "NONE"
    BY <2>1 DEF Confirmed, Row
  <2>3. record_absence(intent[j], sweepAt, verdict[j] = "silent").state # "NONE"
    BY <2>1 DEF record_absence, Row
  <2>4. intent'[j].state # "NONE" /\ \A i \in Identities \ {j} : intent'[i] = intent[i]
    BY <1>6, <2>2, <2>3, <1>t DEF SweepSettle
  <2>5. \A i \in Identities : verdict'[i] # "none" => verdict[i] # "none"
    BY <1>6 DEF SweepSettle, TypeInv, TypeOK
  <2>6. UNCHANGED <<gen, cancelPc>>
    BY <1>6 DEF SweepSettle, jobVars
  <2> QED BY <2>1, <2>4, <2>5, <2>6 DEF Solo, RowsStay
<1>7. ASSUME NEW up \in SUBSET Nodes, SweepScan(up)
      PROVE  /\ UNCHANGED <<intent, gen, cancelPc>>
             /\ \A i \in Identities : verdict'[i] # "none" => intent[i].state # "NONE"
  BY <1>7 DEF SweepScan, jobVars, OPEN_QUESTION_STATES
<1>8. CASE \E up \in SUBSET Nodes : SweepScan(up)
  BY <1>7, <1>8 DEF RowsStay, Solo
<1> QED BY <1>2, <1>3, <1>4, <1>5, <1>6, <1>8 DEF Next

\* Solo is inductive.
LEMMA SoloStep == ASSUME TypeInv, Rested, Solo, Next PROVE Solo'
<1>1. CASE \E d \in Deliveries : Deliver(d)
  BY <1>1, DeliverSolo
<1>2. CASE ~\E d \in Deliveries : Deliver(d)
  <2>1. UNCHANGED me
    BY <1>2, OnlyDeliver
  <2>2. ASSUME NEW d \in Deliveries, me[d].pc # "idle" PROVE SoloWork(d)'
    <3>1. me[d].who \in Identities /\ SoloWork(d)
      BY <2>2, IdleIsOff DEF Solo
    <3> QED BY <1>2, <2>1, <3>1, EnvironmentRows DEF SoloWork, RowsStay
  <2> QED BY <1>2, <2>1, <2>2, EnvironmentRows DEF Solo
<1> QED BY <1>1, <1>2

\* An execution moves nobody else.
LEMMA OthersStay ==
  ASSUME TypeInv, NEW d \in Deliveries, Deliver(d)
  PROVE  \A e \in Deliveries \ {d} : me'[e] = me[e]
<1>t. me \in [Deliveries -> Local]
  BY DEF TypeInv, TypeOK
<1>0. ASSUME NEW m, me' = [me EXCEPT ![d] = m] PROVE \A e \in Deliveries \ {d} : me'[e] = me[e]
  BY <1>0, <1>t
<1>g. ASSUME NEW label, Goto(d, label) PROVE \E m : me' = [me EXCEPT ![d] = m]
  BY <1>g, <1>t DEF Goto
<1>w. ASSUME NEW label, NEW row, WriteGoto(d, row, label) PROVE \E m : me' = [me EXCEPT ![d] = m]
  BY <1>w, <1>t DEF WriteGoto
<1>l. ASSUME Leave(d) PROVE \E m : me' = [me EXCEPT ![d] = m]
  BY <1>l DEF Leave
<1>1. CASE \E j \in Identities, n \in Nodes : Plan(d, j, n)
  BY <1>1, <1>t DEF Plan
<1>2. CASE AskPool(d)
  <2>1. ASSUME NEW heard, me' = [me EXCEPT ![d].pc = "apply", ![d].since = now, ![d].heard = heard]
        PROVE  \E m : me' = [me EXCEPT ![d] = m]
    <3>1. me' = [me EXCEPT ![d] = [me[d] EXCEPT !.pc = "apply", !.since = now, !.heard = heard]]
      BY <2>1, <1>t
    <3> QED BY <3>1
  <2>2. \E m : me' = [me EXCEPT ![d] = m]
    BY <1>2, <1>g, <1>l, <2>1 DEF AskPool
  <2> QED BY <2>2, <1>0
<1>3. CASE ReceiverCheck(d) \/ Reconcile(d) \/ Claim(d) \/ Send(d)
  BY <1>3, <1>0, <1>g, <1>l, <1>t DEF ReceiverCheck, Reconcile, Claim, Send
<1>4. CASE ApplyAnswer(d) \/ record_post(d) \/ Fail(d) \/ ConfirmPost(d)
  BY <1>4, <1>0, <1>w, <1>l DEF ApplyAnswer, record_post, Fail, ConfirmPost
<1>5. CASE Answered(d) \/ PostRefused(d) \/ PostAbandoned(d) \/ CommitGuard(d)
  BY <1>5, <1>0, <1>g DEF Answered, PostRefused, PostAbandoned, CommitGuard
<1>6. CASE Release(d) \/ Stamp(d) \/ Crash(d)
  BY <1>6, <1>0, <1>l DEF Release, Stamp, Crash
<1> QED BY <1>1, <1>2, <1>3, <1>4, <1>5, <1>6 DEF Deliver

\* Nothing the protocol remembers lies in the future, and no request waits or
\* travels longer than its timeout.  (FenceOK says so of the question to the pool.)
Timely ==
  /\ sweepAt <= now
  /\ \A d \in Deliveries : me[d].pc = "wait" => me[d].since <= now /\ now <= me[d].since + HttpTimeout
  /\ \A i \in Identities, k \in Posts :
       run[i][k].st = "inflight" =>
         0 <= run[i][k].at /\ run[i][k].at <= now /\ now <= run[i][k].at + NetDelay

\* An execution waits for an answer only after its own POST.
LEMMA WaitBySend ==
  ASSUME TypeInv, NEW d \in Deliveries, Deliver(d), ~Send(d)
  PROVE  me'[d].pc # "wait"
<1>t. me \in [Deliveries -> Local] /\ me[d] \in Local /\ Idle.pc = "idle"
  BY DEF TypeInv, TypeOK, Idle
<1>e. ASSUME NEW m, me' = [me EXCEPT ![d] = m], m.pc # "wait" PROVE me'[d].pc # "wait"
  BY <1>e, <1>t
<1>g. ASSUME NEW label, label # "wait", Goto(d, label) PROVE me'[d].pc # "wait"
  <2>1. me' = [me EXCEPT ![d] = [me[d] EXCEPT !.pc = label]]
    BY <1>g, <1>t DEF Goto
  <2>2. [me[d] EXCEPT !.pc = label].pc = label
    BY <1>t DEF Local
  <2> QED BY <2>1, <2>2, <1>e, <1>g
<1>w. ASSUME NEW label, NEW row, label # "wait", WriteGoto(d, row, label) PROVE me'[d].pc # "wait"
  <2>1. /\ [me[d] EXCEPT !.pc = label].pc = label
        /\ [me[d] EXCEPT !.pc = label, !.draft = row].pc = label
    BY <1>t DEF Local
  <2>2. \/ me' = [me EXCEPT ![d] = [me[d] EXCEPT !.pc = label]]
        \/ me' = [me EXCEPT ![d] = [me[d] EXCEPT !.pc = label, !.draft = row]]
    BY <1>w, <1>t DEF WriteGoto
  <2> QED BY <2>1, <2>2, <1>e, <1>w
<1>l. ASSUME Leave(d) PROVE me'[d].pc # "wait"
  BY <1>l, <1>e, <1>t DEF Leave
<1>1. ASSUME NEW j \in Identities, NEW n \in Nodes, Plan(d, j, n) PROVE me'[d].pc # "wait"
  <2> DEFINE row == IF intent[j].state = "NONE"
                    THEN [NoRow EXCEPT !.state = "PLANNED", !.node = n, !.gen = gen]
                    ELSE intent[j]
             next == IF intent[j].state = "RECONCILED_MISSING" THEN "receiver" ELSE "reconcile"
  <2>1. \/ me' = [me EXCEPT ![d] = [me[d] EXCEPT !.pc = next, !.who = j]]
        \/ me' = [me EXCEPT ![d] = [me[d] EXCEPT !.pc = next, !.who = j, !.draft = row]]
    BY <1>1, <1>t DEF Plan
  <2>2. next # "wait"
    OBVIOUS
  <2> HIDE DEF row, next
  <2>3. /\ [me[d] EXCEPT !.pc = next, !.who = j].pc = next
        /\ [me[d] EXCEPT !.pc = next, !.who = j, !.draft = row].pc = next
    BY <1>t DEF Local
  <2> QED BY <2>1, <2>2, <2>3, <1>e
<1>2. ASSUME AskPool(d) PROVE me'[d].pc # "wait"
  <2>1. ASSUME NEW heard,
               me' = [me EXCEPT ![d].pc = "apply", ![d].since = now, ![d].heard = heard]
        PROVE  me'[d].pc # "wait"
    <3>1. [me[d] EXCEPT !.pc = "apply", !.since = now, !.heard = heard].pc = "apply"
      BY <1>t DEF Local
    <3>2. me' = [me EXCEPT ![d] = [me[d] EXCEPT !.pc = "apply", !.since = now, !.heard = heard]]
      BY <2>1, <1>t
    <3> QED BY <3>1, <3>2, <1>e
  <2> QED BY <1>2, <1>l, <1>g, <2>1 DEF AskPool
<1>3. ASSUME ReceiverCheck(d) \/ Reconcile(d) \/ Claim(d) PROVE me'[d].pc # "wait"
  BY <1>3, <1>l, <1>g, <1>e, <1>t DEF ReceiverCheck, Reconcile, Claim
<1>4. ASSUME ApplyAnswer(d) \/ record_post(d) \/ Fail(d) \/ ConfirmPost(d) PROVE me'[d].pc # "wait"
  BY <1>4, <1>l, <1>w DEF ApplyAnswer, record_post, Fail, ConfirmPost
<1>5. ASSUME Answered(d) \/ PostRefused(d) \/ PostAbandoned(d) \/ CommitGuard(d) PROVE me'[d].pc # "wait"
  BY <1>5, <1>g DEF Answered, PostRefused, PostAbandoned, CommitGuard
<1>6. ASSUME Release(d) \/ Stamp(d) \/ Crash(d) PROVE me'[d].pc # "wait"
  BY <1>6, <1>l, <1>e, <1>t DEF Release, Stamp, Crash
<1> QED BY <1>1, <1>2, <1>3, <1>4, <1>5, <1>6 DEF Deliver

\* Send puts one request in flight, towards the node of its record, and waits.
LEMMA SendEffect ==
  ASSUME TypeInv, NEW d \in Deliveries, NEW i \in Identities, me[d].who = i, Send(d)
  PROVE  \E k \in Posts, m \in Local :
           /\ run[i][k].st = "unsent"
           /\ run'[i][k] = [st |-> "inflight", node |-> RowOf(d).node, at |-> now]
           /\ \A l \in Posts \ {k} : run'[i][l] = run[i][l]
           /\ \A j \in Identities \ {i} : run'[j] = run[j]
           /\ me' = [me EXCEPT ![d] = m] /\ UNCHANGED intent
           /\ m.pc = "wait" /\ m.since = now /\ m.ticket = k /\ m.who = i /\ m.draft = me[d].draft
<1>t. run \in [Identities -> [Posts -> Entry]] /\ me \in [Deliveries -> Local] /\ me[d] \in Local
  BY DEF TypeInv, TypeOK
<1>1. PICK k \in Posts :
        /\ run[i][k].st = "unsent"
        /\ run' = [run EXCEPT ![i][k] = [st |-> "inflight", node |-> RowOf(d).node, at |-> now]]
        /\ me' = [me EXCEPT ![d].pc = "wait", ![d].since = now, ![d].ticket = k]
  BY DEF Send
<1> DEFINE m == [me[d] EXCEPT !.pc = "wait", !.since = now, !.ticket = k]
<1>2. m.pc = "wait" /\ m.since = now /\ m.ticket = k /\ m.who = i /\ m.draft = me[d].draft
  BY <1>t DEF Local
<1>5. m \in Local
  BY <1>t DEF TypeInv, TypeOK, Local, PcStates
<1>3. me' = [me EXCEPT ![d] = m] /\ UNCHANGED intent
  BY <1>1, <1>t DEF Send
<1> HIDE DEF m
<1>4. /\ run'[i][k] = [st |-> "inflight", node |-> RowOf(d).node, at |-> now]
      /\ \A l \in Posts \ {k} : run'[i][l] = run[i][l]
      /\ \A j \in Identities \ {i} : run'[j] = run[j]
  BY <1>1, <1>t
<1> QED BY <1>1, <1>2, <1>3, <1>4, <1>5

\* Timely is inductive: a clock tick waits for whoever would be late.
LEMMA TimelyStep == ASSUME TypeInv, Rested, Timely, Next PROVE Timely'
<1>t. /\ now \in Time /\ sweepAt \in Time /\ run \in [Identities -> [Posts -> Entry]]
      /\ me \in [Deliveries -> Local] /\ HttpTimeout \in Nat /\ NetDelay \in Nat /\ Time \subseteq Nat
      /\ \A d \in Deliveries : me[d].since \in Nat
      /\ \A i \in Identities, k \in Posts : run[i][k].at \in Int
  BY Bounds DEF TypeInv, TypeOK, Time, Local, Entry, Never
<1>1. ASSUME NEW d \in Deliveries, Deliver(d) PROVE Timely'
  <2>1. UNCHANGED <<now, sweepAt>>
    BY <1>1, DeliverKeeps
  <2>2. \A e \in Deliveries \ {d} : me'[e] = me[e]
    BY <1>1, OthersStay
  <2>3. ASSUME Send(d) PROVE Timely'
    <3>0. me[d].who \in Identities
      BY <2>3 DEF Send, TypeInv, WorkerOK
    <3>1. PICK k \in Posts, m \in Local :
           /\ run'[me[d].who][k] = [st |-> "inflight", node |-> RowOf(d).node, at |-> now]
           /\ \A l \in Posts \ {k} : run'[me[d].who][l] = run[me[d].who][l]
           /\ \A j \in Identities \ {me[d].who} : run'[j] = run[j]
           /\ me' = [me EXCEPT ![d] = m] /\ m.since = now
      BY <2>3, <3>0, SendEffect
    <3>2. me'[d].since = now
      BY <3>1, <1>t
    <3>3. ASSUME NEW e \in Deliveries, me'[e].pc = "wait"
          PROVE  me'[e].since <= now /\ now <= me'[e].since + HttpTimeout
      BY <2>2, <3>2, <3>3, <1>t DEF Timely
    <3>4. ASSUME NEW i \in Identities, NEW l \in Posts, run'[i][l].st = "inflight"
          PROVE  0 <= run'[i][l].at /\ run'[i][l].at <= now /\ now <= run'[i][l].at + NetDelay
      <4>1. CASE i = me[d].who /\ l = k
        BY <3>1, <4>1, <1>t
      <4>2. CASE ~(i = me[d].who /\ l = k)
        <5>1. run'[i][l] = run[i][l]
          BY <3>1, <4>2
        <5> QED BY <3>4, <5>1 DEF Timely
      <4> QED BY <4>1, <4>2
    <3> QED BY <2>1, <3>3, <3>4 DEF Timely
  <2>4. ASSUME ~Send(d) PROVE Timely'
    <3>1. me'[d].pc # "wait"
      BY <1>1, <2>4, WaitBySend
    <3>2. \A i \in Identities : RunsFall(i)
      BY <1>1, <2>4, DeliverFalls
    <3>3. ASSUME NEW i \in Identities, NEW k \in Posts, run'[i][k].st = "inflight"
          PROVE  run'[i][k] = run[i][k]
      BY <3>2, <3>3 DEF RunsFall, Active
    <3> QED BY <2>1, <2>2, <3>1, <3>3 DEF Timely
  <2> QED BY <2>3, <2>4
<1>2. ASSUME ~\E d \in Deliveries : Deliver(d) PROVE Timely'
  <2>1. UNCHANGED me /\ \A i \in Identities : RunsFall(i)
    BY <1>2, OnlyDeliver, EnvironmentRuns
  <2>2. ASSUME NEW i \in Identities, NEW k \in Posts, run'[i][k].st = "inflight"
        PROVE  run'[i][k] = run[i][k]
    BY <2>1, <2>2 DEF RunsFall, Active
  <2>3. CASE now' = now
    <3>1. sweepAt' \in {sweepAt, now, 0}
      <4>1. CASE UNCHANGED sweepAt
        BY <4>1
      <4>2. CASE \E up \in SUBSET Nodes : SweepScan(up)
        BY <4>2 DEF SweepScan
      <4>3. CASE \E i \in Identities : SweepSettle(i)
        BY <4>3 DEF SweepSettle
      <4>4. CASE (\E i \in Identities : HandBack(i)) \/ CancelFence \/ CancelRuns \/ CancelGuards \/ Tick
        BY <4>1, <4>4 DEF HandBack, CancelFence, CancelRuns, CancelGuards, Tick, sweepVars
      <4>5. CASE \/ \E j \in Identities, m \in Posts : Accept(j, m) \/ Lose(j, m)
                 \/ \E n \in Nodes : Restart(n) \/ \E j \in Identities, m \in Posts : Finish(n, j, m)
        BY <4>1, <4>5, NodeFrame DEF sweepVars
      <4> QED BY <1>2, <4>2, <4>3, <4>4, <4>5 DEF Next
    <3>2. sweepAt' <= now
      BY <3>1, <1>t DEF Timely
    <3> QED BY <2>1, <2>2, <2>3, <3>2 DEF Timely
  <2>4. CASE Tick
    <3>1. now' = now + 1 /\ UNCHANGED <<run, sweepAt>>
      BY <2>4 DEF Tick, nodeVars, sweepVars
    <3>2. \A d \in Deliveries : me[d].pc = "wait" => now - me[d].since < HttpTimeout
      BY <2>4 DEF Tick
    <3>3. \A i \in Identities, k \in Posts : run[i][k].st = "inflight" => now - run[i][k].at < NetDelay
      BY <2>4 DEF Tick
    <3>4. sweepAt' <= now'
      BY <3>1, <1>t DEF Timely
    <3>5. ASSUME NEW d \in Deliveries, me[d].pc = "wait"
          PROVE  me[d].since <= now' /\ now' <= me[d].since + HttpTimeout
      <4>1. me[d].since <= now /\ now - me[d].since < HttpTimeout
        BY <3>2, <3>5 DEF Timely
      <4> QED BY <4>1, <3>1, <1>t
    <3>6. ASSUME NEW i \in Identities, NEW k \in Posts, run[i][k].st = "inflight"
          PROVE  0 <= run[i][k].at /\ run[i][k].at <= now' /\ now' <= run[i][k].at + NetDelay
      <4>1. 0 <= run[i][k].at /\ run[i][k].at <= now /\ now - run[i][k].at < NetDelay
        BY <3>3, <3>6 DEF Timely
      <4> QED BY <4>1, <3>1, <1>t
    <3> QED BY <2>1, <3>1, <3>4, <3>5, <3>6 DEF Timely
  <2>5. ASSUME ~Tick PROVE now' = now
    BY <1>2, <2>5, EnvironmentFrame
  <2> QED BY <2>3, <2>4, <2>5
<1> QED BY <1>1, <1>2

\* What the record of i says is true of its runs: where they are, that none is
\* younger than its POST, and that a record which permits a POST has none.
BookWork(d, i) ==
  /\ me[d].pc = "send" => Rec(i).posted = now
  /\ me[d].pc = "apply" /\ me[d].heard = "silent" => Rec(i).posted >= me[d].since \/ Quiet(i)
  /\ d \in CallerOwned /\ me[d].ticket = 0 => Act(i) = {}

Book(i) ==
  /\ Rec(i).state # "NONE" => Rec(i).node \in Nodes
  /\ \A k \in Act(i) : Rec(i).state # "NONE" /\ run[i][k].node = Rec(i).node
  /\ \A k \in Posts : run[i][k].st = "inflight" => run[i][k].at <= Rec(i).posted
  /\ Rec(i).state \in {"NONE", "PLANNED", "RECONCILED_MISSING"} => Quiet(i)
  /\ verdict[i] = "silent" => sweepAt - Rec(i).posted < Lease \/ Quiet(i)
  /\ \A d \in Deliveries : On(d, i) => BookWork(d, i)

\* While the job is not cancelled: one execution at a time between its claim and
\* the end of its POST, under a guard that outlives it, with no other run about.
Holding == {"record", "send", "wait", "fail", "release", "confirm", "guard"}
Holds(d, i) == On(d, i) /\ me[d].pc \in Holding
Held(i, t) == guard[i].val # "none" /\ guard[i].exp > t

MutexWork(d, i) ==
  /\ me[d].pc \in {"record", "send"} => Held(i, now + HttpTimeout)
  /\ me[d].pc = "wait" => Held(i, me[d].since + HttpTimeout)
  /\ me[d].pc \in {"fail", "release", "confirm", "guard"} => Held(i, now)
  /\ me[d].pc \in {"record", "send", "fail", "release"} => Act(i) = {}
  /\ me[d].pc \in {"wait", "confirm", "guard"} => Act(i) \subseteq {me[d].ticket}
  /\ me[d].pc = "claim" => Act(i) = {} \/ Held(i, now)

Mutex(i) ==
  /\ \A j, k \in Act(i) : j = k
  /\ Rec(i).state = "FAILED" => Quiet(i)
  /\ \A d, e \in Deliveries : Holds(d, i) /\ Holds(e, i) => d = e
  /\ \A d \in Deliveries : On(d, i) => MutexWork(d, i)

Truthful == \A i \in Identities : excuse[i] = {} => Book(i) /\ (gen = 0 => Mutex(i))

\* A step of e that neither POSTs nor trusts a denial it has not checked.
Tame(e, i) ==
  On(e, i)' =>
    /\ me'[e].pc # "send"
    /\ me'[e].pc = "apply" /\ me'[e].heard = "silent" => Quiet(i)'
    /\ \/ e \notin CallerOwned \/ Act(i)' = {}
       \/ On(e, i) /\ me'[e].ticket = me[e].ticket

\* A record may change while its batch is quiet; otherwise it keeps its POST,
\* and never becomes one that permits another.
RecGoes(i) ==
  \/ Quiet(i)' /\ (Rec(i)'.state # "NONE" => Rec(i)'.node \in Nodes)
  \/ /\ Rec(i)'.node = Rec(i).node /\ Rec(i)'.posted = Rec(i).posted
     /\ Rec(i)'.state = "NONE" <=> Rec(i).state = "NONE"
     /\ Rec(i)'.state \in {"PLANNED", "RECONCILED_MISSING"} => Rec(i)'.state = Rec(i).state

\* Runs that fall leave no new run about.
LEMMA ActFalls ==
  ASSUME NEW i \in Identities, RunsFall(i)
  PROVE  Act(i)' \subseteq Act(i)
BY DEF Act, RunsFall

\* A quiet batch stays quiet unless somebody is about to POST it.
LEMMA QuietFalls ==
  ASSUME NEW i \in Identities, NEW D, RunsFall(i), Quiet(i),
         \A e \in Deliveries \ D : me'[e] = me[e],
         \A e \in D : On(e, i)' => me'[e].pc # "send"
  PROVE  Quiet(i)'
BY ActFalls DEF Quiet, On

\* The conditions under which any step keeps the book of a batch; D are the executions it moves.
LEMMA BookMove ==
  ASSUME NEW i \in Identities, NEW D, Book(i), RunsFall(i),
         \A e \in Deliveries \ D : me'[e] = me[e], \A e \in D : Tame(e, i),
         now' = now \/ \A e \in Deliveries : me[e].pc # "send",
         RecGoes(i),
         verdict'[i] = "silent" =>
           \/ verdict[i] = "silent" /\ sweepAt' = sweepAt
           \/ Quiet(i)'
           \/ sweepAt' - Rec(i)'.posted < Lease
  PROVE  Book(i)'
<1>q. Quiet(i) => Quiet(i)'
  BY QuietFalls DEF Tame
<1>a. Act(i)' \subseteq Act(i)
  BY ActFalls
<1>1. Rec(i)'.state # "NONE" => Rec(i)'.node \in Nodes
  BY DEF RecGoes, Book
<1>2. ASSUME NEW k \in Act(i)'
      PROVE  Rec(i)'.state # "NONE" /\ run'[i][k].node = Rec(i)'.node
  <2>1. k \in Posts /\ k \in Act(i) /\ run'[i][k].node = run[i][k].node /\ ~Quiet(i)'
    BY <1>2, <1>a DEF Act, RunsFall, Quiet
  <2> QED BY <2>1 DEF RecGoes, Book
<1>3. ASSUME NEW k \in Posts, run'[i][k].st = "inflight"
      PROVE  run'[i][k].at <= Rec(i)'.posted
  <2>1. k \in Act(i)' /\ run'[i][k] = run[i][k]
    BY <1>3 DEF Act, RunsFall, Active
  <2>2. ~Quiet(i)'
    BY <2>1 DEF Quiet
  <2> QED BY <1>3, <2>1, <2>2 DEF RecGoes, Book
<1>4. Rec(i)'.state \in {"NONE", "PLANNED", "RECONCILED_MISSING"} => Quiet(i)'
  BY <1>q DEF RecGoes, Book
<1>5. verdict'[i] = "silent" => sweepAt' - Rec(i)'.posted < Lease \/ Quiet(i)'
  BY <1>q DEF RecGoes, Book
<1>6. ASSUME NEW e \in Deliveries, On(e, i)' PROVE BookWork(e, i)'
  <2>1. CASE e \in D
    <3>1. e \in CallerOwned /\ me'[e].ticket = 0 => Act(i)' = {}
      BY <1>6, <2>1, <1>a DEF Tame, Book, BookWork
    <3> QED BY <1>6, <2>1, <3>1 DEF Tame, BookWork
  <2>2. CASE e \notin D
    <3>1. me'[e] = me[e] /\ On(e, i) /\ BookWork(e, i)
      BY <1>6, <2>2 DEF On, Book
    <3>2. CASE me[e].pc = "send"
      <4>1. ~Quiet(i)' /\ now' = now
        BY <1>6, <3>1, <3>2 DEF Quiet
      <4> QED BY <3>1, <3>2, <4>1, <1>a DEF RecGoes, BookWork
    <3>3. CASE me[e].pc # "send"
      BY <3>1, <3>3, <1>a, <1>q DEF RecGoes, BookWork
    <3> QED BY <3>2, <3>3
  <2> QED BY <2>1, <2>2
<1> QED BY <1>1, <1>2, <1>3, <1>4, <1>5, <1>6 DEF Book

\* An execution that neither holds a claim nor is about to take one needs none.
LEMMA FreeWork ==
  ASSUME NEW d \in Deliveries, NEW i \in Identities, me'[d].pc \notin Holding \cup {"claim"}
  PROVE  MutexWork(d, i)'
BY DEF MutexWork, Holding

\* The same for the mutual exclusion.
LEMMA MutexMove ==
  ASSUME TypeInv, TypeInv', Timely, NEW i \in Identities, NEW D, Mutex(i), RunsFall(i), now' = now,
         \A e \in Deliveries \ D : me'[e] = me[e],
         \A e \in D : On(e, i)' => MutexWork(e, i)',
         Rec(i)'.state = "FAILED" => Quiet(i)',
         \/ \A e \in D : Holds(e, i)' => Holds(e, i)
         \/ (\E d : D = {d}) /\ \A e \in Deliveries : ~Holds(e, i),
         \/ guard'[i] = guard[i]
         \/ Held(i, now + HttpTimeout)'
         \/ Act(i)' = {} /\ \A e \in Deliveries : ~Holds(e, i)'
  PROVE  Mutex(i)'
<1>a. Act(i)' \subseteq Act(i)
  BY ActFalls
<1>1. \A j, k \in Act(i)' : j = k
  BY <1>a DEF Mutex
<1>2. \A e \in Deliveries \ D : Holds(e, i)' => Holds(e, i)
  BY DEF Holds, On
<1>3. \A d, e \in Deliveries : Holds(d, i)' /\ Holds(e, i)' => d = e
  BY <1>2 DEF Mutex
<1>4. ASSUME NEW e \in Deliveries \ D, On(e, i)' PROVE MutexWork(e, i)'
  <2>1. me'[e] = me[e] /\ On(e, i) /\ MutexWork(e, i)
    BY <1>4 DEF On, Mutex
  <2>2. CASE guard'[i] = guard[i]
    BY <2>1, <2>2, <1>a DEF MutexWork, Held
  <2>3. CASE Held(i, now + HttpTimeout)'
    <3>1. /\ now \in Nat /\ HttpTimeout \in Nat /\ me[e].since \in Nat /\ guard'[i].exp \in Int
          /\ me[e].pc = "wait" => me[e].since <= now
      BY Bounds DEF TypeInv, TypeOK, Time, Local, Guard, Timely
    <3>2. guard'[i].val # "none" /\ guard'[i].exp > now + HttpTimeout
      BY <2>3 DEF Held
    <3>3. Held(i, now)' /\ (me[e].pc = "wait" => Held(i, me[e].since + HttpTimeout)')
      BY <3>1, <3>2 DEF Held
    <3> QED BY <2>1, <2>3, <3>3, <1>a DEF MutexWork
  <2>4. CASE Act(i)' = {} /\ \A f \in Deliveries : ~Holds(f, i)'
    BY <1>4, <2>4 DEF MutexWork, Holds, Holding
  <2> QED BY <2>2, <2>3, <2>4
<1>5. \A e \in Deliveries : On(e, i)' => MutexWork(e, i)'
  BY <1>4
<1> QED BY <1>1, <1>3, <1>5 DEF Mutex

\* A fresh guard value outlives any request sent now.
LEMMA FreshGuard ==
  ASSUME TypeInv, NEW i \in Identities, NEW val, val # "none", NEW ttl \in Nat, HttpTimeout < ttl,
         SetGuard(i, val, ttl), now' = now
  PROVE  Held(i, now + HttpTimeout)'
<1>1. guard'[i] = [val |-> val, exp |-> now + ttl] /\ now \in Nat /\ HttpTimeout \in Nat
  BY Bounds DEF SetGuard, TypeInv, TypeOK, Time
<1> QED BY <1>1 DEF Held

\* An execution writes the row, the guard and the runs of its own batch only, and
\* no cause is ever forgotten.
LEMMA DeliverOwn ==
  ASSUME TypeInv, NEW d \in Deliveries, Deliver(d), ~\E j \in Identities, n \in Nodes : Plan(d, j, n)
  PROVE  /\ me[d].pc # "idle" /\ me'[d].who \in {me[d].who, None}
         /\ \A j \in Identities \ {me[d].who} :
              intent'[j] = intent[j] /\ run'[j] = run[j] /\ guard'[j] = guard[j] /\ excuse'[j] = excuse[j]
         /\ \A j \in Identities : excuse[j] \subseteq excuse'[j]
<1>t. /\ me \in [Deliveries -> Local] /\ me[d] \in Local /\ intent \in [Identities -> Row]
      /\ run \in [Identities -> [Posts -> Entry]] /\ guard \in [Identities -> Guard]
      /\ excuse \in [Identities -> SUBSET Causes] /\ Idle.who = None
  BY DEF TypeInv, TypeOK, Idle
<1> DEFINE Own == \A j \in Identities \ {me[d].who} :
                    intent'[j] = intent[j] /\ run'[j] = run[j] /\ guard'[j] = guard[j] /\ excuse'[j] = excuse[j]
           More == \A j \in Identities : excuse[j] \subseteq excuse'[j]
           Stays == me'[d].who \in {me[d].who, None} /\ \A j \in Identities \ {me[d].who} : intent'[j] = intent[j]
           Mine(f) == \A j \in Identities \ {me[d].who} : f'[j] = f[j]
<1>e. ASSUME NEW m, m.who = me[d].who, me' = [me EXCEPT ![d] = m], UNCHANGED intent PROVE Stays
  BY <1>e, <1>t
<1>g. ASSUME NEW label, Goto(d, label) PROVE Stays
  <2>1. [me[d] EXCEPT !.pc = label].who = me[d].who /\ me' = [me EXCEPT ![d] = [me[d] EXCEPT !.pc = label]]
    BY <1>g, <1>t DEF Goto, Local
  <2> QED BY <2>1, <1>e, <1>g DEF Goto
<1>w. ASSUME NEW label, NEW row, WriteGoto(d, row, label) PROVE Stays
  <2>1. /\ [me[d] EXCEPT !.pc = label].who = me[d].who
        /\ [me[d] EXCEPT !.pc = label, !.draft = row].who = me[d].who
    BY <1>t DEF Local
  <2>2. \/ me' = [me EXCEPT ![d] = [me[d] EXCEPT !.pc = label]]
        \/ me' = [me EXCEPT ![d] = [me[d] EXCEPT !.pc = label, !.draft = row]]
    BY <1>w, <1>t DEF WriteGoto
  <2>3. me'[d].who = me[d].who
    BY <2>1, <2>2, <1>t
  <2> QED BY <2>3, <1>w, <1>t DEF WriteGoto
<1>l. ASSUME Leave(d) PROVE Stays
  BY <1>l, <1>t DEF Leave
<1>s. ASSUME NEW val, NEW ttl, SetGuard(me[d].who, val, ttl) PROVE Mine(guard)
  BY <1>s, <1>t DEF SetGuard
<1>x. UNCHANGED excuse => Mine(excuse) /\ More
  OBVIOUS
<1>y. ASSUME NEW c, excuse' = [excuse EXCEPT ![me[d].who] = @ \cup {c}] PROVE Mine(excuse) /\ More
  BY <1>y, <1>t
<1>1. CASE ReceiverCheck(d)
  <2>1. Stays
    BY <1>1, <1>l, <1>g, <1>t DEF ReceiverCheck
  <2> QED BY <1>1, <2>1, <1>x DEF ReceiverCheck, nodeVars
<1>2. CASE Reconcile(d)
  <2>1. Stays /\ Mine(guard)
    BY <1>2, <1>l, <1>g, <1>s DEF Reconcile
  <2> QED BY <1>2, <2>1, <1>x DEF Reconcile, nodeVars
<1>3. CASE AskPool(d)
  <2>1. ASSUME NEW heard, UNCHANGED intent,
               me' = [me EXCEPT ![d].pc = "apply", ![d].since = now, ![d].heard = heard]
        PROVE  Stays
    <3> DEFINE m == [me[d] EXCEPT !.pc = "apply", !.since = now, !.heard = heard]
    <3>1. m.who = me[d].who
      BY <1>t DEF Local
    <3>2. me' = [me EXCEPT ![d] = m]
      BY <2>1, <1>t
    <3> HIDE DEF m, Stays
    <3> QED BY <2>1, <3>1, <3>2, <1>e
  <2>2. Stays
    BY <1>3, <1>l, <1>g, <2>1 DEF AskPool
  <2>3. Mine(excuse) /\ More
    BY <1>3, <1>x, <1>y DEF AskPool
  <2> QED BY <1>3, <2>2, <2>3 DEF AskPool, nodeVars
<1>4. CASE ApplyAnswer(d)
  <2>1. Stays /\ Mine(guard)
    BY <1>4, <1>l, <1>w, <1>s DEF ApplyAnswer
  <2>2. Mine(excuse) /\ More
    BY <1>4, <1>x, <1>y DEF ApplyAnswer
  <2> QED BY <1>4, <2>1, <2>2 DEF ApplyAnswer, nodeVars
<1>5. CASE Claim(d)
  <2>1. Stays /\ Mine(guard)
    BY <1>5, <1>l, <1>g, <1>s DEF Claim
  <2> QED BY <1>5, <2>1, <1>x DEF Claim, nodeVars
<1>6. CASE record_post(d) \/ Fail(d) \/ ConfirmPost(d)
  <2>1. Stays
    BY <1>6, <1>w DEF record_post, Fail, ConfirmPost
  <2> QED BY <1>6, <2>1, <1>x DEF record_post, Fail, ConfirmPost, nodeVars
<1>7. CASE Send(d)
  <2>1. PICK k \in Posts : me' = [me EXCEPT ![d].pc = "wait", ![d].since = now, ![d].ticket = k]
    BY <1>7 DEF Send
  <2> DEFINE m == [me[d] EXCEPT !.pc = "wait", !.since = now, !.ticket = k]
  <2>2. m.who = me[d].who
    BY <1>t DEF Local
  <2>3. me' = [me EXCEPT ![d] = m]
    BY <2>1, <1>t
  <2> HIDE DEF m, Stays
  <2>4. Stays
    <3>1. UNCHANGED intent
      BY <1>7 DEF Send
    <3> QED BY <2>2, <2>3, <3>1, <1>e
  <2>5. Mine(run)
    BY <1>7, <1>t DEF Send
  <2> QED BY <1>7, <2>4, <2>5, <1>x DEF Send, Stays
<1>8. CASE Answered(d)
  <2>1. Stays
    BY <1>8, <1>g DEF Answered
  <2> QED BY <1>8, <2>1, <1>x DEF Answered, nodeVars
<1>9. CASE PostRefused(d)
  <2>1. Stays /\ Mine(run)
    BY <1>9, <1>g, <1>t DEF PostRefused
  <2> QED BY <1>9, <2>1, <1>x DEF PostRefused
<1>10. CASE PostAbandoned(d)
  <2>1. Stays /\ Mine(excuse) /\ More
    BY <1>10, <1>g, <1>y DEF PostAbandoned
  <2> QED BY <1>10, <2>1 DEF PostAbandoned, nodeVars
<1>11. CASE Release(d)
  <2>1. Stays /\ Mine(guard)
    BY <1>11, <1>l, <1>t DEF Release
  <2> QED BY <1>11, <2>1, <1>x DEF Release, nodeVars
<1>12. CASE CommitGuard(d)
  <2>1. Stays /\ Mine(guard)
    BY <1>12, <1>g, <1>s DEF CommitGuard
  <2> QED BY <1>12, <2>1, <1>x DEF CommitGuard, nodeVars
<1>13. CASE Stamp(d)
  <2>1. Stays
    BY <1>13, <1>l DEF Stamp
  <2> QED BY <1>13, <2>1, <1>x DEF Stamp, nodeVars
<1>14. CASE Crash(d)
  <2>1. Stays /\ Mine(excuse) /\ More
    BY <1>14, <1>x, <1>y, <1>t DEF Crash
  <2> QED BY <1>14, <2>1 DEF Crash, nodeVars
<1> QED BY <1>1, <1>2, <1>3, <1>4, <1>5, <1>6, <1>7, <1>8, <1>9, <1>10, <1>11, <1>12, <1>13, <1>14 DEF Deliver

BookInv == TypeInv /\ Rested /\ Solo /\ Timely /\ FenceInv /\ Truthful

\* The two obligations of a step of one execution, once its effect is known.
LEMMA BookStep ==
  ASSUME NEW d \in Deliveries, Deliver(d), NEW i \in Identities, NEW b \in Identities,
         Apart(d, b), Book(i), RunsFall(i), Tame(d, i), RecGoes(i)
  PROVE  Book(i)'
<1> DEFINE D == {d}
<1>1. /\ \A e \in Deliveries \ D : me'[e] = me[e]
      /\ \A e \in D : Tame(e, i)
      /\ now' = now /\ verdict' = verdict /\ sweepAt' = sweepAt
  BY DeliverKeeps DEF Apart
<1>2. verdict'[i] = "silent" => verdict[i] = "silent" /\ sweepAt' = sweepAt
  BY <1>1
<1> HIDE DEF D
<1> QED BY <1>1, <1>2, BookMove

\* MutexMove for a step of one execution.
LEMMA MutexStep ==
  ASSUME TypeInv, TypeInv', Timely, NEW d \in Deliveries, Deliver(d),
         NEW i \in Identities, NEW b \in Identities, Apart(d, b), Mutex(i), RunsFall(i),
         On(d, i)' => MutexWork(d, i)', Holds(d, i)' => Holds(d, i),
         Rec(i)'.state = "FAILED" => Quiet(i)',
         guard'[i] = guard[i] \/ Held(i, now + HttpTimeout)'
  PROVE  Mutex(i)'
<1> DEFINE D == {d}
<1>1. /\ \A e \in Deliveries \ D : me'[e] = me[e]
      /\ \A e \in D : On(e, i)' => MutexWork(e, i)'
      /\ \A e \in D : Holds(e, i)' => Holds(e, i)
      /\ now' = now
  BY DeliverKeeps DEF Apart
<1> HIDE DEF D
<1> QED BY <1>1, MutexMove

\* An execution that withdraws, or goes on without a claim, disturbs nothing.
LEMMA StepsAside ==
  ASSUME TypeInv, TypeInv', Timely, NEW d \in Deliveries, Deliver(d),
         NEW i \in Identities, NEW b \in Identities, Apart(d, b),
         Book(i), RunsFall(i), Tame(d, i), RecGoes(i),
         On(d, i)' => me'[d].pc \notin Holding \cup {"claim"},
         Rec(i)'.state = "FAILED" => Rec(i).state = "FAILED",
         guard'[i] = guard[i] \/ Held(i, now + HttpTimeout)'
  PROVE  Book(i)' /\ (Mutex(i) => Mutex(i)')
<1>1. Book(i)'
  BY BookStep
<1>2. ASSUME Mutex(i) PROVE Mutex(i)'
  <2>1. On(d, i)' => MutexWork(d, i)'
    BY FreeWork
  <2>2. ~Holds(d, i)'
    BY DEF Holds
  <2>3. Rec(i)'.state = "FAILED" => Quiet(i)'
    <3> DEFINE D == {d}
    <3>1. /\ \A e \in Deliveries \ D : me'[e] = me[e]
          /\ \A e \in D : On(e, i)' => me'[e].pc # "send"
      BY DEF Apart, Tame
    <3> HIDE DEF D
    <3> QED BY <1>2, <3>1, QuietFalls DEF Mutex
  <2> QED BY <1>2, <2>1, <2>2, <2>3, MutexStep
<1> QED BY <1>1, <1>2

\* A record that did not change did not change badly.
LEMMA SameRec ==
  ASSUME NEW i, Rec(i)' = Rec(i)
  PROVE  RecGoes(i) /\ (Rec(i)'.state = "FAILED" => Rec(i).state = "FAILED")
BY DEF RecGoes

\* Other batches do not notice.
LEMMA OtherBatch ==
  ASSUME TypeInv, TypeInv', Timely, NEW d \in Deliveries, Deliver(d),
         NEW b \in Identities, NEW i \in Identities \ {b}, Apart(d, b), me'[d].who \in {b, None},
         run'[i] = run[i], guard'[i] = guard[i], Book(i)
  PROVE  Book(i)' /\ (Mutex(i) => Mutex(i)')
<1>1. Rec(i)' = Rec(i) /\ RunsFall(i)
  BY DEF Apart, RunsFall
<1>2. ~On(d, i)'
  BY BoundsAssumption DEF On
<1> QED BY <1>1, <1>2, SameRec, StepsAside DEF Tame

\* Planning: the record is untouched or fresh, and nobody is about to POST.
LEMMA PlanTruth ==
  ASSUME BookInv, TypeInv', NEW d \in Deliveries, NEW b \in Identities, NEW n \in Nodes, Plan(d, b, n),
         NEW i \in Identities, excuse'[i] = {}
  PROVE  Book(i)' /\ (gen = 0 => Mutex(i)')
<1>d. Deliver(d)
  BY DEF Deliver
<1>1. Book(i) /\ (gen = 0 => Mutex(i)) /\ run' = run /\ guard' = guard
  BY DEF BookInv, Truthful, Plan, nodeVars
<1>2. /\ Apart(d, b) /\ me'[d].who = b /\ me'[d].pc \in {"receiver", "reconcile"}
      /\ TypeInv /\ Rested /\ Solo /\ Timely
  BY PlanEffect DEF BookInv
<1>3. CASE i # b
  BY <1>d, <1>1, <1>2, <1>3, OtherBatch
<1>4. CASE i = b
  <2>1. RunsFall(i)
    BY <1>1 DEF RunsFall
  <2>2. me'[d].pc \notin Holding \cup {"claim", "apply", "send"}
    BY <1>2 DEF Holding
  <2>3. CASE Rec(i).state # "NONE"
    <3>1. Rec(i)' = Rec(i) /\ d \notin CallerOwned
      BY <1>2, <1>4, <2>3, PlanEffect
    <3>2. Tame(d, i)
      BY <2>2, <3>1 DEF Tame
    <3> QED BY <1>d, <1>1, <1>2, <1>4, <2>1, <2>2, <3>1, <3>2, SameRec, StepsAside
  <2>4. CASE Rec(i).state = "NONE"
    <3>1. Rec(i)' = Planned(n)
      BY <1>2, <1>4, <2>4, PlanEffect
    <3>2. Rec(i)'.node = n /\ Rec(i)'.state = "PLANNED"
      BY <3>1 DEF Planned, NoRow
    <3>3. Quiet(i)'
      <4>1. Quiet(i)
        BY <1>1, <2>4 DEF Book
      <4>2. \A e \in Deliveries \ {d} : me'[e] = me[e]
        BY <1>2 DEF Apart
      <4>3. \A e \in {d} : On(e, i)' => me'[e].pc # "send"
        BY <2>2
      <4> QED BY <2>1, <4>1, <4>2, <4>3, QuietFalls
    <3>4. Tame(d, i) /\ RecGoes(i)
      BY <2>2, <3>2, <3>3 DEF Tame, RecGoes, Quiet
    <3> QED BY <1>d, <1>1, <1>2, <2>1, <2>2, <3>2, <3>4, StepsAside
  <2> QED BY <2>3, <2>4
<1> QED BY <1>3, <1>4

\* A pool that denies a request older than the lease is right about it, and no
\* execution is about to send another.
LEMMA AgedAndUnlisted ==
  ASSUME TypeInv, Timely, NEW i \in Identities, Book(i), Rec(i) \in Row, Rec(i).node \in Nodes,
         Rec(i).posted = Never \/ now - Rec(i).posted >= Lease, ~Listed(i, Rec(i).node)
  PROVE  Quiet(i)
<1>t. /\ now \in Nat /\ NetDelay \in Nat /\ Lease \in Nat /\ NetDelay < Lease
      /\ Rec(i).posted \in Int /\ \A k \in Posts : run[i][k].at \in Int
  BY Bounds, LeaseAssumption DEF TypeInv, TypeOK, Time, Row, Entry, Never
<1>1. ASSUME NEW k \in Act(i) PROVE FALSE
  <2>1. k \in Posts /\ run[i][k].st \in {"inflight", "live"} /\ run[i][k].node = Rec(i).node
    BY DEF Book, Act, Active
  <2>2. run[i][k].st = "inflight"
    BY <2>1 DEF Listed
  <2>3. run[i][k].at <= Rec(i).posted /\ 0 <= run[i][k].at /\ now <= run[i][k].at + NetDelay
    BY <2>1, <2>2 DEF Book, Timely
  <2> QED BY <2>1, <2>3, <1>t DEF Never
<1>2. ASSUME NEW d \in Deliveries, On(d, i), me[d].pc = "send" PROVE FALSE
  <2>1. Rec(i).posted = now
    BY <1>2 DEF Book, BookWork
  <2> QED BY <2>1, <1>t DEF Never
<1> QED BY <1>1, <1>2 DEF Quiet

\* A step of an execution on its own batch.
LEMMA OwnTruth ==
  ASSUME BookInv, TypeInv', NEW d \in Deliveries, Deliver(d),
         ~\E j \in Identities, n \in Nodes : Plan(d, j, n),
         NEW i \in Identities, me[d].who = i, excuse'[i] = {}
  PROVE  Book(i)' /\ (gen = 0 => Mutex(i)')
<1> USE DEF On
<1>i. TypeInv /\ Rested /\ Solo /\ Timely /\ FenceInv
  BY DEF BookInv
<1>t. /\ me \in [Deliveries -> Local] /\ me[d] \in Local /\ guard \in [Identities -> Guard]
      /\ run \in [Identities -> [Posts -> Entry]] /\ intent \in [Identities -> Row]
      /\ now \in Nat /\ HttpTimeout \in Nat /\ NetDelay \in Nat /\ Lease \in Nat
      /\ None \notin Identities /\ Idle.who = None /\ Idle.pc = "idle"
      /\ \A e \in Deliveries : me[e].since \in Nat
  BY <1>i, Bounds, BoundsAssumption DEF TypeInv, TypeOK, Time, Local, Idle
<1>k. UNCHANGED <<now, gen, sweepAt, verdict>>
  BY DeliverKeeps
<1>0. /\ me[d].pc # "idle" /\ excuse[i] = {} /\ Book(i) /\ (gen = 0 => Mutex(i))
  BY <1>i, DeliverOwn DEF BookInv, Truthful
<1>r. /\ RowOf(d) = Rec(i) /\ Rec(i) \in Row /\ Rec(i).state # "NONE" /\ Rec(i).node \in Nodes
      /\ SoloWork(d)
  BY <1>i, <1>0, RecRow DEF Book, Solo
<1>f. ~Send(d) => RunsFall(i)
  BY <1>i, DeliverFalls
<1> DEFINE Goal == Book(i)' /\ (gen = 0 => Mutex(i)')
           SafeGuard == guard'[i] = guard[i] \/ Held(i, now + HttpTimeout)'
<1>c. /\ Confirmed(Rec(i)).state = "CONFIRMED" /\ Confirmed(Rec(i)).node = Rec(i).node
      /\ Confirmed(Rec(i)).posted = Rec(i).posted
  BY <1>r DEF Confirmed, Row
<1>l. ASSUME ~Send(d), me'[d] = Idle, Apart(d, i), RecGoes(i), SafeGuard,
             Rec(i)'.state = "FAILED" => Rec(i).state = "FAILED"
      PROVE  Goal
  <2>1. ~On(d, i)' /\ Tame(d, i)
    BY <1>l, <1>t DEF Tame
  <2> QED BY <1>l, <1>i, <1>0, <1>f, <2>1, StepsAside
<1>g. ASSUME NEW label, label \notin Holding \cup {"claim", "apply"}, ~Send(d),
             Onward(d, i, label), Apart(d, i), SafeGuard,
             Rec(i)' = Rec(i) \/ Rec(i)' = Confirmed(Rec(i))
      PROVE  Goal
  <2>1. me'[d].pc \notin Holding \cup {"claim", "apply", "send"} /\ me'[d].ticket = me[d].ticket
    BY <1>g DEF Onward, Holding
  <2>2. Tame(d, i)
    BY <2>1 DEF Tame
  <2>3. RecGoes(i) /\ (Rec(i)'.state = "FAILED" => Rec(i).state = "FAILED")
    BY <1>g, <1>c, <1>r DEF RecGoes
  <2> QED BY <1>g, <1>i, <1>0, <1>f, <2>1, <2>2, <2>3, StepsAside
<1>lv. ASSUME Leave(d), ~Send(d), SafeGuard PROVE Goal
  <2>1. Apart(d, i) /\ me'[d] = Idle /\ Rec(i)' = Rec(i)
    BY <1>lv, <1>i, LeaveEffect
  <2> QED BY <1>lv, <2>1, <1>l, SameRec
<1>gt. ASSUME NEW label, label \notin Holding \cup {"claim", "apply"}, ~Send(d), Goto(d, label), SafeGuard
       PROVE  Goal
  <2>1. Apart(d, i) /\ Onward(d, i, label) /\ Rec(i)' = Rec(i)
    BY <1>gt, <1>i, GotoEffect
  <2> QED BY <1>gt, <2>1, <1>g
<1>s. ASSUME SetGuard(i, "jobid", GuardTTL) PROVE SafeGuard
  BY <1>s, <1>i, <1>k, Bounds, GuardAssumption, FreshGuard
<1>n. ASSUME NEW label, label \notin {"send", "apply"}, ~Send(d), Onward(d, i, label), Apart(d, i), RecGoes(i)
      PROVE  Book(i)'
  <2>1. Tame(d, i)
    BY <1>n DEF Tame, Onward
  <2> QED BY <1>n, <1>0, <1>f, <2>1, BookStep
<1>q. ASSUME ~Send(d), me'[d].pc # "send", Quiet(i), Apart(d, i) PROVE Quiet(i)'
  <2> DEFINE D == {d}
  <2>1. /\ \A e \in Deliveries \ D : me'[e] = me[e]
        /\ \A e \in D : On(e, i)' => me'[e].pc # "send"
    BY <1>q DEF Apart
  <2> HIDE DEF D
  <2> QED BY <1>q, <1>f, <2>1, QuietFalls
<1>1. CASE ReceiverCheck(d)
  <2>1. ~Send(d) /\ guard' = guard /\ d \notin CallerOwned
    BY <1>1, <1>r DEF ReceiverCheck, Send, SoloWork
  <2>2. ASSUME me' = [me EXCEPT ![d] = Idle], intent' = [intent EXCEPT ![i] = Confirmed(intent[i])]
        PROVE  Goal
    <3>1. \A j \in Identities \ {i} : intent'[j] = intent[j]
      BY <2>2, <1>t
    <3>2. Apart(d, i) /\ me'[d] = Idle /\ Rec(i)' = intent'[i]
      BY <2>2, <3>1, <1>i, DropEffect
    <3>3. Rec(i)' = Confirmed(Rec(i))
      BY <2>1, <2>2, <3>2, <1>r, <1>t DEF RowOf
    <3>4. RecGoes(i) /\ (Rec(i)'.state = "FAILED" => Rec(i).state = "FAILED")
      BY <3>3, <1>c, <1>r DEF RecGoes
    <3> QED BY <2>1, <3>2, <3>4, <1>l
  <2>3. Goto(d, "reconcile") => Goal
    BY <2>1, <1>gt DEF Holding
  <2> QED BY <1>1, <2>1, <2>2, <2>3, <1>lv DEF ReceiverCheck
<1>2. CASE Reconcile(d)
  <2>1. ~Send(d)
    BY <1>2 DEF Reconcile, Send
  <2>2. ASSUME Goto(d, "stamp"), SetGuard(i, "jobid", GuardTTL) PROVE Goal
    BY <2>1, <2>2, <1>gt, <1>s DEF Holding
  <2>3. ASSUME Goto(d, "ask"), UNCHANGED guard PROVE Goal
    BY <2>1, <2>3, <1>gt DEF Holding
  <2> QED BY <1>2, <2>1, <2>2, <2>3, <1>lv DEF Reconcile
<1>3. CASE AskPool(d)
  <2>1. ~Send(d) /\ guard' = guard
    BY <1>3 DEF AskPool, Send
  <2>2. ASSUME Goto(d, "claim"), Rec(i).state \notin OPEN_QUESTION_STATES, Rec(i).state # "CONFIRMED"
        PROVE  Goal
    <3>1. Apart(d, i) /\ Onward(d, i, "claim") /\ Rec(i)' = Rec(i)
      BY <2>2, <1>i, GotoEffect
    <3>2. Book(i)'
      BY <2>1, <3>1, <1>n, SameRec
    <3>3. ASSUME Mutex(i) PROVE Mutex(i)'
      <4>1. Rec(i).state \in {"PLANNED", "RECONCILED_MISSING", "FAILED"}
        BY <2>2, <1>r DEF Row, IntentStates, OPEN_QUESTION_STATES
      <4>2. Quiet(i)
        BY <4>1, <3>3, <1>0 DEF Book, Mutex
      <4>3. me'[d].pc = "claim"
        BY <3>1 DEF Onward
      <4>4. Quiet(i)'
        BY <2>1, <3>1, <4>2, <4>3, <1>q
      <4>5. MutexWork(d, i)' /\ ~Holds(d, i)'
        BY <4>3, <4>4 DEF MutexWork, Holds, Holding, Quiet
      <4> QED BY <2>1, <3>1, <3>3, <4>4, <4>5, <1>f, <1>i, MutexStep
    <3> QED BY <3>2, <3>3, <1>0
  <2>3. ASSUME NEW up \in SUBSET Nodes, Rec(i).state = "POSTED", UNCHANGED intent,
               Rec(i).posted = Never \/ now - Rec(i).posted >= Lease,
               me' = [me EXCEPT ![d].pc = "apply", ![d].since = now,
                      ![d].heard = IF \E n \in up : Listed(i, n) THEN "listed"
                                   ELSE IF up = Nodes THEN "silent" ELSE "opaque"]
        PROVE  Goal
    <3> DEFINE h == IF \E n \in up : Listed(i, n) THEN "listed"
                    ELSE IF up = Nodes THEN "silent" ELSE "opaque"
               m == [me[d] EXCEPT !.pc = "apply", !.since = now, !.heard = h]
    <3>1. me' = [me EXCEPT ![d] = m]
      BY <2>3, <1>t
    <3>2. /\ m.pc = "apply" /\ m.who = i /\ m.draft = me[d].draft /\ m.heard = h
          /\ m.ticket = me[d].ticket
      BY <1>t DEF Local
    <3>h. h = "silent" => \A n \in Nodes : ~Listed(i, n)
      OBVIOUS
    <3> HIDE DEF m, h
    <3>u. UNCHANGED intent
      BY <2>3
    <3>3. Apart(d, i) /\ me'[d] = m /\ Rec(i)' = Rec(i)
      BY <3>1, <3>2, <3>u, <1>i, EditEffect
    <3>4. h = "silent" => Quiet(i)
      BY <2>3, <3>h, <1>0, <1>i, <1>r, AgedAndUnlisted
    <3>5. h = "silent" => Quiet(i)'
      BY <2>1, <3>2, <3>3, <3>4, <1>q
    <3>6. Tame(d, i)
      BY <3>2, <3>3, <3>5 DEF Tame
    <3>7. me'[d].pc \notin Holding \cup {"claim"}
      BY <3>2, <3>3 DEF Holding
    <3> QED BY <2>1, <3>3, <3>6, <3>7, <1>0, <1>f, <1>i, SameRec, StepsAside
  <2>4. excuse' = [excuse EXCEPT ![i] = @ \cup {"overtaken"}] => FALSE
    BY <1>i DEF TypeInv, TypeOK
  <2> QED BY <1>3, <2>1, <2>2, <2>3, <2>4, <1>lv, <1>r DEF AskPool
<1>4. CASE ApplyAnswer(d)
  <2>1. ~Send(d) /\ d \notin CallerOwned /\ me[d].pc = "apply"
    BY <1>4, <1>r DEF ApplyAnswer, Send, SoloWork
  <2>2. ASSUME WriteGoto(d, Confirmed(Rec(i)), "stamp"), SetGuard(i, "jobid", GuardTTL)
        PROVE  Goal
    <3>1. Apart(d, i) /\ Onward(d, i, "stamp") /\ Rec(i)' = Confirmed(Rec(i))
      BY <2>2, <1>i, WriteGotoEffect
    <3>2. SafeGuard
      BY <2>2, <1>s
    <3> QED BY <2>1, <3>1, <3>2, <1>g DEF Holding
  <2>3. ASSUME me[d].heard = "silent", UNCHANGED guard,
               WriteGoto(d, [Rec(i) EXCEPT !.state = "PLANNED", !.posted = Never], "claim")
        PROVE  Goal
    <3> DEFINE row == [Rec(i) EXCEPT !.state = "PLANNED", !.posted = Never]
    <3>1. Apart(d, i) /\ Onward(d, i, "claim") /\ Rec(i)' = row
      BY <2>3, <1>i, WriteGotoEffect
    <3>2. row.state = "PLANNED" /\ row.node = Rec(i).node
      BY <1>r DEF Row
    <3> HIDE DEF row
    <3>3. ~(Rec(i).posted >= me[d].since)
      <4> SUFFICES ASSUME Rec(i).posted >= me[d].since PROVE FALSE
        OBVIOUS
      <4>1. excuse' = [excuse EXCEPT ![i] = @ \cup {"outdated"}]
        BY <1>4, <2>3, <1>r DEF ApplyAnswer
      <4>2. excuse \in [Identities -> SUBSET Causes]
        BY <1>i DEF TypeInv, TypeOK
      <4> QED BY <4>1, <4>2
    <3>4. Quiet(i)
      BY <2>1, <2>3, <3>3, <1>0 DEF Book, BookWork
    <3>5. me'[d].pc = "claim"
      BY <3>1 DEF Onward
    <3>6. Quiet(i)'
      BY <2>1, <3>1, <3>4, <3>5, <1>q
    <3>7. RecGoes(i)
      BY <3>1, <3>2, <3>6, <1>r DEF RecGoes
    <3>8. Book(i)'
      BY <2>1, <3>1, <3>7, <1>n
    <3>9. ASSUME Mutex(i) PROVE Mutex(i)'
      <4>1. MutexWork(d, i)' /\ ~Holds(d, i)'
        BY <3>5, <3>6 DEF MutexWork, Holds, Holding, Quiet
      <4> QED BY <2>1, <2>3, <3>1, <3>6, <3>9, <4>1, <1>f, <1>i, MutexStep
    <3> QED BY <3>8, <3>9, <1>0
  <2> QED BY <1>4, <2>1, <2>2, <2>3, <1>lv, <1>r DEF ApplyAnswer
<1>5. CASE Claim(d)
  <2>1. ~Send(d) /\ me[d].pc = "claim"
    BY <1>5 DEF Claim, Send
  <2>2. ASSUME guard[i].val = "none", Goto(d, "record"), SetGuard(i, "sentinel", SentinelTTL)
        PROVE  Goal
    <3>1. Apart(d, i) /\ Onward(d, i, "record") /\ Rec(i)' = Rec(i)
      BY <2>2, <1>i, GotoEffect
    <3>2. Book(i)'
      BY <2>1, <3>1, <1>n, SameRec
    <3>3. Held(i, now + HttpTimeout)'
      BY <2>2, <1>i, <1>k, Bounds, GuardAssumption, FreshGuard
    <3>4. ASSUME Mutex(i) PROVE Mutex(i)'
      <4>1. \A e \in Deliveries : ~Holds(e, i)
        BY <2>2, <3>4 DEF Mutex, MutexWork, Held, Holds, Holding
      <4>2. Act(i) = {}
        BY <2>1, <2>2, <3>4 DEF Mutex, MutexWork, Held
      <4>3. Act(i)' = {}
        BY <2>1, <4>2, <1>f, ActFalls
      <4>4. me'[d].pc = "record"
        BY <3>1 DEF Onward
      <4>5. MutexWork(d, i)'
        BY <3>3, <4>3, <4>4 DEF MutexWork
      <4>6. Rec(i)'.state = "FAILED" => Quiet(i)'
        <5>1. Rec(i)'.state = "FAILED" => Quiet(i)
          BY <3>1, <3>4 DEF Mutex
        <5> QED BY <2>1, <3>1, <4>4, <5>1, <1>q
      <4> DEFINE D == {d}
      <4>7. \E e : D = {e}
        OBVIOUS
      <4>8. (\A e \in Deliveries \ D : me'[e] = me[e]) /\ (\A e \in D : On(e, i)' => MutexWork(e, i)')
        BY <3>1, <4>5 DEF Apart
      <4> HIDE DEF D
      <4> QED BY <2>1, <3>3, <3>4, <4>1, <4>6, <4>7, <4>8, <1>f, <1>i, <1>k, MutexMove
    <3> QED BY <3>2, <3>4, <1>0
  <2>3. ASSUME Goto(d, "stamp"), UNCHANGED guard PROVE Goal
    BY <2>1, <2>3, <1>gt DEF Holding
  <2> QED BY <1>5, <2>1, <2>2, <2>3, <1>lv DEF Claim

<1>6. CASE record_post(d)
  <2>1. ~Send(d) /\ me[d].pc = "record" /\ guard' = guard /\ run' = run
    BY <1>6 DEF record_post, Send, nodeVars
  <2> DEFINE row == [Rec(i) EXCEPT !.state = "POSTED", !.posted = now]
  <2>2. WriteGoto(d, row, "send")
    BY <1>6, <1>r DEF record_post
  <2>3. Apart(d, i) /\ Onward(d, i, "send") /\ Rec(i)' = row
    BY <2>2, <1>i, WriteGotoEffect
  <2>4. row.state = "POSTED" /\ row.node = Rec(i).node /\ row.posted = now
    BY <1>r DEF Row
  <2> HIDE DEF row
  <2>5. Act(i)' = Act(i) /\ me'[d].pc = "send" /\ me'[d].who = i /\ me'[d].ticket = me[d].ticket
    BY <2>1, <2>3 DEF Act, Onward
  <2>6. Book(i)'
    <3>1. \A k \in Act(i)' : run'[i][k].node = Rec(i)'.node
      BY <2>1, <2>3, <2>4, <2>5, <1>0 DEF Book
    <3>2. \A k \in Posts : run'[i][k].st = "inflight" => run'[i][k].at <= Rec(i)'.posted
      BY <2>1, <2>3, <2>4, <1>i DEF Timely
    <3>3. verdict'[i] = "silent" => sweepAt' - Rec(i)'.posted < Lease
      <4>1. sweepAt \in Nat /\ sweepAt <= now /\ 0 < Lease
        BY <1>i, <1>t, LeaseAssumption DEF Timely, TypeInv, TypeOK, Time
      <4> QED BY <4>1, <2>3, <2>4, <1>k, <1>t
    <3>4. ASSUME NEW e \in Deliveries, On(e, i)' PROVE BookWork(e, i)'
      <4>1. On(e, i) /\ me'[e].ticket = me[e].ticket /\ (e = d \/ me'[e] = me[e])
        BY <2>3, <2>5, <3>4 DEF Apart
      <4>2. me'[e].pc = "send" => Rec(i)'.posted = now'
        BY <2>3, <2>4, <1>k
      <4>3. ASSUME me'[e].pc = "apply" PROVE Rec(i)'.posted >= me'[e].since
        <5>1. me'[e] = me[e]
          BY <4>1, <4>3, <2>5
        <5>2. me[e].since <= now
          BY <4>3, <5>1, <1>i DEF FenceInv, FenceOK
        <5> QED BY <5>1, <5>2, <2>3, <2>4, <1>t
      <4>4. e \in CallerOwned /\ me'[e].ticket = 0 => Act(i)' = {}
        BY <4>1, <2>5, <1>0 DEF Book, BookWork
      <4> QED BY <4>2, <4>3, <4>4 DEF BookWork
    <3> QED BY <3>1, <3>2, <3>3, <3>4, <2>3, <2>4, <1>r DEF Book
  <2>7. ASSUME Mutex(i) PROVE Mutex(i)'
    <3>1. MutexWork(d, i)'
      <4>1. Held(i, now + HttpTimeout) /\ Act(i) = {}
        BY <2>1, <2>7 DEF Mutex, MutexWork
      <4>2. Held(i, now + HttpTimeout)'
        BY <4>1, <2>1, <1>k DEF Held
      <4> QED BY <4>1, <4>2, <2>5 DEF MutexWork
    <3>2. Holds(d, i)
      BY <2>1 DEF Holds, Holding
    <3> QED BY <2>1, <2>3, <2>4, <2>7, <3>1, <3>2, <1>f, <1>i, MutexStep
  <2> QED BY <2>6, <2>7, <1>0
<1>7. CASE Send(d)
  <2>1. me[d].pc = "send" /\ guard' = guard
    BY <1>7 DEF Send
  <2>2. PICK k \in Posts, m \in Local :
           /\ run'[i][k] = [st |-> "inflight", node |-> RowOf(d).node, at |-> now]
           /\ \A l \in Posts \ {k} : run'[i][l] = run[i][l]
           /\ me' = [me EXCEPT ![d] = m] /\ UNCHANGED intent
           /\ m.pc = "wait" /\ m.since = now /\ m.ticket = k /\ m.who = i /\ m.draft = me[d].draft
    BY <1>7, <1>i, SendEffect
  <2>3. Apart(d, i) /\ me'[d] = m /\ Rec(i)' = Rec(i)
    BY <2>2, <1>i, EditEffect
  <2>4. /\ run'[i][k].st = "inflight" /\ run'[i][k].node = Rec(i).node /\ run'[i][k].at = now
        /\ Act(i)' \subseteq Act(i) \cup {k}
    BY <2>2, <1>r DEF Act
  <2>5. Rec(i).posted = now /\ ~Quiet(i)
    BY <2>1, <1>0 DEF Book, BookWork, Quiet
  <2>6. Book(i)'
    <3>1. \A l \in Act(i)' : run'[i][l].node = Rec(i)'.node
      <4>1. ASSUME NEW l \in Act(i)', l # k PROVE run'[i][l].node = Rec(i)'.node
        BY <4>1, <2>2, <2>3, <2>4, <1>0 DEF Book, Act
      <4> QED BY <4>1, <2>3, <2>4
    <3>2. ASSUME NEW l \in Posts, run'[i][l].st = "inflight" PROVE run'[i][l].at <= Rec(i)'.posted
      <4>1. l # k => run'[i][l].at <= Rec(i)'.posted
        BY <3>2, <2>2, <2>3, <1>0 DEF Book
      <4> QED BY <4>1, <2>3, <2>4, <2>5, <1>t
    <3>3. /\ Rec(i)'.state \notin {"NONE", "PLANNED", "RECONCILED_MISSING"}
          /\ verdict'[i] = "silent" => sweepAt' - Rec(i)'.posted < Lease
      BY <2>3, <2>5, <1>k, <1>0 DEF Book
    <3>4. ASSUME NEW e \in Deliveries, On(e, i)' PROVE BookWork(e, i)'
      <4>1. CASE e = d
        BY <4>1, <2>2, <2>3 DEF BookWork, Posts
      <4>2. CASE e # d
        <5>1. me'[e] = me[e] /\ BookWork(e, i)
          BY <3>4, <4>2, <2>3, <1>0 DEF Apart, Book
        <5>2. e \notin CallerOwned
          BY <3>4, <4>2, <5>1, <1>i, <1>0, RecRow
        <5> QED BY <5>1, <5>2, <2>3, <2>5, <1>k DEF BookWork
      <4> QED BY <4>1, <4>2
    <3> QED BY <3>1, <3>2, <3>3, <3>4, <2>3, <1>r DEF Book
  <2>7. ASSUME Mutex(i) PROVE Mutex(i)'
    <3>1. Held(i, now + HttpTimeout) /\ Act(i) = {}
      BY <2>1, <2>7 DEF Mutex, MutexWork
    <3>2. guard'[i] = guard[i] /\ Held(i, now) /\ Act(i)' \subseteq {k}
      <4>1. guard[i].exp \in Int
        BY <1>t DEF Guard
      <4> QED BY <4>1, <3>1, <2>1, <2>4, <1>t DEF Held
    <3>3. Holds(d, i) /\ \A e \in Deliveries \ {d} : ~Holds(e, i)
      BY <2>1, <2>7 DEF Mutex, Holds, Holding
    <3>4. ASSUME NEW e \in Deliveries, On(e, i)' PROVE MutexWork(e, i)'
      <4>1. CASE e = d
        <5>1. me'[e].pc = "wait" /\ me'[e].since = now /\ me'[e].ticket = k
          BY <4>1, <2>2, <2>3
        <5>2. Held(i, now + HttpTimeout)'
          BY <3>1, <3>2, <1>k DEF Held
        <5>3. (me[e].since)' = now'
          BY <5>1, <1>k
        <5> QED BY <5>1, <5>2, <5>3, <3>2 DEF MutexWork
      <4>2. CASE e # d
        <5>1. me'[e] = me[e] /\ ~Holds(e, i)
          BY <4>2, <3>3, <2>3 DEF Apart
        <5>2. Held(i, now)'
          BY <3>2, <1>k DEF Held
        <5> QED BY <3>4, <5>1, <5>2 DEF MutexWork, Holds, Holding
      <4> QED BY <4>1, <4>2
    <3>5. \A e, f \in Deliveries : Holds(e, i)' /\ Holds(f, i)' => e = f
      BY <3>3, <2>3 DEF Apart, Holds
    <3>6. Rec(i)'.state # "FAILED"
      BY <2>3, <2>5, <2>7 DEF Mutex
    <3> QED BY <3>2, <3>4, <3>5, <3>6 DEF Mutex
  <2> QED BY <2>6, <2>7, <1>0
<1>8. CASE Answered(d)
  <2>1. ~Send(d) /\ me[d].pc = "wait" /\ guard' = guard
    BY <1>8 DEF Answered, Send
  <2>2. Apart(d, i) /\ Onward(d, i, "confirm") /\ Rec(i)' = Rec(i)
    BY <1>8, <1>i, GotoEffect DEF Answered
  <2>3. Book(i)'
    BY <2>1, <2>2, <1>n, SameRec
  <2>4. ASSUME Mutex(i) PROVE Mutex(i)'
    <3>1. Held(i, me[d].since + HttpTimeout) /\ Act(i) \subseteq {me[d].ticket}
      BY <2>1, <2>4 DEF Mutex, MutexWork
    <3>2. now <= me[d].since + HttpTimeout
      BY <2>1, <1>i DEF Timely
    <3>3. Held(i, now)'
      <4>1. guard[i].exp \in Int
        BY <1>t DEF Guard
      <4> QED BY <4>1, <3>1, <3>2, <2>1, <1>k, <1>t DEF Held
    <3>4. MutexWork(d, i)'
      <4>1. me'[d].pc = "confirm" /\ me'[d].ticket = me[d].ticket
        BY <2>2 DEF Onward
      <4>2. Act(i)' \subseteq {me'[d].ticket}
        BY <2>1, <3>1, <4>1, <1>f, ActFalls
      <4> QED BY <3>3, <4>1, <4>2 DEF MutexWork
    <3>5. Rec(i)'.state = "FAILED" => Quiet(i)'
      <4>1. me'[d].pc # "send"
        BY <2>2 DEF Onward
      <4>2. Rec(i).state = "FAILED" => Quiet(i)
        BY <2>4 DEF Mutex
      <4> QED BY <2>1, <2>2, <4>1, <4>2, <1>q
    <3>6. Holds(d, i)
      BY <2>1 DEF Holds, Holding
    <3> QED BY <2>1, <2>2, <2>4, <3>4, <3>5, <3>6, <1>f, <1>i, MutexStep
  <2> QED BY <2>3, <2>4, <1>0

<1>9. CASE PostRefused(d)
  <2>1. ~Send(d) /\ me[d].pc = "wait" /\ guard' = guard
    BY <1>9 DEF PostRefused, Send
  <2>2. Apart(d, i) /\ Onward(d, i, "fail") /\ Rec(i)' = Rec(i)
    BY <1>9, <1>i, GotoEffect DEF PostRefused
  <2>3. Book(i)'
    BY <2>1, <2>2, <1>n, SameRec
  <2>4. ASSUME Mutex(i) PROVE Mutex(i)'
    <3>1. Held(i, me[d].since + HttpTimeout) /\ Act(i) \subseteq {me[d].ticket}
      BY <2>1, <2>4 DEF Mutex, MutexWork
    <3>2. now <= me[d].since + HttpTimeout
      BY <2>1, <1>i DEF Timely
    <3>3. Held(i, now)'
      <4>1. guard[i].exp \in Int
        BY <1>t DEF Guard
      <4> QED BY <4>1, <3>1, <3>2, <2>1, <1>k, <1>t DEF Held
    <3>4. Act(i)' = {}
      <4>1. me[d].ticket \in Posts
        BY <2>1, <1>i DEF TypeInv, WorkerOK
      <4>2. run'[i][me[d].ticket].st \notin Active
        BY <1>9, <1>t, <4>1 DEF PostRefused, Unsent, Active
      <4> QED BY <2>1, <3>1, <4>2, <1>f, ActFalls DEF Act
    <3>5. me'[d].pc = "fail"
      BY <2>2 DEF Onward
    <3>6. MutexWork(d, i)'
      BY <3>3, <3>4, <3>5 DEF MutexWork
    <3>7. Rec(i)'.state = "FAILED" => Quiet(i)'
      <4>2. Rec(i).state = "FAILED" => Quiet(i)
        BY <2>4 DEF Mutex
      <4> QED BY <2>1, <2>2, <3>5, <4>2, <1>q
    <3>8. Holds(d, i)
      BY <2>1 DEF Holds, Holding
    <3> QED BY <2>1, <2>2, <2>4, <3>6, <3>7, <3>8, <1>f, <1>i, MutexStep
  <2> QED BY <2>3, <2>4, <1>0
<1>10. CASE PostAbandoned(d)
  BY <1>10, <1>i DEF PostAbandoned, TypeInv, TypeOK
<1>11. CASE Fail(d)
  <2>1. ~Send(d) /\ me[d].pc = "fail" /\ guard' = guard
    BY <1>11 DEF Fail, Send
  <2> DEFINE row == [Rec(i) EXCEPT !.state = "FAILED"]
  <2>2. WriteGoto(d, row, "release")
    BY <1>11, <1>r DEF Fail
  <2>3. Apart(d, i) /\ Onward(d, i, "release") /\ Rec(i)' = row
    BY <2>2, <1>i, WriteGotoEffect
  <2>4. row.state = "FAILED" /\ row.node = Rec(i).node /\ row.posted = Rec(i).posted
    BY <1>r DEF Row
  <2> HIDE DEF row
  <2>5. RecGoes(i)
    BY <2>3, <2>4, <1>r DEF RecGoes
  <2>6. Book(i)'
    BY <2>1, <2>3, <2>5, <1>n
  <2>7. ASSUME Mutex(i) PROVE Mutex(i)'
    <3>1. Held(i, now) /\ Act(i) = {}
      BY <2>1, <2>7 DEF Mutex, MutexWork
    <3>2. Act(i)' = {} /\ Held(i, now)' /\ me'[d].pc = "release"
      BY <3>1, <2>1, <2>3, <1>f, <1>k, ActFalls DEF Held, Onward
    <3>3. MutexWork(d, i)'
      BY <3>2 DEF MutexWork
    <3>4. Quiet(i)'
      <4>1. ASSUME NEW e \in Deliveries, On(e, i)' PROVE me'[e].pc # "send"
        <5>1. Holds(d, i) /\ (e # d => me'[e] = me[e])
          BY <2>1, <2>3 DEF Holds, Holding, Apart
        <5> QED BY <4>1, <5>1, <3>2, <2>7 DEF Mutex, Holds, Holding
      <4> QED BY <3>2, <4>1 DEF Quiet
    <3>5. Holds(d, i)
      BY <2>1 DEF Holds, Holding
    <3> QED BY <2>1, <2>3, <2>7, <3>3, <3>4, <3>5, <1>f, <1>i, MutexStep
  <2> QED BY <2>6, <2>7, <1>0
<1>12. CASE Release(d)
  <2>1. ~Send(d) /\ me[d].pc = "release"
    BY <1>12 DEF Release, Send
  <2>2. Apart(d, i) /\ me'[d] = Idle /\ Rec(i)' = Rec(i)
    BY <1>12, <1>i, LeaveEffect DEF Release
  <2>3. Tame(d, i) /\ ~On(d, i)'
    BY <2>2, <1>t DEF Tame
  <2>4. Book(i)'
    BY <2>1, <2>2, <2>3, <1>f, <1>0, SameRec, BookStep
  <2>5. ASSUME Mutex(i) PROVE Mutex(i)'
    <3>1. Act(i)' = {}
      BY <2>1, <2>5, <1>f, ActFalls DEF Mutex, MutexWork
    <3>2. ASSUME NEW e \in Deliveries PROVE ~Holds(e, i)'
      <4>1. Holds(d, i)
        BY <2>1 DEF Holds, Holding
      <4>2. CASE e = d
        BY <4>2, <2>3 DEF Holds
      <4>3. CASE e # d
        BY <4>1, <4>3, <2>2, <2>5 DEF Apart, Mutex, Holds
      <4> QED BY <4>2, <4>3
    <3>3. Rec(i)'.state = "FAILED" => Quiet(i)'
      <4>1. me'[d].pc # "send"
        BY <2>2, <1>t
      <4>2. Rec(i).state = "FAILED" => Quiet(i)
        BY <2>5 DEF Mutex
      <4> QED BY <2>1, <2>2, <4>1, <4>2, <1>q
    <3> DEFINE D == {d}
    <3>4. /\ \A e \in Deliveries \ D : me'[e] = me[e]
          /\ \A e \in D : On(e, i)' => MutexWork(e, i)'
          /\ \A e \in D : Holds(e, i)' => Holds(e, i)
      BY <2>2, <2>3 DEF Apart, Holds
    <3> HIDE DEF D
    <3> QED BY <2>1, <2>5, <3>1, <3>2, <3>3, <3>4, <1>f, <1>i, <1>k, MutexMove
  <2> QED BY <2>4, <2>5, <1>0
<1>13. CASE ConfirmPost(d)
  <2>1. ~Send(d) /\ me[d].pc = "confirm" /\ guard' = guard
    BY <1>13 DEF ConfirmPost, Send
  <2>2. Apart(d, i) /\ Onward(d, i, "guard") /\ Rec(i)' = Confirmed(Rec(i))
    BY <1>13, <1>i, <1>r, WriteGotoEffect DEF ConfirmPost
  <2>3. RecGoes(i)
    BY <2>2, <1>c, <1>r DEF RecGoes
  <2>4. Book(i)'
    BY <2>1, <2>2, <2>3, <1>n
  <2>5. ASSUME Mutex(i) PROVE Mutex(i)'
    <3>1. Held(i, now) /\ Act(i) \subseteq {me[d].ticket}
      BY <2>1, <2>5 DEF Mutex, MutexWork
    <3>2. Held(i, now)' /\ me'[d].pc = "guard" /\ me'[d].ticket = me[d].ticket
      BY <3>1, <2>1, <2>2, <1>k DEF Held, Onward
    <3>3. Act(i)' \subseteq {me'[d].ticket}
      BY <2>1, <3>1, <3>2, <1>f, ActFalls
    <3>4. MutexWork(d, i)'
      BY <3>2, <3>3 DEF MutexWork
    <3>5. Rec(i)'.state # "FAILED" /\ Holds(d, i)
      BY <2>1, <2>2, <1>c DEF Holds, Holding
    <3> QED BY <2>1, <2>2, <2>5, <3>4, <3>5, <1>f, <1>i, MutexStep
  <2> QED BY <2>4, <2>5, <1>0
<1>14. CASE CommitGuard(d)
  <2>1. ~Send(d)
    BY <1>14 DEF CommitGuard, Send
  <2> QED BY <1>14, <2>1, <1>gt, <1>s DEF CommitGuard, Holding
<1>15. CASE Stamp(d)
  <2>1. ~Send(d)
    BY <1>15 DEF Stamp, Send
  <2> QED BY <1>15, <2>1, <1>lv DEF Stamp
<1>16. CASE Crash(d)
  <2>1. /\ me' = [me EXCEPT ![d] = Idle] /\ UNCHANGED intent /\ guard' = guard /\ run' = run
    BY <1>16 DEF Crash, nodeVars
  <2>2. Apart(d, i) /\ me'[d] = Idle /\ Rec(i)' = intent'[i]
    BY <2>1, <1>i, DropEffect
  <2>f. RunsFall(i)
    BY <2>1 DEF RunsFall
  <2>3. Tame(d, i) /\ ~On(d, i)'
    BY <2>2, <1>t DEF Tame
  <2>4. CASE d \notin CallerOwned
    <3>1. Rec(i)' = Rec(i)
      BY <2>1, <2>2, <2>4, <1>r DEF RowOf
    <3> QED BY <2>1, <2>2, <2>3, <2>f, <3>1, <1>0, <1>i, SameRec, StepsAside
  <2>5. CASE d \in CallerOwned
    <3>1. me[d].ticket = 0
      BY <1>16, <2>5, <1>i DEF Crash, TypeInv, TypeOK
    <3>2. Act(i)' = {}
      BY <2>1, <2>5, <3>1, <1>0 DEF Book, BookWork, Act
    <3>3. Rec(i)'.state = "NONE"
      BY <2>1, <2>2, <2>5, <1>r DEF SoloWork
    <3>4. \A e \in Deliveries : ~On(e, i)'
      BY <2>2, <2>3, <2>5, <1>r DEF Apart, SoloWork
    <3>5. Quiet(i)' /\ RecGoes(i)
      BY <3>2, <3>3, <3>4 DEF Quiet, RecGoes
    <3> QED BY <2>1, <2>2, <2>3, <2>f, <3>3, <3>5, <1>0, <1>i, StepsAside
  <2> QED BY <2>4, <2>5
<1> QED BY <1>1, <1>2, <1>3, <1>4, <1>5, <1>6, <1>7, <1>8, <1>9, <1>10, <1>11, <1>12, <1>13,
           <1>14, <1>15, <1>16 DEF Deliver

\* A step of an execution, on its own batch or another.
LEMMA DeliverTruth ==
  ASSUME BookInv, TypeInv', NEW d \in Deliveries, Deliver(d), NEW i \in Identities, excuse'[i] = {}
  PROVE  Book(i)' /\ (gen = 0 => Mutex(i)')
<1>1. CASE \E b \in Identities, n \in Nodes : Plan(d, b, n)
  BY <1>1, PlanTruth
<1>2. CASE ~\E b \in Identities, n \in Nodes : Plan(d, b, n)
  <2>i. TypeInv /\ Rested /\ Solo /\ Timely
    BY DEF BookInv
  <2>1. CASE me[d].who = i
    BY <1>2, <2>1, OwnTruth
  <2>2. CASE me[d].who # i
    <3> DEFINE b == me[d].who
    <3>1. b \in Identities
      BY <1>2, <2>i, DeliverOwn DEF TypeInv, WorkerOK
    <3>2. /\ me'[d].who \in {b, None} /\ run'[i] = run[i] /\ guard'[i] = guard[i] /\ excuse'[i] = excuse[i]
          /\ \A j \in Identities \ {b} : intent'[j] = intent[j]
      BY <1>2, <2>2, <2>i, DeliverOwn
    <3>3. Book(i) /\ (gen = 0 => Mutex(i))
      BY <3>2 DEF BookInv, Truthful
    <3>4. \E c \in Identities : c = b
      BY <3>1
    <3>5. PICK c \in Identities : c = me[d].who
      BY <3>4
    <3>6. /\ me'[d].who \in {c, None} /\ run'[i] = run[i] /\ guard'[i] = guard[i]
          /\ \A j \in Identities \ {c} : intent'[j] = intent[j]
      BY <3>2, <3>5
    <3>7. Apart(d, c)
      BY <2>i, <3>5, <3>6, OthersStay, MoveApart
    <3> HIDE DEF b
    <3> QED BY <2>i, <2>2, <3>3, <3>5, <3>6, <3>7, OtherBatch
  <2> QED BY <2>1, <2>2
<1> QED BY <1>1, <1>2

\* The row of an unsettled batch is its record.
LEMMA RowIsRecord ==
  ASSUME TypeInv, Rested, Solo, NEW i \in Identities, intent[i].state # "NONE"
  PROVE  Rec(i) = intent[i] /\ \A e \in CallerOwned : me[e].who # i
<1>1. ASSUME NEW e \in CallerOwned, me[e].who = i PROVE FALSE
  <2>1. e \in Deliveries /\ me[e].pc # "idle"
    BY <1>1, IdleIsOff, BoundsAssumption
  <2> QED BY <1>1, <2>1 DEF Solo, SoloWork
<1> QED BY <1>1, RecPlain

\* Time: a guard outlives its holder, who is waited for while brief.
LEMMA TickTruth ==
  ASSUME BookInv, TypeInv', Tick, NEW i \in Identities, excuse[i] = {}
  PROVE  Book(i)' /\ (gen = 0 => Mutex(i)')
<1>i. TypeInv /\ Timely /\ Book(i) /\ (gen = 0 => Mutex(i))
  BY DEF BookInv, Truthful
<1>t. /\ now \in Nat /\ HttpTimeout \in Nat /\ guard \in [Identities -> Guard]
      /\ \A d \in Deliveries : me[d].since \in Nat
      /\ guard[i].exp \in Int
  BY <1>i, Bounds DEF TypeInv, TypeOK, Time, Local, Guard
<1>1. /\ now' = now + 1 /\ UNCHANGED <<gen, intent, run, me, sweepAt, verdict>>
      /\ guard'[i] = IF guard[i].exp <= now + 1 THEN NoGuard ELSE guard[i]
  BY DEF Tick, jobVars, nodeVars, sweepVars
<1>2. \A d \in Deliveries : /\ me[d].pc \notin Brief
                            /\ me[d].pc \in {"wait", "apply"} => now - me[d].since < HttpTimeout
  BY DEF Tick
<1>3. Rec(i)' = Rec(i) /\ Act(i)' = Act(i) /\ (Quiet(i) <=> Quiet(i)')
  BY <1>1, RecSame DEF Act, Quiet, On
<1>4. Book(i)'
  <2> DEFINE D == {}
  <2>1. /\ \A e \in Deliveries \ D : me'[e] = me[e]
        /\ \A e \in D : Tame(e, i)
    BY <1>1
  <2>2. RunsFall(i) /\ RecGoes(i)
    BY <1>1, <1>3, SameRec DEF RunsFall
  <2>3. \A e \in Deliveries : me[e].pc # "send"
    BY <1>2 DEF Brief
  <2>4. verdict'[i] = "silent" => verdict[i] = "silent" /\ sweepAt' = sweepAt
    BY <1>1
  <2> HIDE DEF D
  <2> QED BY <1>i, <2>1, <2>2, <2>3, <2>4, BookMove
<1>5. ASSUME Mutex(i) PROVE Mutex(i)'
  <2>1. ASSUME NEW e \in Deliveries, On(e, i)' PROVE MutexWork(e, i)'
    <3>1. me'[e] = me[e] /\ MutexWork(e, i) /\ me[e].pc \notin Brief
      BY <1>1, <1>2, <1>5, <2>1 DEF On, Mutex
    <3>2. CASE me[e].pc = "wait"
      <4>1. Held(i, me[e].since + HttpTimeout) /\ Act(i) \subseteq {me[e].ticket}
        BY <3>1, <3>2 DEF MutexWork
      <4>2. now - me[e].since < HttpTimeout
        BY <1>2, <3>2
      <4>3. guard'[i] = guard[i]
        BY <4>1, <4>2, <1>1, <1>t DEF Held
      <4>4. Held(i, me[e].since + HttpTimeout)'
        BY <4>1, <4>3, <3>1 DEF Held
      <4> QED BY <4>1, <4>4, <3>1, <3>2, <1>3 DEF MutexWork
    <3>3. CASE me[e].pc # "wait"
      BY <3>1, <3>3 DEF MutexWork, Brief
    <3> QED BY <3>2, <3>3
  <2>2. \A d, e \in Deliveries : Holds(d, i)' /\ Holds(e, i)' => d = e
    BY <1>1, <1>5 DEF Mutex, Holds, On
  <2> QED BY <2>1, <2>2, <1>3, <1>5 DEF Mutex
<1> QED BY <1>i, <1>4, <1>5

\* What an environment step leaves of the clock, the guards and the sweep.
LEMMA EnvironmentKeeps ==
  ASSUME TypeInv, Solo, Next, ~\E d \in Deliveries : Deliver(d)
  PROVE  /\ UNCHANGED excuse
         /\ Tick \/ now' = now
         /\ Tick \/ guard' = guard \/ gen # 0
         /\ gen' = gen \/ gen' = 1
         /\ (\E i \in Identities : SweepSettle(i)) \/ UNCHANGED intent
         /\ \/ \E i \in Identities : SweepSettle(i)
            \/ \E up \in SUBSET Nodes : SweepScan(up)
            \/ UNCHANGED <<sweepAt, verdict>>
<1>1. CASE (\E j \in Identities : HandBack(j)) \/ Tick
  BY <1>1 DEF HandBack, Tick, jobVars, sweepVars
<1>2. CASE \E j \in Identities, m \in Posts : Accept(j, m) \/ Lose(j, m)
  BY <1>2, NodeFrame DEF jobVars, sweepVars
<1>3. CASE \E n \in Nodes : Restart(n) \/ \E j \in Identities, m \in Posts : Finish(n, j, m)
  BY <1>3, NodeFrame DEF jobVars, sweepVars
<1>4. CASE CancelFence \/ CancelRuns \/ CancelGuards
  BY <1>4 DEF CancelFence, CancelRuns, CancelGuards, sweepVars, Solo
<1>5. CASE \E j \in Identities : SweepSettle(j)
  BY <1>5 DEF SweepSettle, jobVars
<1>6. CASE \E up \in SUBSET Nodes : SweepScan(up)
  BY <1>6 DEF SweepScan, jobVars
<1> QED BY <1>1, <1>2, <1>3, <1>4, <1>5, <1>6 DEF Next

\* Absence settles a batch only when its request is older than the lease.
LEMMA AbsenceMoves ==
  ASSUME NEW row \in Row, row.state # "NONE", NEW t \in Time, NEW b \in BOOLEAN
  PROVE  /\ record_absence(row, t, b).node = row.node
         /\ record_absence(row, t, b).posted = row.posted
         /\ \/ record_absence(row, t, b).state = row.state
            \/ record_absence(row, t, b).state = "RECONCILED_AMBIGUOUS"
            \/ /\ record_absence(row, t, b).state = "RECONCILED_MISSING"
               /\ b
               /\ ~(t - row.posted < Lease)
BY DEF record_absence, Row, TooYoung, Untrusted, OPEN_QUESTION_STATES

\* The nodes, the sweep and the operator.
LEMMA EnvironmentTruth ==
  ASSUME BookInv, TypeInv', Next, ~\E d \in Deliveries : Deliver(d), NEW i \in Identities, excuse'[i] = {}
  PROVE  Book(i)' /\ (gen' = 0 => Mutex(i)')
<1>i. /\ TypeInv /\ Rested /\ Solo /\ Timely /\ excuse[i] = {} /\ Book(i)
      /\ gen = 0 => Mutex(i)
  BY EnvironmentKeeps DEF BookInv, Truthful
<1>g. gen' = 0 => gen = 0
  BY <1>i, EnvironmentKeeps
<1>1. CASE Tick
  BY <1>1, <1>i, <1>g, TickTruth
<1>2. CASE ~Tick
  <2>1. now' = now /\ UNCHANGED me /\ RunsFall(i)
    BY <1>2, <1>i, EnvironmentKeeps, OnlyDeliver, EnvironmentRuns
  <2> DEFINE D == {}
  <2>2. /\ \A e \in Deliveries \ D : me'[e] = me[e]
        /\ \A e \in D : Tame(e, i)
        /\ \A e \in D : On(e, i)' => MutexWork(e, i)'
        /\ \A e \in D : On(e, i)' => me'[e].pc # "send"
        /\ \A e \in D : Holds(e, i)' => Holds(e, i)
    BY <2>1
  <2> HIDE DEF D
  <2>q. Quiet(i) => Quiet(i)'
    BY <2>1, <2>2, QuietFalls
  <2>m. ASSUME Mutex(i), gen = 0, Rec(i)'.state = "FAILED" => Rec(i).state = "FAILED" PROVE Mutex(i)'
    <3>1. Rec(i)'.state = "FAILED" => Quiet(i)'
      BY <2>m, <2>q DEF Mutex
    <3>2. guard'[i] = guard[i]
      BY <1>2, <1>i, <2>m, EnvironmentKeeps
    <3> QED BY <1>i, <2>1, <2>2, <2>m, <3>1, <3>2, MutexMove
  <2>b. ASSUME RecGoes(i), verdict'[i] = "silent" =>
                             \/ verdict[i] = "silent" /\ sweepAt' = sweepAt
                             \/ Quiet(i)' \/ sweepAt' - Rec(i)'.posted < Lease
        PROVE  Book(i)'
    BY <1>i, <2>1, <2>2, <2>b, BookMove
  <2>3. CASE intent' = intent
    <3>1. Rec(i)' = Rec(i)
      BY <2>1, <2>3, RecSame
    <3>2. ASSUME NEW up \in SUBSET Nodes, SweepScan(up), verdict'[i] = "silent"
          PROVE  Quiet(i)' \/ sweepAt' - Rec(i)'.posted < Lease
      <4>1. /\ intent[i].state # "NONE" /\ intent[i].posted # Never
            /\ ~Listed(i, intent[i].node) /\ sweepAt' = now
        BY <3>2 DEF SweepScan, HistoryIntact, OPEN_QUESTION_STATES
      <4>2. Rec(i) = intent[i] /\ Rec(i) \in Row
        BY <4>1, <1>i, RowIsRecord DEF TypeInv, TypeOK
      <4>3. CASE now - Rec(i).posted >= Lease
        <5>1. Rec(i).node \in Nodes
          BY <4>1, <4>2, <1>i DEF Book
        <5> QED BY <1>i, <4>1, <4>2, <4>3, <5>1, <2>q, AgedAndUnlisted
      <4>4. CASE ~(now - Rec(i).posted >= Lease)
        <5>1. now \in Int /\ Rec(i).posted \in Int /\ Lease \in Int
          BY <1>i, <4>2, Bounds DEF TypeInv, TypeOK, Time, Row, Never
        <5> QED BY <4>1, <4>4, <5>1, <3>1
      <4> QED BY <4>3, <4>4
    <3>3. ASSUME NEW j \in Identities, SweepSettle(j), verdict'[i] = "silent"
          PROVE  verdict[i] = "silent" /\ sweepAt' = sweepAt
      BY <1>i, <3>3 DEF SweepSettle, TypeInv, TypeOK
    <3>4. (UNCHANGED <<sweepAt, verdict>> /\ verdict'[i] = "silent") =>
             (verdict[i] = "silent" /\ sweepAt' = sweepAt)
      OBVIOUS
    <3>5. Book(i)'
      BY <1>i, <2>b, <3>1, <3>2, <3>3, <3>4, EnvironmentKeeps, SameRec
    <3> QED BY <1>i, <1>g, <2>m, <3>1, <3>5
  <2>4. ASSUME NEW j \in Identities, SweepSettle(j), intent' # intent PROVE Book(i)' /\ (gen' = 0 => Mutex(i)')
    <3>t. intent \in [Identities -> Row] /\ verdict \in [Identities -> {"none", "listed", "silent", "forgetful"}]
      BY <1>i DEF TypeInv, TypeOK
    <3>1. CASE i # j
      <4>1. intent'[i] = intent[i] /\ Rec(i)' = Rec(i)
        BY <2>1, <2>4, <3>1, <3>t, RecSame DEF SweepSettle
      <4>2. verdict'[i] = "silent" => verdict[i] = "silent" /\ sweepAt' = sweepAt
        BY <2>4, <3>1, <3>t DEF SweepSettle
      <4>3. Book(i)'
        BY <4>1, <4>2, <2>b, SameRec
      <4> QED BY <1>i, <1>g, <2>m, <4>1, <4>3
    <3>2. CASE i = j
      <4>1. intent[i].state # "NONE" /\ verdict'[i] = "none" /\ intent[i] \in Row
        BY <2>4, <3>2, <3>t, <1>i DEF SweepSettle, Solo
      <4>2. Rec(i) = intent[i] /\ \A e \in CallerOwned : me[e].who # i
        BY <1>i, <4>1, RowIsRecord
      <4>3. Rec(i)' = intent'[i]
        BY <2>1, <4>2, RecPlain
      <4>4. CASE verdict[i] = "listed"
        <5>1. Rec(i)' = Confirmed(Rec(i))
          BY <2>4, <3>2, <3>t, <4>2, <4>3, <4>4 DEF SweepSettle
        <5>2. /\ Rec(i)'.state = "CONFIRMED" /\ Rec(i)'.node = Rec(i).node
              /\ Rec(i)'.posted = Rec(i).posted
          BY <5>1, <4>1, <4>2 DEF Confirmed, Row
        <5>3. RecGoes(i)
          BY <5>2, <4>1, <4>2 DEF RecGoes
        <5>4. Book(i)'
          BY <5>3, <4>1, <2>b
        <5> QED BY <1>i, <1>g, <2>m, <5>2, <5>4
      <4>5. CASE verdict[i] # "listed"
        <5> DEFINE b == verdict[i] = "silent"
                   new == record_absence(intent[i], sweepAt, b)
        <5>1. intent'[i] = new
          BY <2>4, <3>2, <3>t, <4>5 DEF SweepSettle
        <5>0. sweepAt \in Time /\ b \in BOOLEAN
          BY <1>i DEF TypeInv, TypeOK
        <5>2. /\ new.node = intent[i].node /\ new.posted = intent[i].posted
              /\ \/ new.state = intent[i].state
                 \/ new.state = "RECONCILED_AMBIGUOUS"
                 \/ new.state = "RECONCILED_MISSING" /\ b /\ ~(sweepAt - intent[i].posted < Lease)
          BY <4>1, <5>0, AbsenceMoves
        <5> HIDE DEF new
        <5>3. new.state = "RECONCILED_MISSING" /\ new.state # intent[i].state => Quiet(i)'
          BY <1>i, <4>2, <5>2, <2>q DEF Book
        <5>4. RecGoes(i)
          BY <1>i, <4>1, <4>2, <4>3, <5>1, <5>2, <5>3 DEF RecGoes, Book
        <5>5. Book(i)'
          BY <5>4, <4>1, <2>b
        <5>6. Rec(i)'.state = "FAILED" => Rec(i).state = "FAILED"
          BY <4>2, <4>3, <5>1, <5>2
        <5> QED BY <1>i, <1>g, <2>m, <5>5, <5>6
      <4> QED BY <4>4, <4>5
    <3> QED BY <3>1, <3>2
  <2> QED BY <1>2, <1>i, <2>3, <2>4, EnvironmentKeeps
<1> QED BY <1>1, <1>2

\* Nothing has been sent.
LEMMA BookInit == Init => BookInv
<1> SUFFICES ASSUME Init PROVE BookInv
  OBVIOUS
<1>1. TypeInv
  BY InitType
<1>2. /\ \A d \in Deliveries : me[d] = Idle
      /\ Idle.pc = "idle" /\ Idle.who = None /\ None \notin Identities
      /\ CallerOwned \subseteq Deliveries
  BY BoundsAssumption DEF Init, Idle
<1>3. Rested /\ Solo
  BY <1>2 DEF Init, Rested, Solo
<1>4. Timely /\ FenceInv
  <2>1. \A i \in Identities, k \in Posts : run[i][k].st = "unsent"
    BY DEF Init, Unsent
  <2>2. Timely
    BY <1>2, <2>1 DEF Init, Timely
  <2>3. FenceInv
    BY FenceInit
  <2> QED BY <2>2, <2>3
<1>5. ASSUME NEW i \in Identities PROVE Book(i) /\ Mutex(i)
  <2>1. Act(i) = {} /\ \A d \in Deliveries : ~On(d, i)
    BY <1>2 DEF Init, Act, Active, On, Unsent
  <2>2. \A k \in Posts : run[i][k].st = "unsent"
    BY DEF Init, Unsent
  <2>3. Rec(i) = intent[i]
    BY <1>2, RecPlain
  <2>4. Rec(i).state = "NONE" /\ verdict[i] = "none"
    BY <2>3 DEF Init, NoRow
  <2> QED BY <2>1, <2>2, <2>4 DEF Book, Mutex, Quiet, Holds
<1> QED BY <1>1, <1>3, <1>4, <1>5 DEF BookInv, Truthful

\* The book and the mutual exclusion are inductive.
LEMMA BookNext == BookInv /\ [Next]_vars => BookInv'
<1> SUFFICES ASSUME BookInv, [Next]_vars PROVE BookInv'
  OBVIOUS
<1>i. TypeInv /\ Rested /\ Solo /\ Timely /\ FenceInv /\ Truthful
  BY DEF BookInv
<1>1. TypeInv' /\ FenceInv'
  BY <1>i, TypeStep, FenceStep
<1>2. CASE UNCHANGED vars
  <2>1. UNCHANGED <<now, gen, cancelPc, intent, guard, run, me, sweepAt, verdict, excuse>>
    BY <1>2 DEF vars, jobVars, nodeVars, sweepVars
  <2>2. Rested' /\ Timely'
    BY <1>i, <2>1 DEF Rested, Timely
  <2>3. Solo'
    BY <1>i, <2>1 DEF Solo, SoloWork
  <2>4. Truthful'
    <3> SUFFICES ASSUME NEW i \in Identities, excuse'[i] = {} PROVE Book(i)' /\ (gen' = 0 => Mutex(i)')
      BY DEF Truthful
    <3>1. /\ Rec(i)' = Rec(i) /\ (Quiet(i) <=> Quiet(i)') /\ Act(i)' = Act(i)
          /\ Book(i) /\ (gen = 0 => Mutex(i))
      BY <1>i, <2>1, RecSame DEF Act, Quiet, On, Truthful
    <3>2. Book(i)'
      BY <2>1, <3>1 DEF Book, BookWork, On
    <3>3. gen = 0 => Mutex(i)'
      BY <2>1, <3>1 DEF Mutex, MutexWork, Holds, On, Held
    <3> QED BY <2>1, <3>2, <3>3
  <2> QED BY <1>1, <2>2, <2>3, <2>4 DEF BookInv
<1>3. CASE Next
  <2>1. Rested'
    <3>1. CASE ~\E d \in Deliveries : Deliver(d)
      BY <1>3, <1>i, <3>1, OnlyDeliver DEF Rested
    <3>2. CASE \E d \in Deliveries : Deliver(d)
      BY <1>i, <3>2, DeliverRested
    <3> QED BY <3>1, <3>2
  <2>2. Solo' /\ Timely'
    BY <1>3, <1>i, SoloStep, TimelyStep
  <2>3. ASSUME NEW i \in Identities, excuse'[i] = {} PROVE Book(i)' /\ (gen' = 0 => Mutex(i)')
    <3>1. ASSUME NEW d \in Deliveries, Deliver(d) PROVE Book(i)' /\ (gen' = 0 => Mutex(i)')
      BY <1>1, <2>3, <3>1, DeliverTruth, DeliverKeeps
    <3>2. CASE ~\E d \in Deliveries : Deliver(d)
      BY <1>1, <1>3, <2>3, <3>2, EnvironmentTruth
    <3> QED BY <3>1, <3>2
  <2> QED BY <1>1, <2>1, <2>2, <2>3 DEF BookInv, Truthful
<1> QED BY <1>2, <1>3

\* The protocol's promise about money: for any number of batches, nodes, POSTs
\* and concurrent deliveries, and any timings within LeaseAssumption and
\* GuardAssumption, two runs of one uncancelled batch are never live at once
\* unless one of the four named events befell it.
THEOREM DoubleRunNeedsACause == Spec => []DoubleRunExcused
<1>1. BookInv => DoubleRunExcused
  BY DEF BookInv, Truthful, Mutex, DoubleRunExcused, DoubleRun, Act, Active
<1> QED BY <1>1, BookInit, BookNext, PTL DEF Spec

\* The state that authorizes a second POST is true: barring the same events, a
\* RECONCILED_MISSING batch has no run that is live or may still arrive.
THEOREM MissingIsNowhere == Spec => []MissingIsTrue
<1>1. BookInv => MissingIsTrue
  <2> SUFFICES ASSUME BookInv, NEW i \in Identities, intent[i].state = "RECONCILED_MISSING", excuse[i] = {},
                      NEW k \in Posts
               PROVE  run[i][k].st \notin {"inflight", "live"}
    BY DEF MissingIsTrue
  <2>1. Book(i) /\ TypeInv /\ Rested /\ Solo
    BY DEF BookInv, Truthful
  <2>2. Rec(i) = intent[i]
    BY <2>1, RowIsRecord
  <2> QED BY <2>1, <2>2 DEF Book, Quiet, Act, Active
<1> QED BY <1>1, BookInit, BookNext, PTL DEF Spec

------------------------------------------------------------------------------
(* A forgotten run of a confirmed witness vetoes the denials after it         *)

\* A run of w that a node held at time t or has held since.
HeldSince(w, t) ==
  \E k \in Posts : \/ run[w][k].st \in {"live", "finished"}
                   \/ run[w][k].st = "gone" /\ run[w][k].at >= t

\* Denials of i that began at t are vetoed by no witness: each run confirmed on
\* the node between the POST and t was still held when they began.
Vouched(i, t) ==
  intent[i].posted # Never =>
    \A w \in Identities :
      /\ intent[w].state = "CONFIRMED" /\ intent[w].node = intent[i].node
      /\ intent[w].confirmed \in intent[i].posted .. t - 1
      => HeldSince(w, t)

\* The inductive invariant: the denials that the row counts are vouched for, and
\* those that the pass has still to write.
Unvetoed(i) ==
  /\ intent[i].firstAbsent # Never =>
       intent[i].state # "NONE" /\ intent[i].firstAbsent <= now /\ Vouched(i, intent[i].firstAbsent)
  /\ verdict[i] = "silent" => sweepAt <= now /\ Vouched(i, sweepAt)
  /\ intent[i].state = "RECONCILED_MISSING" => intent[i].posted # Never

WitnessInv == \A i \in Identities : Unvetoed(i)

\* What a step may make of a row as far as denials and witnesses go: a new batch
\* has been posted by nobody, and a batch is confirmed now or was before.
RowMove(r, s) ==
  \/ s = r
  \/ r.state = "NONE" /\ s.posted = Never /\ s.state # "CONFIRMED"
  \/ /\ r.state # "NONE" /\ s.state # "NONE" /\ s.node = r.node
     /\ s.posted \in {r.posted, Never, now}
     /\ s.state = "CONFIRMED" =>
          s.confirmed = now \/ (r.state = "CONFIRMED" /\ s.confirmed = r.confirmed)

\* What an execution may make of it: it counts no denial and settles none.
WorkMove(r, s) ==
  /\ RowMove(r, s)
  /\ s.firstAbsent = Never \/ (s.firstAbsent = r.firstAbsent /\ (r.state # "NONE" => s.state # "NONE"))
  /\ s.state = "RECONCILED_MISSING" => r.state = "RECONCILED_MISSING" /\ s.posted = r.posted

\* A run once held is held or goes later.
LEMMA HeldStays ==
  ASSUME TypeInv, Next, NEW w \in Identities, NEW t \in Time, t <= now, HeldSince(w, t)
  PROVE  HeldSince(w, t)'
<1>t. run \in [Identities -> [Posts -> Entry]] /\ now \in Int /\ t \in Int
  BY Bounds DEF TypeInv, TypeOK, Time
<1> DEFINE Kept(e) == e.st \in {"live", "finished"} \/ (e.st = "gone" /\ e.at >= t)
<1>1. PICK k \in Posts : Kept(run[w][k])
  BY DEF HeldSince
<1> SUFFICES Kept(run'[w][k])
  BY DEF HeldSince
<1>g. Kept(Gone)
  BY <1>t DEF Gone, Unsent, Never
<1>n. run[w][k].st \notin {"unsent", "inflight", "dropped"}
  BY <1>1
<1> HIDE DEF Kept
<1>u. CASE UNCHANGED run
  BY <1>1, <1>u
<1>2. ASSUME NEW d \in Deliveries, Send(d) PROVE Kept(run'[w][k])
  <2>1. PICK j \in Posts : /\ run[me[d].who][j].st = "unsent"
                           /\ run' = [run EXCEPT ![me[d].who][j] =
                                [st |-> "inflight", node |-> RowOf(d).node, at |-> now]]
    BY <1>2 DEF Send
  <2>2. ~(w = me[d].who /\ k = j)
    BY <1>n, <2>1
  <2> QED BY <1>t, <1>1, <2>1, <2>2
<1>3. ASSUME NEW d \in Deliveries, PostRefused(d) PROVE Kept(run'[w][k])
  <2>1. ~(w = me[d].who /\ k = me[d].ticket)
    BY <1>n, <1>3 DEF PostRefused
  <2> QED BY <1>t, <1>1, <1>3, <2>1 DEF PostRefused
<1>4. ASSUME NEW j \in Identities, NEW m \in Posts, Accept(j, m) \/ Lose(j, m)
      PROVE  Kept(run'[w][k])
  <2>1. ~(w = j /\ k = m)
    BY <1>n, <1>4 DEF Accept, Lose
  <2>2. run'[w][k] = run[w][k]
    BY <1>t, <1>4, <2>1 DEF Accept, Lose
  <2> QED BY <1>1, <2>2
<1>6. ASSUME NEW n \in Nodes, NEW j \in Identities, NEW m \in Posts, Finish(n, j, m)
      PROVE  Kept(run'[w][k])
  <2> DEFINE r == [run[j][m] EXCEPT !.st = "finished"]
             ended == [run EXCEPT ![j][m] = r]
             old == Head(Append(hist[n], <<j, m>>))
  <2>1. run' = ended \/ run' = [ended EXCEPT ![old[1]][old[2]] = Gone]
    BY <1>6, <1>t DEF Finish
  <2>2. Kept(r)
    <3>1. run[j][m] \in Entry
      BY <1>t
    <3> QED BY <3>1 DEF Kept, Entry
  <2> HIDE DEF r, old
  <2>3. Kept(ended[w][k])
    BY <1>t, <1>1, <2>2
  <2>4. run'[w][k] = ended[w][k] \/ run'[w][k] = Gone
    BY <1>t, <2>1
  <2> QED BY <2>3, <2>4, <1>g
<1>7. ASSUME NEW n \in Nodes, Restart(n) PROVE Kept(run'[w][k])
  <2>1. run'[w][k] = run[w][k] \/ run'[w][k] = Gone
    BY <1>7 DEF Restart
  <2> QED BY <1>1, <1>g, <2>1
<1>8. ASSUME CancelRuns PROVE Kept(run'[w][k])
  <2>1. run'[w][k] = run[w][k] \/ run'[w][k] = Gone
    BY <1>8 DEF CancelRuns
  <2> QED BY <1>1, <1>g, <2>1
<1>9. ASSUME NEW d \in Deliveries, Deliver(d)
      PROVE  UNCHANGED run \/ Send(d) \/ PostRefused(d)
  BY <1>9, DeliverRuns
<1>10. ASSUME NEW j \in Identities, HandBack(j) \/ SweepSettle(j) PROVE UNCHANGED run
  BY <1>10 DEF HandBack, SweepSettle, nodeVars
<1>11. ASSUME NEW up \in SUBSET Nodes, SweepScan(up) PROVE UNCHANGED run
  BY <1>11 DEF SweepScan, nodeVars
<1>12. ASSUME CancelFence \/ CancelGuards \/ Tick PROVE UNCHANGED run
  BY <1>12 DEF CancelFence, CancelGuards, Tick, nodeVars
<1> QED BY <1>u, <1>2, <1>3, <1>4, <1>6, <1>7, <1>8, <1>9, <1>10, <1>11, <1>12 DEF Next

\* A witness that confirms after the denials began is too late to veto them, and
\* so is a POST recorded since: what was vouched for stays so.
LEMMA VouchMove ==
  ASSUME TypeInv, Next, NEW i \in Identities, NEW t \in Time, t <= now, intent[i].state # "NONE",
         Vouched(i, t), \A j \in Identities : RowMove(intent[j], intent'[j])
  PROVE  Vouched(i, t)'
<1>t. /\ now \in Int /\ t \in Int
      /\ \A j \in Identities : intent[j].posted \in Int /\ intent[j].confirmed \in Int
  BY Bounds DEF TypeInv, TypeOK, Time, Row, Never
<1> SUFFICES ASSUME intent'[i].posted # Never, NEW w \in Identities, intent'[w].state = "CONFIRMED",
                    intent'[w].node = intent'[i].node,
                    intent'[w].confirmed \in intent'[i].posted .. t - 1
             PROVE  HeldSince(w, t)'
  BY DEF Vouched
<1>1. RowMove(intent[i], intent'[i]) /\ RowMove(intent[w], intent'[w])
  OBVIOUS
<1>2. intent'[i].posted # now
  BY <1>t
<1>3. intent'[i].posted = intent[i].posted /\ intent'[i].node = intent[i].node
  BY <1>1, <1>2 DEF RowMove
<1>4. intent'[w].confirmed # now
  BY <1>3, <1>t
<1>5. /\ intent[w].state = "CONFIRMED" /\ intent'[w].confirmed = intent[w].confirmed
      /\ intent'[w].node = intent[w].node
  BY <1>1, <1>4 DEF RowMove
<1>6. HeldSince(w, t)
  BY <1>3, <1>5 DEF Vouched
<1> QED BY <1>6, HeldStays

\* Where every confirmation commits as it is made, an execution's step is a work move of each row.
LEMMA DeliverMove ==
  ASSUME TypeInv, Solo, CallerOwned = {}, NEW d \in Deliveries, Deliver(d), NEW i \in Identities
  PROVE  WorkMove(intent[i], intent'[i])
<1>t. intent \in [Identities -> Row] /\ intent[i] \in Row
  BY DEF TypeInv, TypeOK
<1>u. ASSUME intent'[i] = intent[i] PROVE WorkMove(intent[i], intent'[i])
  BY <1>u DEF WorkMove, RowMove
<1>b. ASSUME me[d].pc # "idle" PROVE intent[me[d].who].state # "NONE" /\ RowOf(d) = intent[me[d].who]
  BY <1>b DEF Solo, SoloWork, RowOf
<1>o. ASSUME intent' = intent PROVE WorkMove(intent[i], intent'[i])
  BY <1>o, <1>u
<1>v. ASSUME Leave(d) \/ (\E label : Goto(d, label)) PROVE intent' = intent
  BY <1>v DEF Leave, Goto
<1>c. ASSUME intent[i].state # "NONE" PROVE WorkMove(intent[i], Confirmed(intent[i]))
  BY <1>c, <1>t DEF WorkMove, RowMove, Confirmed, Row
<1>w. ASSUME NEW row, NEW label, WriteGoto(d, row, label), me[d].pc # "idle",
             WorkMove(intent[me[d].who], row)
      PROVE  WorkMove(intent[i], intent'[i])
  <2>1. intent' = [intent EXCEPT ![me[d].who] = row]
    BY <1>w DEF WriteGoto
  <2>2. CASE me[d].who = i
    BY <1>t, <1>w, <2>1, <2>2
  <2>3. CASE me[d].who # i
    BY <1>t, <1>u, <2>1, <2>3
  <2> QED BY <2>2, <2>3
<1>e. ASSUME me[d].pc # "idle", NEW p \in {intent[me[d].who].posted, Never, now},
             NEW s \in {"PLANNED", "POSTED", "FAILED"}, me[d].who \in Identities
      PROVE  WorkMove(intent[me[d].who], [intent[me[d].who] EXCEPT !.state = s, !.posted = p])
  <2>1. intent[me[d].who] \in Row /\ intent[me[d].who].state # "NONE"
    BY <1>e, <1>t, <1>b
  <2> QED BY <2>1 DEF WorkMove, RowMove, Row
<1>x. me[d].pc # "idle" => me[d].who \in Identities
  BY DEF TypeInv, WorkerOK
<1>1. ASSUME NEW j \in Identities, NEW n \in Nodes, Plan(d, j, n) PROVE WorkMove(intent[i], intent'[i])
  <2> DEFINE new == [NoRow EXCEPT !.state = "PLANNED", !.node = n, !.gen = gen]
  <2>1. intent' = [intent EXCEPT ![j] = IF intent[j].state = "NONE" THEN new ELSE intent[j]]
    BY <1>1 DEF Plan
  <2>2. new.state = "PLANNED" /\ new.posted = Never /\ new.firstAbsent = Never
    BY DEF NoRow
  <2> HIDE DEF new
  <2>3. CASE j = i /\ intent[j].state = "NONE"
    <3>1. intent'[i] = new
      BY <2>1, <2>3, <1>t
    <3> QED BY <2>2, <2>3, <3>1 DEF WorkMove, RowMove
  <2>4. CASE ~(j = i /\ intent[j].state = "NONE")
    BY <2>1, <2>4, <1>t, <1>u
  <2> QED BY <2>3, <2>4
<1>2. CASE ReceiverCheck(d)
  <2>0. me[d].pc # "idle"
    BY <1>2 DEF ReceiverCheck
  <2>1. \/ Leave(d) \/ Goto(d, "reconcile")
        \/ intent' = [intent EXCEPT ![me[d].who] = Confirmed(intent[me[d].who])]
    BY <1>2 DEF ReceiverCheck
  <2>2. CASE intent' = [intent EXCEPT ![me[d].who] = Confirmed(intent[me[d].who])]
    <3>1. CASE me[d].who = i
      <4>1. intent'[i] = Confirmed(intent[i]) /\ intent[i].state # "NONE"
        BY <2>0, <2>2, <3>1, <1>t, <1>b
      <4> QED BY <4>1, <1>c
    <3>2. CASE me[d].who # i
      BY <2>2, <3>2, <1>t, <1>u
    <3> QED BY <3>1, <3>2
  <2> QED BY <2>1, <2>2, <1>v, <1>o
<1>3. CASE Reconcile(d)
  BY <1>3, <1>v, <1>o DEF Reconcile
<1>4. CASE AskPool(d)
  <2>1. intent' = intent
    BY <1>4, <1>v DEF AskPool
  <2> QED BY <2>1, <1>o
<1>k. ASSUME me[d].pc # "idle" PROVE WorkMove(intent[me[d].who], Confirmed(RowOf(d)))
  <2>1. intent[me[d].who] \in Row /\ intent[me[d].who].state # "NONE" /\ RowOf(d) = intent[me[d].who]
    BY <1>k, <1>b, <1>x, <1>t
  <2> QED BY <2>1 DEF WorkMove, RowMove, Confirmed, Row
<1>5. CASE ApplyAnswer(d)
  <2>0. me[d].pc # "idle" /\ RowOf(d) = intent[me[d].who]
    BY <1>5, <1>b DEF ApplyAnswer
  <2>1. \/ Leave(d)
        \/ WriteGoto(d, Confirmed(RowOf(d)), "stamp")
        \/ WriteGoto(d, [RowOf(d) EXCEPT !.state = "PLANNED", !.posted = Never], "claim")
    BY <1>5 DEF ApplyAnswer
  <2>2. CASE WriteGoto(d, Confirmed(RowOf(d)), "stamp")
    BY <2>0, <2>2, <1>w, <1>k
  <2>3. CASE WriteGoto(d, [RowOf(d) EXCEPT !.state = "PLANNED", !.posted = Never], "claim")
    BY <2>0, <2>3, <1>w, <1>e, <1>x
  <2> QED BY <2>1, <2>2, <2>3, <1>v, <1>o
<1>6. CASE Claim(d)
  BY <1>6, <1>v, <1>o DEF Claim
<1>7. CASE record_post(d)
  <2>1. /\ me[d].pc # "idle" /\ RowOf(d) = intent[me[d].who]
        /\ WriteGoto(d, [RowOf(d) EXCEPT !.state = "POSTED", !.posted = now], "send")
    BY <1>7, <1>b DEF record_post
  <2> QED BY <2>1, <1>w, <1>e, <1>x
<1>8. CASE Send(d) \/ PostRefused(d) \/ Answered(d) \/ PostAbandoned(d) \/ CommitGuard(d)
  BY <1>8, <1>v, <1>o DEF Send, PostRefused, Answered, PostAbandoned, CommitGuard
<1>9. CASE Fail(d)
  <2>1. /\ me[d].pc # "idle" /\ RowOf(d) = intent[me[d].who] /\ me[d].who \in Identities
        /\ WriteGoto(d, [RowOf(d) EXCEPT !.state = "FAILED"], "release")
    BY <1>9, <1>b, <1>x DEF Fail
  <2>2. WorkMove(intent[me[d].who], [RowOf(d) EXCEPT !.state = "FAILED"])
    <3>1. intent[me[d].who] \in Row /\ intent[me[d].who].state # "NONE"
      BY <2>1, <1>b, <1>t
    <3> QED BY <2>1, <3>1 DEF WorkMove, RowMove, Row
  <2> QED BY <2>1, <2>2, <1>w
<1>10. CASE ConfirmPost(d)
  <2>1. me[d].pc # "idle" /\ WriteGoto(d, Confirmed(RowOf(d)), "guard")
    BY <1>10 DEF ConfirmPost
  <2> QED BY <2>1, <1>w, <1>k
<1>11. CASE Release(d) \/ Stamp(d) \/ Crash(d)
  BY <1>11, <1>v, <1>o DEF Release, Stamp, Crash
<1> QED BY <1>1, <1>2, <1>3, <1>4, <1>5, <1>6, <1>7, <1>8, <1>9, <1>10, <1>11 DEF Deliver

\* What a denial does to a row: it may count from the scan's time, when the row
\* has a POST and its node's memory was found intact.
LEMMA AbsenceCounts ==
  ASSUME NEW row \in Row, row.state # "NONE", NEW t \in Time, NEW b \in BOOLEAN
  PROVE  /\ RowMove(row, record_absence(row, t, b))
         /\ record_absence(row, t, b).posted = row.posted
         /\ record_absence(row, t, b).state # "NONE"
         /\ \/ record_absence(row, t, b).firstAbsent = row.firstAbsent
            \/ b /\ record_absence(row, t, b).firstAbsent = t
         /\ record_absence(row, t, b).state = "RECONCILED_MISSING" =>
              row.state = "RECONCILED_MISSING" \/ row.posted # Never
BY DEF record_absence, RowMove, Row, TooYoung, Untrusted, FirstAbsent, OPEN_QUESTION_STATES

\* An execution keeps the denials of every batch vouched for.
LEMMA DeliverWitness ==
  ASSUME BookInv, WitnessInv, CallerOwned = {}, Next, NEW d \in Deliveries, Deliver(d),
         NEW i \in Identities
  PROVE  Unvetoed(i)'
<1>i. TypeInv /\ Solo /\ Unvetoed(i)
  BY DEF BookInv, WitnessInv
<1>t. /\ now \in Time /\ sweepAt \in Time
      /\ intent[i].firstAbsent \in Time \cup {Never}
  BY <1>i DEF TypeInv, TypeOK, Row
<1>1. \A j \in Identities : WorkMove(intent[j], intent'[j]) /\ RowMove(intent[j], intent'[j])
  BY <1>i, DeliverMove DEF WorkMove
<1>2. now' = now /\ sweepAt' = sweepAt /\ verdict' = verdict
  BY DeliverKeeps
<1>3. ASSUME NEW t \in Time, t <= now, intent[i].state # "NONE", Vouched(i, t) PROVE Vouched(i, t)'
  BY <1>i, <1>1, <1>3, VouchMove
<1>4. ASSUME intent'[i].firstAbsent # Never
      PROVE  /\ intent'[i].state # "NONE" /\ intent'[i].firstAbsent <= now'
             /\ Vouched(i, intent[i].firstAbsent)'
  <2>1. intent'[i].firstAbsent = intent[i].firstAbsent /\ (intent[i].state # "NONE" => intent'[i].state # "NONE")
    BY <1>1, <1>4 DEF WorkMove
  <2>2. PICK t \in Time : t = intent[i].firstAbsent
    BY <1>t, <1>4, <2>1
  <2>3. t <= now /\ intent[i].state # "NONE" /\ Vouched(i, t)
    BY <1>i, <1>4, <2>1, <2>2 DEF Unvetoed
  <2>4. Vouched(i, t)'
    BY <1>3, <2>2, <2>3
  <2>5. t = intent'[i].firstAbsent
    BY <2>1, <2>2
  <2>6. Vouched(i, intent[i].firstAbsent)'
    BY <2>4, <2>5 DEF Vouched, HeldSince
  <2> QED BY <1>2, <2>1, <2>3, <2>5, <2>6
<1>5. ASSUME verdict'[i] = "silent" PROVE sweepAt' <= now' /\ Vouched(i, sweepAt)'
  <2>1. PICK t \in Time : t = sweepAt
    BY <1>t
  <2>2. t <= now /\ Vouched(i, t) /\ intent[i].state # "NONE"
    BY <1>i, <1>2, <1>5, <2>1 DEF Unvetoed, Solo
  <2>3. Vouched(i, t)'
    BY <1>3, <2>2
  <2>4. t = sweepAt'
    BY <1>2, <2>1
  <2>5. Vouched(i, sweepAt)'
    BY <2>3, <2>4 DEF Vouched, HeldSince
  <2> QED BY <1>2, <2>2, <2>4, <2>5
<1>6. intent'[i].state = "RECONCILED_MISSING" => intent'[i].posted # Never
  BY <1>i, <1>1 DEF WorkMove, Unvetoed
<1> QED BY <1>4, <1>5, <1>6 DEF Unvetoed

\* So do the nodes, the operator, the clock, and the sweep, which counts a denial
\* from the time of its scan and only on a node that lists every such witness.
LEMMA EnvironmentWitness ==
  ASSUME BookInv, WitnessInv, TypeInv', Next, ~\E d \in Deliveries : Deliver(d), NEW i \in Identities
  PROVE  Unvetoed(i)'
<1>i. TypeInv /\ Solo /\ Unvetoed(i)
  BY DEF BookInv, WitnessInv
<1>t. /\ now \in Time /\ sweepAt \in Time /\ now' \in Time /\ now \in Int /\ now' \in Int
      /\ intent \in [Identities -> Row] /\ intent[i] \in Row
      /\ intent[i].firstAbsent \in Time \cup {Never}
      /\ verdict \in [Identities -> {"none", "listed", "silent", "forgetful"}]
  BY <1>i DEF TypeInv, TypeOK, Row, Time
<1>n. now <= now'
  <2>1. now' = now \/ Tick
    BY <1>i, EnvironmentKeeps DEF BookInv
  <2> QED BY <2>1, <1>t DEF Tick
<1>s. ASSUME NEW j \in Identities, SweepSettle(j)
      PROVE  LET b == verdict[j] = "silent"
             IN  /\ \A l \in Identities \ {j} : intent'[l] = intent[l] /\ verdict'[l] = verdict[l]
                 /\ verdict'[j] = "none" /\ intent[j].state # "NONE"
                 /\ \/ intent'[j] = Confirmed(intent[j])
                    \/ intent'[j] = record_absence(intent[j], sweepAt, b)
  BY <1>s, <1>t, <1>i DEF SweepSettle, Solo
<1>m. \A l \in Identities : RowMove(intent[l], intent'[l])
  <2>1. ASSUME NEW j \in Identities, SweepSettle(j), NEW l \in Identities
        PROVE  RowMove(intent[l], intent'[l])
    <3>1. CASE l # j
      BY <1>s, <2>1, <3>1 DEF RowMove
    <3>2. CASE l = j
      <4>0. intent[j] \in Row /\ intent[j].state # "NONE"
        BY <1>t, <1>s, <2>1
      <4>1. RowMove(intent[j], Confirmed(intent[j]))
        BY <4>0 DEF RowMove, Confirmed, Row
      <4>2. (verdict[j] = "silent") \in BOOLEAN
        OBVIOUS
      <4>3. RowMove(intent[j], record_absence(intent[j], sweepAt, verdict[j] = "silent"))
        BY <4>0, <4>2, <1>t, AbsenceCounts
      <4> QED BY <1>s, <2>1, <3>2, <4>1, <4>3
    <3> QED BY <3>1, <3>2
  <2>2. (\A j \in Identities : ~SweepSettle(j)) => intent' = intent
    BY <1>i, EnvironmentKeeps DEF BookInv
  <2> QED BY <2>1, <2>2 DEF RowMove
<1>v. ASSUME NEW t \in Time, t <= now, intent[i].state # "NONE", Vouched(i, t) PROVE Vouched(i, t)'
  BY <1>i, <1>m, <1>v, VouchMove
<1>r. ASSUME intent'[i].firstAbsent # Never \/ intent'[i].state = "RECONCILED_MISSING"
      PROVE  /\ \/ intent'[i] = intent[i]
                \/ /\ intent'[i].posted = intent[i].posted /\ intent'[i].state # "NONE"
                   /\ \/ intent'[i].firstAbsent = intent[i].firstAbsent /\ intent[i].state # "NONE"
                      \/ intent'[i].firstAbsent = sweepAt /\ verdict[i] = "silent"
             /\ intent'[i].state = "RECONCILED_MISSING" =>
                  intent[i].state = "RECONCILED_MISSING" \/ intent'[i].posted # Never
  <2>1. CASE intent'[i] = intent[i]
    BY <2>1
  <2>2. CASE intent'[i] # intent[i]
    <3>1. SweepSettle(i)
      <4>1. PICK j \in Identities : SweepSettle(j)
        BY <1>i, <2>2, EnvironmentKeeps
      <4> QED BY <1>s, <2>2, <4>1
    <3>2. Confirmed(intent[i]).firstAbsent = Never /\ Confirmed(intent[i]).state = "CONFIRMED"
      BY <1>t DEF Confirmed, Row
    <3>3. intent'[i] = record_absence(intent[i], sweepAt, verdict[i] = "silent") /\ intent[i].state # "NONE"
      BY <1>r, <1>s, <3>1, <3>2
    <3>4. (verdict[i] = "silent") \in BOOLEAN
      OBVIOUS
    <3> DEFINE b == verdict[i] = "silent"
               new == record_absence(intent[i], sweepAt, b)
    <3>5. /\ new.posted = intent[i].posted /\ new.state # "NONE"
          /\ new.firstAbsent = intent[i].firstAbsent \/ (b /\ new.firstAbsent = sweepAt)
          /\ new.state = "RECONCILED_MISSING" =>
               intent[i].state = "RECONCILED_MISSING" \/ intent[i].posted # Never
      BY <1>t, <3>3, <3>4, AbsenceCounts
    <3> HIDE DEF new
    <3> QED BY <3>3, <3>5 DEF new
  <2> QED BY <2>1, <2>2
<1>4. ASSUME intent'[i].firstAbsent # Never
      PROVE  /\ intent'[i].state # "NONE" /\ intent'[i].firstAbsent <= now'
             /\ Vouched(i, intent[i].firstAbsent)'
  <2>1. /\ intent'[i].state # "NONE" /\ intent[i].state # "NONE"
        /\ \/ intent'[i].firstAbsent = intent[i].firstAbsent
           \/ intent'[i].firstAbsent = sweepAt /\ verdict[i] = "silent"
    BY <1>i, <1>r, <1>4 DEF Unvetoed, Solo
  <2>2. intent'[i].firstAbsent \in Time
    BY <1>t, <1>4, <2>1
  <2>3. PICK t \in Time : t = intent'[i].firstAbsent
    BY <2>2
  <2>4. t <= now /\ Vouched(i, t)
    BY <1>i, <1>4, <2>1, <2>3 DEF Unvetoed
  <2>5. Vouched(i, t)'
    BY <1>v, <2>1, <2>4
  <2>6. Vouched(i, intent[i].firstAbsent)'
    BY <2>3, <2>5 DEF Vouched, HeldSince
  <2>7. intent'[i].firstAbsent <= now'
    BY <1>t, <1>n, <2>3, <2>4 DEF Time
  <2> QED BY <2>1, <2>6, <2>7
<1>5. ASSUME verdict'[i] = "silent" PROVE sweepAt' <= now' /\ Vouched(i, sweepAt)'
  <2>1. ASSUME NEW up \in SUBSET Nodes, SweepScan(up)
        PROVE  sweepAt' <= now' /\ Vouched(i, sweepAt)'
    <3>1. /\ HistoryIntact(i) /\ sweepAt' = now /\ intent' = intent /\ run' = run /\ now' = now
      BY <1>5, <2>1 DEF SweepScan, nodeVars
    <3>2. ASSUME NEW w \in Identities, Listed(w, intent[w].node) PROVE HeldSince(w, sweepAt)'
      BY <3>1, <3>2 DEF Listed, HeldSince
    <3>3. \A w \in Identities : intent[w].confirmed \in Int /\ intent[w].posted \in Int
      BY <1>t DEF Row, Time, Never
    <3>4. Vouched(i, sweepAt)'
      BY <3>1, <3>2, <3>3, <1>t DEF Vouched, HistoryIntact
    <3> QED BY <1>t, <3>1, <3>4
  <2>2. ASSUME verdict[i] = "silent", sweepAt' = sweepAt
        PROVE  sweepAt' <= now' /\ Vouched(i, sweepAt)'
    <3>1. PICK t \in Time : t = sweepAt
      BY <1>t
    <3>2. t <= now /\ Vouched(i, t) /\ intent[i].state # "NONE"
      BY <1>i, <2>2, <3>1 DEF Unvetoed, Solo
    <3>3. Vouched(i, t)'
      BY <1>v, <3>2
    <3>4. Vouched(i, sweepAt)'
      BY <2>2, <3>1, <3>3 DEF Vouched, HeldSince
    <3> QED BY <1>t, <1>n, <2>2, <3>1, <3>2, <3>4 DEF Time
  <2>3. ASSUME NEW j \in Identities, SweepSettle(j) PROVE verdict[i] = "silent" /\ sweepAt' = sweepAt
    <3>1. i # j
      BY <1>s, <1>5, <2>3
    <3>2. verdict[i] = "silent"
      BY <1>s, <1>5, <2>3, <3>1
    <3> QED BY <2>3, <3>1, <3>2 DEF SweepSettle
  <2>4. UNCHANGED <<sweepAt, verdict>> => verdict[i] = "silent" /\ sweepAt' = sweepAt
    BY <1>5
  <2> QED BY <1>i, <2>1, <2>2, <2>3, <2>4, EnvironmentKeeps
<1>6. intent'[i].state = "RECONCILED_MISSING" => intent'[i].posted # Never
  BY <1>i, <1>r DEF Unvetoed
<1> QED BY <1>4, <1>5, <1>6 DEF Unvetoed

\* A forgetful node testifies to nothing, for any number of batches, nodes, POSTs
\* and deliveries: where every confirmation commits as it is made, no batch is
\* RECONCILED_MISSING on denials that began after a confirmed witness had vanished.
THEOREM ForgottenIsNoWitness == Spec => []LostWitnessVetoes
<1>1. CASE CallerOwned = {}
  <2>1. Init => WitnessInv
    BY DEF Init, WitnessInv, Unvetoed, NoRow
  <2>2. BookInv /\ WitnessInv /\ [Next]_vars => WitnessInv'
    <3> SUFFICES ASSUME BookInv, WitnessInv, [Next]_vars, NEW i \in Identities PROVE Unvetoed(i)'
      BY DEF WitnessInv
    <3>1. CASE UNCHANGED vars
      <4>1. UNCHANGED <<now, intent, verdict, sweepAt, run>>
        BY <3>1 DEF vars, nodeVars, sweepVars
      <4> QED BY <4>1 DEF WitnessInv, Unvetoed, Vouched, HeldSince
    <3>2. CASE Next
      <4>1. TypeInv'
        BY <3>2, TypeStep DEF BookInv
      <4> QED BY <1>1, <3>2, <4>1, DeliverWitness, EnvironmentWitness
    <3> QED BY <3>1, <3>2
  <2>3. BookInv /\ WitnessInv => LostWitnessVetoes
    <3> SUFFICES ASSUME BookInv, WitnessInv, NEW i \in Identities, NEW w \in Identities,
                        intent[i].state = "RECONCILED_MISSING", intent[i].posted <= intent[i].firstAbsent,
                        intent[w].state = "CONFIRMED", intent[w].node = intent[i].node,
                        intent[w].confirmed \in intent[i].posted .. intent[i].firstAbsent - 1
                 PROVE  ~LostBefore(w, intent[i].firstAbsent)
      BY DEF LostWitnessVetoes, WitnessVetoesDenials
    <3>1. /\ intent[i] \in Row /\ run \in [Identities -> [Posts -> Entry]]
          /\ intent[i].posted # Never
      BY DEF BookInv, TypeInv, TypeOK, WitnessInv, Unvetoed
    <3>2. intent[i].firstAbsent \in Time
      BY <3>1 DEF Row, Time, Never
    <3>3. HeldSince(w, intent[i].firstAbsent)
      BY <3>1, <3>2 DEF WitnessInv, Unvetoed, Vouched, Time, Never
    <3>4. \A k \in Posts : run[w][k].at \in Int
      BY <3>1 DEF Entry, Time, Never
    <3> QED BY <3>2, <3>3, <3>4 DEF HeldSince, LostBefore, Time
  <2> QED BY <2>1, <2>2, <2>3, BookInit, BookNext, PTL DEF Spec
<1>2. CASE CallerOwned # {}
  <2>1. LostWitnessVetoes
    BY <1>2 DEF LostWitnessVetoes
  <2> QED BY <2>1, PTL
<1> QED BY <1>1, <1>2
==============================================================================
