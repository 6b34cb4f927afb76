------------------------------- MODULE FairQueue -------------------------------
(***************************************************************************)
(* plan_pass of the fair scheduler: deficit weighted round robin over the  *)
(* workspaces' queues of due rules, under the batch limit, the fleet cap,  *)
(* the per-domain caps shared by all tenants and the per-workspace cap.    *)
(* A candidate is the domain it would fetch from, or "*" when its scope    *)
(* names no single domain; a queue is already in urgency order (parked     *)
(* rules are filtered out before).  One step is one turn of the inner      *)
(* loop.  Weights are multiples of 1/Unit, so a slot costs Unit.           *)
(***************************************************************************)
EXTENDS Integers, Sequences, FiniteSets

CONSTANTS N,           \* workspaces, visited in the order 1 .. N
          Domains,     \* merchant domains
          Weights,     \* the weight functions to try, in units
          Unit, Limits, FleetCap, DomainCap, WorkspaceCaps, MaxQueue

Wildcard == "*"
Reasons == {"DOMAIN_LIMIT", "FLEET_LIMIT", "PASS_CAPACITY", "FAIR_SHARE_EXHAUSTED"}
Ws == 1 .. N

VARIABLES weight, limit, cap, demand, usage,   \* the pass's inputs
          queue, deficit, taken, used, total,
          deferred,                       \* per workspace: <<candidate, reason>> in order
          at,                             \* the workspace whose turn it is
          turn,                           \* its deficit has been topped up this round
          progressed, stop, done

input == <<weight, limit, cap, demand, usage>>
vars == <<input, queue, deficit, taken, used, total, deferred, at, turn, progressed, stop, done>>

Candidates == Domains \cup {Wildcard}
Queues == UNION {[1 .. n -> Candidates] : n \in 0 .. MaxQueue}

Init ==
  /\ weight \in Weights /\ limit \in Limits /\ cap \in WorkspaceCaps
  /\ demand \in [Ws -> Queues]
  /\ usage \in [Domains -> 0 .. DomainCap]
  /\ queue = demand
  /\ deficit = [w \in Ws |-> 0] /\ taken = [w \in Ws |-> 0]
  /\ used = usage
  /\ \E other \in 0 .. 1 :
       total = Cardinality({<<d, i>> \in Domains \X (1 .. DomainCap) : i <= usage[d]}) + other
  /\ deferred = [w \in Ws |-> <<>>]
  /\ at = 1 /\ turn = FALSE /\ progressed = FALSE /\ stop = "" /\ done = FALSE

admitted == LET Sum[w \in 0 .. N] == IF w = 0 THEN 0 ELSE Sum[w - 1] + taken[w] IN Sum[N]

\* Mutant: the last slot of a domain is never given out.
AtDomainCap_OffByOne(c) == c # Wildcard /\ used[c] + 1 >= DomainCap

\* A wildcard candidate has no domain cap; every other domain has the fleet-wide one.
AtDomainCap(c) == c # Wildcard /\ used[c] >= DomainCap

\* Mutant: each workspace's plan counts the domain's slots for itself.
Occupy_PerWorkspace(c) ==
  IF c = Wildcard \/ taken[at] = 0 THEN used ELSE [used EXCEPT ![c] = @ + 1]

Occupy(c) == IF c = Wildcard THEN used ELSE [used EXCEPT ![c] = @ + 1]

\* Mutant: a workspace at its own cap is skipped and its queue forgotten.
Drained_Dropped(w, reason) == <<>>

Drained(w, reason) == [i \in 1 .. Len(queue[w]) |-> <<queue[w][i], reason>>]

\* Mutant: the workspace keeps its turn while it has candidates.
EndTurn_Greedy(w) == queue[w] = <<>>

\* The turn ends when the queue or the deficit is used up.
EndTurn(w) == queue[w] = <<>> \/ deficit[w] < Unit

\* The workspace's turn begins: a deficit for whoever has work, nothing for the rest.
Begin ==
  /\ ~done /\ stop = "" /\ limit > 0 /\ at <= N /\ ~turn
  /\ IF queue[at] = <<>> \/ weight[at] = 0
     THEN /\ at' = at + 1
          /\ UNCHANGED <<deficit, turn, progressed>>
     ELSE /\ deficit' = [deficit EXCEPT ![at] = @ + weight[at]]
          /\ turn' = TRUE /\ progressed' = TRUE
          /\ UNCHANGED at
  /\ UNCHANGED <<input, queue, taken, used, total, deferred, stop, done>>

\* One turn of the inner loop: stop the pass, cap the workspace, defer for the domain, or admit.
Offer ==
  LET c == Head(queue[at]) IN
  /\ ~done /\ stop = "" /\ turn /\ ~EndTurn(at)
  /\ \/ /\ admitted >= limit
        /\ stop' = "PASS_CAPACITY"
        /\ UNCHANGED <<queue, deficit, taken, used, total, deferred>>
     \/ /\ admitted < limit /\ total >= FleetCap
        /\ stop' = "FLEET_LIMIT"
        /\ UNCHANGED <<queue, deficit, taken, used, total, deferred>>
     \/ /\ admitted < limit /\ total < FleetCap /\ taken[at] >= cap
        /\ deferred' = [deferred EXCEPT ![at] = @ \o Drained(at, "FAIR_SHARE_EXHAUSTED")]
        /\ queue' = [queue EXCEPT ![at] = <<>>]
        /\ UNCHANGED <<deficit, taken, used, total, stop>>
     \/ /\ admitted < limit /\ total < FleetCap /\ taken[at] < cap
        /\ queue' = [queue EXCEPT ![at] = Tail(@)]
        /\ IF AtDomainCap(c)
           THEN /\ deferred' = [deferred EXCEPT ![at] = Append(@, <<c, "DOMAIN_LIMIT">>)]
                /\ UNCHANGED <<deficit, taken, used, total>>
           ELSE /\ deficit' = [deficit EXCEPT ![at] = @ - Unit]
                /\ taken' = [taken EXCEPT ![at] = @ + 1]
                /\ used' = Occupy(c)
                /\ total' = total + 1
                /\ UNCHANGED deferred
        /\ UNCHANGED stop
  /\ UNCHANGED <<input, at, turn, progressed, done>>

Pass_on ==
  /\ ~done /\ stop = "" /\ turn /\ EndTurn(at)
  /\ at' = at + 1 /\ turn' = FALSE
  /\ UNCHANGED <<input, queue, deficit, taken, used, total, deferred, progressed, stop, done>>

NextRound ==
  /\ ~done /\ stop = "" /\ limit > 0 /\ at > N /\ progressed
  /\ at' = 1 /\ progressed' = FALSE
  /\ UNCHANGED <<input, queue, deficit, taken, used, total, deferred, turn, stop, done>>

\* What is left after a stop carries the stop's reason; a workspace of no weight is refused
\* its share whatever stopped the pass.
Finish ==
  /\ ~done
  /\ stop # "" \/ limit = 0 \/ (at > N /\ ~progressed)
  /\ LET why(w) == IF weight[w] = 0 THEN "FAIR_SHARE_EXHAUSTED"
                   ELSE IF limit = 0 THEN "PASS_CAPACITY" ELSE stop IN
     deferred' = [w \in Ws |-> deferred[w] \o Drained(w, why(w))]
  /\ queue' = [w \in Ws |-> <<>>]
  /\ done' = TRUE
  /\ UNCHANGED <<input, deficit, taken, used, total, at, turn, progressed, stop>>

Next == Begin \/ Offer \/ Pass_on \/ NextRound \/ Finish

Spec == Init /\ [][Next]_vars

-----------------------------------------------------------------------------
Refused(w, reason) == {i \in DOMAIN deferred[w] : deferred[w][i][2] = reason}

\* No tenant crowds another out: a workspace that still had work when the pass stopped is at
\* most one round behind any other, in proportion to their weights.
FairSplit ==
  done => \A w, v \in Ws :
    (Refused(w, "PASS_CAPACITY") \cup Refused(w, "FLEET_LIMIT") # {} /\ limit > 0)
      => Unit * taken[v] * weight[w] < (Unit * (taken[w] + 1) + weight[w]) * weight[v]
         \/ taken[v] = 0

\* A merchant's cap is the merchant's, not the tenant's: the pass never takes a domain past its
\* cap, counted over all workspaces with what was live when the pass began.
DomainCapShared ==
  \A d \in Domains :
    LET seen(w)    == {i \in 1 .. (Len(demand[w]) - Len(queue[w])) : demand[w][i] = d}
        refused(w) == {i \in DOMAIN deferred[w] : deferred[w][i][1] = d}
        Got[w \in 0 .. N] ==
          IF w = 0 THEN usage[d]
          ELSE Got[w - 1] + Cardinality(seen(w)) - Cardinality(refused(w)) IN
    Got[N] <= DomainCap

\* Work-conserving: a candidate is refused only for a limit that the finished pass did reach.
RefusedForCause ==
  done => \A w \in Ws :
    /\ Refused(w, "PASS_CAPACITY") # {} => admitted = limit
    /\ Refused(w, "FLEET_LIMIT") # {} => total >= FleetCap
    /\ Refused(w, "FAIR_SHARE_EXHAUSTED") # {} => weight[w] = 0 \/ taken[w] = cap
    /\ \A i \in Refused(w, "DOMAIN_LIMIT") : used[deferred[w][i][1]] = DomainCap

\* Nothing is dropped: every candidate is admitted or deferred, once.
AllAccounted ==
  done => \A w \in Ws : Len(demand[w]) = taken[w] + Len(deferred[w])
=============================================================================
