------------------------------- MODULE MCCrawl -------------------------------
(* The dispatch of a crawl checked on small instances: the protocol over one
  row and one node, the same protocol with a caller's deadline and the cancel
  fence, two rows whose history a node may have lost, and the planning pass
  that chooses which targets become rows. One part runs in a behaviour; a
  part's variables are the registers, in the order of its VARIABLES. *)
EXTENDS DispatchIntents, TLC

CONSTANTS Rows

VARIABLES part, v1, v2, v3, v4, v5, v6, v7, v8, v9, v10, v11, v12, v13

\* The targets a pass may meet: every fate, both modes, two domains' rungs.
K(d, m, r, c, h, f) == [dom |-> d, mode |-> m, rung |-> r, cheap |-> c, hash |-> h, fate |-> f]
KindsOfTarget == {K(1, 1, 1, 1, 1, "ok"), K(1, 1, 1, 1, 2, "ok"), K(2, 1, 0, 0, 0, "ok"),
                  K(2, 0, 3, 1, 0, "ok"), K(1, 1, 1, 1, 1, "gone"), K(1, 1, 1, 1, 1, "spent"),
                  K(3, 1, 2, 0, 1, "denied"), K(4, 1, 0, 0, 1, "unsupported")}
\* What a node answers about its load: nothing, or an idle node.
LoadsSeen == {[running |-> 0, pending |-> 0, up |-> FALSE], [running |-> 0, pending |-> 0, up |-> TRUE]}

Cancelled == INSTANCE DispatchIntents WITH
    Cancellable <- TRUE, MaxTime <- 2
Twins == INSTANCE DispatchIntents WITH
    CallerOwned <- {}, MaxTime <- 2, HttpTimeout <- 0, NetDelay <- 0, Lease <- 1,
    Quorum <- 1, Window <- 0, Horizon <- 2, SentinelTTL <- 1, GuardTTL <- 1
Witness == INSTANCE DispatchIntents WITH
    now <- v1, gen <- v2, cancelPc <- v3, intent <- v4, guard <- v5, stamped <- v6,
    run <- v7, hist <- v8, me <- v9, sweepAt <- v10, verdict <- v11, excuse <- v12,
    fencedAt <- v13, Identities <- Rows, Deliveries <- {"d1"}, CallerOwned <- {},
    Cancellable <- FALSE, MaxTime <- 2, MaxPosts <- 1, HttpTimeout <- 0, NetDelay <- 0,
    Lease <- 1, Quorum <- 2, Window <- 1, Horizon <- 2, SentinelTTL <- 1,
    GuardTTL <- 2, Keep <- 1
Planner == INSTANCE DispatchPlan WITH
    kind <- v1, db <- v2, work <- v3, cached <- v4, denied <- v5, grants <- v6,
    posts <- v7, pass <- v8, passes <- v9, faults <- v10, Targets <- {1, 2},
    Kinds <- KindsOfTarget, HttpPool <- <<"h1", "h2">>, BrowserPool <- <<"b1">>,
    HttpMax <- 2, BrowserMax <- 1, MaxPending <- 1, Loads <- LoadsSeen, MaxPasses <- 2,
    MaxFaults <- 1

\* The registers from the k-th on, unused: at rest, and left alone.
Free1 == v1 = 0 /\ v2 = 0 /\ v3 = 0 /\ v4 = 0 /\ v5 = 0 /\ v6 = 0 /\ v7 = 0 /\
         v8 = 0 /\ v9 = 0 /\ v10 = 0 /\ v11 = 0 /\ v12 = 0 /\ v13 = 0
Free11 == v11 = 0 /\ v12 = 0 /\ v13 = 0
Kept1 == UNCHANGED <<v1, v2, v3, v4, v5, v6, v7, v8, v9, v10, v11, v12, v13>>
Kept11 == UNCHANGED <<v11, v12, v13>>

\* Bounds on a behaviour as a whole: after the first tick two deliveries of one row
\* no longer overlap, and of two rows a delivery only ends what it has posted.
OneAtATime == now' > 0 => \E d \in Deliveries : me'[d].pc = "idle"
PostedAtOnce == v1' > 0 => v9'["d1"].pc \in {"idle", "confirm", "guard", "stamp"}

MCInit ==
  \/ part = "protocol" /\ Init /\ Free1
  \/ part = "cancel" /\ Cancelled!Init /\ Free1
  \/ part = "twins" /\ Twins!Init /\ Free1
  \/ /\ Init
     /\ \/ part = "witness" /\ Witness!Init
        \/ part = "plan" /\ Planner!Init /\ Free11

MCNext ==
  \/ part = "protocol" /\ Next /\ Kept1 /\ UNCHANGED part
  \/ part = "cancel" /\ Cancelled!Next /\ Kept1 /\ UNCHANGED part
  \/ part = "twins" /\ Twins!Next /\ OneAtATime /\ Kept1 /\ UNCHANGED part
  \/ part = "witness" /\ Witness!Next /\ PostedAtOnce /\ UNCHANGED <<part, vars>>
  \/ part = "plan" /\ Planner!Next /\ Kept11 /\ UNCHANGED <<part, vars>>

mcvars == <<part, vars, v1, v2, v3, v4, v5, v6, v7, v8, v9, v10, v11, v12, v13>>
MCSpec == MCInit /\ [][MCNext]_mcvars

Symmetry == Permutations(Rows)

\* Planning keeps the batches whole over any order of rows, crash and change of
\* load: each resolvable target is in exactly one batch of its own group within
\* the ceiling, one identity is only ever posted to the node its intent names,
\* fresh batches fit the room the node reported, no reservation outlives its
\* delivery, and a stamped target was posted (plan_batches, place, reserve_node).
PlanWhole ==
  part = "plan" => /\ Planner!PlanPartitions /\ Planner!OneNodePerIdentity
                   /\ Planner!RoomRespected /\ Planner!NoGrantLeft /\ Planner!StampedHasRun

\* A node that forgot a confirmed run testifies to nothing about a later one.
WitnessVetoes == part = "witness" => Witness!LostWitnessVetoes
==============================================================================
