------------------------------- MODULE MCWork --------------------------------
(* The work behind a crawl checked on small instances: the job and its targets,
  the analysis of the prices it brought in, the catalogue it reads and the
  pages of a listing. One part runs in a behaviour; the variables of a part
  other than job are the registers, in the order of its VARIABLES. *)
EXTENDS JobLifecycle, TLC

CONSTANTS Pair

VARIABLES part, v1, v2, v3, v4, v5, v6, v7, v8, v9, v10, v11, v12, v13, v14

\* What the clients of the catalogue send: two products with a variant each to
\* begin with, rows that name them by external id, by SKU and by neither.
PRow(ext, sku, title, nested) ==
  [ext |-> ext, sku |-> sku, title |-> title, active |-> TRUE, nested |-> nested]
VRow(p, ext, sku, title) == [product |-> p, ext |-> ext, sku |-> sku, title |-> title]
MRow(by, id, url) == [by |-> by, id |-> id, url |-> url]
ProductsSent == {PRow("x1", "none", "t2", <<>>), PRow("none", "none", "t1", <<>>),
                 PRow("none", "s1", "t1", <<VRow(0, "none", "s1", "t2")>>)}
VariantsSent == {VRow(1, "e1", "s1", "t1"), VRow(2, "e1", "none", "t2"),
                 VRow(1, "none", "s1", "t2"), VRow(2, "none", "none", "t2")}
MatchesSent == {MRow("id", 1, "u1"), MRow("external_id", "e2", "u2"),
                MRow("id", 1, "u2"), MRow("sku", "s1", "u2")}

Cancelled == INSTANCE JobLifecycle WITH
    now <- v1, job <- v2, lock <- v3, tgt <- v4, run <- v5, flush <- v6, disp <- v7,
    rec <- v8, fin <- v9, can <- v10, reap <- v11, owner <- v12, rewritten <- v13,
    latePrice <- v14, MaxCancels <- 1, MaxRuns <- 1, MaxPlans <- 1, MaxTime <- 1,
    Stall <- 0, RunMax <- 1, EndedAge <- 0, ReapAfter <- 1, Deadline <- 3
Races == INSTANCE JobLifecycle WITH
    now <- v1, job <- v2, lock <- v3, tgt <- v4, run <- v5, flush <- v6, disp <- v7,
    rec <- v8, fin <- v9, can <- v10, reap <- v11, owner <- v12, rewritten <- v13,
    latePrice <- v14, Targets <- Pair, MaxCancels <- 0, MaxRuns <- 1, MaxPlans <- 0,
    MaxTime <- 0, Stall <- 1, RunMax <- 2, EndedAge <- 0, ReapAfter <- 2, Deadline <- 4
Analysis == INSTANCE PriceAnalysis WITH
    variant <- v1, match <- v2, row <- v3, request <- v4, queued <- v5, task <- v6,
    alert <- v7, state <- v8, events <- v9, outbox <- v10, changes <- v11, runs <- v12,
    raced <- v13, Matches <- {"m1", "m2"}, Workers <- Pair, Prices <- {970, 1000},
    Currencies <- {"EUR", "USD"}, MaxChanges <- 3, MaxRuns <- 2
Cat == INSTANCE Catalogue WITH
    product <- v1, variant <- v2, matches <- v3, items <- v4, jobs <- v5, req <- v6,
    requests <- v7, excuse <- v8, Clients <- Pair, Products <- 1 .. 6,
    Variants <- 1 .. 6, ProductRows <- ProductsSent, VariantRows <- VariantsSent,
    MatchRows <- MatchesSent, Urls <- {"u1", "u2", "u3"},
    ProtectedUrls <- {"u1", "u2"}, Ceiling <- 3, MaxProtected <- 1, MaxRequests <- 3
Page == INSTANCE KeysetPaging WITH
    row <- v1, parent <- v2, clock <- v3, walk <- v4, changes <- v5, steady <- v6,
    Rows <- {1, 2, 3}, Parents <- {1, 2}, Limits <- {0, 1}, MaxClock <- 1,
    MaxChanges <- 3

\* The registers from the k-th on, unused: at rest, and left alone.
Free1 == v1 = 0 /\ v2 = 0 /\ v3 = 0 /\ v4 = 0 /\ v5 = 0 /\ v6 = 0 /\ v7 = 0 /\
         v8 = 0 /\ v9 = 0 /\ v10 = 0 /\ v11 = 0 /\ v12 = 0 /\ v13 = 0 /\ v14 = 0
Free7 == v7 = 0 /\ v8 = 0 /\ v9 = 0 /\ v10 = 0 /\ v11 = 0 /\ v12 = 0 /\ v13 = 0 /\
         v14 = 0
Free9 == v9 = 0 /\ v10 = 0 /\ v11 = 0 /\ v12 = 0 /\ v13 = 0 /\ v14 = 0
Free14 == v14 = 0
Kept1 == UNCHANGED <<v1, v2, v3, v4, v5, v6, v7, v8, v9, v10, v11, v12, v13, v14>>
Kept7 == UNCHANGED <<v7, v8, v9, v10, v11, v12, v13, v14>>
Kept9 == UNCHANGED <<v9, v10, v11, v12, v13, v14>>
Kept14 == UNCHANGED <<v14>>

\* Bounds on a behaviour as a whole: no flush begins at the last tick of the clock,
\* and of an alert's changes and runs there are at most four together.
FlushedInTime == now' = 2 => \A r \in {1, 2} : flush'[r].pc = "none"
CancelFlushedInTime == v1' = 1 => v6'[1].pc = "none"
FewChangesOrRuns == v11' + v12' <= 4
\* A third request is a rescrape.
CatalogueNext ==
  \/ v7 < 2 /\ Cat!Next
  \/ v7 >= 2 /\ \E c \in Pair : Cat!Commit(c)
  \/ v7 = 2 /\ \E c \in Pair : v6[c] = Cat!NoReq /\ Cat!rescrape_variant(c)
  \/ v7 >= 2 /\ \E v \in 1 .. 6 : Cat!JobStarts(v)

MCInit ==
  \/ part = "job" /\ Init /\ Free1
  \/ /\ Init
     /\ \/ part = "cancel" /\ Cancelled!Init
        \/ part = "races" /\ Races!Init
        \/ part = "analysis" /\ Analysis!Init /\ Free14
        \/ part = "catalogue" /\ Cat!Init /\ Free9
        \/ part = "page" /\ Page!Init /\ Free7

MCNext ==
  \/ part = "job" /\ Next /\ FlushedInTime /\ Kept1 /\ UNCHANGED part
  \/ part = "cancel" /\ Cancelled!Next /\ CancelFlushedInTime /\ UNCHANGED <<part, vars>>
  \/ part = "races" /\ Races!Next /\ UNCHANGED <<part, vars>>
  \/ part = "analysis" /\ Analysis!Next /\ FewChangesOrRuns /\ Kept14 /\ UNCHANGED <<part, vars>>
  \/ part = "catalogue" /\ CatalogueNext /\ Kept9 /\ UNCHANGED <<part, vars>>
  \/ part = "page" /\ Page!Next /\ Kept7 /\ UNCHANGED <<part, vars>>

mcvars == <<part, vars, v1, v2, v3, v4, v5, v6, v7, v8, v9, v10, v11, v12, v13, v14>>
MCSpec == MCInit /\ [][MCNext]_mcvars

Symmetry == Permutations(Pair)

\* A verdict follows from what it is about: that on a job of two targets, or of a
\* job with an operator, from their results (finalize_jobs, cancel_and_reconcile_job);
\* that on a match is monotone in its price, an active alert is not marked resolved,
\* the last event of an alert is its state, and a finished computation used prices
\* of its own currency that are no older than its start (decide, transition,
\* _upsert_alert_state, filter_comparable).
VerdictsHold ==
  /\ part = "races" => Races!FinalizedTruthful
  /\ part = "cancel" => Cancelled!TypeOK /\ Cancelled!FinalizedTruthful
  /\ part = "analysis" => /\ Analysis!VerdictMonotone /\ Analysis!ActiveNotResolved
                          /\ Analysis!LastEventIsState /\ Analysis!BenchmarksFresh

\* The catalogue's bulk endpoint means what the single ones do in sequence, a
\* ceiling or a cap is passed only by clients that raced, a product is left
\* without a variant only by a move, and a URL is scraped again by one job at a
\* time (bulk upsert, _bulk_protected_cap_check, count_new_products, rescrape); a
\* walk over the pages of a listing returns every row that stood still exactly
\* once, while others come, go and tie on the sort key (keyset_predicate).
CatalogueSound ==
  /\ part = "catalogue" => /\ Cat!BulkIsSequential /\ Cat!CapExcused /\ Cat!CeilingExcused
                           /\ Cat!EmptiedByMove /\ Cat!RescrapeOnce
  /\ part = "page" => Page!NothingSkipped /\ Page!ReturnedOnce
==============================================================================
