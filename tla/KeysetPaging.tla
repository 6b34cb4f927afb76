---------------------------- MODULE KeysetPaging ----------------------------
(***************************************************************************)
(* Cursor pagination (app_shared/pagination.py) under the list endpoints   *)
(* of the API: a client walks a table page by page over (created_at, id)   *)
(* while other requests insert, change and delete rows.  A row takes its   *)
(* created_at when it is flushed and is visible only when its transaction  *)
(* commits, ties are common (one bulk upsert), and each page is a read of  *)
(* its own; the second read of an endpoint that joins in Python is later   *)
(* still.                                                                  *)
(***************************************************************************)
EXTENDS Integers, FiniteSets, Sequences, SequencesExt

CONSTANTS Rows,         \* row ids, natural numbers: the order of the uuid column
          Parents,      \* the rows a listed row refers to (its competitor)
          Limits,       \* requested page sizes, 0 standing for none given
          MaxClock, MaxChanges

VARIABLES row, parent, clock, walk, changes, steady

vars == <<row, parent, clock, walk, changes, steady>>

DEFAULT_LIMIT == 2      \* 50 in the code
MAX_LIMIT == 3          \* 500 in the code
NoCursor == <<-1, 0>>
Unused == [at |-> "unused"]
Gone == [at |-> "gone"]
Idle == [at |-> "idle"]
There(r) == row[r].at = "committed"
Asc(S) == SetToSortSeq(S, LAMBDA a, b : row[a].created < row[b].created
                                       \/ (row[a].created = row[b].created /\ a < b))

(***************************************************************************)
(* pagination.py                                                           *)
(***************************************************************************)
clamp_limit(requested) ==
    LET limit == IF requested = 0 THEN DEFAULT_LIMIT ELSE requested
    IN  IF limit > MAX_LIMIT THEN MAX_LIMIT ELSE limit

encode_cursor(r) == <<row[r].created, r>>

\* Mutant: the seek compares the timestamps alone.
keyset_predicate_TimeOnly(r, after) == row[r].created > after[1]

\* Mutant: the seek takes the cursor's row again.
keyset_predicate_OrEqual(r, after) ==
    \/ row[r].created > after[1]
    \/ row[r].created = after[1] /\ r >= after[2]

keyset_predicate(r, after) ==
    \/ row[r].created > after[1]
    \/ row[r].created = after[1] /\ r > after[2]

(* limit + 1 rows were fetched; the extra one proves another page.         *)
paginate(rows, limit) ==
    IF Len(rows) > limit
    THEN [items |-> SubSeq(rows, 1, limit), next |-> encode_cursor(rows[limit])]
    ELSE [items |-> rows, next |-> NoCursor]

(***************************************************************************)
(* The endpoints: what they select                                         *)
(***************************************************************************)
list_products(r) == TRUE
list_matches(r) == row[r].parent = CHOOSE p \in Parents : \A q \in Parents : p <= q
list_current_alerts(r) == row[r].status = "ACTIVE"
list_all_competitor_prices(r) == row[r].status # "ARCHIVED"

Endpoints == {"products", "matches", "alerts", "prices"}
Selects(e, r) ==
    CASE e = "products" -> list_products(r)
      [] e = "matches" -> list_matches(r)
      [] e = "alerts" -> list_current_alerts(r)
      [] e = "prices" -> list_all_competitor_prices(r)

Visible(e) == {r \in Rows : There(r) /\ Selects(e, r)}

(***************************************************************************)
(* Actions                                                                 *)
(***************************************************************************)
Init ==
    /\ row = [r \in Rows |-> Unused]
    /\ parent = [p \in Parents |-> TRUE]
    /\ clock = 0 /\ walk = Idle /\ changes = 0 /\ steady = {}

(* What the walk may rely on: the rows visible ever since it began.        *)
Steady == steady' = IF walk = Idle THEN {} ELSE
            {r \in steady : row'[r].at = "committed" /\ row'[r].status = row[r].status}

Tick == clock < MaxClock /\ clock' = clock + 1 /\ UNCHANGED <<row, parent, walk, changes, steady>>

Insert(r) ==
    /\ row[r] = Unused /\ changes < MaxChanges
    /\ \E p \in Parents : parent[p] /\ row' = [row EXCEPT ![r] =
         [at |-> "flushed", created |-> clock, status |-> "ACTIVE", parent |-> p]]
    /\ changes' = changes + 1 /\ Steady /\ UNCHANGED <<parent, clock, walk>>

(* The foreign key holds the parent while a flushed row refers to it.      *)
Commits(r) ==
    /\ row[r].at = "flushed"
    /\ row' = [row EXCEPT ![r].at = "committed"]
    /\ Steady /\ UNCHANGED <<parent, clock, walk, changes>>

Archive(r) ==
    /\ There(r) /\ row[r].status = "ACTIVE" /\ changes < MaxChanges
    /\ row' = [row EXCEPT ![r].status = "ARCHIVED"]
    /\ changes' = changes + 1 /\ Steady /\ UNCHANGED <<parent, clock, walk>>

delete_match(r) ==
    /\ There(r) /\ changes < MaxChanges
    /\ row' = [row EXCEPT ![r] = Gone]
    /\ changes' = changes + 1 /\ Steady /\ UNCHANGED <<parent, clock, walk>>

delete_competitor(p) ==
    /\ parent[p] /\ \A r \in Rows : row[r].at \in {"flushed", "committed"} => row[r].parent # p
    /\ changes < MaxChanges
    /\ parent' = [parent EXCEPT ![p] = FALSE]
    /\ changes' = changes + 1 /\ UNCHANGED <<row, clock, walk, steady>>

StartWalk(e) ==
    /\ walk = Idle
    /\ \E n \in Limits : walk' = [at |-> "page", e |-> e, limit |-> clamp_limit(n),
                                  after |-> NoCursor, got |-> <<>>, page |-> <<>>, missed |-> FALSE]
    /\ steady' = Visible(e)
    /\ UNCHANGED <<row, parent, clock, changes>>

Fetched == LET all == Asc({r \in Visible(walk.e) :
                             walk.after = NoCursor \/ keyset_predicate(r, walk.after)})
           IN  SubSeq(all, 1, IF Len(all) < walk.limit + 1 THEN Len(all) ELSE walk.limit + 1)

(* One request: the page, and for the price list a second read after it.   *)
Page ==
    /\ walk.at = "page"
    /\ LET envelope == paginate(Fetched, walk.limit)
       IN  walk' = [walk EXCEPT !.at = IF walk.e = "prices" /\ envelope.items # <<>> THEN "stitch"
                                       ELSE IF envelope.next = NoCursor THEN "done" ELSE "page",
                                !.got = @ \o envelope.items, !.after = envelope.next,
                                !.page = [i \in DOMAIN envelope.items |-> row[envelope.items[i]].parent]]
    /\ UNCHANGED <<row, parent, clock, changes, steady>>

_stitch_competitor_prices ==
    /\ walk.at = "stitch"
    /\ walk' = [walk EXCEPT !.at = IF walk.after = NoCursor THEN "done" ELSE "page",
                            !.missed = @ \/ \E i \in DOMAIN walk.page : ~ parent[walk.page[i]]]
    /\ UNCHANGED <<row, parent, clock, changes, steady>>

Next ==
    \/ Tick \/ Page \/ _stitch_competitor_prices
    \/ \E r \in Rows : Insert(r) \/ Commits(r) \/ Archive(r) \/ delete_match(r)
    \/ \E p \in Parents : delete_competitor(p)
    \/ \E e \in Endpoints : StartWalk(e)

Spec == Init /\ [][Next]_vars

(***************************************************************************)
(* Properties                                                              *)
(***************************************************************************)
(* A finished walk has returned every row that was there, and selected,    *)
(* from its first page to its last, whatever the rows around it did: ties  *)
(* in created_at, deletions of the row a cursor names, late commits.       *)
NothingSkipped == walk.at = "done" => steady \subseteq {walk.got[i] : i \in DOMAIN walk.got}

(* No walk returns a row twice, even one whose page was cut by a tie.      *)
ReturnedOnce ==
    walk # Idle => \A i, j \in DOMAIN walk.got : i # j => walk.got[i] # walk.got[j]

(* variants.py, on the competitor's name of a match: "a miss is            *)
(* impossible" because competitor_id is a foreign key.                     *)
StitchNeverMisses == walk # Idle => ~ walk.missed
=============================================================================
