------------------------ MODULE EvidenceRetention ------------------------
(***************************************************************************)
(* The content-addressed store of raw pages                                *)
(* (app_shared/observations/evidence_store.py): the scrapers' flushes file *)
(* a page under its hash and commit an observation that names it; the      *)
(* daily sweep (tasks_maintenance.py, evidence_retention) removes blobs    *)
(* that are old and that no observation in its window names; retention     *)
(* drops the observations by whole partitions.  The store is a directory   *)
(* shared by every scraper process, and the sweep reads the directory, the *)
(* database and the directory again.  Time is counted in days.             *)
(***************************************************************************)
EXTENDS Integers, FiniteSets, FiniteSetsExt

CONSTANTS Hashes,        \* content addresses, natural numbers: directory order
          Writers,       \* flushes of the scraper processes
          EVIDENCE_DAYS, OBSERVATION_DAYS, PARTITION_DAYS, MAX_BLOBS,
          MaxClock, MaxStores

VARIABLES clock, final, tmp, writer, observations, sweep, last, stores

vars == <<clock, final, tmp, writer, observations, sweep, last, stores>>

Absent == [content |-> "absent", mtime |-> 0]
Idle == [at |-> "idle", h |-> 0, scraped |-> 0, handle |-> "none", found |-> FALSE]
Resting == [at |-> "resting", expired |-> {}, referenced |-> {}, todo |-> {},
            truncated |-> FALSE]

Init ==
    /\ clock = 0
    /\ final = [h \in Hashes |-> Absent]
    /\ tmp = [h \in Hashes |-> Absent]
    /\ writer = [w \in Writers |-> Idle]
    /\ observations = {}
    /\ sweep = Resting
    /\ last = [expired |-> {}, deleted |-> {}, truncated |-> FALSE]
    /\ stores = 0

(***************************************************************************)
(* store_evidence, under a flush (pipelines.py, _offer_evidence_hash): a   *)
(* blob that is there is not written again, so its mtime stays; otherwise  *)
(* the bytes go to <hash>.tmp, which every writer of the hash shares, and  *)
(* the file is renamed.  Opening truncates the file behind another         *)
(* writer's handle, and a handle follows its file through the rename.      *)
(***************************************************************************)
store_evidence(w, h) ==
    /\ writer[w].at = "idle"
    /\ stores < MaxStores
    /\ stores' = stores + 1
    /\ writer' = [writer EXCEPT ![w] =
           IF final[h].content # "absent"
           THEN [at |-> "stored", h |-> h, scraped |-> clock, handle |-> "none", found |-> TRUE]
           ELSE [at |-> "open", h |-> h, scraped |-> clock, handle |-> "none", found |-> FALSE]]
    /\ UNCHANGED <<clock, final, tmp, observations, sweep, last>>

OpenTmp(w) ==
    LET h == writer[w].h
    IN  /\ writer[w].at = "open"
        /\ tmp' = [tmp EXCEPT ![h] = [content |-> "partial", mtime |-> clock]]
        /\ writer' = [writer EXCEPT ![w].at = "write", ![w].handle = "tmp"]
        /\ UNCHANGED <<clock, final, observations, sweep, last, stores>>

WriteBytes(w) ==
    LET h == writer[w].h
        whole == [content |-> "whole", mtime |-> clock]
    IN  /\ writer[w].at = "write"
        /\ CASE writer[w].handle = "tmp" ->
                    tmp' = [tmp EXCEPT ![h] = whole] /\ UNCHANGED final
             [] writer[w].handle = "final" ->
                    final' = [final EXCEPT ![h] = whole] /\ UNCHANGED tmp
             [] writer[w].handle = "unlinked" -> UNCHANGED <<final, tmp>>
        /\ writer' = [writer EXCEPT ![w].at = "rename"]
        /\ UNCHANGED <<clock, observations, sweep, last, stores>>

(* The second rename of one .tmp finds no file: the flush fails.           *)
Rename(w) ==
    LET h == writer[w].h
        Moved(v) == IF writer[v].h = h /\ writer[v].handle # "none"
                    THEN CASE writer[v].handle = "tmp" -> "final"
                           [] OTHER -> "unlinked"
                    ELSE writer[v].handle
    IN  /\ writer[w].at = "rename"
        /\ IF tmp[h].content = "absent"
           THEN writer' = [writer EXCEPT ![w] = Idle] /\ UNCHANGED <<final, tmp>>
           ELSE /\ final' = [final EXCEPT ![h] = tmp[h]]
                /\ tmp' = [tmp EXCEPT ![h] = Absent]
                /\ writer' = [v \in Writers |->
                       IF v = w THEN [writer[w] EXCEPT !.at = "stored", !.handle = "none"]
                                ELSE [writer[v] EXCEPT !.handle = Moved(v)]]
        /\ UNCHANGED <<clock, observations, sweep, last, stores>>

(* The flush's transaction; the observation keeps the time of the scrape.  *)
CommitObservation(w) ==
    /\ writer[w].at = "stored"
    /\ observations' = observations \union
           {[h |-> writer[w].h, scraped |-> writer[w].scraped,
             late |-> sweep.at = "deleting" \/ final[writer[w].h].content = "absent"]}
    /\ writer' = [writer EXCEPT ![w] = Idle]
    /\ UNCHANGED <<clock, final, tmp, sweep, last, stores>>

(* A flush that fails, or a scraper that dies, at any step.                *)
Abandon(w) ==
    /\ writer[w].at # "idle"
    /\ writer' = [writer EXCEPT ![w] = Idle]
    /\ UNCHANGED <<clock, final, tmp, observations, sweep, last, stores>>

(***************************************************************************)
(* sweep_evidence_retention: the directory walk, the one reference query,  *)
(* and the deletions.  The walk is in directory order and starts at the    *)
(* beginning every time.                                                   *)
(***************************************************************************)
iter_stored_hashes == {h \in Hashes : final[h].content # "absent"}

Expired(h) == final[h].mtime < clock - EVIDENCE_DAYS

First(S, n) == {h \in S : Cardinality({g \in S : g < h}) < n}

ListExpired ==
    LET old == {h \in iter_stored_hashes : Expired(h)}
    IN  /\ sweep.at = "resting"
        /\ old # {}
        /\ sweep' = [at |-> "asking", expired |-> First(old, MAX_BLOBS), referenced |-> {},
                     todo |-> {}, truncated |-> Cardinality(old) > MAX_BLOBS]
        /\ UNCHANGED <<clock, final, tmp, writer, observations, last, stores>>

\* Mutant: the query asks for the blobs' own window.
_referenced_hashes_BlobWindow(hashes) ==
    {h \in hashes : \E o \in observations : o.h = h /\ o.scraped >= clock - EVIDENCE_DAYS}

_referenced_hashes(hashes) ==
    {h \in hashes : \E o \in observations : o.h = h /\ o.scraped >= clock - OBSERVATION_DAYS}

AskReferenced ==
    LET named == _referenced_hashes(sweep.expired)
    IN  /\ sweep.at = "asking"
        /\ sweep' = [sweep EXCEPT !.at = "deleting", !.referenced = named,
                                  !.todo = sweep.expired \ named]
        /\ UNCHANGED <<clock, final, tmp, writer, observations, last, stores>>

(* One unlink; a handle still open on the file writes to no path.          *)
Unlink(h) ==
    /\ sweep.at = "deleting"
    /\ h \in sweep.todo
    /\ final' = [final EXCEPT ![h] = Absent]
    /\ sweep' = [sweep EXCEPT !.todo = @ \ {h}]
    /\ writer' = [w \in Writers |-> IF writer[w].h = h /\ writer[w].handle = "final"
                                    THEN [writer[w] EXCEPT !.handle = "unlinked"]
                                    ELSE writer[w]]
    /\ UNCHANGED <<clock, tmp, observations, last, stores>>

EndSweep ==
    /\ sweep.at = "deleting"
    /\ sweep.todo = {}
    /\ last' = [expired |-> sweep.expired, deleted |-> sweep.expired \ sweep.referenced,
                truncated |-> sweep.truncated]
    /\ sweep' = Resting
    /\ UNCHANGED <<clock, final, tmp, writer, observations, stores>>

(***************************************************************************)
(* retention_drop: the partitions whose whole range is past the window.    *)
(***************************************************************************)
partition_eligible(p) == (p + 1) * PARTITION_DAYS <= clock - OBSERVATION_DAYS

retention_drop ==
    LET gone == {o \in observations : partition_eligible(o.scraped \div PARTITION_DAYS)}
    IN  /\ gone # {}
        /\ observations' = observations \ gone
        /\ UNCHANGED <<clock, final, tmp, writer, sweep, last, stores>>

Tick ==
    /\ clock < MaxClock
    /\ clock' = clock + 1
    /\ UNCHANGED <<final, tmp, writer, observations, sweep, last, stores>>

Next ==
    \/ \E w \in Writers, h \in Hashes : store_evidence(w, h)
    \/ \E w \in Writers : \/ OpenTmp(w) \/ WriteBytes(w) \/ Rename(w)
                          \/ CommitObservation(w) \/ Abandon(w)
    \/ ListExpired \/ AskReferenced \/ EndSweep
    \/ \E h \in Hashes : Unlink(h)
    \/ retention_drop
    \/ Tick

Spec == Init /\ [][Next]_vars

InWindow(o) == o.scraped >= clock - OBSERVATION_DAYS
Dangling(o) == final[o.h].content = "absent"

(* An observation in its window whose page is gone was committed while a   *)
(* sweep that had already asked was deleting, or after it: one committed   *)
(* before the sweep's question keeps its page for the whole window, though *)
(* the blob is older than its own retention and the partitions are dropped *)
(* on another clock.                                                       *)
LostOnlyToARace == \A o \in observations : InWindow(o) /\ Dangling(o) => o.late

(* What the retention policy says (docs/RETENTION_POLICY.md, section 2.1): *)
(* a hash named by an observation still in its window is not deleted.      *)
EvidenceKept == \A o \in observations : InWindow(o) => ~Dangling(o)

(* What store_evidence's comment says: no reader sees a half-written blob. *)
NeverPartial == \A h \in Hashes : final[h].content # "partial"

(* What the report's `truncated` says: the next tick continues where the   *)
(* truncated one stopped, so it does not look at the same blobs again.     *)
NextSweepContinues ==
    sweep.at = "asking" /\ last.truncated /\ last.expired # {} => sweep.expired # last.expired
=============================================================================
