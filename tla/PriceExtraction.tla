-------------------------- MODULE PriceExtraction --------------------------
(***************************************************************************)
(* From a fetched page to a price row: the strategies (JSON-LD, embedded   *)
(* JSON, CSS, regex), the first-hit chain and the candidate ranker that is *)
(* to replace it, the shadow comparison between the two, validation, and   *)
(* the persistence flush that writes the prices and, in the same           *)
(* transaction, the shadow events drained from a process-wide buffer.      *)
(* A page gives each strategy a sequence of documents (script blocks,      *)
(* embedded documents, selected nodes, text nodes).  Identity is the       *)
(* currency: no caller passes typed identifiers to the ranker.             *)
(***************************************************************************)
EXTENDS Integers, Sequences, FiniteSets, SequencesExt

CONSTANTS Pages,          \* [jsonld, embedded, css, regex |-> documents, pattern |-> Patterns]
          ConfRules,      \* confidence per method after the profile's overlay
          Modes, Preferred,
          MaxPages, SHADOW_BUFFER_MAX_EVENTS

VARIABLES mode, conf,
          last,           \* the page in hand: what was parsed last, until a flush
          batch, flight, spool, shadow, dropped, lost, rows, events, parsed,
          disagreed       \* history: the pages whose disagreement was recorded

vars == <<mode, conf, last, batch, flight, spool, shadow, dropped, lost, rows, events, parsed, disagreed>>

Patterns == {"none", "safe", "unsafe", "quarantined"}
NoPage == [jsonld |-> <<>>, embedded |-> <<>>, css |-> <<>>, regex |-> <<>>, pattern |-> "none"]
Unreadable == -1        \* price text that does not parse
Nothing == [price |-> Unreadable, cur |-> "", m |-> "NONE", conf |-> 0]
Idle == [page |-> NoPage, preferred |-> "NONE", hit |-> Nothing]
MinConf == 75           \* DEFAULT_MIN_ACCEPTED_CONFIDENCE, in hundredths

tier == [CSS |-> 40, EMBEDDED_JSON |-> 30, JSON_LD |-> 20, REGEX |-> 10, SINGLE_NUMBER |-> 10]

Reading(doc, m, c) == [price |-> doc.price, cur |-> doc.cur, m |-> m, conf |-> c[m]]
FirstOf(docs, kinds) ==
  LET at == {i \in DOMAIN docs : docs[i].kind \in kinds}
  IN  CHOOSE i \in at : \A j \in at : i <= j
Has(docs, kinds) == \E i \in DOMAIN docs : docs[i].kind \in kinds

(***************************************************************************)
(* The strategies                                                          *)
(***************************************************************************)
\* The first script block that holds a product with a priced offer.
extract_jsonld(page, c) ==
  IF Has(page.jsonld, {"offer"})
  THEN Reading(page.jsonld[FirstOf(page.jsonld, {"offer"})], "JSON_LD", c) ELSE Nothing

\* The first document whose price pointer resolves; failing that, a document that says the
\* item is out of stock gives a candidate of price zero.
extract_embedded_json(page, c) ==
  IF Has(page.embedded, {"offer"})
  THEN Reading(page.embedded[FirstOf(page.embedded, {"offer"})], "EMBEDDED_JSON", c)
  ELSE IF Has(page.embedded, {"oos"})
  THEN [Reading(page.embedded[FirstOf(page.embedded, {"oos"})], "EMBEDDED_JSON", c)
          EXCEPT !.price = 0]
  ELSE Nothing

\* The first selected node only: an empty one ends the strategy.
extract_css(page, c) ==
  IF page.css # <<>> /\ page.css[1].kind = "offer" THEN Reading(page.css[1], "CSS", c) ELSE Nothing

\* The page holds exactly one bare number.
_extract_single_number(page, c) ==
  LET numbers == {i \in DOMAIN page.regex : page.regex[i].kind \in {"offer", "number"}}
  IN  IF Cardinality(numbers) # 1 THEN Nothing
      ELSE [Reading(page.regex[CHOOSE i \in numbers : TRUE], "SINGLE_NUMBER", c) EXCEPT !.cur = ""]

\* Text nodes in order until one matches; a node that exhausts the deadline costs the page its
\* regex reading, the bare number included.
_extract_via_price_regex(page, c) ==
  IF ~Has(page.regex, {"offer", "slow"}) THEN _extract_single_number(page, c)
  ELSE LET d == page.regex[FirstOf(page.regex, {"offer", "slow"})]
       IN  IF d.kind = "slow" THEN Nothing ELSE Reading(d, "REGEX", c)

extract_regex(page, c) ==
  IF page.pattern \in {"none", "quarantined"} THEN _extract_single_number(page, c)
  ELSE _extract_via_price_regex(page, c)

Chain == <<"JSON_LD", "EMBEDDED_JSON", "CSS", "REGEX">>

\* Mutant: the preferred strategy replaces the chain.
_ordered_strategies_Only(preferred) ==
  IF preferred = "NONE" THEN Chain ELSE <<IF preferred = "SINGLE_NUMBER" THEN "REGEX" ELSE preferred>>

\* The preferred strategy first, then the others in the chain's order.
_ordered_strategies(preferred) ==
  LET first == IF preferred = "SINGLE_NUMBER" THEN "REGEX" ELSE preferred
  IN  IF first \notin Range(Chain) THEN Chain
      ELSE <<first>> \o SelectSeq(Chain, LAMBDA s : s # first)

Run(s, page, c) ==
  CASE s = "JSON_LD" -> extract_jsonld(page, c)
    [] s = "EMBEDDED_JSON" -> extract_embedded_json(page, c)
    [] s = "CSS" -> extract_css(page, c)
    [] s = "REGEX" -> extract_regex(page, c)

first_reading(produced) ==
  LET hits == SelectSeq(produced, LAMBDA r : r # Nothing)
  IN  IF hits = <<>> THEN Nothing ELSE hits[1]

first_hit(page, preferred, c) ==
  LET order == _ordered_strategies(preferred)
  IN  first_reading([i \in DOMAIN order |-> Run(order[i], page, c)])

(***************************************************************************)
(* The ranker                                                              *)
(***************************************************************************)
\* A pattern of a dangerous shape is refused before it runs.
_bounded_extract_regex(page, c) == IF page.pattern = "unsafe" THEN Nothing ELSE extract_regex(page, c)

\* An unreadable price becomes a rejection, not a candidate.
candidate_from_extraction(r) == r # Nothing /\ r.price # Unreadable

collect_candidates(produced) == SelectSeq(produced, candidate_from_extraction)

collect_extraction_candidates(page, preferred, c) ==
  LET order == _ordered_strategies(preferred)
  IN  collect_candidates([i \in DOMAIN order |->
        IF order[i] = "REGEX" THEN _bounded_extract_regex(page, c) ELSE Run(order[i], page, c)])

conflicts_with(a, b) == a.cur # "" /\ b.cur # "" /\ a.cur # b.cur

\* 5 units, or 5 in a hundred of the lower price.
_within_tolerance(p, q) ==
  LET lo == IF p < q THEN p ELSE q
      d  == IF p < q THEN q - p ELSE p - q
  IN  d <= 5 \/ (lo > 0 /\ 100 * d <= 5 * lo)

Precedes(a, b) ==
  \/ tier[a.m] > tier[b.m]
  \/ tier[a.m] = tier[b.m] /\ a.conf > b.conf
  \/ tier[a.m] = tier[b.m] /\ a.conf = b.conf /\ a.price < b.price
_canonical_sort_key(cands) == SortSeq(cands, Precedes)

\* Mutant: the survivors are grouped as they were collected, whoever contradicts nobody too.
_identity_groups_Arrival(cands) ==
  LET place(groups, r) ==
        LET ok == {i \in DOMAIN groups : \A j \in DOMAIN groups[i] : ~conflicts_with(r, groups[i][j])}
        IN  IF ok = {} THEN Append(groups, <<r>>)
            ELSE [groups EXCEPT ![CHOOSE i \in ok : \A j \in ok : i <= j] = Append(@, r)]
  IN  FoldLeft(place, <<>>, cands)

\* The contradicted readings form the groups; each other joins the one largest group, or stands
\* alone when there is no one largest.
_identity_groups(cands) ==
  LET ordered == _canonical_sort_key(cands)
      contradicted(r) == \E i \in DOMAIN ordered : conflicts_with(r, ordered[i])
      place(groups, r) ==
        LET ok == {i \in DOMAIN groups : \A j \in DOMAIN groups[i] : ~conflicts_with(r, groups[i][j])}
        IN  IF ok = {} THEN Append(groups, <<r>>)
            ELSE [groups EXCEPT ![CHOOSE i \in ok : \A j \in ok : i <= j] = Append(@, r)]
      attach(groups, r) ==
        LET big == {i \in DOMAIN groups : \A j \in DOMAIN groups : Len(groups[i]) >= Len(groups[j])}
        IN  IF Cardinality(big) = 1 THEN [groups EXCEPT ![CHOOSE i \in big : TRUE] = Append(@, r)]
            ELSE Append(groups, <<r>>)
      built == FoldLeft(place, <<>>, SelectSeq(ordered, contradicted))
      free  == SelectSeq(ordered, LAMBDA r : ~contradicted(r))
  IN  IF built = <<>> THEN <<free>> ELSE FoldLeft(attach, built, free)

\* Mutant: the freshest reading of the consensus wins whatever the others say.
Diverges_Never(group) == FALSE

\* Some two readings of the consensus differ materially.
Diverges(group) ==
  \E i, j \in DOMAIN group : ~_within_tolerance(group[i].price, group[j].price)

\* The consensus gives its best reading, unless its readings differ materially.
settle(consensus) ==
  IF Diverges(consensus) THEN [kind |-> "conflict", win |-> Nothing]
  ELSE [kind |-> "winner",
        win |-> SortSeq(consensus, LAMBDA a, b : tier[a.m] > tier[b.m]
                                    \/ (tier[a.m] = tier[b.m] /\ a.conf > b.conf))[1]]

\* The one largest group is the consensus.
elect(groups) ==
  LET largest == {i \in DOMAIN groups : \A j \in DOMAIN groups : Len(groups[i]) >= Len(groups[j])}
  IN  IF Cardinality(largest) > 1 THEN [kind |-> "conflict", win |-> Nothing]
      ELSE settle(groups[CHOOSE i \in largest : TRUE])

rank(cands) ==
  LET surviving == SelectSeq(cands, LAMBDA r : r.conf >= MinConf)
  IN  IF surviving = <<>> THEN [kind |-> "no_valid", win |-> Nothing]
      ELSE elect(_identity_groups(surviving))

extract_ranked(page, preferred, c) == rank(collect_extraction_candidates(page, preferred, c))

\* What the shadow comparison calls a material disagreement.
_shadow_disagreement(hit, ranked) ==
  LET f == hit.price # Unreadable
      w == ranked.kind = "winner"
  IN  \/ f # w
      \/ f /\ w /\ ~_within_tolerance(hit.price, ranked.win.price)
      \/ f /\ w /\ conflicts_with(hit, ranked.win)

extract(page, preferred, c, md) ==
  IF md = "v1" THEN extract_ranked(page, preferred, c).win ELSE first_hit(page, preferred, c)

\* No price, a price of zero, too low a confidence: a failure row.
validate_candidate(r) == r.price > 0 /\ r.conf >= MinConf

(***************************************************************************)
(* Actions                                                                 *)
(***************************************************************************)
Init ==
  /\ mode \in Modes /\ conf \in ConfRules
  /\ last = Idle
  /\ batch = {} /\ flight = {} /\ spool = {} /\ shadow = <<>> /\ dropped = 0 /\ lost = {}
  /\ rows = {} /\ events = {} /\ parsed = 0 /\ disagreed = {}

\* Mutant: the oldest event is pushed out unseen.
record_shadow_event_Silent(e) ==
  /\ shadow' = IF Len(shadow) = SHADOW_BUFFER_MAX_EVENTS THEN Append(Tail(shadow), e) ELSE Append(shadow, e)
  /\ UNCHANGED dropped

record_shadow_event(e) ==
  IF Len(shadow) = SHADOW_BUFFER_MAX_EVENTS
  THEN /\ dropped' = dropped + 1
       /\ shadow' = Append(Tail(shadow), e)
  ELSE /\ shadow' = Append(shadow, e)
       /\ UNCHANGED dropped

\* The spider parses a page on the reactor thread; its result waits for the next flush.
parse ==
  /\ parsed < MaxPages
  /\ \E page \in Pages, preferred \in Preferred :
       LET hit == extract(page, preferred, conf, mode) IN
       /\ last' = [page |-> page, preferred |-> preferred, hit |-> hit]
       /\ IF mode = "shadow" /\ _shadow_disagreement(hit, extract_ranked(page, preferred, conf))
          THEN /\ record_shadow_event(parsed + 1)
               /\ disagreed' = disagreed \cup {parsed + 1}
          ELSE UNCHANGED <<shadow, dropped, disagreed>>
  /\ parsed' = parsed + 1
  /\ batch' = batch \cup {parsed + 1}
  /\ UNCHANGED <<mode, conf, flight, spool, lost, rows, events>>

drain_shadow_events == Range(shadow)

\* The reactor hands the buffered items, or spooled ones, to a thread and goes on parsing.
_flush ==
  /\ batch # {} /\ flight = {} /\ last' = Idle
  /\ flight' = batch /\ batch' = {}
  /\ UNCHANGED <<mode, conf, spool, shadow, dropped, lost, rows, events, parsed, disagreed>>

_replay_rows ==
  /\ spool # {} /\ flight = {} /\ last' = Idle
  /\ flight' = spool /\ spool' = {}
  /\ UNCHANGED <<mode, conf, batch, shadow, dropped, lost, rows, events, parsed, disagreed>>

\* The transaction commits the batch, and whatever the buffer held when it came to it.
_flush_batch ==
  /\ flight # {} /\ last' = Idle
  /\ rows' = rows \cup flight /\ flight' = {}
  /\ events' = events \cup drain_shadow_events /\ shadow' = <<>>
  /\ UNCHANGED <<mode, conf, batch, spool, dropped, lost, parsed, disagreed>>

\* The transaction fails, before the drain or after it: the drained events roll back with the
\* batch, which stays in the spool.
_on_flush_failure ==
  /\ flight # {} /\ last' = Idle
  /\ spool' = spool \cup flight /\ flight' = {}
  /\ \/ UNCHANGED <<shadow, lost>>
     \/ lost' = lost \cup drain_shadow_events /\ shadow' = <<>>
  /\ UNCHANGED <<mode, conf, batch, dropped, rows, events, parsed, disagreed>>

Next == parse \/ _flush \/ _replay_rows \/ _flush_batch \/ _on_flush_failure

Spec == Init /\ [][Next]_vars

-----------------------------------------------------------------------------
Collected == collect_extraction_candidates(last.page, last.preferred, conf)
Perms(s) == {[i \in DOMAIN s |-> s[p[i]]] : p \in {f \in [DOMAIN s -> DOMAIN s] : IsInjective(f)}}

\* The ranker's verdict is a function of the set of readings, never of the order in which the
\* strategies ran, so preferring a method cannot change it.  (Which document a strategy reads
\* is decided by their order in the page, before the ranker.)
OrderIndependent ==
  \A cands \in {Collected} : \A s \in Perms(cands) : rank(s) = rank(cands)

\* The accepted readings of the winner's currency agree, and no other currency has as many.
DissentSaid(cands, v) ==
  LET ok == {i \in DOMAIN cands : cands[i].conf >= MinConf}
      of(cur) == {i \in ok : cands[i].cur = cur}
      mine == IF v.win.cur = "" THEN {} ELSE of(v.win.cur)
      readings == mine \cup of("")
  IN  (v.kind = "winner" /\ mine # {}) =>
        /\ \A i, j \in readings : _within_tolerance(cands[i].price, cands[j].price)
        /\ \A cur \in {cands[i].cur : i \in ok} \ {"", v.win.cur} :
             Cardinality(of(cur)) < Cardinality(mine)

\* A winner has no silent dissent: no accepted reading of its currency, or of none, differs
\* materially from another such reading, and no other currency has as many readings.
NoSilentDissent ==
  \A cands \in {Collected} : \A v \in {rank(cands)} : DissentSaid(cands, v)

\* Preferring a learned method only reorders the chain: a page on which some strategy reads
\* something never comes back empty.
PreferredOnlyReorders ==
  mode # "v1" => ((last.hit = Nothing) <=> (first_hit(last.page, "NONE", conf) = Nothing))

\* Every disagreement is in one place: written, waiting, rolled back with the transaction that
\* drained it ("a flush that rolls back takes its measurements with it", pipelines.py), or
\* counted as dropped, and then it is older than all that wait.  No event is written twice,
\* whatever is replayed.
EventsAccounted ==
  LET waiting == Range(shadow)
      gone == disagreed \ (events \cup lost \cup waiting)
  IN  /\ events \cap lost = {} /\ (events \cup lost) \cap waiting = {}
      /\ Len(shadow) = Cardinality(waiting)
      /\ Cardinality(gone) = dropped
      /\ \A d \in gone, w \in waiting : d < w

\* What the comment on the drain says: a recorded disagreement is about a price that exists.
EventHasPrice == events \subseteq rows

\* What shadow_events_dropped says of lost events, "Reported, never silent": an event that
\* rolled back with its transaction is in no count.
LostIsReported == Cardinality(lost) <= dropped

\* What extract says of a learned method: no price is lost that the default order would find.
PreferredLosesNoPrice ==
  mode # "v1" => (validate_candidate(first_hit(last.page, "NONE", conf)) => validate_candidate(last.hit))
=============================================================================
