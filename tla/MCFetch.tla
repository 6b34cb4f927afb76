------------------------------- MODULE MCFetch -------------------------------
(* The fetching of a page checked on small instances: the network ledger the
  engine keeps of it, whether an attempt may be paid for, the breaker over
  paid traffic, the admission of a request, the browser that may serve it, the
  price and the offer read off the answer, the policy the target resolves to
  and the evidence kept. One part runs in a behaviour; the variables of a part
  other than ledger are the registers, in the order of its VARIABLES. *)
EXTENDS LedgerRecorder, TLC

CONSTANTS Pair, OtherPair

VARIABLES part, v1, v2, v3, v4, v5, v6, v7, v8, v9, v10, v11, v12, v13, v14, v15, v16

\* The access policies a target may have.
P(s, first, retry, br, n) ==
  [strategy |-> s, proxyFirst |-> first, proxyRetry |-> retry, browser |-> br, retries |-> n]
PoliciesOffered ==
  {P("DIRECT_ONLY", FALSE, FALSE, TRUE, 1), P("DIRECT_THEN_PROXY", TRUE, TRUE, TRUE, 0),
   P("PROXY_FIRST", TRUE, TRUE, TRUE, 1), P("BROWSER_FALLBACK", FALSE, FALSE, FALSE, 1)}

\* A learned first method is at hand where the policy alone would not pay at once, and
\* one of the targets pays from its first attempt on.
Hinted(tgt) ==
  /\ \A t \in DOMAIN tgt : (tgt[t].start = None) = tgt[t].policy.proxyFirst
  /\ \E t \in DOMAIN tgt : tgt[t].policy.strategy = "PROXY_FIRST"

\* The pages a browser fetches: two hosts, one of them document-only.
PageOf(h, p, s, c) == [host |-> h, provider |-> p, sticky |-> s, certified |-> c]
PagesFetched == {PageOf("shop", "none", 0, TRUE), PageOf("shop", "p1", 1, FALSE),
                 PageOf("mart", "p2", 1, FALSE)}

\* The documents a price is read from, and pages of them: pages on which every
\* strategy may read something of its own, and pages of several documents, of
\* unreadable prices, of stock only and of slow patterns.
Doc(k, p, c) == [kind |-> k, price |-> p, cur |-> c]
Prices == {Doc("offer", p, c) : p \in {100, 104, 109}, c \in {"SAR", "USD"}}
Few == {Doc("offer", 100, "SAR"), Doc("offer", 200, "SAR"), Doc("offer", -1, "")}
Junk == Doc("junk", 0, "")
Oos == Doc("oos", 0, "SAR")
Slow == Doc("slow", 0, "")
Number == Doc("number", 150, "")
Page(j, e, c, r, pat) == [jsonld |-> j, embedded |-> e, css |-> c, regex |-> r, pattern |-> pat]
UpTo1(S) == {<<>>} \cup {<<d>> : d \in S}
PricePages ==
  {Page(j, e, c, r, "safe") : j \in UpTo1(Prices), e \in UpTo1(Prices), c \in UpTo1(Prices), r \in UpTo1(Prices)}
  \cup {Page(j, e, c, r, pat) :
          j \in UpTo1(Few) \cup {<<Junk, Doc("offer", 200, "SAR")>>},
          e \in UpTo1({Oos}) \cup {<<Oos, d>> : d \in Few} \cup {<<Junk, Oos>>, <<Doc("offer", 100, "USD")>>},
          c \in UpTo1(Few) \cup {<<Junk, Doc("offer", 200, "SAR")>>},
          r \in UpTo1({Number, Slow}) \cup {<<Number, Number>>} \cup {<<Slow, d>> : d \in Few}
                \cup {<<Junk, d>> : d \in Few} \cup {<<d, Slow>> : d \in Few},
          pat \in {"safe", "unsafe", "quarantined"}}
\* A page the two extraction paths agree on and one they do not.
ShadowPages == {Page(<<Doc("offer", 100, "SAR")>>, <<>>, c, <<>>, "none") :
                  c \in {<<>>, <<Doc("offer", 200, "SAR")>>}}
Defaults == [JSON_LD |-> 95, EMBEDDED_JSON |-> 90, CSS |-> 85, REGEX |-> 75, SINGLE_NUMBER |-> 40]

\* What a shop answers to an adapter: products, listings, pages and nonsense.
Vals == {"1", "2"}
Opt == Vals \cup {"-"}
V(i, s, b, p) == [id |-> i, sku |-> s, barcode |-> b, priced |-> p]
Variants ==
  {{V("1", s, b, TRUE)} : s \in Opt, b \in Opt} \cup {{V("1", "2", "-", FALSE)}, {}}
  \cup {{V("1", s, b, TRUE), V("2", u, c, TRUE)} : s \in Opt, b \in Opt, u \in Opt, c \in Opt}
  \cup {{V("8", s, "-", TRUE), V("9", u, c, TRUE)} : s \in Opt, u \in Opt, c \in Opt}
ProductDocs == {[kind |-> "product", handle |-> "h", variants |-> vs] : vs \in Variants}
               \cup {[kind |-> "product", handle |-> "other", variants |-> {V("1", "-", "-", TRUE)}]}
Url(h, r, i) == [host |-> h, root |-> r, id |-> i]
Urls == {Url("own", FALSE, i) : i \in Opt \cup {"h"}} \cup {Url("own", TRUE, "-"), Url("else", FALSE, "h")}
Item(i, s, p, u) == [id |-> i, sku |-> s, priced |-> p, url |-> u]
Listed == {Item(i, s, TRUE, u) : i \in Vals, s \in {"-", "2"}, u \in {Url("own", FALSE, "1"), Url("own", FALSE, "2")}}
          \cup {Item("1", "-", FALSE, Url("else", FALSE, "1"))}
ListingDocs == {[kind |-> "items", items |-> s, ruled |-> r] : r \in BOOLEAN,
                  s \in {<<>>} \cup {<<x>> : x \in Listed} \cup {<<x, y>> : x \in Listed, y \in Listed}}
OtherDocs == {[kind |-> "page", url |-> u, priced |-> p, ruled |-> r] : u \in Urls, p, r \in BOOLEAN}
             \cup {[kind |-> k] : k \in {"error", "404", "junk"}}

Sale == INSTANCE LedgerRecorder WITH
    ledger <- v1, accrued <- v2, child <- v3, buf <- v4, phase <- v5, owner <- v6,
    intents <- v7, flush <- v8, fails <- v9, crashes <- v10, overlapped <- v11,
    Ops <- {"a"}, Pages <- {"a"}, Priced <- {"a"}, MaxFails <- 1, MaxCrashes <- 1
Access == INSTANCE AccessDecision WITH
    tgt <- v1, count <- v2, cooling <- v3, used <- v4, redis <- v5, open <- v6,
    provider <- v7, windows <- v8, months <- v9, paid <- v10, last <- v11,
    Targets <- Pair, Policies <- PoliciesOffered, Starts <- {None, "PROXY_HTTP"},
    Ceiling <- 1, Cooldown <- FALSE, Budget <- 1, FailOpen <- FALSE, MaxWindows <- 2,
    MaxMonths <- 2
Breaker == INSTANCE ProxyBreaker WITH
    now <- v1, row <- v2, ev <- v3, gate <- v4, hot <- v5, resets <- v6, opened <- v7,
    allowed <- v8, Evaluators <- Pair, Gates <- {"g1"}, Interval <- 1, Cooldown <- 3,
    Cache <- 2, MaxAge <- 2, MaxEval <- 1, MaxNow <- 5, MaxResets <- 1
Admit == INSTANCE Admission WITH
    row <- v1, run <- v2, pending <- v3, task <- v4, slot <- v5, lease <- v6,
    lock <- v7, defers <- v8, crashes <- v9, lapses <- v10, overran <- v11,
    Runs <- Pair, Matches <- OtherPair, Nobody <- None, Slots <- 2, Leases <- 1,
    MaxTries <- 1, MaxRequeues <- 0, MaxDefers <- 0, MaxCrashes <- 1, MaxLapses <- 1
Browser == INSTANCE BrowserFetch WITH
    target <- v1, pc <- v2, ctxs <- v3, pool <- v4, lock <- v5, closing <- v6,
    hung <- v7, op <- v8, profiles <- v9, rejected <- v10, cause <- v11, res <- v12,
    passed <- v13, under <- v14, leaked <- v15, over <- v16, Requests <- Pair,
    Targets <- PagesFetched, ListedHosts <- {"shop"}, MaxContexts <- 1, MaxPages <- 1
Price == INSTANCE PriceExtraction WITH
    mode <- v1, conf <- v2, last <- v3, batch <- v4, flight <- v5, spool <- v6,
    shadow <- v7, dropped <- v8, lost <- v9, rows <- v10, events <- v11, parsed <- v12,
    disagreed <- v13, Pages <- PricePages,
    ConfRules <- {Defaults, [Defaults EXCEPT !.SINGLE_NUMBER = 80, !.JSON_LD = 60]},
    Modes <- {"shadow"}, Preferred <- {"EMBEDDED_JSON"}, MaxPages <- 1,
    SHADOW_BUFFER_MAX_EVENTS <- 1
Shadow == INSTANCE PriceExtraction WITH
    mode <- v1, conf <- v2, last <- v3, batch <- v4, flight <- v5, spool <- v6,
    shadow <- v7, dropped <- v8, lost <- v9, rows <- v10, events <- v11, parsed <- v12,
    disagreed <- v13, Pages <- ShadowPages, ConfRules <- {Defaults},
    Modes <- {"off", "shadow", "v1"},
    Preferred <- {"NONE", "SINGLE_NUMBER", "PLATFORM_JSON"}, MaxPages <- 4,
    SHADOW_BUFFER_MAX_EVENTS <- 2
Offer == INSTANCE OfferAdapters WITH
    ident <- v1, sku <- v2, dedup <- v3, result <- v4, seen <- v5, fetches <- v6,
    Values <- Vals, Handle <- "h", Targets <- {"t1"}, Dedups <- BOOLEAN,
    Responses <- ProductDocs \cup ListingDocs \cup OtherDocs,
    Keys <- {"SHOPIFY_PRODUCT_JSON", "PUBLIC_CATALOG_JSON", "EXACT_ID_URL_REPAIR", "DEFAULT_HTTP"},
    MaxFetches <- 1
Policy == INSTANCE TargetResolution WITH
    tier <- v1, rule <- v2, learned <- v3, selector <- v4, cache <- v5, load <- v6,
    said <- v7, named <- v8, clock <- v9, edits <- v10, loads <- v11, TTL <- 2,
    MaxEdits <- 1, MaxLoads <- 3, MaxApplies <- 1, MaxClock <- 2
Stale == INSTANCE TargetResolution WITH
    tier <- v1, rule <- v2, learned <- v3, selector <- v4, cache <- v5, load <- v6,
    said <- v7, named <- v8, clock <- v9, edits <- v10, loads <- v11, TTL <- 2,
    MaxEdits <- 2, MaxLoads <- 3, MaxApplies <- 0, MaxClock <- 2
Evidence == INSTANCE EvidenceRetention WITH
    clock <- v1, final <- v2, tmp <- v3, writer <- v4, observations <- v5, sweep <- v6,
    last <- v7, stores <- v8, Hashes <- {1, 2}, Writers <- Pair, EVIDENCE_DAYS <- 1,
    OBSERVATION_DAYS <- 2, PARTITION_DAYS <- 1, MAX_BLOBS <- 1, MaxClock <- 4,
    MaxStores <- 2

\* The registers from the k-th on, unused: at rest, and left alone.
Free1 == v1 = 0 /\ v2 = 0 /\ v3 = 0 /\ v4 = 0 /\ v5 = 0 /\ v6 = 0 /\ v7 = 0 /\
         v8 = 0 /\ v9 = 0 /\ v10 = 0 /\ v11 = 0 /\ v12 = 0 /\ v13 = 0 /\ v14 = 0 /\
         v15 = 0 /\ v16 = 0
Free7 == v7 = 0 /\ v8 = 0 /\ v9 = 0 /\ v10 = 0 /\ v11 = 0 /\ v12 = 0 /\ v13 = 0 /\
         v14 = 0 /\ v15 = 0 /\ v16 = 0
Free9 == v9 = 0 /\ v10 = 0 /\ v11 = 0 /\ v12 = 0 /\ v13 = 0 /\ v14 = 0 /\ v15 = 0 /\
         v16 = 0
Free12 == v12 = 0 /\ v13 = 0 /\ v14 = 0 /\ v15 = 0 /\ v16 = 0
Free14 == v14 = 0 /\ v15 = 0 /\ v16 = 0
Kept1 == UNCHANGED <<v1, v2, v3, v4, v5, v6, v7, v8, v9, v10, v11, v12, v13, v14, v15,
                     v16>>
Kept7 == UNCHANGED <<v7, v8, v9, v10, v11, v12, v13, v14, v15, v16>>
Kept9 == UNCHANGED <<v9, v10, v11, v12, v13, v14, v15, v16>>
Kept12 == UNCHANGED <<v12, v13, v14, v15, v16>>
Kept14 == UNCHANGED <<v14, v15, v16>>

MCInit ==
  \/ part = "ledger" /\ Init /\ Free1
  \/ /\ Init
     /\ \/ part = "priced" /\ Sale!Init /\ Free12
        \/ part = "access" /\ Access!Init /\ Hinted(v1) /\ Free12
        \/ part = "breaker" /\ Breaker!Init /\ Free9
        \/ part = "admission" /\ Admit!Init /\ Free12
        \/ part = "browser" /\ Browser!Init
        \/ part = "price" /\ Price!Init /\ Free14
        \/ part = "shadow" /\ Shadow!Init /\ Free14
        \/ part = "offer" /\ Offer!Init /\ Free7
        \/ part = "policy" /\ Policy!Init /\ Free12
        \/ part = "stale" /\ Stale!Init /\ v1["own"] = -1 /\ v1["def"] = 0 /\ v4 = "hand" /\ Free12
        \/ part = "evidence" /\ Evidence!Init /\ Free9

MCNext ==
  \/ part = "ledger" /\ Next /\ Kept1 /\ UNCHANGED part
  \/ part = "priced" /\ Sale!Next /\ Kept12 /\ UNCHANGED <<part, vars>>
  \/ part = "access" /\ Access!Next /\ Kept12 /\ UNCHANGED <<part, vars>>
  \/ part = "breaker" /\ Breaker!Next /\ Kept9 /\ UNCHANGED <<part, vars>>
  \/ part = "admission" /\ Admit!Next /\ Kept12 /\ UNCHANGED <<part, vars>>
  \/ part = "browser" /\ Browser!Next /\ UNCHANGED <<part, vars>>
  \/ part = "price" /\ Price!Next /\ Kept14 /\ UNCHANGED <<part, vars>>
  \/ part = "shadow" /\ Shadow!Next /\ Kept14 /\ UNCHANGED <<part, vars>>
  \/ part = "offer" /\ Offer!Next /\ Kept7 /\ UNCHANGED <<part, vars>>
  \/ part = "policy" /\ Policy!Next /\ Kept12 /\ UNCHANGED <<part, vars>>
  \/ part = "stale" /\ Stale!Next /\ Kept12 /\ UNCHANGED <<part, vars>>
  \/ part = "evidence" /\ Evidence!Next /\ Kept9 /\ UNCHANGED <<part, vars>>

mcvars == <<part, vars, v1, v2, v3, v4, v5, v6, v7, v8, v9, v10, v11, v12, v13, v14,
          v15, v16>>
MCSpec == MCInit /\ [][MCNext]_mcvars

Symmetry == Permutations(Pair) \cup Permutations(OtherPair) \cup Permutations(Processes)

\* Money is spent within the provider's month and only while the ledger and the
\* breaker allow it, an attempt ladder ends, and once the breaker is open a gate
\* that has read it lets no paid request through (engine.py, budget.py, breaker).
\* With a sub-resource that carries a cost the recorder's promises stand as well.
PaidStops ==
  /\ part = "priced" => Sale!LedgerKept /\ Sale!CloseKept /\ Sale!AccruedOnce /\ Sale!ChildKept
  /\ part = "access" => /\ Access!Settings /\ Access!TypeOK /\ Access!PaidWithinBudget /\ Access!NoPaidWhenDenied
                        /\ Access!LadderEnds
  /\ part = "breaker" => Breaker!TypeOK /\ Breaker!TripStopsPaid

\* The ranker's verdict does not depend on the order in which the strategies ran
\* (that of a page's documents does matter: a strategy reads the first that fits), a
\* dissent between the readings is said, a preference only reorders; a shadow event
\* is stored once, waits, was counted as dropped, oldest first, or rolled back with
\* the transaction that drained it; an adapter names the variant it read, agrees
\* with the classifier and takes no exact item for another, and no broken answer
\* delists a product.
PageRead ==
  /\ part = "price" => Price!OrderIndependent /\ Price!NoSilentDissent /\ Price!PreferredOnlyReorders
  /\ part = "shadow" => Shadow!EventsAccounted
  /\ part = "offer" => /\ Offer!NoFalseDelisting /\ Offer!ResolvedIsNamed
                       /\ Offer!ClassifierAgrees /\ Offer!ExactOnly

\* Nothing a request took stays taken, no match is fetched twice at a time and no
\* more are in flight than there are slots and leases; the browser's pool accounts
\* for every context, closes none under a request and leaves no ledger row open.
FetchBounded ==
  /\ part = "admission" => /\ Admit!Sizes /\ Admit!TypeOK /\ Admit!NoLeak /\ Admit!OneFetchPerMatch
                           /\ Admit!InFlightBounded
  /\ part = "browser" => /\ Browser!TypeOK /\ Browser!LegIsBooked /\ Browser!PoolAccounted
                         /\ Browser!NeverClosedUnder /\ Browser!PoolMovesOn
                         /\ Browser!DocumentOnly /\ Browser!NoOpenRow

\* A workspace is given its own policies only, a cached resolution is stale for no
\* longer than its time to live, and a blob an observation refers to is deleted
\* only by the race of a late reference (targets.py, the evidence sweep).
PoliciesHold ==
  /\ part = "policy" => Policy!OwnPolicyOnly /\ Policy!StaleBounded
  /\ part = "stale" => Stale!OwnPolicyOnly /\ Stale!StaleBounded
  /\ part = "evidence" => Evidence!LostOnlyToARace

\* What no step may do: close or trip the breaker without its cause or twice for one
\* incident, release a lock before the commit or for another's fencing token,
\* loosen a policy by learning, or re-plan a target whose policy was refused.
FetchSteps ==
  [][/\ part = "breaker" => /\ Breaker!ClosesWhenOverStep /\ Breaker!TripTakesStep
                            /\ Breaker!TripsCountIncidentsStep
     /\ part = "admission" => Admit!CommitBeforeUnlockStep /\ Admit!FencedReleaseStep
     /\ part = "policy" => Policy!NeverLoosenedStep /\ Policy!ReusedUnchangedStep]_mcvars
==============================================================================
