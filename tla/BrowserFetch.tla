----------------------------- MODULE BrowserFetch -----------------------------
(***************************************************************************)
(* One browser spider process: the requests it builds, the pool of browser *)
(* contexts its download handler shares between them, the wall-clock bound *)
(* of a download, the per-host side channels (profile, rejection) and the  *)
(* ledger row around each fetch.  Sources: generic_browser_price_spider,   *)
(* price_monitor_browser/handler.py, browser/{egress_guard,ssrf,           *)
(* domain_profile_registry}.py, safety/rejection_registry.py,              *)
(* netledger_middleware.py.  What scrapy-playwright does (the launch lock, *)
(* a page slot taken before the page is opened and released by its close)  *)
(* is taken from the comments of handler.py.                               *)
(***************************************************************************)
EXTENDS Integers, FiniteSets

CONSTANTS Requests,
          Targets,       \* the targets a run may load: [host, provider, sticky, certified]
          ListedHosts,   \* BROWSER_DOCUMENT_ONLY_DOMAINS
          MaxContexts, MaxPages

VARIABLES target, pc, ctxs, pool, lock, closing, hung, op, profiles, rejected,
          cause, res, passed, under, leaked, over

vars == <<target, pc, ctxs, pool, lock, closing, hung, op, profiles, rejected,
          cause, res, passed, under, leaked, over>>
page == <<passed, profiles>>
pool_ == <<ctxs, pool, lock, closing, hung, under, leaked>>
ledger == <<op, over>>

BLOCKED_RESOURCE_TYPES == {"image", "stylesheet"}
PROXIED_BLOCKED_RESOURCE_TYPES == BLOCKED_RESOURCE_TYPES \cup {"script", "xhr"}
ResourceTypes == {"document"} \cup PROXIED_BLOCKED_RESOURCE_TYPES
Hosts == {t.host : t \in Targets}
Inside == {"slot", "opening", "page"}
InFlight == {"sent", "launch"} \cup Inside
Codes == {"none", "ok", "BLOCKED", "VARIANT_NOT_FOUND", "PROXY_FAILED", "TIMEOUT",
          "PLAYWRIGHT_FAILED", "SELECTOR_BROKEN", "HTTP", "NOT_FOUND", "INVALID"}

\* Mutant: every proxied target shares one context.
playwright_context_Shared(r) == IF target[r].provider = "none" THEN "none" ELSE "proxy"

(* meta["playwright_context"]: one context per provider; the one of "none" *)
(* is the default context.                                                 *)
playwright_context(r) == target[r].provider

(* The listener the guard binds for this upstream, sticky username         *)
(* included: register_upstream returns the same port for the same upstream.*)
register_upstream(r) == [provider |-> target[r].provider, sticky |-> target[r].sticky]

is_proxied(r) == target[r].provider # "none"

\* Mutant: certification is looked at before the document-only list.
should_block_CertifiedFirst(type, certified, listed, adHost) ==
    /\ type # "document"
    /\ ~certified
    /\ \/ type \in PROXIED_BLOCKED_RESOURCE_TYPES /\ listed
       \/ type \in BLOCKED_RESOURCE_TYPES \/ adHost

should_block(type, certified, listed, adHost) ==
    /\ type # "document"
    /\ \/ type \in PROXIED_BLOCKED_RESOURCE_TYPES /\ listed
       \/ ~certified /\ (type \in BLOCKED_RESOURCE_TYPES \/ adHost)

(* classify_browser_failure: the host's recent rejection comes first, then *)
(* the variant selectors, the proxy, and what Playwright raised.           *)
classify_browser_failure(r) ==
    CASE target[r].host \in rejected -> "BLOCKED"
      [] cause[r] = "variant" -> "VARIANT_NOT_FOUND"
      [] cause[r] = "proxy" /\ is_proxied(r) -> "PROXY_FAILED"
      [] cause[r] \in {"hard", "timeout"} -> "TIMEOUT"
      [] OTHER -> "PLAYWRIGHT_FAILED"

Init ==
    /\ target \in [Requests -> Targets]
    /\ pc = [r \in Requests |-> "todo"]
    /\ ctxs = <<>> /\ pool = MaxContexts /\ lock = {} /\ closing = {} /\ hung = {}
    /\ op = [r \in Requests |-> "none"]
    /\ profiles = [h \in Hosts |-> FALSE]
    /\ rejected = {}
    /\ cause = [r \in Requests |-> "none"] /\ res = [r \in Requests |-> "none"]
    /\ passed = {} /\ under = FALSE /\ leaked = FALSE /\ over = FALSE

(* start: the target's configured variant actions do not build.            *)
VariantConfigError(r) ==
    /\ pc[r] = "todo"
    /\ pc' = [pc EXCEPT ![r] = "done"] /\ res' = [res EXCEPT ![r] = "SELECTOR_BROKEN"]
    /\ UNCHANGED <<target, pool_, ledger, page, rejected, cause>>

(* start and _browser_request_for: the target's profile is recorded for    *)
(* its host and the request handed to the engine.                          *)
_browser_request_for(r) ==
    /\ pc[r] = "todo"
    /\ pc' = [pc EXCEPT ![r] = "built"]
    /\ profiles' = [profiles EXCEPT ![target[r].host] = target[r].certified]
    /\ UNCHANGED <<target, pool_, ledger, passed, rejected, cause, res>>

(* process_request: no fetch without its ledger row.                       *)
open_sync(r) ==
    /\ pc[r] = "built"
    /\ \/ pc' = [pc EXCEPT ![r] = "sent"] /\ op' = [op EXCEPT ![r] = "open"] /\ UNCHANGED cause
       \/ pc' = [pc EXCEPT ![r] = "failed"] /\ cause' = [cause EXCEPT ![r] = "ignored"]
          /\ UNCHANGED op
    /\ UNCHANGED <<target, pool_, over, page, rejected, res>>

(* _create_page of the parent: under the launch lock, the context exists   *)
(* already, or this request is the one that creates it.                    *)
EnterContext(r) ==
    /\ pc[r] = "sent" /\ lock = {}
    /\ IF playwright_context(r) \in DOMAIN ctxs
       THEN pc' = [pc EXCEPT ![r] = "slot"] /\ UNCHANGED lock
       ELSE pc' = [pc EXCEPT ![r] = "launch"] /\ lock' = {r}
    /\ UNCHANGED <<target, ctxs, pool, closing, hung, under, leaked, ledger, page, rejected,
                   cause, res>>

PagesOf(n) == {r \in Requests : pc[r] = "page" /\ playwright_context(r) = n}
UsersOf(n) == {r \in Requests : pc[r] \in Inside /\ playwright_context(r) = n}

\* Mutant: only the open pages count, not the ones being opened.
_context_is_idle_PagesOnly(n) == PagesOf(n) = {}

(* A free slot belongs to its first waiter at once: with a waiter, the     *)
(* page semaphore is never full.                                           *)
_context_is_idle(n) == UsersOf(n) = {} /\ ctxs[n].slots = MaxPages

(* _create_browser_context: the pool is full, an idle context is closed.   *)
_close_idle_contexts(r) ==
    /\ pc[r] = "launch" /\ pool = 0 /\ closing = {}
    /\ \E n \in DOMAIN ctxs : _context_is_idle(n) /\ closing' = {n}
    /\ UNCHANGED <<target, pc, ctxs, pool, lock, hung, under, leaked, ledger, page, rejected,
                   cause, res>>

Without(n) == [m \in DOMAIN ctxs \ {n} |-> ctxs[m]]

\* Mutant: the slot is released although the close event has released it.
Popped_Again(n, event) == pool + (IF event THEN 2 ELSE 1)

(* The slots after a close: released by the close event or, when it was    *)
(* not delivered and the wrapper is still registered, by the handler.      *)
Popped(n, event) == pool + 1

(* The context is gone; a request that was inside fails with it.           *)
ContextClosed(n, event) ==
    /\ ctxs' = Without(n) /\ pool' = Popped(n, event)
    /\ hung' = hung \ {n}
    /\ pc' = [r \in Requests |-> IF r \in UsersOf(n) THEN "failed" ELSE pc[r]]
    /\ cause' = [r \in Requests |-> IF r \in UsersOf(n) THEN "closed" ELSE cause[r]]
    /\ under' = (under \/ (UsersOf(n) # {} /\ n \notin hung))

Closed ==
    /\ \E n \in closing, event \in BOOLEAN :
         IF n \in DOMAIN ctxs THEN ContextClosed(n, event)
         ELSE UNCHANGED <<pc, ctxs, pool, hung, under, cause>>
    /\ closing' = {}
    /\ UNCHANGED <<target, lock, leaked, ledger, page, rejected, res>>

(* The bound on the close ran out: the context stays registered, and the   *)
(* browser may still finish the close later.                               *)
CloseHangs ==
    /\ closing # {} /\ closing' = {} /\ hung' = hung \cup (closing \cap DOMAIN ctxs)
    /\ UNCHANGED <<target, pc, ctxs, pool, lock, under, leaked, ledger, page, rejected, cause, res>>

LateClose ==
    /\ \E n \in hung : ContextClosed(n, TRUE)
    /\ UNCHANGED <<target, lock, closing, leaked, ledger, page, rejected, res>>

_create_browser_context(r) ==
    /\ pc[r] = "launch" /\ pool > 0 /\ closing = {}
    /\ pool' = pool - 1 /\ lock' = {}
    /\ ctxs' = [m \in DOMAIN ctxs \cup {playwright_context(r)} |->
                  IF m \in DOMAIN ctxs THEN ctxs[m]
                  ELSE [leg |-> register_upstream(r), slots |-> MaxPages]]
    /\ pc' = [pc EXCEPT ![r] = "slot"]
    /\ UNCHANGED <<target, closing, hung, under, leaked, ledger, page, rejected, cause, res>>

(* A page slot is taken, then the page is opened.                          *)
TakeSlot(r) ==
    /\ pc[r] = "slot" /\ ctxs[playwright_context(r)].slots > 0
    /\ ctxs' = [ctxs EXCEPT ![playwright_context(r)].slots = @ - 1]
    /\ pc' = [pc EXCEPT ![r] = "opening"]
    /\ UNCHANGED <<target, pool, lock, closing, hung, under, leaked, ledger, page, rejected,
                   cause, res>>

_create_page(r) ==
    /\ pc[r] = "opening" /\ pc' = [pc EXCEPT ![r] = "page"]
    /\ UNCHANGED <<target, pool_, ledger, page, rejected, cause, res>>

(* A request of the page, other than its navigation: the profile is the    *)
(* one its host was recorded with last, the list is the page's host's.     *)
abort_unsafe_request(r, type, adHost) ==
    /\ pc[r] = "page"
    /\ ~ should_block(type, ~adHost /\ profiles[target[r].host], target[r].host \in ListedHosts, adHost)
    /\ passed' = {<<r, type>>}
    /\ UNCHANGED <<target, pc, pool_, ledger, profiles, rejected, cause, res>>

SlotBack(r) == [ctxs EXCEPT ![playwright_context(r)].slots = @ + 1]

(* The page ends by itself; its close releases the slot.                   *)
PageEnds(r) ==
    /\ pc[r] = "page"
    /\ ctxs' = SlotBack(r)
    /\ \/ pc' = [pc EXCEPT ![r] = "answered"] /\ UNCHANGED <<cause, rejected>>
       \/ /\ pc' = [pc EXCEPT ![r] = "failed"]
          /\ \E why \in {"timeout", "proxy", "variant", "other"} :
               cause' = [cause EXCEPT ![r] = why]
          /\ UNCHANGED rejected
       \/ /\ pc' = [pc EXCEPT ![r] = "failed"] /\ cause' = [cause EXCEPT ![r] = "rejected"]
          /\ rejected' = rejected \cup {target[r].host}
    /\ UNCHANGED <<target, pool, lock, closing, hung, under, leaked, ledger, page, res>>

(* The entries of the rejection registry live longer than the hop to the   *)
(* failure's own errback.                                                  *)
RejectionExpires ==
    /\ \E h \in rejected :
         /\ \A r \in Requests : target[r].host = h /\ pc[r] = "failed" => cause[r] # "rejected"
         /\ rejected' = rejected \ {h}
    /\ UNCHANGED <<target, pc, pool_, ledger, page, cause, res>>

\* Mutant: the page of an abandoned download is left open.
_close_abandoned_page_Never(r) == [ctxs |-> ctxs, leaked |-> leaked]

(* A page that was opened is closed and its slot comes back; a slot taken  *)
(* for a page that was never opened stays taken.                           *)
_close_abandoned_page(r) ==
    IF pc[r] = "page" THEN [ctxs |-> SlotBack(r), leaked |-> leaked]
    ELSE [ctxs |-> ctxs, leaked |-> leaked \/ pc[r] = "opening"]

\* Mutant: the bound covers the page only, not the wait for a context.
Bounded_PageOnly(r) == pc[r] \in Inside

Bounded(r) == pc[r] \in InFlight

(* _download_request: the bound ran out.  The inner coroutine is cancelled *)
(* (it drops the launch lock, a close it had begun goes on unwatched).     *)
HardTimeout(r) ==
    /\ Bounded(r)
    /\ LET after == _close_abandoned_page(r) IN ctxs' = after.ctxs /\ leaked' = after.leaked
    /\ lock' = lock \ {r}
    /\ IF lock = {r} THEN closing' = {} /\ hung' = hung \cup (closing \cap DOMAIN ctxs)
       ELSE UNCHANGED <<closing, hung>>
    /\ pc' = [pc EXCEPT ![r] = "failed"] /\ cause' = [cause EXCEPT ![r] = "hard"]
    /\ UNCHANGED <<target, pool, under, ledger, page, rejected, res>>

(* The close of an abandoned page hangs as well: the slot is not returned. *)
PageCloseHangs(r) ==
    /\ pc[r] = "page"
    /\ pc' = [pc EXCEPT ![r] = "failed"] /\ cause' = [cause EXCEPT ![r] = "hard"]
    /\ leaked' = TRUE
    /\ UNCHANGED <<target, ctxs, pool, lock, closing, hung, under, ledger, page, rejected, res>>

(* process_response / process_exception: the row is closed, unless the     *)
(* close itself fails, which never fails the fetch.                        *)
_finish(r) == \E closes \in BOOLEAN :
                 op' = IF closes /\ op[r] = "open" THEN [op EXCEPT ![r] = "closed"] ELSE op

parse(r) ==
    /\ pc[r] = "answered" /\ _finish(r)
    /\ \E code \in {"ok", "HTTP", "NOT_FOUND", "INVALID"} : res' = [res EXCEPT ![r] = code]
    /\ pc' = [pc EXCEPT ![r] = "done"]
    /\ UNCHANGED <<target, pool_, over, page, rejected, cause>>

errback(r) ==
    /\ pc[r] = "failed" /\ _finish(r)
    /\ res' = [res EXCEPT ![r] = classify_browser_failure(r)]
    /\ pc' = [pc EXCEPT ![r] = "done"]
    /\ UNCHANGED <<target, pool_, over, page, rejected, cause>>

\* Mutant: the rows nobody closed are left to the next sweep.
_close_dangling_None == op

_close_dangling == [r \in Requests |-> IF op[r] = "open" THEN "closed" ELSE op[r]]

spider_closed ==
    /\ ~over /\ over' = TRUE
    /\ \A r \in Requests : pc[r] = "done"
    /\ op' = _close_dangling
    /\ UNCHANGED <<target, pc, pool_, page, rejected, cause, res>>

RequestNext(r) ==
    \/ VariantConfigError(r) \/ _browser_request_for(r) \/ open_sync(r) \/ EnterContext(r)
    \/ _close_idle_contexts(r) \/ _create_browser_context(r) \/ TakeSlot(r) \/ _create_page(r)
    \/ \E type \in ResourceTypes, ad \in BOOLEAN : abort_unsafe_request(r, type, ad)
    \/ PageEnds(r) \/ HardTimeout(r) \/ PageCloseHangs(r) \/ parse(r) \/ errback(r)

Next ==
    \/ \E r \in Requests : RequestNext(r)
    \/ Closed \/ CloseHangs \/ LateClose \/ RejectionExpires \/ spider_closed

Spec == Init /\ [][Next]_vars

(* The engine sends what the spider built and the wall clock ends what is  *)
(* in flight; nothing is assumed of the browser.                           *)
Fairness ==
    \A r \in Requests :
      /\ WF_vars(_browser_request_for(r)) /\ WF_vars(open_sync(r)) /\ WF_vars(HardTimeout(r))
      /\ WF_vars(parse(r)) /\ WF_vars(errback(r))

LiveSpec == Spec /\ Fairness

(***************************************************************************)
(* Properties                                                              *)
(***************************************************************************)
TypeOK ==
    /\ target \in [Requests -> Targets]
    /\ pc \in [Requests -> {"todo", "built", "failed", "answered", "done"} \cup InFlight]
    /\ pool \in 0..MaxContexts
    /\ \A n \in DOMAIN ctxs : ctxs[n].slots \in 0..MaxPages
    /\ op \in [Requests -> {"none", "open", "closed"}] /\ res \in [Requests -> Codes]
    /\ Cardinality(closing) <= 1 /\ hung \subseteq DOMAIN ctxs /\ Cardinality(lock) <= 1

(* Whatever contexts are created, closed and shared, a page goes out by    *)
(* the provider its ledger row books: a direct fetch never through a       *)
(* proxy, a proxied one never direct nor through another provider.         *)
LegIsBooked ==
    \A r \in Requests :
      pc[r] \in Inside => ctxs[playwright_context(r)].leg.provider = target[r].provider

(* The pool's free slots and its open contexts always add up, whether the  *)
(* browser's close event arrives or the handler has to stand in for it.    *)
PoolAccounted == pool + Cardinality(DOMAIN ctxs) = MaxContexts

(* An idle close never takes a context from under a request that has, or   *)
(* is about to have, a page in it.                                         *)
NeverClosedUnder == ~under

(* While a request waits for a context in a full pool, a page is in use,   *)
(* a context is idle or being closed: the pool moves on, unless the        *)
(* browser has hung on a page or a context before.                         *)
PoolMovesOn ==
    (\E r \in Requests : pc[r] = "launch") /\ pool = 0 =>
      \/ closing # {} \/ leaked \/ hung # {}
      \/ \E n \in DOMAIN ctxs : _context_is_idle(n) \/ UsersOf(n) # {}

(* On a document-only host no page loads a script, a style or an image,    *)
(* whichever target's profile its host was last recorded with.             *)
DocumentOnly ==
    \A p \in passed : target[p[1]].host \in ListedHosts => p[2] = "document"

(* When the spider has closed no ledger row is left open.                  *)
NoOpenRow == over => \A r \in Requests : op[r] # "open"

Ended(r) == pc[r] = "done"

(* Every request ends, however the browser hangs.                          *)
AllEnd == \A r \in Requests : <>Ended(r)

(* handler.py: "The context pool cannot deadlock ... its per-context page  *)
(* slot is released instead of leaking into the next wedge".               *)
NoSlotLost ==
    closing = {} /\ hung = {} =>
      \A n \in DOMAIN ctxs : UsersOf(n) = {} => ctxs[n].slots = MaxPages

(* rejection_registry.py: a stale entry from an earlier, unrelated request *)
(* for the same hostname can't leak into a later classification.           *)
BlockedIsOwn == \A r \in Requests : res[r] = "BLOCKED" => cause[r] = "rejected"

(* targets.py, sticky_proxy_username: the session is stable for the same   *)
(* key and rotates with it.                                                *)
StickyKept ==
    \A r \in Requests :
      pc[r] = "page" => ctxs[playwright_context(r)].leg.sticky = target[r].sticky
===============================================================================
