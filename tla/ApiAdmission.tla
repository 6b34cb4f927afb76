--------------------------- MODULE ApiAdmission ---------------------------
(***************************************************************************)
(* The two admission limiters in front of the public API: the abuse        *)
(* limiter on the expensive surfaces (abuse_limit.py), outermost, and the  *)
(* per-minute limiter behind it (rate_limit.py), which counts a request    *)
(* against its origin first and against its credential second.  Both count *)
(* in one script call to a shared store under a deadline: the call may     *)
(* never reach the store, or be counted there and answered too late.       *)
(* Counters carry their window in the key, so a new window starts at zero. *)
(***************************************************************************)
EXTENDS Integers, Sequences, FiniteSets, SequencesExt

CONSTANTS Credentials, Nobody, Origins,
          ReadLimit, WriteLimit,
          Fanout,          \* API_RATE_LIMIT_IP_FANOUT
          AbuseLimit,      \* the limit of the discovery and of the export surface
          MaxRequests      \* requests in one window

VARIABLES cnt, admitted, open, tries, sent

vars == <<cnt, admitted, open, tries, sent>>

Buckets == {"r", "w"}
Callers == Credentials \cup {Nobody}
\* The surfaces: an ordinary read and write, the discovery trigger, the admin export.
Routes == {"read", "write", "discovery", "export"}
is_write(route) == route \in {"write", "discovery"}
is_exempt(route) == route = "export"
surface_for(route) == route \in {"discovery", "export"}
Bucket(route) == IF is_write(route) THEN "w" ELSE "r"
Limit(b) == IF b = "w" THEN WriteLimit ELSE ReadLimit

OriginKey(o, b) == <<"ip", o, b>>
CredKey(c, b) == <<"credential", c, b>>
AbuseKey(c, route) == <<"abuse", c, route>>
CounterKeys == {OriginKey(o, b) : o \in Origins, b \in Buckets}
          \cup {CredKey(c, b) : c \in Credentials, b \in Buckets}
          \cup {AbuseKey(c, r) : c \in Credentials, r \in {"discovery", "export"}}

\* Mutant: every key is counted, over its limit or not.
Counted_All(counts, keys, limits) ==
    [k \in DOMAIN counts |-> IF k \in Range(keys) THEN counts[k] + 1 ELSE counts[k]]

\* The script: keys are counted in turn and it stops at the first that is over its limit.
Counted(counts, keys, limits) ==
    LET reached == {i \in DOMAIN keys : \A j \in 1..(i - 1) : counts[keys[j]] + 1 <= limits[j]}
    IN  [k \in DOMAIN counts |-> IF \E i \in reached : keys[i] = k THEN counts[k] + 1 ELSE counts[k]]

\* Mutant: the limit itself is still refused one later.
Over_Late(counts, keys, limits) == \E i \in DOMAIN keys : counts[keys[i]] > limits[i] + 1

\* A count that was not evaluated is read as zero.
Over(counts, keys, limits) ==
    \E i \in DOMAIN keys : counts[keys[i]] > limits[i] /\ \A j \in 1..(i - 1) : counts[keys[j]] <= limits[j]

\* Mutant: an unreachable counter refuses nothing.
fails_open_Always(route) == TRUE

fails_open(route) == ~is_write(route)

\* Mutant: an origin is bounded per tenant it fronts.
OriginLimit_Unbounded(c, b) == IF c = Nobody THEN Limit(b) ELSE Limit(b) * MaxRequests

OriginLimit(c, b) == IF c = Nobody THEN Limit(b) ELSE Limit(b) * Fanout

\* The keys of the per-minute limiter: the origin's, then the caller's own.
_admission_key(c, o, b) ==
    IF c = Nobody THEN <<OriginKey(o, b)>> ELSE <<OriginKey(o, b), CredKey(c, b)>>
_limits(c, b) == IF c = Nobody THEN <<OriginLimit(c, b)>> ELSE <<OriginLimit(c, b), Limit(b)>>

\* How a call to the store ends.
Ends == {"answered", "unreached", "late"}
After(counts, end, keys, limits) == IF end = "unreached" THEN counts ELSE Counted(counts, keys, limits)

\* AbuseLimitMiddleware.dispatch: the counters after it, and whether the request goes on.
AbuseDispatch(counts, c, route, end) ==
    LET key == <<AbuseKey(c, route)>>
        after == After(counts, end, key, <<AbuseLimit>>)
    IN  IF ~surface_for(route) \/ c = Nobody THEN [counts |-> counts, pass |-> TRUE]
        ELSE IF end # "answered" THEN [counts |-> after, pass |-> fails_open(route)]
        ELSE [counts |-> after, pass |-> ~Over(after, key, <<AbuseLimit>>)]

\* RateLimitMiddleware.dispatch: an error of the store admits the request.
RateDispatch(counts, c, o, route, end) ==
    LET b == Bucket(route)
        keys == _admission_key(c, o, b)
        after == After(counts, end, keys, _limits(c, b))
    IN  IF is_exempt(route) THEN [counts |-> counts, pass |-> TRUE, open |-> FALSE]
        ELSE IF end # "answered" THEN [counts |-> after, pass |-> TRUE, open |-> TRUE]
        ELSE [counts |-> after, pass |-> ~Over(after, keys, _limits(c, b)), open |-> FALSE]

Zero == [x \in Callers \X Origins \X Routes |-> 0]

Init == cnt = [k \in CounterKeys |-> 0] /\ admitted = Zero /\ open = Zero /\ tries = Zero /\ sent = 0

Request(c, o, route, end1, end2) ==
    LET abuse == AbuseDispatch(cnt, c, route, end1)
        rate == RateDispatch(abuse.counts, c, o, route, end2)
    IN  /\ sent < MaxRequests
        /\ sent' = sent + 1
        /\ tries' = [tries EXCEPT ![c, o, route] = @ + 1]
        /\ cnt' = IF abuse.pass THEN rate.counts ELSE abuse.counts
        /\ admitted' = IF abuse.pass /\ rate.pass THEN [admitted EXCEPT ![c, o, route] = @ + 1] ELSE admitted
        /\ open' = IF abuse.pass /\ rate.open THEN [open EXCEPT ![c, o, route] = @ + 1] ELSE open

\* The window turns: every key is a new one.
NextWindow ==
    /\ sent > 0
    /\ cnt' = [k \in CounterKeys |-> 0] /\ admitted' = Zero /\ open' = Zero /\ tries' = Zero /\ sent' = 0

Next ==
    \/ \E c \in Callers, o \in Origins, r \in Routes, e1, e2 \in Ends : Request(c, o, r, e1, e2)
    \/ NextWindow

Spec == Init /\ [][Next]_vars

----------------------------------------------------------------------------
Metered(b) == {r \in Routes : Bucket(r) = b /\ ~is_exempt(r)}
Total(f, cs, os, rs) == FoldSet(LAMBDA x, acc : f[x] + acc, 0, cs \X os \X rs)

\* In one window a credential gets no more than its limit through, whatever origins it comes
\* from, beyond the requests that passed because the store did not answer.
TenantBounded ==
    \A c \in Credentials, b \in Buckets :
        Total(admitted, {c}, Origins, Metered(b)) <= Limit(b) + Total(open, {c}, Origins, Metered(b))

\* An origin gets no more than its ceiling through however many credentials it presents, and no
\* more than one tenant's limit without a credential.
OriginBounded ==
    \A o \in Origins, b \in Buckets :
        /\ Total(admitted, Callers, {o}, Metered(b)) <= Limit(b) * Fanout + Total(open, Callers, {o}, Metered(b))
        /\ Total(admitted, {Nobody}, {o}, Metered(b)) <= Limit(b) + Total(open, {Nobody}, {o}, Metered(b))

\* The counters the origins can bring into being are bounded by what they are allowed to send.
MintedBounded ==
    \A b \in Buckets :
        Cardinality({c \in Credentials : cnt[CredKey(c, b)] > 0}) <= Limit(b) * Fanout * Cardinality(Origins)

\* The discovery trigger spends money: no failure of the store admits more than its limit.
PaidBounded ==
    \A c \in Credentials : Total(admitted, {c}, Origins, {"discovery"}) <= AbuseLimit

\* What the comment of API_RATE_LIMIT_IP_FANOUT says, and TLC refutes: the origin's ceiling "only
\* ever bites a caller spreading traffic across many credentials".  Another tenant's refused
\* requests count against the origin, and one inside its own budget is refused with it.
WithinBudgetAdmitted ==
    \A c \in Credentials :
        (/\ Cardinality(Credentials) <= Fanout /\ Total(tries, {Nobody}, Origins, Routes) = 0
         /\ Total(tries, {c}, Origins, Metered("w")) <= WriteLimit
         /\ Total(tries, {c}, Origins, {"discovery"}) <= AbuseLimit
         /\ Total(open, Callers, Origins, Routes) = 0) =>
            Total(admitted, {c}, Origins, {"write"}) = Total(tries, {c}, Origins, {"write"})
=============================================================================
