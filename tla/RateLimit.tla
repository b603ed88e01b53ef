------------------------------ MODULE RateLimit ------------------------------
(***************************************************************************)
(* The two in-memory rate limiters of one server instance.                 *)
(*                                                                         *)
(* lib/rateLimit.ts serves the notice page and the certificate route: its  *)
(* Map holds at most MAX_KEYS counters and drops the first in insertion    *)
(* order.  lib/rate-limit.ts serves the service-request routes and never   *)
(* drops one.  A key stands for a route and a client address; each call is *)
(* one step, since neither function awaits anything.                       *)
(***************************************************************************)
EXTENDS Integers, Sequences, FiniteSets

CONSTANTS
    PageKeys,   \* keys of lib/rateLimit.ts
    ApiKeys,    \* keys of lib/rate-limit.ts
    Limit,      \* per key, the limit its route passes
    WindowMs,   \* the window all routes pass
    Second,     \* the unit of Retry-After, in ticks of the clock
    MAX_KEYS,
    MaxTime,    \* bound on the clock
    MaxRequests \* bound on the requests served

Keys == PageKeys \cup ApiKeys

ASSUME RateLimitAssumption ==
    /\ PageKeys \cap ApiKeys = {}
    /\ Limit \in [Keys -> Nat \ {0}]
    /\ WindowMs \in Nat \ {0} /\ Second \in Nat \ {0} /\ MAX_KEYS \in Nat \ {0}
    /\ MaxTime \in Nat /\ MaxRequests \in Nat

VARIABLES
    now,        \* Date.now(), which is taken never to go back
    order,      \* keys of the bounded Map, in its order
    bucket,     \* per key, its counter; NoBucket when the Map has none
    ok,         \* per key, the last answer
    retryAt,    \* per key, when the Retry-After of its last denial runs out
    requests,   \* requests served
    admitted,   \* history: per key and time, the requests admitted before it
    forgotten   \* history: per key, how often a window still running was dropped

vars == <<now, order, bucket, ok, retryAt, requests, admitted, forgotten>>

NoBucket == [count |-> 0, resetAt |-> 0]

Held == {order[i] : i \in 1..Len(order)}

\* The bounded Map holds no key twice and no more than its cap, and the counters
\* in `bucket` are the ones of the keys it holds: eviction takes both away.
TypeOK ==
    /\ now \in 0..MaxTime
    /\ order \in Seq(PageKeys) /\ Len(order) <= MAX_KEYS /\ Cardinality(Held) = Len(order)
    /\ bucket \in [Keys -> [count : Nat, resetAt : Nat]]
    /\ \A k \in PageKeys : (bucket[k] # NoBucket) <=> (k \in Held)
    /\ ok \in [Keys -> BOOLEAN]
    /\ retryAt \in [Keys -> Nat]
    /\ requests \in 0..MaxRequests
    /\ admitted \in [Keys -> [0..MaxTime + 1 -> Nat]]
    /\ forgotten \in [Keys -> Nat]

Init ==
    /\ now = 0
    /\ order = <<>>
    /\ bucket = [k \in Keys |-> NoBucket]
    /\ ok = [k \in Keys |-> TRUE]
    /\ retryAt = [k \in Keys |-> 0]
    /\ requests = 0
    /\ admitted = [k \in Keys |-> [t \in 0..MaxTime + 1 |-> 0]]
    /\ forgotten = [k \in Keys |-> 0]

-----------------------------------------------------------------------------
\* No counter, or one whose window has elapsed; a missing counter's resetAt is 0.
Elapsed(k) == now >= bucket[k].resetAt

\* Mutant of Counted: the old counter survives its window.
CountedForEver(k) ==
    [count |-> bucket[k].count + 1,
     resetAt |-> IF Elapsed(k) THEN now + WindowMs ELSE bucket[k].resetAt]

\* The counter once the request is counted, in both limiters.
Counted(k) ==
    IF Elapsed(k)
    THEN [count |-> 1, resetAt |-> now + WindowMs]
    ELSE [bucket[k] EXCEPT !.count = @ + 1]

\* Mutant of Seconds: Math.floor.
SecondsFloor(ms) == ms \div Second

\* Math.ceil(ms / 1000).
Seconds(ms) == (ms + Second - 1) \div Second

\* Mutant of Allowed: one request too many.
AllowedPlusOne(k) == Counted(k).count <= Limit[k] + 1

Allowed(k) == Counted(k).count <= Limit[k]

\* The answer: ok, and on a refusal the Retry-After header its route sends.
Respond(k) ==
    /\ requests < MaxRequests /\ requests' = requests + 1
    /\ ok' = [ok EXCEPT ![k] = Allowed(k)]
    /\ retryAt' = [retryAt EXCEPT ![k] =
           IF Allowed(k) THEN @ ELSE now + Second * Seconds(Counted(k).resetAt - now)]
    /\ admitted' = [admitted EXCEPT ![k] =
           [t \in 0..MaxTime + 1 |-> @[t] + IF Allowed(k) /\ now < t THEN 1 ELSE 0]]

\* The order of the Map after delete(k).
Deleted(k) ==
    IF k \notin Held THEN order
    ELSE LET at == CHOOSE i \in 1..Len(order) : order[i] = k
         IN  [i \in 1..Len(order) - 1 |-> IF i < at THEN order[i] ELSE order[i + 1]]

\* The order of the Map after set(): a key with a running window was deleted
\* first and goes to the end; one whose window has elapsed keeps its place.
Inserted(k) == IF k \in Held /\ Elapsed(k) THEN order ELSE Append(Deleted(k), k)

\* Mutant of Excess: the key at the cap is let in for good.
ExcessUnlessFull(s) == IF Len(s) > MAX_KEYS + 1 THEN Len(s) - MAX_KEYS ELSE 0

\* How many keys the loop drops from the front.
Excess(s) == IF Len(s) > MAX_KEYS THEN Len(s) - MAX_KEYS ELSE 0

\* rateLimit of lib/rateLimit.ts.
HitPage(k) ==
    LET map == Inserted(k)
        evicted == {j \in PageKeys : \E i \in 1..Excess(map) : map[i] = j}
    IN  /\ order' = SubSeq(map, Excess(map) + 1, Len(map))
        /\ bucket' = [j \in Keys |->
               IF j = k THEN Counted(k) ELSE IF j \in evicted THEN NoBucket ELSE bucket[j]]
        /\ forgotten' = [j \in Keys |->
               forgotten[j] + IF j \in evicted /\ ~Elapsed(j) THEN 1 ELSE 0]
        /\ Respond(k)
        /\ UNCHANGED now

\* rateLimit of lib/rate-limit.ts.
HitApi(k) ==
    /\ bucket' = [bucket EXCEPT ![k] = Counted(k)]
    /\ Respond(k)
    /\ UNCHANGED <<now, order, forgotten>>

Tick ==
    /\ now < MaxTime
    /\ now' = now + 1
    /\ UNCHANGED <<order, bucket, ok, retryAt, requests, admitted, forgotten>>

Next ==
    \/ Tick
    \/ \E k \in PageKeys : HitPage(k)
    \/ \E k \in ApiKeys : HitApi(k)

Spec == Init /\ [][Next]_vars

-----------------------------------------------------------------------------
\* A fixed window admits up to twice its limit across its boundary and no more:
\* in any span of WindowMs a key has at most two windows, plus one for each
\* that was dropped while it ran.
SpanLimit ==
    \A k \in Keys, t, u \in 0..MaxTime + 1 :
        t <= u /\ u <= t + WindowMs =>
            admitted[k][u] - admitted[k][t] <= Limit[k] * (2 + forgotten[k])

\* A client that waits as long as Retry-After told it is not refused for the
\* same window again, whatever rounding to seconds does.
RetryAfterSuffices ==
    \A k \in Keys : ~ok[k] /\ bucket[k] # NoBucket => retryAt[k] >= bucket[k].resetAt

\* Both limiters, the mutable maps and counts that run past the limit included,
\* keep the promise of FixedWindow; only the bounded one may lose a window.
Window == INSTANCE FixedWindow WITH
    Forgetful <- PageKeys,
    spent <- [k \in Keys |-> IF bucket[k].count <= Limit[k] THEN bucket[k].count ELSE Limit[k]],
    expires <- [k \in Keys |-> bucket[k].resetAt]

ImplementsFixedWindow == Window!FSpec

=============================================================================
