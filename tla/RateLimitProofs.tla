--------------------------- MODULE RateLimitProofs ---------------------------
(***************************************************************************)
(* For every set of keys, every limit, window, unit and cap: both limiters *)
(* keep the promise of FixedWindow, Retry-After is never too short, no     *)
(* span of a window admits more than two limits and one per dropped        *)
(* window, and the bounded Map stays within its cap with exactly the       *)
(* counters of the keys it holds.                                          *)
(***************************************************************************)
EXTENDS RateLimit, FiniteSetTheorems, TLAPS

\* The part of the type invariant the arguments need.
Typed ==
    /\ now \in Nat
    /\ bucket \in [Keys -> [count : Nat, resetAt : Nat]]
    /\ ok \in [Keys -> BOOLEAN]
    /\ retryAt \in [Keys -> Nat]

\* A request as seen from the counters: k's is counted, those of F are dropped.
Hit(k, F) ==
    /\ bucket' = [j \in Keys |-> IF j = k THEN Counted(k) ELSE IF j \in F THEN NoBucket ELSE bucket[j]]
    /\ Respond(k)
    /\ now' = now

\* Rounding up to whole seconds covers the time left.
LEMMA SecondsCover ==
  ASSUME RateLimitAssumption, NEW x \in Nat
  PROVE  Seconds(x) \in Nat /\ Second * Seconds(x) \in Nat /\ Second * Seconds(x) >= x
<1> DEFINE q == (x + Second - 1) \div Second
           r == (x + Second - 1) % Second
<1>1. Second \in Nat /\ Second >= 1
  BY DEF RateLimitAssumption
<1>2. /\ q \in Int /\ r \in 0..(Second - 1)
      /\ x + Second - 1 = Second * q + r
  BY <1>1
<1>3. Second * q \in Int /\ Second * q >= x
  BY <1>1, <1>2
<1>4. q \in Nat
  BY <1>1, <1>2
<1> QED
  BY <1>1, <1>3, <1>4 DEF Seconds

\* Both limiters' calls are such requests, and only pages forget.
LEMMA Requests ==
  ASSUME Typed
  PROVE  /\ \A k \in PageKeys : HitPage(k) => \E F \in SUBSET PageKeys : Hit(k, F)
         /\ \A k \in ApiKeys : HitApi(k) => Hit(k, {})
<1>1. ASSUME NEW k \in PageKeys, HitPage(k)
      PROVE  \E F \in SUBSET PageKeys : Hit(k, F)
  <2> DEFINE map == Inserted(k)
             evicted == {j \in PageKeys : \E i \in 1..Excess(map) : map[i] = j}
  <2>1. Hit(k, evicted)
    BY <1>1 DEF HitPage, Hit
  <2>2. evicted \in SUBSET PageKeys
    OBVIOUS
  <2> QED
    BY <2>1, <2>2
<1>2. ASSUME NEW k \in ApiKeys, HitApi(k)
      PROVE  Hit(k, {})
  BY <1>2 DEF HitApi, Hit, Typed, Keys
<1> QED
  BY <1>1, <1>2

\* One request: the counters keep their types, and the promise and the header
\* are kept.
LEMMA HitStep ==
  ASSUME RateLimitAssumption, Typed, RetryAfterSuffices,
         NEW k \in Keys, NEW F \in SUBSET PageKeys, Hit(k, F)
  PROVE  /\ Typed' /\ RetryAfterSuffices'
         /\ Window!Admit(k, F) \/ Window!Deny(k, F)
<1> USE DEF Typed
<1>1. /\ Limit[k] \in Nat /\ Limit[k] >= 1 /\ WindowMs \in Nat /\ WindowMs >= 1
      /\ now \in Nat /\ bucket[k].count \in Nat /\ bucket[k].resetAt \in Nat
      /\ F \subseteq Keys
  BY DEF RateLimitAssumption, Keys
<1>2. /\ Counted(k) \in [count : Nat, resetAt : Nat]
      /\ Elapsed(k) => Counted(k).count = 1 /\ Counted(k).resetAt = now + WindowMs
      /\ ~Elapsed(k) => Counted(k).count = bucket[k].count + 1 /\ Counted(k).resetAt = bucket[k].resetAt
      /\ now < Counted(k).resetAt
  <2>1. CASE Elapsed(k)
    BY <1>1, <2>1 DEF Counted
  <2>2. CASE ~Elapsed(k)
    BY <1>1, <2>2 DEF Counted, Elapsed
  <2> QED
    BY <2>1, <2>2
<1> DEFINE left == Counted(k).resetAt - now
<1>3. left \in Nat /\ Second * Seconds(left) \in Nat /\ Second * Seconds(left) >= left
  BY <1>1, <1>2, SecondsCover
<1>4. NoBucket \in [count : Nat, resetAt : Nat]
  BY DEF NoBucket
<1>5. bucket' \in [Keys -> [count : Nat, resetAt : Nat]]
  BY <1>2, <1>4 DEF Hit
<1>6. /\ ok' \in [Keys -> BOOLEAN] /\ retryAt' \in [Keys -> Nat]
      /\ \A j \in Keys \ {k} : ok'[j] = ok[j] /\ retryAt'[j] = retryAt[j]
      /\ bucket'[k] = Counted(k)
      /\ \A j \in Keys \ {k} : bucket'[j] = IF j \in F THEN NoBucket ELSE bucket[j]
      /\ ok'[k] = Allowed(k)
  BY <1>1, <1>3 DEF Hit, Respond, Allowed
<1>7. ~Allowed(k) => retryAt'[k] >= Counted(k).resetAt
  <2> HIDE DEF Typed
  <2>1. ~Allowed(k) => retryAt'[k] = now + Second * Seconds(left)
    BY DEF Hit, Respond, Typed
  <2> QED
    BY <2>1, <1>1, <1>2, <1>3
<1>8. RetryAfterSuffices'
  BY <1>6, <1>7 DEF RetryAfterSuffices
<1> DEFINE sp == [j \in Keys |-> IF bucket[j].count <= Limit[j] THEN bucket[j].count ELSE Limit[j]]
           ex == [j \in Keys |-> bucket[j].resetAt]
<1>9. /\ sp' = [j \in Keys |-> IF j = k
                   THEN IF Counted(k).count <= Limit[k] THEN Counted(k).count ELSE Limit[k]
                   ELSE IF j \in F THEN 0 ELSE sp[j]]
      /\ ex' = [j \in Keys |-> IF j = k THEN Counted(k).resetAt ELSE IF j \in F THEN 0 ELSE ex[j]]
  BY <1>6 DEF NoBucket, RateLimitAssumption
<1>10. ASSUME Allowed(k)
       PROVE  Window!Admit(k, F)
  <2>0. Allowed(k) = TRUE
    BY <1>10 DEF Allowed
  <2>1. ok' = [ok EXCEPT ![k] = TRUE]
    BY <2>0, Zenon DEF Hit, Respond
  <2>2. CASE Elapsed(k)
    BY <1>1, <1>2, <1>9, <1>10, <2>1, <2>2 DEF Window!Admit, Elapsed, Hit
  <2>3. CASE ~Elapsed(k)
    BY <1>1, <1>2, <1>9, <1>10, <2>1, <2>3 DEF Window!Admit, Elapsed, Hit, Allowed
  <2> QED
    BY <2>2, <2>3
<1>11. ASSUME ~Allowed(k)
       PROVE  Window!Deny(k, F)
  <2>0. Allowed(k) = FALSE
    BY <1>11 DEF Allowed
  <2>1. ok' = [ok EXCEPT ![k] = FALSE]
    BY <2>0, Zenon DEF Hit, Respond
  <2>2. ~Elapsed(k) /\ bucket[k].count >= Limit[k]
    BY <1>1, <1>2, <1>11 DEF Allowed
  <2> QED
    BY <1>1, <1>2, <1>9, <1>11, <2>1, <2>2 DEF Window!Deny, Elapsed, Hit, Allowed
<1> QED
  BY <1>5, <1>6, <1>8, <1>10, <1>11, <1>1 DEF Hit

\* The same for whole steps of either limiter, and of the clock.
LEMMA NextStep ==
  ASSUME RateLimitAssumption, Typed, RetryAfterSuffices, [Next]_vars
  PROVE  /\ Typed' /\ RetryAfterSuffices'
         /\ [Window!FNext]_<<now, [k \in Keys |-> IF bucket[k].count <= Limit[k] THEN bucket[k].count ELSE Limit[k]],
                             [k \in Keys |-> bucket[k].resetAt], ok>>
<1>1. ASSUME NEW k \in Keys, NEW F \in SUBSET PageKeys, Hit(k, F)
      PROVE  /\ Typed' /\ RetryAfterSuffices' /\ Window!FNext
  BY <1>1, HitStep DEF Window!FNext
<1>2. ASSUME NEW k \in PageKeys, HitPage(k)
      PROVE  /\ Typed' /\ RetryAfterSuffices' /\ Window!FNext
  BY <1>1, <1>2, Requests DEF Keys
<1>3. ASSUME NEW k \in ApiKeys, HitApi(k)
      PROVE  /\ Typed' /\ RetryAfterSuffices' /\ Window!FNext
  BY <1>1, <1>3, Requests DEF Keys
<1>4. CASE Tick
  BY <1>4 DEF Tick, Typed, RetryAfterSuffices, Window!FNext, Window!Pass, RateLimitAssumption
<1>5. CASE UNCHANGED vars
  BY <1>5 DEF vars, Typed, RetryAfterSuffices
<1> QED
  BY <1>2, <1>3, <1>4, <1>5 DEF Next

\* RetryAfterSuffices holds for every instance: a client that waits out the
\* header of its 429 is in a new window.
THEOREM RetryAfter ==
  ASSUME RateLimitAssumption
  PROVE  Spec => []RetryAfterSuffices
<1>1. Init => Typed /\ RetryAfterSuffices
  BY DEF Init, Typed, RetryAfterSuffices, NoBucket
<1>2. Typed /\ RetryAfterSuffices /\ [Next]_vars => (Typed /\ RetryAfterSuffices)'
  BY NextStep
<1> QED
  BY <1>1, <1>2, PTL DEF Spec

\* lib/rateLimit.ts and lib/rate-limit.ts implement FixedWindow, the first one
\* with keys whose window may be dropped, the second with none.
THEOREM LimitersImplementFixedWindow ==
  ASSUME RateLimitAssumption
  PROVE  Spec => ImplementsFixedWindow
<1>1. Init => Typed /\ RetryAfterSuffices /\ Window!FInit
  BY DEF Init, Typed, RetryAfterSuffices, NoBucket, Window!FInit, RateLimitAssumption
<1>2. Typed /\ RetryAfterSuffices /\ [Next]_vars => (Typed /\ RetryAfterSuffices)'
  BY NextStep
<1>3. Typed /\ RetryAfterSuffices /\ [Next]_vars =>
        [Window!FNext]_<<now, [k \in Keys |-> IF bucket[k].count <= Limit[k] THEN bucket[k].count ELSE Limit[k]],
                         [k \in Keys |-> bucket[k].resetAt], ok>>
  BY NextStep
<1> QED
  BY <1>1, <1>2, <1>3, PTL DEF Spec, ImplementsFixedWindow, Window!FSpec

-----------------------------------------------------------------------------
\* What a key was admitted from time t on, when A[t] is what it was before.
Since(A, t) == A[MaxTime + 1] - A[t]

\* The bounds that add up when the last window started at s and admitted `spent`:
\* a span that starts in it has these, one that starts in the window before it a
\* limit more, either of them a limit for each dropped window, and nothing was
\* admitted once it was over.
StartsAt(s, A, L, f, spent) ==
    \A t \in 0..MaxTime + 1 :
        /\ t > s - WindowMs => Since(A, t) <= L * f + L + spent
        /\ t >= s => Since(A, t) <= L * f + spent
        /\ t >= s + WindowMs => Since(A, t) = 0

Spent(k) == IF bucket[k].count <= Limit[k] THEN bucket[k].count ELSE Limit[k]

\* Nothing is admitted after the present, n.
Settled(A, n) == \A t \in 0..MaxTime + 1 : n < t => A[t] = A[MaxTime + 1]

\* The last window of k started at some time s up to now, whether or not the Map
\* still has its counter.
HasWindow(k) ==
    \E s \in 0..now :
        /\ bucket[k] # NoBucket => bucket[k].resetAt = s + WindowMs
        /\ StartsAt(s, admitted[k], Limit[k], forgotten[k], Spent(k))

Spans(A, L, f) ==
    \A t, u \in 0..MaxTime + 1 : t <= u /\ u <= t + WindowMs => A[u] - A[t] <= L * (2 + f)

Histories ==
    /\ now \in 0..MaxTime
    /\ admitted \in [Keys -> [0..MaxTime + 1 -> Nat]]
    /\ forgotten \in [Keys -> Nat]

SpanInv ==
    /\ Histories
    /\ \A k \in Keys :
          Settled(admitted[k], now) /\ HasWindow(k) /\ Spans(admitted[k], Limit[k], forgotten[k])

\* Limits times dropped windows.
LEMMA Times ==
  ASSUME NEW L \in Nat, NEW f \in Nat
  PROVE  /\ L * f \in Nat /\ L * (f + 1) = L * f + L
         /\ L * (2 + f) = L * f + L + L
OBVIOUS

\* A function of counts after a request at time n, admitted when c = 1.
CountedAt(A, n, c) == [t \in 0..MaxTime + 1 |-> A[t] + IF c = 1 /\ n < t THEN 1 ELSE 0]

\* What was admitted since a time grows with it when the request is not earlier.
LEMMA CountedSince ==
  ASSUME RateLimitAssumption, NEW A \in [0..MaxTime + 1 -> Nat], NEW n \in 0..MaxTime, NEW c \in {0, 1}
  PROVE  /\ CountedAt(A, n, c) \in [0..MaxTime + 1 -> Nat]
         /\ \A t \in 0..MaxTime + 1 :
               /\ Since(A, t) \in Int /\ Since(CountedAt(A, n, c), t) \in Int
               /\ Since(CountedAt(A, n, c), t) = Since(A, t) + IF t <= n THEN c ELSE 0
<1>1. MaxTime \in Nat
  BY DEF RateLimitAssumption
<1>2. \A t \in 0..MaxTime + 1 : A[t] \in Nat /\ CountedAt(A, n, c)[t] = A[t] + IF c = 1 /\ n < t THEN 1 ELSE 0
  BY <1>1 DEF CountedAt
<1>3. CountedAt(A, n, c) \in [0..MaxTime + 1 -> Nat]
  BY <1>1 DEF CountedAt
<1>4. ASSUME NEW t \in 0..MaxTime + 1
      PROVE  /\ Since(A, t) \in Int /\ Since(CountedAt(A, n, c), t) \in Int
             /\ Since(CountedAt(A, n, c), t) = Since(A, t) + IF t <= n THEN c ELSE 0
  <2>1. MaxTime + 1 \in 0..MaxTime + 1 /\ n < MaxTime + 1
    BY <1>1
  <2>2. CountedAt(A, n, c)[MaxTime + 1] = A[MaxTime + 1] + c /\ A[MaxTime + 1] \in Nat
    BY <1>2, <2>1
  <2>3. CountedAt(A, n, c)[t] = A[t] + (IF t <= n THEN 0 ELSE c) /\ A[t] \in Nat
    BY <1>1, <1>2
  <2> HIDE DEF CountedAt
  <2> QED
    BY <1>1, <2>2, <2>3 DEF Since
<1> QED
  BY <1>3, <1>4

\* The window a request is counted in: the running one, or a new one that starts
\* now because the last is over or its counter was dropped.
Joins(r, s, n, c, x, y) ==
    \/ r = s /\ n < s + WindowMs /\ y = x + c
    \/ r = n /\ c = 1 /\ y = 1 /\ (x = 0 \/ s + WindowMs <= n)

\* A request at n to a key with the counts A, a limit L and f dropped windows, g
\* of them with its own: it is admitted when c = 1, the window s had x admissions
\* and the window r it is counted in has y.
Request(A, n, c, L, f, g, s, x, r, y) ==
    /\ A \in [0..MaxTime + 1 -> Nat] /\ n \in 0..MaxTime /\ c \in {0, 1}
    /\ L \in Nat /\ f \in Nat /\ g \in {f, f + 1}
    /\ x \in Nat /\ y \in Nat /\ x <= L /\ y <= L
    /\ s \in 0..n /\ r \in 0..n
    /\ Settled(A, n) /\ StartsAt(s, A, L, f, x) /\ Joins(r, s, n, c, x, y)

\* The sums of the window hold after it.
LEMMA HitWindow ==
  ASSUME RateLimitAssumption, NEW A, NEW n, NEW c, NEW L, NEW f, NEW g, NEW s, NEW x, NEW r, NEW y,
         Request(A, n, c, L, f, g, s, x, r, y)
  PROVE  StartsAt(r, CountedAt(A, n, c), L, g, y)
<1>q. /\ A \in [0..MaxTime + 1 -> Nat] /\ n \in 0..MaxTime /\ c \in {0, 1}
      /\ L \in Nat /\ f \in Nat /\ g \in {f, f + 1}
      /\ x \in Nat /\ y \in Nat /\ x <= L /\ y <= L
      /\ s \in 0..n /\ r \in 0..n
      /\ Settled(A, n) /\ StartsAt(s, A, L, f, x) /\ Joins(r, s, n, c, x, y)
  BY DEF Request
<1>1. MaxTime \in Nat /\ WindowMs \in Nat /\ WindowMs >= 1
  BY DEF RateLimitAssumption
<1>2. /\ L * f \in Nat /\ L * g \in Nat /\ L * g >= L * f
  BY <1>q, Times
<1>c. \A t \in 0..MaxTime + 1 :
        /\ Since(A, t) \in Int /\ Since(CountedAt(A, n, c), t) \in Int
        /\ Since(CountedAt(A, n, c), t) = Since(A, t) + IF t <= n THEN c ELSE 0
  BY <1>q, CountedSince, Zenon
<1> SUFFICES ASSUME NEW t \in 0..MaxTime + 1
             PROVE  LET d == Since(CountedAt(A, n, c), t)
                    IN  /\ t > r - WindowMs => d <= L * g + L + y
                        /\ t >= r => d <= L * g + y
                        /\ t >= r + WindowMs => d = 0
  BY DEF StartsAt
<1> DEFINE d == Since(CountedAt(A, n, c), t)
           e == Since(A, t)
           p == L * f
           q == L * g
<1>3. /\ t > s - WindowMs => e <= p + L + x
      /\ t >= s => e <= p + x
      /\ t >= s + WindowMs => e = 0
      /\ n < t => e = 0
  <2>1. n < t => A[MaxTime + 1] - A[t] = 0
    BY <1>1, <1>q DEF Settled
  <2> QED
    BY <1>q, <2>1 DEF StartsAt, Since
<1>4. e \in Int /\ d \in Int /\ d = e + IF t <= n THEN c ELSE 0
  BY <1>c
<1>5. p \in Nat /\ q \in Nat /\ q >= p
  BY <1>2
<1> HIDE DEF d, e, p, q
<1>6. /\ t > r - WindowMs => d <= q + L + y
      /\ t >= r => d <= q + y
      /\ t >= r + WindowMs => d = 0
  <2>1. CASE r = s /\ n < s + WindowMs /\ y = x + c
    BY <1>1, <1>3, <1>4, <1>5, <1>q, <2>1
  <2>2. CASE r = n /\ c = 1 /\ y = 1 /\ x = 0
    BY <1>1, <1>3, <1>4, <1>5, <1>q, <2>2
  <2>3. CASE r = n /\ c = 1 /\ y = 1 /\ s + WindowMs <= n
    BY <1>1, <1>3, <1>4, <1>5, <1>q, <2>3
  <2> QED
    BY <1>q, <2>1, <2>2, <2>3 DEF Joins
<1> QED
  BY <1>6 DEF d, q

\* A dropped window: one that ran makes room for a limit more, one that was over
\* had nothing left to admit.
LEMMA DroppedWindow ==
  ASSUME RateLimitAssumption, NEW A \in [0..MaxTime + 1 -> Nat], NEW L \in Nat, NEW f \in Nat,
         NEW x \in Nat, x <= L, NEW s \in Nat, StartsAt(s, A, L, f, x)
  PROVE  StartsAt(s, A, L, f + 1, 0) /\ StartsAt(s + WindowMs, A, L, f, 0)
<1>1. MaxTime \in Nat /\ WindowMs \in Nat /\ WindowMs >= 1
  BY DEF RateLimitAssumption
<1> DEFINE p == L * f
           q == L * (f + 1)
<1>2. p \in Nat /\ q = p + L
  BY Times
<1>3. \A t \in 0..MaxTime + 1 : Since(A, t) \in Int
  BY <1>1 DEF Since
<1>4. \A t \in 0..MaxTime + 1 :
        /\ t > s - WindowMs => Since(A, t) <= p + L + x
        /\ t >= s => Since(A, t) <= p + x
        /\ t >= s + WindowMs => Since(A, t) = 0
  BY DEF StartsAt
<1> HIDE DEF p, q
<1>5. \A t \in 0..MaxTime + 1 :
        /\ t > s - WindowMs => Since(A, t) <= q + L + 0
        /\ t >= s => Since(A, t) <= q + 0
        /\ t >= s + WindowMs => Since(A, t) = 0
  BY <1>1, <1>2, <1>3, <1>4
<1>6. \A t \in 0..MaxTime + 1 :
        /\ t > (s + WindowMs) - WindowMs => Since(A, t) <= p + L + 0
        /\ t >= s + WindowMs => Since(A, t) <= p + 0
        /\ t >= (s + WindowMs) + WindowMs => Since(A, t) = 0
  BY <1>1, <1>2, <1>3, <1>4
<1> QED
  BY <1>5, <1>6 DEF StartsAt, p, q

Forgets(F) == forgotten' = [j \in Keys |-> forgotten[j] + IF j \in F /\ ~Elapsed(j) THEN 1 ELSE 0]

\* A count within its limit.
LEMMA SpentBounded ==
  ASSUME RateLimitAssumption, Typed, NEW k \in Keys
  PROVE  Spent(k) \in Nat /\ Spent(k) <= Limit[k] /\ Limit[k] \in Nat /\ Limit[k] >= 1
BY DEF RateLimitAssumption, Typed, Spent

\* Spans that end before the request keep what they have, the others are in the
\* two windows that reach it.
LEMMA SpanKept ==
  ASSUME RateLimitAssumption, NEW A, NEW n, NEW c, NEW L, NEW f, NEW g, NEW s, NEW x, NEW r, NEW y,
         Request(A, n, c, L, f, g, s, x, r, y), Spans(A, L, f)
  PROVE  Settled(CountedAt(A, n, c), n) /\ Spans(CountedAt(A, n, c), L, g)
<1>q. /\ A \in [0..MaxTime + 1 -> Nat] /\ n \in 0..MaxTime /\ c \in {0, 1}
      /\ L \in Nat /\ f \in Nat /\ g \in {f, f + 1} /\ y \in Nat /\ y <= L /\ r \in 0..n
      /\ Settled(A, n) /\ StartsAt(r, CountedAt(A, n, c), L, g, y)
  BY HitWindow DEF Request
<1>r. L \in Nat /\ y \in Nat /\ y <= L /\ n \in Nat /\ r \in Nat /\ r <= n
  BY <1>q
<1>1. MaxTime \in Nat /\ WindowMs \in Nat /\ MaxTime + 1 \in 0..MaxTime + 1
  BY DEF RateLimitAssumption
<1> DEFINE B == CountedAt(A, n, c)
           p == L * (2 + f)
           q == L * (2 + g)
           z == L * g
<1>2. q = z + L + L /\ z \in Nat /\ p \in Nat /\ q >= p
  BY <1>q, Times
<1>3. B \in [0..MaxTime + 1 -> Nat]
  BY <1>q, CountedSince, Zenon
<1>4. \A t \in 0..MaxTime + 1 :
        B[t] = A[t] + (IF n < t THEN c ELSE 0) /\ A[t] \in Nat /\ B[t] \in Nat
  <2>1. A \in [0..MaxTime + 1 -> Nat] /\ n \in Nat /\ c \in {0, 1}
    BY <1>1, <1>q
  <2> QED
    BY <1>1, <2>1 DEF CountedAt
<1>5. \A t \in 0..MaxTime + 1 : t > r - WindowMs => B[MaxTime + 1] - B[t] <= z + L + y
  BY <1>q DEF StartsAt, Since
<1>6. \A t, u \in 0..MaxTime + 1 : t <= u /\ u <= t + WindowMs => A[u] - A[t] <= p
  BY DEF Spans
<1> HIDE DEF B, p, q, z
<1>7. \A t \in 0..MaxTime + 1 : n < t => B[t] = B[MaxTime + 1]
  BY <1>1, <1>4, <1>q DEF Settled
<1>8. ASSUME NEW t \in 0..MaxTime + 1, NEW u \in 0..MaxTime + 1, t <= u, u <= t + WindowMs
      PROVE  B[u] - B[t] <= q
  <2>1. CASE u <= n
    <3>1. t <= n /\ ~(n < t) /\ ~(n < u)
      BY <1>1, <1>8, <1>r, <2>1
    <3>2. B[u] = A[u] /\ B[t] = A[t] /\ A[u] \in Nat /\ A[t] \in Nat
      BY <1>4, <1>r, <3>1
    <3> QED
      BY <1>2, <1>6, <1>8, <1>r, <3>2
  <2>2. CASE n < u /\ t <= n
    <3>1. B[u] = B[MaxTime + 1] /\ t > r - WindowMs
      BY <1>1, <1>7, <1>8, <1>r, <2>2
    <3> QED
      BY <1>1, <1>2, <1>4, <1>5, <1>r, <3>1
  <2>3. CASE n < t
    <3>1. B[u] = B[MaxTime + 1] /\ B[t] = B[MaxTime + 1] /\ B[MaxTime + 1] \in Nat
      BY <1>1, <1>4, <1>7, <1>8, <1>r, <2>3
    <3> QED
      BY <1>2, <1>r, <3>1
  <2> QED
    BY <1>1, <1>q, <2>1, <2>2, <2>3
<1> QED
  BY <1>7, <1>8 DEF B, q, Settled, Spans

\* The key that is served.
LEMMA SpanOfServed ==
  ASSUME RateLimitAssumption, Typed, SpanInv, NEW k \in Keys, NEW F \in SUBSET PageKeys,
         Hit(k, F), Forgets(F)
  PROVE  Settled(admitted[k], now)' /\ HasWindow(k)' /\ Spans(admitted[k], Limit[k], forgotten[k])'
<1> DEFINE A == admitted[k]
           c == IF Allowed(k) THEN 1 ELSE 0
           L == Limit[k]
           f == forgotten[k]
           x == Spent(k)
           y == Spent(k)'
<1>1. /\ MaxTime \in Nat /\ WindowMs \in Nat /\ WindowMs >= 1
      /\ A \in [0..MaxTime + 1 -> Nat] /\ f \in Nat /\ now \in 0..MaxTime /\ now \in Nat
      /\ bucket[k].count \in Nat /\ bucket[k].resetAt \in Nat
  BY DEF RateLimitAssumption, SpanInv, Histories, Typed
<1>2. x \in Nat /\ x <= L /\ L \in Nat /\ L >= 1
  BY SpentBounded
<1>3. admitted'[k] = CountedAt(A, now, c) /\ forgotten'[k] \in {f, f + 1} /\ now' = now /\ bucket'[k] = Counted(k)
  <2>1. admitted' = [admitted EXCEPT ![k] =
           [t \in 0..MaxTime + 1 |-> admitted[k][t] + IF Allowed(k) /\ now < t THEN 1 ELSE 0]]
    BY DEF Hit, Respond
  <2>2. admitted'[k] = [t \in 0..MaxTime + 1 |-> admitted[k][t] + IF Allowed(k) /\ now < t THEN 1 ELSE 0]
    BY <2>1 DEF SpanInv, Histories
  <2>3. admitted'[k] = CountedAt(A, now, c)
    BY <2>2 DEF CountedAt
  <2>4. forgotten'[k] \in {f, f + 1}
    BY <1>1 DEF Forgets
  <2> QED
    BY <2>3, <2>4 DEF Hit
<1>4. PICK s \in 0..now : /\ bucket[k] # NoBucket => bucket[k].resetAt = s + WindowMs
                          /\ StartsAt(s, A, L, f, x)
  BY DEF SpanInv, HasWindow
<1>5. Settled(A, now) /\ Spans(A, L, f)
  BY DEF SpanInv
<1>7. y = IF Counted(k).count <= L THEN Counted(k).count ELSE L
  BY <1>3 DEF Spent
<1>8. PICK r \in 0..now :
         /\ Counted(k).resetAt = r + WindowMs
         /\ y \in Nat /\ y <= L
         /\ Joins(r, s, now, c, x, y)
  <2>1. CASE Elapsed(k)
    <3>1. Counted(k) = [count |-> 1, resetAt |-> now + WindowMs] /\ c = 1 /\ y = 1
      BY <1>2, <1>7, <2>1 DEF Counted, Allowed
    <3>2. CASE bucket[k] = NoBucket
      <4>1. x = 0
        BY <1>2, <3>2 DEF Spent, NoBucket
      <4> QED
        BY <1>1, <1>2, <3>1, <4>1 DEF Joins
    <3>3. CASE bucket[k] # NoBucket
      <4>1. s + WindowMs <= now
        BY <1>4, <2>1, <3>3 DEF Elapsed
      <4> QED
        BY <1>1, <1>2, <3>1, <4>1 DEF Joins
    <3> QED
      BY <3>2, <3>3
  <2>2. CASE ~Elapsed(k)
    <3>1. bucket[k] # NoBucket
      BY <1>1, <2>2 DEF Elapsed, NoBucket
    <3>2. bucket[k].resetAt = s + WindowMs /\ now < s + WindowMs
      BY <1>1, <1>4, <2>2, <3>1 DEF Elapsed
    <3>3. Counted(k).count = bucket[k].count + 1 /\ Counted(k).resetAt = bucket[k].resetAt
      <4>1. Counted(k) = [bucket[k] EXCEPT !.count = bucket[k].count + 1]
        BY <2>2 DEF Counted
      <4>2. bucket[k] \in [count : Nat, resetAt : Nat]
        BY DEF Typed
      <4> QED
        BY <4>1, <4>2
    <3>4. y = x + c /\ y \in Nat /\ y <= L
      BY <1>1, <1>2, <1>7, <3>3 DEF Spent, Allowed
    <3> QED
      BY <1>1, <3>2, <3>3, <3>4 DEF Joins
  <2> QED
    BY <2>1, <2>2
<1> HIDE DEF A, c, L, f, x, y
<1>9. c \in {0, 1}
  BY DEF c
<1>10. PICK g \in {f, f + 1} : forgotten'[k] = g
  BY <1>3
<1> DEFINE B == CountedAt(A, now, c)
<1>11. Request(A, now, c, L, f, g, s, x, r, y)
  BY <1>1, <1>2, <1>4, <1>5, <1>8, <1>9 DEF Request
<1>12. /\ StartsAt(r, B, L, g, y)
       /\ Settled(B, now) /\ Spans(B, L, g)
  BY <1>5, <1>11, HitWindow, SpanKept
<1>13. admitted'[k] = B
  BY <1>3
<1> HIDE DEF B
<1>14. Settled(admitted[k], now)' /\ Spans(admitted[k], Limit[k], forgotten[k])'
  BY <1>3, <1>10, <1>12, <1>13 DEF L, Settled, Spans
<1>15. HasWindow(k)'
  BY <1>3, <1>8, <1>10, <1>12, <1>13 DEF HasWindow, L, y, StartsAt, Since
<1> QED
  BY <1>14, <1>15

\* A larger number of dropped windows allows what a smaller one does.
LEMMA SpansGrow ==
  ASSUME RateLimitAssumption, NEW A \in [0..MaxTime + 1 -> Nat], NEW L \in Nat, NEW f \in Nat, Spans(A, L, f)
  PROVE  Spans(A, L, f + 1)
<1> DEFINE p == L * (2 + f)
           q == L * (2 + (f + 1))
<1>1. MaxTime \in Nat
  BY DEF RateLimitAssumption
<1>2. p \in Nat /\ q \in Nat /\ q >= p
  <2>1. L * (2 + f) = L * f + L + L /\ L * (2 + (f + 1)) = L * (f + 1) + L + L /\ L * (f + 1) = L * f + L /\ L * f \in Nat
    BY Times
  <2> QED
    BY <2>1
<1>3. \A t, u \in 0..MaxTime + 1 : t <= u /\ u <= t + WindowMs => A[u] - A[t] <= p /\ A[u] - A[t] \in Int
  BY <1>1 DEF Spans
<1> HIDE DEF p, q
<1>4. \A t, u \in 0..MaxTime + 1 : t <= u /\ u <= t + WindowMs => A[u] - A[t] <= q
  BY <1>2, <1>3
<1> QED
  BY <1>4 DEF Spans, q

\* The other keys, of which some lose their counters.
LEMMA SpanOfOthers ==
  ASSUME RateLimitAssumption, Typed, SpanInv, NEW k \in Keys, NEW F \in SUBSET PageKeys,
         Hit(k, F), Forgets(F), NEW j \in Keys, j # k
  PROVE  Settled(admitted[j], now)' /\ HasWindow(j)' /\ Spans(admitted[j], Limit[j], forgotten[j])'
<1> DEFINE A == admitted[j]
           L == Limit[j]
           f == forgotten[j]
           x == Spent(j)
<1>1. /\ MaxTime \in Nat /\ WindowMs \in Nat /\ WindowMs >= 1
      /\ A \in [0..MaxTime + 1 -> Nat] /\ f \in Nat /\ now \in 0..MaxTime /\ now \in Nat
      /\ bucket[j].count \in Nat /\ bucket[j].resetAt \in Nat
  <2>1. admitted \in [Keys -> [0..MaxTime + 1 -> Nat]] /\ forgotten \in [Keys -> Nat] /\ now \in 0..MaxTime
    BY DEF SpanInv, Histories
  <2>2. bucket[j] \in [count : Nat, resetAt : Nat]
    BY DEF Typed
  <2>3. MaxTime \in Nat /\ WindowMs \in Nat /\ WindowMs >= 1
    BY DEF RateLimitAssumption
  <2>4. A \in [0..MaxTime + 1 -> Nat] /\ f \in Nat
    BY <2>1
  <2>5. now \in 0..MaxTime /\ now \in Nat
    BY <2>1
  <2> QED
    BY <2>2, <2>3, <2>4, <2>5
<1>2. x \in Nat /\ x <= L /\ L \in Nat /\ L >= 1
  BY SpentBounded
<1>3. /\ admitted'[j] = A /\ now' = now
      /\ bucket'[j] = IF j \in F THEN NoBucket ELSE bucket[j]
      /\ forgotten'[j] = f + IF j \in F /\ ~Elapsed(j) THEN 1 ELSE 0
  BY DEF Hit, Respond, Forgets, SpanInv, Histories
<1>4. PICK s \in 0..now : /\ bucket[j] # NoBucket => bucket[j].resetAt = s + WindowMs
                          /\ StartsAt(s, A, L, f, x)
  BY DEF SpanInv, HasWindow
<1>5. Settled(A, now) /\ Spans(A, L, f)
  BY DEF SpanInv
<1>6. NoBucket.count = 0 /\ NoBucket.resetAt = 0
  BY DEF NoBucket
<1>7. /\ bucket'[j] = NoBucket => Spent(j)' = 0
      /\ bucket'[j] = bucket[j] => Spent(j)' = x
  BY <1>2, <1>6 DEF Spent
<1> HIDE DEF A, L, f, x
<1>8. CASE j \notin F \/ bucket[j] = NoBucket
  <2>1. bucket'[j] = bucket[j] /\ forgotten'[j] = f
    BY <1>1, <1>3, <1>6, <1>8 DEF Elapsed
  <2> QED
    BY <1>3, <1>4, <1>5, <1>7, <2>1 DEF HasWindow, Settled, Spans, StartsAt, Since, L
<1>9. CASE j \in F /\ bucket[j] # NoBucket /\ Elapsed(j)
  <2>1. bucket'[j] = NoBucket /\ forgotten'[j] = f /\ Spent(j)' = 0
    BY <1>1, <1>3, <1>7, <1>9
  <2>2. s + WindowMs \in 0..now /\ s \in Nat
    BY <1>1, <1>4, <1>9 DEF Elapsed
  <2>3. StartsAt(s + WindowMs, A, L, f, 0)
    BY <1>1, <1>2, <1>4, <2>2, DroppedWindow
  <2> QED
    BY <1>3, <1>5, <2>1, <2>2, <2>3 DEF HasWindow, Settled, Spans, StartsAt, Since, L
<1>10. CASE j \in F /\ bucket[j] # NoBucket /\ ~Elapsed(j)
  <2>1. bucket'[j] = NoBucket /\ forgotten'[j] = f + 1 /\ Spent(j)' = 0
    BY <1>1, <1>3, <1>7, <1>10
  <2>2. StartsAt(s, A, L, f + 1, 0)
    <3>1. s \in Nat
      BY <1>1
    <3> QED
      BY <1>1, <1>2, <1>4, <3>1, DroppedWindow
  <2>3. Spans(A, L, f + 1)
    BY <1>1, <1>2, <1>5, SpansGrow
  <2> QED
    BY <1>3, <1>4, <1>5, <2>1, <2>2, <2>3 DEF HasWindow, Settled, Spans, StartsAt, Since, L
<1> QED
  BY <1>8, <1>9, <1>10

\* Every step keeps the sums.
LEMMA SpanStep ==
  ASSUME RateLimitAssumption, Typed, SpanInv, [Next]_vars
  PROVE  SpanInv'
<1>1. ASSUME NEW k \in Keys, NEW F \in SUBSET PageKeys, Hit(k, F), Forgets(F)
      PROVE  SpanInv'
  <2>1. ASSUME NEW j \in Keys
        PROVE  Settled(admitted[j], now)' /\ HasWindow(j)' /\ Spans(admitted[j], Limit[j], forgotten[j])'
    <3>1. CASE j = k
      BY <1>1, <3>1, SpanOfServed
    <3>2. CASE j # k
      BY <1>1, <3>2, SpanOfOthers
    <3> QED
      BY <3>1, <3>2
  <2>2. Histories'
    BY <1>1 DEF Hit, Respond, Forgets, SpanInv, Histories
  <2> QED
    BY <2>1, <2>2 DEF SpanInv
<1>2. ASSUME NEW k \in PageKeys, HitPage(k)
      PROVE  SpanInv'
  <2> DEFINE map == Inserted(k)
             evicted == {j \in PageKeys : \E i \in 1..Excess(map) : map[i] = j}
  <2>1. Hit(k, evicted) /\ Forgets(evicted) /\ k \in Keys /\ evicted \in SUBSET PageKeys
    BY <1>2 DEF HitPage, Hit, Forgets, Keys
  <2> QED
    BY <1>1, <2>1
<1>3. ASSUME NEW k \in ApiKeys, HitApi(k)
      PROVE  SpanInv'
  <2>1. Hit(k, {}) /\ k \in Keys
    BY <1>3, Requests DEF Keys
  <2>2. Forgets({})
    BY <1>3 DEF HitApi, Forgets, SpanInv, Histories
  <2> QED
    BY <1>1, <2>1, <2>2
<1>4. ASSUME now' \in {now, now + 1} \cap 0..MaxTime, UNCHANGED <<bucket, admitted, forgotten>>
      PROVE  SpanInv'
  <2>1. now \in Nat /\ now' \in Nat /\ now' >= now /\ MaxTime \in Nat
    BY <1>4 DEF RateLimitAssumption, SpanInv, Histories
  <2>2. ASSUME NEW j \in Keys
        PROVE  Settled(admitted[j], now)' /\ HasWindow(j)' /\ Spans(admitted[j], Limit[j], forgotten[j])'
    <3>1. Settled(admitted[j], now) /\ Spans(admitted[j], Limit[j], forgotten[j])
      BY DEF SpanInv
    <3>2. Settled(admitted[j], now')
      BY <2>1, <3>1 DEF Settled
    <3>3. PICK s \in 0..now : /\ bucket[j] # NoBucket => bucket[j].resetAt = s + WindowMs
                              /\ StartsAt(s, admitted[j], Limit[j], forgotten[j], Spent(j))
      BY DEF SpanInv, HasWindow
    <3>4. s \in 0..now' /\ Spent(j)' = Spent(j)
      BY <1>4, <2>1 DEF Spent
    <3>5. HasWindow(j)'
      BY <1>4, <3>3, <3>4 DEF HasWindow, StartsAt, Since
    <3> QED
      BY <1>4, <3>1, <3>2, <3>5 DEF Settled, Spans
  <2>3. Histories'
    BY <1>4 DEF SpanInv, Histories
  <2> QED
    BY <2>2, <2>3 DEF SpanInv
<1>5. CASE Tick
  BY <1>4, <1>5 DEF Tick, RateLimitAssumption, SpanInv, Histories
<1>6. CASE UNCHANGED vars
  BY <1>4, <1>6 DEF vars, SpanInv, Histories
<1> QED
  BY <1>2, <1>3, <1>5, <1>6 DEF Next

\* SpanLimit holds for every instance: however the requests of a client fall and
\* whichever counters the bounded Map drops, no span of a window admits more than
\* two limits, and one more for each window that was dropped while it ran.
THEOREM SpanBounded ==
  ASSUME RateLimitAssumption
  PROVE  Spec => []SpanLimit
<1>1. Init => Typed /\ RetryAfterSuffices /\ SpanInv
  <2> SUFFICES ASSUME Init
               PROVE  Typed /\ RetryAfterSuffices /\ SpanInv
    OBVIOUS
  <2>1. Typed /\ RetryAfterSuffices
    BY DEF Init, Typed, RetryAfterSuffices, NoBucket
  <2>2. MaxTime \in Nat /\ WindowMs \in Nat /\ MaxTime + 1 \in 0..MaxTime + 1
    BY DEF RateLimitAssumption
  <2>3. ASSUME NEW j \in Keys
        PROVE  Settled(admitted[j], now) /\ HasWindow(j) /\ Spans(admitted[j], Limit[j], forgotten[j])
    <3>1. \A t \in 0..MaxTime + 1 : admitted[j][t] = 0
      BY DEF Init
    <3>2. Limit[j] \in Nat /\ forgotten[j] = 0 /\ bucket[j] = NoBucket /\ now = 0
      BY DEF Init, RateLimitAssumption
    <3>3. Spent(j) = 0
      BY <3>2 DEF Spent, NoBucket
    <3>4. StartsAt(0, admitted[j], Limit[j], forgotten[j], Spent(j))
      BY <2>2, <3>1, <3>2, <3>3 DEF StartsAt, Since
    <3>5. HasWindow(j)
      BY <3>2, <3>4 DEF HasWindow
    <3>6. Limit[j] * (2 + forgotten[j]) \in Nat
      BY <3>2
    <3> QED
      BY <2>2, <3>1, <3>5, <3>6 DEF Settled, Spans
  <2>4. Histories
    BY <2>2 DEF Init, Histories
  <2> QED
    BY <2>1, <2>3, <2>4 DEF SpanInv
<1>2. Typed /\ RetryAfterSuffices /\ SpanInv /\ [Next]_vars => (Typed /\ RetryAfterSuffices /\ SpanInv)'
  BY NextStep, SpanStep
<1>3. SpanInv => SpanLimit
  BY DEF SpanInv, Spans, SpanLimit
<1> QED
  BY <1>1, <1>2, <1>3, PTL DEF Spec

-----------------------------------------------------------------------------
\* A sequence of page keys without repetition.
Distinct(m) ==
    /\ m \in Seq(PageKeys)
    /\ \A i, j \in 1..Len(m) : m[i] = m[j] => i = j

\* The bounded Map, with its counters.
MapInv ==
    /\ Distinct(order) /\ Len(order) <= MAX_KEYS
    /\ \A k \in PageKeys : (bucket[k] # NoBucket) <=> (k \in Held)

\* delete(k) takes k out and leaves the others.
LEMMA DeletedKeys ==
  ASSUME Distinct(order), NEW k \in PageKeys
  PROVE  /\ Distinct(Deleted(k))
         /\ {Deleted(k)[i] : i \in 1..Len(Deleted(k))} = Held \ {k}
         /\ Len(Deleted(k)) <= Len(order) /\ (k \in Held => Len(Deleted(k)) < Len(order))
<1>1. /\ order \in Seq(PageKeys) /\ Len(order) \in Nat
      /\ \A i \in 1..Len(order) : order[i] \in PageKeys
      /\ \A i, j \in 1..Len(order) : order[i] = order[j] => i = j
  BY DEF Distinct
<1>2. CASE k \notin Held
  <2>1. Deleted(k) = order
    BY <1>2 DEF Deleted
  <2> QED
    BY <1>1, <1>2, <2>1 DEF Held
<1>3. CASE k \in Held
  <2> DEFINE n == Len(order)
             at == CHOOSE i \in 1..n : order[i] = k
             d == [i \in 1..n - 1 |-> IF i < at THEN order[i] ELSE order[i + 1]]
  <2>1. at \in 1..n /\ order[at] = k
    BY <1>3 DEF Held
  <2>2. Deleted(k) = d
    BY <1>3 DEF Deleted
  <2>3. n \in Nat /\ n - 1 \in Nat
    BY <1>1, <2>1
  <2> HIDE DEF at, n
  <2>4. \A i \in 1..n - 1 : /\ i < at => d[i] = order[i] /\ i \in 1..n
                            /\ ~(i < at) => d[i] = order[i + 1] /\ i + 1 \in 1..n
    BY <2>1, <2>3
  <2>5. \A i \in 1..n - 1 : d[i] \in PageKeys
    BY <1>1, <2>4 DEF n
  <2>6. d \in Seq(PageKeys) /\ Len(d) = n - 1
    BY <2>3, <2>5
  <2>7. \A i, j \in 1..n - 1 : d[i] = d[j] => i = j
    <3> SUFFICES ASSUME NEW i \in 1..n - 1, NEW j \in 1..n - 1, d[i] = d[j]
                 PROVE  i = j
      OBVIOUS
    <3> DEFINE p == IF i < at THEN i ELSE i + 1
               q == IF j < at THEN j ELSE j + 1
    <3>1. p \in 1..n /\ q \in 1..n /\ d[i] = order[p] /\ d[j] = order[q]
      BY <2>4
    <3>2. p = q
      BY <1>1, <3>1 DEF n
    <3> QED
      BY <2>1, <2>3, <3>2
  <2>8. ASSUME NEW i \in 1..n - 1
        PROVE  d[i] \in Held \ {k}
    <3> DEFINE p == IF i < at THEN i ELSE i + 1
    <3>1. p \in 1..n /\ d[i] = order[p] /\ p # at
      BY <2>1, <2>3, <2>4
    <3> QED
      BY <1>1, <2>1, <3>1 DEF Held, n
  <2>9. ASSUME NEW x \in Held \ {k}
        PROVE  \E i \in 1..n - 1 : d[i] = x
    <3>1. PICK p \in 1..n : order[p] = x
      BY DEF Held, n
    <3>2. p # at
      BY <2>1, <3>1
    <3>3. CASE p < at
      <4>1. p \in 1..n - 1 /\ d[p] = order[p]
        BY <2>1, <2>3, <3>3
      <4> QED
        BY <3>1, <4>1
    <3>4. CASE p > at
      <4>1. p - 1 \in 1..n - 1 /\ ~(p - 1 < at) /\ (p - 1) + 1 = p
        BY <2>1, <2>3, <3>4
      <4>2. d[p - 1] = order[p]
        BY <2>4, <4>1
      <4> QED
        BY <3>1, <4>1, <4>2
    <3> QED
      BY <2>1, <2>3, <3>2, <3>3, <3>4
  <2> HIDE DEF d
  <2>10. {d[i] : i \in 1..n - 1} = Held \ {k}
    BY <2>8, <2>9
  <2>11. Distinct(d)
    BY <2>6, <2>7 DEF Distinct
  <2> QED
    BY <2>2, <2>3, <2>6, <2>10, <2>11 DEF n
<1> QED
  BY <1>2, <1>3

\* set(k) puts k in, at the end when the Map did not have it, and grows the Map
\* by that key at most.
LEMMA InsertedKeys ==
  ASSUME RateLimitAssumption, MapInv, NEW k \in PageKeys
  PROVE  LET m == Inserted(k)
         IN  /\ Distinct(m) /\ {m[i] : i \in 1..Len(m)} = Held \cup {k}
             /\ Len(m) \in Nat /\ Len(m) >= 1 /\ Len(m) <= MAX_KEYS + 1
             /\ Len(m) > MAX_KEYS => m[Len(m)] = k /\ Len(m) >= 2
<1>1. /\ order \in Seq(PageKeys) /\ Len(order) \in Nat /\ Len(order) <= MAX_KEYS
      /\ MAX_KEYS \in Nat /\ MAX_KEYS >= 1 /\ Distinct(order)
  BY DEF MapInv, Distinct, RateLimitAssumption
<1>2. CASE k \in Held /\ Elapsed(k)
  <2>1. Inserted(k) = order
    BY <1>2 DEF Inserted
  <2>2. Held = Held \cup {k} /\ Len(order) >= 1
    BY <1>1, <1>2 DEF Held
  <2> QED
    BY <1>1, <2>1, <2>2 DEF Held
<1>3. CASE ~(k \in Held /\ Elapsed(k))
  <2> DEFINE d == Deleted(k)
             m == Append(d, k)
  <2>1. Inserted(k) = m
    BY <1>3 DEF Inserted
  <2>2. /\ Distinct(d) /\ {d[i] : i \in 1..Len(d)} = Held \ {k}
        /\ Len(d) <= Len(order)
    BY <1>1, DeletedKeys
  <2> HIDE DEF d
  <2>3. d \in Seq(PageKeys) /\ Len(d) \in Nat
    BY <2>2 DEF Distinct
  <2>4. /\ m \in Seq(PageKeys) /\ Len(m) = Len(d) + 1 /\ m[Len(m)] = k
        /\ \A i \in 1..Len(d) : m[i] = d[i]
    BY <2>3
  <2> HIDE DEF m
  <2>5. \A i \in 1..Len(d) : m[i] # k
    BY <2>2, <2>4
  <2>6. \A i, j \in 1..Len(m) : m[i] = m[j] => i = j
    <3> SUFFICES ASSUME NEW i \in 1..Len(m), NEW j \in 1..Len(m), m[i] = m[j]
                 PROVE  i = j
      OBVIOUS
    <3>1. i \in 1..Len(d) \/ i = Len(m)
      BY <2>3, <2>4
    <3>2. j \in 1..Len(d) \/ j = Len(m)
      BY <2>3, <2>4
    <3>3. CASE i \in 1..Len(d) /\ j \in 1..Len(d)
      BY <2>2, <2>4, <3>3 DEF Distinct
    <3>4. CASE i = Len(m) \/ j = Len(m)
      BY <2>4, <2>5, <3>1, <3>2, <3>4
    <3> QED
      BY <3>1, <3>2, <3>3, <3>4
  <2>7. {m[i] : i \in 1..Len(m)} = Held \cup {k}
    <3>1. ASSUME NEW i \in 1..Len(m)
          PROVE  m[i] \in Held \cup {k}
      <4>1. i \in 1..Len(d) \/ i = Len(m)
        BY <2>3, <2>4
      <4> QED
        BY <2>2, <2>4, <4>1
    <3>2. ASSUME NEW x \in Held, x # k
          PROVE  \E i \in 1..Len(m) : m[i] = x
      <4>1. PICK i \in 1..Len(d) : d[i] = x
        BY <2>2, <3>2
      <4>2. i \in 1..Len(m) /\ m[i] = x
        BY <2>3, <2>4, <4>1
      <4> QED
        BY <4>2
    <3>3. \E i \in 1..Len(m) : m[i] = k
      BY <2>3, <2>4
    <3> QED
      BY <3>1, <3>2, <3>3
  <2>8. Distinct(m)
    BY <2>4, <2>6 DEF Distinct
  <2>9. /\ Len(m) \in Nat /\ Len(m) >= 1 /\ Len(m) <= MAX_KEYS + 1
        /\ Len(m) > MAX_KEYS => Len(m) >= 2
    BY <1>1, <2>2, <2>3, <2>4
  <2> QED
    BY <2>1, <2>4, <2>7, <2>8, <2>9
<1> QED
  BY <1>2, <1>3

FirstKeys(m, n) == {m[i] : i \in 1..n}

\* Dropping the first keys of a sequence without repetition leaves the others.
LEMMA DroppedKeys ==
  ASSUME NEW m, Distinct(m), NEW e \in Nat, e <= Len(m), NEW t \in Seq(PageKeys),
         Len(t) = Len(m) - e, \A i \in 1..Len(t) : t[i] = m[i + e]
  PROVE  /\ Distinct(t)
         /\ FirstKeys(t, Len(t)) = FirstKeys(m, Len(m)) \ FirstKeys(m, e)
<1>1. /\ m \in Seq(PageKeys) /\ Len(m) \in Nat
      /\ \A i, j \in 1..Len(m) : m[i] = m[j] => i = j
  BY DEF Distinct
<1>2. /\ t \in Seq(PageKeys) /\ Len(t) = Len(m) - e
      /\ \A i \in 1..Len(m) - e : t[i] = m[i + e]
  OBVIOUS
<1>3. \A i \in 1..Len(m) - e : i + e \in 1..Len(m) /\ i + e \notin 1..e
  BY <1>1
<1>4. \A i, j \in 1..Len(t) : t[i] = t[j] => i = j
  <2> SUFFICES ASSUME NEW i \in 1..Len(t), NEW j \in 1..Len(t), t[i] = t[j]
               PROVE  i = j
    OBVIOUS
  <2>1. m[i + e] = m[j + e] /\ i + e \in 1..Len(m) /\ j + e \in 1..Len(m)
    BY <1>2, <1>3
  <2>2. i + e = j + e
    BY <1>1, <2>1
  <2> QED
    BY <2>2
<1>5. ASSUME NEW i \in 1..Len(t)
      PROVE  t[i] \in {m[j] : j \in 1..Len(m)} \ {m[j] : j \in 1..e}
  <2>1. t[i] = m[i + e] /\ i + e \in 1..Len(m) /\ i + e \notin 1..e
    BY <1>2, <1>3
  <2>2. \A j \in 1..e : j \in 1..Len(m)
    BY <1>1
  <2> QED
    BY <1>1, <2>1, <2>2
<1>6. ASSUME NEW i \in 1..Len(m), m[i] \notin {m[j] : j \in 1..e}
      PROVE  \E j \in 1..Len(t) : t[j] = m[i]
  <2>1. i \notin 1..e
    BY <1>6
  <2>2. i - e \in 1..Len(t) /\ (i - e) + e = i
    BY <1>1, <1>2, <2>1
  <2>3. t[i - e] = m[i]
    BY <1>2, <2>2
  <2> QED
    BY <2>2, <2>3
<1>7. {t[i] : i \in 1..Len(t)} = {m[i] : i \in 1..Len(m)} \ {m[i] : i \in 1..e}
  <2> DEFINE T == {t[i] : i \in 1..Len(t)}
             M == {m[i] : i \in 1..Len(m)}
             E == {m[i] : i \in 1..e}
  <2>1. T \subseteq M \ E
    BY <1>5
  <2>2. ASSUME NEW x \in M, x \notin E
        PROVE  x \in T
    <3>1. PICK i \in 1..Len(m) : x = m[i]
      OBVIOUS
    <3>2. PICK j \in 1..Len(t) : t[j] = m[i]
      BY <1>6, <2>2, <3>1
    <3> QED
      BY <3>1, <3>2
  <2> HIDE DEF T, M, E
  <2>3. T = M \ E
    BY <2>1, <2>2
  <2> QED
    BY <2>3 DEF T, M, E
<1>8. Distinct(t)
  BY <1>2, <1>4 DEF Distinct
<1> QED
  BY <1>2, <1>7, <1>8 DEF FirstKeys

\* A request to a page keeps the Map: what eviction takes from the front loses
\* its counter, and the key that was just served is never among it.
LEMMA PageKeepsMap ==
  ASSUME RateLimitAssumption, Typed, MapInv, NEW k \in PageKeys, HitPage(k)
  PROVE  MapInv'
<1> DEFINE m == Inserted(k)
           e == Excess(m)
           evicted == {j \in PageKeys : \E i \in 1..e : m[i] = j}
<1>1. /\ Distinct(m) /\ {m[i] : i \in 1..Len(m)} = Held \cup {k}
      /\ Len(m) \in Nat /\ Len(m) >= 1 /\ Len(m) <= MAX_KEYS + 1
      /\ Len(m) > MAX_KEYS => m[Len(m)] = k /\ Len(m) >= 2
  BY InsertedKeys
<1>2. MAX_KEYS \in Nat /\ MAX_KEYS >= 1 /\ k \in Keys /\ PageKeys \subseteq Keys
  BY DEF RateLimitAssumption, Keys
<1>3. /\ order' = SubSeq(m, e + 1, Len(m))
      /\ bucket' = [j \in Keys |->
            IF j = k THEN Counted(k) ELSE IF j \in evicted THEN NoBucket ELSE bucket[j]]
  BY DEF HitPage
<1> HIDE DEF m
<1>4. e \in {0, 1} /\ e <= Len(m) /\ (e = 0 => Len(m) <= MAX_KEYS) /\ (e = 1 => Len(m) = MAX_KEYS + 1)
  BY <1>1, <1>2 DEF Excess
<1> HIDE DEF e
<1>s. /\ order' \in Seq(PageKeys) /\ Len(order') = Len(m) - e
      /\ \A i \in 1..Len(order') : order'[i] = m[i + e]
  <2>1. m \in Seq(PageKeys)
    BY <1>1 DEF Distinct
  <2> QED
    BY <1>1, <1>3, <1>4, <2>1
<1>5. /\ Distinct(order') /\ Len(order') = Len(m) - e
      /\ FirstKeys(order', Len(order')) = FirstKeys(m, Len(m)) \ FirstKeys(m, e)
  BY <1>1, <1>4, <1>s, DroppedKeys
<1>6. evicted = {m[i] : i \in 1..e}
  <2>1. \A i \in 1..e : i \in 1..Len(m) /\ m[i] \in PageKeys
    BY <1>1, <1>4 DEF Distinct
  <2> QED
    BY <2>1
<1>7. k \notin evicted
  <2> SUFFICES ASSUME NEW i \in 1..e, m[i] = k
               PROVE  FALSE
    OBVIOUS
  <2>1. e = 1 /\ i = 1 /\ Len(m) = MAX_KEYS + 1
    BY <1>4
  <2>2. m[Len(m)] = k /\ Len(m) >= 2 /\ 1 \in 1..Len(m) /\ Len(m) \in 1..Len(m)
    BY <1>1, <1>2, <2>1
  <2> QED
    BY <1>1, <2>1, <2>2 DEF Distinct
<1> HIDE DEF evicted
<1>8. Held' = (Held \cup {k}) \ evicted
  BY <1>1, <1>5, <1>6 DEF Held, FirstKeys
<1>9. Counted(k) # NoBucket
  <2>1. bucket[k] \in [count : Nat, resetAt : Nat]
    BY <1>2 DEF Typed
  <2>2. Counted(k).count >= 1
    BY <2>1 DEF Counted
  <2> QED
    BY <2>2 DEF NoBucket
<1>10. ASSUME NEW j \in PageKeys
       PROVE  (bucket'[j] # NoBucket) <=> (j \in Held')
  <2>1. (bucket[j] # NoBucket) <=> (j \in Held)
    BY DEF MapInv
  <2>2. bucket'[j] = IF j = k THEN Counted(k) ELSE IF j \in evicted THEN NoBucket ELSE bucket[j]
    BY <1>2, <1>3
  <2> QED
    BY <1>7, <1>8, <1>9, <2>1, <2>2
<1>11. Len(order') <= MAX_KEYS
  BY <1>1, <1>2, <1>4, <1>5
<1> QED
  BY <1>5, <1>10, <1>11 DEF MapInv, Distinct

\* The histories of a request are typed.
LEMMA CountsTyped ==
  ASSUME RateLimitAssumption, Histories, requests \in 0..MaxRequests, NEW k \in Keys, Respond(k)
  PROVE  admitted' \in [Keys -> [0..MaxTime + 1 -> Nat]] /\ requests' \in 0..MaxRequests
<1>1. requests' \in 0..MaxRequests
  BY DEF Respond, RateLimitAssumption
<1> DEFINE c == [t \in 0..MaxTime + 1 |-> admitted[k][t] + IF Allowed(k) /\ now < t THEN 1 ELSE 0]
<1>2. admitted' = [admitted EXCEPT ![k] = c]
  BY DEF Respond
<1>3. c \in [0..MaxTime + 1 -> Nat]
  BY DEF Histories
<1> HIDE DEF c
<1> QED
  BY <1>1, <1>2, <1>3 DEF Histories

\* The invariant behind TypeOK.
TypeInv ==
    /\ Typed /\ Histories /\ MapInv
    /\ requests \in 0..MaxRequests

\* A Map without repetition has as many keys as entries.
LEMMA TypeInvTypeOK ==
  ASSUME TypeInv
  PROVE  TypeOK
<1>1. order \in Seq(PageKeys) /\ Len(order) \in Nat /\ \A i, j \in 1..Len(order) : order[i] = order[j] => i = j
  BY DEF TypeInv, MapInv, Distinct
<1>2. order \in [1..Len(order) -> Held] /\ DOMAIN order = 1..Len(order)
  BY <1>1 DEF Held
<1>3. order \in Bijection(1..Len(order), Held)
  BY <1>1, <1>2 DEF Bijection, Injection, Surjection, IsInjective, Held
<1>4. IsFiniteSet(1..Len(order)) /\ Cardinality(1..Len(order)) = Len(order)
  <2> DEFINE n == Len(order)
  <2>1. n \in Nat /\ 1 \in Int
    BY <1>1
  <2> HIDE DEF n
  <2>2. IsFiniteSet(1..n) /\ Cardinality(1..n) = IF 1 > n THEN 0 ELSE n - 1 + 1
    BY <2>1, FS_Interval
  <2>3. (IF 1 > n THEN 0 ELSE n - 1 + 1) = n
    BY <2>1
  <2> QED
    BY <2>2, <2>3 DEF n
<1>5. Cardinality(Held) = Len(order)
  BY <1>3, <1>4, FS_Bijection DEF ExistsBijection
<1> QED
  BY <1>1, <1>5 DEF TypeInv, Typed, Histories, MapInv, TypeOK

\* TypeOK holds for every instance: the bounded Map never passes its cap, holds
\* no key twice, and has exactly the counters that were not evicted.
THEOREM TypeCorrect ==
  ASSUME RateLimitAssumption
  PROVE  Spec => []TypeOK
<1>1. Init => TypeInv /\ RetryAfterSuffices
  <2> SUFFICES ASSUME Init
               PROVE  TypeInv /\ RetryAfterSuffices
    OBVIOUS
  <2>1. Typed /\ RetryAfterSuffices
    BY DEF Init, Typed, RetryAfterSuffices, NoBucket
  <2>2. Histories /\ requests \in 0..MaxRequests
    BY DEF Init, Histories, RateLimitAssumption
  <2>3. Held = {}
    BY DEF Init, Held
  <2>4. Distinct(order) /\ Len(order) <= MAX_KEYS
    BY DEF Init, Distinct, RateLimitAssumption
  <2>5. MapInv
    BY <2>3, <2>4 DEF Init, MapInv, Keys
  <2> QED
    BY <2>1, <2>2, <2>5 DEF TypeInv
<1>2. ASSUME TypeInv, RetryAfterSuffices, [Next]_vars
      PROVE  (TypeInv /\ RetryAfterSuffices)'
  <2>1. Typed' /\ RetryAfterSuffices'
    BY <1>2, NextStep DEF TypeInv
  <2>2. ASSUME NEW k \in PageKeys, HitPage(k)
        PROVE  MapInv' /\ Histories' /\ requests' \in 0..MaxRequests
    <3>1. MapInv'
      BY <1>2, <2>2, PageKeepsMap DEF TypeInv
    <3>2. admitted' \in [Keys -> [0..MaxTime + 1 -> Nat]] /\ requests' \in 0..MaxRequests
      BY <1>2, <2>2, CountsTyped DEF TypeInv, HitPage, Keys
    <3>3. now' = now /\ forgotten' \in [Keys -> Nat]
      BY <1>2, <2>2 DEF HitPage, TypeInv, Histories
    <3> QED
      BY <1>2, <3>1, <3>2, <3>3 DEF TypeInv, Histories
  <2>3. ASSUME NEW k \in ApiKeys, HitApi(k)
        PROVE  MapInv' /\ Histories' /\ requests' \in 0..MaxRequests
    <3>1. admitted' \in [Keys -> [0..MaxTime + 1 -> Nat]] /\ requests' \in 0..MaxRequests
      BY <1>2, <2>3, CountsTyped DEF TypeInv, HitApi, Keys
    <3>2. now' = now /\ forgotten' = forgotten /\ order' = order /\ \A j \in PageKeys : bucket'[j] = bucket[j]
      BY <1>2, <2>3 DEF HitApi, RateLimitAssumption, TypeInv, Typed, Keys
    <3>3. MapInv'
      BY <1>2, <3>2 DEF TypeInv, MapInv, Held, Distinct
    <3> QED
      BY <1>2, <3>1, <3>2, <3>3 DEF TypeInv, Histories
  <2>4. CASE Tick
    <3>1. now' \in 0..MaxTime /\ UNCHANGED <<order, bucket, requests, admitted, forgotten>>
      BY <1>2, <2>4 DEF Tick, TypeInv, Histories, RateLimitAssumption
    <3> QED
      BY <1>2, <2>1, <3>1 DEF TypeInv, MapInv, Held, Distinct, Histories
  <2>5. CASE UNCHANGED vars
    <3>1. UNCHANGED <<now, order, bucket, requests, admitted, forgotten>>
      BY <2>5 DEF vars
    <3> QED
      BY <1>2, <2>1, <3>1 DEF TypeInv, MapInv, Held, Distinct, Histories
  <2> QED
    BY <1>2, <2>1, <2>2, <2>3, <2>4, <2>5 DEF Next, TypeInv
<1>3. TypeInv => TypeOK
  BY TypeInvTypeOK
<1>4. TypeInv /\ RetryAfterSuffices /\ [Next]_vars => (TypeInv /\ RetryAfterSuffices)'
  BY <1>2
<1> QED
  BY <1>1, <1>3, <1>4, PTL DEF Spec

=============================================================================
