------------------------------ MODULE RateLimiter ------------------------------
(***************************************************************************)
(* MemoryRateLimiter (backend/framework/rate_limiter.go), as the HTTP      *)
(* handlers call it (http_rate_limit.go): a token bucket per key.  Allow   *)
(* reads the clock before it takes the mutex, so calls can be overtaken.   *)
(* Tokens are float64 in the code: a refill, and the wait for the rest of  *)
(* a token, are rounded.  Here they are counted in units so small that the *)
(* exact refill of a nanosecond (a tick) is a whole number of them, and    *)
(* what the code computes is any number within Error of the exact one.     *)
(***************************************************************************)
EXTENDS Integers, Sequences, FiniteSets, FiniteSetsExt

CONSTANTS
  Keys,       \* rate limit keys (clients)
  Clients,    \* handlers in Allow at a time
  Requests, Window, MaxKeys,
  Grain,      \* units of a Window-th of a token
  Error,      \* the largest error of a computation, in units
  MaxNow      \* bound on the clock

\* The error is small against a nanosecond's refill, as it is for windows of up to
\* days: float64 has 53 bits, and a window has fewer than 2^50 nanoseconds.
ASSUME LimiterAssumption ==
  /\ {Requests, Window, MaxKeys, Grain, MaxNow} \subseteq Nat \ {0} /\ Error \in Nat
  /\ 3 * Error <= Requests * Grain

VARIABLES
  time,      \* what limiter.now() returns
  buckets,   \* the keys with a bucket, and each one's tokens and last
  asking,    \* each handler: the key it asks about and its now, or nothing
  grants,    \* history: the times of the requests allowed, per key
  promised,  \* history: per key, when a refused client was told to retry, if
             \* nobody has asked since, and whether it was on time before
  broken,    \* history: a client that came back on time was refused twice, or
             \* for longer than a tick
  overtaken  \* history: a call took the mutex after one with a later now

limiterVars == <<time, buckets, asking, grants, promised, broken, overtaken>>

Token == Window * Grain
Rate == Requests * Grain   \* refilled per tick
Full == Requests * Token
Rounded(n) == n - Error .. n + Error
Bucketed == {k \in Keys : buckets[k] # {}}
Bucket(k) == CHOOSE b \in buckets[k] : TRUE
Ceil(n, d) == (n + d - 1) \div d

LimiterInit ==
  /\ time = 0 /\ overtaken = FALSE /\ broken = FALSE
  /\ buckets = [k \in Keys |-> {}]
  /\ asking = [c \in Clients |-> {}]
  /\ grants = [k \in Keys |-> <<>>] /\ promised = [k \in Keys |-> {}]

LimiterTick ==
  /\ time < MaxNow /\ time' = time + 1
  /\ UNCHANGED <<buckets, asking, grants, promised, broken, overtaken>>

\* Allow reads the clock; the key is the handler's (client address, principal).
ReadsClock(c, k) ==
  /\ asking[c] = {} /\ asking' = [asking EXCEPT ![c] = {[key |-> k, now |-> time]}]
  /\ UNCHANGED <<time, buckets, grants, promised, broken, overtaken>>

\* pruneFullBuckets: a bucket untouched for a window would be full again.
pruneFullBuckets(now) == [k \in Keys |-> {b \in buckets[k] : now - b.last < Window}]

\* capacityDecision: when the first of the buckets in the way becomes prunable.
capacityDecision(now) ==
  Min({Window} \cup {w \in {Bucket(k).last + Window - now : k \in Bucketed} : w > 0})

Refilled(b, now) ==
  IF now <= b.last THEN {b.tokens}
  ELSE {Min({Full, x}) : x \in Rounded(b.tokens + (now - b.last) * Rate)}
\* Mutant: the wait is rounded down.
retryAfterRoundedDown(tokens) == {Max({1, x \div Rate}) : x \in Rounded(Token - tokens)}
retryAfter(tokens) == {Max({1, Ceil(x, Rate)}) : x \in Rounded(Token - tokens)}

\* The rest of Allow, under the mutex.
Decisions(k, now) ==
  LET table == IF buckets[k] = {} THEN pruneFullBuckets(now) ELSE buckets
      known == {j \in Keys : table[j] # {}}
      stored(n) == [table EXCEPT ![k] = {[tokens |-> n, last |-> now]}]
      decided(n) ==
        IF n >= Token THEN {[allowed |-> TRUE, wait |-> 0, table |-> stored(n - Token)]}
        ELSE {[allowed |-> FALSE, wait |-> w, table |-> stored(n)] : w \in retryAfter(n)}
  IN IF buckets[k] = {} /\ Cardinality(known) >= MaxKeys
     THEN {[allowed |-> FALSE, wait |-> capacityDecision(now), table |-> table]}
     ELSE UNION {decided(n) : n \in IF buckets[k] = {} THEN {Full} ELSE Refilled(Bucket(k), now)}

\* The promises to a key whose time has come.
Due(k, now) == {p \in promised[k] : now >= p.at}
Allow(c) ==
  /\ \E call \in asking[c] : \E d \in Decisions(call.key, call.now) :
       LET k == call.key
           due == Due(k, call.now)
           late == \E j \in Bucketed : Bucket(j).last > call.now
       IN /\ buckets' = d.table
          /\ grants' = [grants EXCEPT ![k] = IF d.allowed THEN Append(@, call.now) ELSE @]
          /\ broken' = (broken \/ (~ d.allowed /\ \E p \in due : p.again \/ d.wait > 1))
          /\ promised' = [j \in Keys |-> IF j = k /\ ~ d.allowed
                                         THEN {[at |-> call.now + d.wait, again |-> due # {}]} ELSE {}]
          /\ overtaken' = (overtaken \/ late)
  /\ asking' = [asking EXCEPT ![c] = {}]
  /\ UNCHANGED time

LimiterNext ==
  \/ LimiterTick
  \/ \E c \in Clients : Allow(c) \/ \E k \in Keys : ReadsClock(c, k)

-----------------------------------------------------------------------------
\* Between any two of its requests a key gets no more than a burst and what is
\* refilled in that time, an error per tick included, whatever is pruned, refused
\* or evicted.
BudgetKept ==
  \A k \in Keys : \A i \in DOMAIN grants[k] : \A j \in i .. Len(grants[k]) :
    (j - i + 1) * Token <= Full + (grants[k][j] - grants[k][i]) * (Rate + Error)

\* As long as no call is overtaken between its clock and the mutex, a key gets
\* neither more than its budget nor less than it was promised: a client that asks
\* again when RetryAfter told it to, with nobody in between, is served, also when the
\* limiter was full of other keys, or is refused for one nanosecond more because of
\* the rounding, and served after that.
BudgetHonest == ~ overtaken => BudgetKept /\ ~ broken
=============================================================================
