----------------------------- MODULE RateLimit ------------------------------
(***************************************************************************)
(* The limit on authentication attempts (src/rateLimit.ts): counters per   *)
(* key, an attempt counting under the address of the client and under the  *)
(* e-mail it names (buildAuthRateLimitKeys).  MemoryRateLimiter decides    *)
(* in one step.  RedisRateLimiter increments every key, sets the expiry of *)
(* a counter it finds at one in a second command, and may die in between.  *)
(* The clock moves by ticks; a window is WindowMs of them.                 *)
(***************************************************************************)
EXTENDS Naturals, FiniteSets

CONSTANTS
    Keys,
    Attempts,       \* attempts that may be under way at once
    WindowMs, Max,  \* authRateLimitWindowMs, authRateLimitMax
    Backends,       \* values of authRateLimitBackend: "memory", "redis"
    MaxNow, MaxCount    \* bounds

RateLimitAssumption ==
    /\ IsFiniteSet(Attempts)
    /\ {WindowMs, Max} \subseteq Nat \ {0}      \* zero switches the limiter off
    /\ Backends \subseteq {"memory", "redis"}

VARIABLES
    backend,
    now,
    count,      \* attempts counted per key; zero is no counter
    resetAt,    \* when the counter goes; zero is never
    attempt,    \* keys left to increment or to expire, and the verdict so far
    admitted,   \* history: attempts admitted in the life of the counter that counts them
    orphaned    \* history: keys whose expiry was lost with the process

vars == <<backend, now, count, resetAt, attempt, admitted, orphaned>>

\* "counted" are the keys whose counter has lived since it counted the attempt.
Record(busy, K) == [busy |-> busy, incr |-> K, expire |-> {}, limited |-> FALSE, counted |-> {}]
Idle == Record(FALSE, {})

Init ==
    /\ backend \in Backends
    /\ now = 0
    /\ count = [k \in Keys |-> 0] /\ resetAt = [k \in Keys |-> 0]
    /\ attempt = [a \in Attempts |-> Idle]
    /\ admitted = [k \in Keys |-> 0]
    /\ orphaned = {}

Expired(k, t) == resetAt[k] # 0 /\ resetAt[k] <= t

\* prune, or Redis's own expiry; getBucket starts a new window.
Tick ==
    LET gone == {k \in Keys : Expired(k, now + 1)} IN
    /\ now < MaxNow
    /\ now' = now + 1
    /\ count' = [k \in Keys |-> IF k \in gone THEN 0 ELSE count[k]]
    /\ resetAt' = [k \in Keys |-> IF k \in gone THEN 0 ELSE resetAt[k]]
    /\ admitted' = [k \in Keys |-> IF k \in gone THEN 0 ELSE admitted[k]]
    /\ attempt' = [a \in Attempts |-> [attempt[a] EXCEPT !.counted = @ \ gone]]
    /\ UNCHANGED <<backend, orphaned>>

Admit(K) == admitted' = [k \in Keys |-> admitted[k] + IF k \in K THEN 1 ELSE 0]

-----------------------------------------------------------------------------
(* MemoryRateLimiter.check                                                 *)

Limited(k) == count[k] >= Max

Check(K) ==
    LET open == [k \in Keys |-> IF k \in K /\ resetAt[k] = 0 THEN now + WindowMs ELSE resetAt[k]]
    IN
    /\ backend = "memory"
    /\ resetAt' = open
    /\ IF \E k \in K : Limited(k)
       THEN UNCHANGED <<count, admitted>>
       ELSE /\ count' = [k \in Keys |-> count[k] + IF k \in K THEN 1 ELSE 0]
            /\ Admit(K)
    /\ UNCHANGED <<backend, now, attempt, orphaned>>

-----------------------------------------------------------------------------
(* RedisRateLimiter.check                                                  *)

Begin(a, K) ==
    /\ backend = "redis"
    /\ ~attempt[a].busy
    /\ attempt' = [attempt EXCEPT ![a] = Record(TRUE, K)]
    /\ UNCHANGED <<backend, now, count, resetAt, admitted, orphaned>>

\* (mutant) The verdict compares with the bound inclusively.
OverOne(n) == n > Max + 1

Over(n) == n > Max

NeedsExpiry(n) == n = 1

Incr(a, k) ==
    LET n == count[k] + 1
        r == attempt[a]
    IN
    /\ k \in r.incr
    /\ n <= MaxCount
    /\ count' = [count EXCEPT ![k] = n]
    /\ attempt' = [attempt EXCEPT ![a] =
          [busy |-> r.busy, incr |-> r.incr \ {k}, counted |-> r.counted \cup {k},
           limited |-> r.limited \/ Over(n),
           expire |-> IF NeedsExpiry(n) THEN r.expire \cup {k} ELSE r.expire]]
    /\ UNCHANGED <<backend, now, resetAt, admitted, orphaned>>

PExpire(a, k) ==
    /\ k \in attempt[a].expire
    /\ resetAt' = [resetAt EXCEPT ![k] = now + WindowMs]
    /\ attempt' = [attempt EXCEPT ![a].expire = @ \ {k}]
    /\ UNCHANGED <<backend, now, count, admitted, orphaned>>

\* Promise.all is through: every key has its count and its time to live.
Decide(a) ==
    LET r == attempt[a] IN
    /\ r.busy /\ r.incr = {} /\ r.expire = {}
    /\ attempt' = [attempt EXCEPT ![a] = Idle]
    /\ IF r.limited THEN UNCHANGED admitted ELSE Admit(r.counted)
    /\ UNCHANGED <<backend, now, count, resetAt, orphaned>>

\* The process dies, or loses its connection, between two commands.
Die(a) ==
    /\ attempt[a].busy
    /\ attempt' = [attempt EXCEPT ![a] = Idle]
    /\ orphaned' = orphaned \cup attempt[a].expire
    /\ UNCHANGED <<backend, now, count, resetAt, admitted>>

Next ==
    \/ Tick
    \/ \E K \in SUBSET Keys \ {{}} : Check(K)
    \/ \E a \in Attempts :
          \/ \E K \in SUBSET Keys \ {{}} : Begin(a, K)
          \/ \E k \in Keys : Incr(a, k) \/ PExpire(a, k)
          \/ Decide(a) \/ Die(a)

Spec == Init /\ [][Next]_vars

-----------------------------------------------------------------------------
(* Properties                                                              *)

\* Whatever attempts run at once, no key admits more than Max attempts in one
\* life of its counter, also when an attempt counts under several keys.
AtMostMaxAdmitted == \A k \in Keys : admitted[k] <= Max

\* A counter is never there for good: it expires, or the attempt that opened it
\* is about to see to it, or died before it could.
CountersExpire ==
    \A k \in Keys :
        count[k] > 0 /\ resetAt[k] = 0 =>
            k \in orphaned \/ \E a \in Attempts : k \in attempt[a].expire
=============================================================================
