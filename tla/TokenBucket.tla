----------------------------- MODULE TokenBucket -----------------------------
(* connectors/ratelimit/limiter.py: token buckets in Redis, shared by every  *)
(* process that calls one provider, and the limiter each process falls back  *)
(* on when Redis fails.  A script is atomic; the await around it is not, so  *)
(* a script may run with a time that was read before another caller's.       *)
EXTENDS Integers, Sequences, FiniteSetsExt

CONSTANTS
    Clients,    \* the processes that draw on the buckets
    Buckets,    \* the sequence of keys one acquire takes, in its order
    Cost,       \* units in a token
    Capacity,   \* units a bucket holds
    Refill,     \* units a bucket gains in a tick
    Late,       \* ticks a time may be old when its script runs
    Patience,   \* request_timeout_seconds: the timeout of an acquire
    Hints,      \* what a response tells: [remaining (-1 unknown), reset (ticks from now, 0 none)]
    MaxCalls,   \* acquires made
    MaxFaults,  \* scripts Redis refuses
    TickEnd     \* the clock stops here

ASSUME BucketAssumption ==
    /\ Cost \in Nat \ {0} /\ Refill \in Nat \ {0}
    /\ Capacity \in Nat /\ Capacity >= Cost
    /\ {Late, Patience, MaxCalls, MaxFaults, TickEnd} \subseteq Nat
    /\ Hints \subseteq [remaining : Nat \cup {-1}, after : BOOLEAN, reset : Nat]

Keys == {Buckets[j] : j \in DOMAIN Buckets}

ASSUME KeysAssumption == Buckets \in Seq(Keys) /\ Buckets # <<>>

\* A script is not so late that an empty bucket has filled since its time was
\* read; else a bucket may expire, and so be full, before its grants are earned.
ASSUME LateAssumption == Late * Refill <= Capacity

\* The policy of the fallback, FAIL_OPEN_FRACTION of either, in half units.
HalfCost     == 2 * Cost
HalfCapacity == HalfCost * Max({1, Capacity \div (2 * Cost)})

VARIABLES
    now,       \* the wall clock
    bucket,    \* Redis: [tokens, last, expires], absent from `expires` on
    fallback,  \* per caller, its InMemoryLimiter: [tokens, last]
    acquire,   \* per caller: [at, next (index in Buckets), left (keys to give back),
               \*              until (deadline), wake]
    made,      \* acquires begun
    faults,    \* scripts refused
    ideal,     \* history: a bucket that is refilled by the clock and pays every grant
    regained   \* history: what scripts that ran late let a bucket earn twice

bucketVars == <<now, bucket, fallback, acquire, made, faults, ideal, regained>>

Absent == [tokens |-> 0, last |-> 0, expires |-> 0]
AtRest == [at |-> "rest", next |-> 1, left |-> <<>>, until |-> 0, wake |-> 0]

BucketInit ==
    /\ now = 0
    /\ bucket   = [k \in Keys |-> Absent]
    /\ fallback = [c \in Clients |-> [k \in Keys |-> [tokens |-> HalfCapacity, last |-> 0]]]
    /\ acquire  = [c \in Clients |-> AtRest]
    /\ made = 0 /\ faults = 0
    /\ ideal    = [k \in Keys |-> Capacity]
    /\ regained = [k \in Keys |-> 0]

-----------------------------------------------------------------------------
(* The scripts, on the bucket as Redis holds it.                            *)

\* ttl_seconds: two full refills.
Ttl == (2 * Capacity + Refill - 1) \div Refill

\* A time read up to Late ticks ago.
Times == {t \in (now - Late)..now : t >= 0}

Gone(k) == bucket[k].expires <= now

\* Refilled to time t; an absent bucket starts full.  Time that seems to run
\* backwards refills nothing.
Current(k, t) ==
    IF Gone(k) THEN Capacity
    ELSE Min({Capacity, bucket[k].tokens + Max({0, t - bucket[k].last}) * Refill})

\* The clock of the bucket is written even when it was ahead of t: turned back,
\* it lets the bucket earn the same ticks again.
Regained(k, t) ==
    IF Gone(k) THEN 0 ELSE Max({0, Min({bucket[k].last, now}) - t}) * Refill

Written(k, tokens, t, ttl) ==
    [bucket EXCEPT ![k] = [tokens |-> tokens, last |-> t, expires |-> now + ttl]]

\* ACQUIRE_LUA: the token is taken if it is there, and the bucket is written
\* back either way.
Acquired(k, t, paid) ==
    /\ bucket' = Written(k, Current(k, t) - paid, t, Ttl)
    /\ ideal' = [ideal EXCEPT ![k] = @ - paid]
    /\ regained' = [regained EXCEPT ![k] = @ + Regained(k, t)]

\* RELEASE_LUA: the credit is capped, and a bucket that is gone is full anyway.
Released(k) ==
    IF Gone(k) THEN bucket
    ELSE Written(k, Min({Capacity, bucket[k].tokens + Cost}), bucket[k].last, Ttl)

\* The provider's count replaces ours, higher or lower.
ClampedBothWays(k, t, hint) ==
    [tokens |-> Min({Max({0, hint.remaining}) * Cost, Capacity}), last |-> t, expires |-> now + Ttl]

\* OBSERVE_LUA: the provider's count replaces a higher one, never a lower; a
\* bucket that is empty until a known reset starts to earn only then.
Clamped(k, t, hint) ==
    LET said   == IF hint.remaining = -1 /\ hint.after THEN 0 ELSE hint.remaining
        target == IF said = -1 THEN Current(k, t) ELSE Min({Current(k, t), Min({said * Cost, Capacity})})
        park   == hint.reset > 0 /\ target < Cost
    IN  IF target >= Current(k, t) /\ ~park THEN bucket[k]
        ELSE [tokens |-> target, last |-> IF park THEN t + hint.reset ELSE t,
              expires |-> now + Ttl + hint.reset]

-----------------------------------------------------------------------------
(* TokenBucketLimiter.acquire.                                              *)

At(c, at) == acquire[c].at = at
Become(c, changes) == acquire' = [acquire EXCEPT ![c] = changes]
Over(at) == [AtRest EXCEPT !.at = at]

BeginAcquire(c) ==
    /\ At(c, "rest") /\ made < MaxCalls /\ made' = made + 1
    /\ Become(c, [acquire[c] EXCEPT !.at = "take", !.next = 1, !.until = now + Patience])
    /\ UNCHANGED <<now, bucket, fallback, faults, ideal, regained>>

\* The script of the next key grants a token: with the last key the acquire
\* is over.
Take(c) ==
    /\ At(c, "take")
    /\ \E t \in Times :
          /\ Current(Buckets[acquire[c].next], t) >= Cost
          /\ Acquired(Buckets[acquire[c].next], t, Cost)
    /\ Become(c, IF acquire[c].next = Len(Buckets) THEN Over("answer")
                 ELSE [acquire[c] EXCEPT !.next = @ + 1])
    /\ UNCHANGED <<made, faults, now, fallback>>

\* It does not: what was taken is given back, key by key, before the wait.
Denied(c) ==
    /\ At(c, "take")
    /\ \E t \in Times : \E k \in {Buckets[acquire[c].next]} :
          /\ Current(k, t) < Cost
          /\ Acquired(k, t, 0)
          /\ Become(c, [acquire[c] EXCEPT
                 !.at = "give", !.left = SubSeq(Buckets, 1, acquire[c].next - 1),
                 !.wake = (Cost - Current(k, t) + Refill - 1) \div Refill])
    /\ UNCHANGED <<made, faults, now, fallback>>

Give(c) ==
    /\ At(c, "give") /\ acquire[c].left # <<>>
    /\ bucket' = Released(Head(acquire[c].left))
    /\ ideal' = [ideal EXCEPT ![Head(acquire[c].left)] = Min({Capacity, @ + Cost})]
    /\ Become(c, [acquire[c] EXCEPT !.left = Tail(@)])
    /\ UNCHANGED <<made, faults, now, fallback, regained>>

\* Redis refuses the release: the token is lost, the others are tried.
GiveFails(c) ==
    /\ At(c, "give") /\ acquire[c].left # <<>>
    /\ Become(c, [acquire[c] EXCEPT !.left = Tail(@)])
    /\ faults < MaxFaults /\ faults' = faults + 1
    /\ UNCHANGED <<made, now, bucket, fallback, ideal, regained>>

\* Sleeps until a token is due, with jitter, or raises when that is too late.
SleepOrRaise(c, retry, asleep) ==
    \E wait \in {retry, retry + 1} :
        Become(c, IF wait > acquire[c].until - now THEN Over("rest")
                  ELSE [acquire[c] EXCEPT !.at = asleep, !.wake = now + wait])

Blocked(c) ==
    /\ At(c, "give") /\ acquire[c].left = <<>>
    /\ SleepOrRaise(c, acquire[c].wake, "sleep")
    /\ UNCHANGED <<made, faults, now, bucket, fallback, ideal, regained>>

Wake(c) ==
    /\ At(c, "sleep") /\ acquire[c].wake <= now
    /\ Become(c, [acquire[c] EXCEPT !.at = "take", !.next = 1])
    /\ UNCHANGED <<made, faults, now, bucket, fallback, ideal, regained>>

\* Redis fails: what was taken stays taken, and the process asks its own
\* limiter for all of the keys with a new deadline.
Degrade(c) ==
    /\ At(c, "take")
    /\ Become(c, [acquire[c] EXCEPT !.at = "local", !.until = now + Patience, !.wake = now])
    /\ faults < MaxFaults /\ faults' = faults + 1
    /\ UNCHANGED <<made, now, bucket, fallback, ideal, regained>>

\* InMemoryLimiter.acquire, under its lock: all of the keys or none of them.
Refilled(c, k) ==
    Min({HalfCapacity, fallback[c][k].tokens + (now - fallback[c][k].last) * Refill})

LocalGrant(c) ==
    /\ At(c, "local") /\ acquire[c].wake <= now
    /\ \A k \in Keys : Refilled(c, k) >= HalfCost
    /\ fallback' = [fallback EXCEPT ![c] =
                       [k \in Keys |-> [tokens |-> Refilled(c, k) - HalfCost, last |-> now]]]
    /\ Become(c, Over("answer"))
    /\ UNCHANGED <<made, faults, now, bucket, ideal, regained>>

LocalBlocked(c) ==
    /\ At(c, "local") /\ acquire[c].wake <= now
    /\ \E k \in Keys :
          /\ Refilled(c, k) < HalfCost
          /\ SleepOrRaise(c, (HalfCost - Refilled(c, k) + Refill - 1) \div Refill, "local")
    /\ UNCHANGED <<made, faults, now, bucket, fallback, ideal, regained>>

\* observe: the headers of the response reach the keys in turn, all of them
\* or as many as Redis takes; or there are none.
Observe(c) ==
    /\ At(c, "answer")
    /\ \/ \E hint \in Hints, t \in Times, n \in DOMAIN Buckets :
             /\ bucket' = [k \in Keys |-> IF \E j \in 1..n : Buckets[j] = k
                                          THEN Clamped(k, t, hint) ELSE bucket[k]]
             /\ regained' = [k \in Keys |-> regained[k] + Regained(k, bucket'[k].last)]
       \/ UNCHANGED <<bucket, regained>>
    /\ Become(c, Over("rest"))
    /\ UNCHANGED <<made, faults, now, fallback, ideal>>

\* The clock ticks, Redis expires keys, and the abstract bucket earns.
BucketTick ==
    /\ now < TickEnd
    /\ now' = now + 1
    /\ ideal' = [k \in Keys |-> Min({Capacity, ideal[k] + Refill})]
    /\ bucket' = [k \in Keys |-> IF bucket[k].expires <= now' THEN Absent ELSE bucket[k]]
    /\ UNCHANGED <<made, faults, fallback, acquire, regained>>

BucketNext ==
    \/ BucketTick
    \/ \E c \in Clients :
          \/ BeginAcquire(c) \/ Take(c) \/ Denied(c) \/ Give(c) \/ GiveFails(c)
          \/ Blocked(c) \/ Wake(c) \/ Degrade(c) \/ LocalGrant(c) \/ LocalBlocked(c)
          \/ Observe(c)

BucketSpec == BucketInit /\ [][BucketNext]_bucketVars

-----------------------------------------------------------------------------
(* Properties.                                                              *)

BucketTypeOK ==
    /\ now \in 0..TickEnd
    /\ \A k \in Keys : bucket[k].tokens \in 0..Capacity /\ regained[k] \in Nat
    /\ \A c \in Clients :
          /\ acquire[c].at \in {"rest", "take", "give", "sleep", "local", "answer"}
          /\ \A k \in Keys : fallback[c][k].tokens \in 0..HalfCapacity

\* ACQUIRE_LUA, RELEASE_LUA, OBSERVE_LUA: whoever draws on a bucket, through
\* expiry, giving back and the provider's counts, it grants no more than one
\* bucket of its capacity and refill would - apart from the ticks a late
\* script lets it earn, once when it is full and again for every script that
\* turns the bucket's clock back.
GrantsBounded == \A k \in Keys : ideal[k] + regained[k] >= - Late * Refill
=============================================================================
