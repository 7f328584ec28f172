--------------------------- MODULE Clients_proofs ---------------------------
(***************************************************************************)
(* Proofs about what stands between this program and the services it pays   *)
(* or is limited by: the token buckets of connectors/ratelimit, the circuit *)
(* breaker of the connectors, the tokens of an account, and the budget of a *)
(* run's model calls.  Each part is about its own module and for any value  *)
(* of its constants; no part needs another.                                 *)
(***************************************************************************)
EXTENDS ModelCalls, TokenRefresh, CircuitBreaker, TokenBucket, TLAPS

-----------------------------------------------------------------------------
(* TokenBucket.                                                             *)

\* What n ticks bring.
Earn(n) == n * Refill

LEMMA EarnAdds ==
    /\ \A n \in Int : Earn(n) \in Int
    /\ \A m, n, d \in Int : m = n + d => Earn(m) = Earn(n) + Earn(d)
    /\ \A m, n \in Int : m <= n => Earn(m) <= Earn(n)
    /\ Earn(0) = 0
<1>1. Refill \in Nat \ {0}
  BY BucketAssumption
<1>2. \A m, n \in Int : m <= n => m * Refill <= n * Refill
  BY <1>1
<1>3. \A n, d \in Int : (n + d) * Refill = n * Refill + d * Refill
  BY <1>1
<1>4. QED
  BY <1>1, <1>2, <1>3 DEF Earn

LEMMA EarnIsInt == (\A n \in Int : Earn(n) \in Int) /\ (\A n \in Nat : Earn(n) \in Nat)
<1>1. \A n \in Int : Earn(n) \in Int
  BY EarnAdds
<1>2. ASSUME NEW n \in Nat PROVE Earn(n) >= 0
  BY EarnAdds
<1>3. QED
  BY <1>1, <1>2

LEMMA LeastOfTwo ==
    \A a, b \in Int : Min({a, b}) = (IF a <= b THEN a ELSE b) /\ Max({a, b}) = (IF a >= b THEN a ELSE b)
<1>1. \A a, b \in Int : Min({a, b}) = (IF a <= b THEN a ELSE b)
  BY DEF Min
<1>2. \A a, b \in Int : Max({a, b}) = (IF a >= b THEN a ELSE b)
  BY DEF Max
<1>3. QED
  BY <1>1, <1>2

LEMMA RoundsUp == ASSUME NEW a \in Int, NEW b \in Nat \ {0}
   PROVE (a + b - 1) \div b \in Int /\ ((a + b - 1) \div b) * b >= a
OBVIOUS

LEMMA TtlFills == Ttl \in Nat \ {0} /\ Earn(Ttl) >= 2 * Capacity
<1> DEFINE twice == 2 * Capacity
<1>1. twice \in Int /\ twice > 0 /\ Refill \in Nat \ {0}
  BY BucketAssumption
<1>2. Ttl = (twice + Refill - 1) \div Refill
  BY DEF Ttl
<1> HIDE DEF twice
<1>3. Ttl \in Int /\ Ttl * Refill >= twice
  BY <1>1, <1>2, RoundsUp
<1>4. Earn(Ttl) >= twice
  BY <1>3 DEF Earn
<1>5. ~(Ttl <= 0)
  <2>1. Ttl <= 0 => Earn(Ttl) <= Earn(0)
    BY <1>3, EarnAdds
  <2>2. Earn(0) = 0 /\ Earn(Ttl) \in Int
    BY <1>3, EarnAdds
  <2>3. QED
    BY <1>1, <1>4, <2>1, <2>2
<1>6. QED
  BY <1>3, <1>4, <1>5 DEF twice

\* The hand of a bucket, unless an unknown reset is still ahead of it.
ClockOf(b, n) == IF b.last <= n THEN b.last ELSE n

\* What a bucket b may hold at time n when the ideal one, and what was regained,
\* come to sure.
Sound(b, sure, n) ==
    IF b.expires <= n THEN sure >= Capacity
    ELSE /\ \/ sure >= Capacity
            \/ sure >= b.tokens + Earn(n) - Earn(Late) - Earn(ClockOf(b, n))
         /\ sure + Earn(b.expires) - Earn(n) >= Capacity

Stored == [tokens : 0..Capacity, last : Int, expires : Int]

LEMMA BucketNumbers ==
    /\ Capacity \in Nat /\ Cost \in Nat \ {0} /\ Late \in Nat /\ Refill \in Nat \ {0}
    /\ Earn(Late) \in Nat /\ Earn(Late) <= Capacity
<1>1. Earn(Late) <= Capacity
  BY LateAssumption DEF Earn
<1>2. Earn(Late) >= Earn(0)
  BY EarnAdds, BucketAssumption
<1>3. QED
  BY <1>1, <1>2, EarnAdds, BucketAssumption

\* A bucket that is written anew is sound if what it holds is.
LEMMA WrittenIsSound ==
    ASSUME NEW b \in Stored, NEW sure \in Int, NEW n \in Int,
           b.expires >= n + Ttl,
           \/ sure >= Capacity
           \/ sure >= b.tokens + Earn(n) - Earn(Late) - Earn(ClockOf(b, n))
    PROVE  Sound(b, sure, n)
<1>1. b.expires \in Int /\ b.last \in Int /\ b.tokens \in 0..Capacity /\ ClockOf(b, n) \in Int
  BY DEF Stored, ClockOf
<1>2. ~(b.expires <= n)
  BY <1>1, TtlFills
<1>3. Earn(b.expires) >= Earn(n) + Earn(Ttl) /\ Earn(n) >= Earn(ClockOf(b, n))
  <2>1. PICK e \in Int : e = n + Ttl
    BY TtlFills
  <2>2. e <= b.expires /\ Ttl \in Int
    BY <2>1, TtlFills
  <2>3. Earn(e) <= Earn(b.expires)
    BY <1>1, <2>2, EarnAdds
  <2>4. Earn(e) = Earn(n) + Earn(Ttl)
    BY <2>1, <2>2, EarnAdds
  <2>5. ClockOf(b, n) <= n
    BY <1>1 DEF ClockOf
  <2>6. Earn(ClockOf(b, n)) <= Earn(n)
    BY <1>1, <2>5, EarnAdds
  <2>7. QED
    BY <2>3, <2>4, <2>6
<1>4. Earn(n) \in Int /\ Earn(b.expires) \in Int /\ Earn(Ttl) \in Int /\ Earn(ClockOf(b, n)) \in Int
  <2>1. Ttl \in Int
    BY TtlFills
  <2>2. QED
    BY <1>1, <2>1, EarnAdds
<1>5. sure + Earn(b.expires) - Earn(n) >= Capacity
  <2>1. sure + Earn(Late) >= 0
    BY <1>1, <1>3, <1>4, BucketNumbers
  <2>2. QED
    BY <1>3, <1>4, <2>1, TtlFills, BucketNumbers
<1>6. QED
  BY <1>2, <1>5 DEF Sound

\* What a script finds in a bucket at a time t up to Late ago.
LEMMA CurrentIs ==
    ASSUME NEW k \in Keys, NEW t \in Int, bucket[k] \in Stored, now \in Int
    PROVE  /\ Current(k, t) \in 0..Capacity
           /\ ~Gone(k) =>
                 /\ t <= bucket[k].last => Current(k, t) = bucket[k].tokens
                 /\ t >= bucket[k].last =>
                       Current(k, t) <= bucket[k].tokens + Earn(t) - Earn(bucket[k].last)
<1>1. /\ bucket[k].tokens \in 0..Capacity /\ bucket[k].last \in Int /\ bucket[k].expires \in Int
      /\ Capacity \in Nat
  BY BucketNumbers DEF Stored
<1> DEFINE since == t - bucket[k].last
           d == Max({0, since})
<1>11. since \in Int /\ (since <= 0 <=> t <= bucket[k].last) /\ t = bucket[k].last + since
  BY <1>1
<1> HIDE DEF since
<1>2. d = IF since <= 0 THEN 0 ELSE since
  <2>1. d = IF 0 >= since THEN 0 ELSE since
    <3>1. 0 \in Int /\ since \in Int
      BY <1>11
    <3>2. QED
      BY <3>1, LeastOfTwo, ZenonT(20)
  <2>2. QED
    BY <1>11, <2>1
<1>3. d \in Nat
  BY <1>11, <1>2
<1> HIDE DEF d
<1>4. d * Refill = Earn(d) /\ Earn(d) \in Nat
  <2>1. Earn(d) >= Earn(0) /\ Earn(0) = 0 /\ Earn(d) \in Int
    BY <1>3, EarnAdds
  <2>2. QED
    BY <2>1 DEF Earn
<1>5. Current(k, t) = IF Gone(k) THEN Capacity ELSE Min({Capacity, bucket[k].tokens + Earn(d)})
  BY <1>4 DEF Current, d, since
<1>6. Min({Capacity, bucket[k].tokens + Earn(d)}) =
          IF Capacity <= bucket[k].tokens + Earn(d) THEN Capacity ELSE bucket[k].tokens + Earn(d)
  <2> DEFINE full == bucket[k].tokens + Earn(d)
  <2>1. full \in Int
    BY <1>1, <1>4
  <2> HIDE DEF full
  <2>2. Min({Capacity, full}) = IF Capacity <= full THEN Capacity ELSE full
    BY <1>1, <2>1, LeastOfTwo
  <2>3. QED
    BY <2>2 DEF full
<1>7. t <= bucket[k].last => Earn(d) = 0
  BY <1>11, <1>2, EarnAdds
<1>8. t >= bucket[k].last => Earn(t) = Earn(bucket[k].last) + Earn(d)
  <2>1. t >= bucket[k].last => d = since
    BY <1>1, <1>11, <1>2
  <2> DEFINE from == bucket[k].last
  <2>2. t >= from => t = from + d
    BY <1>11, <2>1
  <2>3. t \in Int /\ from \in Int /\ d \in Int
    BY <1>1, <1>3
  <2> HIDE DEF from
  <2>4. t >= from => Earn(t) = Earn(from) + Earn(d)
    BY <2>2, <2>3, EarnAdds
  <2>5. QED
    BY <2>4 DEF from
<1>9. Earn(t) \in Int /\ Earn(bucket[k].last) \in Int
  BY <1>1, EarnAdds
<1>10. QED
  BY <1>1, <1>4, <1>5, <1>6, <1>7, <1>8, <1>9

\* What a script writes is sound when it holds no more than the script found and
\* did not grant, and its hand is not behind the time the script came with.
LEMMA ScriptKeeps ==
    ASSUME NEW k \in Keys, NEW sure \in Int, now \in Nat, bucket[k] \in Stored,
           Sound(bucket[k], sure, now),
           NEW t \in Times, NEW b \in Stored, NEW paid \in Nat,
           b.last >= t, b.expires >= now + Ttl, b.tokens + paid <= Current(k, t)
    PROVE  /\ Regained(k, b.last) \in Nat
           /\ Sound(b, sure - paid + Regained(k, b.last), now)
<1> DEFINE L == bucket[k].last
           hand == ClockOf(bucket[k], now)
           u == b.last
           m == ClockOf(b, now)
           cur == Current(k, t)
           held == bucket[k].tokens
<1>1. /\ held \in 0..Capacity /\ L \in Int /\ u \in Int /\ t \in Int /\ now \in Int
      /\ b.tokens \in 0..Capacity /\ b.expires \in Int
      /\ t <= now /\ t >= now - Late /\ t <= u
  BY BucketNumbers DEF Stored, Times
<1>2. /\ hand \in Int /\ hand <= L /\ hand <= now /\ (hand = L \/ hand = now)
      /\ hand = IF L <= now THEN L ELSE now
  BY <1>1 DEF ClockOf
<1>3. /\ m \in Int /\ m >= t /\ m <= now /\ m <= u /\ (m = u \/ m = now)
  BY <1>1 DEF ClockOf
<1>4. /\ cur \in 0..Capacity
      /\ ~Gone(k) => /\ t <= L => cur = held
                     /\ t >= L => cur <= held + Earn(t) - Earn(L)
  BY <1>1, CurrentIs
<1> DEFINE back == hand - u
           turned == Max({0, back})
<1>5. /\ Regained(k, u) = IF Gone(k) THEN 0 ELSE turned * Refill
  <2>1. Min({L, now}) = hand
    <3>1. Min({L, now}) = IF L <= now THEN L ELSE now
      BY <1>1, LeastOfTwo, ZenonT(20)
    <3>2. QED
      BY <1>2, <3>1
  <2>2. QED
    BY <2>1 DEF Regained
<1>20. ~Gone(k) => \/ sure >= Capacity
                   \/ sure >= held + Earn(now) - Earn(Late) - Earn(hand)
  BY DEF Sound, Gone
<1>21. Gone(k) => sure >= Capacity
  BY DEF Sound, Gone
<1> HIDE DEF hand, m, L, u, cur, held
<1>6. Earn(now) <= Earn(Late) + Earn(m)
  <2>1. PICK e \in Int : e = Late + m
    BY <1>3, BucketNumbers
  <2>2. now <= e
    BY <1>1, <1>3, <2>1, BucketNumbers
  <2>3. Earn(e) = Earn(Late) + Earn(m)
    BY <1>3, <2>1, BucketNumbers, EarnAdds
  <2>4. Earn(now) <= Earn(e)
    BY <1>1, <2>2, EarnAdds
  <2>5. QED
    BY <2>3, <2>4
<1>7. /\ Earn(now) \in Int /\ Earn(Late) \in Int /\ Earn(m) \in Int /\ Earn(t) \in Int
      /\ Earn(L) \in Int /\ Earn(u) \in Int /\ Earn(hand) \in Int
  BY <1>1, <1>2, <1>3, BucketNumbers, EarnIsInt
<1>8. /\ Earn(t) <= Earn(m)
      /\ m >= hand => Earn(m) >= Earn(hand)
  BY <1>1, <1>2, <1>3, EarnAdds
<1>9. back \in Int /\ hand = u + back
  BY <1>1, <1>2 DEF back
<1> HIDE DEF back
<1>10. turned = IF 0 >= back THEN 0 ELSE back
  <2>1. 0 \in Int /\ back \in Int
    BY <1>9
  <2>2. QED
    BY <2>1, LeastOfTwo, ZenonT(20)
<1>11. turned \in Nat
  BY <1>9, <1>10
<1> HIDE DEF turned
<1>12. turned * Refill \in Nat /\ turned * Refill = Earn(turned)
  <2>2. turned * Refill = Earn(turned)
    BY DEF Earn
  <2>3. Earn(turned) \in Nat
    BY <1>11, EarnIsInt
  <2>4. QED
    BY <2>2, <2>3
<1>13. u < hand => Earn(hand) = Earn(u) + Earn(turned)
  <2>1. u < hand => hand = u + turned
    BY <1>1, <1>2, <1>9, <1>10
  <2>2. u \in Int /\ turned \in Int /\ hand \in Int
    BY <1>1, <1>2, <1>11
  <2>3. QED
    BY <2>1, <2>2, EarnAdds
<1> DEFINE r == Regained(k, u)
<1>14. r \in Nat /\ (Gone(k) => r = 0) /\ (~Gone(k) => r = Earn(turned))
  BY <1>5, <1>12
<1> HIDE DEF r
<1>15. \/ sure + r >= Capacity
       \/ sure + r >= cur + Earn(now) - Earn(Late) - Earn(m)
  <2>1. CASE sure >= Capacity
    BY <2>1, <1>14, BucketNumbers
  <2>2. CASE sure < Capacity
    <3>1. ~Gone(k) /\ sure >= held + Earn(now) - Earn(Late) - Earn(hand)
      BY <1>1, <1>20, <1>21, <2>2, BucketNumbers
    <3>2. CASE m >= hand
      <4>1. CASE t <= L
        BY <1>1, <1>4, <1>7, <1>8, <1>14, <3>1, <3>2, <4>1
      <4>2. CASE t > L
        <5>1. hand = L /\ cur <= held + Earn(t) - Earn(L)
          BY <1>1, <1>2, <1>4, <3>1, <4>2
        <5>2. QED
          BY <1>1, <1>4, <1>7, <1>8, <1>14, <3>1, <5>1
      <4>3. QED
        BY <1>1, <4>1, <4>2
    <3>3. CASE m < hand
      <4>1. m = u /\ u < hand /\ t <= L
        BY <1>1, <1>2, <1>3, <3>3
      <4>2. r = Earn(hand) - Earn(u) /\ cur = held
        BY <1>4, <1>7, <1>13, <1>14, <3>1, <4>1
      <4>3. QED
        BY <1>1, <1>7, <3>1, <4>1, <4>2
    <3>4. QED
      BY <1>2, <1>3, <3>2, <3>3
  <2>3. QED
    BY <2>1, <2>2, BucketNumbers
<1>16. \/ sure - paid + r >= Capacity
       \/ sure - paid + r >= b.tokens + Earn(now) - Earn(Late) - Earn(m)
  <2>1. /\ cur \in Int /\ b.tokens + paid <= cur /\ cur <= Capacity /\ b.tokens \in Int
        /\ Capacity \in Int /\ r \in Int
    BY <1>1, <1>4, <1>14, BucketNumbers DEF cur
  <2>2. CASE sure + r >= Capacity
    <3>1. Earn(now) - Earn(Late) - Earn(m) <= 0
      BY <1>6, <1>7
    <3>2. QED
      BY <1>7, <2>1, <2>2, <3>1
  <2>3. CASE sure + r >= cur + Earn(now) - Earn(Late) - Earn(m)
    BY <1>7, <2>1, <2>3
  <2>4. QED
    BY <1>15, <2>2, <2>3
<1>17. sure - paid + r \in Int
  BY <1>14
<1>18. Sound(b, sure - paid + r, now)
  BY <1>1, <1>16, <1>17, WrittenIsSound DEF m
<1>19. QED
  BY <1>14, <1>18 DEF r, u

\* A release gives back to a bucket no more than the ideal one gets, unless that
\* one is full.
LEMMA ReleaseKeeps ==
    ASSUME NEW b \in Stored, NEW sure \in Int, NEW more \in Int, NEW n \in Int,
           Sound(b, sure, n), more >= Capacity \/ more = sure + Cost
    PROVE  /\ Sound(b, more, n) \/ ~(b.expires <= n)
           /\ \A c \in Stored :
                 /\ c.last = b.last /\ c.expires = n + Ttl /\ c.tokens <= b.tokens + Cost
                 /\ ~(b.expires <= n)
                 => Sound(c, more, n)
<1>1. b.expires \in Int /\ b.last \in Int /\ b.tokens \in 0..Capacity
  BY DEF Stored
<1>2. Sound(b, more, n) \/ ~(b.expires <= n)
  BY <1>1, BucketNumbers DEF Sound
<1>3. ASSUME NEW c \in Stored, c.last = b.last, c.expires = n + Ttl,
             c.tokens <= b.tokens + Cost, ~(b.expires <= n)
      PROVE  Sound(c, more, n)
  <2>1. ClockOf(c, n) = ClockOf(b, n)
    BY <1>3 DEF ClockOf
  <2>2. ClockOf(b, n) \in Int
    BY <1>1 DEF ClockOf
  <2>3. Earn(n) \in Int /\ Earn(ClockOf(b, n)) \in Int
    BY <2>2, EarnAdds
  <2>4. c.tokens \in 0..Capacity /\ c.expires >= n + Ttl
    BY <1>3, TtlFills DEF Stored
  <2>5. \/ sure >= Capacity
        \/ sure >= b.tokens + Earn(n) - Earn(Late) - Earn(ClockOf(b, n))
    BY <1>3 DEF Sound
  <2>6. \/ more >= Capacity
        \/ more >= c.tokens + Earn(n) - Earn(Late) - Earn(ClockOf(c, n))
    BY <1>1, <1>3, <2>1, <2>3, <2>4, <2>5, BucketNumbers
  <2>7. QED
    BY <1>3, <2>4, <2>6, WrittenIsSound
<1>4. QED
  BY <1>2, <1>3

\* A tick earns for both, and a bucket that expires has had the time to fill.
LEMMA TickKeeps ==
    ASSUME NEW b \in Stored, NEW sure \in Int, NEW more \in Int, NEW n \in Nat,
           Sound(b, sure, n), more >= Capacity \/ more = sure + Refill
    PROVE  Sound(IF b.expires <= n + 1 THEN Absent ELSE b, more, n + 1)
<1>1. b.expires \in Int /\ b.last \in Int /\ b.tokens \in 0..Capacity /\ Capacity \in Nat /\ Refill \in Nat
  BY BucketNumbers DEF Stored
<1> DEFINE next == n + 1
<1>2. next \in Nat /\ next = n + 1 /\ next = 1 + n
  OBVIOUS
<1> HIDE DEF next
<1>3. Earn(1) = Refill
  BY BucketNumbers DEF Earn
<1>4. Earn(next) = Earn(n) + Refill /\ Earn(n) \in Int
  BY <1>2, <1>3, EarnAdds
<1>5. ClockOf(b, n) \in Int /\ ClockOf(b, next) \in Int /\ ClockOf(b, n) <= ClockOf(b, next)
  BY <1>1, <1>2 DEF ClockOf
<1>6. /\ Earn(ClockOf(b, n)) \in Int /\ Earn(ClockOf(b, next)) \in Int
      /\ Earn(ClockOf(b, n)) <= Earn(ClockOf(b, next)) /\ Earn(b.expires) \in Int
  BY <1>1, <1>5, EarnAdds
<1>7. CASE b.expires <= next
  <2>1. more >= Capacity
    <3>1. CASE b.expires <= n
      BY <1>1, <3>1 DEF Sound
    <3>2. CASE ~(b.expires <= n)
      <4>1. b.expires = next
        BY <1>1, <1>2, <1>7, <3>2
      <4>2. sure + Earn(next) - Earn(n) >= Capacity
        BY <3>2, <4>1 DEF Sound
      <4>3. QED
        BY <1>1, <1>4, <4>2
    <3>3. QED
      BY <3>1, <3>2
  <2>2. Absent.expires <= next
    BY <1>2 DEF Absent
  <2>3. Sound(Absent, more, next)
    BY <2>1, <2>2 DEF Sound
  <2>4. QED
    BY <1>2, <1>7, <2>3
<1>8. CASE ~(b.expires <= next)
  <2>1. ~(b.expires <= n)
    BY <1>1, <1>2, <1>8
  <2>2. /\ \/ sure >= Capacity
           \/ sure >= b.tokens + Earn(n) - Earn(Late) - Earn(ClockOf(b, n))
        /\ sure + Earn(b.expires) - Earn(n) >= Capacity
    BY <2>1 DEF Sound
  <2>3. \/ more >= Capacity
        \/ more >= b.tokens + Earn(next) - Earn(Late) - Earn(ClockOf(b, next))
    <3> DEFINE c1 == ClockOf(b, n)
              c2 == ClockOf(b, next)
              en == Earn(next)
    <3>1. /\ more >= Capacity \/ more = sure + Refill
          /\ \/ sure >= Capacity
             \/ sure >= b.tokens + Earn(n) - Earn(Late) - Earn(c1)
          /\ Earn(c1) \in Int /\ Earn(c2) \in Int /\ Earn(c1) <= Earn(c2)
          /\ en = Earn(n) + Refill /\ Earn(n) \in Int /\ Earn(Late) \in Int
          /\ b.tokens \in Int
      BY <1>1, <1>4, <1>6, <2>2, BucketNumbers
    <3> HIDE DEF c1, c2, en
    <3>2. \/ more >= Capacity
          \/ more >= b.tokens + en - Earn(Late) - Earn(c2)
      BY <1>1, <3>1
    <3>3. QED
      BY <1>2, <3>2 DEF c2, en
  <2>4. Earn(b.expires) >= Earn(next)
    <3>1. next <= b.expires /\ next \in Int /\ b.expires \in Int
      BY <1>1, <1>2, <1>8
    <3> DEFINE e == b.expires
    <3>2. next <= e /\ next \in Int /\ e \in Int
      BY <3>1
    <3> HIDE DEF e
    <3>3. Earn(next) <= Earn(e) /\ Earn(e) \in Int /\ Earn(next) \in Int
      BY <3>2, EarnAdds
    <3>4. QED
      BY <3>3 DEF e
  <2>5. more + Earn(b.expires) - Earn(next) >= Capacity
    BY <1>1, <1>4, <1>6, <2>2, <2>4
  <2>6. Sound(b, more, next)
    BY <1>8, <2>3, <2>5 DEF Sound
  <2>7. QED
    BY <1>2, <1>8, <2>6
<1>9. QED
  BY <1>7, <1>8

LEMMA NothingRegained ==
    ASSUME NEW k \in Keys, bucket[k] \in Stored, now \in Int
    PROVE  Regained(k, bucket[k].last) = 0
<1> DEFINE L == bucket[k].last
           least == Min({L, now})
           over == least - L
<1>1. L \in Int
  BY DEF Stored
<1> HIDE DEF L
<1>2. least = IF L <= now THEN L ELSE now
  BY <1>1, LeastOfTwo, ZenonT(20)
<1>3. least \in Int /\ least <= L
  BY <1>1, <1>2
<1> HIDE DEF least
<1>4. over \in Int /\ over <= 0
  BY <1>1, <1>3
<1> HIDE DEF over
<1>5. Max({0, over}) = IF 0 >= over THEN 0 ELSE over
  <2>1. 0 \in Int /\ over \in Int
    BY <1>4
  <2>2. QED
    BY <2>1, LeastOfTwo, ZenonT(20)
<1>6. Max({0, over}) = 0
  BY <1>4, <1>5
<1>7. Max({0, over}) * Refill = 0
  BY <1>6, BucketNumbers
<1>8. QED
  BY <1>7 DEF Regained, over, least, L

LEMMA TimesAre == Times \subseteq Int /\ \A t \in Times : t <= now
<1>1. Late \in Int
  BY BucketNumbers
<1>2. QED
  BY <1>1 DEF Times

\* The provider's count, which is never more than the script found.
LEMMA ClampKeeps ==
    ASSUME NEW k \in Keys, NEW sure \in Int, now \in Nat, bucket[k] \in Stored,
           Sound(bucket[k], sure, now), NEW t \in Times, NEW hint \in Hints
    PROVE  /\ Clamped(k, t, hint) \in Stored
           /\ Regained(k, Clamped(k, t, hint).last) \in Nat
           /\ Sound(Clamped(k, t, hint), sure + Regained(k, Clamped(k, t, hint).last), now)
<1> DEFINE cur == Current(k, t)
           said == IF hint.remaining = -1 /\ hint.after THEN 0 ELSE hint.remaining
           least == Min({said * Cost, Capacity})
           target == IF said = -1 THEN cur ELSE Min({cur, least})
           park == hint.reset > 0 /\ target < Cost
           b == [tokens |-> target, last |-> IF park THEN t + hint.reset ELSE t,
                 expires |-> now + Ttl + hint.reset]
<1>1. hint.remaining \in Nat \cup {-1} /\ hint.reset \in Nat
  BY BucketAssumption
<1>2. said \in Nat \cup {-1}
  BY <1>1
<1>3. t \in Int
  BY TimesAre
<1>4. cur \in 0..Capacity
  BY <1>3, CurrentIs
<1>5. Clamped(k, t, hint) = IF target >= cur /\ ~park THEN bucket[k] ELSE b
  BY DEF Clamped
<1> HIDE DEF cur, said
<1>6. target \in 0..Capacity /\ target <= cur
  <2>1. CASE said = -1
    BY <1>4, <2>1, BucketNumbers
  <2>2. CASE said # -1
    <3> DEFINE all == said * Cost
    <3>1. all \in Nat
      <4>1. \A x, y \in Nat : x * y \in Nat
        OBVIOUS
      <4>2. said \in Nat /\ Cost \in Nat
        BY <1>2, <2>2, BucketNumbers
      <4>3. QED
        BY <4>1, <4>2
    <3> HIDE DEF all
    <3>2. least = IF all <= Capacity THEN all ELSE Capacity
      <4>1. all \in Int /\ Capacity \in Int
        BY <3>1, BucketNumbers
      <4>2. Min({all, Capacity}) = IF all <= Capacity THEN all ELSE Capacity
        BY <4>1, LeastOfTwo, ZenonT(20)
      <4>3. QED
        BY <4>2 DEF all
    <3>3. least \in 0..Capacity
      BY <3>1, <3>2, BucketNumbers
    <3> HIDE DEF least
    <3>4. Min({cur, least}) = IF cur <= least THEN cur ELSE least
      <4>1. cur \in Int /\ least \in Int
        BY <1>4, <3>3, BucketNumbers
      <4>2. QED
        BY <4>1, LeastOfTwo, ZenonT(20)
    <3>5. QED
      BY <1>4, <2>2, <3>3, <3>4, BucketNumbers
  <2>3. QED
    BY <2>1, <2>2
<1> HIDE DEF target
<1>7. b \in Stored /\ b.last >= t /\ b.expires >= now + Ttl /\ b.tokens + 0 <= cur
  <2>1. Ttl \in Nat
    BY TtlFills
  <2>2. b.last \in Int /\ b.last >= t
    BY <1>1, <1>3
  <2>3. b.expires \in Int /\ b.expires >= now + Ttl
    BY <1>1, <2>1
  <2>4. QED
    BY <1>4, <1>6, <2>2, <2>3, BucketNumbers DEF Stored
<1> HIDE DEF b, park
<1>8. CASE target >= cur /\ ~park
  <2>1. Clamped(k, t, hint) = bucket[k]
    BY <1>5, <1>8
  <2>2. Regained(k, bucket[k].last) = 0
    BY NothingRegained
  <2>3. sure + 0 = sure
    OBVIOUS
  <2>4. QED
    BY <2>1, <2>2, <2>3
<1>9. CASE ~(target >= cur /\ ~park)
  <2>1. Clamped(k, t, hint) = b
    BY <1>5, <1>9
  <2>2. Regained(k, b.last) \in Nat /\ Sound(b, sure - 0 + Regained(k, b.last), now)
    BY <1>7, ScriptKeeps DEF cur
  <2>3. sure - 0 = sure
    OBVIOUS
  <2>4. QED
    BY <1>7, <2>1, <2>2, <2>3
<1>10. QED
  BY <1>8, <1>9

-----------------------------------------------------------------------------
(* The buckets, whatever the callers do.                                    *)

Drawn ==
    /\ now \in 0..TickEnd
    /\ bucket \in [Keys -> Stored]
    /\ ideal \in [Keys -> Int]
    /\ regained \in [Keys -> Nat]
    /\ \A k \in Keys : Sound(bucket[k], ideal[k] + regained[k], now)

LEMMA AcquiredKeeps ==
    ASSUME Drawn, now' = now, NEW k \in Keys, NEW t \in Times, NEW paid \in {0, Cost},
           Current(k, t) >= paid, Acquired(k, t, paid)
    PROVE  Drawn'
<1> DEFINE b == [tokens |-> Current(k, t) - paid, last |-> t, expires |-> now + Ttl]
<1>1. now \in Nat /\ t \in Int /\ paid \in Nat /\ Ttl \in Nat
  BY TimesAre, TtlFills, BucketNumbers DEF Drawn
<1>2. bucket[k] \in Stored /\ Current(k, t) \in 0..Capacity
  BY <1>1, CurrentIs DEF Drawn
<1>3. b \in Stored /\ b.last >= t /\ b.expires >= now + Ttl /\ b.tokens + paid <= Current(k, t)
  BY <1>1, <1>2, BucketNumbers DEF Stored
<1>4. b.last = t
  OBVIOUS
<1> HIDE DEF b
<1> DEFINE sure == ideal[k] + regained[k]
<1>5. sure \in Int /\ Sound(bucket[k], sure, now) /\ ideal[k] \in Int /\ regained[k] \in Nat
  BY DEF Drawn
<1> HIDE DEF sure
<1>6. Regained(k, t) \in Nat /\ Sound(b, sure - paid + Regained(k, t), now)
  BY <1>1, <1>2, <1>3, <1>4, <1>5, ScriptKeeps
<1>7. /\ bucket' = [bucket EXCEPT ![k] = b]
      /\ ideal' = [ideal EXCEPT ![k] = ideal[k] - paid]
      /\ regained' = [regained EXCEPT ![k] = regained[k] + Regained(k, t)]
  BY DEF Acquired, Written, b
<1>8. ideal[k] - paid + (regained[k] + Regained(k, t)) = sure - paid + Regained(k, t)
  BY <1>1, <1>5, <1>6 DEF sure
<1>9. bucket' \in [Keys -> Stored]
  BY <1>3, <1>7 DEF Drawn
<1>10. ideal' \in [Keys -> Int]
  BY <1>1, <1>5, <1>7 DEF Drawn
<1>11. regained' \in [Keys -> Nat]
  BY <1>5, <1>6, <1>7 DEF Drawn
<1>12. ASSUME NEW j \in Keys
       PROVE  Sound(bucket'[j], ideal'[j] + regained'[j], now)
  <2>1. CASE j = k
    <3>1. bucket'[j] = b /\ ideal'[j] = ideal[k] - paid /\ regained'[j] = regained[k] + Regained(k, t)
      BY <1>7, <2>1 DEF Drawn
    <3>2. QED
      BY <1>6, <1>8, <3>1
  <2>2. CASE j # k
    BY <1>7, <2>2 DEF Drawn
  <2>3. QED
    BY <2>1, <2>2
<1>13. QED
  BY <1>9, <1>10, <1>11, <1>12 DEF Drawn, Sound, ClockOf

LEMMA ReleasedKeeps ==
    ASSUME Drawn, now' = now, regained' = regained, NEW k \in Keys, bucket' = Released(k),
           ideal' = [ideal EXCEPT ![k] = Min({Capacity, @ + Cost})]
    PROVE  Drawn'
<1> DEFINE held == bucket[k].tokens
           more == held + Cost
           owed == ideal[k] + Cost
           b == [tokens |-> Min({Capacity, more}), last |-> bucket[k].last, expires |-> now + Ttl]
           sure == ideal[k] + regained[k]
           credit == Min({Capacity, owed})
<1>1. /\ now \in Nat /\ bucket[k] \in Stored /\ held \in 0..Capacity /\ ideal[k] \in Int
      /\ regained[k] \in Nat /\ Ttl \in Nat /\ Sound(bucket[k], sure, now) /\ sure \in Int
  BY TtlFills, BucketNumbers DEF Drawn, Stored
<1>2. more \in Nat /\ owed \in Int
  BY <1>1, BucketNumbers
<1> HIDE DEF more, owed
<1>3. Min({Capacity, more}) = IF Capacity <= more THEN Capacity ELSE more
  <2>1. Capacity \in Int /\ more \in Int
    BY <1>2, BucketNumbers
  <2>2. QED
    BY <2>1, LeastOfTwo, ZenonT(20)
<1>4. credit = IF Capacity <= owed THEN Capacity ELSE owed
  <2>1. Capacity \in Int /\ owed \in Int
    BY <1>2, BucketNumbers
  <2>2. QED
    BY <2>1, LeastOfTwo, ZenonT(20)
<1>5. credit \in Int /\ (credit >= Capacity \/ credit = owed)
  BY <1>2, <1>4, BucketNumbers
<1> HIDE DEF credit
<1>6. bucket' = IF Gone(k) THEN bucket ELSE [bucket EXCEPT ![k] = b]
  BY DEF Released, Written, b, more
<1>7. ideal' = [ideal EXCEPT ![k] = credit]
  BY DEF credit, owed
<1>8. /\ b \in Stored /\ b.last = bucket[k].last /\ b.expires = now + Ttl
      /\ b.tokens <= held + Cost
  <2> DEFINE filled == Min({Capacity, more})
             expiry == now + Ttl
             lastly == bucket[k].last
  <2>1. filled \in 0..Capacity /\ filled <= more /\ expiry \in Int /\ lastly \in Int
    BY <1>1, <1>2, <1>3, BucketNumbers DEF Stored
  <2> HIDE DEF filled, expiry, lastly
  <2> DEFINE written == [tokens |-> filled, last |-> lastly, expires |-> expiry]
  <2>2. written \in Stored
    BY <2>1 DEF Stored
  <2>4. b = written
    BY DEF filled, expiry, lastly
  <2>5. written.last = lastly /\ written.expires = expiry /\ written.tokens = filled
    OBVIOUS
  <2>6. b.last = bucket[k].last /\ b.expires = now + Ttl
    BY <2>4, <2>5, Zenon DEF lastly, expiry
  <2>7. b.tokens <= held + Cost
    <3>1. b.tokens = filled /\ filled <= more
      BY <2>1, <2>4, <2>5
    <3>2. QED
      BY <3>1 DEF more
  <2>8. QED
    BY <2>2, <2>4, <2>6, <2>7
<1> HIDE DEF b
<1> DEFINE then == credit + regained[k]
<1>9. then \in Int /\ (then >= Capacity \/ then = sure + Cost)
  BY <1>1, <1>5, BucketNumbers DEF owed
<1> HIDE DEF then, sure
<1>10. /\ Sound(bucket[k], then, now) \/ ~(bucket[k].expires <= now)
       /\ ~(bucket[k].expires <= now) => Sound(b, then, now)
  <2>1. now \in Int
    BY <1>1
  <2>2. b.tokens <= bucket[k].tokens + Cost
    BY <1>8
  <2>3. QED
    BY <1>1, <1>8, <1>9, <2>1, <2>2, ReleaseKeeps
<1>11. bucket' \in [Keys -> Stored]
  BY <1>6, <1>8 DEF Drawn
<1>12. ideal' \in [Keys -> Int]
  BY <1>5, <1>7 DEF Drawn
<1>13. ASSUME NEW j \in Keys
       PROVE  Sound(bucket'[j], ideal'[j] + regained'[j], now)
  <2>1. CASE j = k
    <3>1. ideal'[j] + regained'[j] = then
      BY <1>7, <2>1 DEF Drawn, then
    <3>2. bucket'[j] = IF bucket[k].expires <= now THEN bucket[k] ELSE b
      BY <1>6, <2>1 DEF Drawn, Gone
    <3>3. QED
      BY <1>10, <3>1, <3>2
  <2>2. CASE j # k
    <3>1. bucket'[j] = bucket[j] /\ ideal'[j] = ideal[j] /\ regained'[j] = regained[j]
      BY <1>6, <1>7, <2>2 DEF Drawn
    <3>2. QED
      BY <3>1 DEF Drawn
  <2>3. QED
    BY <2>1, <2>2
<1>14. QED
  BY <1>11, <1>12, <1>13 DEF Drawn, Sound, ClockOf

LEMMA ObservedKeeps ==
    ASSUME Drawn, now' = now, ideal' = ideal,
           NEW hint \in Hints, NEW t \in Times, NEW told \in SUBSET Keys,
           bucket' = [k \in Keys |-> IF k \in told THEN Clamped(k, t, hint) ELSE bucket[k]],
           regained' = [k \in Keys |-> regained[k] + Regained(k, bucket'[k].last)]
    PROVE  Drawn'
<1>1. now \in Nat
  BY DEF Drawn
<1>2. ASSUME NEW k \in Keys
      PROVE  /\ bucket'[k] \in Stored /\ regained'[k] \in Nat
             /\ Sound(bucket'[k], ideal[k] + regained'[k], now)
  <2> DEFINE sure == ideal[k] + regained[k]
             r == Regained(k, bucket'[k].last)
  <2>1. /\ sure \in Int /\ bucket[k] \in Stored /\ Sound(bucket[k], sure, now)
        /\ ideal[k] \in Int /\ regained[k] \in Nat
    BY DEF Drawn
  <2> HIDE DEF sure
  <2>2. bucket'[k] \in Stored /\ r \in Nat /\ Sound(bucket'[k], sure + r, now)
    <3>1. CASE k \in told
      <4>1. bucket'[k] = Clamped(k, t, hint)
        BY <3>1
      <4>2. QED
        BY <1>1, <2>1, <4>1, ClampKeeps
    <3>2. CASE k \notin told
      <4>1. bucket'[k] = bucket[k]
        BY <3>2
      <4>2. r = 0
        BY <1>1, <2>1, <4>1, NothingRegained
      <4>3. sure + r = sure
        BY <2>1, <4>2
      <4>4. QED
        BY <2>1, <4>1, <4>2, <4>3
    <3>3. QED
      BY <3>1, <3>2
  <2>3. regained'[k] = regained[k] + r
    OBVIOUS
  <2> HIDE DEF r
  <2>4. regained'[k] \in Nat /\ ideal[k] + regained'[k] = sure + r
    BY <2>1, <2>2, <2>3 DEF sure
  <2>5. QED
    BY <2>2, <2>4
<1>3. bucket' \in [Keys -> Stored]
  <2>1. bucket' = [k \in Keys |-> bucket'[k]]
    BY ZenonT(20)
  <2>2. QED
    BY <1>2, <2>1
<1>4. regained' \in [Keys -> Nat]
  <2>1. regained' = [k \in Keys |-> regained'[k]]
    BY ZenonT(20)
  <2>2. QED
    BY <1>2, <2>1
<1>5. QED
  BY <1>2, <1>3, <1>4 DEF Drawn, Sound, ClockOf

LEMMA TickDrawn ==
    ASSUME Drawn, BucketTick
    PROVE  Drawn'
<1>1. now \in Nat /\ now' = now + 1 /\ now' \in 0..TickEnd /\ regained' = regained
  BY BucketAssumption DEF Drawn, BucketTick
<1>2. ASSUME NEW k \in Keys
      PROVE  /\ bucket'[k] \in Stored /\ ideal'[k] \in Int
             /\ Sound(bucket'[k], ideal'[k] + regained[k], now')
  <2> DEFINE sure == ideal[k] + regained[k]
             due == ideal[k] + Refill
             earned == Min({Capacity, due})
             more == earned + regained[k]
  <2>1. /\ sure \in Int /\ bucket[k] \in Stored /\ Sound(bucket[k], sure, now)
        /\ ideal[k] \in Int /\ regained[k] \in Nat /\ Refill \in Nat /\ Capacity \in Nat
    BY BucketNumbers DEF Drawn
  <2>2. due \in Int
    BY <2>1
  <2> HIDE DEF due
  <2>3. earned = IF Capacity <= due THEN Capacity ELSE due
    <3>1. Capacity \in Int /\ due \in Int
      BY <2>1, <2>2
    <3>2. QED
      BY <3>1, LeastOfTwo, ZenonT(20)
  <2>4. earned \in Int /\ (earned >= Capacity \/ earned = due)
    BY <2>1, <2>2, <2>3
  <2> HIDE DEF earned
  <2>5. more \in Int /\ (more >= Capacity \/ more = sure + Refill)
    BY <2>1, <2>4 DEF due
  <2>6. ideal'[k] = earned /\ bucket'[k] = IF bucket[k].expires <= now + 1 THEN Absent ELSE bucket[k]
    BY <1>1 DEF BucketTick, earned, due
  <2>7. Absent \in Stored
    BY BucketNumbers DEF Absent, Stored
  <2>8. Sound(bucket'[k], more, now + 1)
    <3> HIDE DEF more, sure
    <3>1. Sound(IF bucket[k].expires <= now + 1 THEN Absent ELSE bucket[k], more, now + 1)
      BY <1>1, <2>1, <2>5, TickKeeps
    <3>2. QED
      BY <2>6, <3>1
  <2>9. QED
    BY <1>1, <2>1, <2>4, <2>6, <2>7, <2>8
<1>3. bucket' \in [Keys -> Stored]
  <2>1. bucket' = [k \in Keys |-> bucket'[k]]
    BY ZenonT(20) DEF BucketTick
  <2>2. QED
    BY <1>2, <2>1
<1>4. ideal' \in [Keys -> Int]
  <2>1. ideal' = [k \in Keys |-> ideal'[k]]
    BY ZenonT(20) DEF BucketTick
  <2>2. QED
    BY <1>2, <2>1
<1>5. QED
  BY <1>1, <1>2, <1>3, <1>4 DEF Drawn, Sound, ClockOf

-----------------------------------------------------------------------------
(* The callers, and the limiters of their own.                              *)

Draws == [at : {"rest", "take", "give", "sleep", "local", "answer"},
          next : Nat, left : Seq(Keys), until : Int, wake : Int]

Asked ==
    /\ acquire \in [Clients -> Draws]
    /\ \A c \in Clients : acquire[c].at = "take" => acquire[c].next \in DOMAIN Buckets

Spare ==
    /\ fallback \in [Clients -> [Keys -> [tokens : 0..HalfCapacity, last : Int]]]
    /\ \A c \in Clients, k \in Keys : fallback[c][k].last <= now

LEMMA BucketsAre ==
    /\ Buckets \in Seq(Keys) /\ Len(Buckets) \in Nat \ {0} /\ DOMAIN Buckets = 1..Len(Buckets)
    /\ 1 \in DOMAIN Buckets
    /\ \A j \in DOMAIN Buckets : Buckets[j] \in Keys
<1>1. Buckets \in Seq(Keys) /\ Buckets # <<>>
  BY KeysAssumption
<1>2. Len(Buckets) \in Nat \ {0} /\ DOMAIN Buckets = 1..Len(Buckets)
  BY <1>1
<1>3. \A j \in DOMAIN Buckets : Buckets[j] \in Keys
  BY DEF Keys
<1>4. QED
  BY <1>1, <1>2, <1>3

LEMMA BecomeAsked ==
    ASSUME Asked, NEW c \in Clients, NEW r \in Draws,
           r.at = "take" => r.next \in DOMAIN Buckets, acquire' = [acquire EXCEPT ![c] = r]
    PROVE  Asked'
<1>1. acquire' \in [Clients -> Draws]
  BY DEF Asked
<1>2. ASSUME NEW d \in Clients, acquire'[d].at = "take"
      PROVE  acquire'[d].next \in DOMAIN Buckets
  BY <1>2 DEF Asked
<1>3. QED
  BY <1>1, <1>2 DEF Asked

LEMMA OverIs == \A at \in {"rest", "answer"} : Over(at) \in Draws /\ Over(at).at = at
<1>1. AtRest \in Draws
  <2>1. <<>> \in Seq(Keys)
    OBVIOUS
  <2>2. QED
    BY <2>1 DEF AtRest, Draws
<1>2. ASSUME NEW at \in {"rest", "answer"}
      PROVE  [AtRest EXCEPT !.at = at] \in Draws /\ [AtRest EXCEPT !.at = at].at = at
  BY <1>1 DEF Draws
<1>3. QED
  BY <1>2 DEF Over

LEMMA WaitIs == \A a \in Int : (a + Refill - 1) \div Refill \in Int
BY BucketAssumption

LEMMA HalfIs == HalfCost \in Nat /\ HalfCapacity \in Nat
<1> DEFINE share == Capacity \div (2 * Cost)
           whole == Max({1, share})
<1>1. HalfCost \in Nat
  BY BucketNumbers DEF HalfCost
<1>2. share \in Int
  BY BucketNumbers
<1> HIDE DEF share
<1>3. whole = IF 1 >= share THEN 1 ELSE share
  <2>1. 1 \in Int /\ share \in Int
    BY <1>2
  <2>2. QED
    BY <2>1, LeastOfTwo, ZenonT(20)
<1>4. whole \in Nat
  BY <1>2, <1>3
<1> HIDE DEF whole
<1>5. \A x, y \in Nat : x * y \in Nat
  OBVIOUS
<1>6. HalfCapacity = HalfCost * whole
  BY DEF HalfCapacity, whole, share
<1>7. QED
  BY <1>1, <1>4, <1>5, <1>6

LEMMA RefilledIs ==
    ASSUME Spare, now \in Nat, NEW c \in Clients, NEW k \in Keys
    PROVE  Refilled(c, k) \in 0..HalfCapacity
<1> DEFINE since == now - fallback[c][k].last
           full == fallback[c][k].tokens + since * Refill
<1>1. since \in Nat /\ fallback[c][k].tokens \in Nat
  BY HalfIs DEF Spare
<1> HIDE DEF since
<1>2. \A x, y \in Nat : x * y \in Nat
  OBVIOUS
<1>3. full \in Nat
  BY <1>1, <1>2, BucketNumbers
<1> HIDE DEF full
<1>4. Min({HalfCapacity, full}) = IF HalfCapacity <= full THEN HalfCapacity ELSE full
  <2>1. HalfCapacity \in Int /\ full \in Int
    BY <1>3, HalfIs
  <2>2. QED
    BY <2>1, LeastOfTwo, ZenonT(20)
<1>5. Refilled(c, k) = Min({HalfCapacity, full})
  BY DEF Refilled, full, since
<1>6. QED
  BY <1>3, <1>4, <1>5, HalfIs

LEMMA CallsAsked ==
    ASSUME Asked, Drawn, NEW c \in Clients, Spare,
           BeginAcquire(c) \/ Take(c) \/ Denied(c) \/ Give(c) \/ GiveFails(c) \/ Blocked(c)
             \/ Wake(c) \/ Degrade(c) \/ LocalGrant(c) \/ LocalBlocked(c) \/ Observe(c)
    PROVE  Asked'
<1>1. /\ acquire[c] \in Draws /\ now \in Int /\ Patience \in Nat
      /\ acquire[c].at = "take" => acquire[c].next \in DOMAIN Buckets
  BY BucketAssumption DEF Asked, Drawn
<1>2. CASE BeginAcquire(c)
  <2> DEFINE due == now + Patience
             r == [acquire[c] EXCEPT !.at = "take", !.next = 1, !.until = due]
  <2>1. due \in Int
    BY <1>1
  <2>2. acquire' = [acquire EXCEPT ![c] = r]
    BY <1>2 DEF BeginAcquire, Become
  <2> HIDE DEF due
  <2>4. r \in Draws /\ r.next = 1
    BY <1>1, <2>1 DEF Draws
  <2> HIDE DEF r
  <2>3. QED
    BY <2>2, <2>4, BecomeAsked, BucketsAre
<1>3. CASE Take(c)
  <2> DEFINE on == [acquire[c] EXCEPT !.next = @ + 1]
             r == IF acquire[c].next = Len(Buckets) THEN Over("answer") ELSE on
  <2>1. acquire[c].next \in DOMAIN Buckets /\ acquire' = [acquire EXCEPT ![c] = r]
    BY <1>1, <1>3 DEF Take, At, Become
  <2>2. on \in Draws /\ on.next = acquire[c].next + 1
    BY <1>1 DEF Draws
  <2> HIDE DEF on
  <2>3. r \in Draws /\ (r.at = "take" => r.next \in DOMAIN Buckets)
    <3>1. CASE acquire[c].next = Len(Buckets)
      BY <3>1, OverIs
    <3>2. CASE acquire[c].next # Len(Buckets)
      BY <2>1, <2>2, <3>2, BucketsAre
    <3>3. QED
      BY <3>1, <3>2
  <2> HIDE DEF r
  <2>4. QED
    BY <2>1, <2>3, BecomeAsked
<1>4. CASE Denied(c)
  <2>1. PICK t \in Times : \E k \in {Buckets[acquire[c].next]} :
          acquire' = [acquire EXCEPT ![c] = [acquire[c] EXCEPT
                 !.at = "give", !.left = SubSeq(Buckets, 1, acquire[c].next - 1),
                 !.wake = (Cost - Current(k, t) + Refill - 1) \div Refill]]
    BY <1>4 DEF Denied, Become
  <2> DEFINE k == Buckets[acquire[c].next]
             rest == SubSeq(Buckets, 1, acquire[c].next - 1)
             short == Cost - Current(k, t)
             wait == (short + Refill - 1) \div Refill
             r == [acquire[c] EXCEPT !.at = "give", !.left = rest, !.wake = wait]
  <2>2. acquire[c].next \in DOMAIN Buckets
    BY <1>1, <1>4 DEF Denied, At
  <2>3. k \in Keys /\ t \in Int
    BY <2>2, BucketsAre, TimesAre
  <2>4. rest \in Seq(Keys)
    BY <2>2, BucketsAre
  <2>5. short \in Int
    <3>1. Current(k, t) \in 0..Capacity
      BY <1>1, <2>3, CurrentIs DEF Drawn
    <3>2. QED
      BY <3>1, BucketNumbers
  <2>6. acquire' = [acquire EXCEPT ![c] = r]
    BY <2>1
  <2> HIDE DEF k, rest, short
  <2>7. wait \in Int
    BY <2>5, WaitIs
  <2> HIDE DEF wait
  <2>8. r \in Draws /\ r.at = "give"
    BY <1>1, <2>4, <2>7 DEF Draws
  <2> HIDE DEF r
  <2>9. QED
    BY <2>6, <2>8, BecomeAsked
<1>5. CASE Give(c) \/ GiveFails(c)
  <2> DEFINE rest == Tail(acquire[c].left)
             r == [acquire[c] EXCEPT !.left = rest]
  <2>1. /\ acquire' = [acquire EXCEPT ![c] = r] /\ acquire[c].left # <<>>
        /\ acquire[c].at = "give"
    BY <1>5 DEF Give, GiveFails, Become, At
  <2>2. acquire[c].left \in Seq(Keys)
    BY <1>1 DEF Draws
  <2>3. rest \in Seq(Keys)
    BY <2>1, <2>2
  <2> HIDE DEF rest
  <2>4. r \in Draws /\ r.at = "give"
    BY <1>1, <2>1, <2>3 DEF Draws
  <2> HIDE DEF r
  <2>5. QED
    BY <2>1, <2>4, BecomeAsked
<1>6. ASSUME NEW retry \in Int, NEW asleep \in {"sleep", "local"}, SleepOrRaise(c, retry, asleep)
      PROVE  Asked'
  <2>1. PICK wait \in {retry, retry + 1} :
           acquire' = [acquire EXCEPT ![c] = IF wait > acquire[c].until - now THEN Over("rest")
                          ELSE [acquire[c] EXCEPT !.at = asleep, !.wake = now + wait]]
    BY <1>6 DEF SleepOrRaise, Become
  <2> DEFINE due == now + wait
             on == [acquire[c] EXCEPT !.at = asleep, !.wake = due]
             r == IF wait > acquire[c].until - now THEN Over("rest") ELSE on
  <2>6. due \in Int
    BY <1>1, <2>1
  <2>4. acquire' = [acquire EXCEPT ![c] = r]
    BY <2>1
  <2> HIDE DEF due
  <2>2. on \in Draws /\ on.at = asleep
    BY <1>1, <1>6, <2>6 DEF Draws
  <2> HIDE DEF on
  <2>3. r \in Draws /\ r.at # "take"
    BY <1>6, <2>2, OverIs
  <2> HIDE DEF r
  <2>5. QED
    BY <2>3, <2>4, BecomeAsked
<1>7. CASE Blocked(c)
  <2>1. acquire[c].wake \in Int
    BY <1>1 DEF Draws
  <2>2. QED
    BY <1>6, <1>7, <2>1 DEF Blocked
<1>8. CASE LocalBlocked(c)
  <2>1. PICK k \in Keys :
            SleepOrRaise(c, (HalfCost - Refilled(c, k) + Refill - 1) \div Refill, "local")
    BY <1>8 DEF LocalBlocked
  <2> DEFINE short == HalfCost - Refilled(c, k)
             wait == (short + Refill - 1) \div Refill
  <2>2. short \in Int
    <3>1. Refilled(c, k) \in 0..HalfCapacity
      BY RefilledIs, BucketAssumption DEF Drawn
    <3>2. QED
      BY <3>1, HalfIs
  <2> HIDE DEF short
  <2>3. wait \in Int
    BY <2>2, WaitIs
  <2>4. SleepOrRaise(c, wait, "local")
    BY <2>1 DEF short
  <2> HIDE DEF wait
  <2>5. QED
    BY <1>6, <2>3, <2>4
<1>9. CASE Wake(c)
  <2> DEFINE r == [acquire[c] EXCEPT !.at = "take", !.next = 1]
  <2>1. r \in Draws /\ r.next = 1
    BY <1>1 DEF Draws
  <2>2. acquire' = [acquire EXCEPT ![c] = r]
    BY <1>9 DEF Wake, Become
  <2> HIDE DEF r
  <2>3. QED
    BY <2>1, <2>2, BecomeAsked, BucketsAre
<1>10. CASE Degrade(c)
  <2> DEFINE due == now + Patience
             r == [acquire[c] EXCEPT !.at = "local", !.until = due, !.wake = now]
  <2>4. due \in Int
    BY <1>1
  <2>2. acquire' = [acquire EXCEPT ![c] = r]
    BY <1>10 DEF Degrade, Become
  <2> HIDE DEF due
  <2>1. r \in Draws /\ r.at = "local"
    BY <1>1, <2>4 DEF Draws
  <2> HIDE DEF r
  <2>3. QED
    BY <2>1, <2>2, BecomeAsked
<1>11. CASE LocalGrant(c) \/ Observe(c)
  <2>1. PICK at \in {"rest", "answer"} : acquire' = [acquire EXCEPT ![c] = Over(at)]
    BY <1>11 DEF LocalGrant, Observe, Become
  <2>2. Over(at) \in Draws /\ Over(at).at = at
    BY OverIs
  <2>3. QED
    BY <2>1, <2>2, BecomeAsked
<1>12. QED
  BY <1>2, <1>3, <1>4, <1>5, <1>7, <1>8, <1>9, <1>10, <1>11

LEMMA SpareKept ==
    ASSUME Spare, now \in Nat, now' = now, NEW c \in Clients, fallback' = fallback \/ LocalGrant(c)
    PROVE  Spare'
<1>1. CASE fallback' = fallback
  BY <1>1 DEF Spare
<1>2. CASE LocalGrant(c)
  <2> DEFINE f == [k \in Keys |-> [tokens |-> Refilled(c, k) - HalfCost, last |-> now]]
  <2>1. fallback' = [fallback EXCEPT ![c] = f] /\ \A k \in Keys : Refilled(c, k) >= HalfCost
    BY <1>2 DEF LocalGrant
  <2>2. \A k \in Keys : Refilled(c, k) - HalfCost \in 0..HalfCapacity
    <3>1. \A k \in Keys : Refilled(c, k) \in 0..HalfCapacity
      BY RefilledIs
    <3>2. QED
      BY <2>1, <3>1, HalfIs
  <2>3. f \in [Keys -> [tokens : 0..HalfCapacity, last : Int]] /\ \A k \in Keys : f[k].last = now
    BY <2>2
  <2> HIDE DEF f
  <2>4. fallback' \in [Clients -> [Keys -> [tokens : 0..HalfCapacity, last : Int]]]
    BY <2>1, <2>3 DEF Spare
  <2>5. ASSUME NEW d \in Clients, NEW k \in Keys
        PROVE  fallback'[d][k].last <= now
    <3>1. CASE d = c
      BY <2>1, <2>3, <3>1 DEF Spare
    <3>2. CASE d # c
      BY <2>1, <3>2 DEF Spare
    <3>3. QED
      BY <3>1, <3>2
  <2>6. QED
    BY <2>4, <2>5 DEF Spare
<1>3. QED
  BY <1>1, <1>2

LEMMA SpareLater ==
    ASSUME Spare, now \in Nat, now' = now + 1, fallback' = fallback
    PROVE  Spare'
<1>1. ASSUME NEW c \in Clients, NEW k \in Keys
      PROVE  fallback'[c][k].last <= now'
  <2>1. fallback[c][k].last \in Int /\ fallback[c][k].last <= now
    BY DEF Spare
  <2>2. QED
    BY <2>1
<1>2. QED
  BY <1>1 DEF Spare

LEMMA CallsDrawn ==
    ASSUME Asked, Drawn, NEW c \in Clients,
           BeginAcquire(c) \/ Take(c) \/ Denied(c) \/ Give(c) \/ GiveFails(c) \/ Blocked(c)
             \/ Wake(c) \/ Degrade(c) \/ LocalGrant(c) \/ LocalBlocked(c) \/ Observe(c)
    PROVE  Drawn'
<1>1. acquire[c] \in Draws /\ (acquire[c].at = "take" => Buckets[acquire[c].next] \in Keys)
  BY BucketsAre DEF Asked
<1>2. CASE BeginAcquire(c) \/ GiveFails(c) \/ Blocked(c) \/ Wake(c) \/ Degrade(c)
             \/ LocalGrant(c) \/ LocalBlocked(c)
  <2>1. UNCHANGED <<now, bucket, ideal, regained>>
    BY <1>2 DEF BeginAcquire, GiveFails, Blocked, Wake, Degrade, LocalGrant, LocalBlocked
  <2>2. QED
    BY <2>1 DEF Drawn, Sound, ClockOf
<1>3. CASE Take(c)
  <2>1. acquire[c].at = "take" /\ now' = now
    BY <1>3 DEF Take, At
  <2>2. PICK t \in Times : /\ Current(Buckets[acquire[c].next], t) >= Cost
                           /\ Acquired(Buckets[acquire[c].next], t, Cost)
    BY <1>3 DEF Take
  <2>3. QED
    BY <1>1, <2>1, <2>2, AcquiredKeeps
<1>4. CASE Denied(c)
  <2>1. acquire[c].at = "take" /\ now' = now
    BY <1>4 DEF Denied, At
  <2>2. PICK t \in Times : Acquired(Buckets[acquire[c].next], t, 0)
    BY <1>4 DEF Denied
  <2>3. Current(Buckets[acquire[c].next], t) >= 0
    <3>1. t \in Int /\ now \in Int
      BY TimesAre DEF Drawn
    <3>2. Current(Buckets[acquire[c].next], t) \in 0..Capacity
      BY <1>1, <2>1, <3>1, CurrentIs DEF Drawn
    <3>3. QED
      BY <3>2
  <2>4. QED
    BY <1>1, <2>1, <2>2, <2>3, AcquiredKeeps
<1>5. CASE Give(c)
  <2> DEFINE k == Head(acquire[c].left)
  <2>1. /\ acquire[c].left # <<>> /\ now' = now /\ regained' = regained
        /\ bucket' = Released(k)
        /\ ideal' = [ideal EXCEPT ![k] = Min({Capacity, @ + Cost})]
    BY <1>5 DEF Give
  <2>2. k \in Keys
    BY <1>1, <2>1 DEF Draws
  <2> HIDE DEF k
  <2>3. QED
    BY <2>1, <2>2, ReleasedKeeps
<1>6. CASE Observe(c)
  <2>1. now' = now /\ ideal' = ideal
    BY <1>6 DEF Observe
  <2>2. CASE UNCHANGED <<bucket, regained>>
    BY <2>1, <2>2 DEF Drawn, Sound, ClockOf
  <2>3. CASE \E hint \in Hints, t \in Times, n \in DOMAIN Buckets :
               /\ bucket' = [k \in Keys |-> IF \E j \in 1..n : Buckets[j] = k
                                            THEN Clamped(k, t, hint) ELSE bucket[k]]
               /\ regained' = [k \in Keys |-> regained[k] + Regained(k, bucket'[k].last)]
    <3>1. PICK hint \in Hints, t \in Times, n \in DOMAIN Buckets :
               /\ bucket' = [k \in Keys |-> IF \E j \in 1..n : Buckets[j] = k
                                            THEN Clamped(k, t, hint) ELSE bucket[k]]
               /\ regained' = [k \in Keys |-> regained[k] + Regained(k, bucket'[k].last)]
      BY <2>3
    <3> DEFINE told == {k \in Keys : \E j \in 1..n : Buckets[j] = k}
    <3>2. bucket' = [k \in Keys |-> IF k \in told THEN Clamped(k, t, hint) ELSE bucket[k]]
      BY <3>1
    <3>3. told \in SUBSET Keys
      OBVIOUS
    <3> HIDE DEF told
    <3>4. QED
      BY <2>1, <3>1, <3>2, <3>3, ObservedKeeps
  <2>4. QED
    BY <1>6, <2>2, <2>3 DEF Observe
<1>7. QED
  BY <1>2, <1>3, <1>4, <1>5, <1>6

BucketInv == Drawn /\ Asked /\ Spare

LEMMA BucketStarts == BucketInit => BucketInv
<1> SUFFICES ASSUME BucketInit PROVE BucketInv
  OBVIOUS
<1>1. now = 0 /\ Absent \in Stored /\ TickEnd \in Nat
  BY BucketNumbers, BucketAssumption DEF BucketInit, Absent, Stored
<1>2. \A k \in Keys : bucket[k] = Absent /\ ideal[k] = Capacity /\ regained[k] = 0
  BY DEF BucketInit
<1>3. \A k \in Keys : Sound(bucket[k], ideal[k] + regained[k], now)
  <2>1. Absent.expires <= 0
    BY DEF Absent
  <2>2. Capacity + 0 >= Capacity
    BY BucketNumbers
  <2>3. Sound(Absent, Capacity + 0, 0)
    BY <2>1, <2>2 DEF Sound
  <2>4. QED
    BY <1>1, <1>2, <2>3
<1>4. Drawn
  BY <1>1, <1>3, BucketNumbers DEF Drawn, BucketInit
<1>5. Asked
  <2>1. AtRest \in Draws /\ AtRest.at = "rest"
    <3>1. <<>> \in Seq(Keys)
      OBVIOUS
    <3>2. QED
      BY <3>1 DEF AtRest, Draws
  <2>2. QED
    BY <2>1 DEF Asked, BucketInit
<1>6. Spare
  BY <1>1, HalfIs DEF Spare, BucketInit
<1>7. QED
  BY <1>4, <1>5, <1>6 DEF BucketInv

LEMMA BucketSteps == BucketInv /\ [BucketNext]_bucketVars => BucketInv'
<1> SUFFICES ASSUME BucketInv, [BucketNext]_bucketVars PROVE BucketInv'
  OBVIOUS
<1> USE DEF BucketInv
<1>1. now \in Nat
  BY DEF Drawn
<1>2. CASE UNCHANGED bucketVars
  BY <1>2 DEF bucketVars, Drawn, Asked, Spare, Sound, ClockOf
<1>3. CASE BucketTick
  <2>1. Drawn'
    BY <1>3, TickDrawn
  <2>2. now' = now + 1 /\ fallback' = fallback /\ acquire' = acquire
    BY <1>3 DEF BucketTick
  <2>3. Spare'
    BY <1>1, <2>2, SpareLater
  <2>4. Asked'
    BY <2>2 DEF Asked
  <2>5. QED
    BY <2>1, <2>3, <2>4
<1>4. ASSUME NEW c \in Clients,
             BeginAcquire(c) \/ Take(c) \/ Denied(c) \/ Give(c) \/ GiveFails(c) \/ Blocked(c)
               \/ Wake(c) \/ Degrade(c) \/ LocalGrant(c) \/ LocalBlocked(c) \/ Observe(c)
      PROVE  BucketInv'
  <2>1. Drawn'
    BY <1>4, CallsDrawn
  <2>2. Asked'
    BY <1>4, CallsAsked
  <2>3. now' = now /\ (fallback' = fallback \/ LocalGrant(c))
    BY <1>4 DEF BeginAcquire, Take, Denied, Give, GiveFails, Blocked, Wake, Degrade,
                LocalGrant, LocalBlocked, Observe
  <2>4. Spare'
    BY <1>1, <2>3, SpareKept
  <2>5. QED
    BY <2>1, <2>2, <2>4
<1>5. QED
  BY <1>2, <1>3, <1>4 DEF BucketNext

LEMMA BucketTypes == BucketInv => BucketTypeOK
BY DEF BucketInv, Drawn, Asked, Spare, Stored, Draws, BucketTypeOK

LEMMA SoundIsBounded == BucketInv => GrantsBounded
<1> SUFFICES ASSUME BucketInv, NEW k \in Keys
             PROVE  ideal[k] + regained[k] >= - Late * Refill
  BY DEF GrantsBounded
<1> DEFINE sure == ideal[k] + regained[k]
           hand == ClockOf(bucket[k], now)
           held == bucket[k].tokens
<1>1. /\ now \in Int /\ held \in Nat /\ bucket[k].last \in Int /\ sure \in Int
      /\ Sound(bucket[k], sure, now)
  BY BucketNumbers DEF BucketInv, Drawn, Stored
<1>2. hand \in Int /\ hand <= now
  BY <1>1 DEF ClockOf
<1>3. \/ sure >= Capacity
      \/ sure >= held + Earn(now) - Earn(Late) - Earn(hand)
  BY <1>1 DEF Sound
<1> HIDE DEF sure, hand, held
<1>4. Earn(hand) <= Earn(now) /\ Earn(hand) \in Int /\ Earn(now) \in Int
  BY <1>1, <1>2, EarnAdds
<1>5. sure >= - Earn(Late)
  BY <1>1, <1>3, <1>4, BucketNumbers
<1>6. - Late * Refill = - Earn(Late)
  BY BucketNumbers DEF Earn
<1>7. QED
  BY <1>5, <1>6 DEF sure

\* The buckets and the calls stay what the scripts and acquire take them for: a
\* bucket holds no less than nothing and no more than its capacity.
THEOREM BucketTypesHold == BucketSpec => []BucketTypeOK
<1>1. BucketInit => BucketInv
  BY BucketStarts
<1>2. BucketInv /\ [BucketNext]_bucketVars => BucketInv'
  BY BucketSteps
<1>3. BucketInv => BucketTypeOK
  BY BucketTypes
<1>4. QED
  BY <1>1, <1>2, <1>3, PTL DEF BucketSpec

\* Whoever draws on a bucket and however late its scripts run, ACQUIRE_LUA grants
\* no more than one bucket of its capacity and refill would, apart from the ticks
\* that lateness lets it earn: for every capacity, refill, cost and set of hints.
THEOREM GrantsBoundedHolds == BucketSpec => []GrantsBounded
<1>1. BucketInit => BucketInv
  BY BucketStarts
<1>2. BucketInv /\ [BucketNext]_bucketVars => BucketInv'
  BY BucketSteps
<1>3. BucketInv => GrantsBounded
  BY SoundIsBounded
<1>4. QED
  BY <1>1, <1>2, <1>3, PTL DEF BucketSpec

-----------------------------------------------------------------------------
(* CircuitBreaker.                                                          *)

Pages == [at : {"rest", "call", "sleep"}, attempts : Int, since : Int, wake : Int]

BreakerTypes ==
    /\ time \in Nat
    /\ circuit \in [failures : Nat, until : Int, probing : BOOLEAN]
    /\ run \in [Runs -> Pages]
    /\ down \in BOOLEAN /\ doomed \in [Runs -> Nat]

\* A circuit that is down has a timer: whoever gets past it is a probe.
Timed == down => Tripped

\* A run that has failed since the circuit tripped comes back only as a probe,
\* and the failure of a probe trips the circuit again.
BackAsProbe ==
    \A r \in Runs : \/ doomed[r] = 0
                    \/ doomed[r] = 1 /\ down /\ (run[r].at = "rest" \/ circuit.probing)

BreakerInv == BreakerTypes /\ Timed /\ BackAsProbe

-----------------------------------------------------------------------------
\* A run that calls or sleeps goes on without the circuit.
LEMMA GoesOn ==
    ASSUME BreakerInv, NEW r \in Runs, run[r].at # "rest", NEW next \in Pages,
           run' = [run EXCEPT ![r] = next], UNCHANGED <<time, circuit, down, doomed>>
    PROVE  BreakerInv'
<1>1. BreakerTypes'
  BY DEF BreakerInv, BreakerTypes
<1>2. \A s \in Runs : s # r => run'[s] = run[s]
  BY DEF BreakerInv, BreakerTypes
<1>3. doomed[r] = 0 \/ circuit.probing
  BY DEF BreakerInv, BackAsProbe
<1>4. BackAsProbe'
  BY <1>2, <1>3 DEF BreakerInv, BackAsProbe
<1>5. QED
  BY <1>1, <1>4 DEF BreakerInv, Timed, Tripped

LEMMA AdmitKeeps == ASSUME BreakerInv, NEW r \in Runs, Admit(r) PROVE BreakerInv'
<1>1. circuit' \in [failures : Nat, until : Int, probing : BOOLEAN]
      /\ circuit'.until = circuit.until
      /\ (Tripped => circuit'.probing)
  <2>1. circuit \in [failures : Nat, until : Int, probing : BOOLEAN]
    BY DEF BreakerInv, BreakerTypes
  <2>2. CASE Tripped
    <3>1. circuit' = [circuit EXCEPT !.probing = TRUE, !.failures = 0]
      BY <2>2 DEF Admit, Checked
    <3>2. QED
      BY <2>1, <3>1
  <2>3. CASE ~Tripped
    BY <2>1, <2>3 DEF Admit, Checked
  <2>4. QED
    BY <2>2, <2>3
<1>2. run' \in [Runs -> Pages] /\ \A s \in Runs : s # r => run'[s] = run[s]
  <2> DEFINE calling == [Resting EXCEPT !.at = "call", !.since = time]
  <2>1. calling \in Pages
    <3>1. Resting \in Pages
      BY DEF Resting, Pages
    <3>2. time \in Int
      BY DEF BreakerInv, BreakerTypes
    <3>3. QED
      BY <3>1, <3>2 DEF Pages
  <2>2. run' = [run EXCEPT ![r] = calling]
    BY DEF Admit
  <2> HIDE DEF calling
  <2>3. QED
    BY <2>1, <2>2 DEF BreakerInv, BreakerTypes
<1>3. BreakerTypes'
  BY <1>1, <1>2 DEF BreakerInv, BreakerTypes, Admit
<1>4. Timed'
  BY <1>1 DEF BreakerInv, Timed, Tripped, Admit
<1>5. BackAsProbe'
  <2>1. CASE Tripped
    BY <2>1, <1>1 DEF BreakerInv, BackAsProbe, Admit
  <2>2. CASE ~Tripped
    BY <2>2 DEF BreakerInv, Timed, BackAsProbe, Admit
  <2>3. QED
    BY <2>1, <2>2
<1>6. QED
  BY <1>3, <1>4, <1>5 DEF BreakerInv

LEMMA SucceedKeeps == ASSUME BreakerInv, NEW r \in Runs, Succeed(r) PROVE BreakerInv'
<1>1. run' \in [Runs -> Pages]
  BY DEF BreakerInv, BreakerTypes, Succeed, Resting, Pages
<1>2. circuit' = NoCircuit /\ down' = FALSE /\ doomed' = [s \in Runs |-> 0] /\ time' = time
  BY DEF Succeed, RecordSuccess
<1>3. BreakerTypes'
  <2>1. NoCircuit \in [failures : Nat, until : Int, probing : BOOLEAN]
    BY DEF NoCircuit
  <2>2. QED
    BY <1>1, <1>2, <2>1 DEF BreakerInv, BreakerTypes
<1>4. QED
  BY <1>2, <1>3 DEF BreakerInv, Timed, BackAsProbe

LEMMA GiveUpKeeps == ASSUME BreakerInv, NEW r \in Runs, GiveUp(r) PROVE BreakerInv'
<1>1. /\ run' \in [Runs -> Pages] /\ run'[r].at = "rest"
      /\ \A s \in Runs : s # r => run'[s] = run[s]
  BY DEF BreakerInv, BreakerTypes, GiveUp, Resting, Pages
<1>2. BreakerTypes /\ BreakerAssumption /\ RecordFailure(r) /\ time' = time
  BY BreakerAssumption DEF BreakerInv, GiveUp
<1>3. CASE FailureTrips
  <2>1. /\ circuit' = [failures |-> circuit.failures + 1, probing |-> FALSE, until |-> time + OpenFor]
        /\ down' = TRUE /\ doomed' = [s \in Runs |-> 0]
    BY <1>2, <1>3 DEF RecordFailure, BreakerTypes
  <2>2. time + OpenFor \in Nat
    BY <1>2 DEF BreakerTypes, BreakerAssumption
  <2>3. BreakerTypes'
    BY <1>1, <1>2, <2>1, <2>2 DEF BreakerTypes
  <2>4. Timed'
    BY <2>1, <2>2 DEF Timed, Tripped
  <2>5. QED
    BY <2>1, <2>3, <2>4 DEF BreakerInv, BackAsProbe
<1>4. CASE ~FailureTrips
  <2>1. circuit' = [failures |-> circuit.failures + 1, probing |-> FALSE, until |-> circuit.until]
        /\ ~circuit.probing /\ down' = down
    BY <1>2, <1>4 DEF RecordFailure, FailureTrips, BreakerTypes
  <2>2. CASE down
    <3>1. doomed' = [doomed EXCEPT ![r] = @ + 1]
      BY <1>2, <1>4, <2>2 DEF RecordFailure
    <3>2. doomed[r] = 0
      BY <2>1 DEF BreakerInv, BackAsProbe, GiveUp
    <3>3. BreakerTypes'
      BY <1>1, <1>2, <2>1, <3>1 DEF BreakerTypes
    <3>4. Timed'
      BY <2>1 DEF BreakerInv, Timed, Tripped
    <3>5. BackAsProbe'
      BY <1>1, <1>2, <2>1, <2>2, <3>1, <3>2 DEF BreakerInv, BackAsProbe, BreakerTypes
    <3>6. QED
      BY <3>3, <3>4, <3>5 DEF BreakerInv
  <2>3. CASE ~down
    <3>1. doomed' = doomed
      BY <1>2, <1>4, <2>3 DEF RecordFailure
    <3>2. BreakerTypes'
      BY <1>1, <1>2, <2>1, <3>1 DEF BreakerTypes
    <3>3. QED
      BY <2>1, <2>3, <3>1, <3>2 DEF BreakerInv, Timed, BackAsProbe
  <2>4. QED
    BY <2>2, <2>3
<1>5. QED
  BY <1>3, <1>4

-----------------------------------------------------------------------------
\* check, record_failure: for any runs that share an account, failing in any
\* order, each is failed at most once before the circuit opens again.
THEOREM ProbesBoundedHolds == BreakerSpec => []ProbesBounded
<1>1. BreakerInit => BreakerInv
  <2> SUFFICES ASSUME BreakerInit PROVE BreakerInv
    OBVIOUS
  <2>1. circuit \in [failures : Nat, until : Int, probing : BOOLEAN]
    BY DEF BreakerInit, NoCircuit
  <2>2. run \in [Runs -> Pages]
    BY DEF BreakerInit, Resting, Pages
  <2>3. QED
    BY <2>1, <2>2 DEF BreakerInit, BreakerInv, BreakerTypes, Timed, BackAsProbe
<1>2. BreakerInv /\ [BreakerNext]_breakerVars => BreakerInv'
  <2> SUFFICES ASSUME BreakerInv, [BreakerNext]_breakerVars PROVE BreakerInv'
    OBVIOUS
  <2>1. CASE BreakerTick
    BY <2>1 DEF BreakerTick, BreakerInv, BreakerTypes, Timed, Tripped, BackAsProbe
  <2>2. CASE UNCHANGED breakerVars
    BY <2>2 DEF breakerVars, BreakerInv, BreakerTypes, Timed, Tripped, BackAsProbe
  <2>3. ASSUME NEW r \in Runs, Abort(r) PROVE BreakerInv'
    <3>1. Resting \in Pages
      BY DEF Resting, Pages
    <3>2. QED
      BY <2>3, <3>1, GoesOn DEF Abort
  <2>4. ASSUME NEW r \in Runs, SleepBeforeRetry(r) PROVE BreakerInv'
    <3>1. PICK d \in Delays(r) :
            run' = [run EXCEPT ![r].at = "sleep", ![r].wake = time + d[1], ![r].attempts = @ + 1]
      BY <2>4 DEF SleepBeforeRetry
    <3>2. run[r] \in Pages /\ time + d[1] \in Int
      <4>1. d[1] \in Int
        <5>1. CASE \E w \in RetryAfters : d = <<w, TRUE>>
          BY <5>1, BreakerAssumption DEF BreakerAssumption
        <5> DEFINE ceiling == Min({DelayCap, 2 ^ run[r].attempts})
        <5>2. CASE \E w \in 0..ceiling : d = <<w, FALSE>>
          <6> HIDE DEF ceiling
          <6>1. PICK w \in 0..ceiling : d = <<w, FALSE>>
            BY <5>2
          <6>2. QED
            BY <6>1
        <5>3. QED
          BY <5>1, <5>2 DEF Delays
      <4>2. QED
        BY <4>1 DEF BreakerInv, BreakerTypes
    <3> DEFINE next == [run[r] EXCEPT !.at = "sleep", !.wake = time + d[1], !.attempts = @ + 1]
    <3>3. next \in Pages
      <4>1. run[r].attempts + 1 \in Int
        BY <3>2 DEF Pages
      <4>2. QED
        BY <3>2, <4>1 DEF Pages
    <3>4. run' = [run EXCEPT ![r] = next]
      BY <3>1 DEF BreakerInv, BreakerTypes
    <3>5. QED
      BY <2>4, <3>3, <3>4, GoesOn DEF SleepBeforeRetry
  <2>5. ASSUME NEW r \in Runs, Retry(r) PROVE BreakerInv'
    <3>1. run[r] \in Pages
      BY DEF BreakerInv, BreakerTypes
    <3> DEFINE next == [run[r] EXCEPT !.at = "call", !.wake = 0]
    <3>2. next \in Pages
      <4>1. [run[r] EXCEPT !.at = "call"] \in Pages
        BY <3>1 DEF Pages
      <4>2. ASSUME NEW c \in Pages PROVE [c EXCEPT !.wake = 0] \in Pages
        BY DEF Pages
      <4>3. next = [[run[r] EXCEPT !.at = "call"] EXCEPT !.wake = 0]
        BY <3>1 DEF Pages
      <4>4. QED
        BY <4>1, <4>2, <4>3
    <3>3. run' = [run EXCEPT ![r] = next]
      BY <2>5 DEF BreakerInv, BreakerTypes, Retry
    <3>4. QED
      BY <2>5, <3>2, <3>3, GoesOn DEF Retry
  <2>6. ASSUME NEW r \in Runs, Refuse(r) PROVE BreakerInv'
    BY <2>2, <2>6 DEF Refuse
  <2>7. QED
    BY <2>1, <2>2, <2>3, <2>4, <2>5, <2>6, AdmitKeeps, SucceedKeeps, GiveUpKeeps DEF BreakerNext
<1>3. BreakerInv => ProbesBounded
  BY DEF BreakerInv, BreakerTypes, BackAsProbe, ProbesBounded
<1>4. QED
  BY <1>1, <1>2, <1>3, PTL DEF BreakerSpec

-----------------------------------------------------------------------------
(* TokenRefresh.                                                            *)

Requests == [at : {"idle", "wait", "post", "use"}, access : Nat, carried : Nat]
Tokens == [access : Nat, expires : Int, refresh : Nat]

TokenTypes ==
    /\ clock \in Nat /\ cached \in Tokens
    /\ client \in [Coroutines -> Requests]
    /\ provider \in [minted : Nat, refresh : Nat \ {0}, retired : SUBSET Nat]
    /\ lost \in BOOLEAN /\ reused \in BOOLEAN

\* Whoever posts holds the account's lock, so that nobody else posts.
Locked == \A c \in Coroutines : client[c].at = "post" <=> holder = c

\* What the next request will carry is the latest token issued, unless an
\* answer was lost.
Latest == IF cached.refresh # 0 THEN cached.refresh ELSE 1

InStep ==
    lost \/ /\ Latest = provider.refresh
            /\ \A t \in provider.retired : t < provider.refresh
            /\ \A c \in Coroutines : client[c].at = "post" => client[c].carried = provider.refresh

TokenInv == TokenTypes /\ Locked /\ InStep /\ RefreshSpentOnce

-----------------------------------------------------------------------------
\* A coroutine that neither takes nor holds the lock moves on its own.
LEMMA Bystander ==
    ASSUME TokenInv, NEW c \in Coroutines, client[c].at # "post",
           NEW at \in {"idle", "wait", "use"}, NEW access \in Nat, Moves(c, at, access, 0),
           UNCHANGED <<clock, holder, provider, lost, reused>>,
           cached' \in Tokens, cached'.refresh = cached.refresh
    PROVE  TokenInv'
<1>1. TokenTypes'
  BY DEF TokenInv, TokenTypes, Moves, Requests
<1>2. \A d \in Coroutines : d # c => client'[d] = client[d]
  BY DEF TokenInv, TokenTypes, Moves
<1>3. client'[c].at = at
  BY DEF TokenInv, TokenTypes, Moves
<1>4. Locked'
  BY <1>2, <1>3 DEF TokenInv, Locked
<1>5. InStep'
  BY <1>2, <1>3 DEF TokenInv, InStep, Latest
<1>6. QED
  BY <1>1, <1>4, <1>5 DEF TokenInv, RefreshSpentOnce

LEMMA RequestKeeps == ASSUME TokenInv, NEW c \in Coroutines, RequestToken(c) PROVE TokenInv'
<1>1. client'[c] = [at |-> "post", access |-> 0, carried |-> Latest]
      /\ \A d \in Coroutines : d # c => client'[d] = client[d]
  BY DEF TokenInv, TokenTypes, RequestToken, Moves, Latest
<1>2. TokenTypes'
  <2>1. Latest \in Nat
    BY DEF TokenInv, TokenTypes, Tokens, Latest
  <2>2. QED
    BY <2>1 DEF TokenInv, TokenTypes, RequestToken, Moves, Requests, Latest
<1>3. \A d \in Coroutines : client[d].at # "post"
  BY TokenAssumption DEF TokenInv, Locked, RequestToken, Unlocked
<1>4. Locked'
  BY <1>1, <1>3 DEF Locked, RequestToken
<1>5. InStep'
  BY <1>1, <1>3 DEF TokenInv, InStep, Latest, RequestToken
<1>6. QED
  BY <1>2, <1>4, <1>5 DEF TokenInv, RefreshSpentOnce, RequestToken

LEMMA SaveKeeps == ASSUME TokenInv, NEW c \in Coroutines, SaveMinted(c) PROVE TokenInv'
<1>1. PICK rotates \in BOOLEAN, lifetime \in Lifetimes :
        /\ Minted(c, rotates)
        /\ cached' = [access  |-> provider.minted + 1,
                      expires |-> IF lifetime = 0 THEN -1 ELSE clock + lifetime,
                      refresh |-> IF rotates THEN provider.refresh + 1 ELSE client[c].carried]
  BY DEF SaveMinted
<1>2. client[c].at = "post" /\ client[c] \in Requests
  BY <1>1 DEF Minted, TokenInv, TokenTypes
<1>3. client'[c].at = "use" /\ holder' = "nobody"
      /\ \A d \in Coroutines : d # c => client'[d] = client[d]
  BY DEF TokenInv, TokenTypes, SaveMinted, Moves
<1>4. \A d \in Coroutines : client'[d].at # "post"
  BY <1>2, <1>3 DEF TokenInv, Locked
<1>5. provider' \in [minted : Nat, refresh : Nat \ {0}, retired : SUBSET Nat]
  BY <1>1, <1>2 DEF TokenInv, TokenTypes, Minted, Requests
<1>6. TokenTypes'
  <2>1. cached' \in Tokens
    BY <1>1, <1>2, TokenAssumption DEF TokenInv, TokenTypes, Tokens, Requests
  <2>2. client' \in [Coroutines -> Requests]
    BY DEF TokenInv, TokenTypes, SaveMinted, Moves, Requests
  <2>3. QED
    BY <1>5, <2>1, <2>2 DEF TokenInv, TokenTypes, SaveMinted
<1>7. Locked'
  BY <1>3, <1>4, TokenAssumption DEF Locked
<1>8. InStep'
  <2>1. CASE lost
    BY <2>1 DEF InStep, SaveMinted
  <2>2. CASE ~lost
    <3>1. client[c].carried = provider.refresh
      BY <1>2, <2>2 DEF TokenInv, InStep
    <3>2. Latest' = provider'.refresh
      BY <1>1, <3>1 DEF TokenInv, TokenTypes, Minted, Latest
    <3>3. \A t \in provider'.retired : t < provider'.refresh
      BY <1>1, <2>2, <3>1 DEF TokenInv, TokenTypes, InStep, Minted
    <3>4. QED
      BY <1>4, <3>2, <3>3 DEF InStep
  <2>3. QED
    BY <2>1, <2>2
<1>9. QED
  BY <1>6, <1>7, <1>8 DEF TokenInv, RefreshSpentOnce, SaveMinted

\* An answer that is lost or refused ends the call and lets the lock go.
LEMMA AnswerLostKeeps == ASSUME TokenInv, NEW c \in Coroutines, AnswerLost(c) PROVE TokenInv'
<1>1. PICK rotates \in BOOLEAN : Minted(c, rotates)
  BY DEF AnswerLost
<1>2. client[c].at = "post" /\ client[c] \in Requests
  BY <1>1 DEF Minted, TokenInv, TokenTypes
<1>3. client'[c].at = "idle" /\ \A d \in Coroutines : d # c => client'[d] = client[d]
  BY DEF TokenInv, TokenTypes, AnswerLost, Moves
<1>4. provider' \in [minted : Nat, refresh : Nat \ {0}, retired : SUBSET Nat]
  BY <1>1, <1>2 DEF TokenInv, TokenTypes, Minted, Requests
<1>5. TokenTypes'
  BY <1>4 DEF TokenInv, TokenTypes, AnswerLost, Moves, Requests
<1>6. Locked'
  BY <1>2, <1>3, TokenAssumption DEF TokenInv, Locked, AnswerLost
<1>7. QED
  BY <1>5, <1>6 DEF TokenInv, InStep, RefreshSpentOnce, AnswerLost

LEMMA RefusedKeeps == ASSUME TokenInv, NEW c \in Coroutines, TokenRefused(c) PROVE TokenInv'
<1>1. client'[c].at = "idle" /\ \A d \in Coroutines : d # c => client'[d] = client[d]
  BY DEF TokenInv, TokenTypes, TokenRefused, Moves
<1>2. TokenTypes'
  BY DEF TokenInv, TokenTypes, TokenRefused, Moves, Requests
<1>3. Locked'
  BY <1>1, TokenAssumption DEF TokenInv, Locked, TokenRefused
<1>4. InStep'
  BY <1>1 DEF TokenInv, InStep, Latest, TokenRefused
<1>5. lost \/ client[c].carried \notin provider.retired
  <2>1. ASSUME ~lost, client[c].carried \in provider.retired PROVE FALSE
    <3>1. client[c].carried = provider.refresh
      BY <2>1 DEF TokenInv, InStep, TokenRefused
    <3>2. client[c].carried < provider.refresh
      BY <2>1 DEF TokenInv, InStep
    <3>3. provider.refresh \in Nat
      BY DEF TokenInv, TokenTypes
    <3>4. QED
      BY <3>1, <3>2, <3>3
  <2>2. QED
    BY <2>1
<1>6. QED
  BY <1>2, <1>3, <1>4, <1>5 DEF TokenInv, RefreshSpentOnce, TokenRefused

-----------------------------------------------------------------------------
\* OAuth2Client.token: for any coroutines that find the token stale or have it
\* refused at any moment, no retired refresh token is sent unless an answer of
\* the provider was lost.
THEOREM RefreshSpentOnceHolds == TokenSpec => []RefreshSpentOnce
<1>1. TokenInit => TokenInv
  <2> SUFFICES ASSUME TokenInit PROVE TokenInv
    OBVIOUS
  <2>1. TokenTypes
    <3>1. cached \in Tokens
      BY DEF TokenInit, Tokens
    <3>2. client \in [Coroutines -> Requests]
      BY DEF TokenInit, Requests, Idle
    <3>3. provider \in [minted : Nat, refresh : Nat \ {0}, retired : SUBSET Nat]
      BY DEF TokenInit
    <3>4. QED
      BY <3>1, <3>2, <3>3 DEF TokenInit, TokenTypes
  <2>2. Locked
    BY TokenAssumption DEF TokenInit, Locked, Idle
  <2>3. QED
    BY <2>1, <2>2 DEF TokenInit, TokenInv, InStep, Latest, RefreshSpentOnce, Idle
<1>2. TokenInv /\ [TokenNext]_tokenVars => TokenInv'
  <2> SUFFICES ASSUME TokenInv, [TokenNext]_tokenVars PROVE TokenInv'
    OBVIOUS
  <2>1. CASE TokenTick
    BY <2>1 DEF TokenTick, TokenInv, TokenTypes, Locked, InStep, Latest, RefreshSpentOnce
  <2>2. ASSUME NEW c \in Coroutines, Ask(c) PROVE TokenInv'
    BY <2>2, Bystander DEF Ask, TokenInv, TokenTypes, Tokens
  <2>3. ASSUME NEW c \in Coroutines, FindMinted(c) PROVE TokenInv'
    BY <2>3, Bystander DEF FindMinted, TokenInv, TokenTypes, Tokens
  <2>4. ASSUME NEW c \in Coroutines, Served(c) PROVE TokenInv'
    BY <2>4, Bystander DEF Served, TokenInv, TokenTypes, Tokens
  <2>5. ASSUME NEW c \in Coroutines, Invalidate(c) PROVE TokenInv'
    <3>1. cached' \in Tokens /\ cached'.refresh = cached.refresh
      BY <2>5 DEF Invalidate, TokenInv, TokenTypes, Tokens
    <3>2. QED
      BY <2>5, <3>1, Bystander DEF Invalidate
  <2>6. CASE UNCHANGED tokenVars
    BY <2>6 DEF tokenVars, TokenInv, TokenTypes, Locked, InStep, Latest, RefreshSpentOnce
  <2>7. QED
    BY <2>1, <2>2, <2>3, <2>4, <2>5, <2>6, RequestKeeps, SaveKeeps, AnswerLostKeeps, RefusedKeeps
    DEF TokenNext
<1>3. TokenInv => RefreshSpentOnce
  BY DEF TokenInv
<1>4. QED
  BY <1>1, <1>2, <1>3, PTL DEF TokenSpec

-----------------------------------------------------------------------------
(* ModelCalls.                                                              *)

\* A node of the run, whatever it is doing.
Node == [at : {"idle", "execute", "sent", "answered"}, kind : {"loop", "critic", "exit"},
         asked : Tiers, tier : Tiers, spent : Nat, ledger : Nat,
         attempt : 1..CallAttempts, sent : Nat, shed : BOOLEAN]

\* What a node has spent is what the run had booked and its own ledger, and a
\* call is under way only below the ceiling that holds for the node.
Spending(n, b) ==
    /\ b + n.ledger < Overdraft + MaxCost
    /\ n.at = "idle" => n.ledger = 0
    /\ n.at # "idle" => n.spent = b + n.ledger
    /\ n.at # "idle" /\ n.kind = "loop" => n.spent < Limit + MaxCost
    /\ n.at = "sent" => n.spent < Allowed(n.kind)

\* Three calls for every attempt that is over, and those of this one.
Calling(n) ==
    /\ n.at \in {"idle", "execute"} => n.sent <= 3 * (n.attempt - 1)
    /\ n.sent <= 3 * (n.attempt - 1) + 4 - n.tier
    /\ n.at \in {"sent", "answered"} /\ n.tier < n.asked => n.shed

CallsInv ==
    /\ booked \in Nat /\ exits \in 0..2 /\ entered \in 0..MaxNodes
    /\ active \in Node /\ Spending(active, booked) /\ Calling(active)

-----------------------------------------------------------------------------
\* Constants of the module are numbers.
LEMMA CallsNumbers ==
    /\ Limit \in Nat \ {0} /\ MaxCost \in Nat \ {0} /\ CallAttempts \in Nat \ {0}
    /\ MaxNodes \in Nat /\ Overdraft \in Nat /\ Limit <= Overdraft
    /\ \A k : Allowed(k) \in Nat /\ Allowed(k) <= Overdraft
    /\ Tiers = {1, 2, 3}
BY CallsAssumption DEF Overdraft, Allowed, Tiers, Fast, Planner

\* The record of a node that is not there.
LEMMA Nobody == NoNode \in Node /\ Calling(NoNode) /\ \A b \in Nat : b < Overdraft + MaxCost => Spending(NoNode, b)
<1>1. NoNode \in Node
  BY CallsNumbers DEF NoNode, Node, Fast
<1>2. QED
  BY <1>1, CallsNumbers DEF NoNode, Calling, Spending, Fast

\* Once the node is over, what it spent is booked within the same bound.
LEMMA BookKeeps == CallsInv /\ Book => CallsInv'
<1> SUFFICES ASSUME CallsInv, Book PROVE CallsInv'
  OBVIOUS
<1>1. booked' \in Nat /\ booked' < Overdraft + MaxCost
  BY CallsNumbers DEF CallsInv, Book, Node, Spending
<1>2. QED
  BY <1>1, Nobody DEF CallsInv, Book

\* A retry starts a new attempt on the same budget.
LEMMA RetryKeeps == CallsInv /\ active.at # "idle" /\ RetryOrBook => CallsInv'
<1> SUFFICES ASSUME CallsInv, active.at # "idle", RetryOrBook PROVE CallsInv'
  OBVIOUS
<1>1. CASE active.attempt < CallAttempts
  <2> DEFINE n == [active EXCEPT !.attempt = @ + 1, !.at = "execute"]
  <2>1. active' = n /\ UNCHANGED <<booked, exits, entered>>
    BY <1>1 DEF RetryOrBook, Executing
  <2>2. n \in Node
    <3>1. active \in Node
      BY DEF CallsInv
    <3>2. active.attempt + 1 \in 1..CallAttempts
      BY <3>1, <1>1, CallsNumbers DEF Node
    <3>3. QED
      BY <3>1, <3>2 DEF Node
  <2>3. Spending(n, booked)
    BY CallsNumbers DEF CallsInv, Node, Spending
  <2>4. Calling(n)
    <3>1. active.sent <= 3 * active.attempt /\ active.tier \in {1, 2, 3}
      BY CallsNumbers DEF CallsInv, Node, Calling
    <3>2. n.at = "execute" /\ n.sent = active.sent /\ n.tier = active.tier
      BY DEF CallsInv, Node
    <3>3. 3 * (n.attempt - 1) = 3 * active.attempt /\ n.sent \in Nat /\ active.attempt \in Nat
      BY DEF CallsInv, Node
    <3>4. QED
      BY <3>1, <3>2, <3>3 DEF Calling
  <2>5. QED
    BY <2>1, <2>2, <2>3, <2>4 DEF CallsInv
<1>2. CASE ~(active.attempt < CallAttempts)
  BY <1>2, BookKeeps DEF RetryOrBook
<1>3. QED
  BY <1>1, <1>2

LEMMA EnterKeeps ==
    ASSUME NEW kind \in {"loop", "critic", "exit"}, NEW tier \in Tiers, CallsInv, EnterNode(kind, tier)
    PROVE  CallsInv'
<1> DEFINE n == [NoNode EXCEPT !.at = "execute", !.kind = kind, !.asked = tier, !.tier = tier, !.spent = Seed]
<1>1. active' = n /\ booked' = booked
  BY DEF EnterNode
<1>2. exits' \in 0..2 /\ entered' \in 0..MaxNodes
  BY CallsNumbers DEF EnterNode, CallsInv
<1>3. n \in Node
  BY Nobody DEF CallsInv, Node, Seed
<1>4. n.ledger = 0 /\ n.sent = 0 /\ n.attempt = 1 /\ n.at = "execute" /\ n.kind = kind /\ n.tier = tier
      /\ n.spent = booked
  BY DEF NoNode, Seed
<1>5. Spending(n, booked)
  <2>1. booked < Overdraft + MaxCost
    BY CallsNumbers DEF CallsInv, Spending, Node
  <2>2. kind = "loop" => booked < Limit + MaxCost
    BY CallsNumbers DEF CallsInv, EnterNode
  <2>3. QED
    BY <1>4, <2>1, <2>2, CallsNumbers DEF Spending, CallsInv
<1>6. Calling(n)
  BY <1>4, CallsNumbers DEF Calling
<1>7. QED
  BY <1>1, <1>2, <1>3, <1>5, <1>6 DEF CallsInv

LEMMA SendKeeps == CallsInv /\ SendCall => CallsInv'
<1> SUFFICES ASSUME CallsInv, SendCall PROVE CallsInv'
  OBVIOUS
<1>1. CASE Exhausted(active.kind, active.spent)
  BY <1>1, BookKeeps DEF SendCall
<1>2. CASE ~Exhausted(active.kind, active.spent)
  <2> DEFINE low == UnderPressure(active.kind, active.spent)
             n == [active EXCEPT !.at = "sent", !.sent = @ + 1, !.shed = @ \/ low,
                                 !.tier = IF low THEN active.asked - 1 ELSE active.asked]
  <2>1. active' = n /\ UNCHANGED <<booked, exits, entered>> /\ active.at = "execute"
    BY <1>2 DEF SendCall, Executing
  <2>2. low \in BOOLEAN /\ (low => active.asked > 1)
    BY DEF UnderPressure, Fast
  <2>3. n.tier \in Tiers
    BY <2>2, CallsNumbers DEF CallsInv, Node
  <2>4. n \in Node
    <3>1. active \in Node
      BY DEF CallsInv
    <3>2. active.sent + 1 \in Nat /\ (active.shed \/ low) \in BOOLEAN
      BY <3>1, <2>2 DEF Node
    <3>3. (IF low THEN active.asked - 1 ELSE active.asked) \in Tiers
      BY <3>1, <2>2, CallsNumbers DEF Node
    <3>4. QED
      BY <3>1, <3>2, <3>3 DEF Node
  <2>5. active.spent < Allowed(active.kind)
    BY <1>2, CallsNumbers DEF Exhausted, CallsInv, Node
  <2>6. Spending(n, booked)
    BY <2>1, <2>5, CallsNumbers DEF CallsInv, Node, Spending
  <2>7. Calling(n)
    <3>1. n.sent <= 3 * (n.attempt - 1) + 1
      BY <2>1, CallsNumbers DEF CallsInv, Node, Calling
    <3>2. n.tier < n.asked => n.shed
      BY <2>2, CallsNumbers DEF CallsInv, Node
    <3>3. n.at = "sent" /\ n.attempt \in Nat /\ n.sent \in Nat
      BY CallsNumbers DEF CallsInv, Node
    <3>4. n.sent <= 3 * (n.attempt - 1) + 4 - n.tier
      BY <3>1, <3>3, <2>3, CallsNumbers
    <3>5. QED
      BY <3>2, <3>3, <3>4 DEF Calling
  <2>8. QED
    BY <2>1, <2>4, <2>6, <2>7 DEF CallsInv
<1>3. QED
  BY <1>1, <1>2

LEMMA AnsweredKeeps == ASSUME NEW c \in 0..MaxCost, CallsInv, Answered(c) PROVE CallsInv'
<1> DEFINE n == [active EXCEPT !.at = "answered", !.spent = @ + c, !.ledger = @ + c]
<1>1. active' = n /\ UNCHANGED <<booked, exits, entered>> /\ active.at = "sent"
  BY DEF Answered, Executing
<1>2. n \in Node
  <2>1. active \in Node
    BY DEF CallsInv
  <2>2. active.spent + c \in Nat /\ active.ledger + c \in Nat
    BY <2>1, CallsNumbers DEF Node
  <2>3. QED
    BY <2>1, <2>2 DEF Node
<1>3. active.spent < Allowed(active.kind) /\ active.spent = booked + active.ledger
  BY <1>1 DEF CallsInv, Spending
<1>4. active.kind = "loop" => Allowed(active.kind) = Limit
  BY DEF Allowed
<1>5. Spending(n, booked)
  BY <1>1, <1>3, <1>4, CallsNumbers DEF CallsInv, Node, Spending
<1>6. Calling(n)
  <2>1. n.at = "answered" /\ n.sent = active.sent /\ n.attempt = active.attempt
        /\ n.tier = active.tier /\ n.asked = active.asked /\ n.shed = active.shed
    BY DEF CallsInv, Node
  <2>2. QED
    BY <1>1, <2>1 DEF CallsInv, Calling
<1>7. QED
  BY <1>1, <1>2, <1>5, <1>6 DEF CallsInv

LEMMA OverloadedKeeps == CallsInv /\ Overloaded => CallsInv'
<1> SUFFICES ASSUME CallsInv, Overloaded PROVE CallsInv'
  OBVIOUS
<1>1. CASE active.tier > Fast
  <2> DEFINE n == [active EXCEPT !.tier = @ - 1, !.sent = @ + 1, !.shed = TRUE]
  <2>1. active' = n /\ UNCHANGED <<booked, exits, entered>> /\ active.at = "sent"
    BY <1>1 DEF Overloaded, Executing
  <2>2. n \in Node
    <3>1. active \in Node
      BY DEF CallsInv
    <3>2. active.tier - 1 \in Tiers /\ active.sent + 1 \in Nat
      BY <3>1, <1>1, CallsNumbers DEF Node, Fast
    <3>3. QED
      BY <3>1, <3>2 DEF Node
  <2>3. Spending(n, booked)
    BY <2>1, CallsNumbers DEF CallsInv, Node, Spending
  <2>4. Calling(n)
    <3>1. n.at = "sent" /\ n.shed /\ n.attempt = active.attempt
          /\ n.sent = active.sent + 1 /\ n.tier = active.tier - 1
      BY <2>1 DEF CallsInv, Node
    <3>2. active.sent <= 3 * (active.attempt - 1) + 4 - active.tier
      BY DEF CallsInv, Calling
    <3>3. active.sent \in Nat /\ active.attempt \in Nat /\ active.tier \in {1, 2, 3}
      BY CallsNumbers DEF CallsInv, Node
    <3>4. QED
      BY <3>1, <3>2, <3>3 DEF Calling
  <2>5. QED
    BY <2>1, <2>2, <2>3, <2>4 DEF CallsInv
<1>2. CASE ~(active.tier > Fast)
  BY <1>2, RetryKeeps DEF Overloaded
<1>3. QED
  BY <1>1, <1>2

LEMMA TimesOutKeeps == CallsInv /\ TimesOut => CallsInv'
<1> SUFFICES ASSUME CallsInv, TimesOut PROVE CallsInv'
  OBVIOUS
<1>1. booked \in Nat /\ booked < Overdraft + MaxCost
  BY CallsNumbers DEF CallsInv, Node, Spending
<1>2. QED
  BY <1>1, Nobody DEF CallsInv, TimesOut

-----------------------------------------------------------------------------
\* RunBudget.check, _context, _dispatch: whatever the nodes of a run ask,
\* retry, pay and are refused, what the run has booked, and what a node that
\* runs has spent of it, stays within one answer of the ceiling.
THEOREM SpendBoundedHolds == CallsSpec => []SpendBounded
<1>1. CallsInit => CallsInv
  <2> SUFFICES ASSUME CallsInit PROVE CallsInv
    OBVIOUS
  <2>1. booked = 0 /\ exits = 0 /\ entered = 0 /\ active = NoNode /\ 0 < Overdraft + MaxCost
    BY CallsNumbers DEF CallsInit
  <2>2. QED
    BY <2>1, Nobody, CallsNumbers DEF CallsInv
<1>2. CallsInv /\ [CallsNext]_callVars => CallsInv'
  <2> SUFFICES ASSUME CallsInv, [CallsNext]_callVars PROVE CallsInv'
    OBVIOUS
  <2>1. CASE \E kind \in {"loop", "critic", "exit"}, tier \in Tiers : EnterNode(kind, tier)
    BY <2>1, EnterKeeps
  <2>2. CASE SendCall
    BY <2>2, SendKeeps
  <2>3. CASE \E c \in 0..MaxCost : Answered(c)
    BY <2>3, AnsweredKeeps
  <2>4. CASE Overloaded
    BY <2>4, OverloadedKeeps
  <2>5. CASE FailsForNow
    BY <2>5, RetryKeeps DEF FailsForNow
  <2>6. CASE Ends
    BY <2>6, BookKeeps DEF Ends
  <2>7. CASE TimesOut
    BY <2>7, TimesOutKeeps
  <2>8. CASE UNCHANGED callVars
    BY <2>8 DEF CallsInv, callVars
  <2>9. QED
    BY <2>1, <2>2, <2>3, <2>4, <2>5, <2>6, <2>7, <2>8 DEF CallsNext
<1>3. CallsInv => SpendBounded
  <2> SUFFICES ASSUME CallsInv PROVE SpendBounded
    OBVIOUS
  <2>1. active.sent <= CallAttempts * Planner
    BY CallsNumbers DEF CallsInv, Node, Calling, Planner
  <2>2. QED
    BY <2>1, CallsNumbers DEF CallsInv, Node, Spending, Calling, SpendBounded
<1>4. QED
  BY <1>1, <1>2, <1>3, PTL DEF CallsSpec
=============================================================================
