-------------------------- MODULE CommandRateProofs --------------------------
(***************************************************************************)
(* Proofs about module CommandRate: the token bucket keeps its rate for    *)
(* every capacity and refill period, whatever the counter does. Both       *)
(* bounds are one potential argument: a token costs RefillInterval ticks   *)
(* of the bucket's own clock sample.                                       *)
(***************************************************************************)
EXTENDS CommandRate, Integers, TLAPS

(* Division rounds down, also for a span that went backwards.              *)
LEMMA DivFacts ==
    ASSUME NEW a \in Int, NEW b \in Nat \ {0}
    PROVE  /\ a \div b \in Int
           /\ (a \div b) * b <= a /\ a < (a \div b) * b + b
BY SMT

(* Whole intervals below a span are counted by the division.               *)
LEMMA DivLower ==
    ASSUME NEW a \in Int, NEW b \in Nat \ {0}, NEW k \in Int, k * b <= a
    PROVE  k <= a \div b
<1> DEFINE q == a \div b
<1>1. q \in Int /\ a < q * b + b
  BY DivFacts
<1> HIDE DEF q
<1>2. SUFFICES ASSUME k >= q + 1
               PROVE  FALSE
  BY <1>1 DEF q
<1>3. k * b >= (q + 1) * b
  BY <1>1, <1>2, SMT
<1>4. (q + 1) * b = q * b + b
  BY <1>1, SMT
<1>5. k * b \in Int /\ q * b \in Int /\ (q + 1) * b \in Int
  BY <1>1
<1>6. QED
  BY <1>1, <1>3, <1>4, <1>5

LEMMA IntervalPositive == RefillInterval \in Nat \ {0}
<1>1. RefillTicks + CommandTokens - 1 \in Nat /\ CommandTokens \in Nat \ {0}
      /\ 1 * CommandTokens <= RefillTicks + CommandTokens - 1
  BY BucketAssumption
<1> DEFINE a == RefillTicks + CommandTokens - 1
<1>2. a \div CommandTokens \in Int
  BY <1>1, DivFacts
<1>3. 1 <= a \div CommandTokens
  BY <1>1, DivLower
<1>4. QED
  BY <1>2, <1>3 DEF RefillInterval

-----------------------------------------------------------------------------
BucketType == [tokens : 0 .. CommandTokens, last : Nat, running : BOOLEAN]

(* One sample through refill_step: g tokens arrive, and each costs an      *)
(* interval of the bucket's clock, which a running bucket keeps within an  *)
(* interval of the sample.                                                 *)
Refilled(b, t, v, r) ==
    /\ r \in BucketType
    /\ r.last <= t \/ r.last = b.last
    /\ r.running => /\ b.running /\ v
                    /\ r.last <= t /\ t < r.last + RefillInterval
    /\ \E g \in Nat : /\ r.tokens = b.tokens + g
                      /\ b.last + g * RefillInterval <= r.last

LEMMA RefillFacts ==
    ASSUME NEW b \in BucketType, NEW t \in Nat, NEW v \in BOOLEAN
    PROVE  Refilled(b, t, v, refill_step(b, t, v))
<1> USE DEF Refilled
<1> DEFINE r == refill_step(b, t, v)
<1> DEFINE I == RefillInterval
<1> DEFINE due == (t - b.last) \div I
<1>1. I \in Nat \ {0}
  BY IntervalPositive
<1>2. b.last \in Nat /\ b.tokens \in 0 .. CommandTokens /\ b.running \in BOOLEAN
      /\ CommandTokens \in Nat
  BY BucketAssumption DEF BucketType
<1> HIDE DEF I
<1>3. 0 * I = 0
  BY <1>1
<1>4. CASE ~b.running
  <2>1. r = b
    BY <1>4 DEF refill_step
  <2>2. b.tokens = b.tokens + 0 /\ b.last + 0 * I <= b.last
    BY <1>2, <1>3
  <2>3. QED
    BY <1>4, <2>1, <2>2 DEF I
<1>5. CASE b.running /\ (~v \/ t < b.last)
  <2>1. r = [b EXCEPT !.running = FALSE]
    BY <1>5 DEF refill_step
  <2>2. r \in BucketType /\ r.last = b.last /\ r.tokens = b.tokens /\ r.running = FALSE
    BY <2>1 DEF BucketType
  <2>3. b.tokens = b.tokens + 0 /\ b.last + 0 * I <= b.last
    BY <1>2, <1>3
  <2> HIDE DEF r
  <2>4. QED
    BY <2>2, <2>3 DEF I, r
<1>6. CASE b.running /\ v /\ b.last <= t
  <2>1. t - b.last \in Nat
    BY <1>2, <1>6
  <2>2. due \in Int /\ due * I <= t - b.last /\ t - b.last < due * I + I
    <3> DEFINE span == t - b.last
    <3>1. span \in Int
      BY <2>1
    <3> HIDE DEF span
    <3>2. (span \div I) \in Int /\ (span \div I) * I <= span /\ span < (span \div I) * I + I
      BY <1>1, <3>1, DivFacts
    <3>3. QED
      BY <3>2 DEF span
  <2>3. due \in Nat /\ due * I \in Nat
    <3>1. 0 <= due
      BY <1>1, <1>3, <2>1, DivLower
    <3>2. QED
      BY <1>1, <2>2, <3>1
  <2> HIDE DEF due
  <2>4. CASE due = 0
    <3>1. r = b
      BY <1>2, <1>6, <2>4 DEF refill_step, due, I
    <3>2. b.tokens = b.tokens + 0 /\ b.last + 0 * I <= b.last /\ t < b.last + I
      BY <1>1, <1>2, <1>3, <2>1, <2>2, <2>4
    <3>3. QED
      BY <1>6, <3>1, <3>2 DEF I
  <2>5. CASE due # 0 /\ due >= CommandTokens - b.tokens
    <3>1. r = [b EXCEPT !.tokens = CommandTokens, !.last = t]
      BY <1>2, <1>6, <2>5 DEF refill_step, due, I
    <3>2. r \in BucketType /\ r.last = t /\ r.tokens = CommandTokens /\ r.running = b.running
      <4>1. CommandTokens \in 0 .. CommandTokens
        BY <1>2
      <4>2. QED
        BY <3>1, <4>1, Zenon DEF BucketType
    <3> DEFINE g == CommandTokens - b.tokens
    <3>3. g \in Nat /\ CommandTokens = b.tokens + g /\ g <= due
      BY <1>2, <2>3, <2>5
    <3> HIDE DEF g
    <3>4. g * I <= due * I /\ g * I \in Nat
      BY <1>1, <2>3, <3>3, SMT
    <3>5. b.last + g * I <= t
      BY <1>2, <2>1, <2>2, <2>3, <3>4
    <3>6. t <= t /\ t < t + I
      BY <1>1
    <3> HIDE DEF r
    <3>7. QED
      BY <1>6, <3>2, <3>3, <3>5, <3>6 DEF r, I
  <2>6. CASE due # 0 /\ ~(due >= CommandTokens - b.tokens)
    <3> DEFINE n == b.tokens + due
    <3> DEFINE l == b.last + due * I
    <3>1. r = [b EXCEPT !.tokens = n, !.last = l]
      BY <1>2, <1>6, <2>6 DEF refill_step, due, I
    <3>2. n \in 0 .. CommandTokens /\ l \in Nat /\ l <= t /\ t < l + I /\ l <= l
      BY <1>1, <1>2, <2>1, <2>2, <2>3, <2>6
    <3> HIDE DEF n, l
    <3>3. r \in BucketType /\ r.last = l /\ r.tokens = n /\ r.running = b.running
      BY <1>2, <3>1, <3>2 DEF BucketType
    <3> HIDE DEF r
    <3>4. QED
      BY <1>6, <2>3, <3>2, <3>3 DEF r, I, n, l
  <2>7. QED
    BY <2>4, <2>5, <2>6
<1>7. QED
  BY <1>2, <1>4, <1>5, <1>6

-----------------------------------------------------------------------------
RateTypeOK ==
    /\ bucket \in BucketType /\ tick \in Nat /\ usable \in BOOLEAN
    /\ served \in Seq(Nat) /\ high \in Nat

(* What the requests from the i-th on have taken is covered by the tokens  *)
(* that were there and the intervals since; the one running when the i-th  *)
(* arrived may be counted once more.                                       *)
Covered(i) ==
    (Len(served) - i + 1 + bucket.tokens - CommandTokens) * RefillInterval
       < bucket.last - served[i] + RefillInterval

RateInv ==
    /\ RateTypeOK
    /\ bucket.last <= high
    /\ (Len(served) + bucket.tokens - CommandTokens) * RefillInterval <= bucket.last
    /\ bucket.running => (\A i \in DOMAIN served : Covered(i)) /\ RateBound

LEMMA Distribute ==
    ASSUME NEW a \in Int, NEW b \in Int, NEW n \in Int
    PROVE  /\ (a + b) * n = a * n + b * n
           /\ a * n \in Int /\ b * n \in Int
BY SMT

LEMMA RateInvInit == RateInit => RateInv
<1> SUFFICES ASSUME RateInit
             PROVE  RateInv
  OBVIOUS
<1>1. /\ bucket = [tokens |-> CommandTokens, last |-> 0, running |-> usable]
      /\ tick = 0 /\ usable \in BOOLEAN /\ served = <<>> /\ high = 0
  BY DEF RateInit, FullBucket
<1>2. CommandTokens \in Nat /\ CommandTokens \in 0 .. CommandTokens
  BY BucketAssumption
<1>3. /\ bucket \in BucketType /\ bucket.tokens = CommandTokens /\ bucket.last = 0
  BY <1>1, <1>2, Zenon DEF BucketType
<1>4. RateTypeOK
  BY <1>1, <1>3 DEF RateTypeOK
<1>5. DOMAIN served = {} /\ Len(served) = 0
  BY <1>1
<1>6. (Len(served) + bucket.tokens - CommandTokens) * RefillInterval <= bucket.last
  <2>1. Len(served) + bucket.tokens - CommandTokens = 0 /\ RefillInterval \in Nat
    BY <1>2, <1>3, <1>5, IntervalPositive
  <2>2. QED
    BY <1>3, <2>1
<1>7. RateBound
  BY <1>5 DEF RateBound
<1>8. QED
  BY <1>1, <1>3, <1>4, <1>5, <1>6, <1>7 DEF RateInv

(* A request: refill, then spend.                                          *)
LEMMA RequestKeeps ==
    ASSUME RateInv, Request
    PROVE  RateInv'
<1> DEFINE r == refill_step(bucket, Sample, usable)
<1> DEFINE I == RefillInterval
<1> DEFINE C == CommandTokens
<1> DEFINE n == Len(served)
<1>1. I \in Nat \ {0} /\ C \in Nat \ {0}
  BY IntervalPositive, BucketAssumption
<1>2. RateTypeOK /\ n \in Nat /\ DOMAIN served = 1 .. n /\ \A i \in 1 .. n : served[i] \in Nat
  BY DEF RateInv, RateTypeOK
<1>3. Sample \in Nat /\ (usable => Sample = tick) /\ Sample <= tick
  BY <1>2 DEF Sample, RateTypeOK
<1>4. /\ r \in BucketType
      /\ r.last <= Sample \/ r.last = bucket.last
      /\ r.running => /\ bucket.running /\ usable
                      /\ r.last <= Sample /\ Sample < r.last + RefillInterval
      /\ \E g \in Nat : /\ r.tokens = bucket.tokens + g
                        /\ bucket.last + g * RefillInterval <= r.last
  <2>1. bucket \in BucketType /\ Sample \in Nat /\ usable \in BOOLEAN
    BY <1>2, <1>3 DEF RateTypeOK
  <2>2. Refilled(bucket, Sample, usable, refill_step(bucket, Sample, usable))
    BY <2>1, RefillFacts, Zenon
  <2>3. Refilled(bucket, Sample, usable, r)
    BY <2>2, Zenon
  <2> HIDE DEF r
  <2>4. QED
    BY <2>3, Zenon DEF Refilled
<1>5. PICK g \in Nat : r.tokens = bucket.tokens + g /\ bucket.last + g * I <= r.last
  BY <1>4
<1>6. /\ bucket' = IF r.tokens = 0 THEN r ELSE [r EXCEPT !.tokens = r.tokens - 1]
      /\ served' = IF r.tokens = 0 THEN served ELSE Append(served, tick)
      /\ high' = (IF tick > high THEN tick ELSE high) /\ tick' = tick /\ usable' = usable
  BY Zenon DEF Request, Spend
<1> DEFINE tk == r.tokens
<1> DEFINE lst == r.last
<1> HIDE DEF r, I, C, n
<1>7. /\ tk \in Nat /\ tk <= C /\ lst \in Nat
      /\ bucket.tokens \in Nat /\ bucket.last \in Nat /\ high \in Nat /\ tick \in Nat
      /\ tk = bucket.tokens + g /\ bucket.last + g * I <= lst
      /\ lst <= Sample \/ lst = bucket.last
      /\ r.running => lst <= Sample /\ Sample < lst + I
  BY <1>1, <1>2, <1>4, <1>5 DEF BucketType, RateTypeOK, C, I
<1> HIDE DEF tk, lst
<1>15. /\ n \in Int /\ C \in Int /\ I \in Int /\ tk \in Int /\ lst \in Int
       /\ tick \in Int /\ 0 <= tk /\ tk <= C /\ 0 < I
  BY <1>1, <1>2, <1>7
<1>8. g * I \in Nat
  BY <1>1
<1>9. high' \in Nat /\ lst <= high'
  BY <1>3, <1>6, <1>7 DEF RateInv
<1>10. (n + tk - C) * I <= lst
  <2>1. (n + bucket.tokens - C) * I <= bucket.last
    BY DEF RateInv, n, C, I
  <2>2. ((n + bucket.tokens - C) + g) * I = (n + bucket.tokens - C) * I + g * I
    BY <1>1, <1>2, <1>7, Distribute
  <2>3. n + tk - C = (n + bucket.tokens - C) + g
    BY <1>1, <1>2, <1>5, <1>7
  <2>4. (n + bucket.tokens - C) * I \in Int
    BY <1>1, <1>2, <1>7, Distribute
  <2>5. QED
    BY <1>5, <1>7, <1>8, <2>1, <2>2, <2>3, <2>4
<1>11. r.running => \A i \in 1 .. n : (n - i + 1 + tk - C) * I < lst - served[i] + I
  <2> SUFFICES ASSUME r.running, NEW i \in 1 .. n
               PROVE  (n - i + 1 + tk - C) * I < lst - served[i] + I
    OBVIOUS
  <2> DEFINE a == n - i + 1 + bucket.tokens - C
  <2>1. a * I < bucket.last - served[i] + I
    BY <1>2, <1>4 DEF RateInv, Covered, n, C, I
  <2>2. a \in Int /\ n - i + 1 + tk - C = a + g
    BY <1>1, <1>2, <1>5, <1>7, SMTT(30)
  <2> HIDE DEF a
  <2>3. (a + g) * I = a * I + g * I /\ a * I \in Int
    BY <1>1, <2>2, Distribute
  <2>4. (n - i + 1 + tk - C) * I = a * I + g * I
    BY <2>2, <2>3
  <2>5. a * I + g * I < lst - served[i] + I
    <3> DEFINE x == a * I
               y == g * I
               v == served[i]
               before == bucket.last
    <3>1. v \in Nat /\ before \in Nat /\ lst \in Nat /\ I \in Nat
      BY <1>1, <1>2, <1>7
    <3>2. y \in Int
      BY <1>1, <1>5, Distribute
    <3>3. x \in Int /\ x < before - v + I /\ before + y <= lst
      BY <1>7, <2>1, <2>3
    <3> HIDE DEF x, y, v, before, lst
    <3>4. x + y < lst - v + I
      BY <3>1, <3>2, <3>3
    <3>5. QED
      BY <3>4 DEF x, y, v
  <2>6. QED
    BY <2>4, <2>5
<1>12. CASE tk = 0
  <2>1. bucket' = r /\ served' = served /\ bucket'.tokens = tk /\ bucket'.last = lst
    BY <1>6, <1>12 DEF tk, lst
  <2>2. RateTypeOK'
    BY <1>2, <1>4, <1>6, <1>9, <2>1 DEF RateTypeOK
  <2>3. bucket'.running => (\A i \in DOMAIN served' : Covered(i)') /\ RateBound'
    <3>1. bucket'.running => RateBound'
      BY <1>4, <2>1 DEF RateInv, RateBound
    <3>2. QED
      BY <1>2, <1>11, <2>1, <3>1 DEF Covered, n, C, I
  <2>4. QED
    BY <1>9, <1>10, <2>1, <2>2, <2>3 DEF RateInv, n, C, I
<1>13. CASE tk # 0
  <2> DEFINE k == tk - 1
  <2>1. bucket' = [r EXCEPT !.tokens = k] /\ served' = Append(served, tick)
    BY <1>6, <1>13 DEF tk
  <2>2. k \in Nat /\ k \in 0 .. CommandTokens
    BY <1>13, <1>15 DEF C
  <2> HIDE DEF k
  <2>3. /\ bucket' \in BucketType /\ bucket'.tokens = k /\ bucket'.last = lst
        /\ bucket'.running = r.running
    BY <1>4, <2>1, <2>2, Zenon DEF BucketType, lst
  <2>4. /\ Len(served') = n + 1 /\ served' \in Seq(Nat) /\ DOMAIN served' = 1 .. n + 1
        /\ served'[n + 1] = tick /\ \A i \in 1 .. n : served'[i] = served[i]
    BY <1>2, <1>7, <2>1 DEF RateTypeOK, n
  <2>5. RateTypeOK'
    BY <1>2, <1>6, <1>9, <2>3, <2>4 DEF RateTypeOK
  <2>6. k = tk - 1
    BY DEF k
  <2>7. (n + 1 + k - C) * I <= lst
    <3>1. n + 1 + k - C = n + tk - C
      BY <1>15, <2>6
    <3>2. QED
      BY <1>10, <3>1
  <2>8. ASSUME r.running, NEW i \in 1 .. n + 1
        PROVE  (n + 1 - i + 1 + k - C) * I < lst - served'[i] + I
    <3>1. CASE i \in 1 .. n
      <4>1. n + 1 - i + 1 + k - C = n - i + 1 + tk - C
        BY <1>15, <2>6
      <4>2. QED
        BY <1>11, <2>4, <2>8, <3>1, <4>1
    <3>2. CASE i = n + 1
      <4> DEFINE a == tk - C
      <4>1. n + 1 - i + 1 + k - C = a /\ a \in Int /\ a <= 0
        BY <1>15, <2>6, <3>2
      <4> HIDE DEF a
      <4>2. a * I <= 0 /\ a * I \in Int
        BY <1>1, <4>1, SMT
      <4>3. tick < lst + I
        BY <1>3, <1>4, <1>7, <2>8
      <4>4. a * I < lst - tick + I
        BY <1>1, <1>7, <4>2, <4>3
      <4>5. QED
        BY <2>4, <3>2, <4>1, <4>4
    <3>3. QED
      BY <1>2, <3>1, <3>2
  <2>9. ASSUME r.running, NEW i \in 1 .. n + 1
        PROVE  (n + 1 - i) + 1 <= C + (served'[n + 1] - served'[i]) \div I + 1
    <3> DEFINE a == n + 1 - i - C
    <3> DEFINE d == served'[n + 1] - served'[i]
    <3>1. a \in Int /\ d \in Int /\ served'[i] \in Nat
      <4>1. served'[i] \in Nat /\ served'[n + 1] = tick
        BY <2>4
      <4>2. QED
        BY <1>15, <4>1
    <3>2. n + 1 - i + 1 + k - C = (a + 1) + k
      BY <1>1, <1>2, <2>2
    <3> HIDE DEF a
    <3>3. ((a + 1) + k) * I = (a + 1) * I + k * I /\ (a + 1) * I = a * I + 1 * I
      BY <1>1, <2>2, <3>1, Distribute
    <3>4. a * I \in Int /\ k * I \in Nat /\ 1 * I = I
      BY <1>1, <2>2, <3>1, Distribute
    <3>5. ((a + 1) + k) * I < lst - served'[i] + I
      BY <2>8, <2>9, <3>2
    <3>6. lst <= tick
      BY <1>3, <1>4, <1>7, <2>9
    <3>7. a * I <= d
      <4>1. d = tick - served'[i]
        BY <2>4
      <4>2. QED
        BY <1>15, <3>1, <3>3, <3>4, <3>5, <3>6, <4>1
    <3>8. a <= d \div I /\ d \div I \in Int
      BY <1>1, <3>1, <3>7, DivLower, DivFacts
    <3> HIDE DEF d
    <3>9. (n + 1 - i) + 1 <= C + (d \div I) + 1
      BY <1>1, <1>2, <3>1, <3>8 DEF a
    <3>10. QED
      BY <3>9 DEF d
  <2>10. r.running => RateBound'
    <3> SUFFICES ASSUME r.running, NEW i \in 1 .. n + 1, NEW j \in 1 .. n + 1, i <= j
                 PROVE  (j - i) + 1 <= C + (served'[j] - served'[i]) \div I + 1
      BY <2>4 DEF RateBound, C, I
    <3>1. CASE j = n + 1
      <4> DEFINE d == (served'[n + 1] - served'[i]) \div I
      <4>1. (n + 1 - i) + 1 <= C + d + 1
        BY <2>9
      <4>2. (served'[j] - served'[i]) \div I = d
        BY <3>1
      <4> HIDE DEF d
      <4>3. QED
        BY <1>15, <3>1, <4>1, <4>2
    <3>2. CASE j \in 1 .. n
      <4>1. i \in 1 .. n
        BY <1>2, <3>2
      <4>2. bucket.running => \A x, y \in 1 .. n : x <= y =>
                                (y - x) + 1 <= C + (served[y] - served[x]) \div I + 1
        BY <1>2 DEF RateInv, RateBound, C, I
      <4>3. served'[i] = served[i] /\ served'[j] = served[j]
        BY <2>4, <3>2, <4>1
      <4>4. QED
        BY <1>4, <3>2, <4>1, <4>2, <4>3
    <3>3. QED
      BY <1>2, <3>1, <3>2
  <2>11. bucket'.running => \A i \in DOMAIN served' : Covered(i)'
    <3> SUFFICES ASSUME r.running, NEW i \in 1 .. n + 1
                 PROVE  Covered(i)'
      BY <2>3, <2>4
    <3>1. (n + 1 - i + 1 + k - C) * I < lst - served'[i] + I
      BY <2>8
    <3> DEFINE a == n + 1 - i + 1 + k - C
    <3>2. Len(served') - i + 1 + bucket'.tokens - CommandTokens = a
      BY <1>15, <2>2, <2>3, <2>4 DEF C
    <3>3. a * I < bucket'.last - served'[i] + I
      BY <2>3, <3>1
    <3> HIDE DEF a
    <3>4. QED
      BY <3>2, <3>3 DEF Covered, I
  <2>12. QED
    BY <1>9, <2>3, <2>4, <2>5, <2>7, <2>10, <2>11 DEF RateInv, C, I
<1>14. QED
  BY <1>12, <1>13

LEMMA RateInvStep ==
    ASSUME RateInv, [RateNext]_rateVars
    PROVE  RateInv'
<1>1. CASE Request
  BY <1>1, RequestKeeps
<1>2. ASSUME bucket' = bucket, served' = served, high' = high, RateTypeOK'
      PROVE  RateInv'
  BY <1>2 DEF RateInv, RateBound, Covered
<1>3. CASE CounterMoves
  <2>1. tick' \in Nat
    BY <1>3, RateAssumption DEF CounterMoves
  <2>2. QED
    BY <1>2, <1>3, <2>1 DEF CounterMoves, RateInv, RateTypeOK
<1>4. CASE ClockLost
  BY <1>2, <1>4 DEF ClockLost, RateInv, RateTypeOK
<1>5. CASE UNCHANGED rateVars
  BY <1>2, <1>5 DEF rateVars, RateInv, RateTypeOK
<1>6. QED
  BY <1>1, <1>3, <1>4, <1>5 DEF RateNext

LEMMA RateInvariance == RateSpec => []RateInv
<1>1. RateInv /\ [RateNext]_rateVars => RateInv'
  BY RateInvStep
<1>2. QED
  BY <1>1, RateInvInit, PTL DEF RateSpec

-----------------------------------------------------------------------------
(* The rate limit of the command channel for every capacity and refill     *)
(* period, over every order of requests, idle times, small steps back of   *)
(* the counter and a lost clock (refill_step).                             *)
THEOREM RateLimited == RateSpec => []RateBound
<1>1. RateInv => (bucket.running => RateBound)
  BY DEF RateInv
<1>2. RateInv => RateBound
  BY <1>1 DEF RateBound
<1>3. QED
  BY <1>2, RateInvariance, PTL

(* However the counter moves, all requests ever served fit the highest     *)
(* tick a request saw: a clock that is set back buys no second refill      *)
(* (refill_step stops refilling for good).                                 *)
THEOREM NoGainBackwards == RateSpec => []BackwardsBuysNothing
<1>1. ASSUME RateInv
      PROVE  BackwardsBuysNothing
  <2> DEFINE I == RefillInterval
  <2> DEFINE a == Len(served) - CommandTokens
  <2>1. /\ I \in Nat \ {0} /\ Len(served) \in Nat /\ CommandTokens \in Nat
        /\ bucket.tokens \in Nat /\ bucket.last \in Nat /\ high \in Nat
    BY <1>1, IntervalPositive, BucketAssumption DEF RateInv, RateTypeOK, BucketType
  <2>2. a \in Int /\ Len(served) + bucket.tokens - CommandTokens = a + bucket.tokens
    BY <2>1
  <2>3. (Len(served) + bucket.tokens - CommandTokens) * I <= bucket.last /\ bucket.last <= high
    BY <1>1 DEF RateInv
  <2> HIDE DEF a, I
  <2>4. (a + bucket.tokens) * I = a * I + bucket.tokens * I /\ a * I \in Int
        /\ bucket.tokens * I \in Nat
    BY <2>1, <2>2, Distribute
  <2>5. (a + bucket.tokens) * I <= bucket.last
    BY <2>2, <2>3
  <2>6. a * I <= high
    BY <2>1, <2>3, <2>4, <2>5, SMTT(30)
  <2>7. a <= high \div I /\ high \div I \in Int
    <3>1. high \in Int /\ I \in Nat \ {0} /\ a \in Int
      BY <2>1, <2>2
    <3>2. a <= high \div I
      BY <2>6, <3>1, DivLower
    <3>3. high \div I \in Int
      BY <3>1, DivFacts
    <3>4. QED
      BY <3>2, <3>3
  <2> DEFINE h == high \div I
  <2> HIDE DEF h
  <2>8. Len(served) <= CommandTokens + h
    BY <2>1, <2>7 DEF a, h
  <2>9. QED
    BY <2>8 DEF BackwardsBuysNothing, h, I
<1>2. QED
  BY <1>1, RateInvariance, PTL
=============================================================================
