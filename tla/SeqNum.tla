------------------------------- MODULE SeqNum -------------------------------
(***************************************************************************)
(* Serial-number arithmetic of chiaki/seqnum.h: w-bit counters that wrap,  *)
(* compared by the shorter way round the circle (RFC 1982).  The modulus   *)
(* 2^w is the constant M; the 16 and 32 bit instances differ only in M.    *)
(***************************************************************************)
EXTENDS Integers, TLAPS

CONSTANT M      \* number of sequence numbers, 2^16 or 2^32 in the code

ASSUME ModulusAssumption == M \in Nat /\ M > 2 /\ M % 2 = 0

Half == M \div 2

SeqNums == 0 .. M - 1

\* (uintN_t)(a + b)
Add(a, b) == (a + b) % M

\* The comparisons are written as in the header: on the signed difference of
\* the two values, with the wrapped case separate.  At distance exactly Half
\* neither holds.
Lt(a, b) == \/ a < b /\ b - a < Half
            \/ a > b /\ a - b > Half

Gt(a, b) == \/ a < b /\ b - a > Half
            \/ a > b /\ a - b < Half

Le(a, b) == a = b \/ Lt(a, b)
Ge(a, b) == a = b \/ Gt(a, b)

\* How many increments lead from a to b.
Dist(a, b) == (b - a) % M

-----------------------------------------------------------------------------
(* The arithmetic for every modulus: numbers as offsets from one of them    *)

\* Half is half of the modulus.
LEMMA HalfFacts == Half \in Nat /\ M = 2 * Half /\ Half > 1
  BY ModulusAssumption, SMT DEF Half

\* Adding at most once around the circle wraps at most once.
LEMMA AddWraps ==
  ASSUME NEW a \in SeqNums, NEW k \in 0 .. M
  PROVE  /\ Add(a, k) \in SeqNums
         /\ Add(a, k) = IF a + k < M THEN a + k ELSE (a + k) - M
  BY ModulusAssumption, SMT DEF SeqNums, Add

\* The distance in closed form.
LEMMA DistWraps ==
  ASSUME NEW a \in SeqNums, NEW b \in SeqNums
  PROVE  /\ Dist(a, b) \in SeqNums
         /\ Dist(a, b) = IF a <= b THEN b - a ELSE (b - a) + M
  BY ModulusAssumption, SMT DEF SeqNums, Dist

\* Every number is its distance away from any other.
LEMMA OffsetOfNumber ==
  ASSUME NEW b \in SeqNums, NEW s \in SeqNums
  PROVE  Add(b, Dist(b, s)) = s
<1>1. Dist(b, s) \in 0 .. M /\ Dist(b, s) = IF b <= s THEN s - b ELSE (s - b) + M
  BY DistWraps, ModulusAssumption, SMT DEF SeqNums
<1>2. Add(b, Dist(b, s)) = IF b + Dist(b, s) < M THEN b + Dist(b, s) ELSE (b + Dist(b, s)) - M
  BY <1>1, AddWraps
<1> QED
  BY <1>1, <1>2, ModulusAssumption, SMT DEF SeqNums

\* Offsets add up.
LEMMA OffsetsAdd ==
  ASSUME NEW b \in SeqNums, NEW j \in 0 .. M - 1, NEW k \in 0 .. M - 1, j + k <= M
  PROVE  Add(Add(b, j), k) = Add(b, j + k)
<1>1. Add(b, j) \in SeqNums /\ Add(b, j) = IF b + j < M THEN b + j ELSE (b + j) - M
  BY AddWraps, ModulusAssumption, SMT DEF SeqNums
<1>2. Add(b, j + k) = IF b + (j + k) < M THEN b + (j + k) ELSE (b + (j + k)) - M
  <2>1. j + k \in 0 .. M
    BY ModulusAssumption, SMT
  <2> QED
    BY <2>1, AddWraps
<1>3. Add(Add(b, j), k) = IF Add(b, j) + k < M THEN Add(b, j) + k ELSE (Add(b, j) + k) - M
  BY <1>1, AddWraps, ModulusAssumption, SMT DEF SeqNums
<1> QED
  BY <1>1, <1>2, <1>3, ModulusAssumption, SMT DEF SeqNums

\* The order of two numbers depends only on their offsets.
LEMMA OffsetOrder ==
  ASSUME NEW b \in SeqNums, NEW j \in 0 .. M - 1, NEW k \in 0 .. M - 1
  PROVE  /\ Add(b, j) = Add(b, k) <=> j = k
         /\ Lt(Add(b, j), Add(b, k)) <=> \/ j < k /\ k - j < Half
                                         \/ j > k /\ j - k > Half
         /\ Gt(Add(b, j), Add(b, k)) <=> \/ j < k /\ k - j > Half
                                         \/ j > k /\ j - k < Half
<1>1. Add(b, j) = IF b + j < M THEN b + j ELSE (b + j) - M
  BY AddWraps, ModulusAssumption, SMT DEF SeqNums
<1>2. Add(b, k) = IF b + k < M THEN b + k ELSE (b + k) - M
  BY AddWraps, ModulusAssumption, SMT DEF SeqNums
<1> QED
  BY <1>1, <1>2, HalfFacts, ModulusAssumption, SMT DEF SeqNums, Lt, Gt

\* So does their distance.
LEMMA OffsetDist ==
  ASSUME NEW b \in SeqNums, NEW j \in 0 .. M - 1, NEW k \in 0 .. M - 1
  PROVE  Dist(Add(b, j), Add(b, k)) = IF j <= k THEN k - j ELSE (k - j) + M
<1>1. Add(b, j) \in SeqNums /\ Add(b, j) = IF b + j < M THEN b + j ELSE (b + j) - M
  BY AddWraps, ModulusAssumption, SMT DEF SeqNums
<1>2. Add(b, k) \in SeqNums /\ Add(b, k) = IF b + k < M THEN b + k ELSE (b + k) - M
  BY AddWraps, ModulusAssumption, SMT DEF SeqNums
<1>3. Dist(Add(b, j), Add(b, k)) = IF Add(b, j) <= Add(b, k) THEN Add(b, k) - Add(b, j)
                                   ELSE (Add(b, k) - Add(b, j)) + M
  BY <1>1, <1>2, DistWraps
<1> QED
  BY <1>1, <1>2, <1>3, ModulusAssumption, SMT DEF SeqNums

\* The quotient and the remainder.
LEMMA Division ==
  ASSUME NEW y \in Nat, y > 0, NEW a \in Nat
  PROVE  /\ a \div y \in Nat /\ a % y \in 0 .. y - 1
         /\ a = (y * (a \div y)) + (a % y)
  BY SMT

\* A multiple of y closer to zero than y is zero.
LEMMA SmallMultiple ==
  ASSUME NEW y \in Nat, y > 0, NEW n \in Int, y * n < y, -y < y * n
  PROVE  n = 0
<1>1. CASE n >= 1
  <2>1. y * n = (y * (n - 1)) + y
    BY SMT
  <2>2. n - 1 \in Nat /\ y * (n - 1) >= 0
    BY <1>1, SMT
  <2> QED
    BY <2>1, <2>2, SMT
<1>2. CASE n <= -1
  <2>1. y * n = (y * (n + 1)) - y
    BY SMT
  <2>2. y * (n + 1) <= 0
    BY <1>2, SMT
  <2> QED
    BY <2>1, <2>2, SMT
<1> QED
  BY <1>1, <1>2, SMT

\* Whole turns of the circle do not change the remainder.
LEMMA WholeTurns ==
  ASSUME NEW y \in Nat, y > 0, NEW q \in Nat, NEW x \in Nat
  PROVE  ((y * q) + x) % y = x % y
<1> DEFINE a == (y * q) + x
           n == (q + (x \div y)) - (a \div y)
<1>1. y * q \in Nat /\ a \in Nat
  BY SMT
<1> HIDE DEF a
<1>2. /\ a \div y \in Nat /\ a % y \in 0 .. y - 1 /\ a = (y * (a \div y)) + (a % y)
      /\ x \div y \in Nat /\ x % y \in 0 .. y - 1 /\ x = (y * (x \div y)) + (x % y)
  BY <1>1, Division
<1>3. n \in Int
  BY <1>2, SMT
<1>4. y * n = (a % y) - (x % y)
  <2>1. y * n = ((y * q) + (y * (x \div y))) - (y * (a \div y))
    BY <1>2, SMT
  <2>2. a = (y * q) + x
    BY DEF a
  <2> QED
    BY <1>1, <1>2, <2>1, <2>2, SMT
<1> HIDE DEF n
<1>5. n = 0
  <2>1. y * n < y /\ -y < y * n
    BY <1>2, <1>3, <1>4, SMT
  <2> QED
    BY <1>3, <2>1, SmallMultiple
<1>6. a % y = x % y
  BY <1>2, <1>4, <1>5, SMT
<1> QED
  BY <1>6 DEF a
=============================================================================
