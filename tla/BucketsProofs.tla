---------------------------- MODULE BucketsProofs ----------------------------
(***************************************************************************)
(* What the index arithmetic of Buckets guarantees to the vector, for      *)
(* every width of usize and every size of the first bucket.                *)
(***************************************************************************)
EXTENDS Buckets, WellFoundedInduction, TLAPS

\* Every non-empty set of natural numbers has a least element.
LEMMA LeastNat ==
  ASSUME NEW T \in SUBSET Nat, T # {}
  PROVE  \E x \in T : \A y \in T : x <= y
<1> DEFINE R == {ss \in Nat \X Nat : ss[1] < ss[2]}
<1>1. R = OpToRel(<, Nat)  BY DEF OpToRel
<1>2. IsWellFoundedOn(R, Nat)  BY <1>1, NatLessThanWellFounded
<1>3. PICK x \in T : \A y \in T : ~(<<y, x>> \in R)  BY <1>2, WFMin, Zenon
<1>4. ASSUME NEW y \in T  PROVE x <= y
  <2>1. ~(<<y, x>> \in R)  BY <1>3
  <2>2. x \in Nat /\ y \in Nat  OBVIOUS
  <2>3. <<y, x>> \in Nat \X Nat /\ <<y, x>>[1] = y /\ <<y, x>>[2] = x  BY <2>2
  <2>4. ~(y < x)  BY <2>1, <2>3
  <2> QED  BY <2>2, <2>4
<1> QED  BY <1>4

-----------------------------------------------------------------------------
(* Powers of two *)

\* A larger exponent at least doubles the power.
LEMMA PowersGrow ==
  ASSUME NEW m \in 0 .. USIZE_BITS, NEW n \in 0 .. USIZE_BITS, m < n
  PROVE  2 * 2^m <= 2^n
<1> DEFINE Bad == {j \in m + 1 .. USIZE_BITS : 2 * 2^m > 2^j}
<1>0. USIZE_BITS \in Nat  BY BucketsAssumption
<1>1. ASSUME Bad # {}  PROVE FALSE
  <2>1. Bad \in SUBSET Nat  BY <1>0
  <2>2. PICK x \in Bad : \A y \in Bad : x <= y  BY <1>1, <2>1, LeastNat
  <2>3. x \in m + 1 .. USIZE_BITS /\ 2 * 2^m > 2^x  OBVIOUS
  <2>4. 2^m \in Nat /\ 2^(m + 1) = 2 * 2^m  BY PowersOfTwo
  <2>5. x # m + 1  BY <2>3, <2>4
  <2> DEFINE w == x - 1
  <2>6. w \in m + 1 .. USIZE_BITS /\ w \in 0 .. USIZE_BITS /\ w + 1 = x
    BY <2>3, <2>5, <1>0
  <2>7. w \notin Bad  BY <2>2, <2>6
  <2>8. ~(2 * 2^m > 2^w)  BY <2>6, <2>7
  <2>9. 2^w \in Nat /\ 2^x = 2 * 2^w  BY <2>6, PowersOfTwo
  <2> HIDE DEF w, Bad
  <2>10. 2^x \in Nat /\ 2^m \in Nat  BY <2>4, <2>9
  <2> QED  BY <2>3, <2>4, <2>8, <2>9, <2>10
<1>2. n \in m + 1 .. USIZE_BITS  BY <1>0
<1>3. ~(2 * 2^m > 2^n)  BY <1>1, <1>2
<1>4. 2^m \in Nat /\ 2^n \in Nat  BY PowersOfTwo
<1> QED  BY <1>3, <1>4

\* Between two consecutive powers lies a number that fits in a usize, and
\* there is only one such place.
LEMMA PowerBelow ==
  ASSUME NEW num \in 1 .. UsizeMax
  PROVE  \E h \in 0 .. USIZE_BITS - 1 : 2^h <= num /\ num < 2^(h + 1)
<1> DEFINE Above == {j \in 0 .. USIZE_BITS : num < 2^j}
<1>0. USIZE_BITS \in Nat /\ USIZE_BITS > 4  BY BucketsAssumption
<1>1. 2^USIZE_BITS \in Nat  BY <1>0, PowersOfTwo
<1>2. USIZE_BITS \in Above  BY <1>0, <1>1 DEF UsizeMax
<1>3. PICK x \in Above : \A y \in Above : x <= y
  <2>1. Above \in SUBSET Nat /\ Above # {}  BY <1>0, <1>2
  <2> QED  BY <2>1, LeastNat
<1>4. x \in 0 .. USIZE_BITS /\ num < 2^x  OBVIOUS
<1>5. x # 0
  <2>1. x = 0 => num < 2^0  BY <1>4
  <2>2. 2^0 = 1  BY SMT
  <2> QED  BY <2>1, <2>2
<1> DEFINE h == x - 1
<1>6. h \in 0 .. USIZE_BITS - 1 /\ h \in 0 .. USIZE_BITS /\ h + 1 = x
  BY <1>0, <1>4, <1>5
<1>7. h \notin Above  BY <1>3, <1>6
<1>8. ~(num < 2^h)  BY <1>6, <1>7
<1>9. 2^h \in Nat  BY <1>6, PowersOfTwo
<1> HIDE DEF h, Above
<1>10. 2^h <= num /\ num < 2^(h + 1)  BY <1>4, <1>6, <1>8, <1>9
<1> QED  BY <1>6, <1>10

LEMMA PowerBelowUnique ==
  ASSUME NEW num \in Nat,
         NEW g \in 0 .. USIZE_BITS - 1, 2^g <= num, num < 2^(g + 1),
         NEW h \in 0 .. USIZE_BITS - 1, 2^h <= num, num < 2^(h + 1)
  PROVE  g = h
<1>0. USIZE_BITS \in Nat /\ g \in 0 .. USIZE_BITS /\ h \in 0 .. USIZE_BITS
  BY BucketsAssumption
<1>1. /\ 2^g \in Nat /\ 2^(g + 1) = 2 * 2^g
      /\ 2^h \in Nat /\ 2^(h + 1) = 2 * 2^h
  BY <1>0, PowersOfTwo
<1>2. ~(g < h)
  <2>1. g < h => 2 * 2^g <= 2^h  BY <1>0, PowersGrow
  <2> QED  BY <1>1, <2>1
<1>3. ~(h < g)
  <2>1. h < g => 2 * 2^h <= 2^g  BY <1>0, PowersGrow
  <2> QED  BY <1>1, <2>1
<1> QED  BY <1>0, <1>2, <1>3

-----------------------------------------------------------------------------
(* highest_bit *)

\* highest_bit returns the position of the highest bit that is set.
LEMMA HighestBit ==
  ASSUME NEW num \in 1 .. UsizeMax
  PROVE  /\ highest_bit(num) \in 0 .. USIZE_BITS - 1
         /\ 2^highest_bit(num) <= num
         /\ num < 2^(highest_bit(num) + 1)
<1>0. USIZE_BITS \in Nat /\ USIZE_BITS > 4  BY BucketsAssumption
<1>1. PICK h \in 0 .. USIZE_BITS - 1 : 2^h <= num /\ num < 2^(h + 1)
  BY PowerBelow
<1> DEFINE z == USIZE_BITS - 1 - h
           IsLeading(y) == /\ num < 2^(USIZE_BITS - y)
                           /\ y < USIZE_BITS => num >= 2^(USIZE_BITS - 1 - y)
<1>2. z \in 0 .. USIZE_BITS /\ USIZE_BITS - z = h + 1 /\ USIZE_BITS - 1 - z = h
  BY <1>0
<1>3. 2^h \in Nat  BY <1>0, PowersOfTwo
<1>4. IsLeading(z)
  <2> HIDE DEF z
  <2> QED  BY <1>1, <1>2, <1>3
<1> DEFINE L == leading_zeros(num)
<1>5. L \in 0 .. USIZE_BITS /\ IsLeading(L)
  <2> HIDE DEF z
  <2> QED  BY <1>2, <1>4 DEF leading_zeros
<1> HIDE DEF L
<1>6. L # USIZE_BITS
  <2>1. L = USIZE_BITS => num < 2^0  BY <1>0, <1>5
  <2>2. 2^0 = 1  BY SMT
  <2> QED  BY <2>1, <2>2
<1> DEFINE H == USIZE_BITS - 1 - L
<1>7. H \in 0 .. USIZE_BITS - 1 /\ H + 1 = USIZE_BITS - L  BY <1>0, <1>5, <1>6
<1>8. 2^H \in Nat  BY <1>0, <1>7, PowersOfTwo
<1>9. num < 2^(H + 1) /\ 2^H <= num
  BY <1>0, <1>5, <1>6, <1>7, <1>8
<1>10. highest_bit(num) = H
  BY <1>0, <1>5 DEF highest_bit, L
<1> QED  BY <1>7, <1>9, <1>10

\* A number at or above 2^h has its highest bit at or above h, a number below
\* 2^(h+1) at or below h.
LEMMA HighestBitBounds ==
  ASSUME NEW num \in 1 .. UsizeMax, NEW h \in 0 .. USIZE_BITS - 1
  PROVE  /\ 2^h <= num => h <= highest_bit(num)
         /\ num < 2^(h + 1) => highest_bit(num) <= h
<1>0. USIZE_BITS \in Nat /\ h \in 0 .. USIZE_BITS  BY BucketsAssumption
<1> DEFINE g == highest_bit(num)
<1>1. /\ g \in 0 .. USIZE_BITS - 1 /\ g \in 0 .. USIZE_BITS
      /\ 2^g <= num /\ num < 2^(g + 1)
  BY <1>0, HighestBit
<1> HIDE DEF g
<1>2. /\ 2^g \in Nat /\ 2^(g + 1) = 2 * 2^g
      /\ 2^h \in Nat /\ 2^(h + 1) = 2 * 2^h
  BY <1>0, <1>1, PowersOfTwo
<1>3. g < h => 2 * 2^g <= 2^h  BY <1>0, <1>1, PowersGrow
<1>4. h < g => 2 * 2^h <= 2^g  BY <1>0, <1>1, PowersGrow
<1>5. 2^h <= num => h <= g  BY <1>0, <1>1, <1>2, <1>3
<1>6. num < 2^(h + 1) => g <= h  BY <1>0, <1>1, <1>2, <1>4
<1> QED  BY <1>5, <1>6 DEF g

-----------------------------------------------------------------------------
(* Buckets *)

K == highest_bit(FIRST_BUCKET_SIZE)

\* FIRST_BUCKET_SIZE is 2^K, and there is room for eight times as much.
LEMMA FirstBucket ==
  /\ K \in 0 .. USIZE_BITS - 5
  /\ FIRST_BUCKET_SIZE = 2^K
  /\ FIRST_BUCKET_SIZE \in 1 .. UsizeMax
  /\ UsizeMax \in Nat /\ UsizeMax + 1 = 2^USIZE_BITS
<1>0. USIZE_BITS \in Nat /\ USIZE_BITS > 4  BY BucketsAssumption
<1>1. PICK k \in 0 .. USIZE_BITS - 5 : FIRST_BUCKET_SIZE = 2^k
  BY BucketsAssumption
<1>2. k \in 0 .. USIZE_BITS /\ k \in 0 .. USIZE_BITS - 1 /\ USIZE_BITS \in 0 .. USIZE_BITS
  BY <1>0
<1>3. /\ 2^k \in Nat \ {0} /\ 2^(k + 1) = 2 * 2^k
      /\ 2^USIZE_BITS \in Nat \ {0}
  BY <1>2, PowersOfTwo
<1>4. 2 * 2^k <= 2^USIZE_BITS  BY <1>0, <1>2, PowersGrow
<1>5. UsizeMax \in Nat /\ UsizeMax + 1 = 2^USIZE_BITS  BY <1>3 DEF UsizeMax
<1>6. FIRST_BUCKET_SIZE \in 1 .. UsizeMax  BY <1>1, <1>3, <1>4, <1>5
<1>7. 2^k <= FIRST_BUCKET_SIZE /\ FIRST_BUCKET_SIZE < 2^(k + 1)  BY <1>1, <1>3
<1>8. /\ K \in 0 .. USIZE_BITS - 1
      /\ 2^K <= FIRST_BUCKET_SIZE /\ FIRST_BUCKET_SIZE < 2^(K + 1)
  BY <1>6, HighestBit DEF K
<1>9. K = k  BY <1>2, <1>6, <1>7, <1>8, PowerBelowUnique
<1> QED  BY <1>1, <1>5, <1>6, <1>9

\* Bucket b has 2^(K+b) elements.
LEMMA BucketLen ==
  ASSUME NEW b \in 0 .. USIZE_BITS - K
  PROVE  bucket_len(b) = 2^(K + b)
<1> DEFINE F == FIRST_BUCKET_SIZE
           Bad == {c \in 0 .. USIZE_BITS - K : F * 2^c # 2^(K + c)}
<1>0. /\ USIZE_BITS \in Nat /\ K \in Nat /\ K <= USIZE_BITS
      /\ F = 2^K /\ F \in Nat
  BY BucketsAssumption, FirstBucket
<1>1. ASSUME Bad # {}  PROVE FALSE
  <2>1. PICK x \in Bad : \A y \in Bad : x <= y
    <3>1. Bad \in SUBSET Nat  BY <1>0
    <3> QED  BY <1>1, <3>1, LeastNat
  <2>2. x \in 0 .. USIZE_BITS - K /\ F * 2^x # 2^(K + x)  OBVIOUS
  <2>3. x # 0
    <3>1. x = 0 => F * 2^x = F * 2^0 /\ 2^(K + x) = 2^K  BY <1>0
    <3>2. 2^0 = 1  BY SMT
    <3>3. F * 2^0 = F  BY <1>0, <3>2
    <3> QED  BY <1>0, <2>2, <3>1, <3>3
  <2> DEFINE w == x - 1
  <2>4. /\ w \in 0 .. USIZE_BITS - K /\ w + 1 = x
        /\ w \in 0 .. USIZE_BITS /\ K + w \in 0 .. USIZE_BITS /\ (K + w) + 1 = K + x
    BY <1>0, <2>2, <2>3
  <2>5. w \notin Bad  BY <2>1, <2>4
  <2>6. F * 2^w = 2^(K + w)  BY <2>4, <2>5
  <2>7. 2^w \in Nat /\ 2^x = 2 * 2^w /\ 2^(K + x) = 2 * 2^(K + w)
    BY <2>4, PowersOfTwo
  <2> HIDE DEF w, Bad, F
  <2>8. F * (2 * 2^w) = 2 * (F * 2^w)  BY <1>0, <2>7
  <2> QED  BY <2>2, <2>6, <2>7, <2>8
<1>2. b \notin Bad  BY <1>1
<1> QED  BY <1>2 DEF bucket_len

\* How far buckets can be allocated: the layout of bucket b stays below
\* isize::MAX.
LEMMA LayoutOk ==
  ASSUME NEW b \in 0 .. USIZE_BITS - K
  PROVE  layout_ok(b) <=> K + b < USIZE_BITS - 4
<1> DEFINE q == USIZE_BITS - 4
           e == K + b
<1>0. /\ USIZE_BITS \in Nat /\ USIZE_BITS > 4 /\ K \in Nat
      /\ q \in 0 .. USIZE_BITS /\ q + 1 \in 0 .. USIZE_BITS
      /\ q + 2 \in 0 .. USIZE_BITS /\ (q + 1) + 1 = q + 2
      /\ (q + 2) + 1 = USIZE_BITS - 1
      /\ e \in 0 .. USIZE_BITS
  BY BucketsAssumption, FirstBucket
<1>1. /\ 2^q \in Nat \ {0} /\ 2^(q + 1) = 2 * 2^q /\ 2^(q + 2) = 2 * 2^(q + 1)
      /\ 2^(USIZE_BITS - 1) = 2 * 2^(q + 2) /\ 2^e \in Nat
  BY <1>0, PowersOfTwo
<1>2. bucket_len(b) = 2^e  BY BucketLen
<1>3. e < q => 2 * 2^e <= 2^q  BY <1>0, PowersGrow
<1>4. q < e => 2 * 2^q <= 2^e  BY <1>0, PowersGrow
<1>5. layout_ok(b) <=> 2^e * 8 <= 8 * 2^q - 1
  BY <1>1, <1>2 DEF layout_ok, IsizeMax
<1> HIDE DEF e, q
<1>6. e < q => 2^e * 8 <= 8 * 2^q - 1  BY <1>0, <1>1, <1>3
<1>7. e = q => ~(2^e * 8 <= 8 * 2^q - 1)  BY <1>0, <1>1
<1>8. q < e => ~(2^e * 8 <= 8 * 2^q - 1)  BY <1>0, <1>1, <1>4
<1>9. layout_ok(b) <=> e < q  BY <1>0, <1>5, <1>6, <1>7, <1>8
<1> QED  BY <1>9 DEF e, q

\* A bucket that can be allocated has a place in buffers, and so have the
\* smaller ones, which can be allocated too; bucket 0 always can.
LEMMA BucketsThatFit ==
  /\ Buffers = 0 .. USIZE_BITS - 2 - K
  /\ 0 \in Buffers /\ layout_ok(0)
  /\ \A b \in 0 .. USIZE_BITS - K : layout_ok(b) =>
       b \in Buffers /\ \A c \in 0 .. b : layout_ok(c)
<1>0. USIZE_BITS \in Nat /\ K \in 0 .. USIZE_BITS - 5
  BY BucketsAssumption, FirstBucket
<1>1. Buffers = 0 .. USIZE_BITS - 2 - K  BY <1>0 DEF Buffers, NBUFFERS, K
<1> QED  BY <1>0, <1>1, LayoutOk

\* An index that does not overflow lies in the bucket whose range it is in.
LEMMA BucketOf ==
  ASSUME NEW i \in 0 .. UsizeMax - FIRST_BUCKET_SIZE
  PROVE  /\ bucket_of(i) \in 0 .. USIZE_BITS - 1 - K
         /\ highest_bit(i + FIRST_BUCKET_SIZE) = K + bucket_of(i)
         /\ 2^(K + bucket_of(i)) <= i + FIRST_BUCKET_SIZE
         /\ i + FIRST_BUCKET_SIZE < 2^(K + bucket_of(i) + 1)
<1> DEFINE pos == i + FIRST_BUCKET_SIZE
           h   == highest_bit(pos)
<1>0. USIZE_BITS \in Nat /\ K \in 0 .. USIZE_BITS - 5 /\ K \in 0 .. USIZE_BITS - 1
  BY BucketsAssumption, FirstBucket
<1>1. pos \in 1 .. UsizeMax /\ 2^K <= pos  BY FirstBucket
<1>2. h \in 0 .. USIZE_BITS - 1 /\ 2^h <= pos /\ pos < 2^(h + 1)
  BY <1>1, HighestBit
<1>3. K <= h  BY <1>0, <1>1, HighestBitBounds
<1> HIDE DEF h
<1>4. bucket_of(i) = h - K  BY DEF bucket_of, K, h
<1>5. K + bucket_of(i) = h /\ K + bucket_of(i) + 1 = h + 1  BY <1>0, <1>2, <1>4
<1> QED  BY <1>0, <1>2, <1>3, <1>4, <1>5 DEF h

\* Later elements lie in the same bucket or in a later one.
LEMMA BucketMonotone ==
  ASSUME NEW i \in 0 .. UsizeMax - FIRST_BUCKET_SIZE,
         NEW j \in 0 .. UsizeMax - FIRST_BUCKET_SIZE, i <= j
  PROVE  bucket_of(i) <= bucket_of(j)
<1> DEFINE h == K + bucket_of(i)
<1>0. USIZE_BITS \in Nat /\ K \in 0 .. USIZE_BITS - 5
  BY BucketsAssumption, FirstBucket
<1>1. /\ h \in 0 .. USIZE_BITS - 1 /\ 2^h <= i + FIRST_BUCKET_SIZE
      /\ bucket_of(i) \in Nat
  BY <1>0, BucketOf
<1>2. h \in 0 .. USIZE_BITS /\ 2^h \in Nat  BY <1>0, <1>1, PowersOfTwo
<1>3. /\ j + FIRST_BUCKET_SIZE \in 1 .. UsizeMax /\ FIRST_BUCKET_SIZE \in Nat
      /\ i \in Nat /\ j \in Nat
  BY FirstBucket
<1> HIDE DEF h
<1>4. 2^h <= j + FIRST_BUCKET_SIZE  BY <1>1, <1>2, <1>3
<1>5. h <= highest_bit(j + FIRST_BUCKET_SIZE)  BY <1>1, <1>3, <1>4, HighestBitBounds
<1>6. highest_bit(j + FIRST_BUCKET_SIZE) = K + bucket_of(j) /\ bucket_of(j) \in Nat
  BY <1>0, BucketOf
<1> QED  BY <1>0, <1>1, <1>5, <1>6 DEF h

\* The bucket of an element is not skipped to: each of the smaller buckets
\* holds an element that precedes it.
LEMMA SmallerBucketsAreUsed ==
  ASSUME NEW i \in 0 .. UsizeMax - FIRST_BUCKET_SIZE,
         NEW c \in 0 .. bucket_of(i) - 1
  PROVE  \E j \in 0 .. i - 1 : bucket_of(j) = c
<1> DEFINE h == K + bucket_of(i)
           e == K + c
           F == FIRST_BUCKET_SIZE
           j == 2^e - F
<1>0. /\ USIZE_BITS \in Nat /\ K \in 0 .. USIZE_BITS - 5
      /\ F = 2^K /\ F \in 1 .. UsizeMax /\ UsizeMax \in Nat
  BY BucketsAssumption, FirstBucket
<1>1. /\ h \in 0 .. USIZE_BITS - 1 /\ 2^h <= i + F /\ bucket_of(i) \in Nat
  BY <1>0, BucketOf
<1>2. /\ e \in 0 .. USIZE_BITS - 1 /\ e \in 0 .. USIZE_BITS /\ e < h
      /\ K \in 0 .. USIZE_BITS /\ h \in 0 .. USIZE_BITS /\ K <= e
  BY <1>0, <1>1
<1>3. 2^e \in Nat \ {0} /\ 2^h \in Nat /\ 2^(e + 1) = 2 * 2^e /\ 2^K \in Nat
  BY <1>2, PowersOfTwo
<1>4. 2 * 2^e <= 2^h  BY <1>2, PowersGrow
<1>5. K < e => 2 * 2^K <= 2^e  BY <1>2, PowersGrow
<1>6. F <= 2^e
  <2>1. CASE K = e  BY <1>0, <1>3, <2>1
  <2>2. CASE K < e  BY <1>0, <1>3, <1>5, <2>2
  <2> QED  BY <1>0, <1>2, <2>1, <2>2
<1> HIDE DEF e, h
<1>7. 2^e < i + F  BY <1>0, <1>1, <1>3, <1>4
<1>8. j \in 0 .. i - 1 /\ j + F = 2^e  BY <1>0, <1>3, <1>6, <1>7
<1>9. j \in 0 .. UsizeMax - F  BY <1>0, <1>8
<1> HIDE DEF j, F
<1>10. 2^e \in 1 .. UsizeMax
  BY <1>0, <1>3, <1>8, <1>9
<1>11. highest_bit(2^e) = e
  <2>1. /\ highest_bit(2^e) \in 0 .. USIZE_BITS - 1
        /\ 2^highest_bit(2^e) <= 2^e /\ 2^e < 2^(highest_bit(2^e) + 1)
    BY <1>10, HighestBit
  <2>2. 2^e <= 2^e /\ 2^e < 2^(e + 1)  BY <1>3
  <2> QED  BY <1>2, <1>3, <2>1, <2>2, PowerBelowUnique
<1>12. K + bucket_of(j) = e /\ bucket_of(j) \in Nat
  BY <1>0, <1>8, <1>9, <1>11, BucketOf DEF F
<1>13. bucket_of(j) = c  BY <1>0, <1>12 DEF e
<1> QED  BY <1>8, <1>13

\* The index after the last element of a vector that fits does not overflow,
\* and its bucket has a place in buffers, although it may not be allocatable.
LEMMA NextIndex ==
  ASSUME NEW s \in Nat, s = 0 \/ s - 1 \in Slots
  PROVE  s \in 0 .. UsizeMax - FIRST_BUCKET_SIZE /\ bucket_of(s) \in Buffers
<1> DEFINE F == FIRST_BUCKET_SIZE
<1>0. /\ USIZE_BITS \in Nat /\ K \in 0 .. USIZE_BITS - 5
      /\ F \in 1 .. UsizeMax /\ UsizeMax \in Nat /\ UsizeMax + 1 = 2^USIZE_BITS
  BY BucketsAssumption, FirstBucket
<1>1. CASE s = 0
  <2>1. s \in 0 .. UsizeMax - F  BY <1>0, <1>1
  <2>2. bucket_of(0) = 0
    <3>1. 0 + FIRST_BUCKET_SIZE = FIRST_BUCKET_SIZE  BY <1>0
    <3> QED  BY <1>0, <3>1 DEF bucket_of, K
  <2> QED  BY <1>1, <2>1, <2>2, BucketsThatFit
<1>2. CASE s # 0 /\ s - 1 \in Slots
  <2> DEFINE r == s - 1
             e == K + bucket_of(r) + 1
  <2>1. r \in 0 .. UsizeMax - F /\ layout_ok(bucket_of(r)) /\ s = r + 1
    BY <1>2 DEF Slots
  <2> HIDE DEF r
  <2>2. bucket_of(r) \in 0 .. USIZE_BITS - 1 - K /\ r + F < 2^e
    BY <2>1, BucketOf
  <2>3. K + bucket_of(r) < USIZE_BITS - 4  BY <1>0, <2>1, <2>2, LayoutOk
  <2>4. /\ e \in 0 .. USIZE_BITS - 4 /\ e \in 0 .. USIZE_BITS
        /\ e \in 0 .. USIZE_BITS - 1 /\ USIZE_BITS \in 0 .. USIZE_BITS
    BY <1>0, <2>2, <2>3
  <2>5. 2^e \in Nat /\ 2^(e + 1) = 2 * 2^e /\ 2^e # 0  BY <2>4, PowersOfTwo
  <2>6. 2 * 2^e <= 2^USIZE_BITS  BY <1>0, <2>4, PowersGrow
  <2> HIDE DEF e
  <2>7. s + F <= 2^e /\ s + F < 2^(e + 1)  BY <1>0, <2>1, <2>2, <2>5
  <2>8. s + F <= UsizeMax  BY <1>0, <2>1, <2>5, <2>6, <2>7
  <2>9. s \in 0 .. UsizeMax - F  BY <1>0, <2>8
  <2>10. highest_bit(s + F) <= e  BY <1>0, <2>4, <2>7, <2>8, HighestBitBounds
  <2>11. /\ bucket_of(s) \in 0 .. USIZE_BITS - 1 - K
         /\ highest_bit(s + F) = K + bucket_of(s)
    BY <2>9, BucketOf
  <2>12. bucket_of(s) \in 0 .. USIZE_BITS - 2 - K  BY <1>0, <2>4, <2>10, <2>11
  <2> QED  BY <2>9, <2>12, BucketsThatFit
<1> QED  BY <1>1, <1>2

\* 0 has no bit set; highest_bit returns 0 for it.
LEMMA HighestBitOfZero == highest_bit(0) = 0
<1> SUFFICES ASSUME NEW num, num = 0  PROVE highest_bit(num) = 0
  OBVIOUS
<1> DEFINE IsLeading(y) == /\ num < 2^(USIZE_BITS - y)
                           /\ y < USIZE_BITS => num >= 2^(USIZE_BITS - 1 - y)
           L == leading_zeros(num)
<1>0. USIZE_BITS \in Nat /\ USIZE_BITS > 4  BY BucketsAssumption
<1>1. ASSUME NEW y \in 0 .. USIZE_BITS, IsLeading(y)  PROVE y = USIZE_BITS
  <2>1. y < USIZE_BITS => USIZE_BITS - 1 - y \in 0 .. USIZE_BITS  BY <1>0
  <2>2. y < USIZE_BITS => 2^(USIZE_BITS - 1 - y) \in Nat \ {0}  BY <2>1, PowersOfTwo
  <2> QED  BY <1>0, <1>1, <2>2
<1>2. \E y \in 0 .. USIZE_BITS : IsLeading(y)
  <2>1. USIZE_BITS - USIZE_BITS = 0  BY <1>0
  <2>2. 2^(USIZE_BITS - USIZE_BITS) = 2^0  BY <2>1
  <2>3. 2^0 = 1  BY SMT
  <2>4. IsLeading(USIZE_BITS)  BY <1>0, <2>2, <2>3
  <2>5. USIZE_BITS \in 0 .. USIZE_BITS  BY <1>0
  <2> HIDE DEF IsLeading
  <2> QED  BY <2>4, <2>5
<1>3. L \in 0 .. USIZE_BITS /\ IsLeading(L)
  BY <1>2 DEF leading_zeros
<1>4. L = USIZE_BITS  BY <1>1, <1>3
<1> HIDE DEF L
<1> QED  BY <1>0, <1>4 DEF highest_bit, L

\* The last bucket that reserve asks for is that of the last element; when the
\* element does not fit in a usize, it is a bucket that cannot be allocated.
LEMMA LastBucket ==
  ASSUME NEW n \in 0 .. UsizeMax
  PROVE  /\ last_bucket(n) \in 0 .. USIZE_BITS - 1 - K
         /\ n = 0 => last_bucket(n) = 0
         /\ n # 0 /\ n - 1 <= UsizeMax - FIRST_BUCKET_SIZE
              => last_bucket(n) = bucket_of(n - 1)
         /\ n - 1 > UsizeMax - FIRST_BUCKET_SIZE => ~layout_ok(last_bucket(n))
<1> DEFINE F   == FIRST_BUCKET_SIZE
           top == saturating_add(n, F) - 1
           h   == highest_bit(top)
<1>0. /\ USIZE_BITS \in Nat /\ USIZE_BITS > 4 /\ K \in 0 .. USIZE_BITS - 5
      /\ F = 2^K /\ F \in 1 .. UsizeMax
      /\ UsizeMax \in Nat /\ UsizeMax + 1 = 2^USIZE_BITS
  BY BucketsAssumption, FirstBucket
<1>1. last_bucket(n) = IF h < K THEN 0 ELSE h - K
  BY DEF last_bucket, saturating_sub, K
<1>2. /\ n + F <= UsizeMax => top = n + F - 1
      /\ n + F > UsizeMax => top = UsizeMax - 1
  BY <1>0 DEF saturating_add
<1> HIDE DEF top
<1>3. CASE n = 0
  <2>1. top = F - 1  BY <1>0, <1>2, <1>3
  <2>2. h \in Nat /\ h <= K
    <3>1. CASE F = 1  BY <1>0, <2>1, <3>1, HighestBitOfZero
    <3>2. CASE F # 1
      <4>1. top \in 1 .. UsizeMax  BY <1>0, <2>1, <3>2
      <4>2. K \in 0 .. USIZE_BITS - 1 /\ K \in 0 .. USIZE_BITS  BY <1>0
      <4>3. 2^(K + 1) = 2 * 2^K /\ 2^K \in Nat  BY <4>2, PowersOfTwo
      <4>4. top < 2^(K + 1)  BY <1>0, <2>1, <4>3
      <4> QED  BY <4>1, <4>2, <4>4, HighestBit, HighestBitBounds
    <3> QED  BY <3>1, <3>2
  <2> HIDE DEF h
  <2>3. last_bucket(n) = 0  BY <1>0, <1>1, <2>2
  <2> QED  BY <1>0, <1>3, <2>3
<1>4. CASE n # 0 /\ n + F <= UsizeMax
  <2> DEFINE i == n - 1
  <2>1. i \in 0 .. UsizeMax - F /\ top = i + F  BY <1>0, <1>2, <1>4
  <2>2. h = K + bucket_of(i) /\ bucket_of(i) \in 0 .. USIZE_BITS - 1 - K
    BY <2>1, BucketOf
  <2> HIDE DEF h, i
  <2>3. last_bucket(n) = bucket_of(i)  BY <1>0, <1>1, <2>2
  <2>4. ~(n - 1 > UsizeMax - F)  BY <1>0, <1>4
  <2> QED  BY <1>4, <2>2, <2>3, <2>4 DEF i
<1>5. CASE n + F > UsizeMax
  <2> DEFINE e == USIZE_BITS - 1
  <2>1. /\ e \in 0 .. USIZE_BITS /\ e + 1 = USIZE_BITS /\ e \in 0 .. USIZE_BITS - 1
        /\ e - 1 \in 0 .. USIZE_BITS /\ (e - 1) + 1 = e
    BY <1>0
  <2>2. /\ 2^USIZE_BITS = 2 * 2^e /\ 2^e = 2 * 2^(e - 1)
        /\ 2^e \in Nat /\ 2^(e - 1) \in Nat \ {0}
    BY <2>1, PowersOfTwo
  <2> HIDE DEF e
  <2>3. top = UsizeMax - 1 /\ top \in 1 .. UsizeMax /\ 2^e <= top /\ top < 2^(e + 1)
    BY <1>0, <1>2, <1>5, <2>1, <2>2
  <2>4. h \in 0 .. USIZE_BITS - 1 /\ 2^h <= top /\ top < 2^(h + 1)
    BY <2>3, HighestBit
  <2>5. h = e  BY <2>1, <2>3, <2>4, PowerBelowUnique
  <2> HIDE DEF h
  <2>6. last_bucket(n) = USIZE_BITS - 1 - K  BY <1>0, <1>1, <2>5 DEF e
  <2>7. ~layout_ok(USIZE_BITS - 1 - K)  BY <1>0, LayoutOk
  <2>8. n # 0  BY <1>0, <1>5
  <2>9. ASSUME n - 1 <= UsizeMax - F  PROVE bucket_of(n - 1) = USIZE_BITS - 1 - K
    <3>1. n - 1 \in 0 .. UsizeMax - F /\ (n - 1) + F = UsizeMax
      BY <1>0, <1>5, <2>8, <2>9
    <3>2. /\ 2^e <= UsizeMax /\ UsizeMax < 2^(e + 1) /\ UsizeMax \in 1 .. UsizeMax
      BY <1>0, <2>1, <2>2
    <3>3. highest_bit(UsizeMax) = e
      BY <2>1, <3>2, HighestBit, PowerBelowUnique
    <3>4. highest_bit(UsizeMax) = K + bucket_of(n - 1) /\ bucket_of(n - 1) \in Nat
      BY <1>0, <3>1, BucketOf
    <3> QED  BY <1>0, <3>3, <3>4 DEF e
  <2> QED  BY <1>0, <2>6, <2>7, <2>8, <2>9
<1> QED  BY <1>0, <1>3, <1>4, <1>5
=============================================================================
