----------------------------- MODULE IndexProofs -----------------------------
(***************************************************************************)
(* The properties of the index arithmetic that MCBuckets checks for every  *)
(* usize of ten bits, for every width and every size of the first bucket.  *)
(***************************************************************************)
EXTENDS MCBuckets, BucketsProofs, FiniteSetTheorems, FunctionTheorems

\* The argument is always a usize.
LEMMA IsUsize == Spec => [](i \in 0 .. UsizeMax)
<1>1. UsizeMax \in Nat  BY FirstBucket
<1>2. Init => i \in 0 .. UsizeMax  BY <1>1 DEF Init
<1>3. i \in 0 .. UsizeMax /\ [NextArg]_i => (i \in 0 .. UsizeMax)'
  BY <1>1 DEF NextArg
<1> QED  BY <1>2, <1>3, PTL DEF Spec

\* Between p and 2p, p goes once.
LEMMA GoesOnce ==
  ASSUME NEW p \in Nat \ {0}, NEW n \in Nat, p <= n, n < 2 * p
  PROVE  n \div p = 1
<1> DEFINE q == n \div p
<1>1. q \in Nat /\ q * p <= n /\ n < (q + 1) * p  BY SMT
<1> HIDE DEF q
<1>2. CASE q = 0  BY <1>1, <1>2
<1>3. CASE q >= 2
  <2>1. q * p >= 2 * p  BY <1>1, <1>3, SMT
  <2> QED  BY <1>1, <2>1
<1> QED  BY <1>1, <1>2, <1>3 DEF q

\* Below p, p does not go at all.
LEMMA GoesNever ==
  ASSUME NEW p \in Nat \ {0}, NEW n \in Nat, n < p
  PROVE  n \div p = 0
<1> DEFINE q == n \div p
<1>1. q \in Nat /\ q * p <= n  BY SMT
<1> HIDE DEF q
<1>2. CASE q >= 1
  <2>1. q * p >= p  BY <1>1, <1>2, SMT
  <2> QED  BY <1>1, <2>1
<1> QED  BY <1>1, <1>2 DEF q

-----------------------------------------------------------------------------

\* highest_bit returns the highest bit that is set (lib.rs:59), and 0 for 0.
THEOREM HighestBitReturned == Spec => []HighestBitIsSet
<1>1. ASSUME i \in 0 .. UsizeMax  PROVE HighestBitIsSet
  <2> DEFINE h == highest_bit(i)
  <2>0. USIZE_BITS \in Nat /\ UsizeMax \in Nat  BY BucketsAssumption, FirstBucket
  <2>1. CASE i = 0  BY <2>1, HighestBitOfZero DEF HighestBitIsSet
  <2>2. CASE i # 0
    <3>1. h \in 0 .. USIZE_BITS - 1 /\ 2^h <= i /\ i < 2^(h + 1)
      BY <1>1, <2>0, <2>2, HighestBit
    <3> HIDE DEF h
    <3>2. h \in 0 .. USIZE_BITS  BY <2>0, <3>1
    <3>3. 2^h \in Nat \ {0} /\ 2^(h + 1) = 2 * 2^h  BY <3>2, PowersOfTwo
    <3>4. i \in Nat /\ 2^(h + 1) \in Nat \ {0} /\ i < 2 * 2^h  BY <1>1, <2>0, <3>1, <3>3
    <3>5. i \div 2^h = 1  BY <3>1, <3>3, <3>4, GoesOnce
    <3>6. i \div 2^(h + 1) = 0  BY <3>1, <3>4, GoesNever
    <3>7. (i \div 2^h) % 2 = 1  BY <3>5
    <3> QED  BY <2>2, <3>6, <3>7 DEF HighestBitIsSet, h
  <2> QED  BY <2>1, <2>2
<1> QED  BY <1>1, IsUsize, PTL

\* The place of an element, and the element at a place.
LEMMA ElementAndPlace ==
  ASSUME NEW e \in 0 .. UsizeMax - FIRST_BUCKET_SIZE
  PROVE  /\ bucket_of(e) \in 0 .. USIZE_BITS - 1 - K /\ bucket_len(bucket_of(e)) \in Nat
         /\ offset_of(e) \in 0 .. bucket_len(bucket_of(e)) - 1
         /\ e + FIRST_BUCKET_SIZE = bucket_len(bucket_of(e)) + offset_of(e)
<1> DEFINE F == FIRST_BUCKET_SIZE
           b == bucket_of(e)
           L == bucket_len(b)
           o == offset_of(e)
<1>0. /\ USIZE_BITS \in Nat /\ USIZE_BITS > 4 /\ K \in 0 .. USIZE_BITS - 5
      /\ F \in 1 .. UsizeMax /\ UsizeMax \in Nat
  BY BucketsAssumption, FirstBucket
<1>1. /\ b \in 0 .. USIZE_BITS - 1 - K /\ highest_bit(e + F) = K + b
      /\ 2^(K + b) <= e + F /\ e + F < 2^(K + b + 1)
  BY BucketOf
<1> HIDE DEF b
<1>2. b \in 0 .. USIZE_BITS - K /\ K + b \in 0 .. USIZE_BITS /\ (K + b) + 1 = K + b + 1
  BY <1>0, <1>1
<1>3. L = 2^(K + b) /\ L \in Nat /\ 2^(K + b + 1) = 2 * L
  BY <1>2, BucketLen, PowersOfTwo
<1>4. o = (e + F) - L  BY <1>1, <1>3 DEF offset_of
<1> HIDE DEF L, o, F
<1>5. o \in 0 .. L - 1 /\ e + F = L + o  BY <1>0, <1>1, <1>3, <1>4
<1> QED  BY <1>1, <1>3, <1>5 DEF b, L, o, F

LEMMA ElementAtPlace ==
  ASSUME NEW c \in 0 .. USIZE_BITS - 1 - K, NEW p \in 0 .. bucket_len(c) - 1,
         NEW e \in 0 .. UsizeMax - FIRST_BUCKET_SIZE,
         e + FIRST_BUCKET_SIZE = bucket_len(c) + p
  PROVE  bucket_of(e) = c /\ offset_of(e) = p
<1> DEFINE L == bucket_len(c)
           h == K + bucket_of(e)
<1>0. /\ USIZE_BITS \in Nat /\ USIZE_BITS > 4 /\ K \in 0 .. USIZE_BITS - 5
      /\ FIRST_BUCKET_SIZE \in 1 .. UsizeMax /\ UsizeMax \in Nat
  BY BucketsAssumption, FirstBucket
<1>1. c \in 0 .. USIZE_BITS - K /\ K + c \in 0 .. USIZE_BITS /\ K + c \in 0 .. USIZE_BITS - 1
  BY <1>0
<1>2. L = 2^(K + c) /\ L \in Nat /\ 2^((K + c) + 1) = 2 * L
  BY <1>1, BucketLen, PowersOfTwo
<1>3. /\ bucket_of(e) \in 0 .. USIZE_BITS - 1 - K
      /\ 2^h <= e + FIRST_BUCKET_SIZE /\ e + FIRST_BUCKET_SIZE < 2^(h + 1)
  BY BucketOf
<1>4. e + FIRST_BUCKET_SIZE \in Nat /\ h \in 0 .. USIZE_BITS - 1  BY <1>0, <1>3
<1>5. 2^(K + c) <= e + FIRST_BUCKET_SIZE /\ e + FIRST_BUCKET_SIZE < 2^((K + c) + 1)
  BY <1>2
<1>6. K + c = h  BY <1>1, <1>3, <1>4, <1>5, PowerBelowUnique
<1>7. bucket_of(e) = c  BY <1>0, <1>3, <1>6
<1> QED  BY <1>0, <1>2, <1>7, ElementAndPlace

\* get finds a place for every element whose bucket can be allocated.
LEMMA PlaceOf ==
  ASSUME NEW e \in Slots
  PROVE  /\ bucket_of(e) \in Buffers /\ bucket_len(bucket_of(e)) \in Nat
         /\ bucket_len(bucket_of(e)) * 8 <= IsizeMax /\ IsizeMax \in Nat
         /\ offset_of(e) \in Nat /\ offset_of(e) < bucket_len(bucket_of(e))
         /\ e + FIRST_BUCKET_SIZE = bucket_len(bucket_of(e)) + offset_of(e)
         /\ get(e) = [panic |-> FALSE, bucket |-> bucket_of(e), offset |-> offset_of(e)]
<1> DEFINE F == FIRST_BUCKET_SIZE
           b == bucket_of(e)
           L == bucket_len(b)
           o == offset_of(e)
<1>0. /\ USIZE_BITS \in Nat /\ USIZE_BITS > 4 /\ K \in 0 .. USIZE_BITS - 5
      /\ F \in 1 .. UsizeMax /\ UsizeMax \in Nat /\ T_BYTES \in 1 .. 8
  BY BucketsAssumption, FirstBucket
<1>1. e \in 0 .. UsizeMax - F /\ layout_ok(b)  BY DEF Slots
<1>2. /\ b \in 0 .. USIZE_BITS - 1 - K /\ highest_bit(e + F) = K + b
      /\ 2^(K + b) <= e + F /\ e + F < 2^(K + b + 1)
  BY <1>1, BucketOf
<1> HIDE DEF b
<1>3. b \in 0 .. USIZE_BITS - K /\ K + b \in 0 .. USIZE_BITS /\ (K + b) + 1 = K + b + 1
  BY <1>0, <1>2
<1>4. L = 2^(K + b) /\ L \in Nat /\ 2^(K + b + 1) = 2 * L
  BY <1>3, BucketLen, PowersOfTwo
<1>5. o = (e + F) - L  BY <1>2, <1>4 DEF offset_of
<1> HIDE DEF L, o, F
<1>6. o \in Nat /\ o < L /\ e + F = L + o  BY <1>0, <1>1, <1>2, <1>4, <1>5
<1>7. IsizeMax \in Nat /\ IsizeMax <= UsizeMax
  <2>1. USIZE_BITS - 1 \in 0 .. USIZE_BITS /\ (USIZE_BITS - 1) + 1 = USIZE_BITS  BY <1>0
  <2>2. 2^(USIZE_BITS - 1) \in Nat \ {0} /\ 2^USIZE_BITS = 2 * 2^(USIZE_BITS - 1)
    BY <2>1, PowersOfTwo
  <2> QED  BY <2>2 DEF IsizeMax, UsizeMax
<1>8. L * 8 <= IsizeMax  BY <1>1 DEF layout_ok, L
<1>9. o * T_BYTES <= UsizeMax
  <2>1. o * T_BYTES <= o * 8  BY <1>0, <1>6
  <2>2. o * T_BYTES \in Nat /\ o * 8 \in Nat  BY <1>0, <1>6
  <2> QED  BY <1>0, <1>4, <1>6, <1>7, <1>8, <2>1, <2>2
<1>10. e + F <= UsizeMax  BY <1>0, <1>1
<1>11. b \in Buffers  BY <1>1, <1>3, BucketsThatFit
<1>12. get(e) = [panic |-> FALSE, bucket |-> b, offset |-> o]
  BY <1>9, <1>10, <1>11 DEF get, get_checked, b, o, F
<1> QED  BY <1>4, <1>6, <1>7, <1>8, <1>11, <1>12 DEF b, L, o, F

\* Two elements never share a cell: with different indices get leads to
\* different places, each inside its bucket. So a cell can be named by its index.
THEOREM PlacesDiffer ==
  ASSUME NEW e \in Slots, NEW f \in Slots, get(e) = get(f)
  PROVE  e = f
<1>1. get(e).bucket = bucket_of(e) /\ get(e).offset = offset_of(e)  BY PlaceOf
<1>2. get(f).bucket = bucket_of(f) /\ get(f).offset = offset_of(f)  BY PlaceOf
<1>3. e + FIRST_BUCKET_SIZE = f + FIRST_BUCKET_SIZE
  BY <1>1, <1>2, PlaceOf
<1>4. e \in Nat /\ f \in Nat /\ FIRST_BUCKET_SIZE \in Nat
  BY FirstBucket DEF Slots
<1> QED  BY <1>3, <1>4

LEMMA BucketsGrow ==
  ASSUME NEW c \in 0 .. USIZE_BITS - 1 - K, NEW b \in 0 .. USIZE_BITS - 1 - K, c < b
  PROVE  /\ 2 * bucket_len(c) <= bucket_len(b)
         /\ bucket_len(c) \in Nat /\ bucket_len(b) \in Nat
<1>0. /\ USIZE_BITS \in Nat /\ K \in 0 .. USIZE_BITS - 5  BY BucketsAssumption, FirstBucket
<1>1. /\ c \in 0 .. USIZE_BITS - K /\ b \in 0 .. USIZE_BITS - K
      /\ K + c \in 0 .. USIZE_BITS /\ K + b \in 0 .. USIZE_BITS /\ K + c < K + b
  BY <1>0
<1>2. 2 * 2^(K + c) <= 2^(K + b) /\ 2^(K + c) \in Nat /\ 2^(K + b) \in Nat
  BY <1>1, PowersGrow, PowersOfTwo
<1> QED  BY <1>1, <1>2, BucketLen

\* A place before offset o of bucket b is a pair, in a smaller bucket or in b.
LEMMA InPlacesBefore ==
  ASSUME NEW b, NEW o
  PROVE  /\ \A c, p : <<c, p>> \in PlacesBefore(b, o) <=>
                       (\/ c \in 0 .. b - 1 /\ p \in 0 .. bucket_len(c) - 1
                        \/ c = b /\ p \in 0 .. o - 1)
         /\ \A x \in PlacesBefore(b, o) : \E c, p : x = <<c, p>>
<1> DEFINE cells(c) == {c} \X (0 .. bucket_len(c) - 1)
           last == {b} \X (0 .. o - 1)
<1>1. \A x : x \in PlacesBefore(b, o) <=> (\/ \E c \in 0 .. b - 1 : x \in cells(c)
                                          \/ x \in last)
  <2> DEFINE C == {cells(c) : c \in 0 .. b - 1}
  <2>1. PlacesBefore(b, o) = (UNION C) \cup last  BY Zenon DEF PlacesBefore
  <2>2. \A s : s \in C <=> \E c \in 0 .. b - 1 : s = cells(c)  BY Zenon
  <2> HIDE DEF C, cells, last
  <2>3. \A x : x \in UNION C <=> \E s \in C : x \in s  OBVIOUS
  <2>4. \A x : x \in UNION C <=> \E c \in 0 .. b - 1 : x \in cells(c)
    BY Zenon, <2>2, <2>3
  <2>5. \A x : x \in PlacesBefore(b, o) <=> x \in UNION C \/ x \in last
    BY <2>1
  <2> QED  BY Zenon, <2>4, <2>5
<1>2. \A S, U : \A x \in S \X U : \E c, p : x = <<c, p>>  OBVIOUS
<1>3. \A c, p, d : <<c, p>> \in cells(d) <=> c = d /\ p \in 0 .. bucket_len(d) - 1
  OBVIOUS
<1>4. \A c, p : <<c, p>> \in last <=> c = b /\ p \in 0 .. o - 1  OBVIOUS
<1>5. \A d : \A x \in cells(d) : \E c, p : x = <<c, p>>  BY <1>2
<1>6. \A x \in last : \E c, p : x = <<c, p>>  BY <1>2
<1> HIDE DEF cells, last
<1> QED  BY <1>1, <1>3, <1>4, <1>5, <1>6

\* The elements before e fill the places before that of e, one each.
LEMMA ElementsFillPlaces ==
  ASSUME NEW e \in 0 .. UsizeMax - FIRST_BUCKET_SIZE
  PROVE  Cardinality(PlacesBefore(bucket_of(e), offset_of(e))) = e
<1> DEFINE F == FIRST_BUCKET_SIZE
           b == bucket_of(e)
           o == offset_of(e)
           P == PlacesBefore(b, o)
           place == [j \in 0 .. e - 1 |-> <<bucket_of(j), offset_of(j)>>]
<1>0. /\ USIZE_BITS \in Nat /\ K \in 0 .. USIZE_BITS - 5
      /\ F \in Nat /\ UsizeMax \in Nat /\ e \in Nat /\ e <= UsizeMax - F
  BY BucketsAssumption, FirstBucket
<1>1. /\ b \in 0 .. USIZE_BITS - 1 - K /\ bucket_len(b) \in Nat
      /\ o \in 0 .. bucket_len(b) - 1 /\ e + F = bucket_len(b) + o
  BY ElementAndPlace
<1>2. ASSUME NEW j \in 0 .. e - 1
      PROVE  /\ j \in 0 .. UsizeMax - F /\ bucket_of(j) \in 0 .. USIZE_BITS - 1 - K
             /\ bucket_len(bucket_of(j)) \in Nat
             /\ offset_of(j) \in 0 .. bucket_len(bucket_of(j)) - 1
             /\ j + F = bucket_len(bucket_of(j)) + offset_of(j)
  <2>1. j \in 0 .. UsizeMax - F  BY <1>0
  <2> QED  BY <2>1, ElementAndPlace
<1>3. \A c, p : <<c, p>> \in P <=> (\/ c \in 0 .. b - 1 /\ p \in 0 .. bucket_len(c) - 1
                                    \/ c = b /\ p \in 0 .. o - 1)
  BY InPlacesBefore
<1>4. ASSUME NEW x \in P  PROVE \E c, p : x = <<c, p>>
  BY <1>4, InPlacesBefore
<1> HIDE DEF b, o, P, F
<1>5. ASSUME NEW j \in 0 .. e - 1  PROVE <<bucket_of(j), offset_of(j)>> \in P
  <2> DEFINE c == bucket_of(j)
             p == offset_of(j)
  <2>1. /\ c \in 0 .. USIZE_BITS - 1 - K /\ bucket_len(c) \in Nat
        /\ p \in 0 .. bucket_len(c) - 1 /\ j + F = bucket_len(c) + p
    BY <1>2
  <2> HIDE DEF c, p
  <2>2. CASE c < b
    <3>1. c \in 0 .. b - 1  BY <1>0, <1>1, <2>1, <2>2
    <3> QED  BY <1>3, <2>1, <3>1 DEF c, p
  <2>3. CASE c = b
    <3>1. p \in 0 .. o - 1  BY <1>0, <1>1, <2>1, <2>3
    <3> QED  BY <1>3, <2>3, <3>1 DEF c, p
  <2>4. CASE b < c
    <3>1. 2 * bucket_len(b) <= bucket_len(c)  BY <1>1, <2>1, <2>4, BucketsGrow
    <3> QED  BY <1>0, <1>1, <2>1, <3>1
  <2> QED  BY <1>0, <1>1, <2>1, <2>2, <2>3, <2>4
<1>6. ASSUME NEW c, NEW p, <<c, p>> \in P
      PROVE  \E j \in 0 .. e - 1 : bucket_of(j) = c /\ offset_of(j) = p
  <2>1. /\ c \in 0 .. USIZE_BITS - 1 - K /\ bucket_len(c) \in Nat
        /\ p \in 0 .. bucket_len(c) - 1 /\ bucket_len(c) + p < bucket_len(b) + o
        /\ F <= bucket_len(c)
    <3>1. c \in 0 .. USIZE_BITS - 1 - K  BY <1>0, <1>1, <1>3, <1>6
    <3>2. F <= bucket_len(c) /\ bucket_len(c) \in Nat
      <4>1. c \in 0 .. USIZE_BITS - K /\ K \in 0 .. USIZE_BITS /\ K + c \in 0 .. USIZE_BITS
            /\ (c = 0 \/ K < K + c)
        BY <1>0, <3>1
      <4>2. F = 2^K  BY FirstBucket DEF F
      <4>3. bucket_len(c) = 2^(K + c)  BY <4>1, BucketLen
      <4>4. 2^K \in Nat /\ 2^(K + c) \in Nat  BY <4>1, PowersOfTwo
      <4>5. K < K + c => 2 * 2^K <= 2^(K + c)  BY <4>1, PowersGrow
      <4>6. c = 0 => K + c = K  BY <1>0
      <4> QED  BY <4>1, <4>2, <4>3, <4>4, <4>5, <4>6
    <3>3. CASE c \in 0 .. b - 1 /\ p \in 0 .. bucket_len(c) - 1
      <4>1. c < b  BY <1>0, <1>1, <3>3
      <4>2. 2 * bucket_len(c) <= bucket_len(b)  BY <1>1, <3>1, <4>1, BucketsGrow
      <4> QED  BY <1>1, <3>1, <3>2, <3>3, <4>2
    <3>4. CASE c = b /\ p \in 0 .. o - 1  BY <1>1, <3>1, <3>2, <3>4
    <3> QED  BY <1>3, <1>6, <3>3, <3>4
  <2> DEFINE j == bucket_len(c) + p - F
  <2>2. j \in 0 .. e - 1 /\ j \in 0 .. UsizeMax - F /\ j + F = bucket_len(c) + p
    BY <1>0, <1>1, <2>1
  <2> HIDE DEF j
  <2>3. bucket_of(j) = c /\ offset_of(j) = p
    BY <2>1, <2>2, ElementAtPlace DEF F
  <2> QED  BY <2>2, <2>3
<1>7. place \in Bijection(0 .. e - 1, P)
  <2>1. place \in [0 .. e - 1 -> P]  BY <1>5
  <2>2. ASSUME NEW j \in 0 .. e - 1, NEW k \in 0 .. e - 1, place[j] = place[k]
        PROVE  j = k
    <3>1. bucket_of(j) = bucket_of(k) /\ offset_of(j) = offset_of(k)  BY <2>2
    <3>2. j + F = k + F  BY <1>2, <3>1
    <3> QED  BY <1>0, <3>2
  <2>3. ASSUME NEW x \in P  PROVE \E j \in 0 .. e - 1 : place[j] = x
    <3>1. PICK c, p : x = <<c, p>>  BY <1>4
    <3>2. PICK j \in 0 .. e - 1 : bucket_of(j) = c /\ offset_of(j) = p  BY <1>6, <3>1
    <3> QED  BY <3>1, <3>2
  <2> HIDE DEF place
  <2> QED  BY <2>1, <2>2, <2>3, Fun_IsBij
<1>8. IsFiniteSet(0 .. e - 1) /\ Cardinality(0 .. e - 1) = e
  <2>1. 0 \in Int /\ e - 1 \in Int  BY <1>0
  <2>2. IsFiniteSet(0 .. e - 1) /\ Cardinality(0 .. e - 1) = IF 0 > e - 1 THEN 0 ELSE (e - 1) - 0 + 1
    BY <2>1, FS_Interval
  <2> QED  BY <1>0, <2>2
<1>9. ExistsBijection(0 .. e - 1, P)  BY <1>7 DEF ExistsBijection
<1>10. Cardinality(P) = e  BY <1>8, <1>9, FS_Bijection
<1> QED  BY <1>10 DEF P, b, o

\* get lays the elements out back to back, for every usize of every width
\* (leaky.rs:163-183): no two of them share a cell and no cell is skipped.
THEOREM ElementsContiguous == Spec => []ElementsAreContiguous
<1>1. ASSUME i \in 0 .. UsizeMax  PROVE ElementsAreContiguous
  <2> SUFFICES ASSUME ~get(i).panic PROVE ElementsAreContiguous
    BY DEF ElementsAreContiguous
  <2>1. /\ get(i) = [panic |-> FALSE, bucket |-> bucket_of(i), offset |-> offset_of(i)]
        /\ i + FIRST_BUCKET_SIZE <= UsizeMax
    BY DEF get, get_checked, Panic
  <2>2. i \in 0 .. UsizeMax - FIRST_BUCKET_SIZE  BY <1>1, <2>1, FirstBucket
  <2>3. offset_of(i) < bucket_len(bucket_of(i))  BY <2>2, ElementAndPlace
  <2>4. Cardinality(PlacesBefore(bucket_of(i), offset_of(i))) = i
    BY <2>2, ElementsFillPlaces
  <2> QED  BY <2>1, <2>3, <2>4 DEF ElementsAreContiguous
<1> QED  BY <1>1, IsUsize, PTL

\* An element whose bucket can be allocated can be indexed, at an offset that
\* isize allows; and so can the place after it (leaky.rs:168-182).
THEOREM CapacityGuarded == Spec => []CapacityIsGuarded
<1>1. ASSUME i \in Slots  PROVE CapacityIsGuarded
  <2>1. ~get(i).panic /\ get(i).offset = offset_of(i)  BY <1>1, PlaceOf
  <2>2. offset_of(i) * 8 <= IsizeMax
    <3> DEFINE L == bucket_len(bucket_of(i))
               o == offset_of(i)
    <3>1. L \in Nat /\ o \in Nat /\ o < L /\ L * 8 <= IsizeMax /\ IsizeMax \in Nat
      BY <1>1, PlaceOf
    <3> HIDE DEF L, o
    <3> QED  BY <3>1 DEF o
  <2>3. bucket_of(i + 1) \in Buffers
    <3>1. i \in Nat  BY <1>1, FirstBucket DEF Slots
    <3>2. i + 1 \in Nat /\ (i + 1) - 1 \in Slots  BY <1>1, <3>1
    <3> QED  BY <3>2, NextIndex
  <2> QED  BY <2>1, <2>2, <2>3 DEF CapacityIsGuarded
<1>2. CapacityIsGuarded  BY <1>1 DEF CapacityIsGuarded
<1> QED  BY <1>2, PTL

\* reserve(n) goes to the bucket of element n - 1 (leaky.rs:394-401), and to
\* one that cannot be allocated when the sum of the code saturates.
THEOREM ReserveExact == Spec => []ReserveIsExact
<1>1. ASSUME i \in 0 .. UsizeMax  PROVE ReserveIsExact
  <2> DEFINE F == FIRST_BUCKET_SIZE
             m == UsizeMax - F
  <2>0. /\ USIZE_BITS \in Nat /\ USIZE_BITS > 4 /\ K \in 0 .. USIZE_BITS - 5
        /\ F \in 1 .. UsizeMax /\ UsizeMax \in Nat /\ UsizeMax + 1 = 2^USIZE_BITS
    BY BucketsAssumption, FirstBucket
  <2>1. /\ i = 0 => last_bucket(i) = 0
        /\ i # 0 /\ i - 1 <= m => last_bucket(i) = bucket_of(i - 1)
        /\ i - 1 > m => ~layout_ok(last_bucket(i))
    BY <1>1, LastBucket
  <2>2. ASSUME i - 1 = m  PROVE ~layout_ok(last_bucket(i))
    <3> DEFINE e == USIZE_BITS - 1
    <3>1. m \in 0 .. m /\ m + F = UsizeMax /\ i # 0  BY <2>0, <2>2
    <3>2. e \in 0 .. USIZE_BITS /\ e + 1 = USIZE_BITS /\ e \in 0 .. USIZE_BITS - 1
      BY <2>0
    <3>3. 2^USIZE_BITS = 2 * 2^e /\ 2^e \in Nat \ {0}  BY <3>2, PowersOfTwo
    <3>4. UsizeMax \in 1 .. UsizeMax /\ 2^e <= UsizeMax /\ UsizeMax < 2^(e + 1)
      BY <2>0, <3>2, <3>3
    <3>5. highest_bit(UsizeMax) = e
      BY <3>2, <3>4, HighestBit, PowerBelowUnique
    <3>6. highest_bit(m + F) = K + bucket_of(m) /\ bucket_of(m) \in Nat
      BY <2>0, <3>1, BucketOf
    <3>7. bucket_of(m) = USIZE_BITS - 1 - K  BY <2>0, <3>1, <3>5, <3>6
    <3>8. ~layout_ok(USIZE_BITS - 1 - K)
      <4>1. USIZE_BITS - 1 - K \in 0 .. USIZE_BITS - K  BY <2>0
      <4>2. ~(K + (USIZE_BITS - 1 - K) < USIZE_BITS - 4)  BY <2>0
      <4> QED  BY <4>1, <4>2, LayoutOk
    <3>9. last_bucket(i) = bucket_of(m)  BY <2>0, <2>1, <2>2, <3>1
    <3> QED  BY <3>7, <3>8, <3>9
  <2> HIDE DEF m
  <2>3. m \in Nat /\ m <= UsizeMax /\ i \in Nat  BY <1>1, <2>0 DEF m
  <2>4. i \in 1 .. m => i # 0 /\ i - 1 <= m  BY <2>3
  <2>5. i > m => i - 1 = m \/ i - 1 > m  BY <2>3
  <2> QED  BY <2>1, <2>2, <2>4, <2>5 DEF ReserveIsExact, m
<1> QED  BY <1>1, IsUsize, PTL
=============================================================================
