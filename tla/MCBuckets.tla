------------------------------ MODULE MCBuckets ------------------------------
(***************************************************************************)
(* Every usize of a narrow machine, one state each: what the index         *)
(* arithmetic of Buckets returns is compared with reference definitions    *)
(* that use no bits.                                                       *)
(***************************************************************************)
EXTENDS Buckets, FiniteSets

VARIABLE i   \* the argument of get, of highest_bit and of reserve

Init == i = 0
NextArg == i < UsizeMax /\ i' = i + 1
Spec == Init /\ [][NextArg]_i

-----------------------------------------------------------------------------

\* The places of the smaller buckets, and those of bucket b that precede offset o.
PlacesBefore(b, o) ==
  (UNION {{c} \X (0 .. bucket_len(c) - 1) : c \in 0 .. b - 1}) \cup ({b} \X (0 .. o - 1))

\* lib.rs:59 "Return the highest bit set in a number": the bit is set and none
\* above it is; 0 has no bit set and returns 0 (lib.rs:68 without a branch).
HighestBitIsSet ==
  IF i = 0 THEN highest_bit(i) = 0
  ELSE /\ (i \div 2^highest_bit(i)) % 2 = 1
       /\ i \div 2^(highest_bit(i) + 1) = 0

\* get lays the elements out back to back: as many places come before that of
\* element i as there are elements before it, and the offset stays inside its
\* bucket. So two indices never share a cell, and no place is left out.
ElementsAreContiguous ==
  get(i).panic \/ /\ i = Cardinality(PlacesBefore(get(i).bucket, get(i).offset))
                  /\ get(i).offset < bucket_len(get(i).bucket)

\* For every element that can exist, get neither panics nor leaves the
\* isize::MAX bytes that pointer offsets allow; and the first bucket that can
\* not be allocated still has a place in buffers, so that push reaches the
\* capacity_overflow() of allocate_bucket and not an index out of bounds.
CapacityIsGuarded ==
  (i \in Slots) =>
     /\ ~get(i).panic
     /\ get(i).offset * 8 <= IsizeMax
     /\ bucket_of(i + 1) \in Buffers

\* reserve(i) allocates exactly the buckets that elements 0 .. i-1 lie in: up
\* to the bucket of the last one, also when i + FIRST_BUCKET_SIZE saturates.
ReserveIsExact ==
  /\ i \in 1 .. UsizeMax - FIRST_BUCKET_SIZE => last_bucket(i) = bucket_of(i - 1)
  /\ i = 0 => last_bucket(i) = 0
  /\ i > UsizeMax - FIRST_BUCKET_SIZE => ~layout_ok(last_bucket(i))
=============================================================================
