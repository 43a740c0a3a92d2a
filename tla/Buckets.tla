------------------------------- MODULE Buckets -------------------------------
(***************************************************************************)
(* The memory half of the vector: how an element index becomes a bucket    *)
(* and an offset, how large a bucket is, and how many buckets reserve()    *)
(* asks for.  The same code stands in leaky.rs and in sealed.rs; there is  *)
(* no state here, only arithmetic on usize.                                *)
(*                                                                         *)
(* The code is written for a 64-bit usize.  The width is a constant, so    *)
(* that the boundaries (usize::MAX, isize::MAX, the last bucket) are in    *)
(* TLC's reach.                                                            *)
(***************************************************************************)
EXTENDS Naturals

CONSTANTS
  USIZE_BITS,         \* bits of a usize: 64 in the code
  FIRST_BUCKET_SIZE,  \* elements of bucket 0: 8 in the code
  T_BYTES             \* mem::size_of::<T>() of the element type

UsizeMax == 2^USIZE_BITS - 1
IsizeMax == 2^(USIZE_BITS - 1) - 1

\* FIRST_BUCKET_SIZE "must always be a power of 2", and bucket 0 can be
\* allocated; elements travel in a u64.
ASSUME BucketsAssumption ==
  /\ USIZE_BITS \in Nat /\ USIZE_BITS > 4
  /\ \E k \in 0 .. USIZE_BITS - 5 : FIRST_BUCKET_SIZE = 2^k
  /\ T_BYTES \in 1 .. 8

\* Not a restriction, but arithmetic: what the proofs need to know of 2^n,
\* of which the backends of TLAPS know nothing.
ASSUME PowersOfTwo ==
  \A n \in 0 .. USIZE_BITS : 2^n \in Nat \ {0} /\ 2^(n + 1) = 2 * 2^n

-----------------------------------------------------------------------------
(* core::num, used by the code *)

\* usize::leading_zeros
leading_zeros(num) ==
  CHOOSE z \in 0 .. USIZE_BITS :
    /\ num < 2^(USIZE_BITS - z)
    /\ z < USIZE_BITS => num >= 2^(USIZE_BITS - 1 - z)

saturating_add(a, b) == IF a + b > UsizeMax THEN UsizeMax ELSE a + b
saturating_sub(a, b) == IF a < b THEN 0 ELSE a - b

-----------------------------------------------------------------------------

\* Mutated: the (num == 0) that makes 0 return 0 is missing.
highest_bit_no_zero_case(num) == (USIZE_BITS - 1) - leading_zeros(num)

\* the branch-free (num == 0) + 63 - leading_zeros
highest_bit(num) ==
  (IF num = 0 THEN 1 ELSE 0) + (USIZE_BITS - 1) - leading_zeros(num)

\* The length of the array of bucket pointers: 60 = 63 - 3 in the code.
NBUFFERS == USIZE_BITS - 1 - highest_bit(FIRST_BUCKET_SIZE)
Buffers  == 0 .. NBUFFERS - 1

\* The bucket of element i.
bucket_of(i) == highest_bit(i + FIRST_BUCKET_SIZE) - highest_bit(FIRST_BUCKET_SIZE)

\* Mutated: the offset is taken from i, not from pos.
offset_of_unshifted(i) ==
  IF i = 0 THEN 0 ELSE i - 2^highest_bit(i)

\* The place of element i in its bucket.  Bit hibit of pos is set, so the XOR
\* with 1 << hibit takes 2^hibit off.
offset_of(i) ==
  LET pos == i + FIRST_BUCKET_SIZE
  IN  pos - 2^highest_bit(pos)

\* get(i): the bucket and offset of element i, or the panic of checked_add,
\* of the index into buffers, or of the assert (which only asks whether the
\* multiplication overflows: the comparison with isize::MAX is mapped inside
\* the Option and then dropped by is_some()).
Panic == [panic |-> TRUE]
get_checked(i) == i + FIRST_BUCKET_SIZE <= UsizeMax
                  /\ offset_of(i) * T_BYTES <= UsizeMax
get(i) ==
  IF /\ get_checked(i)
     /\ bucket_of(i) \in Buffers
  THEN [panic |-> FALSE, bucket |-> bucket_of(i), offset |-> offset_of(i)]
  ELSE Panic

\* allocate_bucket(b) asks for an array of bucket_len(b) AtomicU64 of 8 bytes;
\* a layout above isize::MAX ends in capacity_overflow().
bucket_len(b) == FIRST_BUCKET_SIZE * 2^b

\* Mutated: no guard on the size of an allocation.
layout_unchecked(b) == TRUE
layout_ok(b) == bucket_len(b) * 8 <= IsizeMax

\* Mutated: the "- 1" of reserve is missing.
last_bucket_no_minus(n) ==
  saturating_sub(highest_bit(saturating_add(n, FIRST_BUCKET_SIZE)),
                 highest_bit(FIRST_BUCKET_SIZE))

\* The last bucket that n elements need, as reserve() computes it.
last_bucket(n) ==
  saturating_sub(highest_bit(saturating_add(n, FIRST_BUCKET_SIZE) - 1),
                 highest_bit(FIRST_BUCKET_SIZE))

\* The indices of the elements that can exist: their bucket can be allocated.
Slots == {i \in 0 .. UsizeMax - FIRST_BUCKET_SIZE : layout_ok(bucket_of(i))}
=============================================================================
