SPECIFICATION MCSpec
CONSTANTS
  USIZE_BITS = 6
  FIRST_BUCKET_SIZE = 1
  T_BYTES = 8
  Threads = {t1, t2}
  Values = {5}
  ReserveArgs = {3, 4}
  None = None
  MaxCalls = 2
  DAddrs = {1, 2, 3, 4, 5}
  WAddrs = {11, 12, 13, 14, 15, 16, 17, 18}
  Null = 0
VIEW View
SYMMETRY Symmetry
INVARIANTS
  TypeOK
  SingleOwner
  HeldIsNotFreed
  SameLayout
  AllGivenBack
  MemoryInv
  NoNullDeref
  ReserveDelivers
  BucketInv
