SPECIFICATION FairSpec
CONSTANTS
  USIZE_BITS = 6
  FIRST_BUCKET_SIZE = 1
  T_BYTES = 8
  Threads = {t1, t2}
  Live = {t1}
  Values = {1}
  ReserveArgs = {3, 4}
  None = None
  MaxCalls = 3
INVARIANTS
  ReplacedCleared
  BucketsPrefix
  NoNullDeref
  ReserveDelivers
  IInv
PROPERTY CallsEnd
