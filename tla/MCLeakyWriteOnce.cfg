SPECIFICATION WritesSpec
CONSTANTS
  USIZE_BITS = 6
  FIRST_BUCKET_SIZE = 1
  T_BYTES = 8
  Threads = {t1, t2}
  Values = {0, 1}
  ReserveArgs = {}
  None = None
  MaxCalls = 3
  t1 = t1
  t2 = t2
SYMMETRY Symmetry
INVARIANT WriteOnce
