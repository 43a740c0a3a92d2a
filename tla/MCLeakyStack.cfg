SPECIFICATION ApartSpec
CONSTANTS
  USIZE_BITS = 6
  FIRST_BUCKET_SIZE = 1
  T_BYTES = 8
  Threads = {t1, t2}
  Values = {0, 1}
  ReserveArgs = {}
  None = None
  MaxCalls = 4
  t1 = t1
  t2 = t2
SYMMETRY Symmetry
INVARIANT StackInv
PROPERTY ImplementsStack
