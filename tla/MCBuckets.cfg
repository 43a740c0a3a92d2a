SPECIFICATION Spec
CONSTANTS
  USIZE_BITS = 10
  FIRST_BUCKET_SIZE = 4
  T_BYTES = 8
INVARIANTS
  HighestBitIsSet
  ElementsAreContiguous
  CapacityIsGuarded
  ReserveIsExact
CHECK_DEADLOCK FALSE
