SPECIFICATION FairBenchSpec
CONSTANTS
  USIZE_BITS = 7
  FIRST_BUCKET_SIZE = 1
  T_BYTES = 8
  Threads = {main, t1, t2}
  Main = main
  Values = {5}
  ReserveArgs = {6}
  None = None
  MaxCalls = 12
  Iters = 3
  Rounds = 2
INVARIANTS
  NothingAllocated
  PopUnwraps
  JoinedSize
  BenchInv
PROPERTY Terminates
