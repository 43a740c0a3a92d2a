SPECIFICATION FairInTimeSpec
CONSTANTS
  USIZE_BITS = 7
  FIRST_BUCKET_SIZE = 1
  T_BYTES = 8
  Threads = {main, t1, t2}
  Main = main
  FIVE = 5
  PerWorker = 2
  Values = {5}
  ReserveArgs = {4}
  None = None
  MaxCalls = 4
  DAddrs = {1, 2, 3, 4, 5}
  WAddrs = {11, 12, 13, 14, 15, 16, 17, 18}
  Null = 0
INVARIANT SumIsPushed
INVARIANT MainInv
PROPERTY Terminates
