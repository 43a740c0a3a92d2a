SPECIFICATION FairSpec
CONSTANTS
  Threads = {t1, t2}
  Values = {1, 2}
  Addrs = {a1, a2, a3, a4}
  Null = Null
  None = None
  MaxCalls = 3
INVARIANTS
  SingleOwner
  LoadedIsNotFreed
  AllGivenBack
PROPERTIES
  ImplementsRegister
  CallsEnd
