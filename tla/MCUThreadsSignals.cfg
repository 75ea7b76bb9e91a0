SPECIFICATION FairSpecFromMain
CONSTANTS
  NULL = NULL
  Obj = {o1, o2, o3}
  MainObj = o1
  MAX_THREAD_NUM = 3
  MaxInt = 1
  SleepArgs = {1}
INVARIANTS SignalTypeOK MaskMatchesCode
PROPERTIES CallsAreAtomic TicksKeepComing
