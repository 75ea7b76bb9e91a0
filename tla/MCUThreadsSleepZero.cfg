SPECIFICATION Spec
CONSTANTS
  NULL = NULL
  Obj = {o1, o2, o3}
  MAX_THREAD_NUM = 3
  MaxInt = 3
  SleepArgs = {0, 1}
INVARIANT SleepIsBounded
