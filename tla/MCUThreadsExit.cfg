SPECIFICATION Spec
CONSTANTS
  NULL = NULL
  Obj = {o1, o2}
  MAX_THREAD_NUM = 2
  MaxInt = 1
  SleepArgs = {1}
INVARIANT MainTerminationExits
