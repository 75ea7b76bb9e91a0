SPECIFICATION FairSpec
CONSTANTS
  NULL = NULL
  Obj = {o1, o2, o3}
  MAX_THREAD_NUM = 3
  MaxInt = 1
  SleepArgs = {0, 1}
PROPERTIES WaitingEventuallyRuns SleeperEventuallyWakes
