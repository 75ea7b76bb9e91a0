SPECIFICATION Spec
CONSTANTS
  Threads = {t1, t2, t3, t4}
  NoThread = NoThread
  Rounds = 3
INVARIANTS DemoTypeOK CountIsWaiters OneRoundAtATime NoEarlyReturn
PROPERTIES IsMultiUseBarrier EveryThreadEnds
