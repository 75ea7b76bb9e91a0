SPECIFICATION PosixSpec
CONSTANTS
  Threads = {t1, t2}
  NoThread = NoThread
  Rounds = 2
INVARIANT NoEarlyReturn
