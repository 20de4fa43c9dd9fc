CONSTANTS
  Threads = {t1, t2}
  NoThread = NoThread
  MAX_LOG = 3
  Fds = {f1, f2, f3}
  NoFd = NoFd
  Grace = 2
  Period = 3
  MaxWrite = 1
SPECIFICATION FairSpec
INVARIANTS HasEntity WritesItsLog NoLeak
PROPERTY PendingCloses
