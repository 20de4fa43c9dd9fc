CONSTANTS
  Threads = {t1}
  NoThread = NoThread
  Fds <- MCFds
  Idle = 2
  Request = 2
  Spurious = 1
  Combined = TRUE
SPECIFICATION FairSpec
INVARIANTS RecheckGuards
PROPERTY IdleCloses
