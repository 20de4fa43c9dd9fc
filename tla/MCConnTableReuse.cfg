CONSTANTS
  Threads = {t1, t2}
  NoThread = NoThread
  Fds <- MCFds
  Idle = 2
  Request = 2
  Spurious = 1
  Combined = TRUE
SPECIFICATION Spec
INVARIANT RecheckGuards
