CONSTANTS
  Threads = {t1, t2}
  NoThread = NoThread
  Fds <- MCFds
  Idle = 1
  Request = 2
  Spurious = 1
  Combined = FALSE
SPECIFICATION Spec
INVARIANT ListedIsOpen
PROPERTY ClosesOwn
