CONSTANTS
  N = 3
  MaxSignals = 2
SPECIFICATION FairSpec
INVARIANT FreedUnused
PROPERTY GoesDown
CHECK_DEADLOCK FALSE
