CONSTANTS
  maxlognum = 4
  MaxClock = 12
  Threads = {t1, t2}
  Minute = 2
  MaxNow = 4
  MaxLines = 3
  Headless = {2}
  MaxDb = 2
  Tasks = {x, y, z}
  Blank = Blank
  DEFAULT_ITEMS = 2
  TaskNodes = 3
  MaxAdds = 4
  MaxStarts = 3
  MaxRecords = 5
  Nodes = {a, b}
  Statuses = {1, 2}
  MaxCalls = 2
  default_max = 1
  Spans = {0, 2}
  MaxTasks = 2
  MaxSeconds = 6
SPECIFICATION FilesSpec
INVARIANTS
  KeepsCurrent    
PROPERTIES
  DropsOldest 
CHECK_DEADLOCK FALSE
