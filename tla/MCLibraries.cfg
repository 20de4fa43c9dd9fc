CONSTANTS
  init_buff_size = 4
  Lens <- MCLens
  Files = {f1, f2}
  NoFile = NoFile
  MaxSize = 13
  Items = {a, b, c}
  Heads = {h1, h2}
  None = None
  Ids = {1, 6, 7, 11}
  MaxVal = 2
  Nhash = 5
  Nrec = 6
  MaxSlots = 8
  Writers = {w1, w2}
  Keys = {1, 3}
  Vals = {1, 2}
  Buckets = 2
  Slots = 4
  MaxSets = 3
  Lines <- MCLines
  Arguments <- MCArguments
  Asked = {"log_level", "db_host"}
  Defaults <- MCDefaults
  MaxLines = 2
  MaxArgs = 1
  MaxReloads = 2
  MaxValues = 2
  Received <- MCReceived
  DIR1 = 3
  DIR2 = 3
  MAXFCS = 3
  MAX_NAME_LEN = 4
  MAX_VALUE_LEN = 8
  iPairLen = 4
  MAX_SIG_BODY = 3
  LineRoom = 15
SPECIFICATION LibSpec
INVARIANTS
  SpareByte OneFile IntegerIsCurrent StampsAreNewest
  ParametersComeBack TextsAreRead AnswersAreImported
PROPERTIES
  SeqSpec BehavesAsMap  ReloadIsExact
CHECK_DEADLOCK FALSE
