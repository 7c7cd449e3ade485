SPECIFICATION Spec
CONSTANTS
  MaxEncLayers = 3
  MaxBuffers = 1
  MaxImages = 2
  Recording <- MCRecorded
  Prefix <- MCPrefix
  MaxInstructions = 3
  IntMax = 20000
  Null = Null
  MaxKeys = 2
  Keysyms <- MCKeysyms
  MaxLogged = 2
  Sessions = {s1, s2}
  Readers = {r1, r2}
  MaxSuffix = 1
  BufSize = 15
  MaxLength = 9
  MaxElements = 4
  ReadySize = 3
  OutSize = 5
  ShiftSize = 4
  MaxNops = 1
  MayFail = TRUE
  Threads = {"t1", "t2"}
  KeepAlive = "ka"
  Script <- MCScript
  Stream <- MCStream
INVARIANTS TypeOK FlattenComplete TimelineExact HeldTracked RecordingsApart ReceivedAsSent NothingStranded
CHECK_DEADLOCK FALSE
