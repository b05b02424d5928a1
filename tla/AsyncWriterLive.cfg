SPECIFICATION FairSpec
CONSTANTS
  b1 = b1
  b2 = b2
  b3 = b3
  c1 = c1
  c2 = c2
  NoClient = NoClient
  Batches <- OneBatch
  Clients <- MCClients
  Columns <- OneColumn
  Rows <- MCRows
  Kind <- OneColumnKind
  FieldType = "ok"
  ChanCap = 1
  ResultCap = 1
  MaxBatchSize = 2
  TimerOn = TRUE
  Faults = {"write", "torn", "ack", "list", "read", "crash"}
  MaxFaults = 1
  MaxStarts = 1
  MaxFragID = 3
PROPERTIES
  CallsReturn
  EventuallyDurable
CHECK_DEADLOCK FALSE
