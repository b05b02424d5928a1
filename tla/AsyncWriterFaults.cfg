SPECIFICATION Spec
CONSTANTS
  b1 = b1
  b2 = b2
  b3 = b3
  c1 = c1
  c2 = c2
  NoClient = NoClient
  Batches <- MCBatches
  Clients <- OneClient
  Columns <- MCColumns
  Rows <- MCRows
  Kind <- MCUneven
  FieldType = "ok"
  ChanCap = 1
  ResultCap = 1
  MaxBatchSize = 2
  TimerOn = TRUE
  Faults = {"write", "torn", "ack", "list", "read", "crash"}
  MaxFaults = 1
  MaxStarts = 2
  MaxFragID = 2
INVARIANTS
  CommittedColumnsSound
CHECK_DEADLOCK FALSE
