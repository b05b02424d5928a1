SPECIFICATION Spec
CONSTANTS
  b1 = b1
  b2 = b2
  b3 = b3
  c1 = c1
  c2 = c2
  NoClient = NoClient
  Batches <- TwoBatches
  Clients <- MCClients
  Columns <- MCColumns
  Rows <- MCRows
  Kind <- MCKind
  FieldType = "ok"
  ChanCap = 2
  ResultCap = 1
  MaxBatchSize = 2
  TimerOn = TRUE
  Faults = {"write", "crash"}
  MaxFaults = 1
  MaxStarts = 2
  MaxFragID = 3
INVARIANTS
  ExactlyOnce
  NothingDropped
  FlushDurable
  CloseDurable
  ColumnsAligned
  NoDanglingFragment
PROPERTIES
  ImplementsIngest
  PublishedImmutable
  CommittedFilesImmutable
SYMMETRY ClientSymmetry
CHECK_DEADLOCK FALSE
