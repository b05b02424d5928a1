SPECIFICATION Spec
CONSTANTS
  b1 = b1  b2 = b2  b3 = b3  r1 = r1
  InitialColumns <- MCColumns
  Addable = {"tag"}
  Droppable = {"id", "vec"}
  Batches = {b1, b2}
  Readers = {r1}
  CacheLimit = 2
  WithWriter = TRUE
  Disciplined = TRUE
  Faults = {"fail", "torn", "ack", "crash"}
  MaxFaults = 1
  MaxVersion = 4
  MaxAdds = 1
  MaxOpens = 1
INVARIANTS
  CacheMatchesDisk
  ReadsFresh
  ReadersNeverFail
PROPERTIES
  ImplementsSnapshots
  CommittedFilesImmutable
CHECK_DEADLOCK FALSE
