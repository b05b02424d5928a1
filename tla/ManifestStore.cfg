SPECIFICATION FairSpec
CONSTANTS
  NoProcess = NoProcess
  p1 = p1  p2 = p2  h1 = h1  h2 = h2
  Processes = {p1, p2}
  Handles = {h1}
  Handle <- SharedHandle
  Requests <- MCRequests
  Faults = {"fail", "torn", "ack", "crash"}
  MaxFaults = 1
INVARIANTS
  NoLostUpdate
  PointerWhole
  ResultTruthful
  ReadsFresh
PROPERTIES
  ImplementsRegister
  CallsReturn
