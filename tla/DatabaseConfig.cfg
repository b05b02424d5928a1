SPECIFICATION Spec
CONSTANTS
  c1 = c1  c2 = c2  b1 = b1  b2 = b2
  NoClient = NoClient
  Clients <- MCClients
  Names = {"docs"}
  Batches = {b1, b2}
  ConnectKinds = {"path", "config"}
  MayFail = TRUE
  MaxFaults = 1
  MaxHandles = 2
  MaxMade = 2
  MaxConnects = 2
INVARIANT AckedDurableConfig
SYMMETRY ClientSymmetry
CHECK_DEADLOCK FALSE
