SPECIFICATION Spec
CONSTANTS
  Keys = {"k1", "k2", "k3"}
  Buffers <- MCBuffers
  Size <- MCSize
  Capacities <- MCCapacities
INVARIANTS
  WithinBudget
PROPERTIES
  ImplementsLRU
CHECK_DEADLOCK FALSE
