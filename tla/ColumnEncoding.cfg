SPECIFICATION Spec
CONSTANTS
  Types = {"int64", "vector", "string", "binary"}
  Values <- MCValues
  Algorithms = {"none", "zstd"}
  BlockSizes <- MCBlockSizes
  DefaultBlockSize = 12
  MaxValues = 3
INVARIANTS
  RoundTrip
  CutDetected
CHECK_DEADLOCK FALSE
