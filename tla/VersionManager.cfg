SPECIFICATION Spec
CONSTANTS
  Versions <- MCVersions
  MaxVersions = 3
INVARIANTS
  LatestIsNewest
  WithinLimit
  KeepsNewest
