SPECIFICATION Spec
CONSTANTS
  TagValues <- MCTags
  Distances = {1, 2}
  Queries <- MCQueries
  MaxRows = 2
  MaxTotal = 3
  MaxFragments = 2
INVARIANTS
  NearestMatching
  WholeOrError
