SPECIFICATION Spec
CONSTANTS
  Kinds = {"ivf", "flat"}
  Inputs <- MCInputs
  QueryVectors <- MCQueries
  Limits = {0, 2}
  Metrics = {"cosine", "euclidean", "dot"}
  Requested = {1, 3}
  Probes <- MCProbes
  MaxIters = 3
  MaxProbes = 10
INVARIANTS
  IndexCoherent
  ExactWhenAllProbed
  FindsSelf
