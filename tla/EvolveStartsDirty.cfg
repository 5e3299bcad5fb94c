SPECIFICATION Spec
CONSTANTS
  Window = 5
  Environments <- MCEnvironments
  Rounds = {1}
  PageSizes = {1}
  Orders = 1
  Experiments <- MCExperiments
  MaxBatch <- MCMaxBatch
  Load <- MCLoad
INVARIANT EvolveStartsDirty
CHECK_DEADLOCK FALSE
