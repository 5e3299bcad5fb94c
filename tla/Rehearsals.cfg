SPECIFICATION Spec
CONSTANTS
  Window = 5
  Environments <- MCEnvironments
  Rounds = {1, 2, 3, 4, 5}
  PageSizes = {1, 2, 5, 8}
  Orders = 7
  Experiments <- MCExperiments
  MaxBatch <- MCMaxBatch
  Load <- MCLoad
INVARIANTS
  LessonsAreLearned
  FreshCloneAnswers
  NotebooksKeepTheirWord
  NobodyIsLost
PROPERTIES
  EveryRehearsalEnds
CHECK_DEADLOCK FALSE
