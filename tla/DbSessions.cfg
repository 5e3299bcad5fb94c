CONSTANTS
  Tables <- MCTables
  Empty <- MCEmpty
  Unfit <- MCUnfit
  Linked <- MCLinked
  Tasks = 3
  CatEnds <- MCCatEnds
  Requests <- MCRequests
  Candidates <- MCCandidates
  MaxRows = 2
  Queries <- MCQueries
SPECIFICATION Spec
INVARIANTS
  SeededUnlessUnfit
  OthersAreRolledBack
  
  MeasuresAccuracy
CHECK_DEADLOCK FALSE
