SPECIFICATION Spec
CONSTANTS
    Catalogs <- MCCatalogs
    SeedFiles <- MCSeedFiles
    Targets <- MCTargets
    Totals = {9, 24}
    Asked <- MCAsked
    Queries <- MCQueries
    K = 3
    Block = 11
INVARIANTS
  FlawsHaveTwins
  EvaluationIsFair
  CoverageIsEven
PROPERTIES
  ClosestAreShown
CHECK_DEADLOCK FALSE
