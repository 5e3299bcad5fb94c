CONSTANTS
  r1 = r1
  r2 = r2
  company = company
  contract = contract
  region = region
  clients = clients
  risks = risks
  novector = novector
  notable = notable
  Requests <- MCRequests
  Catalogue <- MCCatalogue
  Tasks <- MCTasks
  Task <- MCTask
  TaskTokens <- MCTaskTokens
  HeadTokens <- MCHeadTokens
  AllTokens <- MCAllTokens
  Boost <- MCBoost
  Cosine <- MCCosine
  Columns <- MCColumns
  K = 1
  MaxCols = 2
  NoVector = novector
  NoTable = notable
  MaxCrashes = 1
SPECIFICATION FairSpec
INVARIANTS
  CacheIsTrue
  BestSchemaIsLinked
PROPERTIES
  LinksEnd
CHECK_DEADLOCK FALSE
