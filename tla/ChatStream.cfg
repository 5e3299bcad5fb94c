CONSTANTS
  r1 = r1
  r2 = r2
  Requests <- MCRequests
  MaxEvents = 2
  Threads = 1
SPECIFICATION FairSpec
INVARIANTS
  StreamTellsTheRun
PROPERTIES
  StreamsAndRunsEnd
  ImplementsEventChannel
CHECK_DEADLOCK FALSE
