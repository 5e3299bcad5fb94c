CONSTANTS
  c1 = c1
  c2 = c2
  c3 = c3
  a1 = a1
  a2 = a2
  Header = Header
  Calls <- MCCalls
  Reads <- MCReads
  Event <- MCEvent
  Limit = 2
SPECIFICATION FairSpec
INVARIANTS
  TrailIsWhole
  ReadersMissNothing
  PanelTellsTheTrail
PROPERTIES
  CallsReturn
CHECK_DEADLOCK FALSE
