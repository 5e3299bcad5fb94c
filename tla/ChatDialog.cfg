CONSTANTS
  MaxDialogs = 2
  MaxTurns = 4
SPECIFICATION FairSpec
INVARIANTS
  AsksAtMostTwice
  DialogsAreWhole
  FeedbackIsAboutItsTask
PROPERTIES
  GuardIsReleased
CHECK_DEADLOCK FALSE
