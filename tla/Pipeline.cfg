CONSTANTS
  Window = 5
  max_iterations = 0
  Statements <- MCStatements
  Outages <- MCOutages
SPECIFICATION FairSpec
INVARIANTS
  TypeOK
  AnswerIsTheLastAttempt
  RetryShowsTheRejectedAttempt
  PromptTeaches
  HarmfulNeverApproved
  EventsTellTheLog
PROPERTIES
  Terminates
  ImplementsAuditLoop
CHECK_DEADLOCK FALSE
