CONSTANTS
  MaxAnswers = 2
  MaxRuns = 1
  MaxLines = 2
SPECIFICATION ConsoleFairSpec
INVARIANTS
  ReportsTellTheirCard
  StatsNeedLogin
PROPERTIES
  ButtonsComeBack
CHECK_DEADLOCK FALSE
