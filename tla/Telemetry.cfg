CONSTANTS
  r1 = r1
  r2 = r2
  c1 = c1
  Runs <- MCRuns
  Classes <- MCClasses
  Outcomes <- MCOutcomes
SPECIFICATION TelemetryFairSpec
INVARIANTS
  MetricsAreExact
  CountedIffReturned
CHECK_DEADLOCK FALSE
