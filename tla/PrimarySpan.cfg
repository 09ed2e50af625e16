SPECIFICATION Spec
CONSTANTS
  Lines <- MCLines
  Calls <- MCCalls
  MaxLoads = 1
  MaxRuns = 1
  MaxSteps = 4
INVARIANTS
  PrimarySpanIsRejected
CHECK_DEADLOCK FALSE
