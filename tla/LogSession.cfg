SPECIFICATION Spec
CONSTANTS
  Lines <- MCLines
  Calls <- MCCalls
  MaxLoads = 2
  MaxRuns = 2
  MaxSteps = 3
INVARIANTS
  TerminalIsLastRejection
  ScopeIsOfRejected
  CorpusParserAgrees
CHECK_DEADLOCK FALSE
