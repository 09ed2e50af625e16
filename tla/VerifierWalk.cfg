SPECIFICATION Spec
CONSTANTS
  Programs <- MCPrograms
  MaxSteps = 7
INVARIANTS
  StatesReadAreCurrent
  OnlyRefinementsMissed
CHECK_DEADLOCK FALSE
