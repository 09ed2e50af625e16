SPECIFICATION Spec
CONSTANTS
  MaxEdits = 1
  MaxReplays = 3
INVARIANTS
  ValidMeansRejectedNow
  RejectionIsReported
CHECK_DEADLOCK FALSE
