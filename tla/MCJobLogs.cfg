CONSTANTS
  Jobs = {j1}
  Workers = {w1, w2}
  NONE = NONE
  MaxAttemptsInputs = {0}
SPECIFICATION Spec
SYMMETRY Symm
INVARIANTS LogsTypeOK ListedLogsExist NoLinesOfLaterRuns ResultKeepsItsLogs
CHECK_DEADLOCK FALSE
