CONSTANTS
  Jobs = {j1, j2}
  Workers = {w1, w2}
  NONE = NONE
  Paths = {p}
  MaxAttemptsInputs = {2}
  MaxFaults = 1
SPECIFICATION MCSpec
SYMMETRY Symm
INVARIANTS OutputTypeOK CompletedObjectIsWhole CompletedFileIsWhole
CHECK_DEADLOCK FALSE
