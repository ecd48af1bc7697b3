CONSTANTS
  Jobs = {j1}
  Workers = {w1, w2}
  NONE = NONE
  MaxAttemptsInputs = {2}
SPECIFICATION Spec
INVARIANTS LocalResultsAreTaken
CHECK_DEADLOCK FALSE
