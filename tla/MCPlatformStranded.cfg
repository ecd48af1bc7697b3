CONSTANTS
  Jobs = {j1}
  Workers = {w1}
  NONE = NONE
  MaxAttemptsInputs = {1}
  MaxParallelJobs = 1
  FaultKinds = {"shutdown"}
  MaxFaults = 1
SPECIFICATION FairSpec
PROPERTIES AtLeastOnce
