CONSTANTS
  Jobs = {j1}
  Workers = {w1}
  NONE = NONE
  MaxAttemptsInputs = {2}
  MaxParallelJobs = 2
  FaultKinds = {"replyLost", "submitError", "crash", "channelClosed", "schedulerCrash"}
  MaxFaults = 2
SPECIFICATION FairSpec
INVARIANTS DispatchNotLost
PROPERTIES EveryJobEnds
