CONSTANTS
  Jobs = {j1}
  Workers = {w1, w2}
  NONE = NONE
  MaxAttemptsInputs = {2}
  MaxParallelJobs = 1
  FaultKinds = {"claimError", "replyLost", "submitError", "crash", "shutdown", "channelClosed", "schedulerCrash", "misread", "publishLost", "publishError"}
  MaxFaults = 1
SPECIFICATION Spec
SYMMETRY Symm
INVARIANTS PlatformTypeOK CarriedOrDeadLettered OneExecutionPerGrant KilledOnlyWhenLost
PROPERTIES ImplementsItsParts
