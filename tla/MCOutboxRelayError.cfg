CONSTANTS
  Relays = {r1, r2}
  NONE = NONE
  MaxRows = 2
  Batch = 2
  FaultKinds = {"channelLost"}
  MaxFaults = 1
SPECIFICATION FairSpec
PROPERTIES PublishErrorRecorded
CHECK_DEADLOCK FALSE
