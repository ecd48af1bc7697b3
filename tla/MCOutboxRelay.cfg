CONSTANTS
  Relays = {r1, r2}
  NONE = NONE
  MaxRows = 3
  Batch = 2
  FaultKinds = {"crash", "channelLost", "publishLost"}
  MaxFaults = 2
SPECIFICATION FairSpec
INVARIANTS RelayTypeOK BatchesAreExclusive DuplicatesOnlyByFaults UnacceptedOnlyByFaults
PROPERTIES EveryRowPublished ImplementsOutbox
CHECK_DEADLOCK FALSE
