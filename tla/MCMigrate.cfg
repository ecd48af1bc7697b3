CONSTANTS
  Procs = {p1, p2}
  NONE = NONE
  DownSteps = {2, 6}
  ForceVersions = {0, 4}
  FaultKinds = {"crash", "lookupError"}
  MaxFaults = 2
  MaxManual = 1
SPECIFICATION FairSpec
INVARIANTS MigrateTypeOK FilesInOrder
PROPERTIES SuccessMeansCurrent UpHeals
