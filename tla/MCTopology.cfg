CONSTANTS
  Schedulers = {s1}
  WorkerProcs = {p1, p2}
  Settings = {0, 1, 3}
  DefaultDelay = 3
  MaxOutages = 2
SPECIFICATION TopologyFairSpec
INVARIANTS TopologyTypeOK ConnectedIsRouted
PROPERTIES EveryProcessConnects
CHECK_DEADLOCK FALSE
