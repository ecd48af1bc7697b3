CONSTANTS
  Jobs = {j1, j2}
  Workers = {w1}
  NONE = NONE
  MaxAttemptsInputs = {1}
  Requests = {r1, r2}
  Keys = {k1}
  NoKey = NoKey
  MaxSends = 4
SPECIFICATION Spec
SYMMETRY Symm
INVARIANTS RequestsTypeOK OneJobPerKey DispatchedHasInput
CHECK_DEADLOCK FALSE
