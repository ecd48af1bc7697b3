CONSTANTS
  Jobs = {j1, j2}
  Workers = {w1, w2}
  NONE = NONE
  MaxAttemptsInputs = {1, 2}
  Limits = {0, 3}
  DefaultLimit = 1
  MaxLimit = 2
SPECIFICATION MCSpec
SYMMETRY Symm
INVARIANTS StoreTypeOK AttemptsWithinLimit LeaseDiscipline FencedCompletion OneDispatchPerAttempt AdminTypeOK ListsAreComplete AnswersAgree
PROPERTIES TerminalIsFinal ImplementsLifecycle
