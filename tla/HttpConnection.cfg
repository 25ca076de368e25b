CONSTANTS
  MaxRequests = 3
  Kinds <- MCKinds
  Cuts <- MCCuts
  Pipelining = FALSE
SPECIFICATION Spec
CHECK_DEADLOCK FALSE
INVARIANTS TypeOK RightAnswers NoEarlyAnswer FilesClosed
PROPERTY Answered
