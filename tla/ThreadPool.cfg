CONSTANTS
  w1 = w1
  w2 = w2
  w3 = w3
  r1 = r1
  r2 = r2
  Workers <- MCWorkers
  Appenders <- MCAppenders
  MaxRequests = 2
  MaxAppends = 2
SPECIFICATION Spec
CHECK_DEADLOCK FALSE
INVARIANTS TypeOK NoSleeperNeeded DrainedWhenDown
PROPERTIES ImplementsFifo DestroyEnds
