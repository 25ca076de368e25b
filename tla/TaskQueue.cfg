CONSTANTS
  w1 = w1
  w2 = w2
  r = r
  Posters <- MCPosters
  Reactor <- r
  MaxTasks = 2
SPECIFICATION Spec
CHECK_DEADLOCK FALSE
INVARIANTS ReadNeverFails NoLostWakeup
PROPERTY ImplementsFifo
