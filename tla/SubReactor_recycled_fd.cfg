CONSTANTS
  w1 = w1
  w2 = w2
  Workers <- MCWorkers
  MaxConns = 2
  MaxFds = 1
  MaxQueue = 2
  Timeouts = TRUE
  Upgrades = FALSE
  MaxBroadcasts = 0
  Reuse = {"fd"}
SPECIFICATION Safe
CHECK_DEADLOCK FALSE
INVARIANT ActionsHitOwner
SYMMETRY MCSymmetry
