CONSTANTS
  w1 = w1
  w2 = w2
  Workers <- MCWorkers
  MaxConns = 3
  MaxFds = 2
  MaxQueue = 2
  Timeouts = FALSE
  Upgrades = FALSE
  MaxBroadcasts = 0
  Reuse = {"fd", "ptr"}
SPECIFICATION Safe
CHECK_DEADLOCK FALSE
INVARIANTS ActionsHitOwner IoOnOwnSocket
SYMMETRY MCSymmetry
