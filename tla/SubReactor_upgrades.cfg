CONSTANTS
  w1 = w1
  w2 = w2
  Workers <- MCWorkers
  MaxConns = 2
  MaxFds = 2
  MaxQueue = 2
  Timeouts = FALSE
  Upgrades = TRUE
  MaxBroadcasts = 1
  Reuse = {}
SPECIFICATION Safe
CHECK_DEADLOCK FALSE
INVARIANTS HandlersExclusive TablesMatchSockets
SYMMETRY MCSymmetry
