CONSTANTS
  w1 = w1
  w2 = w2
  Workers <- MCWorkers
  MaxConns = 2
  MaxFds = 2
  MaxQueue = 1
  Timeouts = TRUE
  Upgrades = FALSE
  MaxBroadcasts = 0
  Reuse = {}
SPECIFICATION Spec
CHECK_DEADLOCK FALSE
INVARIANTS TypeOK TablesMatchSockets TimersLive
PROPERTY NeverStuck
