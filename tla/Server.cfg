CONSTANTS
  w1 = w1
  w2 = w2
  s1 = s1
  alice = alice
  NoSql = NoSql
  Workers <- MCWorkers
  SqlConns <- MCSqlConns
  Users <- MCUsers
  NumReactors = 2
  PipeCap = 1
  Batch = 1
  MaxEvents = 2
  MaxJobs = 2
SPECIFICATION Spec
CHECK_DEADLOCK FALSE
INVARIANTS TypeOK ConnsAccounted NoSqlSleeper SessionsRight ClosedAtExit
PROPERTIES StopEnds
