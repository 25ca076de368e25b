CONSTANTS
  t1 = t1
  t2 = t2
  Exit = Exit
  Loggers <- Two
  MaxSize = 2
  SplitLines = 2
  MonthDays = 31
  MaxLines = 3
  MaxDate = 2
SPECIFICATION Spec
CHECK_DEADLOCK FALSE
INVARIANTS TypeOK NoSleeperNeeded FilesInOrder FilesSplit NothingLostAtExit
PROPERTY ExitEnds
