CONSTANTS
  w1 = w1
  w2 = w2
  NoWorker = NoWorker
  Workers <- MCWorkers
  MaxFrames = 1
  MaxOut = 1
SPECIFICATION Safe
CHECK_DEADLOCK FALSE
INVARIANT NothingStranded
SYMMETRY MCSymmetry
