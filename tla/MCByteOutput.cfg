SPECIFICATION OutputSpec
\* After MaxCalls calls nothing happens.
CHECK_DEADLOCK FALSE
CONSTANTS
  Writers = {w1, w2}
  MaxCalls = 3
INVARIANTS
  SuccessMeansWritten
  TerminatorEndsItsLine
