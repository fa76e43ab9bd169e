CONSTANTS
  Capacity = 3
  Closers = {c1, c2}
  PipeSize = 2
  MaxOutput = 3
  MaxStderr = 5
SPECIFICATION FairSpec
INVARIANTS TailKept NothingLost DiagnosisKept
PROPERTIES CloseReturns
CHECK_DEADLOCK FALSE
