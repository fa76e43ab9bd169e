CONSTANTS
  Threads = {t1, t2}
  MaxProcs = 2
  MaxPos = 1
  Centuries = 2
  Nil = Nil
SPECIFICATION FairSpec
INVARIANTS OnePusher StopIsFinal SeekIsSilent PositionKept
CHECK_DEADLOCK FALSE
PROPERTIES CallsReturn
