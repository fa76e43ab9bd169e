CONSTANTS
  Threads = {t1}
  MaxProcs = 2
  MaxPos = 1
  Centuries = 2
  Nil = Nil
SPECIFICATION Spec
INVARIANT CutsAreSilent
CHECK_DEADLOCK FALSE
