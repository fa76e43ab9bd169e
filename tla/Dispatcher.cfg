CONSTANTS
  Producers = {p1, p2}
  Loop = loop
  Closers = {p1}
  Cap = 2
  MaxFns = 5
SPECIFICATION FairSpec
INVARIANTS CloseDrains
PROPERTIES KeepsPromise CallsReturn
CHECK_DEADLOCK FALSE
