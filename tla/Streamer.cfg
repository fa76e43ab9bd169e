CONSTANTS
  Callers = {c1, c2}
  Frame = 2
  Stall = 3
  Lag = 1
  MaxTime = 6
SPECIFICATION FairSpec
INVARIANTS NoLostWakeup PauseTakesHold RealTimePace StoppedIsQuiet
PROPERTIES NeverStuck ImplementsRunLoop
CHECK_DEADLOCK FALSE
