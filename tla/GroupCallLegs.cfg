CONSTANTS
  Threads = {t1}
  Disp = disp
  Nil = Nil
  Sources = {"some"}
  Seekable = {"some"}
  Outcomes <- MCOutcomes
  Api = {"SetSource", "SeekBy", "Pause", "Stop"}
  Reported = {"Connected", "Failed"}
  MaxCalls = 2
  QCap = 16
SPECIFICATION FairSpec
INVARIANTS NoOrphanStreamer EndAfterQuiet
PROPERTIES StaleEndHarmless StreamersAreRunLoops CallsReturn StopQuiets
CHECK_DEADLOCK FALSE
