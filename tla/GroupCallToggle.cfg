CONSTANTS
  Threads = {t1, t2}
  Disp = disp
  Nil = Nil
  Sources = {"a"}
  Seekable = {"a"}
  Outcomes <- MCOutcomes
  Api = {"SetSource", "SeekBy", "Pause", "Resume", "Mute", "Unmute", "Stop"}
  Reported = {"Connected", "Disconnected", "Failed"}
  MaxCalls = 3
  QCap = 16
SPECIFICATION Spec
SYMMETRY MCSymmetry
INVARIANTS PauseAgrees MirrorConverges StopIsFinal NoEarlyStart
PROPERTIES StreamsAccounted
CHECK_DEADLOCK FALSE
