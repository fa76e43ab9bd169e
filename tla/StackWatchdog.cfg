CONSTANTS
  Users = {u1}
  AudioLoop = audio_loop
  VideoLoop = video_loop
  Watchdog = watchdog
  Nil = nil
  Patience = 1
  MaxReports = 3
SPECIFICATION Spec
PROPERTIES SparesWorking
CHECK_DEADLOCK FALSE
