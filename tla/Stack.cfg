CONSTANTS
  Users = {u1}
  AudioLoop = audio_loop
  VideoLoop = video_loop
  Watchdog = watchdog
  Nil = nil
  Patience = 1
  MaxReports = 3
SPECIFICATION FairSpec
INVARIANTS CloseReleases SendsAreWhole
PROPERTIES NothingStuck
CHECK_DEADLOCK FALSE
