SPECIFICATION Spec
CONSTANTS
  NumCameras = 2
  Writers = {w1}
  Modes = {"BUFFER", "NONE"}
  Saves = {TRUE}
  Budget = 2
  BatchSize = 1
  Skips = {0}
  WriteResults = {TRUE}
  StartMayFail = FALSE
  ModeWhileRunning = TRUE
  MaxFrames = 2
  MaxTriggers = 0
  MaxResets = 0
INVARIANT StoppedMeansFlushed
