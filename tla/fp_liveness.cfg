SPECIFICATION FairSpec
CONSTANTS
  NumCameras = 2
  Writers = {w1}
  Modes = {"BATCH", "BUFFER", "DETECT", "TRIGGER", "NONE"}
  Saves = {TRUE, FALSE}
  Budget = 2
  BatchSize = 2
  Skips = {0}
  WriteResults = {TRUE}
  StartMayFail = FALSE
  ModeWhileRunning = FALSE
  MaxFrames = 1
  MaxTriggers = 1
  MaxResets = 0
PROPERTY StopCompletes
