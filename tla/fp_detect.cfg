SPECIFICATION Spec
CONSTANTS
  NumCameras = 2
  Writers = {w1}
  Modes = {"DETECT"}
  Saves = {TRUE}
  Budget = 2
  BatchSize = 1
  Skips = {0}
  WriteResults = {TRUE}
  StartMayFail = FALSE
  ModeWhileRunning = FALSE
  MaxFrames = 2
  MaxTriggers = 0
  MaxResets = 1
INVARIANTS NoStarvation NoStaleDetection DetectionsVisible
PROPERTY StreamsMoveForward
