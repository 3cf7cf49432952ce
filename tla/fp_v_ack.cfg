SPECIFICATION Spec
CONSTANTS
  NumCameras = 1
  Writers = {w1}
  Modes = {"TRIGGER"}
  Saves = {TRUE}
  Budget = 1
  BatchSize = 1
  Skips = {0}
  WriteResults = {TRUE}
  StartMayFail = FALSE
  ModeWhileRunning = FALSE
  MaxFrames = 2
  MaxTriggers = 2
  MaxResets = 0
INVARIANT AckMeansQueued
