SPECIFICATION Spec
CONSTANTS
  NumCameras = 2
  Writers = {w1}
  Modes = {"TRIGGER"}
  Saves = {TRUE, FALSE}
  Budget = 6
  BatchSize = 1
  Skips = {0, 1}
  WriteResults = {TRUE}
  StartMayFail = TRUE
  ModeWhileRunning = FALSE
  MaxFrames = 3
  MaxTriggers = 2
  MaxResets = 0
INVARIANTS TriggerAnsweredOnce TriggerCapturesWanted AckedAreWritten
