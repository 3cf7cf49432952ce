SPECIFICATION Spec
CONSTANTS
  NumCameras = 2
  Writers = {w1, w2}
  Modes = {"BATCH", "BUFFER", "DETECT"}
  Saves = {TRUE}
  Budget = 2
  BatchSize = 2
  Skips = {0}
  WriteResults = {TRUE, FALSE}
  StartMayFail = FALSE
  ModeWhileRunning = FALSE
  MaxFrames = 2
  MaxTriggers = 0
  MaxResets = 0
SYMMETRY WriterSymmetry
INVARIANTS TypeOK BacklogExact StoppedMeansFlushed KeepsPrefix
PROPERTIES ImplementsSession
