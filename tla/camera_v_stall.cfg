SPECIFICATION FairSpec
CONSTANTS
  Controls = {"focus"}
  Values = {1, 2}
  Buffers = 2
  Consumers = {commander}
  StartMayFail = FALSE
  QueueMayFail = FALSE
  HwMax = {0}
  MaxSets = 0
  MaxFrames = 2
PROPERTY StallReported
