SPECIFICATION Spec
CONSTANTS
  Controls = {"focus", "duration"}
  Values = {1, 2}
  Buffers = 2
  Consumers = {commander, observer}
  StartMayFail = TRUE
  QueueMayFail = TRUE
  HwMax = {0, 1}
  MaxSets = 3
  MaxFrames = 2
SYMMETRY ConsumerSymmetry
INVARIANTS TypeOK ControlsConverge OnlyAsked BuffersMapped RequestsConserved
PROPERTY ConsumersMoveForward
