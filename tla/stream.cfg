SPECIFICATION Spec
CONSTANTS
  NumCameras = 2
  Chunks = 2
  Soft = 1
  LowWater = 0
  MaxBuffered = 3
  Paced <- MCPaced
  Subsampled <- MCSubsampled
  HigherStates <- MCHigherStates
INVARIANTS
  TypeOK
  ObserverYields
  StopStreamPrompt
  FramesWhole
  NoCameraStarved
PROPERTIES
  WaitsEnd
  NoSilentStall
