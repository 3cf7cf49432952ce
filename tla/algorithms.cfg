SPECIFICATION Spec
CONSTANTS
  Second = 10
  BudgetFloor = 16
  BudgetCap = 32
  MinRate = 5000
  MaxRate = 400000
  InitialRate = 400000
  SuccessRun = 1
  MaxEvents = 3
  SubsampleInputs <- MCSubsampleInputs
  FocusInputs <- MCFocusInputs
  RawInputs <- MCRawInputs
  CaptureInputs <- MCCaptureInputs
INVARIANTS
  GeometryInside
  RawModeDeepest
  AcceptedIsSustained
PROPERTIES
  PressureSlows
CHECK_DEADLOCK FALSE
