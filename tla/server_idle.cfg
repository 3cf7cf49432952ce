SPECIFICATION Spec
CONSTANTS
  NumCameras = 2
  Conns = {s1, s2}
  NoConn = NoConn
  MaxDefer = 2
INVARIANT IdleMeansUnallocated
