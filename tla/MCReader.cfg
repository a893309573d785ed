SPECIFICATION ReaderSpec
CONSTANTS
  Base = 2
  Bodies <- MCBodies
  ReadCap = 3
  MaxFrames = 2
INVARIANTS ReaderInv FramesAsSent ReturnsWholeFrames
PROPERTY AllReturned
CHECK_DEADLOCK FALSE
