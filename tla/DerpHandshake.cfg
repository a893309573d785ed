SPECIFICATION HandshakeSpec
CONSTANTS
  Pieces = 3
  Fragments = {"http_request", "http_response", "server_key", "client_info", "server_info", "frame"}
  MaxFrames = 3
  MeshKeys = {"red", "blue"}
  None = none
INVARIANTS HandshakeInv NoFrameLost NoFrameSkipped ServedWhenRunning NothingForRefused FailsOnlyWhenCut NoCircularWait
PROPERTY HandshakeCompletes
CHECK_DEADLOCK FALSE
