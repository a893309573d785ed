SPECIFICATION Spec
CONSTANTS
  Servers <- MCServers
  Conns <- MCConns
  Remotes <- MCRemotes
  Keys <- MCKeys
  MeshKeys = {"mesh"}
  None = None
  owner <- MCowner
  far <- MCfar
  pk <- MCpk
  Outbound = {}
  meshkey <- MCmeshkey
  offered <- MCoffered
  Behaviour <- MCBehaviour
  Targets <- MCTargets
  Fragile = {"bob"}
  MaxFrames <- MCMaxFrames
  SocketCap = 1
INVARIANTS AuthenticDelivery InOrder OrderInv
PROPERTIES ImplementsRelay
CHECK_DEADLOCK FALSE
