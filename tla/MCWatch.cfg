SPECIFICATION Spec
CONSTANTS
  Servers <- MCServers
  Conns <- MCConns
  Remotes <- MCRemotes
  Keys <- MCKeys
  MeshKeys <- MCMeshKeys
  None = None
  owner <- MCowner
  far <- MCfar
  pk <- MCpk
  Outbound = {}
  meshkey <- MCmeshkey
  offered <- MCoffered
  Behaviour <- MCBehaviour
  Targets = {"C", "X"}
  Fragile = {"f"}
  MaxFrames <- MCMaxFrames
  SocketCap = 1
INVARIANTS MeshOnly NoticeInv PanicSelfInflicted
PROPERTIES RouteKept
CHECK_DEADLOCK FALSE
