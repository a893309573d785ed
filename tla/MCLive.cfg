SPECIFICATION FairSpec
CONSTANTS
  Servers <- MCServers
  Conns <- MCConns
  Remotes <- MCRemotes
  Keys <- MCKeys
  MeshKeys <- MCMeshKeys
  None = None
  owner <- MCowner
  far <- MCfar
  pk <- MCpk
  Outbound = {}
  meshkey <- MCmeshkey
  offered <- MCoffered
  Behaviour <- MCBehaviour
  Targets <- MCTargets
  Fragile = {}
  MaxFrames <- MCMaxFrames
  SocketCap = 1
PROPERTIES EventuallyDelivered EventuallyTold
CHECK_DEADLOCK FALSE
