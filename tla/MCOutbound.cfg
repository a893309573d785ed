SPECIFICATION Spec
CONSTANTS
  Servers <- MCServers
  Conns <- MCConns
  Remotes <- MCRemotes
  Keys <- MCKeys
  MeshKeys <- MCMeshKeys
  None = None
  owner <- MCowner
  far <- MCfar
  pk <- MCpk
  Outbound <- MCOutbound
  meshkey <- MCmeshkey
  offered <- MCoffered
  Behaviour <- MCBehaviour
  Targets <- MCTargets
  Fragile = {"g"}
  MaxFrames <- MCMaxFrames
  SocketCap = 1
INVARIANTS SafeInv NoticeInv
CHECK_DEADLOCK FALSE
