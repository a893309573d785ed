SPECIFICATION FairSpec
CONSTANTS
  Servers <- MCPair
  Unresolved = "nowhere"
  mesh_peers <- MCMutual
  has_meshkey <- MCAllKeys
  Breaks = FALSE
  MaxBoots = 1
  MaxExits = 0
PROPERTIES MeshCreated
CHECK_DEADLOCK FALSE
