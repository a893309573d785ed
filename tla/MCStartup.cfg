SPECIFICATION FairSpec
CONSTANTS
  Servers <- MCServers
  Unresolved = "nowhere"
  mesh_peers <- MCLists
  has_meshkey <- MCNotD
  Breaks = TRUE
  MaxBoots = 2
  MaxExits = 1
INVARIANTS NoMeshCycle MeshedInOrder
PROPERTIES EventuallyServes
CHECK_DEADLOCK FALSE
