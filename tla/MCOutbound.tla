------------------------------ MODULE MCOutbound ------------------------------
(* One server that opens connections g and g2 to mesh peers which are not  *)
(* dersp and present the same key, so that the entry of g in the mesh map  *)
(* is overwritten, and a client of its own.                                *)
EXTENDS DerpInvariant

MCServers == {"s"}
MCConns == {"alice", "g", "g2"}
MCOutbound == {"g", "g2"}
MCRemotes == {"ra", "rg", "rg2"}
MCKeys == {"A", "G", "H"}
MCMeshKeys == {"mesh"}
MCowner == [c \in MCConns |-> "s"]
MCfar == [alice |-> "ra", g |-> "rg", g2 |-> "rg2",
          ra |-> "alice", rg |-> "g", rg2 |-> "g2"]
MCpk == [alice |-> "A", g |-> "G", g2 |-> "G"]
MCmeshkey == [s \in MCServers |-> "mesh"]
MCoffered == [r \in MCRemotes |-> None]
MCBehaviour == [ra |-> {"SendPacket"}, rg |-> {"PeerPresent", "ForwardPacket"},
                rg2 |-> {"PeerPresent", "KeepAlive", "Malformed"}]
MCTargets == {"A", "H"}
MCMaxFrames == [r \in MCRemotes |-> 1]
=============================================================================
