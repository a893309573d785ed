-------------------------------- MODULE MCLive --------------------------------
(* One server whose connections do not break: Bob, who connects twice, and *)
(* another server f that joins the mesh and sends packets.                 *)
EXTENDS DerpProperties

MCServers == {"s"}
MCConns == {"bob", "bob2", "f"}
MCRemotes == {"rb", "rb2", "rf"}
MCKeys == {"B", "F"}
MCMeshKeys == {"mesh"}
MCowner == [c \in MCConns |-> "s"]
MCfar == [bob |-> "rb", bob2 |-> "rb2", f |-> "rf",
          rb |-> "bob", rb2 |-> "bob2", rf |-> "f"]
MCpk == [bob |-> "B", bob2 |-> "B", f |-> "F"]
MCmeshkey == [s \in MCServers |-> "mesh"]
MCoffered == [rb |-> None, rb2 |-> None, rf |-> "mesh"]
MCBehaviour == [rb |-> {}, rb2 |-> {}, rf |-> {"WatchConns", "SendPacket"}]
MCTargets == {"B"}
MCMaxFrames == [rb |-> 0, rb2 |-> 0, rf |-> 2]
=============================================================================
