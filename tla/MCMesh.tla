-------------------------------- MODULE MCMesh --------------------------------
(* Two dersp servers: a opens the connection ab to b, which holds ba for   *)
(* it.  Alice is a client of a; bob connects to b and may roam to a.       *)
EXTENDS DerpOrder

MCServers == {"a", "b"}
MCConns == {"ab", "ba", "alice", "bob", "bob2"}
MCOutbound == {"ab"}
MCRemotes == {"ra", "rb", "rb2"}
MCKeys == {"KA", "KB", "A", "B"}
MCMeshKeys == {"mesh"}
MCowner == [ab |-> "a", ba |-> "b", alice |-> "a", bob |-> "b", bob2 |-> "a"]
MCfar == [ab |-> "ba", ba |-> "ab", alice |-> "ra", bob |-> "rb", bob2 |-> "rb2",
          ra |-> "alice", rb |-> "bob", rb2 |-> "bob2"]
MCpk == [ab |-> "KB", ba |-> "KA", alice |-> "A", bob |-> "B", bob2 |-> "B"]
MCmeshkey == [s \in MCServers |-> "mesh"]
MCoffered == [r \in MCRemotes |-> None]
MCBehaviour == [ra |-> {}, rb |-> {"SendPacket"}, rb2 |-> {}]
MCTargets == {"A", "B"}
MCMaxFrames == [ra |-> 0, rb |-> 2, rb2 |-> 0]
=============================================================================
