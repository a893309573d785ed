------------------------------- MODULE MCWatch -------------------------------
(* One server with a mesh key.  Another server, f, joins its mesh; carol   *)
(* has no mesh key but watches and announces all the same.                 *)
EXTENDS DerpProperties

MCServers == {"s"}
MCConns == {"alice", "f", "carol"}
MCRemotes == {"ra", "rf", "rc"}
MCKeys == {"A", "F", "C", "X"}
MCMeshKeys == {"mesh"}
MCowner == [c \in MCConns |-> "s"]
MCfar == [alice |-> "ra", f |-> "rf", carol |-> "rc",
          ra |-> "alice", rf |-> "f", rc |-> "carol"]
MCpk == [alice |-> "A", f |-> "F", carol |-> "C"]
MCmeshkey == [s \in MCServers |-> "mesh"]
MCoffered == [ra |-> None, rf |-> "mesh", rc |-> None]
MCBehaviour == [ra |-> {"SendPacket"}, rf |-> {"WatchConns", "PeerPresent"},
                rc |-> {"WatchConns", "PeerPresent"}]
MCMaxFrames == [ra |-> 1, rf |-> 2, rc |-> 1]
=============================================================================
