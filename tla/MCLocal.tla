------------------------------- MODULE MCLocal -------------------------------
(* One server without a mesh: Alice, Bob who connects twice, and Dave who  *)
(* presents a mesh key.                                                    *)
EXTENDS DerpOrder

MCServers == {"s"}
MCConns == {"alice", "bob", "bob2", "dave"}
MCRemotes == {"ra", "rb", "rb2", "rd"}
MCKeys == {"A", "B", "D"}
MCTargets == {"A", "B"}
MCowner == [c \in MCConns |-> "s"]
MCfar == [alice |-> "ra", bob |-> "rb", bob2 |-> "rb2", dave |-> "rd",
          ra |-> "alice", rb |-> "bob", rb2 |-> "bob2", rd |-> "dave"]
MCpk == [alice |-> "A", bob |-> "B", bob2 |-> "B", dave |-> "D"]
MCmeshkey == [s \in MCServers |-> None]
MCoffered == [r \in MCRemotes |-> IF r = "rd" THEN "mesh" ELSE None]
MCBehaviour == [ra |-> {"SendPacket"}, rb |-> {"SendPacket", "Malformed", "KeepAlive"},
                rb2 |-> {}, rd |-> {}]
MCMaxFrames == [ra |-> 2, rb |-> 1, rb2 |-> 0, rd |-> 0]
=============================================================================
