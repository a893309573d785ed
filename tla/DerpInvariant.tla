---------------------------- MODULE DerpInvariant ----------------------------
(***************************************************************************)
(* The inductive invariant behind AuthenticDelivery and MeshOnly: what     *)
(* every channel, socket and task may hold, container by container.        *)
(* Neither is inductive, since they speak only of what was received.       *)
(***************************************************************************)
EXTENDS DerpProperties

(* The connections over which a server talks to a member of its mesh. *)
Meshers == {c \in Conns : c \in Outbound \/ can_mesh(c)}

(* Some Remote sent the payload, to this target ... *)
Addressed(target, payload) ==
  /\ payload.n \in DOMAIN sent[payload.from]
  /\ target = Original(payload).target

(* ... and from this source. *)
Genuine(source, target, payload) ==
  Addressed(target, payload) /\ source = TrueSource(payload)

GoodPackets == {m \in Packet : Genuine(m.source, m.target, m.payload)}

GoodHeld == [sink : Conns, packet : GoodPackets]

GoodCommands ==
  {m \in ServiceCommand : /\ m.cmd = "SendPacket" => m \in GoodPackets
                          /\ m.cmd = "Subscribe" => m.sink \in Meshers}

GoodWrites(c) ==
  {m \in WriteLoopCommands : /\ m.cmd = "SendPacket" => m \in GoodPackets
                             /\ m.cmd = "PeerPresent" => c \in Meshers}

(* Frames on their way to the end e *)
GoodFrames(e) ==
  {f \in Frame :
     /\ f.ty = "SendPacket" => e \in Conns /\ Genuine(pk[e], f.target, f.payload)
     /\ f.ty = "ForwardPacket" => Genuine(f.source, f.target, f.payload)
     /\ f.ty = "RecvPacket" => /\ far[e] \in Conns
                               /\ f.target = pk[far[e]]
                               /\ Addressed(f.target, f.payload)
     /\ f.ty \in {"ForwardPacket", "PeerPresent"} /\ e \in Remotes => far[e] \in Meshers}

CommandsSafe == \A s \in Servers : commands[s] \in Seq(GoodCommands)
OutgoingSafe == \A s \in Servers : outgoing[s] \in Seq(GoodHeld)
PendingSafe == \A c \in Conns : pending[c] \in Seq(GoodCommands)
SinksSafe == \A c \in Conns : sink[c] \in Seq(GoodWrites(c))
WritingSafe == \A c \in Conns : writing[c] \in Seq(GoodFrames(far[c]))
NetSafe == \A e \in Ends : net[e] \in Seq(GoodFrames(e))
ReceivedSafe == \A r \in Remotes : received[r] \in Seq(GoodFrames(r))
MeshSafe == \A s \in Servers : \A k \in Keys : mesh[s][k] \in Meshers \cup {None}
AnnouncingSafe == \A c \in Conns : announcing[c] \in Seq(Meshers)
FloodingSafe == \A c \in Conns : Flooded(c) # {} => c \in Meshers

(***************************************************************************)
(* Every packet in the system, wherever it is, is addressed as its sender  *)
(* addressed it, and everything that tells of clients is on its way to a   *)
(* member of the mesh.  (The loops of client.rs and mesh_client.rs,        *)
(* command_loop and the notice tasks.)                                     *)
(***************************************************************************)
SafeInv ==
  /\ CommandsSafe /\ OutgoingSafe /\ PendingSafe
  /\ SinksSafe /\ WritingSafe /\ NetSafe /\ ReceivedSafe
  /\ MeshSafe /\ AnnouncingSafe /\ FloodingSafe

=============================================================================
