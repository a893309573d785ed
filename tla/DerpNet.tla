------------------------------- MODULE DerpNet -------------------------------
(***************************************************************************)
(* The vocabulary shared by the modules that model the dersp relay: the    *)
(* connections between servers and the outside world, the frames that      *)
(* travel over them, the commands that travel through the tokio channels   *)
(* inside a server, and the state of every task.                           *)
(*                                                                         *)
(* A connection has two ends.  The end at a server is a member of Conns;   *)
(* the other end is either a member of Conns too (a link between two dersp *)
(* servers of a mesh) or a member of Remotes (a program that is not dersp: *)
(* a VPN client or a foreign DERP server).                                 *)
(***************************************************************************)
EXTENDS Naturals, Sequences, FiniteSets

CONSTANTS
  Servers,    \* the dersp processes
  Conns,      \* connection ends held by a server
  Remotes,    \* connection ends held by a program outside the model
  Keys,       \* curve25519 public keys, which name clients and servers
  MeshKeys,   \* the secrets that servers of one mesh share
  None,       \* Rust's Option::None, for connections and for mesh keys
  owner,      \* the server that holds a connection end
  far,        \* the other end of a connection
  pk,         \* the key of the program at the far end, learned by the handshake
  Outbound,   \* the connection ends opened by a MeshClient of their owner
  meshkey,    \* Config::meshkey of each server
  offered     \* the mesh key a Remote puts in its ClientInfo

(* Bounds of a model: what the programs outside may do, and how often.     *)
CONSTANTS
  Behaviour,  \* the types of frame each Remote sends
  Targets,    \* the keys that packets are addressed to
  Fragile,    \* the connections that may break
  MaxFrames,  \* frames each Remote sends at most
  SocketCap   \* frames a socket buffers before a write has to wait

Ends == Conns \cup Remotes

FrameTypes == {"SendPacket", "RecvPacket", "ForwardPacket", "PeerPresent",
               "WatchConns", "KeepAlive", "Malformed"}

ASSUME NetAssumption ==
  /\ \A S \in SUBSET Conns : Cardinality(S) \in Nat  \* finitely many
  /\ Conns \cap Remotes = {}
  /\ Servers \cap Conns = {}
  /\ None \notin Conns \cup MeshKeys
  /\ owner \in [Conns -> Servers]
  /\ far \in [Ends -> Ends]
  /\ \A e \in Ends : far[far[e]] = e
  /\ \A r \in Remotes : far[r] \in Conns
  /\ pk \in [Conns -> Keys]
  /\ Outbound \subseteq Conns
  /\ \A c \in Conns : far[c] \in Conns => (c \in Outbound <=> far[c] \notin Outbound)
  /\ meshkey \in [Servers -> MeshKeys \cup {None}]
  /\ offered \in [Remotes -> MeshKeys \cup {None}]
  /\ Behaviour \in [Remotes -> SUBSET FrameTypes]
  /\ Targets \subseteq Keys
  /\ Fragile \subseteq Conns
  /\ MaxFrames \in [Remotes -> Nat]
  /\ SocketCap \in Nat

-----------------------------------------------------------------------------
(* Frames and commands.  A payload is opaque to dersp; here it is a token  *)
(* that names the Remote that made it up and the position of the frame     *)
(* among those it sent, so that properties can follow a packet.            *)

Payload == [from : Remotes, n : Nat]

SendPacket(target, payload) ==
  [ty |-> "SendPacket", target |-> target, payload |-> payload]

RecvPacket(target, payload) ==
  [ty |-> "RecvPacket", target |-> target, payload |-> payload]

ForwardPacket(source, target, payload) ==
  [ty |-> "ForwardPacket", source |-> source, target |-> target, payload |-> payload]

PeerPresent(public_key) == [ty |-> "PeerPresent", public_key |-> public_key]

(* WatchConns; KeepAlive stands for every type of frame that no read loop  *)
(* knows (KeepAlive, NotePreferred, PeerGone, ClosePeer, Ping, Pong, ...);  *)
(* Malformed for a frame whose body does not decode as its type says.      *)
Bare(ty) == [ty |-> ty]

Frame ==
  [ty : {"SendPacket", "RecvPacket"}, target : Keys, payload : Payload]
    \cup [ty : {"ForwardPacket"}, source : Keys, target : Keys, payload : Payload]
    \cup [ty : {"PeerPresent"}, public_key : Keys]
    \cup [ty : {"WatchConns", "KeepAlive", "Malformed"}]

(* ServiceCommand::SendPacket and WriteLoopCommands::SendPacket carry the  *)
(* same fields, and so share one representation.                           *)
PacketCommand(source, target, payload) ==
  [cmd |-> "SendPacket", source |-> source, target |-> target, payload |-> payload]

(* ServiceCommand::SubscribeForPeerChanges and ::PeerPresent carry the     *)
(* sending half of the sink of the connection they came from.              *)
SubscribeCommand(key, conn) == [cmd |-> "Subscribe", key |-> key, sink |-> conn]
PresentCommand(key, conn) == [cmd |-> "PeerPresent", key |-> key, sink |-> conn]

(* WriteLoopCommands::PeerPresent *)
PresentWrite(key) == [cmd |-> "PeerPresent", key |-> key]

Packet == [cmd : {"SendPacket"}, source : Keys, target : Keys, payload : Payload]

ServiceCommand ==
  Packet \cup [cmd : {"Subscribe", "PeerPresent"}, key : Keys, sink : Conns]

WriteLoopCommands == Packet \cup [cmd : {"PeerPresent"}, key : Keys]

-----------------------------------------------------------------------------
VARIABLES
  \* DerpService, one per server
  peers_sinks,  \* key -> connection whose sink takes packets for that key
  mesh,         \* key -> connection whose sink takes PeerPresent notices
  accepting,    \* DerpService::new has returned and the accept loop runs
  \* the command channel and the task that serves it
  commands,     \* contents of the channel
  command_loop, \* "running" or "stopped"
  outgoing,     \* the packet, with its sink, that the loop is busy sending
  \* the read loop of a connection
  reader,       \* its status
  pending,      \* the command that it is busy sending
  \* the write loop of a connection and the channel, its sink, that it serves
  writer,       \* its status
  sink,         \* contents of the channel
  writing,      \* the frame that it is busy writing
  \* tasks spawned to send PeerPresent notices
  announcing,   \* about a new client: the sinks that are still to be told
  flooding,     \* to a new subscriber: how often it is still to be told of a key
  \* sockets
  net,          \* frames on their way to an end
  link,         \* FALSE once the connection is broken
  \* history
  sent,         \* frames that a Remote has sent
  received      \* frames that a Remote has received

service_vars == <<peers_sinks, mesh, accepting, commands, command_loop, outgoing>>
reader_vars  == <<reader, pending>>
writer_vars  == <<writer, sink, writing>>
notice_vars  == <<announcing, flooding>>
socket_vars  == <<net, link>>
history_vars == <<sent, received>>

vars == <<service_vars, reader_vars, writer_vars, notice_vars, socket_vars,
          history_vars>>

(* "none": not created yet; "starting": MeshClient::run is in the key      *)
(* exchange; "ended": the task returned; "panicked": it ran into todo!()    *)
(* or into unwrap() on an error.                                           *)
TaskStatus == {"none", "starting", "running", "ended", "panicked"}
Over == {"ended", "panicked"}

(* Both kinds of channel are made by channel(1). *)
ChannelCap == 1

TypeOK ==
  /\ peers_sinks \in [Servers -> [Keys -> Conns \cup {None}]]
  /\ mesh \in [Servers -> [Keys -> Conns \cup {None}]]
  /\ accepting \in [Servers -> BOOLEAN]
  /\ commands \in [Servers -> Seq(ServiceCommand)]
  /\ command_loop \in [Servers -> {"running", "stopped"}]
  /\ outgoing \in [Servers -> Seq([sink : Conns, packet : Packet])]
  /\ reader \in [Conns -> TaskStatus]
  /\ pending \in [Conns -> Seq(ServiceCommand)]
  /\ writer \in [Conns -> TaskStatus]
  /\ sink \in [Conns -> Seq(WriteLoopCommands)]
  /\ writing \in [Conns -> Seq(Frame)]
  /\ announcing \in [Conns -> Seq(Conns)]
  /\ flooding \in [Conns -> [Keys -> Nat]]
  /\ net \in [Ends -> Seq(Frame)]
  /\ link \in [Conns -> BOOLEAN]
  /\ sent \in [Remotes -> Seq(Frame)]
  /\ received \in [Remotes -> Seq(Frame)]

Init ==
  /\ peers_sinks = [s \in Servers |-> [k \in Keys |-> None]]
  /\ mesh = [s \in Servers |-> [k \in Keys |-> None]]
  /\ accepting = [s \in Servers |-> FALSE]
  /\ commands = [s \in Servers |-> <<>>]
  /\ command_loop = [s \in Servers |-> "running"]
  /\ outgoing = [s \in Servers |-> <<>>]
  /\ reader = [c \in Conns |-> "none"]
  /\ pending = [c \in Conns |-> <<>>]
  /\ writer = [c \in Conns |-> "none"]
  /\ sink = [c \in Conns |-> <<>>]
  /\ writing = [c \in Conns |-> <<>>]
  /\ announcing = [c \in Conns |-> <<>>]
  /\ flooding = [c \in Conns |-> [k \in Keys |-> 0]]
  /\ net = [e \in Ends |-> <<>>]
  /\ link = [c \in Conns |-> TRUE]
  /\ sent = [r \in Remotes |-> <<>>]
  /\ received = [r \in Remotes |-> <<>>]

-----------------------------------------------------------------------------
(* Sockets and channels. *)

(* Both halves of the socket of c are dropped with the loops that own them. *)
Closed(c) == reader[c] \in Over /\ writer[c] \in Over

(* The connection is unbroken and the far end still open. *)
Up(c) == link[c] /\ (far[c] \in Conns => link[far[c]] /\ ~Closed(far[c]))

(* A write to the socket of c finds room in the buffers on the way. *)
SocketRoom(c) == Len(net[far[c]]) < SocketCap

(* The receiving half of the sink was dropped with the write loop. *)
SinkClosed(c) == writer[c] \in Over
SinkRoom(c) == Len(sink[c]) < ChannelCap

(* The write loop of c is over: its receiver, and all that was buffered    *)
(* in the channel, is dropped.                                             *)
EndWriter(c, status) ==
  /\ writer' = [writer EXCEPT ![c] = status]
  /\ sink' = [sink EXCEPT ![c] = <<>>]
  /\ writing' = [writing EXCEPT ![c] = <<>>]

(* The keys of which a task of notify_about_all_clients is still to tell c *)
Flooded(c) == {k \in Keys : flooding[c][k] > 0}

(* DerpReader::get_next_message hands the next frame, of one of the given  *)
(* types, to the read loop of c.  At the end of the stream it neither      *)
(* returns nor fails, so that then no step of the reader is possible.      *)
GetNextMessage(c, types) ==
  /\ reader[c] = "running"
  /\ pending[c] = <<>>
  /\ net[c] # <<>>
  /\ Head(net[c]).ty \in types
  /\ net' = [net EXCEPT ![c] = Tail(@)]

=============================================================================
