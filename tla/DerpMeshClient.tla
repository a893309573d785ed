---------------------------- MODULE DerpMeshClient ----------------------------
(***************************************************************************)
(* mesh_client.rs: the connection that a server opens to another server of *)
(* its mesh.  The actions apply to c \in Outbound.  pk[c] is the key that  *)
(* the other server made up for this connection.                           *)
(***************************************************************************)
EXTENDS DerpClient

(* run, once the keys are exchanged: read_server_info, write_watch_conns   *)
(* and the start of the two loops.                                         *)
MeshWatch(c) ==
  /\ reader[c] = "starting"
  /\ Up(c)
  /\ SocketRoom(c)
  /\ net' = [net EXCEPT ![far[c]] = Append(@, Bare("WatchConns"))]
  /\ reader' = [reader EXCEPT ![c] = "running"]
  /\ writer' = [writer EXCEPT ![c] = "running"]
  /\ UNCHANGED <<service_vars, pending, sink, writing, notice_vars, link, history_vars>>

(* On a connection that breaks, WatchConns may still seem to be written, if *)
(* the server info came first ...                                          *)
MeshWatchLost(c) ==
  /\ reader[c] = "starting"
  /\ ~Up(c)
  /\ reader' = [reader EXCEPT ![c] = "running"]
  /\ writer' = [writer EXCEPT ![c] = "running"]
  /\ UNCHANGED <<service_vars, pending, sink, writing, notice_vars, socket_vars, history_vars>>

(* ... or run returns before it spawns the write loop, and drops the        *)
(* receiving half of the sink.                                             *)
MeshWatchFails(c) ==
  /\ reader[c] = "starting"
  /\ ~Up(c)
  /\ reader' = [reader EXCEPT ![c] = "ended"]
  /\ EndWriter(c, "ended")
  /\ UNCHANGED <<service_vars, pending, notice_vars, socket_vars, history_vars>>

MeshReadPeerPresent(c) ==
  /\ GetNextMessage(c, {"PeerPresent"})
  /\ pending' = [pending EXCEPT ![c] = <<PresentCommand(Head(net[c]).public_key, c)>>]
  /\ UNCHANGED <<service_vars, reader, writer_vars, notice_vars, link, history_vars>>

BugForwardSwapped(f) == PacketCommand(f.target, f.source, f.payload)

(* The command for a ForwardPacket frame: here the source is taken from    *)
(* the frame, on the word of the server that forwards it.                  *)
ForwardedPacket(f) == PacketCommand(f.source, f.target, f.payload)

MeshReadForwardPacket(c) ==
  /\ GetNextMessage(c, {"ForwardPacket"})
  /\ pending' = [pending EXCEPT ![c] = <<ForwardedPacket(Head(net[c]))>>]
  /\ UNCHANGED <<service_vars, reader, writer_vars, notice_vars, link, history_vars>>

(* _ => todo!() *)
MeshReadUnhandled(c) ==
  /\ GetNextMessage(c, {"SendPacket", "RecvPacket", "WatchConns", "KeepAlive"})
  /\ reader' = [reader EXCEPT ![c] = "panicked"]
  /\ UNCHANGED <<service_vars, pending, writer_vars, notice_vars, link, history_vars>>

(* The write loop only knows PeerPresent ... *)
MeshRecvPeerPresent(c) ==
  /\ writer[c] = "running" /\ writing[c] = <<>> /\ sink[c] # <<>>
  /\ Head(sink[c]).cmd = "PeerPresent"
  /\ writing' = [writing EXCEPT ![c] = <<PeerPresent(Head(sink[c]).key)>>]
  /\ sink' = [sink EXCEPT ![c] = Tail(@)]
  /\ UNCHANGED <<service_vars, reader_vars, writer, notice_vars, socket_vars, history_vars>>

(* ... a packet routed to it meets todo!("{x:?}"). *)
MeshRecvPacket(c) ==
  /\ writer[c] = "running" /\ writing[c] = <<>> /\ sink[c] # <<>>
  /\ Head(sink[c]).cmd = "SendPacket"
  /\ EndWriter(c, "panicked")
  /\ UNCHANGED <<service_vars, reader_vars, notice_vars, socket_vars, history_vars>>

(* None => todo!() *)
MeshRecvNone(c) ==
  /\ writer[c] = "running" /\ writing[c] = <<>> /\ sink[c] = <<>>
  /\ ~SinkHeld(c)
  /\ EndWriter(c, "panicked")
  /\ UNCHANGED <<service_vars, reader_vars, notice_vars, socket_vars, history_vars>>

(* write_peer_present(..).await.unwrap() *)
MeshWriteFails(c) ==
  /\ writing[c] # <<>>
  /\ ~Up(c)
  /\ EndWriter(c, "panicked")
  /\ UNCHANGED <<service_vars, reader_vars, notice_vars, socket_vars, history_vars>>

MeshClientStep(c) ==
  \/ MeshWatch(c) \/ MeshWatchLost(c) \/ MeshWatchFails(c)
  \/ MeshReadPeerPresent(c) \/ MeshReadForwardPacket(c) \/ MeshReadUnhandled(c)
  \/ ReadMalformed(c) \/ ReadError(c) \/ SendCommand(c)
  \/ MeshRecvPeerPresent(c) \/ MeshRecvPacket(c) \/ MeshRecvNone(c)
  \/ WriteFrame(c) \/ WriteLost(c) \/ MeshWriteFails(c)

=============================================================================
