------------------------------ MODULE DerpClient ------------------------------
(***************************************************************************)
(* client.rs: the read loop and the write loop that a server runs for a    *)
(* connection that it accepted.  The actions apply to c \in Conns \        *)
(* Outbound, except SendCommand, ReadError and WriteFrame, whose code has  *)
(* the same shape in mesh_client.rs.                                       *)
(***************************************************************************)
EXTENDS DerpNet

(* The mesh key that the program at the far end of c presented. *)
OfferedKey(c) ==
  IF far[c] \in Conns THEN meshkey[owner[far[c]]] ELSE offered[far[c]]

(* The match on the two mesh keys in add_new_client: a connection that     *)
(* offers a key must offer the server's key.                               *)
MeshKeyFits(c) == OfferedKey(c) # None => OfferedKey(c) = meshkey[owner[c]]
can_mesh(c) == OfferedKey(c) # None /\ OfferedKey(c) = meshkey[owner[c]]

-----------------------------------------------------------------------------
(* read_loop *)

BugSwapped(c, f) == PacketCommand(f.target, pk[c], f.payload)

(* The command for a SendPacket frame: its source is the key of the        *)
(* connection, whatever the frame says.                                    *)
ClientPacket(c, f) == PacketCommand(pk[c], f.target, f.payload)

ReadSendPacket(c) ==
  /\ GetNextMessage(c, {"SendPacket"})
  /\ pending' = [pending EXCEPT ![c] = <<ClientPacket(c, Head(net[c]))>>]
  /\ UNCHANGED <<service_vars, reader, writer_vars, notice_vars, link, history_vars>>

BugWatchUnchecked(c) == <<SubscribeCommand(pk[c], c)>>

(* Without can_mesh the frame is read and ignored. *)
WatchCommand(c) == IF can_mesh(c) THEN <<SubscribeCommand(pk[c], c)>> ELSE <<>>

ReadWatchConns(c) ==
  /\ GetNextMessage(c, {"WatchConns"})
  /\ pending' = [pending EXCEPT ![c] = WatchCommand(c)]
  /\ UNCHANGED <<service_vars, reader, writer_vars, notice_vars, link, history_vars>>

ReadPeerPresent(c) ==
  /\ GetNextMessage(c, {"PeerPresent"})
  /\ pending' = [pending EXCEPT ![c] = <<PresentCommand(Head(net[c]).public_key, c)>>]
  /\ UNCHANGED <<service_vars, reader, writer_vars, notice_vars, link, history_vars>>

(* todo!("frame type: ...") *)
ReadUnhandled(c) ==
  /\ GetNextMessage(c, {"RecvPacket", "ForwardPacket", "KeepAlive"})
  /\ reader' = [reader EXCEPT ![c] = "panicked"]
  /\ UNCHANGED <<service_vars, pending, writer_vars, notice_vars, link, history_vars>>

(* A decode error ends the read loop; the write loop keeps running. *)
ReadMalformed(c) ==
  /\ GetNextMessage(c, {"Malformed"})
  /\ reader' = [reader EXCEPT ![c] = "ended"]
  /\ UNCHANGED <<service_vars, pending, writer_vars, notice_vars, link, history_vars>>

(* The socket reports an error instead of data. *)
ReadError(c) ==
  /\ reader[c] = "running"
  /\ pending[c] = <<>>
  /\ ~Up(c)
  /\ reader' = [reader EXCEPT ![c] = "ended"]
  /\ UNCHANGED <<service_vars, pending, writer_vars, notice_vars, socket_vars, history_vars>>

(* command_sender.send(..).await: waits for room in the command channel,   *)
(* and fails once the command loop has dropped its receiver.  The failure  *)
(* is returned by `?`, but a PeerPresent is sent with unwrap().            *)
SendCommand(c) ==
  LET s == owner[c]
      command == Head(pending[c])
      ok == command_loop[s] = "running"
  IN /\ pending[c] # <<>>
     /\ ok => Len(commands[s]) < ChannelCap
     /\ pending' = [pending EXCEPT ![c] = <<>>]
     /\ commands' = IF ok THEN [commands EXCEPT ![s] = Append(@, command)]
                          ELSE commands
     /\ reader' = IF ok THEN reader
                  ELSE [reader EXCEPT ![c] =
                          IF command.cmd = "PeerPresent" THEN "panicked" ELSE "ended"]
     /\ UNCHANGED <<peers_sinks, mesh, accepting, command_loop, outgoing,
                    writer_vars, notice_vars, socket_vars, history_vars>>

-----------------------------------------------------------------------------
(* write_loop *)

BugNeverForward(c, command) == command.cmd = "SendPacket" /\ command.target # pk[c]

(* A packet for another key than that of the connection, on a connection   *)
(* that may not mesh, meets todo!().                                       *)
Unwritable(c, command) ==
  command.cmd = "SendPacket" /\ command.target # pk[c] /\ ~can_mesh(c)

FrameFor(c, command) ==
  IF command.cmd = "PeerPresent" THEN PeerPresent(command.key)
  ELSE IF command.target = pk[c] THEN RecvPacket(command.target, command.payload)
  ELSE ForwardPacket(command.source, command.target, command.payload)

RecvWrite(c) ==
  /\ writer[c] = "running" /\ writing[c] = <<>> /\ sink[c] # <<>>
  /\ ~Unwritable(c, Head(sink[c]))
  /\ writing' = [writing EXCEPT ![c] = <<FrameFor(c, Head(sink[c]))>>]
  /\ sink' = [sink EXCEPT ![c] = Tail(@)]
  /\ UNCHANGED <<service_vars, reader_vars, writer, notice_vars, socket_vars, history_vars>>

RecvUnwritable(c) ==
  /\ writer[c] = "running" /\ writing[c] = <<>> /\ sink[c] # <<>>
  /\ Unwritable(c, Head(sink[c]))
  /\ EndWriter(c, "panicked")
  /\ UNCHANGED <<service_vars, reader_vars, notice_vars, socket_vars, history_vars>>

BugWriteTwice(c) ==
  /\ writing[c] # <<>>
  /\ SocketRoom(c)
  /\ Up(c)
  /\ net' = [net EXCEPT ![far[c]] = Append(@, Head(writing[c]))]
  /\ UNCHANGED <<service_vars, reader_vars, writer_vars, notice_vars, link, history_vars>>

(* write_all waits for room in the socket. *)
WriteFrame(c) ==
  /\ writing[c] # <<>>
  /\ SocketRoom(c)
  /\ Up(c)
  /\ net' = [net EXCEPT ![far[c]] = Append(@, Head(writing[c]))]
  /\ writing' = [writing EXCEPT ![c] = <<>>]
  /\ UNCHANGED <<service_vars, reader_vars, writer, sink, notice_vars, link, history_vars>>

(* On a broken connection the bytes may still go into the local buffer     *)
(* and be lost there ...                                                   *)
WriteLost(c) ==
  /\ writing[c] # <<>>
  /\ ~Up(c)
  /\ writing' = [writing EXCEPT ![c] = <<>>]
  /\ UNCHANGED <<service_vars, reader_vars, writer, sink, notice_vars, socket_vars, history_vars>>

(* ... or the write fails and the write loop returns, and its result is    *)
(* not looked at.                                                          *)
WriteFails(c) ==
  /\ writing[c] # <<>>
  /\ ~Up(c)
  /\ EndWriter(c, "ended")
  /\ UNCHANGED <<service_vars, reader_vars, notice_vars, socket_vars, history_vars>>

(* A clone of the sending half of the sink of c is alive somewhere: in one *)
(* of the maps, in a read loop, in a command, in the command loop or in a  *)
(* task that sends notices.                                                *)
SinkHeld(c) ==
  \/ \E s \in Servers : \E k \in Keys : c \in {peers_sinks[s][k], mesh[s][k]}
  \/ reader[c] \in {"starting", "running"}
  \/ \E s \in Servers : \E i \in DOMAIN commands[s] :
       commands[s][i].cmd # "SendPacket" /\ commands[s][i].sink = c
  \/ \E s \in Servers : outgoing[s] # <<>> /\ Head(outgoing[s]).sink = c
  \/ \E d \in Conns : \E i \in DOMAIN announcing[d] : announcing[d][i] = c
  \/ Flooded(c) # {}

(* recv returns None: all senders are gone and the channel is empty. *)
RecvNone(c) ==
  /\ writer[c] = "running" /\ writing[c] = <<>> /\ sink[c] = <<>>
  /\ ~SinkHeld(c)
  /\ EndWriter(c, "ended")
  /\ UNCHANGED <<service_vars, reader_vars, notice_vars, socket_vars, history_vars>>

ClientStep(c) ==
  \/ ReadSendPacket(c) \/ ReadWatchConns(c) \/ ReadPeerPresent(c)
  \/ ReadUnhandled(c) \/ ReadMalformed(c) \/ ReadError(c) \/ SendCommand(c)
  \/ RecvWrite(c) \/ RecvUnwritable(c)
  \/ WriteFrame(c) \/ WriteLost(c) \/ WriteFails(c) \/ RecvNone(c)

=============================================================================
