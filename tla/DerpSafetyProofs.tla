--------------------------- MODULE DerpSafetyProofs ---------------------------
(***************************************************************************)
(* AuthenticDelivery and MeshOnly, RouteBacked and PanicSelfInflicted, for *)
(* any servers, connections and programs outside.  Each container has its  *)
(* own set of good elements, and another of those that have a reason to be *)
(* there; a step takes an element from one container, and what it puts     *)
(* into another is good and has its reason there.                          *)
(***************************************************************************)
EXTENDS DerpTypeProofs, DerpInvariant, DerpRoutes

-----------------------------------------------------------------------------
(* What good elements are made of.  (ClientPacket, ForwardedPacket.) *)

(* The command that a read loop makes of a good frame is good. *)
LEMMA GoodFromFrame ==
  ASSUME NEW c \in Conns, NEW f \in GoodFrames(c)
  PROVE  /\ f.ty = "SendPacket" => ClientPacket(c, f) \in GoodPackets
         /\ f.ty = "ForwardPacket" => ForwardedPacket(f) \in GoodPackets
<1>1. f \in Frame
  BY DEF GoodFrames
<1>2. CASE f.ty = "SendPacket"
  <2>1. f.target \in Keys /\ f.payload \in Payload /\ pk[c] \in Keys
    BY <1>1, <1>2, FrameFields, NetAssumption
  <2>2. Genuine(pk[c], f.target, f.payload)
    BY <1>2 DEF GoodFrames
  <2> QED BY <1>2, <2>1, <2>2 DEF ClientPacket, PacketCommand, GoodPackets, Packet
<1>3. CASE f.ty = "ForwardPacket"
  <2>1. f.source \in Keys /\ f.target \in Keys /\ f.payload \in Payload
    BY <1>1, <1>3, FrameFields
  <2>2. Genuine(f.source, f.target, f.payload)
    BY <1>3 DEF GoodFrames
  <2> QED BY <1>3, <2>1, <2>2 DEF ForwardedPacket, PacketCommand, GoodPackets, Packet
<1> QED BY <1>2, <1>3

(* A good packet is good in either kind of channel. *)
LEMMA GoodPacketFits ==
  ASSUME NEW m \in GoodPackets, NEW c \in Conns
  PROVE  m \in GoodCommands /\ m \in GoodWrites(c) /\ m \in Packet
<1>1. m \in Packet
  BY DEF GoodPackets
<1>2. m.cmd = "SendPacket" /\ m \in ServiceCommand /\ m \in WriteLoopCommands
  BY <1>1, PacketFields
<1> QED BY <1>1, <1>2 DEF GoodCommands, GoodWrites

(* The other commands that the read loops and the notice tasks make. *)
LEMMA GoodNotices ==
  ASSUME NEW c \in Conns, NEW k \in Keys
  PROVE  /\ PresentCommand(k, c) \in GoodCommands
         /\ c \in Meshers => /\ SubscribeCommand(k, c) \in GoodCommands
                             /\ PresentWrite(k) \in GoodWrites(c)
<1>1. /\ PresentCommand(k, c) \in ServiceCommand
      /\ SubscribeCommand(k, c) \in ServiceCommand
      /\ PresentWrite(k) \in WriteLoopCommands
  BY DEF PresentCommand, SubscribeCommand, PresentWrite, ServiceCommand, WriteLoopCommands
<1>2. /\ PresentCommand(k, c).cmd = "PeerPresent"
      /\ SubscribeCommand(k, c).cmd = "Subscribe" /\ SubscribeCommand(k, c).sink = c
      /\ PresentWrite(k).cmd = "PeerPresent"
  BY DEF PresentCommand, SubscribeCommand, PresentWrite
<1> QED BY <1>1, <1>2 DEF GoodCommands, GoodWrites

(* A write loop makes a good frame of a good command: a packet for another *)
(* key is written only to a member of the mesh.                            *)
LEMMA GoodFromWrite ==
  ASSUME NEW c \in Conns, NEW m \in GoodWrites(c)
  PROVE  /\ ~Unwritable(c, m) => FrameFor(c, m) \in GoodFrames(far[c])
         /\ m.cmd = "PeerPresent" => PeerPresent(m.key) \in GoodFrames(far[c])
<1>1. m \in WriteLoopCommands /\ far[c] \in Ends /\ far[far[c]] = c
  BY NetAssumption DEF GoodWrites, Ends
<1>2. FrameFor(c, m) \in Frame
  BY <1>1, WritableFrame
<1>3. CASE m.cmd = "PeerPresent"
  <2>1. c \in Meshers
    BY <1>3 DEF GoodWrites
  <2>2. FrameFor(c, m) = PeerPresent(m.key) /\ PeerPresent(m.key).ty = "PeerPresent"
    BY <1>3 DEF FrameFor, PeerPresent
  <2> QED BY <1>1, <1>2, <2>1, <2>2 DEF GoodFrames
<1>4. CASE m.cmd = "SendPacket" /\ ~Unwritable(c, m)
  <2>1. m \in GoodPackets
    BY <1>4 DEF GoodWrites
  <2>2. Genuine(m.source, m.target, m.payload) /\ Addressed(m.target, m.payload)
    BY <2>1 DEF GoodPackets, Genuine
  <2>3. CASE m.target = pk[c]
    <3> DEFINE f == FrameFor(c, m)
    <3>1. f.ty = "RecvPacket" /\ f.target = pk[c] /\ Addressed(f.target, f.payload)
      BY <1>4, <2>2, <2>3 DEF FrameFor, RecvPacket
    <3> HIDE DEF f
    <3> QED BY <1>1, <1>2, <1>4, <3>1 DEF GoodFrames, f
  <2>4. CASE m.target # pk[c]
    <3> DEFINE f == FrameFor(c, m)
    <3>1. f.ty = "ForwardPacket" /\ Genuine(f.source, f.target, f.payload)
      BY <1>4, <2>2, <2>4 DEF FrameFor, ForwardPacket
    <3>2. c \in Meshers
      BY <1>4, <2>4 DEF Unwritable, Meshers
    <3> HIDE DEF f
    <3> QED BY <1>1, <1>2, <1>4, <3>1, <3>2 DEF GoodFrames, f
  <2> QED BY <2>3, <2>4
<1> QED BY <1>1, <1>3, <1>4, WriteFields

-----------------------------------------------------------------------------
(* While nobody outside sends, what is good stays the same. *)
LEMMA SameGood ==
  ASSUME UNCHANGED sent
  PROVE  /\ GoodPackets' = GoodPackets /\ GoodHeld' = GoodHeld
         /\ GoodCommands' = GoodCommands
         /\ \A c \in Conns : GoodWrites(c)' = GoodWrites(c)
         /\ \A e \in Ends : GoodFrames(e)' = GoodFrames(e)
<1>1. ASSUME NEW t, NEW p PROVE Addressed(t, p)' = Addressed(t, p)
  BY DEF Addressed, Original
<1>2. ASSUME NEW k, NEW t, NEW p PROVE Genuine(k, t, p)' = Genuine(k, t, p)
  BY <1>1 DEF Genuine, TrueSource, Original
<1>3. GoodPackets' = GoodPackets
  BY <1>2 DEF GoodPackets
<1>4. GoodHeld' = GoodHeld
  BY <1>3 DEF GoodHeld
<1>5. GoodCommands' = GoodCommands
  BY <1>3 DEF GoodCommands
<1>6. ASSUME NEW c \in Conns PROVE GoodWrites(c)' = GoodWrites(c)
  BY <1>3 DEF GoodWrites
<1>7. ASSUME NEW e \in Ends PROVE GoodFrames(e)' = GoodFrames(e)
  BY <1>1, <1>2 DEF GoodFrames
<1> QED BY <1>3, <1>4, <1>5, <1>6, <1>7

(* What a step leaves alone stays safe. *)
LEMMA Kept ==
  ASSUME SafeInv, UNCHANGED sent
  PROVE  /\ UNCHANGED commands => CommandsSafe'
         /\ UNCHANGED outgoing => OutgoingSafe'
         /\ UNCHANGED pending => PendingSafe'
         /\ UNCHANGED sink => SinksSafe'
         /\ UNCHANGED writing => WritingSafe'
         /\ UNCHANGED net => NetSafe'
         /\ UNCHANGED received => ReceivedSafe'
         /\ UNCHANGED mesh => MeshSafe'
         /\ UNCHANGED announcing => AnnouncingSafe'
         /\ UNCHANGED flooding => FloodingSafe'
<1>1. \A c \in Conns : far[c] \in Ends
  BY NetAssumption DEF Ends
<1>2. Remotes \subseteq Ends
  BY DEF Ends
<1>3. UNCHANGED commands => CommandsSafe'
  BY SameGood DEF SafeInv, CommandsSafe
<1>4. UNCHANGED outgoing => OutgoingSafe'
  BY SameGood DEF SafeInv, OutgoingSafe
<1>5. UNCHANGED pending => PendingSafe'
  BY SameGood DEF SafeInv, PendingSafe
<1>6. UNCHANGED sink => SinksSafe'
  BY SameGood DEF SafeInv, SinksSafe
<1>7. UNCHANGED writing => WritingSafe'
  BY <1>1, SameGood DEF SafeInv, WritingSafe
<1>8. UNCHANGED net => NetSafe'
  BY SameGood DEF SafeInv, NetSafe
<1>9. UNCHANGED received => ReceivedSafe'
  BY SMTT(40), <1>2, SameGood DEF SafeInv, ReceivedSafe
<1>10. /\ UNCHANGED mesh => MeshSafe'
       /\ UNCHANGED announcing => AnnouncingSafe'
       /\ UNCHANGED flooding => FloodingSafe'
  BY DEF SafeInv, MeshSafe, AnnouncingSafe, FloodingSafe, Flooded, Meshers, can_mesh, OfferedKey
<1> QED BY <1>3, <1>4, <1>5, <1>6, <1>7, <1>8, <1>9, <1>10

(* What a step puts in the place of the contents of one channel, socket or *)
(* task is safe if it is good there.                                       *)
LEMMA Put ==
  ASSUME TypeOK, SafeInv, UNCHANGED sent
  PROVE  /\ \A s \in Servers : \A q \in Seq(GoodCommands) :
              commands' = [commands EXCEPT ![s] = q] => CommandsSafe'
         /\ \A s \in Servers : \A q \in Seq(GoodHeld) :
              outgoing' = [outgoing EXCEPT ![s] = q] => OutgoingSafe'
         /\ \A c \in Conns : \A q \in Seq(GoodCommands) :
              pending' = [pending EXCEPT ![c] = q] => PendingSafe'
         /\ \A c \in Conns : \A q \in Seq(GoodWrites(c)) :
              sink' = [sink EXCEPT ![c] = q] => SinksSafe'
         /\ \A c \in Conns : \A q \in Seq(GoodFrames(far[c])) :
              writing' = [writing EXCEPT ![c] = q] => WritingSafe'
         /\ \A e \in Ends : \A q \in Seq(GoodFrames(e)) :
              net' = [net EXCEPT ![e] = q] => NetSafe'
<1>1. \A c \in Conns : far[c] \in Ends
  BY NetAssumption DEF Ends
<1>2. ASSUME NEW s \in Servers, NEW q \in Seq(GoodCommands),
             commands' = [commands EXCEPT ![s] = q]
      PROVE  CommandsSafe'
  <2>1. \A t \in Servers : commands'[t] \in Seq(GoodCommands)
    BY <1>2 DEF TypeOK, SafeInv, CommandsSafe
  <2> QED BY <2>1, SameGood DEF CommandsSafe
<1>3. ASSUME NEW s \in Servers, NEW q \in Seq(GoodHeld),
             outgoing' = [outgoing EXCEPT ![s] = q]
      PROVE  OutgoingSafe'
  <2>1. \A t \in Servers : outgoing'[t] \in Seq(GoodHeld)
    BY <1>3 DEF TypeOK, SafeInv, OutgoingSafe
  <2> QED BY <2>1, SameGood DEF OutgoingSafe
<1>4. ASSUME NEW c \in Conns, NEW q \in Seq(GoodCommands),
             pending' = [pending EXCEPT ![c] = q]
      PROVE  PendingSafe'
  <2>1. \A d \in Conns : pending'[d] \in Seq(GoodCommands)
    BY <1>4 DEF TypeOK, SafeInv, PendingSafe
  <2> QED BY <2>1, SameGood DEF PendingSafe
<1>5. ASSUME NEW c \in Conns, NEW q \in Seq(GoodWrites(c)),
             sink' = [sink EXCEPT ![c] = q]
      PROVE  SinksSafe'
  <2>1. \A d \in Conns : sink'[d] \in Seq(GoodWrites(d))
    BY <1>5 DEF TypeOK, SafeInv, SinksSafe
  <2> QED BY <2>1, SameGood DEF SinksSafe
<1>6. ASSUME NEW c \in Conns, NEW q \in Seq(GoodFrames(far[c])),
             writing' = [writing EXCEPT ![c] = q]
      PROVE  WritingSafe'
  <2>1. \A d \in Conns : writing'[d] \in Seq(GoodFrames(far[d]))
    BY <1>6 DEF TypeOK, SafeInv, WritingSafe
  <2> QED BY <1>1, <2>1, SameGood DEF WritingSafe
<1>7. ASSUME NEW e \in Ends, NEW q \in Seq(GoodFrames(e)),
             net' = [net EXCEPT ![e] = q]
      PROVE  NetSafe'
  <2>1. \A d \in Ends : net'[d] \in Seq(GoodFrames(d))
    BY <1>7 DEF TypeOK, SafeInv, NetSafe
  <2> QED BY <2>1, SameGood DEF NetSafe
<1> QED BY <1>2, <1>3, <1>4, <1>5, <1>6, <1>7

-----------------------------------------------------------------------------
(* Steps of the read loops: a good frame becomes a good command. *)
LEMMA ReadersSafe ==
  ASSUME TypeOK, SafeInv, NEW c \in Conns,
         \/ ReadSendPacket(c) \/ ReadWatchConns(c) \/ ReadPeerPresent(c)
         \/ ReadUnhandled(c) \/ ReadMalformed(c) \/ ReadError(c)
         \/ MeshReadPeerPresent(c) \/ MeshReadForwardPacket(c) \/ MeshReadUnhandled(c)
  PROVE  SafeInv'
<1> USE DEF service_vars, reader_vars, writer_vars, notice_vars, socket_vars, history_vars
<1> DEFINE f == Head(net[c])
<1>1. c \in Ends /\ pk[c] \in Keys
  BY NetAssumption DEF Ends
<1>2. ASSUME NEW types, GetNextMessage(c, types), UNCHANGED sent
      PROVE  f \in GoodFrames(c) /\ f \in Frame /\ f.ty \in types /\ NetSafe'
  <2>1. net[c] \in Seq(GoodFrames(c))
    BY <1>1 DEF SafeInv, NetSafe
  <2>2. f \in GoodFrames(c) /\ Tail(net[c]) \in Seq(GoodFrames(c))
    BY <1>2, <2>1, SeqHeadTail DEF GetNextMessage
  <2>3. f \in Frame
    BY <2>2 DEF GoodFrames
  <2> QED BY ZenonT(20), <1>1, <1>2, <2>2, <2>3, Put DEF GetNextMessage
<1>3. ASSUME UNCHANGED sent, NEW m \in GoodCommands, pending' = [pending EXCEPT ![c] = <<m>>]
      PROVE  PendingSafe'
  BY ZenonT(20), <1>3, SeqSingle, Put
<1> HIDE DEF f
<1>4. CASE ReadSendPacket(c)
  <2>1. f \in GoodFrames(c) /\ f.ty = "SendPacket" /\ NetSafe'
    BY <1>2, <1>4 DEF ReadSendPacket
  <2>2. ClientPacket(c, f) \in GoodCommands
    BY <2>1, GoodFromFrame, GoodPacketFits
  <2>3. PendingSafe'
    BY ZenonT(20), <1>3, <1>4, <2>2 DEF ReadSendPacket, f
  <2> QED BY <1>4, <2>1, <2>3, Kept DEF ReadSendPacket, SafeInv
<1>5. CASE ReadWatchConns(c)
  <2>1. NetSafe'
    BY <1>2, <1>5 DEF ReadWatchConns
  <2>2. WatchCommand(c) \in Seq(GoodCommands)
    <3>1. can_mesh(c) => SubscribeCommand(pk[c], c) \in GoodCommands
      BY <1>1, GoodNotices DEF Meshers
    <3> QED BY <3>1, SeqSingle DEF WatchCommand
  <2>3. PendingSafe'
    BY ZenonT(20), <1>5, <2>2, Put DEF ReadWatchConns
  <2> QED BY <1>5, <2>1, <2>3, Kept DEF ReadWatchConns, SafeInv
<1>6. CASE ReadPeerPresent(c) \/ MeshReadPeerPresent(c)
  <2>1. f \in Frame /\ f.ty = "PeerPresent" /\ NetSafe'
    BY SMTT(40), <1>2, <1>6 DEF ReadPeerPresent, MeshReadPeerPresent
  <2>2. PresentCommand(f.public_key, c) \in GoodCommands
    BY <2>1, FrameFields, GoodNotices
  <2>3. PendingSafe'
    BY <1>3, <1>6, <2>2 DEF ReadPeerPresent, MeshReadPeerPresent, f
  <2> QED BY <1>6, <2>1, <2>3, Kept DEF ReadPeerPresent, MeshReadPeerPresent, SafeInv
<1>7. CASE MeshReadForwardPacket(c)
  <2>1. f \in GoodFrames(c) /\ f.ty = "ForwardPacket" /\ NetSafe'
    BY <1>2, <1>7 DEF MeshReadForwardPacket
  <2>2. ForwardedPacket(f) \in GoodCommands
    BY <2>1, GoodFromFrame, GoodPacketFits
  <2>3. PendingSafe'
    BY ZenonT(20), <1>3, <1>7, <2>2 DEF MeshReadForwardPacket, f
  <2> QED BY <1>7, <2>1, <2>3, Kept DEF MeshReadForwardPacket, SafeInv
<1>8. CASE ReadUnhandled(c) \/ ReadMalformed(c) \/ MeshReadUnhandled(c)
  <2>1. NetSafe'
    BY SMTT(40), <1>2, <1>8 DEF ReadUnhandled, ReadMalformed, MeshReadUnhandled
  <2> QED BY <1>8, <2>1, Kept DEF ReadUnhandled, ReadMalformed, MeshReadUnhandled, SafeInv
<1>9. CASE ReadError(c)
  BY ZenonT(40), <1>9, Kept DEF ReadError, SafeInv
<1> QED BY <1>4, <1>5, <1>6, <1>7, <1>8, <1>9

(* A read loop hands its command over. *)
LEMMA SendCommandSafe ==
  ASSUME TypeOK, SafeInv, NEW c \in Conns, SendCommand(c)
  PROVE  SafeInv'
<1> USE DEF service_vars, reader_vars, writer_vars, notice_vars, socket_vars, history_vars
<1> DEFINE s == owner[c]
           m == Head(pending[c])
<1>1. s \in Servers
  BY NetAssumption
<1>2. pending[c] \in Seq(GoodCommands) /\ commands[s] \in Seq(GoodCommands)
  BY SMTT(40), <1>1 DEF SafeInv, PendingSafe, CommandsSafe
<1>3. pending[c] # <<>> /\ UNCHANGED sent
      /\ commands' \in {commands, [commands EXCEPT ![s] = Append(commands[s], m)]}
  BY DEF SendCommand
<1>4. Append(commands[s], m) \in Seq(GoodCommands)
  BY <1>2, <1>3, SeqHeadTail, SeqAppend
<1>5. CommandsSafe'
  <2>1. CASE UNCHANGED commands
    BY <1>3, <2>1, Kept
  <2>2. CASE commands' = [commands EXCEPT ![s] = Append(commands[s], m)]
    BY ZenonT(20), <1>1, <1>3, <1>4, <2>2, Put
  <2> QED BY <1>3, <2>1, <2>2
<1>6. PendingSafe'
  <2>1. <<>> \in Seq(GoodCommands)
    OBVIOUS
  <2> QED BY ZenonT(20), <1>3, <2>1, Put DEF SendCommand
<1> QED BY Zenon, <1>5, <1>6, Kept DEF SendCommand, SafeInv

(* Steps of the write loops: a good command becomes a good frame. *)
LEMMA WritersSafe ==
  ASSUME TypeOK, SafeInv, NEW c \in Conns,
         \/ RecvWrite(c) \/ RecvUnwritable(c) \/ WriteFrame(c) \/ WriteLost(c)
         \/ WriteFails(c) \/ RecvNone(c) \/ MeshRecvPeerPresent(c) \/ MeshRecvPacket(c)
         \/ MeshRecvNone(c) \/ MeshWriteFails(c)
  PROVE  SafeInv'
<1> USE DEF service_vars, reader_vars, writer_vars, notice_vars, socket_vars, history_vars
<1> DEFINE m == Head(sink[c])
<1>1. <<>> \in Seq(GoodWrites(c)) /\ <<>> \in Seq(GoodFrames(far[c]))
  OBVIOUS
<1>2. ASSUME NEW status, EndWriter(c, status), UNCHANGED sent
      PROVE  SinksSafe' /\ WritingSafe'
  BY ZenonT(20), <1>1, <1>2, Put DEF EndWriter
<1>3. ASSUME sink[c] # <<>>, UNCHANGED sent, sink' = [sink EXCEPT ![c] = Tail(@)]
      PROVE  m \in GoodWrites(c) /\ SinksSafe'
  <2>1. sink[c] \in Seq(GoodWrites(c))
    BY DEF SafeInv, SinksSafe
  <2>2. m \in GoodWrites(c) /\ Tail(sink[c]) \in Seq(GoodWrites(c))
    BY <1>3, <2>1, SeqHeadTail
  <2> QED BY ZenonT(20), <1>3, <2>2, Put
<1>4. ASSUME UNCHANGED sent, NEW f \in GoodFrames(far[c]),
             writing' = [writing EXCEPT ![c] = <<f>>]
      PROVE  WritingSafe'
  BY ZenonT(20), <1>4, SeqSingle, Put
<1>5. CASE RecvWrite(c)
  <2>1. m \in GoodWrites(c) /\ SinksSafe'
    BY ZenonT(40), <1>3, <1>5 DEF RecvWrite
  <2>2. FrameFor(c, m) \in GoodFrames(far[c])
    BY <1>5, <2>1, GoodFromWrite DEF RecvWrite
  <2>3. WritingSafe'
    BY ZenonT(40), <1>4, <1>5, <2>2 DEF RecvWrite
  <2> QED BY <1>5, <2>1, <2>3, Kept DEF RecvWrite, SafeInv
<1>6. CASE MeshRecvPeerPresent(c)
  <2>1. m \in GoodWrites(c) /\ SinksSafe'
    BY ZenonT(40), <1>3, <1>6 DEF MeshRecvPeerPresent
  <2>2. PeerPresent(m.key) \in GoodFrames(far[c])
    BY Zenon, <1>6, <2>1, GoodFromWrite DEF MeshRecvPeerPresent
  <2>3. WritingSafe'
    BY ZenonT(20), <1>4, <1>6, <2>2 DEF MeshRecvPeerPresent
  <2> QED BY ZenonT(40), <1>6, <2>1, <2>3, Kept DEF MeshRecvPeerPresent, SafeInv
<1>7. CASE WriteFrame(c)
  <2>1. far[c] \in Ends
    BY NetAssumption DEF Ends
  <2>2. writing[c] \in Seq(GoodFrames(far[c])) /\ net[far[c]] \in Seq(GoodFrames(far[c]))
    BY <2>1 DEF SafeInv, WritingSafe, NetSafe
  <2>3. Append(net[far[c]], Head(writing[c])) \in Seq(GoodFrames(far[c]))
    BY <1>7, <2>2, SeqHeadTail, SeqAppend DEF WriteFrame
  <2>4. NetSafe' /\ WritingSafe'
    BY ZenonT(20), <1>1, <1>7, <2>1, <2>3, Put DEF WriteFrame
  <2> QED BY <1>7, <2>4, Kept DEF WriteFrame, SafeInv
<1>8. CASE WriteLost(c)
  <2>1. WritingSafe'
    BY ZenonT(20), <1>1, <1>8, Put DEF WriteLost
  <2> QED BY <1>8, <2>1, Kept DEF WriteLost, SafeInv
<1>9. CASE \/ RecvUnwritable(c) \/ WriteFails(c) \/ RecvNone(c)
           \/ MeshRecvPacket(c) \/ MeshRecvNone(c) \/ MeshWriteFails(c)
  <2>1. /\ \E status \in {"ended", "panicked"} : EndWriter(c, status)
        /\ UNCHANGED <<service_vars, reader_vars, notice_vars, socket_vars, history_vars>>
    BY ZenonT(20), <1>9 DEF RecvUnwritable, WriteFails, RecvNone, MeshRecvPacket, MeshRecvNone,
                MeshWriteFails
  <2> QED BY <1>2, <2>1, Kept DEF SafeInv
<1> QED BY <1>5, <1>6, <1>7, <1>8, <1>9

(* Connections that come up, or fail to *)
LEMMA ArrivalsSafe ==
  ASSUME TypeOK, SafeInv, NEW c \in Conns,
         \/ c \in Outbound /\ MeshStart(c)
         \/ MeshStartFails(c) \/ MeshWatch(c) \/ MeshWatchLost(c)
         \/ MeshWatchFails(c) \/ AddNewClient(c) \/ RefuseClient(c)
  PROVE  SafeInv'
<1> USE DEF service_vars, reader_vars, writer_vars, notice_vars, socket_vars, history_vars
<1> DEFINE s == owner[c]
<1>1. s \in Servers /\ pk[c] \in Keys /\ far[c] \in Ends
  BY NetAssumption DEF Ends
<1>2. Meshers' = Meshers /\ Meshers \subseteq Conns
  BY DEF Meshers, can_mesh, OfferedKey
<1>3. CASE c \in Outbound /\ MeshStart(c)
  <2>1. c \in Meshers
    BY SMTT(40), <1>3 DEF Meshers
  <2>2. MeshSafe'
    BY ZenonT(40), <1>1, <1>2, <1>3, <2>1 DEF MeshStart, TypeOK, SafeInv, MeshSafe
  <2> QED BY <1>3, <2>2, Kept DEF MeshStart, SafeInv
<1>4. CASE MeshStartFails(c) \/ MeshWatchFails(c) \/ RefuseClient(c)
  <2>1. EndWriter(c, "ended") /\ UNCHANGED <<service_vars, pending, notice_vars, net, history_vars>>
    BY Zenon, <1>4 DEF MeshStartFails, MeshWatchFails, RefuseClient
  <2>2. <<>> \in Seq(GoodWrites(c)) /\ <<>> \in Seq(GoodFrames(far[c]))
    OBVIOUS
  <2>3. SinksSafe' /\ WritingSafe'
    BY ZenonT(20), <2>1, <2>2, Put DEF EndWriter
  <2> QED BY SMTT(40), <2>1, <2>3, Kept DEF SafeInv
<1>5. CASE MeshWatch(c)
  <2>1. Bare("WatchConns") \in GoodFrames(far[c])
    BY ZenonT(40) DEF Bare, Frame, GoodFrames
  <2>2. Append(net[far[c]], Bare("WatchConns")) \in Seq(GoodFrames(far[c]))
    BY Zenon, <1>1, <2>1, SeqAppend DEF SafeInv, NetSafe
  <2>3. NetSafe'
    BY ZenonT(20), <1>1, <1>5, <2>2, Put DEF MeshWatch
  <2> QED BY SMTT(40), <1>5, <2>3, Kept DEF MeshWatch, SafeInv
<1>6. CASE MeshWatchLost(c)
  BY <1>6, Kept DEF MeshWatchLost, SafeInv
<1>7. CASE AddNewClient(c)
  <2>1. PICK order \in NotifyAllMeshPeers(s) :
          announcing' = [announcing EXCEPT ![c] = order]
    BY ZenonT(20), <1>7 DEF AddNewClient
  <2>2. MeshSinks(s) \subseteq Meshers
    BY SMTT(40), <1>1 DEF MeshSinks, SafeInv, MeshSafe
  <2>3. order \in Seq(Meshers)
    BY <1>1, <2>2, OrderType, SeqMono
  <2>4. AnnouncingSafe'
    BY <1>2, <2>1, <2>3 DEF TypeOK, SafeInv, AnnouncingSafe
  <2> QED BY <1>7, <2>4, Kept DEF AddNewClient, SafeInv
<1> QED BY <1>3, <1>4, <1>5, <1>6, <1>7

(* Steps of the command loop *)
LEMMA LoopSafe ==
  ASSUME TypeOK, SafeInv, NEW s \in Servers,
         \/ StartAccepting(s) \/ LoopSendPacket(s) \/ LoopDeliver(s) \/ LoopDies(s)
         \/ LoopSubscribe(s) \/ LoopPeerPresent(s)
  PROVE  SafeInv'
<1> USE DEF service_vars, reader_vars, writer_vars, notice_vars, socket_vars, history_vars
<1> DEFINE m == Head(commands[s])
<1>1. ASSUME NEW cmd, LoopReceives(s, cmd), UNCHANGED sent
      PROVE  m \in GoodCommands /\ m \in ServiceCommand /\ m.cmd = cmd /\ CommandsSafe'
  <2>1. commands[s] \in Seq(GoodCommands)
    BY DEF SafeInv, CommandsSafe
  <2>2. m \in GoodCommands /\ Tail(commands[s]) \in Seq(GoodCommands)
    BY <1>1, <2>1, SeqHeadTail DEF LoopReceives
  <2>3. m \in ServiceCommand
    BY <2>2 DEF GoodCommands
  <2> QED BY ZenonT(20), <1>1, <2>2, <2>3, Put DEF LoopReceives
<1>2. <<>> \in Seq(GoodHeld) /\ <<>> \in Seq(GoodCommands)
  OBVIOUS
<1>3. Meshers' = Meshers /\ Meshers \subseteq Conns
  BY DEF Meshers, can_mesh, OfferedKey
<1> HIDE DEF m
<1>4. CASE StartAccepting(s)
  BY <1>4, Kept DEF StartAccepting, SafeInv
<1>5. CASE LoopSendPacket(s)
  <2>1. m \in GoodPackets /\ m \in Packet /\ CommandsSafe'
    <3>1. m \in GoodCommands /\ m.cmd = "SendPacket" /\ CommandsSafe'
      BY <1>1, <1>5 DEF LoopSendPacket
    <3> QED BY <3>1 DEF GoodCommands, GoodPackets
  <2>2. Routed(s, m) \in Seq(GoodHeld)
    <3> DEFINE route == peers_sinks[s][m.target]
               held == [sink |-> route, packet |-> m]
    <3>a. peers_sinks \in [Servers -> [Keys -> Conns \cup {None}]]
      BY DEF TypeOK
    <3>b. m.target \in Keys
      BY <2>1, PacketFields
    <3>1. route \in Conns \cup {None}
      BY <3>a, <3>b
    <3>2. route # None => held \in GoodHeld
      BY SMTT(40), <2>1, <3>1 DEF GoodHeld
    <3>3. Routed(s, m) = IF route = None THEN <<>> ELSE <<held>>
      BY DEF Routed
    <3> HIDE DEF route, held
    <3> QED BY <1>2, <3>2, <3>3, SeqSingle
  <2>3. OutgoingSafe'
    BY ZenonT(40), <1>5, <2>2, Put DEF LoopSendPacket, m
  <2> QED BY <1>5, <2>1, <2>3, Kept DEF LoopSendPacket, SafeInv
<1>6. CASE LoopDeliver(s)
  <2> DEFINE h == Head(outgoing[s])
  <2>1. h \in GoodHeld
    BY ZenonT(40), <1>6, SeqHeadTail DEF LoopDeliver, SafeInv, OutgoingSafe
  <2>2. h.sink \in Conns /\ h.packet \in GoodPackets
    BY <2>1 DEF GoodHeld
  <2>3. Append(sink[h.sink], h.packet) \in Seq(GoodWrites(h.sink))
    BY <2>2, GoodPacketFits, SeqAppend DEF SafeInv, SinksSafe
  <2>4. SinksSafe'
    BY ZenonT(20), <1>6, <2>2, <2>3, Put DEF LoopDeliver
  <2>5. OutgoingSafe'
    BY ZenonT(20), <1>2, <1>6, Put DEF LoopDeliver
  <2> QED BY ZenonT(40), <1>6, <2>4, <2>5, Kept DEF LoopDeliver, SafeInv
<1>7. CASE LoopDies(s)
  <2>1. OutgoingSafe' /\ CommandsSafe'
    BY ZenonT(20), <1>2, <1>7, Put DEF LoopDies
  <2> QED BY <1>7, <2>1, Kept DEF LoopDies, SafeInv
<1>8. CASE LoopSubscribe(s)
  <2>1. m \in GoodCommands /\ m \in ServiceCommand /\ m.cmd = "Subscribe" /\ CommandsSafe'
    BY <1>1, <1>8 DEF LoopSubscribe
  <2>2. m.key \in Keys /\ m.sink \in Meshers
    BY <2>1, CommandFields DEF GoodCommands
  <2>3. mesh' = [mesh EXCEPT ![s] = [mesh[s] EXCEPT ![m.key] = m.sink]]
    BY <1>8 DEF LoopSubscribe, m
  <2>4. mesh \in [Servers -> [Keys -> Conns \cup {None}]] /\ flooding \in [Conns -> [Keys -> Nat]]
    BY DEF TypeOK
  <2>5. MeshSafe'
    BY ZenonT(40), <1>3, <2>2, <2>3, <2>4 DEF SafeInv, MeshSafe
  <2>6. \A c \in Conns : c # m.sink => Flooded(c)' = Flooded(c)
    <3>1. PICK K \in SUBSET Keys : flooding' = [flooding EXCEPT ![m.sink] = OnceMore(@, K)]
      BY ZenonT(40), <1>8 DEF LoopSubscribe, CurrentPeers, m
    <3> QED BY ZenonT(40), <1>3, <2>2, <2>4, <3>1, MoreFlooded
  <2>7. FloodingSafe'
    BY <1>3, <2>2, <2>6 DEF SafeInv, FloodingSafe
  <2> QED BY <1>8, <2>1, <2>5, <2>7, Kept DEF LoopSubscribe, SafeInv
<1>9. CASE LoopPeerPresent(s)
  <2>1. CommandsSafe'
    BY <1>1, <1>9 DEF LoopPeerPresent
  <2> QED BY <1>9, <2>1, Kept DEF LoopPeerPresent, SafeInv
<1> QED BY <1>4, <1>5, <1>6, <1>7, <1>8, <1>9

(* Steps of the tasks that send notices *)
LEMMA NoticesSafe ==
  ASSUME TypeOK, SafeInv, NEW c \in Conns, AnnounceNext(c) \/ FloodNext(c)
  PROVE  SafeInv'
<1> USE DEF service_vars, reader_vars, writer_vars, notice_vars, socket_vars, history_vars
<1>1. Meshers' = Meshers /\ Meshers \subseteq Conns
  BY DEF Meshers, can_mesh, OfferedKey
<1>2. ASSUME NEW w \in Meshers, NEW k \in Keys, Notify(w, k), UNCHANGED sent
      PROVE  SinksSafe'
  <2>1. w \in Conns
    BY <1>1
  <2>2. Append(sink[w], PresentWrite(k)) \in Seq(GoodWrites(w))
    BY <1>2, <2>1, GoodNotices, SeqAppend DEF SafeInv, SinksSafe
  <2>3. CASE UNCHANGED sink
    BY <1>2, <2>3, Kept
  <2>4. CASE sink' = [sink EXCEPT ![w] = Append(sink[w], PresentWrite(k))]
    BY ZenonT(20), <1>2, <2>1, <2>2, <2>4, Put
  <2> QED BY <1>2, <2>3, <2>4 DEF Notify
<1>3. CASE AnnounceNext(c)
  <2>1. announcing[c] # <<>> /\ announcing[c] \in Seq(Meshers)
    BY <1>3 DEF AnnounceNext, SafeInv, AnnouncingSafe
  <2>2. Head(announcing[c]) \in Meshers /\ Tail(announcing[c]) \in Seq(Meshers)
    BY <2>1, SeqHeadTail
  <2>3. AnnouncingSafe'
    BY <1>1, <1>3, <2>2 DEF AnnounceNext, TypeOK, SafeInv, AnnouncingSafe
  <2>4. pk[c] \in Keys
    BY SMTT(40), NetAssumption
  <2>5. SinksSafe'
    BY Zenon, <1>2, <1>3, <2>2, <2>4 DEF AnnounceNext
  <2> QED BY ZenonT(40), <1>3, <2>3, <2>5, Kept DEF AnnounceNext, SafeInv
<1>4. CASE FloodNext(c)
  <2>1. PICK k \in Flooded(c) : Notify(c, k) /\ flooding' = [flooding EXCEPT ![c][k] = @ - 1]
    BY ZenonT(20), <1>4 DEF FloodNext
  <2>2. UNCHANGED <<service_vars, reader_vars, writer, writing, announcing, socket_vars,
                    history_vars>>
    BY <1>4 DEF FloodNext
  <2>3. k \in Keys /\ c \in Meshers
        /\ \A d \in Conns : Flooded(d)' \subseteq Flooded(d)
    BY ZenonT(20), <2>1, LessFlooded DEF TypeOK, SafeInv, FloodingSafe
  <2>4. SinksSafe'
    BY <1>2, <2>1, <2>2, <2>3
  <2>5. FloodingSafe'
    BY <1>1, <2>3 DEF SafeInv, FloodingSafe
  <2> QED BY ZenonT(20), <2>2, <2>4, <2>5, Kept DEF SafeInv
<1> QED BY SMTT(40), <1>3, <1>4

-----------------------------------------------------------------------------
(* So what was good stays good when a Remote sends. *)
LEMMA MoreGood ==
  ASSUME TypeOK, NEW r \in Remotes, NEW f \in Frame,
         sent' = [sent EXCEPT ![r] = Append(@, f)]
  PROVE  /\ GoodHeld \subseteq GoodHeld'
         /\ GoodCommands \subseteq GoodCommands'
         /\ \A c \in Conns : GoodWrites(c) \subseteq GoodWrites(c)'
         /\ \A e \in Ends : GoodFrames(e) \subseteq GoodFrames(e)'
<1>1. ASSUME NEW t, NEW p \in Payload, Addressed(t, p) PROVE Addressed(t, p)'
  BY ZenonT(20), <1>1, SentGrows DEF Addressed
<1>2. ASSUME NEW k, NEW t, NEW p \in Payload, Genuine(k, t, p) PROVE Genuine(k, t, p)'
  <2>1. Original(p)' = Original(p)
    BY ZenonT(20), <1>2, SentGrows DEF Genuine, Addressed
  <2>2. TrueSource(p)' = TrueSource(p)
    BY <2>1 DEF TrueSource, KeyOf
  <2> QED BY <1>1, <1>2, <2>2 DEF Genuine
<1>3. GoodPackets \subseteq GoodPackets'
  BY <1>2, PacketFields DEF GoodPackets
<1>4. GoodHeld \subseteq GoodHeld'
  BY <1>3 DEF GoodHeld
<1>5. GoodCommands \subseteq GoodCommands'
  BY <1>3 DEF GoodCommands, Meshers, can_mesh, OfferedKey
<1>6. ASSUME NEW c \in Conns PROVE GoodWrites(c) \subseteq GoodWrites(c)'
  BY ZenonT(40), <1>3 DEF GoodWrites, Meshers, can_mesh, OfferedKey
<1>7. ASSUME NEW e \in Ends, NEW g \in GoodFrames(e) PROVE g \in GoodFrames(e)'
  <2>1. g \in Frame
    BY DEF GoodFrames
  <2>2. g.ty \in {"SendPacket", "RecvPacket", "ForwardPacket"} => g.payload \in Payload
    BY ZenonT(40), <2>1, FrameFields
  <2> QED BY <1>1, <1>2, <2>1, <2>2 DEF GoodFrames, Meshers, can_mesh, OfferedKey
<1> QED BY <1>4, <1>5, <1>6, <1>7

(* The frame that a Remote sends is good: it names itself as the payload's *)
(* origin, and the history records the frame under the payload's number.   *)
LEMMA GoodSent ==
  ASSUME TypeOK, NEW r \in Remotes, NEW f \in FramesOf(r), f \in Frame,
         sent' = [sent EXCEPT ![r] = Append(@, f)]
  PROVE  f \in GoodFrames(far[r])'
<1>0. PICK p \in Payload : p = [from |-> r, n |-> Len(sent[r]) + 1]
  <2>1. Len(sent[r]) + 1 \in Nat
    BY LenProperties DEF TypeOK
  <2> QED BY ZenonT(20), <2>1 DEF Payload
<1>1. far[r] \in Conns /\ far[r] \notin Remotes
  BY NetAssumption
<1>2. p.n \in DOMAIN sent'[p.from] /\ Original(p)' = f
  <2>1. p.from = r /\ p.n = Len(sent[r]) + 1
    BY <1>0
  <2>2. Len(sent[r]) + 1 \in DOMAIN sent'[r] /\ sent'[r][Len(sent[r]) + 1] = f
    BY ZenonT(20), SentGrows
  <2> QED BY <2>1, <2>2 DEF Original
<1>3. f.ty \in {"SendPacket", "ForwardPacket"} => f.payload = p
  BY SMTT(40), <1>0 DEF FramesOf, SendPacket, ForwardPacket, PeerPresent, Bare
<1>4. f.ty # "RecvPacket"
  BY DEF FramesOf, SendPacket, ForwardPacket, PeerPresent, Bare
<1>5. Addressed(f.target, p)'
  BY <1>2 DEF Addressed
<1>6. f.ty = "SendPacket" => TrueSource(p)' = pk[far[r]]
  <2>1. p.from = r
    BY <1>0
  <2> QED BY <1>2, <2>1 DEF TrueSource, KeyOf
<1>7. f.ty = "ForwardPacket" => TrueSource(p)' = f.source
  BY <1>2 DEF TrueSource
<1>8. /\ f.ty = "SendPacket" => Genuine(pk[far[r]], f.target, f.payload)'
      /\ f.ty = "ForwardPacket" => Genuine(f.source, f.target, f.payload)'
  BY <1>3, <1>5, <1>6, <1>7 DEF Genuine
<1> QED BY <1>1, <1>4, <1>8 DEF GoodFrames

(* Steps of the programs outside and of the network *)
LEMMA OutsideSafe ==
  /\ \A r \in Remotes : TypeOK /\ SafeInv /\ (RemoteSend(r) \/ RemoteRecv(r)) => SafeInv'
  /\ \A c \in Conns : TypeOK /\ SafeInv /\ LinkDown(c) => SafeInv'
<1> USE DEF service_vars, reader_vars, writer_vars, notice_vars, socket_vars, history_vars
<1>1. ASSUME NEW r \in Remotes, TypeOK, SafeInv, RemoteSend(r) PROVE SafeInv'
  <2>1. PICK f \in FramesOf(r) : /\ sent' = [sent EXCEPT ![r] = Append(@, f)]
                                 /\ net' = [net EXCEPT ![far[r]] = Append(@, f)]
    BY ZenonT(20), <1>1 DEF RemoteSend
  <2>2. UNCHANGED <<service_vars, reader_vars, writer_vars, notice_vars, link, received>>
    BY <1>1 DEF RemoteSend
  <2>3. f \in Frame
    BY <1>1, SentFrame
  <2>4. /\ GoodHeld \subseteq GoodHeld' /\ GoodCommands \subseteq GoodCommands'
        /\ \A c \in Conns : GoodWrites(c) \subseteq GoodWrites(c)'
        /\ \A e \in Ends : GoodFrames(e) \subseteq GoodFrames(e)'
    BY ZenonT(20), <1>1, <2>1, <2>3, MoreGood
  <2>5. \A c \in Conns : far[c] \in Ends /\ c \in Ends
    BY SMTT(40), NetAssumption DEF Ends
  <2>6. CommandsSafe' /\ OutgoingSafe' /\ PendingSafe'
    BY ZenonT(40), <1>1, <2>2, <2>4, SeqMono DEF SafeInv, CommandsSafe, OutgoingSafe, PendingSafe
  <2>7. SinksSafe' /\ WritingSafe' /\ ReceivedSafe'
    BY ZenonT(40), <1>1, <2>2, <2>4, <2>5, SeqMono
       DEF SafeInv, SinksSafe, WritingSafe, ReceivedSafe, Ends
  <2>8. ASSUME NEW e \in Ends PROVE net'[e] \in Seq(GoodFrames(e)')
    <3>1. net[e] \in Seq(GoodFrames(e)')
      BY <1>1, <2>4, SeqMono DEF SafeInv, NetSafe
    <3>2. f \in GoodFrames(far[r])'
      BY ZenonT(20), <1>1, <2>1, <2>3, GoodSent
    <3>3. e = far[r] => Append(net[e], f) \in Seq(GoodFrames(e)')
      BY ZenonT(40), <3>1, <3>2, SeqAppend
    <3>4. net'[e] = IF e = far[r] THEN Append(net[e], f) ELSE net[e]
      BY <1>1, <2>1 DEF TypeOK
    <3> QED BY <3>1, <3>3, <3>4
  <2>9. NetSafe'
    BY SMTT(40), <2>8 DEF NetSafe
  <2>10. MeshSafe' /\ AnnouncingSafe' /\ FloodingSafe'
    BY ZenonT(20), <1>1, <2>2
       DEF SafeInv, MeshSafe, AnnouncingSafe, FloodingSafe, Flooded, Meshers, can_mesh, OfferedKey
  <2> QED BY <2>6, <2>7, <2>9, <2>10 DEF SafeInv
<1>2. ASSUME NEW r \in Remotes, TypeOK, SafeInv, RemoteRecv(r) PROVE SafeInv'
  <2>1. r \in Ends /\ UNCHANGED sent
    BY <1>2 DEF RemoteRecv, Ends
  <2>2. net[r] \in Seq(GoodFrames(r)) /\ received[r] \in Seq(GoodFrames(r))
    BY <1>2, <2>1 DEF SafeInv, NetSafe, ReceivedSafe
  <2>3. Head(net[r]) \in GoodFrames(r) /\ Tail(net[r]) \in Seq(GoodFrames(r))
    BY <1>2, <2>2, SeqHeadTail DEF RemoteRecv
  <2>4. NetSafe'
    BY ZenonT(20), <1>2, <2>1, <2>3, Put DEF RemoteRecv
  <2>5. Append(received[r], Head(net[r])) \in Seq(GoodFrames(r))
    BY <2>2, <2>3, SeqAppend
  <2>6. \A q \in Remotes : received'[q] \in Seq(GoodFrames(q))
    BY <1>2, <2>5 DEF RemoteRecv, TypeOK, SafeInv, ReceivedSafe
  <2>7. ReceivedSafe'
    BY <2>1, <2>6, SameGood DEF ReceivedSafe, Ends
  <2> QED BY <1>2, <2>4, <2>7, Kept DEF RemoteRecv, SafeInv
<1>3. ASSUME NEW c \in Conns, TypeOK, SafeInv, LinkDown(c) PROVE SafeInv'
  BY <1>3, Kept DEF LinkDown, SafeInv
<1> QED BY <1>1, <1>2, <1>3

-----------------------------------------------------------------------------
(* At the start all channels and sockets are empty. *)
LEMMA InitSafe == Init => SafeInv
<1> SUFFICES ASSUME Init PROVE SafeInv
  OBVIOUS
<1>1. CommandsSafe /\ OutgoingSafe /\ PendingSafe
  BY DEF Init, CommandsSafe, OutgoingSafe, PendingSafe
<1>2. SinksSafe /\ WritingSafe /\ NetSafe /\ ReceivedSafe
  BY DEF Init, SinksSafe, WritingSafe, NetSafe, ReceivedSafe
<1>3. MeshSafe /\ AnnouncingSafe /\ FloodingSafe
  BY DEF Init, MeshSafe, AnnouncingSafe, FloodingSafe, Flooded
<1> QED BY <1>1, <1>2, <1>3 DEF SafeInv

(* Every step keeps the invariant: one case per task of the system. *)
LEMMA NextSafe == TypeOK /\ SafeInv /\ [Next]_vars => SafeInv'
<1> SUFFICES ASSUME TypeOK, SafeInv, [Next]_vars PROVE SafeInv'
  OBVIOUS
<1>1. CASE UNCHANGED vars
  BY <1>1, Kept DEF vars, service_vars, reader_vars, writer_vars, notice_vars, socket_vars,
                    history_vars, SafeInv
<1>2. ASSUME NEW s \in Servers, ServerStep(s) PROVE SafeInv'
  BY <1>2, LoopSafe DEF ServerStep
<1>3. ASSUME NEW c \in Outbound, MeshStart(c) \/ MeshStartFails(c) \/ MeshClientStep(c)
      PROVE  SafeInv'
  <2>1. c \in Conns
    BY NetAssumption
  <2> QED BY <1>3, <2>1, ReadersSafe, SendCommandSafe, WritersSafe, ArrivalsSafe
          DEF MeshClientStep
<1>4. ASSUME NEW c \in Conns \ Outbound, AddNewClient(c) \/ RefuseClient(c) \/ ClientStep(c)
      PROVE  SafeInv'
  BY <1>4, ReadersSafe, SendCommandSafe, WritersSafe, ArrivalsSafe DEF ClientStep
<1> QED BY <1>1, <1>2, <1>3, <1>4, NoticesSafe, OutsideSafe DEF Next

(***************************************************************************)
(* At every moment each packet inside the servers and sockets is addressed *)
(* as its sender addressed it, and each notice about a client is on its    *)
(* way to a member of the mesh.                                            *)
(***************************************************************************)
THEOREM Safety == Spec => []SafeInv
<1>1. Init => SafeInv
  BY InitSafe
<1>2. TypeOK /\ SafeInv /\ [Next]_vars => SafeInv'
  BY NextSafe
<1> QED BY <1>1, <1>2, TypeCorrect, PTL DEF Spec

(***************************************************************************)
(* What a program receives was sent to it, and names the sender and the    *)
(* target that it was sent with, however often read_loop, command_loop and *)
(* write_loop rebuilt the packet on its way through the mesh.              *)
(***************************************************************************)
THEOREM DeliveryIsAuthentic == Spec => []AuthenticDelivery
<1>1. SafeInv => AuthenticDelivery
  <2> SUFFICES ASSUME SafeInv, NEW r \in Remotes, NEW i \in DOMAIN received[r],
                      received[r][i].ty \in Data
               PROVE  LET f == received[r][i] IN
                      /\ f.payload.n \in DOMAIN sent[f.payload.from]
                      /\ f.target = Original(f.payload).target
                      /\ f.ty = "RecvPacket" => f.target = KeyOf(r)
                      /\ f.ty = "ForwardPacket" => f.source = TrueSource(f.payload)
    BY DEF AuthenticDelivery
  <2>1. received[r][i] \in GoodFrames(r)
    BY ZenonT(40), SeqElement DEF SafeInv, ReceivedSafe
  <2> QED BY ZenonT(40), <2>1 DEF GoodFrames, Genuine, Addressed, Data, KeyOf
<1> QED BY <1>1, Safety, PTL

(***************************************************************************)
(* Notices about clients, and packets for others, are written only to      *)
(* connections whose far end presented the mesh key or was configured as a *)
(* mesh peer.  (WatchConns in read_loop, write_loop.)                      *)
(***************************************************************************)
THEOREM MeshIsClosed == Spec => []MeshOnly
<1>1. SafeInv => MeshOnly
  <2> SUFFICES ASSUME SafeInv, NEW r \in Remotes, NEW i \in DOMAIN received[r],
                      received[r][i].ty \in {"ForwardPacket", "PeerPresent"}
               PROVE  far[r] \in Outbound \/ can_mesh(far[r])
    BY DEF MeshOnly
  <2>1. received[r][i] \in GoodFrames(r)
    BY SeqElement DEF SafeInv, ReceivedSafe
  <2> QED BY <2>1 DEF GoodFrames, Meshers
<1> QED BY <1>1, Safety, PTL

-----------------------------------------------------------------------------
(***************************************************************************)
(* Whatever mesh peers announce, a known client keeps its route until a    *)
(* connection with its own key comes up.  (Entry::Occupied in              *)
(* command_loop, peers_sinks.insert in add_new_client.)                    *)
(***************************************************************************)
THEOREM RoutesAreKept == Spec => RouteKept
<1>1. TypeOK /\ [Next]_vars => [RouteStep]_vars
  BY RouteReplaced DEF RouteStep
<1> QED BY <1>1, TypeCorrect, PTL DEF Spec, RouteKept

-----------------------------------------------------------------------------
(* The reasons of routes.  What a server knows and what it was told only   *)
(* grows, so what travels for a good reason keeps it.                      *)

(* What may be somewhere may be there later. *)
LEMMA MoreRouted ==
  ASSUME KnowledgeGrows
  PROVE  /\ \A s \in Servers : RoutedCommands(s) \subseteq RoutedCommands(s)'
         /\ \A s \in Servers : RoutedHeld(s) \subseteq RoutedHeld(s)'
         /\ \A c \in Conns : RoutedWrites(c) \subseteq RoutedWrites(c)'
         /\ \A e \in Ends : RoutedFrames(e) \subseteq RoutedFrames(e)'
<1>0. /\ Conns \subseteq Ends
      /\ \A c \in Conns : owner[c] \in Servers
      /\ \A e \in Ends : far[e] \in Conns => owner[far[e]] \in Servers
  BY SMTT(40), NetAssumption DEF Ends
<1>1. ASSUME NEW c \in Conns, NEW k \in Keys, Reaches(c, k) PROVE Reaches(c, k)'
  BY <1>0, <1>1 DEF Reaches, KnowledgeGrows
<1>2. ASSUME NEW s \in Servers, NEW m \in RoutedCommands(s) PROVE m \in RoutedCommands(s)'
  <2>1. m \in ServiceCommand
    BY DEF RoutedCommands
  <2>2. m.cmd # "SendPacket" => m.key \in Keys /\ m.sink \in Conns
    BY SMTT(40), <2>1, CommandFields
  <2>3. m.cmd = "PeerPresent" => Told(m.sink, m.key)'
    BY <1>0, <2>2 DEF RoutedCommands, KnowledgeGrows
  <2> QED BY <2>1, <2>3 DEF RoutedCommands
<1>3. ASSUME NEW s \in Servers, NEW h \in RoutedHeld(s) PROVE h \in RoutedHeld(s)'
  <2>1. h \in [sink : Conns, packet : Packet] /\ owner[h.sink] = s
        /\ Reaches(h.sink, h.packet.target) /\ Known(s, h.packet.target)
    BY DEF RoutedHeld
  <2>2. h.sink \in Conns /\ h.packet.target \in Keys
    BY <2>1, PacketFields
  <2>3. Reaches(h.sink, h.packet.target)' /\ Known(s, h.packet.target)'
    BY <1>1, <2>1, <2>2 DEF KnowledgeGrows
  <2> QED BY <2>1, <2>3 DEF RoutedHeld
<1>4. ASSUME NEW c \in Conns, NEW m \in RoutedWrites(c) PROVE m \in RoutedWrites(c)'
  <2>1. m \in WriteLoopCommands
    BY DEF RoutedWrites
  <2>2. /\ m.cmd = "SendPacket" => m.target \in Keys
        /\ m.cmd = "PeerPresent" => m.key \in Keys
    BY <2>1, WriteFields, PacketFields
  <2>3. CASE m.cmd = "SendPacket"
    BY ZenonT(40), <1>0, <1>1, <2>1, <2>2, <2>3 DEF RoutedWrites, KnowledgeGrows
  <2>4. CASE m.cmd = "PeerPresent"
    BY SMTT(40), <1>0, <2>1, <2>2, <2>4 DEF RoutedWrites, KnowledgeGrows
  <2> QED BY <2>1, <2>3, <2>4, WriteFields
<1>5. ASSUME NEW e \in Ends, NEW f \in RoutedFrames(e) PROVE f \in RoutedFrames(e)'
  <2>1. f \in Frame
    BY DEF RoutedFrames
  <2>2. /\ f.ty = "PeerPresent" => f.public_key \in Keys
        /\ f.ty \in Data => f.target \in Keys
    BY SMTT(40), <2>1, FrameFields DEF Data
  <2>3. f.ty = "PeerPresent" => Told(e, f.public_key)'
    BY SMTT(40), <2>2 DEF RoutedFrames, KnowledgeGrows
  <2>4. f.ty \in Data /\ far[e] \in Conns => Known(owner[far[e]], f.target)'
    BY <1>0, <2>2 DEF RoutedFrames, KnowledgeGrows
  <2> QED BY <2>1, <2>3, <2>4 DEF RoutedFrames
<1> QED BY <1>2, <1>3, <1>4, <1>5

-----------------------------------------------------------------------------
(* What a step leaves alone stays as it should be. *)
LEMMA Carried ==
  ASSUME TypeOK, TypeOK', RouteInv, KnowledgeGrows
  PROVE  /\ UNCHANGED peers_sinks => RouteBacked'
         /\ UNCHANGED commands => CommandsRouted'
         /\ UNCHANGED outgoing => OutgoingRouted'
         /\ UNCHANGED pending => PendingRouted'
         /\ UNCHANGED sink => SinksRouted'
         /\ UNCHANGED writing => WritingRouted'
         /\ UNCHANGED net => NetRouted'
         /\ UNCHANGED mesh => MeshRouted'
         /\ UNCHANGED announcing => AnnouncingRouted'
         /\ UNCHANGED flooding => FloodingRouted'
         /\ UNCHANGED writer => PanicsExplained'
<1>0. /\ \A c \in Conns : owner[c] \in Servers /\ far[c] \in Ends /\ c \in Ends /\ pk[c] \in Keys
      /\ flooding \in [Conns -> [Keys -> Nat]]
  BY ZenonT(20), NetAssumption DEF Ends, TypeOK
<1>1. UNCHANGED peers_sinks => RouteBacked'
  <2> SUFFICES ASSUME UNCHANGED peers_sinks, NEW s \in Servers, NEW k \in Keys,
                      peers_sinks[s][k] # None
               PROVE  owner[peers_sinks[s][k]] = s /\ Reaches(peers_sinks[s][k], k)'
    BY DEF RouteBacked
  <2>1. peers_sinks[s][k] \in Conns
    BY SMTT(40) DEF TypeOK
  <2>2. owner[peers_sinks[s][k]] = s /\ Reaches(peers_sinks[s][k], k)
    BY DEF RouteInv, RouteBacked
  <2> QED BY <1>0, <2>1, <2>2 DEF Reaches, KnowledgeGrows
<1>2. UNCHANGED commands => CommandsRouted'
  BY MoreRouted, SeqMono DEF RouteInv, CommandsRouted
<1>3. UNCHANGED outgoing => OutgoingRouted'
  BY MoreRouted, SeqMono DEF RouteInv, OutgoingRouted
<1>4. UNCHANGED pending => PendingRouted'
  BY <1>0, MoreRouted, SeqMono DEF RouteInv, PendingRouted
<1>5. UNCHANGED sink => SinksRouted'
  BY MoreRouted, SeqMono DEF RouteInv, SinksRouted
<1>6. UNCHANGED writing => WritingRouted'
  BY <1>0, MoreRouted, SeqMono DEF RouteInv, WritingRouted
<1>7. UNCHANGED net => NetRouted'
  BY MoreRouted, SeqMono DEF RouteInv, NetRouted
<1>8. UNCHANGED mesh => MeshRouted'
  BY DEF RouteInv, MeshRouted
<1>9. UNCHANGED announcing => AnnouncingRouted'
  BY ZenonT(20), <1>0 DEF RouteInv, AnnouncingRouted, KnowledgeGrows
<1>10. UNCHANGED flooding => FloodingRouted'
  BY <1>0 DEF RouteInv, FloodingRouted, Flooded, KnowledgeGrows
<1>11. UNCHANGED writer => PanicsExplained'
  BY Zenon, <1>0 DEF RouteInv, PanicsExplained, KnowledgeGrows, can_mesh, OfferedKey
<1> QED BY <1>1, <1>2, <1>3, <1>4, <1>5, <1>6, <1>7, <1>8, <1>9, <1>10, <1>11

(* What a step puts in the place of the contents of one container is as it *)
(* should be if each element has a reason to be there.                     *)
LEMMA Placed ==
  ASSUME TypeOK, RouteInv, KnowledgeGrows
  PROVE  /\ \A s \in Servers : \A q \in Seq(RoutedCommands(s)) :
              commands' = [commands EXCEPT ![s] = q] => CommandsRouted'
         /\ \A s \in Servers : \A q \in Seq(RoutedHeld(s)) :
              outgoing' = [outgoing EXCEPT ![s] = q] => OutgoingRouted'
         /\ \A c \in Conns : \A q \in Seq(RoutedCommands(owner[c])) :
              pending' = [pending EXCEPT ![c] = q] => PendingRouted'
         /\ \A c \in Conns : \A q \in Seq(RoutedWrites(c)) :
              sink' = [sink EXCEPT ![c] = q] => SinksRouted'
         /\ \A c \in Conns : \A q \in Seq(RoutedFrames(far[c])) :
              writing' = [writing EXCEPT ![c] = q] => WritingRouted'
         /\ \A e \in Ends : \A q \in Seq(RoutedFrames(e)) :
              net' = [net EXCEPT ![e] = q] => NetRouted'
<1>1. \A c \in Conns : far[c] \in Ends /\ owner[c] \in Servers
  BY NetAssumption DEF Ends
<1>2. ASSUME NEW s \in Servers, NEW q \in Seq(RoutedCommands(s)),
             commands' = [commands EXCEPT ![s] = q]
      PROVE  CommandsRouted'
  <2>1. \A t \in Servers : commands'[t] \in Seq(RoutedCommands(t))
    BY <1>2 DEF TypeOK, RouteInv, CommandsRouted
  <2> QED BY <2>1, MoreRouted, SeqMono DEF CommandsRouted
<1>3. ASSUME NEW s \in Servers, NEW q \in Seq(RoutedHeld(s)),
             outgoing' = [outgoing EXCEPT ![s] = q]
      PROVE  OutgoingRouted'
  <2>1. \A t \in Servers : outgoing'[t] \in Seq(RoutedHeld(t))
    BY <1>3 DEF TypeOK, RouteInv, OutgoingRouted
  <2> QED BY <2>1, MoreRouted, SeqMono DEF OutgoingRouted
<1>4. ASSUME NEW c \in Conns, NEW q \in Seq(RoutedCommands(owner[c])),
             pending' = [pending EXCEPT ![c] = q]
      PROVE  PendingRouted'
  <2>1. \A d \in Conns : pending'[d] \in Seq(RoutedCommands(owner[d]))
    BY <1>4 DEF TypeOK, RouteInv, PendingRouted
  <2> QED BY <1>1, <2>1, MoreRouted, SeqMono DEF PendingRouted
<1>5. ASSUME NEW c \in Conns, NEW q \in Seq(RoutedWrites(c)),
             sink' = [sink EXCEPT ![c] = q]
      PROVE  SinksRouted'
  <2>1. \A d \in Conns : sink'[d] \in Seq(RoutedWrites(d))
    BY <1>5 DEF TypeOK, RouteInv, SinksRouted
  <2> QED BY <2>1, MoreRouted, SeqMono DEF SinksRouted
<1>6. ASSUME NEW c \in Conns, NEW q \in Seq(RoutedFrames(far[c])),
             writing' = [writing EXCEPT ![c] = q]
      PROVE  WritingRouted'
  <2>1. \A d \in Conns : writing'[d] \in Seq(RoutedFrames(far[d]))
    BY <1>6 DEF TypeOK, RouteInv, WritingRouted
  <2> QED BY <1>1, <2>1, MoreRouted, SeqMono DEF WritingRouted
<1>7. ASSUME NEW e \in Ends, NEW q \in Seq(RoutedFrames(e)),
             net' = [net EXCEPT ![e] = q]
      PROVE  NetRouted'
  <2>1. \A d \in Ends : net'[d] \in Seq(RoutedFrames(d))
    BY <1>7 DEF TypeOK, RouteInv, NetRouted
  <2> QED BY <2>1, MoreRouted, SeqMono DEF NetRouted
<1> QED BY ZenonT(20), <1>2, <1>3, <1>4, <1>5, <1>6, <1>7

(* A write loop that ends explains nothing away; one that panics needs a   *)
(* reason only if it belongs to a client.                                  *)
LEMMA WriterPut ==
  ASSUME TypeOK, RouteInv, KnowledgeGrows, NEW c \in Conns, NEW status,
         writer' = [writer EXCEPT ![c] = status],
         \/ c \in Outbound \/ status # "panicked"
         \/ ~can_mesh(c) /\ \E k \in Keys \ {pk[c]} : Told(c, k)
  PROVE  PanicsExplained'
<1>1. Conns \subseteq Ends
  BY DEF Ends
<1>2. ASSUME NEW d \in Conns \ Outbound, writer'[d] = "panicked"
      PROVE  ~can_mesh(d) /\ \E k \in Keys \ {pk[d]} : Told(d, k)
  <2>1. CASE d = c
    BY SMTT(40), <1>2, <2>1 DEF TypeOK
  <2>2. CASE d # c
    BY <1>2, <2>2 DEF TypeOK, RouteInv, PanicsExplained
  <2> QED BY SMTT(40), <2>1, <2>2
<1>3. \A d \in Conns : \A k \in Keys : Told(d, k) => Told(d, k)'
  BY <1>1 DEF KnowledgeGrows
<1> QED BY Zenon, <1>2, <1>3 DEF PanicsExplained, can_mesh, OfferedKey

-----------------------------------------------------------------------------
(* Steps of the read loops: the far end announced what its frame names. *)
LEMMA ReadersRouted ==
  ASSUME TypeOK, TypeOK', RouteInv, KnowledgeGrows, NEW c \in Conns,
         \/ ReadSendPacket(c) \/ ReadWatchConns(c) \/ ReadPeerPresent(c)
         \/ ReadUnhandled(c) \/ ReadMalformed(c) \/ ReadError(c)
         \/ MeshReadPeerPresent(c) \/ MeshReadForwardPacket(c) \/ MeshReadUnhandled(c)
  PROVE  RouteInv'
<1> USE DEF service_vars, reader_vars, writer_vars, notice_vars, socket_vars, history_vars
<1> DEFINE f == Head(net[c])
<1>1. c \in Ends /\ pk[c] \in Keys /\ owner[c] \in Servers
  BY NetAssumption DEF Ends
<1>2. ASSUME NEW types, GetNextMessage(c, types)
      PROVE  f \in RoutedFrames(c) /\ f \in Frame /\ f.ty \in types /\ NetRouted'
  <2>1. net[c] \in Seq(RoutedFrames(c))
    BY ZenonT(40), <1>1 DEF RouteInv, NetRouted
  <2>2. f \in RoutedFrames(c) /\ Tail(net[c]) \in Seq(RoutedFrames(c))
    BY SMTT(40), <1>2, <2>1, SeqHeadTail DEF GetNextMessage
  <2>3. f \in Frame
    BY <2>2 DEF RoutedFrames
  <2> QED BY ZenonT(20), <1>1, <1>2, <2>2, <2>3, Placed DEF GetNextMessage
<1>3. ASSUME NEW m \in RoutedCommands(owner[c]), pending' = [pending EXCEPT ![c] = <<m>>]
      PROVE  PendingRouted'
  BY ZenonT(20), <1>3, SeqSingle, Placed
<1>4. ASSUME NEW m \in Packet PROVE m \in RoutedCommands(owner[c])
  BY ZenonT(40), PacketFields DEF RoutedCommands
<1> HIDE DEF f
<1>5. CASE ReadSendPacket(c)
  <2>1. f \in Frame /\ f.ty = "SendPacket" /\ NetRouted'
    BY <1>2, <1>5 DEF ReadSendPacket
  <2>2. ClientPacket(c, f) \in RoutedCommands(owner[c])
    BY Zenon, <1>1, <1>4, <2>1, FrameFields, CommandTypes DEF ClientPacket
  <2>3. PendingRouted'
    BY ZenonT(20), <1>3, <1>5, <2>2 DEF ReadSendPacket, f
  <2> QED BY SMTT(40), <1>5, <2>1, <2>3, Carried DEF ReadSendPacket, RouteInv
<1>6. CASE ReadWatchConns(c)
  <2>1. NetRouted'
    BY <1>2, <1>6 DEF ReadWatchConns
  <2>2. SubscribeCommand(pk[c], c) \in RoutedCommands(owner[c])
    BY Zenon, <1>1 DEF SubscribeCommand, ServiceCommand, RoutedCommands
  <2>3. WatchCommand(c) \in Seq(RoutedCommands(owner[c]))
    BY ZenonT(20), <2>2, SeqSingle DEF WatchCommand
  <2>4. PendingRouted'
    BY ZenonT(40), <1>6, <2>3, Placed DEF ReadWatchConns
  <2> QED BY SMTT(40), <1>6, <2>1, <2>4, Carried DEF ReadWatchConns, RouteInv
<1>7. CASE ReadPeerPresent(c) \/ MeshReadPeerPresent(c)
  <2>1. f \in RoutedFrames(c) /\ f \in Frame /\ f.ty = "PeerPresent" /\ NetRouted'
    <3>1. GetNextMessage(c, {"PeerPresent"})
      BY ZenonT(40), <1>7 DEF ReadPeerPresent, MeshReadPeerPresent
    <3> QED BY SMTT(40), <1>2, <3>1
  <2>2. f.public_key \in Keys /\ Told(c, f.public_key)
    BY Zenon, <2>1, FrameFields DEF RoutedFrames
  <2>3. PresentCommand(f.public_key, c) \in RoutedCommands(owner[c])
    BY ZenonT(20), <2>2 DEF PresentCommand, ServiceCommand, RoutedCommands
  <2>4. PendingRouted'
    BY ZenonT(40), <1>3, <1>7, <2>3 DEF ReadPeerPresent, MeshReadPeerPresent, f
  <2> QED BY Zenon, <1>7, <2>1, <2>4, Carried DEF ReadPeerPresent, MeshReadPeerPresent, RouteInv
<1>8. CASE MeshReadForwardPacket(c)
  <2>1. f \in Frame /\ f.ty = "ForwardPacket" /\ NetRouted'
    BY SMTT(40), <1>2, <1>8 DEF MeshReadForwardPacket
  <2>2. ForwardedPacket(f) \in RoutedCommands(owner[c])
    BY Zenon, <1>4, <2>1, FrameFields, CommandTypes DEF ForwardedPacket
  <2>3. PendingRouted'
    BY ZenonT(20), <1>3, <1>8, <2>2 DEF MeshReadForwardPacket, f
  <2> QED BY SMTT(40), <1>8, <2>1, <2>3, Carried DEF MeshReadForwardPacket, RouteInv
<1>9. CASE ReadUnhandled(c) \/ ReadMalformed(c) \/ MeshReadUnhandled(c)
  <2>1. NetRouted'
    BY <1>2, <1>9 DEF ReadUnhandled, ReadMalformed, MeshReadUnhandled
  <2> QED BY ZenonT(40), <1>9, <2>1, Carried DEF ReadUnhandled, ReadMalformed, MeshReadUnhandled, RouteInv
<1>10. CASE ReadError(c)
  BY ZenonT(20), <1>10, Carried DEF ReadError, RouteInv
<1> QED BY SMTT(40), <1>5, <1>6, <1>7, <1>8, <1>9, <1>10

(* A read loop hands its command over. *)
LEMMA SendCommandRouted ==
  ASSUME TypeOK, TypeOK', RouteInv, KnowledgeGrows, NEW c \in Conns, SendCommand(c)
  PROVE  RouteInv'
<1> USE DEF service_vars, reader_vars, writer_vars, notice_vars, socket_vars, history_vars
<1> DEFINE s == owner[c]
           m == Head(pending[c])
<1>1. s \in Servers
  BY NetAssumption
<1>2. pending[c] \in Seq(RoutedCommands(s)) /\ commands[s] \in Seq(RoutedCommands(s))
  BY SMTT(40), <1>1 DEF RouteInv, PendingRouted, CommandsRouted
<1>3. pending[c] # <<>>
      /\ commands' \in {commands, [commands EXCEPT ![s] = Append(commands[s], m)]}
  BY Zenon DEF SendCommand
<1>4. Append(commands[s], m) \in Seq(RoutedCommands(s))
  BY ZenonT(40), <1>2, <1>3, SeqHeadTail, SeqAppend
<1>5. CommandsRouted'
  <2>1. CASE UNCHANGED commands
    BY <2>1, Carried
  <2>2. CASE commands' = [commands EXCEPT ![s] = Append(commands[s], m)]
    BY ZenonT(20), <1>1, <1>4, <2>2, Placed
  <2> QED BY <1>3, <2>1, <2>2
<1>6. PendingRouted'
  <2>1. <<>> \in Seq(RoutedCommands(s))
    OBVIOUS
  <2> QED BY ZenonT(20), <2>1, Placed DEF SendCommand
<1> QED BY ZenonT(20), <1>5, <1>6, Carried DEF SendCommand, RouteInv

(* A write loop writes of a packet or a notice what its server knows. *)
LEMMA RoutedFromWrite ==
  ASSUME NEW c \in Conns, NEW m \in RoutedWrites(c)
  PROVE  /\ FrameFor(c, m) \in RoutedFrames(far[c])
         /\ m.cmd = "PeerPresent" => PeerPresent(m.key) \in RoutedFrames(far[c])
<1>1. m \in WriteLoopCommands /\ far[far[c]] = c
  BY ZenonT(40), NetAssumption DEF RoutedWrites, Ends
<1>2. FrameFor(c, m) \in Frame
  BY SMTT(40), <1>1, WritableFrame
<1>3. \A k : Known(owner[c], k) => Told(far[c], k)
  BY SMTT(40), <1>1 DEF Told
<1>4. CASE m.cmd = "PeerPresent"
  <2>1. FrameFor(c, m) = PeerPresent(m.key)
    BY <1>4 DEF FrameFor
  <2>2. PeerPresent(m.key).ty = "PeerPresent" /\ PeerPresent(m.key).public_key = m.key
    BY SMTT(40) DEF PeerPresent
  <2>3. Told(far[c], m.key)
    BY <1>3, <1>4 DEF RoutedWrites
  <2> QED BY SMTT(40), <1>2, <2>1, <2>2, <2>3 DEF RoutedFrames, Data
<1>5. CASE m.cmd = "SendPacket"
  <2> DEFINE f == FrameFor(c, m)
  <2>1. f.ty \in Data /\ f.ty # "PeerPresent" /\ f.target = m.target /\ f \in Frame
    BY SMTT(40), <1>2, <1>5 DEF FrameFor, RecvPacket, ForwardPacket, Data
  <2>2. Known(owner[c], m.target)
    BY SMTT(40), <1>5 DEF RoutedWrites
  <2> HIDE DEF f
  <2>3. f \in RoutedFrames(far[c])
    BY ZenonT(20), <1>1, <2>1, <2>2 DEF RoutedFrames
  <2> QED BY SMTT(40), <1>5, <2>3 DEF f
<1> QED BY ZenonT(40), <1>1, <1>4, <1>5, WriteFields

(* Steps of the write loops *)
LEMMA WritersRouted ==
  ASSUME TypeOK, TypeOK', RouteInv, KnowledgeGrows, NEW c \in Conns,
         \/ RecvWrite(c) \/ RecvUnwritable(c) \/ WriteFrame(c) \/ WriteLost(c)
         \/ WriteFails(c) \/ RecvNone(c) \/ MeshRecvPeerPresent(c)
         \/ c \in Outbound /\ (MeshRecvPacket(c) \/ MeshRecvNone(c) \/ MeshWriteFails(c))
  PROVE  RouteInv'
<1> USE DEF service_vars, reader_vars, writer_vars, notice_vars, socket_vars, history_vars
<1> DEFINE m == Head(sink[c])
<1>1. <<>> \in Seq(RoutedWrites(c)) /\ <<>> \in Seq(RoutedFrames(far[c]))
  OBVIOUS
<1>2. ASSUME NEW status, EndWriter(c, status) PROVE SinksRouted' /\ WritingRouted'
  BY ZenonT(20), <1>1, <1>2, Placed DEF EndWriter
<1>3. sink[c] # <<>> => m \in RoutedWrites(c) /\ Tail(sink[c]) \in Seq(RoutedWrites(c))
  BY SeqHeadTail DEF RouteInv, SinksRouted
<1>4. ASSUME sink[c] # <<>>, sink' = [sink EXCEPT ![c] = Tail(@)] PROVE SinksRouted'
  BY ZenonT(20), <1>3, <1>4, Placed
<1>5. ASSUME NEW f \in RoutedFrames(far[c]), writing' = [writing EXCEPT ![c] = <<f>>]
      PROVE  WritingRouted'
  BY ZenonT(20), <1>5, SeqSingle, Placed
<1>6. CASE RecvWrite(c)
  <2>1. SinksRouted'
    BY <1>4, <1>6 DEF RecvWrite
  <2>2. FrameFor(c, m) \in RoutedFrames(far[c])
    BY ZenonT(20), <1>3, <1>6, RoutedFromWrite DEF RecvWrite
  <2>3. WritingRouted'
    BY ZenonT(20), <1>5, <1>6, <2>2 DEF RecvWrite
  <2> QED BY SMTT(40), <1>6, <2>1, <2>3, Carried DEF RecvWrite, RouteInv
<1>7. CASE MeshRecvPeerPresent(c)
  <2>1. SinksRouted'
    BY ZenonT(20), <1>4, <1>7 DEF MeshRecvPeerPresent
  <2>2. PeerPresent(m.key) \in RoutedFrames(far[c])
    BY ZenonT(20), <1>3, <1>7, RoutedFromWrite DEF MeshRecvPeerPresent
  <2>3. WritingRouted'
    BY ZenonT(20), <1>5, <1>7, <2>2 DEF MeshRecvPeerPresent
  <2> QED BY ZenonT(20), <1>7, <2>1, <2>3, Carried DEF MeshRecvPeerPresent, RouteInv
<1>8. CASE WriteFrame(c)
  <2>1. far[c] \in Ends
    BY NetAssumption DEF Ends
  <2>2. writing[c] \in Seq(RoutedFrames(far[c])) /\ net[far[c]] \in Seq(RoutedFrames(far[c]))
    BY ZenonT(20), <2>1 DEF RouteInv, WritingRouted, NetRouted
  <2>3. Append(net[far[c]], Head(writing[c])) \in Seq(RoutedFrames(far[c]))
    BY <1>8, <2>2, SeqHeadTail, SeqAppend DEF WriteFrame
  <2>4. NetRouted' /\ WritingRouted'
    BY ZenonT(20), <1>1, <1>8, <2>1, <2>3, Placed DEF WriteFrame
  <2> QED BY SMTT(40), <1>8, <2>4, Carried DEF WriteFrame, RouteInv
<1>9. CASE WriteLost(c)
  <2>1. WritingRouted'
    BY ZenonT(20), <1>1, <1>9, Placed DEF WriteLost
  <2> QED BY <1>9, <2>1, Carried DEF WriteLost, RouteInv
<1>10. CASE RecvUnwritable(c)
  <2>1. m \in RoutedWrites(c) /\ Unwritable(c, m)
    BY ZenonT(40), <1>3, <1>10 DEF RecvUnwritable
  <2>2. m.target \in Keys \ {pk[c]} /\ Told(c, m.target) /\ ~can_mesh(c)
    BY ZenonT(20), <2>1, WriteFields, PacketFields DEF RoutedWrites, Unwritable, Reaches
  <2>3. PanicsExplained'
    BY ZenonT(20), <1>10, <2>2, WriterPut DEF RecvUnwritable, EndWriter
  <2> QED BY ZenonT(40), <1>2, <1>10, <2>3, Carried DEF RecvUnwritable, RouteInv
<1>11. CASE \/ WriteFails(c) \/ RecvNone(c)
            \/ c \in Outbound /\ (MeshRecvPacket(c) \/ MeshRecvNone(c) \/ MeshWriteFails(c))
  <2>1. PICK status : EndWriter(c, status) /\ (c \in Outbound \/ status # "panicked")
    <3>1. CASE WriteFails(c) \/ RecvNone(c)
      <4>1. EndWriter(c, "ended")
        BY ZenonT(20), <3>1 DEF WriteFails, RecvNone
      <4>2. "ended" # "panicked"
        OBVIOUS
      <4> QED BY ZenonT(20), <4>1, <4>2
    <3>2. CASE c \in Outbound /\ (MeshRecvPacket(c) \/ MeshRecvNone(c) \/ MeshWriteFails(c))
      BY ZenonT(60), <3>2 DEF MeshRecvPacket, MeshRecvNone, MeshWriteFails
    <3> QED BY <1>11, <3>1, <3>2
  <2>2. UNCHANGED <<service_vars, reader_vars, notice_vars, socket_vars, history_vars>>
    BY ZenonT(20), <1>11
       DEF WriteFails, RecvNone, MeshRecvPacket, MeshRecvNone, MeshWriteFails
  <2>3. PanicsExplained'
    BY ZenonT(20), <2>1, WriterPut DEF EndWriter
  <2> QED BY SMTT(40), <1>2, <2>1, <2>2, <2>3, Carried DEF RouteInv
<1> QED BY <1>6, <1>7, <1>8, <1>9, <1>10, <1>11

(* Connections that come up, or fail to *)
LEMMA ArrivalsRouted ==
  ASSUME TypeOK, TypeOK', RouteInv, KnowledgeGrows, NEW c \in Conns,
         \/ MeshStart(c) \/ MeshStartFails(c) \/ MeshWatch(c) \/ MeshWatchLost(c)
         \/ MeshWatchFails(c) \/ AddNewClient(c) \/ RefuseClient(c)
  PROVE  RouteInv'
<1> USE DEF service_vars, reader_vars, writer_vars, notice_vars, socket_vars, history_vars
<1> DEFINE s == owner[c]
<1>1. s \in Servers /\ pk[c] \in Keys /\ far[c] \in Ends /\ c # None
  BY NetAssumption DEF Ends
<1>2. /\ writer' = [writer EXCEPT ![c] = "starting"] => PanicsExplained'
      /\ writer' = [writer EXCEPT ![c] = "running"] => PanicsExplained'
      /\ writer' = [writer EXCEPT ![c] = "ended"] => PanicsExplained'
  BY Zenon, WriterPut
<1>3. CASE MeshStart(c)
  <2>1. mesh' = [mesh EXCEPT ![s][pk[c]] = c]
    BY ZenonT(40), <1>3 DEF MeshStart
  <2>2. MeshRouted'
    <3>1. mesh \in [Servers -> [Keys -> Conns \cup {None}]] /\ MeshRouted
      BY DEF TypeOK, RouteInv
    <3> QED BY ZenonT(40), <1>1, <2>1, <3>1 DEF MeshRouted
  <2> QED BY ZenonT(40), <1>2, <1>3, <2>2, Carried DEF MeshStart, RouteInv
<1>4. CASE MeshStartFails(c) \/ MeshWatchFails(c) \/ RefuseClient(c)
  <2>1. EndWriter(c, "ended") /\ UNCHANGED <<service_vars, pending, notice_vars, net>>
    BY ZenonT(20), <1>4 DEF MeshStartFails, MeshWatchFails, RefuseClient
  <2>2. <<>> \in Seq(RoutedWrites(c)) /\ <<>> \in Seq(RoutedFrames(far[c]))
    OBVIOUS
  <2>3. SinksRouted' /\ WritingRouted'
    BY ZenonT(20), <2>1, <2>2, Placed DEF EndWriter
  <2>4. PanicsExplained'
    BY ZenonT(40), <1>2, <2>1 DEF EndWriter
  <2> QED BY <2>1, <2>3, <2>4, Carried DEF RouteInv
<1>5. CASE MeshWatch(c)
  <2>1. Bare("WatchConns") \in RoutedFrames(far[c])
    BY ZenonT(20) DEF Bare, Frame, RoutedFrames, Data
  <2>2. Append(net[far[c]], Bare("WatchConns")) \in Seq(RoutedFrames(far[c]))
    BY Zenon, <1>1, <2>1, SeqAppend DEF RouteInv, NetRouted
  <2>3. NetRouted'
    BY ZenonT(20), <1>1, <1>5, <2>2, Placed DEF MeshWatch
  <2> QED BY <1>2, <1>5, <2>3, Carried DEF MeshWatch, RouteInv
<1>6. CASE MeshWatchLost(c)
  BY ZenonT(40), <1>2, <1>6, Carried DEF MeshWatchLost, RouteInv
<1>7. CASE AddNewClient(c)
  <2>0. peers_sinks \in [Servers -> [Keys -> Conns \cup {None}]]
    BY DEF TypeOK
  <2>1. PICK order \in NotifyAllMeshPeers(s) :
          announcing' = [announcing EXCEPT ![c] = order]
    BY ZenonT(20), <1>7 DEF AddNewClient
  <2>2. MeshSinks(s) \subseteq {w \in Conns : owner[w] = s}
    <3>1. mesh \in [Servers -> [Keys -> Conns \cup {None}]] /\ MeshRouted
      BY DEF TypeOK, RouteInv
    <3> QED BY SMTT(40), <1>1, <3>1 DEF MeshSinks, MeshRouted
  <2>3. order \in Seq({w \in Conns : owner[w] = s})
    BY ZenonT(40), <1>1, <2>2, OrderType, SeqMono
  <2>4. peers_sinks' = [peers_sinks EXCEPT ![s][pk[c]] = c]
    BY <1>7 DEF AddNewClient
  <2>5. Known(s, pk[c])'
    BY ZenonT(20), <1>1, <2>4 DEF Known, TypeOK
  <2>6. \A d \in Conns : owner[d] \in Servers /\ pk[d] \in Keys /\ d \in Ends
    BY NetAssumption DEF Ends
  <2>7. AnnouncingRouted'
    <3> SUFFICES ASSUME NEW d \in Conns, announcing'[d] # <<>>
                 PROVE  /\ announcing'[d] \in Seq({w \in Conns : owner[w] = owner[d]})
                        /\ Known(owner[d], pk[d])'
      BY ZenonT(20) DEF AnnouncingRouted
    <3>1. CASE d = c
      BY ZenonT(20), <2>1, <2>3, <2>5, <3>1 DEF TypeOK
    <3>2. CASE d # c
      <4>1. announcing'[d] = announcing[d]
        BY ZenonT(40), <2>1, <3>2 DEF TypeOK
      <4> QED BY ZenonT(20), <2>6, <4>1 DEF RouteInv, AnnouncingRouted, KnowledgeGrows
    <3> QED BY ZenonT(20), <3>1, <3>2
  <2>8. RouteBacked'
    <3> SUFFICES ASSUME NEW t \in Servers, NEW k \in Keys,
                        NEW d, d = peers_sinks'[t][k], d # None
                 PROVE  owner[d] = t /\ Reaches(d, k)'
      BY ZenonT(40) DEF RouteBacked
    <3>1. CASE t = s /\ k = pk[c]
      <4>1. d = c
        BY ZenonT(20), <1>1, <2>4, <3>1 DEF TypeOK
      <4> QED BY Zenon, <3>1, <4>1 DEF Reaches
    <3>2. CASE ~(t = s /\ k = pk[c])
      <4>1. d = peers_sinks[t][k] /\ d \in Conns
        BY ZenonT(20), <1>1, <2>0, <2>4, <3>2
      <4>2. owner[d] = t /\ Reaches(d, k)
        <5>1. RouteBacked
          BY DEF RouteInv
        <5> QED BY ZenonT(20), <4>1, <5>1 DEF RouteBacked
      <4> QED BY ZenonT(20), <2>6, <4>1, <4>2 DEF Reaches, KnowledgeGrows
    <3> QED BY Zenon, <3>1, <3>2
  <2> QED BY SMTT(40), <1>2, <1>7, <2>7, <2>8, Carried DEF AddNewClient, RouteInv
<1> QED BY SMTT(40), <1>3, <1>4, <1>5, <1>6, <1>7

(* Steps of the command loop *)
LEMMA LoopRouted ==
  ASSUME TypeOK, TypeOK', RouteInv, KnowledgeGrows, NEW s \in Servers,
         \/ StartAccepting(s) \/ LoopSendPacket(s) \/ LoopDeliver(s) \/ LoopDies(s)
         \/ LoopSubscribe(s) \/ LoopPeerPresent(s)
  PROVE  RouteInv'
<1> USE DEF service_vars, reader_vars, writer_vars, notice_vars, socket_vars, history_vars
<1> DEFINE m == Head(commands[s])
<1>1. ASSUME NEW cmd, LoopReceives(s, cmd)
      PROVE  m \in RoutedCommands(s) /\ m \in ServiceCommand /\ m.cmd = cmd /\ CommandsRouted'
  <2>1. commands[s] \in Seq(RoutedCommands(s))
    BY SMTT(40) DEF RouteInv, CommandsRouted
  <2>2. m \in RoutedCommands(s) /\ Tail(commands[s]) \in Seq(RoutedCommands(s))
    BY <1>1, <2>1, SeqHeadTail DEF LoopReceives
  <2>3. m \in ServiceCommand
    BY Zenon, <2>2 DEF RoutedCommands
  <2> QED BY ZenonT(20), <1>1, <2>2, <2>3, Placed DEF LoopReceives
<1>2. <<>> \in Seq(RoutedHeld(s)) /\ <<>> \in Seq(RoutedCommands(s))
  BY SMTT(40)
<1>3. /\ peers_sinks \in [Servers -> [Keys -> Conns \cup {None}]] /\ RouteBacked
      /\ mesh \in [Servers -> [Keys -> Conns \cup {None}]] /\ MeshRouted
      /\ flooding \in [Conns -> [Keys -> Nat]] /\ FloodingRouted
  BY SMTT(40) DEF TypeOK, RouteInv
<1>4. \A c \in Conns : owner[c] \in Servers /\ pk[c] \in Keys /\ c \in Ends /\ c # None
  BY SMTT(40), NetAssumption DEF Ends
<1> HIDE DEF m
<1>5. CASE StartAccepting(s)
  BY SMTT(40), <1>5, Carried DEF StartAccepting, RouteInv
<1>6. CASE LoopSendPacket(s)
  <2>1. m \in Packet /\ m.target \in Keys /\ CommandsRouted'
    BY ZenonT(20), <1>1, <1>6, CommandFields, PacketFields DEF LoopSendPacket
  <2>2. Routed(s, m) \in Seq(RoutedHeld(s))
    <3> DEFINE route == peers_sinks[s][m.target]
               held == [sink |-> route, packet |-> m]
    <3>1. route # None => /\ route \in Conns /\ owner[route] = s
                          /\ Reaches(route, m.target) /\ Known(s, m.target)
      BY <1>3, <2>1 DEF RouteBacked, Known
    <3>2. route # None => held \in RoutedHeld(s)
      BY ZenonT(20), <2>1, <3>1 DEF RoutedHeld
    <3>3. Routed(s, m) = IF route = None THEN <<>> ELSE <<held>>
      BY ZenonT(20) DEF Routed
    <3> HIDE DEF route, held
    <3> QED BY SMTT(40), <1>2, <3>2, <3>3, SeqSingle
  <2>3. OutgoingRouted'
    BY ZenonT(40), <1>6, <2>2, Placed DEF LoopSendPacket, m
  <2> QED BY <1>6, <2>1, <2>3, Carried DEF LoopSendPacket, RouteInv
<1>7. CASE LoopDeliver(s)
  <2> DEFINE h == Head(outgoing[s])
  <2>1. h \in RoutedHeld(s)
    BY ZenonT(20), <1>7, SeqHeadTail DEF LoopDeliver, RouteInv, OutgoingRouted
  <2>2. /\ h.sink \in Conns /\ h.packet \in Packet /\ owner[h.sink] = s
        /\ Reaches(h.sink, h.packet.target) /\ Known(s, h.packet.target)
    BY ZenonT(20), <2>1 DEF RoutedHeld
  <2>3. h.packet \in RoutedWrites(h.sink)
    BY ZenonT(40), <2>2, PacketFields DEF RoutedWrites
  <2>4. Append(sink[h.sink], h.packet) \in Seq(RoutedWrites(h.sink))
    BY ZenonT(40), <2>2, <2>3, SeqAppend DEF RouteInv, SinksRouted
  <2>5. SinksRouted'
    BY ZenonT(20), <1>7, <2>2, <2>4, Placed DEF LoopDeliver
  <2>6. OutgoingRouted'
    BY ZenonT(20), <1>2, <1>7, Placed DEF LoopDeliver
  <2> QED BY ZenonT(40), <1>7, <2>5, <2>6, Carried DEF LoopDeliver, RouteInv
<1>8. CASE LoopDies(s)
  <2>1. OutgoingRouted' /\ CommandsRouted'
    BY ZenonT(20), <1>2, <1>8, Placed DEF LoopDies
  <2> QED BY ZenonT(20), <1>8, <2>1, Carried DEF LoopDies, RouteInv
<1>9. CASE LoopSubscribe(s)
  <2>1. m \in RoutedCommands(s) /\ m \in ServiceCommand /\ m.cmd = "Subscribe"
        /\ CommandsRouted'
    BY SMTT(40), <1>1, <1>9 DEF LoopSubscribe
  <2>2. m.key \in Keys /\ m.sink \in Conns /\ owner[m.sink] = s /\ m.key = pk[m.sink]
    BY SMTT(40), <2>1, CommandFields DEF RoutedCommands
  <2> DEFINE members == [mesh[s] EXCEPT ![m.key] = m.sink]
  <2>3. mesh' = [mesh EXCEPT ![s] = members]
        /\ flooding' = [flooding EXCEPT ![m.sink] = OnceMore(@, CurrentPeers(s, members))]
        /\ UNCHANGED peers_sinks
    BY <1>9 DEF LoopSubscribe, m
  <2>4. MeshRouted'
    BY ZenonT(40), <1>3, <2>2, <2>3 DEF MeshRouted
  <2>5. /\ \A k \in CurrentPeers(s, members) : Known(s, k)
        /\ CurrentPeers(s, members) \in SUBSET Keys
    BY ZenonT(20) DEF CurrentPeers, Known
  <2> HIDE DEF members
  <2>6. \A c \in Conns : \A k \in Flooded(c)' : Known(owner[c], k)
    <3>1. PICK d \in Conns : d = m.sink
      BY <2>2
    <3>2. PICK K \in SUBSET Keys : /\ K = CurrentPeers(s, members)
                                   /\ flooding' = [flooding EXCEPT ![d] = OnceMore(@, K)]
      BY <2>3, <2>5, <3>1
    <3>3. /\ Flooded(d)' = Flooded(d) \cup K
          /\ \A c \in Conns : c # d => Flooded(c)' = Flooded(c)
      BY ZenonT(20), <1>3, <3>2, MoreFlooded
    <3>4. \A k \in Flooded(d)' : Known(owner[d], k)
      BY ZenonT(20), <1>3, <2>2, <2>5, <3>1, <3>2, <3>3 DEF FloodingRouted
    <3> QED BY <1>3, <3>3, <3>4 DEF FloodingRouted
  <2>7. FloodingRouted'
    BY ZenonT(40), <2>3, <2>6 DEF FloodingRouted, Known
  <2> QED BY ZenonT(40), <1>9, <2>1, <2>4, <2>7, Carried DEF LoopSubscribe, RouteInv
<1>10. CASE LoopPeerPresent(s)
  <2>1. m \in RoutedCommands(s) /\ m \in ServiceCommand /\ m.cmd = "PeerPresent"
        /\ CommandsRouted'
    BY <1>1, <1>10 DEF LoopPeerPresent
  <2>2. m.key \in Keys /\ m.sink \in Conns /\ owner[m.sink] = s /\ Told(m.sink, m.key)
    BY ZenonT(20), <2>1, CommandFields DEF RoutedCommands
  <2>3. peers_sinks' = [peers_sinks EXCEPT ![s][m.key] =
                          FirstRoute(peers_sinks[s][m.key], m.sink)]
    BY SMTT(40), <1>10 DEF LoopPeerPresent, m
  <2>4. RouteBacked'
    <3> SUFFICES ASSUME NEW t \in Servers, NEW k \in Keys,
                        NEW d, d = peers_sinks'[t][k], d # None
                 PROVE  owner[d] = t /\ Reaches(d, k)'
      BY ZenonT(40) DEF RouteBacked
    <3>1. d = peers_sinks[t][k] \/ (t = s /\ k = m.key /\ d = m.sink)
      BY ZenonT(40), <1>3, <2>2, <2>3 DEF FirstRoute
    <3>2. d \in Conns /\ owner[d] = t /\ Reaches(d, k)
      <4>1. CASE d = peers_sinks[t][k]
        <5>1. d \in Conns
          BY SMT, <1>3, <4>1
        <5>2. RouteBacked
          BY Zenon, <1>3
        <5> QED BY Zenon, <4>1, <5>1, <5>2 DEF RouteBacked
      <4>2. CASE t = s /\ k = m.key /\ d = m.sink
        BY <2>2, <4>2, ZenonT(40) DEF Reaches
      <4> QED BY <3>1, <4>1, <4>2, Zenon
    <3> QED BY ZenonT(40), <1>4, <3>2 DEF Reaches, KnowledgeGrows
  <2> QED BY SMTT(40), <1>10, <2>1, <2>4, Carried DEF LoopPeerPresent, RouteInv
<1> QED BY <1>5, <1>6, <1>7, <1>8, <1>9, <1>10

(* Steps of the tasks that send notices *)
LEMMA NoticesRouted ==
  ASSUME TypeOK, TypeOK', RouteInv, KnowledgeGrows, NEW c \in Conns,
         AnnounceNext(c) \/ FloodNext(c)
  PROVE  RouteInv'
<1> USE DEF service_vars, reader_vars, writer_vars, notice_vars, socket_vars, history_vars
<1>1. ASSUME NEW w \in Conns, NEW k \in Keys, Known(owner[w], k), Notify(w, k)
      PROVE  SinksRouted'
  <2>1. PresentWrite(k) \in RoutedWrites(w)
    BY Zenon, <1>1 DEF PresentWrite, WriteLoopCommands, RoutedWrites
  <2>2. Append(sink[w], PresentWrite(k)) \in Seq(RoutedWrites(w))
    BY SMTT(40), <2>1, SeqAppend DEF RouteInv, SinksRouted
  <2>3. CASE UNCHANGED sink
    BY <2>3, Carried
  <2>4. CASE sink' = [sink EXCEPT ![w] = Append(sink[w], PresentWrite(k))]
    BY ZenonT(20), <2>2, <2>4, Placed
  <2> QED BY ZenonT(40), <1>1, <2>3, <2>4 DEF Notify
<1>2. \A d \in Conns : owner[d] \in Servers /\ pk[d] \in Keys
  BY NetAssumption
<1>3. CASE AnnounceNext(c)
  <2> DEFINE Here == {w \in Conns : owner[w] = owner[c]}
  <2>1. announcing[c] # <<>> /\ announcing[c] \in Seq(Here) /\ Known(owner[c], pk[c])
    BY ZenonT(20), <1>3 DEF AnnounceNext, RouteInv, AnnouncingRouted
  <2>2. Head(announcing[c]) \in Here /\ Tail(announcing[c]) \in Seq(Here)
    <3> HIDE DEF Here
    <3> QED BY ZenonT(40), <2>1, SeqHeadTail
  <2>3. announcing' = [announcing EXCEPT ![c] = Tail(@)]
        /\ announcing \in [Conns -> Seq(Conns)] /\ AnnouncingRouted
    BY Zenon, <1>3 DEF AnnounceNext, TypeOK, RouteInv
  <2>4. AnnouncingRouted'
    <3> SUFFICES ASSUME NEW d \in Conns, announcing'[d] # <<>>
                 PROVE  /\ announcing'[d] \in Seq({w \in Conns : owner[w] = owner[d]})
                        /\ Known(owner[d], pk[d])'
      BY ZenonT(20) DEF AnnouncingRouted
    <3>1. CASE d = c
      BY ZenonT(40), <1>2, <2>1, <2>2, <2>3, <3>1 DEF KnowledgeGrows
    <3>2. CASE d # c
      <4>1. announcing'[d] = announcing[d]
        BY ZenonT(40), <2>3, <3>2
      <4> QED BY Zenon, <1>2, <2>3, <4>1 DEF AnnouncingRouted, KnowledgeGrows
    <3> QED BY ZenonT(20), <3>1, <3>2
  <2>5. SinksRouted'
    BY ZenonT(40), <1>1, <1>2, <1>3, <2>1, <2>2 DEF AnnounceNext
  <2> QED BY ZenonT(20), <1>3, <2>4, <2>5, Carried DEF AnnounceNext, RouteInv
<1>4. CASE FloodNext(c)
  <2>1. PICK k \in Flooded(c) : Notify(c, k) /\ flooding' = [flooding EXCEPT ![c][k] = @ - 1]
    BY ZenonT(20), <1>4 DEF FloodNext
  <2>2. UNCHANGED <<service_vars, reader_vars, writer, writing, announcing, socket_vars,
                    history_vars>>
    BY ZenonT(40), <1>4 DEF FloodNext
  <2>3. flooding \in [Conns -> [Keys -> Nat]] /\ FloodingRouted
    BY DEF TypeOK, RouteInv
  <2>4. k \in Keys /\ Known(owner[c], k)
    BY <2>1, <2>3 DEF FloodingRouted, Flooded
  <2>5. SinksRouted'
    BY <1>1, <2>1, <2>4
  <2>6. \A d \in Conns : Flooded(d)' \subseteq Flooded(d) /\ Flooded(d) \subseteq Keys
    <3>1. \A d \in Conns : Flooded(d) \subseteq Keys
      BY DEF Flooded
    <3> QED BY ZenonT(40), <2>1, <2>3, <3>1, LessFlooded
  <2>7. FloodingRouted'
    BY ZenonT(40), <1>2, <2>3, <2>6 DEF FloodingRouted, KnowledgeGrows
  <2> QED BY ZenonT(20), <2>2, <2>5, <2>7, Carried DEF RouteInv
<1> QED BY <1>3, <1>4

-----------------------------------------------------------------------------
(* The frame that a Remote sends: if it announces a key, that is on record. *)
LEMMA RoutedSent ==
  ASSUME TypeOK, NEW r \in Remotes, NEW f \in FramesOf(r), f \in Frame,
         sent' = [sent EXCEPT ![r] = Append(@, f)]
  PROVE  f \in RoutedFrames(far[r])'
<1>1. far[far[r]] = r /\ r \notin Conns
  BY SMTT(40), NetAssumption DEF Ends
<1>2. f.ty = "PeerPresent" => f = PeerPresent(f.public_key)
  BY DEF FramesOf, SendPacket, ForwardPacket, PeerPresent, Bare
<1>3. Len(sent[r]) + 1 \in DOMAIN sent'[r] /\ sent'[r][Len(sent[r]) + 1] = f
  BY ZenonT(20), SentGrows
<1>4. f.ty = "PeerPresent" => Told(far[r], f.public_key)'
  BY <1>1, <1>2, <1>3 DEF Told, PeerPresent
<1> QED BY SMTT(40), <1>1, <1>4 DEF RoutedFrames

(* Steps of the programs outside and of the network *)
LEMMA OutsideRouted ==
  ASSUME TypeOK, TypeOK', RouteInv, KnowledgeGrows
  PROVE  /\ \A r \in Remotes : RemoteSend(r) \/ RemoteRecv(r) => RouteInv'
         /\ \A c \in Conns : LinkDown(c) => RouteInv'
<1> USE DEF service_vars, reader_vars, writer_vars, notice_vars, socket_vars, history_vars
<1>1. ASSUME NEW r \in Remotes, RemoteSend(r) PROVE RouteInv'
  <2>1. PICK f \in FramesOf(r) : /\ sent' = [sent EXCEPT ![r] = Append(@, f)]
                                 /\ net' = [net EXCEPT ![far[r]] = Append(@, f)]
    BY ZenonT(20), <1>1 DEF RemoteSend
  <2>2. UNCHANGED <<service_vars, reader_vars, writer_vars, notice_vars, link, received>>
    BY Zenon, <1>1 DEF RemoteSend
  <2>3. f \in Frame
    BY SMTT(40), SentFrame
  <2>4. ASSUME NEW e \in Ends PROVE net'[e] \in Seq(RoutedFrames(e)')
    <3>1. net[e] \in Seq(RoutedFrames(e)')
      BY MoreRouted, SeqMono DEF RouteInv, NetRouted
    <3>2. f \in RoutedFrames(far[r])'
      BY ZenonT(20), <2>1, <2>3, RoutedSent
    <3>3. e = far[r] => Append(net[e], f) \in Seq(RoutedFrames(e)')
      BY ZenonT(40), <3>1, <3>2, SeqAppend
    <3>4. net'[e] = IF e = far[r] THEN Append(net[e], f) ELSE net[e]
      BY <2>1 DEF TypeOK
    <3> QED BY SMTT(40), <3>1, <3>3, <3>4
  <2>5. NetRouted'
    BY SMTT(40), <2>4 DEF NetRouted
  <2> QED BY <2>2, <2>5, Carried DEF RouteInv
<1>2. ASSUME NEW r \in Remotes, RemoteRecv(r) PROVE RouteInv'
  <2>1. r \in Ends
    BY DEF Ends
  <2>2. Tail(net[r]) \in Seq(RoutedFrames(r))
    BY <1>2, <2>1, SeqHeadTail DEF RemoteRecv, RouteInv, NetRouted
  <2>3. NetRouted'
    BY ZenonT(20), <1>2, <2>1, <2>2, Placed DEF RemoteRecv
  <2> QED BY <1>2, <2>3, Carried DEF RemoteRecv, RouteInv
<1>3. ASSUME NEW c \in Conns, LinkDown(c) PROVE RouteInv'
  BY <1>3, Carried DEF LinkDown, RouteInv
<1> QED BY SMTT(40), <1>1, <1>2, <1>3

-----------------------------------------------------------------------------
(* At the start there are neither routes nor messages. *)
LEMMA InitRouted == Init => RouteInv
<1> SUFFICES ASSUME Init PROVE RouteInv
  OBVIOUS
<1>1. RouteBacked /\ MeshRouted
  BY ZenonT(20) DEF Init, RouteBacked, MeshRouted
<1>2. CommandsRouted /\ OutgoingRouted /\ PendingRouted
  BY SMTT(40), NetAssumption DEF Init, CommandsRouted, OutgoingRouted, PendingRouted
<1>3. SinksRouted /\ WritingRouted /\ NetRouted
  BY DEF Init, SinksRouted, WritingRouted, NetRouted
<1>4. \A c \in Conns : Flooded(c) = {}
  BY DEF Init, Flooded
<1>5. AnnouncingRouted /\ FloodingRouted /\ PanicsExplained
  BY ZenonT(20), <1>4 DEF Init, AnnouncingRouted, FloodingRouted, PanicsExplained
<1> QED BY <1>1, <1>2, <1>3, <1>5 DEF RouteInv

(* Every step keeps the invariant: one case per task of the system. *)
LEMMA NextRouted == TypeOK /\ RouteInv /\ [Next]_vars => RouteInv'
<1> SUFFICES ASSUME TypeOK, RouteInv, [Next]_vars PROVE RouteInv'
  OBVIOUS
<1>0. TypeOK' /\ KnowledgeGrows
  BY SMTT(40), NextTypeOK, NextGrows
<1>1. CASE UNCHANGED vars
  BY <1>0, <1>1, Carried DEF vars, service_vars, reader_vars, writer_vars, notice_vars,
                             socket_vars, history_vars, RouteInv
<1>2. ASSUME NEW s \in Servers, ServerStep(s) PROVE RouteInv'
  BY ZenonT(40), <1>0, <1>2, LoopRouted DEF ServerStep
<1>3. ASSUME NEW c \in Outbound, MeshStart(c) \/ MeshStartFails(c) \/ MeshClientStep(c)
      PROVE  RouteInv'
  <2>1. c \in Conns
    BY NetAssumption
  <2> QED BY ZenonT(40), <1>0, <1>3, <2>1, ReadersRouted, SendCommandRouted, WritersRouted, ArrivalsRouted
          DEF MeshClientStep
<1>4. ASSUME NEW c \in Conns \ Outbound, AddNewClient(c) \/ RefuseClient(c) \/ ClientStep(c)
      PROVE  RouteInv'
  BY SMTT(40), <1>0, <1>4, ReadersRouted, SendCommandRouted, WritersRouted, ArrivalsRouted DEF ClientStep
<1> QED BY ZenonT(40), <1>0, <1>1, <1>2, <1>3, <1>4, NoticesRouted, OutsideRouted DEF Next

(***************************************************************************)
(* At every moment each route, announcement and packet has its reason in   *)
(* what the far end of the connection in question is or announced.         *)
(***************************************************************************)
THEOREM RoutesHaveReasons == Spec => []RouteInv
<1>1. Init => RouteInv
  BY InitRouted
<1>2. TypeOK /\ RouteInv /\ [Next]_vars => RouteInv'
  BY NextRouted
<1> QED BY <1>1, <1>2, TypeCorrect, PTL DEF Spec

(***************************************************************************)
(* A server routes a key to a connection of its own, because it is that of *)
(* the key or because its far end announced the key; a dersp server there  *)
(* has a route itself.  (add_new_client, PeerPresent in command_loop.)     *)
(***************************************************************************)
THEOREM RoutesAreBacked == Spec => []RouteBacked
<1>1. RouteInv => RouteBacked
  BY ZenonT(40) DEF RouteInv
<1> QED BY <1>1, RoutesHaveReasons, PTL

(***************************************************************************)
(* No other client, and no other server, brings down the write loop of a   *)
(* client: that takes an announcement of a foreign key by the client       *)
(* itself.  (todo!() in write_loop.)                                       *)
(***************************************************************************)
THEOREM PanicsAreSelfInflicted == Spec => []PanicSelfInflicted
<1>1. RouteInv => PanicSelfInflicted
  <2> SUFFICES ASSUME RouteInv, NEW c \in Conns \ Outbound, far[c] \in Remotes,
                      writer[c] = "panicked"
               PROVE  /\ ~can_mesh(c)
                      /\ \E i \in DOMAIN sent[far[c]] : /\ sent[far[c]][i].ty = "PeerPresent"
                                                        /\ sent[far[c]][i].public_key # pk[c]
    BY ZenonT(40) DEF PanicSelfInflicted
  <2>1. far[c] \notin Conns
    BY SMTT(40), NetAssumption
  <2>2. ~can_mesh(c) /\ \E k \in Keys \ {pk[c]} : Told(c, k)
    BY DEF RouteInv, PanicsExplained
  <2>3. PICK k \in Keys \ {pk[c]} : Told(c, k)
    BY ZenonT(40), <2>2
  <2>4. PICK i \in DOMAIN sent[far[c]] : sent[far[c]][i] = PeerPresent(k)
    BY ZenonT(40), <2>1, <2>3 DEF Told
  <2>5. sent[far[c]][i].ty = "PeerPresent" /\ sent[far[c]][i].public_key = k
    <3>1. PeerPresent(k).ty = "PeerPresent" /\ PeerPresent(k).public_key = k
      BY DEF PeerPresent
    <3> QED BY Zenon, <2>4, <3>1
  <2> QED BY ZenonT(40), <2>2, <2>3, <2>5
<1> QED BY <1>1, RoutesHaveReasons, PTL

=============================================================================
