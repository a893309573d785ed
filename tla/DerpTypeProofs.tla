---------------------------- MODULE DerpTypeProofs ----------------------------
(***************************************************************************)
(* Type correctness of the relay, for any servers, connections and         *)
(* programs outside; and, at the end, what the other proofs need of        *)
(* sequences and of what a step leaves alone.                              *)
(***************************************************************************)
EXTENDS DerpProperties, TLAPS

-----------------------------------------------------------------------------
(* Sequences *)

LEMMA EmptySeq ==
  ASSUME NEW S
  PROVE  <<>> \in Seq(S) /\ Len(<<>>) = 0 /\ \A q \in Seq(S) : q # <<>> => Len(q) \in Nat \ {0}
OBVIOUS

LEMMA LenProperties ==
  ASSUME NEW S, NEW q \in Seq(S)
  PROVE  Len(q) \in Nat /\ q \in [1..Len(q) -> S] /\ DOMAIN q = 1..Len(q)
OBVIOUS

LEMMA HeadTailProperties ==
  ASSUME NEW S, NEW q \in Seq(S), q # <<>>
  PROVE  /\ Head(q) \in S /\ Tail(q) \in Seq(S) /\ Len(Tail(q)) = Len(q) - 1
         /\ \A i \in 1..Len(Tail(q)) : Tail(q)[i] = q[i + 1]
OBVIOUS

LEMMA AppendProperties ==
  ASSUME NEW S, NEW q \in Seq(S), NEW x \in S
  PROVE  /\ Append(q, x) \in Seq(S) /\ Append(q, x) # <<>> /\ Len(Append(q, x)) = Len(q) + 1
         /\ \A i \in 1..Len(q) : Append(q, x)[i] = q[i]
         /\ Append(q, x)[Len(q) + 1] = x
OBVIOUS

(* A non-empty sequence has a first element and a rest of its type. *)
LEMMA SeqHeadTail ==
  ASSUME NEW S, NEW q \in Seq(S), q # <<>>
  PROVE  Head(q) \in S /\ Tail(q) \in Seq(S)
BY HeadTailProperties

(* What a channel or a socket holds keeps its type when it grows. *)
LEMMA SeqAppend ==
  ASSUME NEW S, NEW q \in Seq(S), NEW x \in S
  PROVE  Append(q, x) \in Seq(S)
BY AppendProperties

(* A task that is busy with one element holds a sequence of its type. *)
LEMMA SeqSingle ==
  ASSUME NEW S, NEW x \in S
  PROVE  <<x>> \in Seq(S) /\ <<>> \in Seq(S)
OBVIOUS

(* What the frames of each type consist of. *)
LEMMA FrameFields ==
  ASSUME NEW f \in Frame
  PROVE  /\ f.ty \in {"SendPacket", "RecvPacket", "ForwardPacket"} =>
              f.target \in Keys /\ f.payload \in Payload
         /\ f.ty = "ForwardPacket" => f.source \in Keys
         /\ f.ty = "PeerPresent" => f.public_key \in Keys
BY DEF Frame

(* What the commands to the service consist of. *)
LEMMA CommandFields ==
  ASSUME NEW m \in ServiceCommand
  PROVE  /\ m.cmd \in {"SendPacket", "Subscribe", "PeerPresent"}
         /\ m.cmd = "SendPacket" => m \in Packet
         /\ m.cmd # "SendPacket" => m.key \in Keys /\ m.sink \in Conns
BY DEF ServiceCommand, Packet

(* What the commands to a write loop consist of. *)
LEMMA WriteFields ==
  ASSUME NEW m \in WriteLoopCommands
  PROVE  /\ m.cmd \in {"SendPacket", "PeerPresent"}
         /\ m.cmd = "SendPacket" => m \in Packet
         /\ m.cmd = "PeerPresent" => m.key \in Keys
BY DEF WriteLoopCommands, Packet

(* A packet fits both channels, and has these fields. *)
LEMMA PacketFields ==
  ASSUME NEW m \in Packet
  PROVE  /\ m.cmd = "SendPacket"
         /\ m.source \in Keys /\ m.target \in Keys /\ m.payload \in Payload
         /\ m \in ServiceCommand /\ m \in WriteLoopCommands
BY DEF Packet, ServiceCommand, WriteLoopCommands

(* The commands that are built are commands. *)
LEMMA CommandTypes ==
  ASSUME NEW k \in Keys, NEW t \in Keys, NEW p \in Payload, NEW c \in Conns
  PROVE  /\ PacketCommand(k, t, p) \in Packet
         /\ SubscribeCommand(k, c) \in ServiceCommand
         /\ PresentCommand(k, c) \in ServiceCommand
         /\ PresentWrite(k) \in WriteLoopCommands
BY DEF PacketCommand, SubscribeCommand, PresentCommand, PresentWrite, Packet,
       ServiceCommand, WriteLoopCommands

(* A write loop makes a frame of every command that it can write. *)
LEMMA WritableFrame ==
  ASSUME NEW c \in Conns, NEW m \in WriteLoopCommands
  PROVE  FrameFor(c, m) \in Frame
<1>1. CASE m.cmd = "PeerPresent"
  BY <1>1, WriteFields DEF FrameFor, PeerPresent, Frame
<1>2. CASE m.cmd = "SendPacket"
  <2>1. m.source \in Keys /\ m.target \in Keys /\ m.payload \in Payload
    BY <1>2, WriteFields, PacketFields
  <2> QED BY <1>2, <2>1 DEF FrameFor, RecvPacket, ForwardPacket, Frame
<1> QED BY <1>1, <1>2, WriteFields

(* What a Remote can send is a frame. *)
LEMMA SentFrame ==
  ASSUME TypeOK, NEW r \in Remotes, NEW f \in FramesOf(r)
  PROVE  f \in Frame
<1> DEFINE p == [from |-> r, n |-> Len(sent[r]) + 1]
<1>1. Len(sent[r]) + 1 \in Nat
  BY LenProperties DEF TypeOK
<1>2. p \in Payload
  BY <1>1 DEF Payload
<1>3. Targets \subseteq Keys
  BY NetAssumption
<1>4. \/ \E t \in Targets : f = SendPacket(t, p)
      \/ \E k \in Targets : \E t \in Targets : f = ForwardPacket(k, t, p)
      \/ \E k \in Targets : f = PeerPresent(k)
      \/ \E ty \in {"WatchConns", "KeepAlive", "Malformed"} : f = Bare(ty)
  BY DEF FramesOf
<1> HIDE DEF p
<1>5. ASSUME NEW ty \in {"WatchConns", "KeepAlive", "Malformed"} PROVE Bare(ty) \in Frame
  BY DEF Bare, Frame
<1>6. ASSUME NEW k \in Keys, NEW t \in Keys
      PROVE  SendPacket(t, p) \in Frame /\ ForwardPacket(k, t, p) \in Frame
             /\ PeerPresent(k) \in Frame
  BY <1>2 DEF SendPacket, ForwardPacket, PeerPresent, Frame
<1> QED BY <1>3, <1>4, <1>5, <1>6

(* Every order in which a set of sinks can be told is a sequence of them. *)
LEMMA OrderType ==
  ASSUME TypeOK, NEW s \in Servers, NEW order \in NotifyAllMeshPeers(s)
  PROVE  order \in Seq(MeshSinks(s)) /\ order \in Seq(Conns)
<1>1. MeshSinks(s) \subseteq Conns
  BY DEF MeshSinks, TypeOK
<1>2. Cardinality(MeshSinks(s)) \in Nat
  BY <1>1, NetAssumption
<1>3. order \in [1..Cardinality(MeshSinks(s)) -> MeshSinks(s)]
  BY DEF NotifyAllMeshPeers
<1>4. order \in Seq(MeshSinks(s))
  BY <1>2, <1>3
<1>5. order \in [1..Cardinality(MeshSinks(s)) -> Conns]
  BY <1>1, <1>3
<1> QED BY <1>2, <1>4, <1>5

-----------------------------------------------------------------------------
(* DerpService::new and main start with variables of their types. *)
LEMMA InitTypeOK == Init => TypeOK
BY NetAssumption DEF Init, TypeOK, TaskStatus, Ends

(* Steps of the read loops *)
LEMMA ReadersTypeOK ==
  ASSUME TypeOK, NEW c \in Conns,
         \/ ReadSendPacket(c) \/ ReadWatchConns(c) \/ ReadPeerPresent(c)
         \/ ReadUnhandled(c) \/ ReadMalformed(c) \/ ReadError(c)
         \/ MeshReadPeerPresent(c) \/ MeshReadForwardPacket(c) \/ MeshReadUnhandled(c)
  PROVE  TypeOK'
<1> USE NetAssumption
    DEF service_vars, reader_vars, writer_vars, notice_vars, socket_vars, history_vars
<1> DEFINE f == Head(net[c])
<1>1. c \in Ends /\ pk[c] \in Keys
  BY DEF Ends
<1>2. ASSUME net[c] # <<>>
      PROVE  f \in Frame /\ [net EXCEPT ![c] = Tail(@)] \in [Ends -> Seq(Frame)]
  BY <1>1, <1>2, SeqHeadTail DEF TypeOK
<1>3. ASSUME NEW m \in ServiceCommand
      PROVE  [pending EXCEPT ![c] = <<m>>] \in [Conns -> Seq(ServiceCommand)]
  BY SeqSingle DEF TypeOK
<1>4. ASSUME NEW status \in TaskStatus
      PROVE  [reader EXCEPT ![c] = status] \in [Conns -> TaskStatus]
  BY DEF TypeOK
<1>5. CASE ReadSendPacket(c)
  <2>1. f \in Frame /\ f.ty = "SendPacket"
    BY <1>2, <1>5 DEF ReadSendPacket, GetNextMessage
  <2>2. ClientPacket(c, f) \in ServiceCommand
    BY <1>1, <2>1, FrameFields, CommandTypes, PacketFields DEF ClientPacket
  <2> QED BY ZenonT(20), <1>2, <1>3, <1>5, <2>2
          DEF ReadSendPacket, GetNextMessage, TypeOK
<1>6. CASE ReadWatchConns(c)
  <2>1. WatchCommand(c) \in Seq(ServiceCommand)
    <3>1. SubscribeCommand(pk[c], c) \in ServiceCommand
      BY <1>1 DEF SubscribeCommand, ServiceCommand
    <3> QED BY <3>1, SeqSingle DEF WatchCommand
  <2> QED BY ZenonT(20), <1>2, <1>6, <2>1
          DEF ReadWatchConns, GetNextMessage, TypeOK
<1>7. CASE ReadPeerPresent(c)
  <2>1. PresentCommand(f.public_key, c) \in ServiceCommand
    BY <1>2, <1>7, FrameFields
       DEF ReadPeerPresent, GetNextMessage, PresentCommand, ServiceCommand
  <2> QED BY ZenonT(20), <1>2, <1>3, <1>7, <2>1
          DEF ReadPeerPresent, GetNextMessage, TypeOK
<1>8. CASE MeshReadPeerPresent(c)
  <2>1. PresentCommand(f.public_key, c) \in ServiceCommand
    BY <1>2, <1>8, FrameFields
       DEF MeshReadPeerPresent, GetNextMessage, PresentCommand, ServiceCommand
  <2> QED BY ZenonT(20), <1>2, <1>3, <1>8, <2>1
          DEF MeshReadPeerPresent, GetNextMessage, TypeOK
<1>9. CASE MeshReadForwardPacket(c)
  <2>1. f \in Frame /\ f.ty = "ForwardPacket"
    BY <1>2, <1>9 DEF MeshReadForwardPacket, GetNextMessage
  <2>2. ForwardedPacket(f) \in ServiceCommand
    BY <1>1, <2>1, FrameFields, CommandTypes, PacketFields DEF ForwardedPacket
  <2> QED BY ZenonT(20), <1>2, <1>3, <1>9, <2>2
          DEF MeshReadForwardPacket, GetNextMessage, TypeOK
<1>10. CASE ReadUnhandled(c)
  BY ZenonT(20), <1>2, <1>4, <1>10 DEF ReadUnhandled, GetNextMessage, TypeOK, TaskStatus
<1>11. CASE ReadMalformed(c)
  BY ZenonT(20), <1>2, <1>4, <1>11 DEF ReadMalformed, GetNextMessage, TypeOK, TaskStatus
<1>12. CASE MeshReadUnhandled(c)
  BY ZenonT(20), <1>2, <1>4, <1>12 DEF MeshReadUnhandled, GetNextMessage, TypeOK, TaskStatus
<1>13. CASE ReadError(c)
  BY ZenonT(20), <1>4, <1>13 DEF ReadError, TypeOK, TaskStatus
<1> QED
  BY <1>5, <1>6, <1>7, <1>8, <1>9, <1>10, <1>11, <1>12, <1>13

(* A read loop hands its command over, or fails to. *)
LEMMA SendCommandTypeOK ==
  ASSUME TypeOK, NEW c \in Conns, SendCommand(c)
  PROVE  TypeOK'
<1> USE NetAssumption
    DEF service_vars, reader_vars, writer_vars, notice_vars, socket_vars, history_vars
<1> DEFINE s == owner[c]
           m == Head(pending[c])
<1>1. s \in Servers /\ m \in ServiceCommand
  BY ZenonT(20), SeqHeadTail DEF SendCommand, TypeOK
<1>2. [commands EXCEPT ![s] = Append(@, m)] \in [Servers -> Seq(ServiceCommand)]
  BY <1>1, SeqAppend DEF TypeOK
<1>3. commands' \in [Servers -> Seq(ServiceCommand)]
  BY <1>2 DEF SendCommand, TypeOK
<1>4. pending' \in [Conns -> Seq(ServiceCommand)]
  BY DEF SendCommand, TypeOK
<1>5. reader' \in [Conns -> TaskStatus]
  BY DEF SendCommand, TypeOK, TaskStatus
<1> QED BY ZenonT(20), <1>3, <1>4, <1>5 DEF SendCommand, TypeOK

(* Steps of the write loops *)
LEMMA WritersTypeOK ==
  ASSUME TypeOK, NEW c \in Conns,
         \/ RecvWrite(c) \/ RecvUnwritable(c) \/ WriteFrame(c) \/ WriteLost(c)
         \/ WriteFails(c) \/ RecvNone(c) \/ MeshRecvPeerPresent(c) \/ MeshRecvPacket(c)
         \/ MeshRecvNone(c) \/ MeshWriteFails(c)
  PROVE  TypeOK'
<1> USE NetAssumption
    DEF service_vars, reader_vars, writer_vars, notice_vars, socket_vars, history_vars
<1> DEFINE m == Head(sink[c])
<1>1. ASSUME NEW status \in TaskStatus, EndWriter(c, status)
      PROVE  /\ writer' \in [Conns -> TaskStatus]
             /\ sink' \in [Conns -> Seq(WriteLoopCommands)]
             /\ writing' \in [Conns -> Seq(Frame)]
  BY <1>1 DEF EndWriter, TypeOK
<1>2. "ended" \in TaskStatus /\ "panicked" \in TaskStatus
  BY DEF TaskStatus
<1>3. ASSUME sink[c] # <<>>
      PROVE  /\ m \in WriteLoopCommands
             /\ [sink EXCEPT ![c] = Tail(@)] \in [Conns -> Seq(WriteLoopCommands)]
  BY <1>3, SeqHeadTail DEF TypeOK
<1>4. ASSUME NEW f \in Frame
      PROVE  [writing EXCEPT ![c] = <<f>>] \in [Conns -> Seq(Frame)]
  BY SeqSingle DEF TypeOK
<1>5. CASE RecvWrite(c)
  <2>1. FrameFor(c, m) \in Frame
    BY <1>3, <1>5, WritableFrame DEF RecvWrite
  <2> QED BY ZenonT(20), <1>3, <1>4, <1>5, <2>1 DEF RecvWrite, TypeOK
<1>6. CASE MeshRecvPeerPresent(c)
  <2>1. PeerPresent(m.key) \in Frame
    BY ZenonT(20), <1>3, <1>6, WriteFields DEF MeshRecvPeerPresent, PeerPresent, Frame
  <2> QED BY ZenonT(20), <1>3, <1>4, <1>6, <2>1 DEF MeshRecvPeerPresent, TypeOK
<1>7. CASE WriteFrame(c)
  <2>1. far[c] \in Ends /\ Head(writing[c]) \in Frame
    BY <1>7, SeqHeadTail DEF WriteFrame, TypeOK, Ends
  <2>2. net' \in [Ends -> Seq(Frame)]
    BY <1>7, <2>1, SeqAppend DEF WriteFrame, TypeOK
  <2>3. writing' \in [Conns -> Seq(Frame)]
    BY <1>7 DEF WriteFrame, TypeOK
  <2> QED BY ZenonT(20), <1>7, <2>2, <2>3 DEF WriteFrame, TypeOK
<1>8. CASE WriteLost(c)
  <2>1. <<>> \in Seq(Frame)
    OBVIOUS
  <2>2. writing' \in [Conns -> Seq(Frame)]
    BY <1>8, <2>1 DEF WriteLost, TypeOK
  <2> QED BY ZenonT(20), <1>8, <2>2 DEF WriteLost, TypeOK
<1>9. CASE RecvUnwritable(c)
  BY ZenonT(20), <1>1, <1>2, <1>9 DEF RecvUnwritable, TypeOK
<1>10. CASE WriteFails(c)
  BY ZenonT(20), <1>1, <1>2, <1>10 DEF WriteFails, TypeOK
<1>11. CASE RecvNone(c)
  BY ZenonT(20), <1>1, <1>2, <1>11 DEF RecvNone, TypeOK
<1>12. CASE MeshRecvPacket(c)
  BY ZenonT(20), <1>1, <1>2, <1>12 DEF MeshRecvPacket, TypeOK
<1>13. CASE MeshRecvNone(c)
  BY ZenonT(20), <1>1, <1>2, <1>13 DEF MeshRecvNone, TypeOK
<1>14. CASE MeshWriteFails(c)
  BY ZenonT(20), <1>1, <1>2, <1>14 DEF MeshWriteFails, TypeOK
<1> QED
  BY <1>5, <1>6, <1>7, <1>8, <1>9, <1>10, <1>11, <1>12, <1>13, <1>14

(* Connections that come up, or fail to *)
LEMMA ArrivalsTypeOK ==
  ASSUME TypeOK, NEW c \in Conns,
         \/ MeshStart(c) \/ MeshStartFails(c) \/ MeshWatch(c) \/ MeshWatchLost(c)
         \/ MeshWatchFails(c) \/ AddNewClient(c) \/ RefuseClient(c)
  PROVE  TypeOK'
<1> USE NetAssumption
    DEF service_vars, reader_vars, writer_vars, notice_vars, socket_vars, history_vars
<1> DEFINE s == owner[c]
<1>1. ASSUME EndWriter(c, "ended")
      PROVE  /\ writer' \in [Conns -> TaskStatus]
             /\ sink' \in [Conns -> Seq(WriteLoopCommands)]
             /\ writing' \in [Conns -> Seq(Frame)]
  BY <1>1 DEF EndWriter, TypeOK, TaskStatus
<1>2. s \in Servers /\ pk[c] \in Keys
  OBVIOUS
<1>3. CASE MeshStart(c)
  <2>1. mesh' \in [Servers -> [Keys -> Conns \cup {None}]]
    BY <1>2, <1>3 DEF MeshStart, TypeOK
  <2>2. reader' \in [Conns -> TaskStatus] /\ writer' \in [Conns -> TaskStatus]
    BY SMTT(40), <1>3 DEF MeshStart, TypeOK, TaskStatus
  <2> QED BY ZenonT(20), <1>3, <2>1, <2>2 DEF MeshStart, TypeOK
<1>4. CASE MeshStartFails(c)
  <2>1. reader' \in [Conns -> TaskStatus]
    BY <1>4 DEF MeshStartFails, TypeOK, TaskStatus
  <2> QED BY ZenonT(20), <1>1, <1>4, <2>1 DEF MeshStartFails, TypeOK
<1>5. CASE MeshWatch(c)
  <2>1. Bare("WatchConns") \in Frame
    BY DEF Bare, Frame
  <2>2. net' \in [Ends -> Seq(Frame)]
    BY <1>5, <2>1, SeqAppend DEF MeshWatch, TypeOK, Ends
  <2>3. reader' \in [Conns -> TaskStatus] /\ writer' \in [Conns -> TaskStatus]
    BY SMTT(40), <1>5 DEF MeshWatch, TypeOK, TaskStatus
  <2> QED BY ZenonT(20), <1>5, <2>2, <2>3 DEF MeshWatch, TypeOK
<1>6. CASE MeshWatchFails(c)
  <2>1. reader' \in [Conns -> TaskStatus]
    BY <1>6 DEF MeshWatchFails, TypeOK, TaskStatus
  <2> QED BY ZenonT(20), <1>1, <1>6, <2>1 DEF MeshWatchFails, TypeOK
<1>7. CASE AddNewClient(c)
  <2>1. peers_sinks' \in [Servers -> [Keys -> Conns \cup {None}]]
    BY <1>2, <1>7 DEF AddNewClient, TypeOK
  <2>2. reader' \in [Conns -> TaskStatus] /\ writer' \in [Conns -> TaskStatus]
    BY SMTT(40), <1>7 DEF AddNewClient, TypeOK, TaskStatus
  <2>3. PICK order \in NotifyAllMeshPeers(s) :
          announcing' = [announcing EXCEPT ![c] = order]
    BY ZenonT(20), <1>7 DEF AddNewClient
  <2>4. announcing' \in [Conns -> Seq(Conns)]
    BY ZenonT(20), <1>2, <2>3, OrderType DEF TypeOK
  <2> QED BY ZenonT(20), <1>7, <2>1, <2>2, <2>4 DEF AddNewClient, TypeOK
<1>8. CASE RefuseClient(c)
  <2>1. reader' \in [Conns -> TaskStatus] /\ link' \in [Conns -> BOOLEAN]
    BY <1>8 DEF RefuseClient, TypeOK, TaskStatus
  <2> QED BY ZenonT(20), <1>1, <1>8, <2>1 DEF RefuseClient, TypeOK
<1>9. CASE MeshWatchLost(c)
  <2>1. reader' \in [Conns -> TaskStatus] /\ writer' \in [Conns -> TaskStatus]
    BY SMTT(40), <1>9 DEF MeshWatchLost, TypeOK, TaskStatus
  <2> QED BY ZenonT(20), <1>9, <2>1 DEF MeshWatchLost, TypeOK
<1> QED
  BY <1>3, <1>4, <1>5, <1>6, <1>7, <1>8, <1>9

(* The command loop has let go of the packet it was sending. *)
LEMMA EmptyOutgoing ==
  ASSUME TypeOK, NEW s \in Servers
  PROVE  [outgoing EXCEPT ![s] = <<>>] \in [Servers -> Seq([sink : Conns, packet : Packet])]
<1> DEFINE Held == [sink : Conns, packet : Packet]
<1>1. outgoing \in [Servers -> Seq(Held)]
  BY ZenonT(20) DEF TypeOK
<1> HIDE DEF Held
<1>2. [outgoing EXCEPT ![s] = <<>>] \in [Servers -> Seq(Held)]
  BY <1>1
<1> QED BY ZenonT(20), <1>2 DEF Held

(* A subscription adds the keys of its snapshot to those its connection    *)
(* is told of.                                                             *)
LEMMA MoreFlooded ==
  ASSUME flooding \in [Conns -> [Keys -> Nat]], NEW d \in Conns, NEW K \in SUBSET Keys,
         flooding' = [flooding EXCEPT ![d] = OnceMore(@, K)]
  PROVE  /\ flooding' \in [Conns -> [Keys -> Nat]]
         /\ Flooded(d)' = Flooded(d) \cup K
         /\ \A c \in Conns : c # d => Flooded(c)' = Flooded(c)
<1>1. OnceMore(flooding[d], K) \in [Keys -> Nat]
  BY DEF OnceMore
<1>2. /\ flooding' \in [Conns -> [Keys -> Nat]]
      /\ flooding'[d] = OnceMore(flooding[d], K)
      /\ \A c \in Conns : c # d => flooding'[c] = flooding[c]
  BY ZenonT(20), <1>1
<1>3. \A k \in Keys : OnceMore(flooding[d], K)[k] > 0 <=> flooding[d][k] > 0 \/ k \in K
  BY DEF OnceMore
<1> QED BY <1>2, <1>3 DEF Flooded

(* A notice that went out leaves every other one to be sent. *)
LEMMA LessFlooded ==
  ASSUME flooding \in [Conns -> [Keys -> Nat]], NEW d \in Conns, NEW k \in Flooded(d),
         flooding' = [flooding EXCEPT ![d][k] = @ - 1]
  PROVE  /\ k \in Keys /\ flooding' \in [Conns -> [Keys -> Nat]]
         /\ \A c \in Conns : /\ Flooded(c)' \subseteq Flooded(c)
                             /\ c # d => Flooded(c)' = Flooded(c)
         /\ \A j \in Flooded(d) : j # k => j \in Flooded(d)'
<1>1. k \in Keys /\ flooding[d][k] - 1 \in Nat
  BY DEF Flooded
<1>2. /\ flooding' \in [Conns -> [Keys -> Nat]]
      /\ flooding'[d] = [flooding[d] EXCEPT ![k] = @ - 1]
      /\ \A c \in Conns : c # d => flooding'[c] = flooding[c]
  BY <1>1
<1> QED BY <1>1, <1>2 DEF Flooded

(* Steps of the command loop *)
LEMMA LoopTypeOK ==
  ASSUME TypeOK, NEW s \in Servers,
         \/ StartAccepting(s) \/ LoopSendPacket(s) \/ LoopDeliver(s) \/ LoopDies(s)
         \/ LoopSubscribe(s) \/ LoopPeerPresent(s)
  PROVE  TypeOK'
<1> USE DEF service_vars, reader_vars, writer_vars, notice_vars, socket_vars, history_vars
<1> DEFINE m == Head(commands[s])
<1>0. /\ peers_sinks \in [Servers -> [Keys -> Conns \cup {None}]]
      /\ mesh \in [Servers -> [Keys -> Conns \cup {None}]]
      /\ flooding \in [Conns -> [Keys -> Nat]]
      /\ commands \in [Servers -> Seq(ServiceCommand)]
      /\ command_loop \in [Servers -> {"running", "stopped"}]
  BY DEF TypeOK
<1>1. ASSUME NEW cmd, LoopReceives(s, cmd)
      PROVE  /\ m \in ServiceCommand /\ m.cmd = cmd
             /\ commands' \in [Servers -> Seq(ServiceCommand)]
  BY <1>1, SeqHeadTail DEF LoopReceives, TypeOK
<1>2. CASE StartAccepting(s)
  BY ZenonT(20), <1>2 DEF StartAccepting, TypeOK
<1>3. CASE LoopSendPacket(s)
  <2>1. m \in Packet /\ commands' \in [Servers -> Seq(ServiceCommand)]
    BY <1>1, <1>3, CommandFields DEF LoopSendPacket
  <2>2. outgoing' \in [Servers -> Seq([sink : Conns, packet : Packet])]
    <3> DEFINE Held == [sink : Conns, packet : Packet]
               route == peers_sinks[s][m.target]
               held == [sink |-> route, packet |-> m]
    <3>1. route \in Conns \cup {None}
      BY SMTT(40), <1>0, <2>1, PacketFields
    <3>2. route # None => held \in Held
      BY <2>1, <3>1
    <3>3. Routed(s, m) = IF route = None THEN <<>> ELSE <<held>>
      BY DEF Routed
    <3>4. outgoing \in [Servers -> Seq(Held)]
      BY ZenonT(20) DEF TypeOK
    <3>5. Routed(s, m) \in Seq(Held)
      <4> HIDE DEF held, Held, route, m
      <4>1. CASE route = None
        <5>1. <<>> \in Seq(Held)
          OBVIOUS
        <5> QED BY <3>3, <4>1, <5>1
      <4>2. CASE route # None
        <5>1. <<held>> \in Seq(Held)
          BY <3>2, <4>2, SeqSingle
        <5> QED BY <3>3, <4>2, <5>1
      <4> QED BY <4>1, <4>2
    <3>6. outgoing' = [outgoing EXCEPT ![s] = Routed(s, m)]
      BY <1>3 DEF LoopSendPacket
    <3>7. outgoing' \in [Servers -> Seq(Held)]
      <4> HIDE DEF Held, m
      <4> QED BY <3>4, <3>5, <3>6
    <3> QED BY ZenonT(20), <3>7
  <2> QED BY ZenonT(20), <1>3, <2>1, <2>2 DEF LoopSendPacket, TypeOK
<1>4. CASE LoopDeliver(s)
  <2>1. Head(outgoing[s]) \in [sink : Conns, packet : Packet]
    BY ZenonT(20), <1>4, SeqHeadTail DEF LoopDeliver, TypeOK
  <2>2. Head(outgoing[s]).sink \in Conns
        /\ Head(outgoing[s]).packet \in WriteLoopCommands
    BY <2>1, PacketFields
  <2>3. sink' \in [Conns -> Seq(WriteLoopCommands)]
    BY ZenonT(20), <1>4, <2>2, SeqAppend DEF LoopDeliver, TypeOK
  <2>4. outgoing' \in [Servers -> Seq([sink : Conns, packet : Packet])]
    BY ZenonT(20), <1>4, EmptyOutgoing DEF LoopDeliver
  <2> QED BY ZenonT(20), <1>4, <2>3, <2>4 DEF LoopDeliver, TypeOK
<1>5. CASE LoopDies(s)
  <2>1. outgoing' \in [Servers -> Seq([sink : Conns, packet : Packet])]
    BY ZenonT(20), <1>5, EmptyOutgoing DEF LoopDies
  <2>2. commands' \in [Servers -> Seq(ServiceCommand)]
        /\ command_loop' \in [Servers -> {"running", "stopped"}]
    BY <1>0, <1>5 DEF LoopDies
  <2> QED BY ZenonT(20), <1>5, <2>1, <2>2 DEF LoopDies, TypeOK
<1>6. CASE LoopSubscribe(s)
  <2>1. m.key \in Keys /\ m.sink \in Conns
        /\ commands' \in [Servers -> Seq(ServiceCommand)]
    BY SMTT(40), <1>1, <1>6, CommandFields DEF LoopSubscribe
  <2>2. mesh' \in [Servers -> [Keys -> Conns \cup {None}]]
    BY <1>0, <1>6, <2>1 DEF LoopSubscribe
  <2>3. flooding' \in [Conns -> [Keys -> Nat]]
    <3>1. flooding' = [flooding EXCEPT ![m.sink] =
                         OnceMore(@, CurrentPeers(s, [mesh[s] EXCEPT ![m.key] = m.sink]))]
      BY <1>6 DEF LoopSubscribe
    <3>2. CurrentPeers(s, [mesh[s] EXCEPT ![m.key] = m.sink]) \in SUBSET Keys
      BY DEF CurrentPeers
    <3> QED BY ZenonT(20), <1>0, <2>1, <3>1, <3>2, MoreFlooded
  <2> QED BY ZenonT(20), <1>6, <2>1, <2>2, <2>3 DEF LoopSubscribe, TypeOK
<1>7. CASE LoopPeerPresent(s)
  <2>1. m.key \in Keys /\ m.sink \in Conns
        /\ commands' \in [Servers -> Seq(ServiceCommand)]
    BY SMTT(40), <1>1, <1>7, CommandFields DEF LoopPeerPresent
  <2>2. peers_sinks' \in [Servers -> [Keys -> Conns \cup {None}]]
    BY <1>0, <1>7, <2>1 DEF LoopPeerPresent, FirstRoute
  <2> QED BY ZenonT(20), <1>7, <2>1, <2>2 DEF LoopPeerPresent, TypeOK
<1> QED BY <1>2, <1>3, <1>4, <1>5, <1>6, <1>7

(* Steps of the tasks that send notices *)
LEMMA NoticesTypeOK ==
  ASSUME TypeOK, NEW c \in Conns, AnnounceNext(c) \/ FloodNext(c)
  PROVE  TypeOK'
<1> USE NetAssumption
    DEF service_vars, reader_vars, writer_vars, notice_vars, socket_vars, history_vars
<1>1. ASSUME NEW w \in Conns, NEW k \in Keys, Notify(w, k)
      PROVE  sink' \in [Conns -> Seq(WriteLoopCommands)]
  <2>1. PresentWrite(k) \in WriteLoopCommands
    BY DEF PresentWrite, WriteLoopCommands
  <2> QED BY <1>1, <2>1, SeqAppend DEF Notify, TypeOK
<1>2. CASE AnnounceNext(c)
  <2>1. Head(announcing[c]) \in Conns /\ announcing' \in [Conns -> Seq(Conns)]
    BY <1>2, SeqHeadTail DEF AnnounceNext, TypeOK
  <2> QED BY ZenonT(20), <1>1, <1>2, <2>1 DEF AnnounceNext, TypeOK
<1>3. CASE FloodNext(c)
  <2>1. PICK k \in Flooded(c) : Notify(c, k) /\ flooding' = [flooding EXCEPT ![c][k] = @ - 1]
    BY ZenonT(20), <1>3 DEF FloodNext
  <2>2. k \in Keys /\ flooding' \in [Conns -> [Keys -> Nat]]
    BY ZenonT(20), <2>1, LessFlooded DEF TypeOK
  <2>3. sink' \in [Conns -> Seq(WriteLoopCommands)]
    BY <1>1, <2>1, <2>2
  <2>4. UNCHANGED <<service_vars, reader_vars, writer, writing, announcing, socket_vars,
                    history_vars>>
    BY <1>3 DEF FloodNext
  <2> QED BY ZenonT(20), <2>2, <2>3, <2>4 DEF TypeOK
<1> QED BY <1>2, <1>3

(* Steps of the programs outside and of the network *)
LEMMA OutsideTypeOK ==
  /\ \A r \in Remotes : TypeOK /\ (RemoteSend(r) \/ RemoteRecv(r)) => TypeOK'
  /\ \A c \in Conns : TypeOK /\ LinkDown(c) => TypeOK'
<1> USE NetAssumption
    DEF service_vars, reader_vars, writer_vars, notice_vars, socket_vars, history_vars
<1>1. ASSUME NEW r \in Remotes, TypeOK, RemoteSend(r) PROVE TypeOK'
  <2>1. PICK f \in FramesOf(r) : /\ sent' = [sent EXCEPT ![r] = Append(@, f)]
                                 /\ net' = [net EXCEPT ![far[r]] = Append(@, f)]
    BY ZenonT(20), <1>1 DEF RemoteSend
  <2>3. f \in Frame
    BY <1>1, SentFrame
  <2>4. sent' \in [Remotes -> Seq(Frame)]
    BY <1>1, <2>1, <2>3, SeqAppend DEF TypeOK
  <2>5. net' \in [Ends -> Seq(Frame)]
    BY <1>1, <2>1, <2>3, SeqAppend DEF TypeOK, Ends
  <2> QED BY ZenonT(20), <1>1, <2>4, <2>5 DEF RemoteSend, TypeOK
<1>2. ASSUME NEW r \in Remotes, TypeOK, RemoteRecv(r) PROVE TypeOK'
  <2>1. r \in Ends
    BY DEF Ends
  <2>2. Head(net[r]) \in Frame /\ net' \in [Ends -> Seq(Frame)]
    BY SMTT(40), <1>2, <2>1, SeqHeadTail DEF RemoteRecv, TypeOK
  <2>3. received' \in [Remotes -> Seq(Frame)]
    BY <1>2, <2>2, SeqAppend DEF RemoteRecv, TypeOK
  <2> QED BY ZenonT(20), <1>2, <2>2, <2>3 DEF RemoteRecv, TypeOK
<1>3. ASSUME NEW c \in Conns, TypeOK, LinkDown(c) PROVE TypeOK'
  BY ZenonT(20), <1>3 DEF LinkDown, TypeOK
<1> QED BY <1>1, <1>2, <1>3

(* Every step keeps the types: one case per task of the system. *)
LEMMA NextTypeOK == TypeOK /\ [Next]_vars => TypeOK'
<1> SUFFICES ASSUME TypeOK, [Next]_vars PROVE TypeOK'
  OBVIOUS
<1>1. CASE UNCHANGED vars
  BY ZenonT(20), <1>1 DEF vars, service_vars, reader_vars, writer_vars, notice_vars, socket_vars,
              history_vars, TypeOK
<1>2. ASSUME NEW s \in Servers, ServerStep(s) PROVE TypeOK'
  BY <1>2, LoopTypeOK DEF ServerStep
<1>3. ASSUME NEW c \in Outbound, MeshStart(c) \/ MeshStartFails(c) \/ MeshClientStep(c)
      PROVE  TypeOK'
  <2>1. c \in Conns
    BY NetAssumption
  <2> QED BY <1>3, <2>1, ReadersTypeOK, SendCommandTypeOK, WritersTypeOK, ArrivalsTypeOK
          DEF MeshClientStep
<1>4. ASSUME NEW c \in Conns \ Outbound, AddNewClient(c) \/ RefuseClient(c) \/ ClientStep(c)
      PROVE  TypeOK'
  BY <1>4, ReadersTypeOK, SendCommandTypeOK, WritersTypeOK, ArrivalsTypeOK DEF ClientStep
<1> QED BY <1>1, <1>2, <1>3, <1>4, NoticesTypeOK, OutsideTypeOK DEF Next

(***************************************************************************)
(* Every variable keeps its type: what the loops take from a channel or a  *)
(* socket is what they expect there, and every sink that a route or a task *)
(* names is that of a connection.                                          *)
(***************************************************************************)
THEOREM TypeCorrect == Spec => []TypeOK
BY InitTypeOK, NextTypeOK, PTL DEF Spec

-----------------------------------------------------------------------------
(* What the other proofs need of sequences, and of what a step leaves alone *)

(* A sequence of elements of S is one of elements of a larger set. *)
LEMMA SeqMono ==
  ASSUME NEW S, NEW T, S \subseteq T, NEW q \in Seq(S)
  PROVE  q \in Seq(T)
<1>1. Len(q) \in Nat /\ q \in [1..Len(q) -> S]
  BY LenProperties
<1>2. q \in [1..Len(q) -> T]
  BY <1>1
<1> QED BY <1>1, <1>2

(* Every element of a sequence is one of its type. *)
LEMMA SeqElement ==
  ASSUME NEW S, NEW q \in Seq(S), NEW i \in DOMAIN q
  PROVE  q[i] \in S
BY SMTT(40), LenProperties

(* The history of what a Remote sent only grows. *)
LEMMA SentGrows ==
  ASSUME TypeOK, NEW r \in Remotes, NEW f \in Frame,
         sent' = [sent EXCEPT ![r] = Append(@, f)]
  PROVE  /\ \A p \in Payload : p.n \in DOMAIN sent[p.from] =>
              p.n \in DOMAIN sent'[p.from] /\ Original(p)' = Original(p)
         /\ Len(sent[r]) + 1 \in DOMAIN sent'[r]
         /\ sent'[r][Len(sent[r]) + 1] = f
<1>1. sent \in [Remotes -> Seq(Frame)]
  BY DEF TypeOK
<1>2. sent'[r] = Append(sent[r], f) /\ \A q \in Remotes : q # r => sent'[q] = sent[q]
  BY <1>1
<1>3. sent[r] \in Seq(Frame) /\ Len(sent[r]) \in Nat /\ DOMAIN sent[r] = 1..Len(sent[r])
  BY <1>1, LenProperties
<1>4. /\ DOMAIN sent'[r] = 1..(Len(sent[r]) + 1)
      /\ \A i \in 1..Len(sent[r]) : sent'[r][i] = sent[r][i]
      /\ sent'[r][Len(sent[r]) + 1] = f
  BY <1>2, <1>3, AppendProperties, LenProperties
<1>5. ASSUME NEW p \in Payload, p.n \in DOMAIN sent[p.from]
      PROVE  p.n \in DOMAIN sent'[p.from] /\ sent'[p.from][p.n] = sent[p.from][p.n]
  <2>1. p.from \in Remotes
    BY DEF Payload
  <2>2. CASE p.from = r
    BY <1>3, <1>4, <1>5, <2>2
  <2>3. CASE p.from # r
    BY <1>2, <1>5, <2>1, <2>3
  <2> QED BY <2>2, <2>3
<1> QED BY <1>3, <1>4, <1>5 DEF Original

(* Only the programs outside send and receive. *)
LEMMA HistoryUntouched ==
  ASSUME Next
  PROVE  \/ UNCHANGED <<sent, received>>
         \/ \E r \in Remotes : RemoteSend(r) \/ RemoteRecv(r)
<1> USE DEF history_vars
<1>1. ASSUME NEW s \in Servers, ServerStep(s) PROVE UNCHANGED <<sent, received>>
  BY ZenonT(40), <1>1 DEF ServerStep, StartAccepting, LoopSendPacket, LoopDeliver, LoopDies,
                          LoopSubscribe, LoopPeerPresent
<1>2. ASSUME NEW c, MeshStart(c) \/ MeshStartFails(c) \/ MeshClientStep(c)
      PROVE  UNCHANGED <<sent, received>>
  BY ZenonT(40), <1>2 DEF MeshStart, MeshStartFails, MeshClientStep, MeshWatch, MeshWatchLost,
       MeshWatchFails, MeshReadPeerPresent, MeshReadForwardPacket, MeshReadUnhandled,
       ReadMalformed, ReadError, SendCommand, MeshRecvPeerPresent, MeshRecvPacket,
       MeshRecvNone, WriteFrame, WriteLost, MeshWriteFails
<1>3. ASSUME NEW c, AddNewClient(c) \/ RefuseClient(c) \/ ClientStep(c)
      PROVE  UNCHANGED <<sent, received>>
  BY SMTT(40), <1>3 DEF AddNewClient, RefuseClient, ClientStep, ReadSendPacket, ReadWatchConns,
       ReadPeerPresent, ReadUnhandled, ReadMalformed, ReadError, SendCommand, RecvWrite,
       RecvUnwritable, WriteFrame, WriteLost, WriteFails, RecvNone
<1>4. ASSUME NEW c, AnnounceNext(c) \/ FloodNext(c) \/ LinkDown(c)
      PROVE  UNCHANGED <<sent, received>>
  BY Zenon, <1>4 DEF AnnounceNext, FloodNext, LinkDown
<1> QED BY ZenonT(40), <1>1, <1>2, <1>3, <1>4 DEF Next

(* Only a new client and a PeerPresent command touch the routes. *)
LEMMA RoutesUntouched ==
  ASSUME Next
  PROVE  \/ UNCHANGED peers_sinks
         \/ \E c \in Conns : AddNewClient(c)
         \/ \E s \in Servers : LoopPeerPresent(s)
<1> USE DEF service_vars
<1>1. ASSUME NEW s \in Servers, ServerStep(s)
      PROVE  UNCHANGED peers_sinks \/ LoopPeerPresent(s)
  BY ZenonT(40), <1>1 DEF ServerStep, StartAccepting, LoopSendPacket, LoopDeliver, LoopDies, LoopSubscribe
<1>2. ASSUME NEW c, MeshStart(c) \/ MeshStartFails(c) \/ MeshClientStep(c)
      PROVE  UNCHANGED peers_sinks
  BY ZenonT(40), <1>2 DEF MeshStart, MeshStartFails, MeshClientStep, MeshWatch, MeshWatchLost,
       MeshWatchFails, MeshReadPeerPresent, MeshReadForwardPacket, MeshReadUnhandled,
       ReadMalformed, ReadError, SendCommand, MeshRecvPeerPresent, MeshRecvPacket,
       MeshRecvNone, WriteFrame, WriteLost, MeshWriteFails
<1>3. ASSUME NEW c, RefuseClient(c) \/ ClientStep(c)
      PROVE  UNCHANGED peers_sinks
  BY ZenonT(40), <1>3 DEF RefuseClient, ClientStep, ReadSendPacket, ReadWatchConns, ReadPeerPresent,
       ReadUnhandled, ReadMalformed, ReadError, SendCommand, RecvWrite, RecvUnwritable,
       WriteFrame, WriteLost, WriteFails, RecvNone
<1>4. ASSUME NEW c, AnnounceNext(c) \/ FloodNext(c) \/ LinkDown(c)
      PROVE  UNCHANGED peers_sinks
  BY Zenon, <1>4 DEF AnnounceNext, FloodNext, LinkDown
<1>5. ASSUME NEW r, RemoteSend(r) \/ RemoteRecv(r)
      PROVE  UNCHANGED peers_sinks
  BY Zenon, <1>5 DEF RemoteSend, RemoteRecv
<1> QED BY SMTT(40), <1>1, <1>2, <1>3, <1>4, <1>5 DEF Next

(* A route that changes goes to a connection of its key that comes up. *)
LEMMA RouteReplaced ==
  ASSUME TypeOK, [Next]_vars, NEW s \in Servers, NEW k \in Keys,
         peers_sinks[s][k] \notin {None, peers_sinks'[s][k]}
  PROVE  LET c == peers_sinks'[s][k] IN
         c # None /\ pk[c] = k /\ reader[c] = "none" /\ reader'[c] = "running"
<1>1. peers_sinks \in [Servers -> [Keys -> Conns \cup {None}]]
      /\ reader \in [Conns -> TaskStatus] /\ commands \in [Servers -> Seq(ServiceCommand)]
  BY DEF TypeOK
<1>2. peers_sinks' # peers_sinks
  OBVIOUS
<1>3. \/ \E c \in Conns : AddNewClient(c)
      \/ \E t \in Servers : LoopPeerPresent(t)
  BY ZenonT(40), <1>2, RoutesUntouched DEF vars, service_vars
<1>4. ASSUME NEW c \in Conns, AddNewClient(c)
      PROVE  /\ peers_sinks'[s][k] = c /\ c # None /\ pk[c] = k
             /\ reader[c] = "none" /\ reader'[c] = "running"
  <2>1. owner[c] \in Servers /\ pk[c] \in Keys /\ c # None
    BY NetAssumption
  <2>2. peers_sinks' = [peers_sinks EXCEPT ![owner[c]][pk[c]] = c]
        /\ reader' = [reader EXCEPT ![c] = "running"] /\ reader[c] = "none"
    BY <1>4 DEF AddNewClient, Arrived
  <2>3. s = owner[c] /\ k = pk[c]
    BY ZenonT(40), <1>1, <2>1, <2>2
  <2> QED BY <1>1, <2>1, <2>2, <2>3
<1>5. ASSUME NEW t \in Servers, LoopPeerPresent(t) PROVE FALSE
  <2> DEFINE m == Head(commands[t])
  <2>1. m \in ServiceCommand /\ m.cmd = "PeerPresent"
    BY <1>1, <1>5, SeqHeadTail DEF LoopPeerPresent, LoopReceives
  <2>2. m.key \in Keys
    BY <2>1, CommandFields
  <2>3. peers_sinks' = [peers_sinks EXCEPT ![t][m.key] =
                          FirstRoute(peers_sinks[t][m.key], m.sink)]
    BY ZenonT(40), <1>5 DEF LoopPeerPresent
  <2> HIDE DEF m
  <2> QED BY ZenonT(40), <1>1, <2>2, <2>3 DEF FirstRoute
<1> QED BY <1>3, <1>4, <1>5

(* No route is removed and no announcement is taken back. *)
KnowledgeGrows ==
  /\ \A s \in Servers : \A k \in Keys : Known(s, k) => Known(s, k)'
  /\ \A e \in Ends : \A k \in Keys : Told(e, k) => Told(e, k)'

LEMMA NextGrows == TypeOK /\ [Next]_vars => KnowledgeGrows
<1> SUFFICES ASSUME TypeOK, [Next]_vars PROVE KnowledgeGrows
  OBVIOUS
<1>1. peers_sinks \in [Servers -> [Keys -> Conns \cup {None}]]
  BY DEF TypeOK
<1>2. ASSUME NEW s \in Servers, NEW k \in Keys, Known(s, k) PROVE Known(s, k)'
  <2>1. CASE UNCHANGED peers_sinks
    BY <1>2, <2>1 DEF Known
  <2>2. ASSUME NEW c \in Conns, AddNewClient(c) PROVE Known(s, k)'
    <3>1. owner[c] \in Servers /\ pk[c] \in Keys /\ c # None
      BY NetAssumption
    <3>2. peers_sinks' = [peers_sinks EXCEPT ![owner[c]][pk[c]] = c]
      BY <2>2 DEF AddNewClient
    <3> QED BY <1>1, <1>2, <3>1, <3>2 DEF Known
  <2>3. ASSUME NEW t \in Servers, LoopPeerPresent(t) PROVE Known(s, k)'
    <3> DEFINE m == Head(commands[t])
    <3>1. peers_sinks' = [peers_sinks EXCEPT ![t][m.key] =
                            FirstRoute(peers_sinks[t][m.key], m.sink)]
      BY <2>3 DEF LoopPeerPresent
    <3> HIDE DEF m
    <3> QED BY <1>1, <1>2, <3>1 DEF Known, FirstRoute
  <2> QED BY <2>1, <2>2, <2>3, RoutesUntouched DEF vars, service_vars
<1>3. ASSUME NEW r \in Remotes, NEW i \in DOMAIN sent[r]
      PROVE  i \in DOMAIN sent'[r] /\ sent'[r][i] = sent[r][i]
  <2>1. CASE UNCHANGED sent
    BY <1>3, <2>1
  <2>2. ASSUME NEW q \in Remotes, RemoteSend(q)
        PROVE  i \in DOMAIN sent'[r] /\ sent'[r][i] = sent[r][i]
    <3>1. PICK f \in FramesOf(q) : sent' = [sent EXCEPT ![q] = Append(@, f)]
      BY ZenonT(20), <2>2 DEF RemoteSend
    <3>2. f \in Frame
      BY SentFrame
    <3>3. sent[r] \in Seq(Frame) /\ Len(sent[r]) \in Nat /\ DOMAIN sent[r] = 1..Len(sent[r])
      BY LenProperties DEF TypeOK
    <3>4. sent'[r] \in {sent[r], Append(sent[r], f)}
      BY <3>1 DEF TypeOK
    <3> QED BY <3>2, <3>3, <3>4, AppendProperties, LenProperties
  <2>3. UNCHANGED sent \/ \E q \in Remotes : RemoteSend(q)
    <3>1. CASE Next
      <4>1. ASSUME NEW q, RemoteRecv(q) PROVE UNCHANGED sent
        BY Zenon, <4>1 DEF RemoteRecv
      <4>2. UNCHANGED <<sent, received>> => UNCHANGED sent
        OBVIOUS
      <4> QED BY Zenon, <3>1, <4>1, <4>2, HistoryUntouched
    <3>2. CASE UNCHANGED vars
      BY <3>2 DEF vars, history_vars
    <3> QED BY Zenon, <3>1, <3>2
  <2> QED BY <2>1, <2>2, <2>3
<1>4. ASSUME NEW e \in Ends, NEW k \in Keys, Told(e, k) PROVE Told(e, k)'
  <2>1. CASE far[e] \in Conns
    BY SMTT(40), <1>2, <1>4, <2>1, NetAssumption DEF Told
  <2>2. CASE far[e] \notin Conns
    <3>1. far[e] \in Remotes
      BY SMTT(40), <2>2, NetAssumption DEF Ends
    <3>2. PICK i \in DOMAIN sent[far[e]] : sent[far[e]][i] = PeerPresent(k)
      BY SMTT(40), <1>4, <2>2 DEF Told
    <3>3. i \in DOMAIN sent'[far[e]] /\ sent'[far[e]][i] = PeerPresent(k)
      BY Zenon, <1>3, <3>1, <3>2
    <3> QED BY <2>2, <3>3 DEF Told, PeerPresent
  <2> QED BY SMTT(40), <2>1, <2>2
<1> QED BY <1>2, <1>4 DEF KnowledgeGrows

=============================================================================
