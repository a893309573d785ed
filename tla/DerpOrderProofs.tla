--------------------------- MODULE DerpOrderProofs ---------------------------
(***************************************************************************)
(* Every step keeps OrderInv, for any servers, however they are linked,    *)
(* and any clients.  A step takes a packet from the front of one stage to  *)
(* the back of the next, or from one place on its way to the next; what    *)
(* stays behind where it was is later, of another sender or for another    *)
(* key.                                                                    *)
(***************************************************************************)
EXTENDS DerpChannelProofs

(* A client takes a frame from its socket. *)
LEMMA ArriveCalm ==
  ASSUME Before, GoOn, NEW r \in Remotes, RemoteRecv(r)
  PROVE  Calm
<1> DEFINE f == Head(net[r])
           M == FramePackets(<<f>>)
<1>0. TypeOK /\ SocketsSorted /\ StagesOrdered /\ r \in Ends
  BY Zenon, EndsMeet DEF Before
<1>1. /\ UNCHANGED sent /\ UNCHANGED pending /\ UNCHANGED writing /\ UNCHANGED sink
      /\ UNCHANGED outgoing /\ UNCHANGED commands
      /\ net' = [net EXCEPT ![r] = Tail(net[r])] /\ net[r] # <<>>
      /\ received' = [received EXCEPT ![r] = Append(received[r], f)]
  BY ZenonT(20) DEF RemoteRecv, service_vars, reader_vars, writer_vars
<1>2. net[r] \in Seq(Frame) /\ Sorted(sent, net[r], Stage(r, 2)) /\ received[r] \in Seq(Frame)
  BY Zenon, <1>0, SequenceTypes DEF SocketsSorted
<1>3. /\ f \in Frame /\ M \subseteq FramePackets(net[r])
      /\ FramePackets(Tail(net[r])) \subseteq FramePackets(net[r])
      /\ Precedes(sent, M \cap Stage(r, 2), FramePackets(Tail(net[r])) \cap Stage(r, 2))
  BY Zenon, <1>1, <1>2, FramesTaken, FirstIn
<1> HIDE DEF f
<1>4. /\ OnTheWay(r, 1)' = FramePackets(Append(received[r], f))
      /\ OnTheWay(r, 1) = FramePackets(received[r])
      /\ \A e \in Ends : e # r => OnTheWay(e, 1)' = OnTheWay(e, 1)
  BY Zenon, <1>0, <1>1, WayReceived, Ways
<1>5. /\ OnTheWay(r, 2) = FramePackets(net[r]) /\ OnTheWay(r, 2)' = FramePackets(Tail(net[r]))
      /\ \A e \in Ends : e # r => OnTheWay(e, 2)' = OnTheWay(e, 2)
  BY ZenonT(40), <1>0, <1>1, WayNet, Ways
<1>6. /\ 1 \in Stages /\ 2 \in Stages /\ 1 + 1 = 2 /\ 1 < 2
  BY DEF Stages
<1>7. M \subseteq OnTheWay(r, 2) /\ OnTheWay(r, 1)' \subseteq OnTheWay(r, 1) \cup M
  <2>1. FramePackets(Append(received[r], f)) \subseteq FramePackets(received[r]) \cup M
    BY ZenonT(40), <1>2, <1>3, FramesAdded
  <2> QED BY <1>3, <1>4, <1>5, <2>1
<1> HIDE DEF M
<1>8. Precedes(sent, {p \in M : Enters(r, p)}, Stage(r, 2)')
  <2>1. {p \in M : Enters(r, p)} \subseteq M \cap Stage(r, 2)
    BY <1>7 DEF Stage
  <2>2. Stage(r, 2)' \subseteq FramePackets(Tail(net[r])) \cap Stage(r, 2)
    BY Zenon, <1>0, <1>1, <1>3, <1>5, EntersLess DEF Stage
  <2> QED BY Zenon, <1>3, <2>1, <2>2 DEF Precedes
<1>9. \A e \in Ends : /\ e # r => OnTheWay(e, 1)' \subseteq OnTheWay(e, 1)
                      /\ OnTheWay(e, 2)' \subseteq OnTheWay(e, 2)
                      /\ OnTheWay(e, 3)' \subseteq OnTheWay(e, 3)
                      /\ OnTheWay(e, 4)' \subseteq OnTheWay(e, 4)
                      /\ OnTheWay(e, 5)' \subseteq OnTheWay(e, 5)
  BY ZenonT(20), <1>1, <1>3, <1>4, <1>5, WayKept
<1>10. /\ \A e \in Ends : \A i \in Stages :
            e # r \/ i # 1 => Stage(e, i)' \subseteq Stage(e, i)
       /\ SocketsSorted' => Calm
  BY ZenonT(20), <1>0, <1>1, <1>6, <1>7, <1>8, <1>9, Sinks
<1>11. /\ \A e \in Ends : Stage(e, 2)' \subseteq Stage(e, 2)
       /\ \A o \in Remotes : o # r => Stage(o, 1)' \subseteq Stage(o, 1)
  BY <1>6, <1>10, EndsMeet
<1>12. Sorted(sent, Append(received[r], f), Stage(r, 1)')
  <2>1. Sorted(sent, received[r], Stage(r, 1))
    BY Zenon, <1>0 DEF SocketsSorted
  <2>2. FramePackets(received[r]) \cap Stage(r, 1)' \subseteq Stage(r, 1)
    BY Zenon, <1>0, <1>1, <1>4, EntersLess DEF Stage
  <2>3. Precedes(sent, FramePackets(received[r]) \cap Stage(r, 1),
                       FramePackets(<<f>>) \cap Stage(r, 1)')
    <3>1. M \cap Stage(r, 1)' \subseteq Stage(r, 2)
      BY Zenon, <1>0, <1>1, <1>7, EntersLess DEF Stage
    <3>2. Precedes(sent, Stage(r, 1), Stage(r, 2))
      BY Zenon, <1>0, <1>6 DEF StagesOrdered
    <3> QED BY Zenon, <3>1, <3>2 DEF Precedes, M
  <2> QED BY Zenon, <1>2, <1>3, <2>1, <2>2, <2>3, FramesAdded
<1>13. SocketsSorted'
  <2>1. \A e \in Ends : Sorted(sent', net'[e], Stage(e, 2)')
    BY Zenon, <1>0, <1>1, <1>11, NetSorted
  <2>2. \A o \in Remotes : Sorted(sent', received'[o], Stage(o, 1)')
    <3>1. received'[r] = Append(received[r], f) /\ \A o \in Remotes : o # r => received'[o] = received[o]
      BY <1>0, <1>1, SequenceTypes
    <3>2. ASSUME NEW o \in Remotes, o # r PROVE Sorted(sent, received[o], Stage(o, 1)')
      BY Zenon, <1>0, <1>11, <3>2, SortedPart DEF SocketsSorted
    <3> QED BY SMTT(40), <1>1, <1>12, <3>1, <3>2
  <2> QED BY Zenon, <2>1, <2>2 DEF SocketsSorted
<1> QED BY <1>10, <1>13

-----------------------------------------------------------------------------
(* Steps that only lose packets, or that have none *)

LEMMA QuietCalm ==
  ASSUME Before, GoOn,
         UNCHANGED <<sent, received, pending, net, writing, sink, outgoing, commands>>
  PROVE  Calm
<1>1. /\ UNCHANGED sent /\ UNCHANGED received /\ UNCHANGED pending /\ UNCHANGED net
      /\ UNCHANGED writing /\ UNCHANGED sink /\ UNCHANGED outgoing /\ UNCHANGED commands
  OBVIOUS
<1> QED BY ZenonT(20), <1>1, WayKept, Drains

LEMMA EndCalm ==
  ASSUME Before, GoOn, NEW c \in Conns, NEW x, EndWriter(c, x),
         UNCHANGED <<sent, received, pending, net, outgoing, commands>>
  PROVE  Calm
<1>1. /\ UNCHANGED sent /\ UNCHANGED received /\ UNCHANGED pending /\ UNCHANGED net
      /\ UNCHANGED outgoing /\ UNCHANGED commands /\ TypeOK
  BY DEF Before
<1>2. \A e \in Ends : OnTheWay(e, 3)' \subseteq OnTheWay(e, 3)
  BY Zenon, <1>1, WayWritten, NoPackets DEF EndWriter
<1>3. \A e \in Ends : OnTheWay(e, 4)' \subseteq OnTheWay(e, 4)
  BY Zenon, <1>1, WayTaken, NoPackets DEF EndWriter
<1> QED BY ZenonT(20), <1>1, <1>2, <1>3, WayKept, Drains

LEMMA LostCalm ==
  ASSUME Before, GoOn, NEW c \in Conns, WriteLost(c)
  PROVE  Calm
<1>1. /\ UNCHANGED sent /\ UNCHANGED received /\ UNCHANGED pending /\ UNCHANGED net
      /\ UNCHANGED sink /\ UNCHANGED outgoing /\ UNCHANGED commands /\ TypeOK
      /\ writing' = [writing EXCEPT ![c] = <<>>]
  BY ZenonT(20) DEF Before, WriteLost, service_vars, reader_vars, socket_vars, history_vars
<1>2. \A e \in Ends : OnTheWay(e, 3)' \subseteq OnTheWay(e, 3)
  BY Zenon, <1>1, WayWritten, NoPackets
<1> QED BY ZenonT(20), <1>1, <1>2, WayKept, Drains

LEMMA NotifyCalm ==
  ASSUME Before, GoOn, NEW w \in Conns, NEW k \in Keys, Notify(w, k),
         UNCHANGED <<sent, received, pending, net, writing, outgoing, commands>>
  PROVE  Calm
<1>1. /\ UNCHANGED sent /\ UNCHANGED received /\ UNCHANGED pending /\ UNCHANGED net
      /\ UNCHANGED writing /\ UNCHANGED outgoing /\ UNCHANGED commands /\ TypeOK
  BY DEF Before
<1>2. CASE SinkClosed(w)
  BY ZenonT(20), <1>1, <1>2, QuietCalm DEF Notify
<1>3. CASE ~SinkClosed(w)
  <2>1. /\ sink' = [sink EXCEPT ![w] = Append(sink[w], PresentWrite(k))]
        /\ Len(sink[w]) < 1 /\ sink[w] \in Seq(WriteLoopCommands)
    BY Zenon, <1>1, <1>3, SequenceTypes DEF Notify, SinkRoom, ChannelCap
  <2>2. sink[w] = <<>>
    BY <2>1, OnePlace
  <2>3. sink' = [sink EXCEPT ![w] = <<PresentWrite(k)>>]
    BY SMTT(30), <2>1, <2>2
  <2>4. CommandPackets(<<PresentWrite(k)>>) = {}
    BY SMTT(30) DEF CommandPackets, PresentWrite
  <2>5. \A e \in Ends : OnTheWay(e, 4)' \subseteq OnTheWay(e, 4)
    BY Zenon, <1>1, <2>3, <2>4, WayTaken
  <2> QED BY ZenonT(20), <1>1, <2>5, WayKept, Drains
<1> QED BY <1>2, <1>3

(* The command loop takes a notice, or ends. *)
LEMMA LoopDropCalm ==
  ASSUME Before, GoOn, NEW s \in Servers,
         LoopSubscribe(s) \/ LoopPeerPresent(s) \/ LoopDies(s)
  PROVE  Calm
<1>1. /\ UNCHANGED sent /\ UNCHANGED received /\ UNCHANGED pending /\ UNCHANGED net
      /\ UNCHANGED writing /\ UNCHANGED sink /\ TypeOK
  BY ZenonT(20) DEF Before, LoopSubscribe, LoopPeerPresent, LoopDies, reader_vars, writer_vars,
         socket_vars, history_vars
<1>2. \A t \in Servers : CommandPackets(commands'[t]) \subseteq CommandPackets(commands[t])
  <2>1. commands \in [Servers -> Seq(ServiceCommand)]
    BY <1>1, SequenceTypes
  <2>2. \/ commands' = [commands EXCEPT ![s] = <<>>]
        \/ commands[s] # <<>> /\ commands' = [commands EXCEPT ![s] = Tail(commands[s])]
    BY ZenonT(20) DEF LoopDies, LoopSubscribe, LoopPeerPresent, LoopReceives
  <2>3. /\ commands'[s] = <<>> \/ (commands[s] # <<>> /\ commands'[s] = Tail(commands[s]))
        /\ \A t \in Servers : t # s => commands'[t] = commands[t]
    BY ZenonT(20), <2>1, <2>2
  <2>4. CommandPackets(commands'[s]) \subseteq CommandPackets(commands[s])
    BY Zenon, <2>1, <2>3, CommandsMoved, NoPackets
  <2> QED BY Zenon, <2>3, <2>4
<1>3. outgoing' = outgoing \/ outgoing' = [outgoing EXCEPT ![s] = <<>>]
  BY ZenonT(20) DEF LoopSubscribe, LoopPeerPresent, LoopDies
<1>4. \A e \in Ends : OnTheWay(e, 5)' \subseteq OnTheWay(e, 5)
  <2>1. CASE outgoing' = outgoing
    BY Zenon, <2>1, WayKept
  <2>2. CASE outgoing' = [outgoing EXCEPT ![s] = <<>>]
    <3>1. \A e \in Ends : \/ OnTheWay(e, 5)' = OnTheWay(e, 5)
                          \/ OnTheWay(e, 5)' = HeldPackets(<<>>, far[e])
      BY Zenon, <1>1, <2>2, WayRouted
    <3> QED BY Zenon, <3>1, NoPackets
  <2> QED BY <1>3, <2>1, <2>2
<1> QED BY ZenonT(20), <1>1, <1>2, <1>4, WayKept, Drains

(* The opener of a connection writes WatchConns, which carries no packet. *)
LEMMA WatchCalm ==
  ASSUME Before, GoOn, NEW c \in Conns, MeshWatch(c)
  PROVE  Calm
<1> DEFINE f == Bare("WatchConns")
           e0 == far[c]
           M == {}
<1>0. TypeOK /\ SocketsSorted /\ e0 \in Ends
  BY Zenon, EndsMeet DEF Before
<1>1. /\ UNCHANGED sent /\ UNCHANGED received /\ UNCHANGED pending /\ UNCHANGED writing
      /\ UNCHANGED sink /\ UNCHANGED outgoing /\ UNCHANGED commands
      /\ net' = [net EXCEPT ![e0] = Append(net[e0], f)]
  BY ZenonT(20) DEF MeshWatch, service_vars, history_vars
<1>2. f \in Frame
  BY ZenonT(20) DEF Bare, Frame
<1>3. FramePackets(<<f>>) = {}
  BY SMTT(30) DEF Bare, FramePackets, Data
<1> HIDE DEF f, e0
<1>4. /\ OnTheWay(e0, 2)' \subseteq OnTheWay(e0, 2)
      /\ \A e \in Ends : e # e0 => OnTheWay(e, 2)' = OnTheWay(e, 2)
  <2>1. /\ OnTheWay(e0, 2)' = FramePackets(Append(net[e0], f))
        /\ \A e \in Ends : e # e0 => OnTheWay(e, 2)' = OnTheWay(e, 2)
    BY Zenon, <1>0, <1>1, WayNet
  <2>2. FramePackets(Append(net[e0], f)) \subseteq FramePackets(net[e0]) \cup FramePackets(<<f>>)
    BY ZenonT(40), <1>0, <1>2, SequenceTypes, FramesAdded
  <2>3. OnTheWay(e0, 2) = FramePackets(net[e0])
    BY Zenon, Ways
  <2> QED BY SMTT(40), <1>3, <2>1, <2>2, <2>3
<1>5. 1 \in Stages /\ 2 \in Stages /\ 3 \in Stages /\ 3 = 2 + 1
  BY DEF Stages
<1>6. \A e \in Ends : /\ OnTheWay(e, 1)' \subseteq OnTheWay(e, 1)
                      /\ OnTheWay(e, 2)' \subseteq OnTheWay(e, 2)
                      /\ OnTheWay(e, 3)' \subseteq OnTheWay(e, 3)
                      /\ OnTheWay(e, 4)' \subseteq OnTheWay(e, 4)
                      /\ OnTheWay(e, 5)' \subseteq OnTheWay(e, 5)
  BY ZenonT(20), <1>1, <1>4, WayKept
<1>7. /\ OnTheWay(e0, 2)' \subseteq OnTheWay(e0, 2) \cup M
      /\ M \subseteq OnTheWay(e0, 3)
      /\ Precedes(sent, {p \in M : Enters(e0, p)}, Stage(e0, 3)')
  BY Zenon, <1>4 DEF Precedes
<1> HIDE DEF M
<1>8. SocketsSorted' => Calm
  BY ZenonT(20), <1>0, <1>1, <1>5, <1>6, <1>7, Sinks
<1>9. /\ \A e \in Ends : e # e0 => Stage(e, 2)' \subseteq Stage(e, 2)
      /\ \A r \in Remotes : Stage(r, 1)' \subseteq Stage(r, 1)
  <2>1. Remotes \subseteq Ends
    BY EndsMeet
  <2>2. ASSUME NEW e \in Ends
        PROVE  Stage(e, 1)' \subseteq Stage(e, 1) /\ Stage(e, 2)' \subseteq Stage(e, 2)
    BY ZenonT(20), <1>0, <1>1, <1>6, EntersLess DEF Stage
  <2> QED BY Zenon, <2>1, <2>2
<1>10. Precedes(sent, Stage(e0, 2), FramePackets(<<f>>) \cap Stage(e0, 2)')
  BY Zenon, <1>3 DEF Precedes
<1>11. SocketsSorted'
  <2>1. \A e \in Ends : Sorted(sent', net'[e], Stage(e, 2)')
    BY Zenon, <1>0, <1>1, <1>2, <1>9, <1>10, NetAppended
  <2>2. \A r \in Remotes : Sorted(sent', received'[r], Stage(r, 1)')
    BY Zenon, <1>0, <1>1, <1>9, ReceivedSorted
  <2> QED BY Zenon, <2>1, <2>2 DEF SocketsSorted
<1> QED BY <1>8, <1>11

-----------------------------------------------------------------------------
(* All steps that keep the packets on their ways *)

LEMMA ReadersCalm ==
  ASSUME Before, GoOn, NEW c \in Conns
  PROVE  /\ ReadSendPacket(c) \/ ReadWatchConns(c) \/ ReadPeerPresent(c) => Calm
         /\ MeshReadPeerPresent(c) \/ MeshReadForwardPacket(c) => Calm
         /\ ReadUnhandled(c) \/ ReadMalformed(c) \/ MeshReadUnhandled(c) => Calm
         /\ ReadError(c) => Calm
<1> USE DEF service_vars, writer_vars, socket_vars, history_vars
<1>1. ASSUME ReadSendPacket(c) PROVE Calm
  <2> DEFINE m == ClientPacket(c, Head(net[c]))
  <2>1. CommandPackets(<<m>>) \subseteq FramePackets(<<Head(net[c])>>)
    <3>1. Head(net[c]).ty = "SendPacket" /\ m.payload = Head(net[c]).payload
      BY ZenonT(20), <1>1 DEF ReadSendPacket, GetNextMessage, ClientPacket, PacketCommand
    <3> HIDE DEF m
    <3> QED BY <3>1 DEF CommandPackets, FramePackets
  <2>2. /\ net[c] # <<>> /\ net' = [net EXCEPT ![c] = Tail(net[c])] /\ pending[c] = <<>>
        /\ pending' = [pending EXCEPT ![c] = <<m>>]
        /\ UNCHANGED <<sent, received, writing, sink, outgoing, commands>>
    BY ZenonT(20), <1>1 DEF ReadSendPacket, GetNextMessage
  <2> QED BY ZenonT(20), <2>1, <2>2, ReadCalm
<1>2. ASSUME MeshReadForwardPacket(c) PROVE Calm
  <2> DEFINE m == ForwardedPacket(Head(net[c]))
  <2>1. CommandPackets(<<m>>) \subseteq FramePackets(<<Head(net[c])>>)
    <3>1. Head(net[c]).ty = "ForwardPacket" /\ m.payload = Head(net[c]).payload
      BY ZenonT(20), <1>2 DEF MeshReadForwardPacket, GetNextMessage, ForwardedPacket, PacketCommand
    <3> HIDE DEF m
    <3> QED BY <3>1 DEF CommandPackets, FramePackets, Data
  <2>2. /\ net[c] # <<>> /\ net' = [net EXCEPT ![c] = Tail(net[c])] /\ pending[c] = <<>>
        /\ pending' = [pending EXCEPT ![c] = <<m>>]
        /\ UNCHANGED <<sent, received, writing, sink, outgoing, commands>>
    BY ZenonT(20), <1>2 DEF MeshReadForwardPacket, GetNextMessage
  <2> QED BY ZenonT(20), <2>1, <2>2, ReadCalm
<1>3. ASSUME ReadPeerPresent(c) \/ MeshReadPeerPresent(c) PROVE Calm
  <2> DEFINE m == PresentCommand(Head(net[c]).public_key, c)
  <2>1. CommandPackets(<<m>>) = {}
    BY DEF CommandPackets, PresentCommand
  <2>2. /\ net[c] # <<>> /\ net' = [net EXCEPT ![c] = Tail(net[c])] /\ pending[c] = <<>>
        /\ pending' = [pending EXCEPT ![c] = <<m>>]
        /\ UNCHANGED <<sent, received, writing, sink, outgoing, commands>>
    BY ZenonT(20), <1>3 DEF ReadPeerPresent, MeshReadPeerPresent, GetNextMessage
  <2> QED BY ZenonT(20), <2>1, <2>2, ReadCalm
<1>4. ASSUME ReadWatchConns(c) PROVE Calm
  <2> DEFINE q == WatchCommand(c)
  <2>1. CommandPackets(q) = {} /\ Len(q) <= 1
    <3>1. CommandPackets(<<SubscribeCommand(pk[c], c)>>) = {}
      BY SMTT(30) DEF CommandPackets, SubscribeCommand
    <3> QED BY <3>1, NoPackets DEF WatchCommand
  <2>2. /\ net[c] # <<>> /\ net' = [net EXCEPT ![c] = Tail(net[c])] /\ pending[c] = <<>>
        /\ pending' = [pending EXCEPT ![c] = q]
        /\ UNCHANGED <<sent, received, writing, sink, outgoing, commands>>
    BY ZenonT(20), <1>4 DEF ReadWatchConns, GetNextMessage
  <2> HIDE DEF q
  <2> QED BY ZenonT(20), <2>1, <2>2, ReadCalm
<1>5. ASSUME ReadUnhandled(c) \/ ReadMalformed(c) \/ MeshReadUnhandled(c) PROVE Calm
  <2>1. /\ net[c] # <<>> /\ net' = [net EXCEPT ![c] = Tail(net[c])] /\ pending[c] = <<>>
        /\ UNCHANGED <<sent, received, writing, sink, outgoing, commands>>
        /\ UNCHANGED pending
    BY <1>5 DEF ReadUnhandled, ReadMalformed, MeshReadUnhandled, GetNextMessage
  <2>2. pending' = [pending EXCEPT ![c] = <<>>]
    BY ZenonT(20), <2>1, SequenceTypes DEF Before
  <2> QED BY ZenonT(20), <2>1, <2>2, NoPackets, ReadCalm
<1>6. ASSUME ReadError(c) PROVE Calm
  BY ZenonT(20), <1>6, QuietCalm DEF ReadError
<1> QED BY SMTT(40), <1>1, <1>2, <1>3, <1>4, <1>5, <1>6

LEMMA WritersCalm ==
  ASSUME Before, GoOn, NEW c \in Conns
  PROVE  /\ RecvWrite(c) \/ MeshRecvPeerPresent(c) => Calm
         /\ WriteFrame(c) \/ WriteLost(c) => Calm
         /\ RecvUnwritable(c) \/ WriteFails(c) \/ RecvNone(c) => Calm
         /\ MeshRecvPacket(c) \/ MeshRecvNone(c) \/ MeshWriteFails(c) => Calm
<1> USE DEF service_vars, reader_vars, socket_vars, history_vars
<1>1. ASSUME RecvWrite(c) PROVE Calm
  <2> DEFINE m == Head(sink[c])
             f == FrameFor(c, m)
  <2>1. FramePackets(<<f>>) \subseteq CommandPackets(<<m>>)
    <3>1. m \in WriteLoopCommands
      BY ZenonT(20), <1>1, SequenceTypes, FirstIn DEF Before, RecvWrite
    <3>2. m.cmd = "PeerPresent" \/ m.cmd = "SendPacket"
      BY ZenonT(20), <3>1, WriteFields
    <3> HIDE DEF m
    <3>3. CASE m.cmd = "PeerPresent"
      BY <3>3 DEF FramePackets, FrameFor, PeerPresent, Data
    <3>4. CASE m.cmd = "SendPacket"
      <4>1. f.payload = m.payload
        BY ZenonT(20), <3>4 DEF FrameFor, RecvPacket, ForwardPacket
      <4> HIDE DEF f
      <4> QED BY SMTT(30), <3>4, <4>1 DEF FramePackets, CommandPackets
    <3> QED BY SMTT(40), <3>2, <3>3, <3>4
  <2>2. /\ writing[c] = <<>> /\ sink[c] # <<>>
        /\ writing' = [writing EXCEPT ![c] = <<f>>] /\ sink' = [sink EXCEPT ![c] = Tail(sink[c])]
        /\ UNCHANGED <<sent, received, net, pending, outgoing, commands>>
    BY ZenonT(40), <1>1 DEF RecvWrite
  <2> HIDE DEF f
  <2> QED BY ZenonT(20), <2>1, <2>2, RecvCalm
<1>2. ASSUME MeshRecvPeerPresent(c) PROVE Calm
  <2> DEFINE f == PeerPresent(Head(sink[c]).key)
  <2>1. FramePackets(<<f>>) = {}
    BY SMTT(30) DEF FramePackets, PeerPresent, Data
  <2>2. /\ writing[c] = <<>> /\ sink[c] # <<>>
        /\ writing' = [writing EXCEPT ![c] = <<f>>] /\ sink' = [sink EXCEPT ![c] = Tail(sink[c])]
        /\ UNCHANGED <<sent, received, net, pending, outgoing, commands>>
    BY <1>2 DEF MeshRecvPeerPresent
  <2> HIDE DEF f
  <2> QED BY ZenonT(20), <2>1, <2>2, RecvCalm
<1>3. ASSUME RecvUnwritable(c) \/ WriteFails(c) \/ RecvNone(c) PROVE Calm
  BY ZenonT(20), <1>3, EndCalm DEF RecvUnwritable, WriteFails, RecvNone
<1>4. ASSUME MeshRecvPacket(c) \/ MeshRecvNone(c) \/ MeshWriteFails(c) PROVE Calm
  BY <1>4, EndCalm DEF MeshRecvPacket, MeshRecvNone, MeshWriteFails
<1> QED BY ZenonT(40), <1>1, <1>2, <1>3, <1>4, WriteCalm, LostCalm

LEMMA ArrivalsCalm ==
  ASSUME Before, GoOn, NEW c \in Conns
  PROVE  /\ MeshStart(c) \/ MeshStartFails(c) \/ AddNewClient(c) \/ RefuseClient(c) => Calm
         /\ MeshWatch(c) \/ MeshWatchLost(c) \/ MeshWatchFails(c) => Calm
<1> USE DEF service_vars, socket_vars, history_vars
<1>1. ASSUME MeshStart(c) \/ AddNewClient(c) \/ MeshWatchLost(c) PROVE Calm
  <2>1. UNCHANGED <<sent, received, pending, net, writing, sink, outgoing, commands>>
    BY <1>1 DEF MeshStart, AddNewClient, MeshWatchLost
  <2> QED BY ZenonT(20), <2>1, QuietCalm
<1>2. ASSUME MeshStartFails(c) \/ RefuseClient(c) \/ MeshWatchFails(c) PROVE Calm
  <2>1. EndWriter(c, "ended") /\ UNCHANGED <<sent, received, net, pending, outgoing, commands>>
    BY ZenonT(20), <1>2 DEF MeshStartFails, RefuseClient, MeshWatchFails
  <2> QED BY <2>1, EndCalm
<1> QED BY SMTT(40), <1>1, <1>2, WatchCalm

LEMMA NoticesCalm ==
  ASSUME Before, GoOn, NEW c \in Conns
  PROVE  AnnounceNext(c) \/ FloodNext(c) \/ LinkDown(c) => Calm
<1> USE DEF service_vars, reader_vars, writer_vars, socket_vars, history_vars
<1>1. ASSUME AnnounceNext(c) PROVE Calm
  <2>1. Head(announcing[c]) \in Conns /\ pk[c] \in Keys
    BY ZenonT(20), <1>1, FirstIn, NetAssumption DEF Before, AnnounceNext, TypeOK
  <2>2. /\ Notify(Head(announcing[c]), pk[c])
        /\ UNCHANGED <<sent, received, pending, net, writing, outgoing, commands>>
    BY ZenonT(20), <1>1 DEF AnnounceNext
  <2> QED BY ZenonT(20), <2>1, <2>2, NotifyCalm
<1>2. ASSUME FloodNext(c) PROVE Calm
  <2>1. PICK k \in Flooded(c) : Notify(c, k)
    BY ZenonT(20), <1>2 DEF FloodNext
  <2>2. UNCHANGED <<sent, received, pending, net, writing, outgoing, commands>>
    BY ZenonT(20), <1>2 DEF FloodNext
  <2>3. k \in Keys
    BY DEF Flooded
  <2> QED BY SMTT(40), <2>1, <2>2, <2>3, NotifyCalm
<1>3. ASSUME LinkDown(c) PROVE Calm
  BY ZenonT(20), <1>3, QuietCalm DEF LinkDown
<1> QED BY SMTT(40), <1>1, <1>2, <1>3

-----------------------------------------------------------------------------
(* The steps that take a packet from one place to the next *)

(* What a read loop hands over enters its server there. *)
LEMMA PendingEnters ==
  ASSUME Before, NEW c \in Conns, pending[c] # <<>>,
         NEW p \in CommandPackets(<<Head(pending[c])>>)
  PROVE  p \in Stage(c, 1)
<1> DEFINE m == Head(pending[c])
<1>1. /\ pending[c] \in Seq(ServiceCommand) /\ pending[c] \in Seq(GoodCommands)
      /\ far[c] \in Conns => pending[c] \in Seq(LinkCommands(far[c]))
      /\ reader[c] = "running"
  BY Zenon, SequenceTypes DEF Before, ChannelInv, PendingHold, SafeInv, PendingSafe
<1>2. m \in GoodCommands /\ (far[c] \in Conns => m \in LinkCommands(far[c]))
  BY Zenon, <1>1, FirstIn
<1>3. CommandPackets(<<m>>) \subseteq CommandPackets(pending[c])
  BY <1>1, CommandsMoved
<1> HIDE DEF m
<1>4. m.cmd = "SendPacket" /\ p = m.payload
  BY DEF CommandPackets, m
<1>5. m.target = Target(p)
  BY Zenon, <1>2, <1>4, GoodPacketsSent DEF GoodCommands
<1>6. ASSUME far[c] \in Conns PROVE Link(far[c], Target(p))
  <2>1. far[c] \notin Outbound /\ m.target # pk[far[c]]
    BY Zenon, <1>2, <1>4, <1>6 DEF LinkCommands
  <2>2. far[far[c]] = c /\ ~Closed(c)
    BY <1>1, EndsMeet DEF Closed, Over
  <2> QED BY SMTT(40), <1>5, <1>6, <2>1, <2>2 DEF Link
<1>7. p \in OnTheWay(c, 1)
  BY Zenon, <1>3, Ways, EndsMeet DEF m
<1> QED BY Zenon, <1>6, <1>7 DEF Stage, Enters

(* What is left on the way to a read loop that handed over its command *)
LEMMA LeftLater ==
  ASSUME Before, NEW c \in Conns, OnTheWay(c, 1)' = {},
         \A i \in Stages : Stage(c, i)' \subseteq Stage(c, i),
         NEW y \in Stage(c, 1), NEW x \in Bound(c)', Same(sent, x, y)
  PROVE  ~(x.n <= y.n)
<1>0. c \in Ends /\ 1 \in Stages
  BY EndsMeet DEF Stages
<1>1. PICK i \in Stages : x \in Stage(c, i)'
  BY Zenon DEF Bound
<1>2. i # 1
  BY Zenon, <1>1 DEF Stage
<1>3. 1 < i /\ x \in Stage(c, i) /\ Same(sent, y, x)
  BY <1>1, <1>2, StageNumbers DEF Same
<1>4. y.n < x.n
  BY Zenon, <1>0, <1>3 DEF Before, StagesOrdered, Precedes
<1>5. x \in SentPackets /\ y \in SentPackets
  BY Zenon, <1>0, <1>3, WayWasSent DEF Before, Stage
<1>6. x.n \in Nat /\ y.n \in Nat
  BY Zenon, <1>5, SentTargets DEF Before
<1> QED BY SMTT(40), <1>4, <1>6

LEMMA SendMoves ==
  ASSUME Before, GoOn, NEW b, NEW g, b \subseteq g, Started(b), Started(g)', Paths(b),
         NEW c \in Conns, SendCommand(c)
  PROVE  StagesOrdered' /\ SocketsSorted' /\ Paths(g)'
<1> DEFINE s == owner[c]
           m == Head(pending[c])
           M == CommandPackets(<<m>>)
<1>0. /\ TypeOK /\ SafeInv /\ ChannelInv /\ RouteBacked /\ [Next]_vars
      /\ s \in Servers /\ s \in Places /\ c \in Places /\ c \in Ends
  BY Zenon, EndsMeet, PlaceFacts DEF Before, RouteInv
<1>1. /\ UNCHANGED sent /\ UNCHANGED received /\ UNCHANGED net /\ UNCHANGED writing
      /\ UNCHANGED sink /\ UNCHANGED outgoing
      /\ pending[c] # <<>> /\ pending' = [pending EXCEPT ![c] = <<>>]
  BY ZenonT(20) DEF SendCommand, writer_vars, socket_vars, history_vars
<1>2. OnTheWay(c, 1)' = {} /\ \A e \in Ends : OnTheWay(e, 1)' \subseteq OnTheWay(e, 1)
  BY Zenon, <1>0, <1>1, WayRead, NoPackets
<1>3. \A e \in Ends : \A i \in Stages : OnTheWay(e, i)' \subseteq OnTheWay(e, i)
  BY ZenonT(20), <1>1, <1>2, WayKept, StageNumbers
<1>4. /\ StagesOrdered' /\ SocketsSorted'
      /\ \A e \in Ends : Bound(e)' \subseteq Bound(e)
      /\ \A e \in Ends : \A i \in Stages : Stage(e, i)' \subseteq Stage(e, i)
  BY Zenon, <1>1, <1>3, StagesDrained
<1>5. CASE command_loop[s] # "running"
  <2>1. UNCHANGED commands
    BY <1>5 DEF SendCommand
  <2>2. Calm
    BY Zenon, <1>1, <1>4, <2>1 DEF Calm
  <2> QED BY Zenon, <1>4, <2>2, CalmPaths
<1>6. CASE command_loop[s] = "running"
  <2>1. /\ commands'[s] = <<m>>
        /\ \A t \in Servers : t # s => commands'[t] = commands[t]
    <3>1. /\ commands' = [commands EXCEPT ![s] = Append(commands[s], m)]
          /\ Len(commands[s]) < 1
      BY <1>6 DEF SendCommand, ChannelCap
    <3>2. commands \in [Servers -> Seq(ServiceCommand)]
      BY <1>0, SequenceTypes
    <3>3. m \in ServiceCommand
      BY Zenon, <1>0, <1>1, SequenceTypes, FirstIn
    <3>4. Append(commands[s], m) = <<m>>
      BY Zenon, <1>0, <3>1, <3>2, <3>3, OnePlace
    <3> QED BY SMTT(40), <1>0, <3>1, <3>2, <3>4
  <2>2. \A p \in M : p \in Stage(c, 1)
    BY Zenon, <1>1, PendingEnters
  <2> HIDE DEF m
  <2>3. M \subseteq Waiting(c)
    <3>1. 1 \in Stages
      BY DEF Stages
    <3> QED BY Zenon, <2>2, <3>1, WaitingAfter DEF Bound
  <2>4. ASSUME NEW l \in Places, NEW x \in Waiting(l)'
        PROVE  x \in Waiting(l) \/ (l = s /\ x \in M)
    <3>1. CASE l \in Servers
      BY Zenon, <2>1, <2>4, <3>1, WaitingAfter
    <3>2. CASE l \in Conns
      <4>1. l \in Ends /\ x \in Bound(l)' /\ Waiting(l) = Bound(l)
        BY Zenon, <2>4, <3>2, WaitingAfter, EndsMeet
      <4> QED BY Zenon, <1>4, <4>1
    <3> QED BY Zenon, <3>1, <3>2, PlaceFacts
  <2>5. \A r \in Remotes : \A y \in Bound(r)' : y \in Bound(r)
    BY Zenon, <1>4, EndsMeet
  <2>6. \A y \in M : \A x \in Waiting(c)' : Same(sent, x, y) => ~(x.n <= y.n)
    <3>1. Waiting(c)' = Bound(c)'
      BY Zenon, WaitingAfter
    <3> QED BY Zenon, <1>0, <1>2, <1>4, <2>2, <3>1, LeftLater
  <2>7. /\ \A x \in M : \A n \in Places : \A k \in Keys :
             (k = Target(x) \/ Unlinked) /\ Leads(b, n, c, k) => Leads(b, n, s, k)
        /\ \A y \in M : \A l \in Places :
             l # c /\ Leads(b, c, l, Target(y)) => Leads(b, s, l, Target(y))
    BY Zenon, LeadsIn
  <2>8. \A t \in Servers : <<t, ServerOf(c)>> \in b => <<t, ServerOf(s)>> \in b
    BY Zenon, <1>0, PlaceFacts
  <2> HIDE DEF M, s
  <2>9. Paths(g)'
    BY ZenonT(40), <1>0, <1>1, <2>3, <2>4, <2>5, <2>6, <2>7, <2>8, PathsMoved
  <2> QED BY <1>4, <2>9
<1> QED BY <1>5, <1>6

(* The command loop takes the packet p for the sink of c. *)
LEMMA RouteStages ==
  ASSUME Before, GoOn, NEW s \in Servers, NEW c \in Conns, owner[c] = s,
         NEW m \in GoodPackets, NEW p, p = m.payload,
         UNCHANGED <<sent, received, pending, net, writing, sink>>,
         outgoing' = [outgoing EXCEPT ![s] = <<[sink |-> c, packet |-> m]>>],
         Enters(far[c], p) => \A x \in Bound(far[c]) : Same(sent, x, p) => ~(p.n <= x.n)
  PROVE  /\ StagesOrdered' /\ SocketsSorted'
         /\ \A e \in Ends : e # far[c] => Bound(e)' \subseteq Bound(e)
         /\ \A y \in Bound(far[c])' : y \in Bound(far[c]) \/ (y = p /\ Enters(far[c], p))
<1> DEFINE e0 == far[c]
           M == {p}
           N == {q \in M : Enters(e0, q)}
<1>0. TypeOK /\ SafeInv /\ StagesOrdered /\ SocketsSorted /\ e0 \in Ends /\ far[e0] = c
  BY Zenon, EndsMeet DEF Before
<1>1. /\ UNCHANGED sent /\ UNCHANGED received /\ UNCHANGED pending /\ UNCHANGED net
      /\ UNCHANGED writing /\ UNCHANGED sink
  OBVIOUS
<1>2. \A d : /\ d = c => HeldPackets(<<[sink |-> c, packet |-> m]>>, d) = M
             /\ d # c => HeldPackets(<<[sink |-> c, packet |-> m]>>, d) = {}
  BY DEF HeldPackets
<1>3. /\ OnTheWay(e0, 5)' \subseteq OnTheWay(e0, 5) \cup M
      /\ \A e \in Ends : e # e0 => OnTheWay(e, 5)' \subseteq OnTheWay(e, 5)
  <2> DEFINE q == <<[sink |-> c, packet |-> m]>>
  <2> HIDE DEF q
  <2>1. \A e \in Ends : \/ OnTheWay(e, 5)' = OnTheWay(e, 5)
                        \/ OnTheWay(e, 5)' = HeldPackets(q, far[e])
    BY Zenon, <1>0, WayRouted DEF q
  <2>2. \A e \in Ends : e # e0 => far[e] # c
    BY Zenon, EndsMeet
  <2>3. HeldPackets(q, far[e0]) = M /\ \A e \in Ends : e # e0 => HeldPackets(q, far[e]) = {}
    BY Zenon, <1>0, <1>2, <2>2 DEF q
  <2> QED BY ZenonT(40), <1>0, <2>1, <2>3
<1> HIDE DEF e0, M
<1>4. 1 \in Stages /\ 2 \in Stages /\ 5 \in Stages /\ 1 # 5 /\ 2 # 5
  BY DEF Stages
<1>5. Flow(e0, 5, M)
  <2>1. \A e \in Ends : \A i \in Stages : i # 5 => OnTheWay(e, i)' = OnTheWay(e, i)
    BY ZenonT(20), <1>1, WayKept, StageNumbers
  <2> QED BY Zenon, <1>3, <1>4, <2>1 DEF Flow
<1>6. ASSUME NEW i \in Stages PROVE Precedes(sent, Stage(e0, i), N)
  <2> SUFFICES ASSUME NEW x \in Stage(e0, i), Enters(e0, p), Same(sent, x, p) PROVE x.n < p.n
    BY Zenon DEF Precedes, M
  <2>1. ~(p.n <= x.n)
    BY Zenon DEF Bound, e0
  <2>2. x \in SentPackets /\ p \in SentPackets
    BY Zenon, <1>0, WayWasSent, GoodPacketsSent DEF Stage
  <2>3. x.n \in Nat /\ p.n \in Nat
    BY Zenon, <1>0, <2>2, SentTargets
  <2> QED BY <2>1, <2>3
<1>7. \A j \in Stages : ~(5 < j)
  BY DEF Stages
<1>8. StagesOrdered'
  BY ZenonT(20), <1>0, <1>1, <1>4, <1>5, <1>6, <1>7, OrderFlow
<1>9. /\ \A e \in Ends : \A i \in Stages :
           e # e0 \/ i # 5 => Stage(e, i)' \subseteq Stage(e, i)
      /\ Stage(e0, 5)' \subseteq Stage(e0, 5) \cup N
  BY Zenon, <1>0, <1>1, <1>4, <1>5, StagesFlow
<1>10. SocketsSorted'
  <2>1. /\ \A e \in Ends : Stage(e, 2)' \subseteq Stage(e, 2)
        /\ \A r \in Remotes : Stage(r, 1)' \subseteq Stage(r, 1)
    BY Zenon, <1>4, <1>9, EndsMeet
  <2>2. \A e \in Ends : Sorted(sent', net'[e], Stage(e, 2)')
    BY Zenon, <1>0, <1>1, <2>1, NetSorted
  <2>3. \A r \in Remotes : Sorted(sent', received'[r], Stage(r, 1)')
    BY Zenon, <1>0, <1>1, <2>1, ReceivedSorted
  <2> QED BY Zenon, <2>2, <2>3 DEF SocketsSorted
<1>11. \A e \in Ends : e # e0 => Bound(e)' \subseteq Bound(e)
  BY Zenon, <1>9 DEF Bound
<1>12. ASSUME NEW y \in Bound(e0)' PROVE y \in Bound(e0) \/ (y = p /\ Enters(e0, p))
  <2>1. PICK i \in Stages : y \in Stage(e0, i)'
    BY Zenon, <1>12 DEF Bound
  <2>2. y \in Stage(e0, i) \/ y \in N
    BY Zenon, <1>0, <1>4, <1>9, <2>1
  <2> QED BY Zenon, <2>2 DEF Bound, M
<1> QED BY Zenon, <1>8, <1>10, <1>11, <1>12 DEF e0

(* A command loop takes the packet p, for k. *)
RoutesPacket(s, m, p, k) ==
  /\ UNCHANGED sent /\ UNCHANGED received /\ UNCHANGED pending
  /\ UNCHANGED net /\ UNCHANGED writing /\ UNCHANGED sink
  /\ p = m.payload /\ k = m.target /\ k = Target(p) /\ k \in Keys
  /\ p \in Waiting(s) /\ Waiting(s)' = {}
  /\ \A t \in Servers : CommandPackets(commands'[t]) \subseteq CommandPackets(commands[t])

LEMMA RoutesTaken ==
  ASSUME Before, NEW s \in Servers, LoopSendPacket(s)
  PROVE  \E m \in GoodPackets : /\ RoutesPacket(s, m, m.payload, m.target)
                                /\ outgoing' = [outgoing EXCEPT ![s] = Routed(s, m)]
<1> DEFINE m == Head(commands[s])
<1>0. TypeOK /\ SafeInv /\ ChannelInv
  BY DEF Before
<1>1. /\ UNCHANGED sent /\ UNCHANGED received /\ UNCHANGED pending
      /\ UNCHANGED net /\ UNCHANGED writing /\ UNCHANGED sink
      /\ commands[s] # <<>> /\ m.cmd = "SendPacket"
      /\ commands' = [commands EXCEPT ![s] = Tail(commands[s])]
      /\ outgoing' = [outgoing EXCEPT ![s] = Routed(s, m)]
  BY ZenonT(20) DEF LoopSendPacket, LoopReceives, reader_vars, writer_vars, socket_vars,
                    history_vars
<1>2. /\ commands \in [Servers -> Seq(ServiceCommand)] /\ commands[s] \in Seq(ServiceCommand)
      /\ commands[s] \in Seq(GoodCommands) /\ Len(commands[s]) <= 1
  BY Zenon, <1>0, SequenceTypes DEF SafeInv, CommandsSafe, ChannelInv, CommandsHold
<1>3. Tail(commands[s]) = <<>> /\ CommandPackets(<<m>>) \subseteq CommandPackets(commands[s])
  BY SMTT(40), <1>1, <1>2, OnePlace, CommandsMoved
<1>4. m \in GoodPackets
  <2>1. m \in GoodCommands
    BY Zenon, <1>1, <1>2, FirstIn
  <2> QED BY Zenon, <1>1, <2>1 DEF GoodCommands
<1> HIDE DEF m
<1>5. m.payload \in CommandPackets(<<m>>)
  BY <1>1 DEF CommandPackets
<1>6. commands'[s] = <<>> /\ \A t \in Servers : t # s => commands'[t] = commands[t]
  <2>1. commands' = [commands EXCEPT ![s] = <<>>]
    BY Zenon, <1>1, <1>3
  <2>2. commands \in [Servers -> Seq(ServiceCommand)]
    BY Zenon, <1>2
  <2> QED BY <2>1, <2>2
<1>7. m.payload \in Waiting(s) /\ Waiting(s)' = {}
  BY Zenon, <1>3, <1>5, <1>6, WaitingAfter, NoPackets
<1>8. \A t \in Servers : CommandPackets(commands'[t]) \subseteq CommandPackets(commands[t])
  BY Zenon, <1>6, NoPackets
<1>9. m.target = Target(m.payload) /\ m.target \in Keys
  BY Zenon, <1>4, GoodPacketsSent
<1> QED BY Zenon, <1>1, <1>4, <1>7, <1>8, <1>9 DEF RoutesPacket

(* There is no route: the packet is lost. *)
LEMMA UnroutedCalm ==
  ASSUME Before, GoOn, NEW s \in Servers, NEW m, NEW p, NEW k, RoutesPacket(s, m, p, k),
         outgoing' = [outgoing EXCEPT ![s] = <<>>]
  PROVE  Calm
<1>1. \A e \in Ends : OnTheWay(e, 5)' \subseteq OnTheWay(e, 5)
  <2>1. \A e \in Ends : \/ OnTheWay(e, 5)' = OnTheWay(e, 5)
                        \/ OnTheWay(e, 5)' = HeldPackets(<<>>, far[e])
    BY Zenon, WayRouted DEF Before
  <2> QED BY Zenon, <2>1, NoPackets
<1> QED BY ZenonT(20), <1>1, WayKept, Drains DEF RoutesPacket

(* The route leads to a program. *)
LEMMA RouteOut ==
  ASSUME Before, GoOn, NEW b, NEW g, b \subseteq g, Started(b), Started(g)', Paths(b),
         NEW s \in Servers, NEW m \in GoodPackets, NEW p, NEW k, RoutesPacket(s, m, p, k),
         NEW c \in Conns, c = peers_sinks[s][k], owner[c] = s, far[c] \in Remotes,
         outgoing' = [outgoing EXCEPT ![s] = <<[sink |-> c, packet |-> m]>>]
  PROVE  StagesOrdered' /\ SocketsSorted' /\ Paths(g)'
<1> DEFINE r0 == far[c]
<1>0. /\ TypeOK /\ SafeInv /\ ChannelInv /\ RouteBacked /\ [Next]_vars
      /\ s \in Places /\ r0 \in Ends /\ r0 \notin Conns /\ far[r0] = c
  BY Zenon, EndsMeet, PlaceFacts DEF Before, RouteInv
<1>1. /\ UNCHANGED sent /\ p = m.payload /\ k = Target(p) /\ k \in Keys
      /\ p \in Waiting(s) /\ Waiting(s)' = {}
      /\ UNCHANGED <<sent, received, pending, net, writing, sink>>
  BY DEF RoutesPacket
<1> HIDE DEF r0
<1>2. \A x \in Bound(r0) : Same(sent, x, p) => ~(p.n <= x.n)
  <2> SUFFICES ASSUME NEW x \in Bound(r0), Same(sent, x, p), p.n <= x.n PROVE FALSE
    BY Zenon
  <2>1. Same(sent, p, x) /\ r0 \in Remotes
    BY DEF Same, r0
  <2>2. <<owner[far[r0]], ServerOf(s)>> \in b
    BY Zenon, <1>0, <1>1, <2>1 DEF Paths, Passed
  <2>3. <<s, s>> \in b
    BY Zenon, <1>0, <2>2, PlaceFacts
  <2> QED BY Zenon, <2>3 DEF Started
<1>3. /\ StagesOrdered' /\ SocketsSorted'
      /\ \A e \in Ends : e # r0 => Bound(e)' \subseteq Bound(e)
      /\ \A y \in Bound(r0)' : y \in Bound(r0) \/ y = p
  BY Zenon, <1>1, <1>2, RouteStages DEF r0
<1>4. ASSUME NEW l \in Places, NEW x \in Waiting(l)' PROVE x \in Waiting(l)
  <2>1. CASE l \in Servers
    BY Zenon, <1>4, <2>1, WaitingAfter DEF RoutesPacket
  <2>2. CASE l \in Conns
    <3>1. l \in Ends /\ l # r0 /\ x \in Bound(l)' /\ Waiting(l) = Bound(l)
      BY Zenon, <1>0, <1>4, <2>2, WaitingAfter, EndsMeet
    <3> QED BY Zenon, <1>3, <3>1
  <2> QED BY Zenon, <2>1, <2>2, PlaceFacts
<1>5. ~Onward(s, k)
  BY Zenon, <1>0 DEF Onward, Link, r0
<1>6. ASSUME NEW l \in Places, NEW x \in Waiting(l)', Same(sent, x, p), x.n <= p.n
      PROVE  <<s, ServerOf(l)>> \in b
  <2>1. Leads(b, s, l, k)
    BY Zenon, <1>0, <1>1, <1>4, <1>6 DEF Paths, Followed
  <2>2. l # s
    BY Zenon, <1>1, <1>6
  <2> QED BY Zenon, <1>5, <2>1, <2>2, LeadsOut
<1>7. ASSUME NEW r \in Remotes, NEW y \in Bound(r)'
      PROVE  \/ y \in Bound(r)
             \/ \A l \in Places : \A x \in Waiting(l)' :
                  Same(sent, x, y) /\ x.n <= y.n => <<owner[far[r]], ServerOf(l)>> \in b
  <2>1. CASE r # r0
    BY Zenon, <1>3, <1>7, <2>1, EndsMeet
  <2>2. CASE r = r0 /\ y # p
    BY Zenon, <1>3, <1>7, <2>2
  <2>3. CASE r = r0 /\ y = p
    BY Zenon, <1>0, <1>6, <2>3
  <2> QED BY ZenonT(40), <2>1, <2>2, <2>3
<1> DEFINE M == {}
<1>8. /\ M \subseteq Waiting(s)
      /\ \A x \in M : \A n \in Places : \A j \in Keys :
           (j = Target(x) \/ Unlinked) /\ Leads(b, n, s, j) => Leads(b, n, s, j)
      /\ \A y \in M : \A l \in Places :
           l # s /\ Leads(b, s, l, Target(y)) => Leads(b, s, l, Target(y))
      /\ \A y \in M : \A x \in Waiting(s)' : Same(sent, x, y) => ~(x.n <= y.n)
      /\ \A t \in Servers : <<t, ServerOf(s)>> \in b => <<t, ServerOf(s)>> \in b
  BY Zenon
<1> HIDE DEF M
<1>9. Paths(g)'
  BY ZenonT(40), <1>0, <1>1, <1>4, <1>7, <1>8, PathsMoved
<1> QED BY <1>3, <1>9

(* The route leads to another server, and on from there. *)
LEMMA RouteOn ==
  ASSUME Before, GoOn, NEW b, NEW g, b \subseteq g, Started(b), Started(g)', Paths(b),
         NEW s \in Servers, NEW m \in GoodPackets, NEW p, NEW k, RoutesPacket(s, m, p, k),
         NEW c \in Conns, c = peers_sinks[s][k], owner[c] = s, Link(c, k),
         outgoing' = [outgoing EXCEPT ![s] = <<[sink |-> c, packet |-> m]>>]
  PROVE  StagesOrdered' /\ SocketsSorted' /\ Paths(g)'
<1> DEFINE e0 == far[c]
<1>0. /\ TypeOK /\ SafeInv /\ ChannelInv /\ RouteBacked /\ [Next]_vars
      /\ s \in Places /\ e0 \in Conns /\ e0 \in Ends /\ e0 \in Places /\ ~Unlinked
      /\ e0 \notin Remotes
  BY Zenon, EndsMeet, PlaceFacts DEF Before, RouteInv, Link, Unlinked
<1>1. /\ UNCHANGED sent /\ p = m.payload /\ k = Target(p) /\ k \in Keys
      /\ p \in Waiting(s) /\ Waiting(s)' = {}
      /\ UNCHANGED <<sent, received, pending, net, writing, sink>>
  BY Zenon DEF RoutesPacket
<1>2. <<s, owner[e0]>> \in b
  BY Zenon, <1>0, <1>1, OnwardLater DEF Onward
<1>3. /\ \A n : Leads(b, n, s, k) => Leads(b, n, e0, k)
      /\ \A l : l # s /\ Leads(b, s, l, k) => Leads(b, e0, l, k)
  BY Zenon, <1>0, <1>1, LeadsOn DEF Onward
<1> HIDE DEF e0
<1>4. \A x \in Bound(e0) : Same(sent, x, p) => ~(p.n <= x.n)
  <2> SUFFICES ASSUME NEW x \in Bound(e0), Same(sent, x, p), p.n <= x.n PROVE FALSE
    BY Zenon
  <2>1. Same(sent, p, x) /\ x \in Waiting(e0)
    BY Zenon, <1>0, WaitingAfter DEF Same
  <2>2. Leads(b, e0, s, Target(x))
    BY Zenon, <1>0, <1>1, <2>1 DEF Paths, Followed
  <2>3. Target(x) \in Keys
    BY Zenon, <1>0, <2>1, WaitingWasSent
  <2> QED BY Zenon, <1>0, <1>2, <2>2, <2>3, NoReturn
<1>5. /\ StagesOrdered' /\ SocketsSorted'
      /\ \A e \in Ends : e # e0 => Bound(e)' \subseteq Bound(e)
      /\ \A y \in Bound(e0)' : y \in Bound(e0) \/ y = p
  BY Zenon, <1>1, <1>4, RouteStages DEF e0
<1> DEFINE M == {p}
<1>6. ASSUME NEW l \in Places, NEW x \in Waiting(l)'
      PROVE  x \in Waiting(l) \/ (l = e0 /\ x \in M)
  <2>1. CASE l \in Servers
    BY Zenon, <1>6, <2>1, WaitingAfter DEF RoutesPacket
  <2>2. CASE l \in Conns
    <3>1. l \in Ends /\ x \in Bound(l)' /\ Waiting(l) = Bound(l)
      BY Zenon, <1>6, <2>2, WaitingAfter, EndsMeet
    <3> QED BY Zenon, <1>5, <3>1
  <2> QED BY Zenon, <2>1, <2>2, PlaceFacts
<1>7. \A r \in Remotes : \A y \in Bound(r)' : y \in Bound(r)
  BY Zenon, <1>0, <1>5, EndsMeet
<1>8. /\ M \subseteq Waiting(s)
      /\ \A x \in M : \A n \in Places : \A j \in Keys :
           (j = Target(x) \/ Unlinked) /\ Leads(b, n, s, j) => Leads(b, n, e0, j)
      /\ \A y \in M : \A l \in Places :
           l # s /\ Leads(b, s, l, Target(y)) => Leads(b, e0, l, Target(y))
      /\ \A y \in M : \A x \in Waiting(s)' : Same(sent, x, y) => ~(x.n <= y.n)
  BY Zenon, <1>0, <1>1, <1>3
<1>9. \A t \in Servers : <<t, ServerOf(s)>> \in b => <<t, ServerOf(e0)>> \in b
  <2>1. ServerOf(s) = s /\ ServerOf(e0) = owner[e0] /\ owner[e0] \in Servers
    BY Zenon, <1>0, PlaceFacts
  <2> QED BY Zenon, <1>2, <2>1 DEF Started
<1> HIDE DEF M
<1>10. /\ TypeOK /\ SafeInv /\ ChannelInv /\ RouteBacked /\ [Next]_vars /\ UNCHANGED sent
       /\ s \in Places /\ e0 \in Places
  BY <1>0, <1>1
<1>11. Paths(g)'
  BY ZenonT(40), <1>6, <1>7, <1>8, <1>9, <1>10, PathsMoved
<1> QED BY ZenonT(40), <1>5, <1>11

LEMMA RouteMoves ==
  ASSUME Before, GoOn, NEW b, NEW g, b \subseteq g, Started(b), Started(g)', Paths(b),
         NEW s \in Servers, LoopSendPacket(s)
  PROVE  StagesOrdered' /\ SocketsSorted' /\ Paths(g)'
<1>1. PICK m \in GoodPackets : /\ RoutesPacket(s, m, m.payload, m.target)
                               /\ outgoing' = [outgoing EXCEPT ![s] = Routed(s, m)]
  BY Zenon, RoutesTaken
<1>2. PICK p, k : p = m.payload /\ k = m.target
  OBVIOUS
<1>3. RoutesPacket(s, m, p, k)
  BY SMTT(40), <1>1, <1>2
<1>4. k \in Keys /\ k = Target(p)
  BY <1>3 DEF RoutesPacket
<1>5. CASE peers_sinks[s][k] = None
  <2>1. outgoing' = [outgoing EXCEPT ![s] = <<>>]
    BY SMTT(40), <1>1, <1>2, <1>5 DEF Routed
  <2>2. Calm
    BY Zenon, <1>3, <2>1, UnroutedCalm
  <2> QED BY Zenon, <2>2, CalmPaths DEF Calm
<1>6. CASE peers_sinks[s][k] # None
  <2>1. PICK c : c = peers_sinks[s][k]
    OBVIOUS
  <2>2. c \in Conns /\ owner[c] = s
    <3>1. c \in Conns
      <4>1. peers_sinks \in [Servers -> [Keys -> Conns \cup {None}]]
        BY Zenon DEF Before, TypeOK
      <4> QED BY SMT, <1>4, <1>6, <2>1, <4>1
    <3> QED BY Zenon, <1>4, <1>6, <2>1, <3>1 DEF Before, RouteInv, RouteBacked
  <2>3. outgoing' = [outgoing EXCEPT ![s] = <<[sink |-> c, packet |-> m]>>]
    BY SMTT(40), <1>1, <1>2, <1>6, <2>1 DEF Routed
  <2>4. CASE far[c] \in Remotes
    BY ZenonT(20), <1>3, <2>1, <2>2, <2>3, <2>4, RouteOut
  <2>5. CASE Link(c, k)
    BY ZenonT(20), <1>3, <2>1, <2>2, <2>3, <2>5, RouteOn
  <2>6. CASE far[c] \in Conns /\ ~Link(c, k)
    <3>1. ~Enters(far[c], p)
      BY Zenon, <1>4, <2>2, <2>6, EndsMeet DEF Enters
    <3>2. UNCHANGED <<sent, received, pending, net, writing, sink>>
      BY Zenon, <1>3 DEF RoutesPacket
    <3>3. /\ StagesOrdered' /\ SocketsSorted'
          /\ \A e \in Ends : e # far[c] => Bound(e)' \subseteq Bound(e)
          /\ \A y \in Bound(far[c])' : y \in Bound(far[c])
      BY Zenon, <1>2, <2>2, <2>3, <3>1, <3>2, RouteStages
    <3>4. Calm
      BY Zenon, <1>3, <3>3 DEF Calm, RoutesPacket
    <3> QED BY Zenon, <3>4, CalmPaths DEF Calm
  <2> QED BY Zenon, <2>2, <2>4, <2>5, <2>6, EndsMeet
<1> QED BY <1>5, <1>6

-----------------------------------------------------------------------------
(* A program sends a frame f: if it carries a packet, then p, its latest. *)

Submits(r, f, p) ==
  /\ f \in Frame /\ sent' = [sent EXCEPT ![r] = Append(sent[r], f)]
  /\ net' = [net EXCEPT ![far[r]] = Append(net[far[r]], f)]
  /\ UNCHANGED received /\ UNCHANGED pending /\ UNCHANGED writing /\ UNCHANGED sink
  /\ UNCHANGED outgoing /\ UNCHANGED commands /\ UNCHANGED reader /\ UNCHANGED writer
  /\ p = [from |-> r, n |-> Len(sent[r]) + 1]
  /\ FramePackets(<<f>>) \subseteq {p}
  /\ \A y \in FramePackets(<<f>>) : Target(y)' \in Keys

LEMMA RemoteSubmits ==
  ASSUME TypeOK, NEW r \in Remotes, RemoteSend(r)
  PROVE  \E f, p : Submits(r, f, p)
<1>0. PICK p : p = [from |-> r, n |-> Len(sent[r]) + 1]
  BY Zenon
<1>1. PICK f \in FramesOf(r) : /\ sent' = [sent EXCEPT ![r] = Append(sent[r], f)]
                               /\ net' = [net EXCEPT ![far[r]] = Append(net[far[r]], f)]
  BY ZenonT(20) DEF RemoteSend
<1>2. /\ UNCHANGED received /\ UNCHANGED pending /\ UNCHANGED writing /\ UNCHANGED sink
      /\ UNCHANGED outgoing /\ UNCHANGED commands /\ UNCHANGED reader /\ UNCHANGED writer
  BY ZenonT(20) DEF RemoteSend, service_vars, reader_vars, writer_vars
<1>3. f \in Frame
  BY ZenonT(20), SentFrame
<1>4. f.ty \in Data \cup {"SendPacket"} => f.payload = p /\ f.target \in Keys
  <2>1. f.ty \in Data \cup {"SendPacket"} => f.payload = p
    BY SMTT(30), <1>0 DEF FramesOf, Data, SendPacket, ForwardPacket, PeerPresent, Bare
  <2> QED BY SMTT(40), <1>3, <2>1, FrameFields DEF Data
<1>5. FramePackets(<<f>>) \subseteq {p} /\ (FramePackets(<<f>>) # {} => f.target \in Keys)
  BY <1>4 DEF FramePackets
<1>6. Target(p)' = f.target
  <2>1. sent'[r][Len(sent[r]) + 1] = f
    BY Zenon, <1>1, <1>3, SentGrows
  <2>2. p.from = r /\ p.n = Len(sent[r]) + 1
    BY SMTT(40), <1>0
  <2> QED BY <2>1, <2>2 DEF Target, TargetIn
<1>7. \A y \in FramePackets(<<f>>) : Target(y)' \in Keys
  <2> SUFFICES ASSUME NEW y \in FramePackets(<<f>>) PROVE Target(y)' \in Keys
    BY Zenon
  <2>1. y = p /\ f.target \in Keys
    BY SMTT(40), <1>5
  <2> QED BY SMTT(40), <1>6, <2>1
<1> QED BY Zenon, <1>0, <1>1, <1>2, <1>3, <1>5, <1>7 DEF Submits

(* The packets that were sent before *)
LEMMA SentBefore ==
  ASSUME TypeOK, NEW r \in Remotes, NEW f, NEW p, Submits(r, f, p)
  PROVE  /\ \A x \in SentPackets : TargetIn(sent', x) = TargetIn(sent, x)
         /\ \A x \in SentPackets : x.from = p.from => x.n < p.n /\ ~(p.n <= x.n)
         /\ \A x, y \in SentPackets : Same(sent', x, y) => Same(sent, x, y)
         /\ p.from = r
<1>1. \A x \in SentPackets : TargetIn(sent', x) = TargetIn(sent, x)
  <2> SUFFICES ASSUME NEW x \in SentPackets PROVE TargetIn(sent', x) = TargetIn(sent, x)
    OBVIOUS
  <2>1. Original(x)' = Original(x)
    BY Zenon, SentGrows DEF SentPackets, Submits
  <2> QED BY <2>1 DEF Original, TargetIn
<1>2. p.from = r /\ p.n = Len(sent[r]) + 1
  BY DEF Submits
<1>3. \A x \in SentPackets : x.from = p.from => x.n < p.n /\ ~(p.n <= x.n)
  <2>1. sent[r] \in Seq(Frame)
    BY DEF TypeOK
  <2>2. Len(sent[r]) \in Nat /\ DOMAIN sent[r] = 1..Len(sent[r])
    BY SMTT(40), <2>1, LenProperties
  <2> QED BY SMTT(40), <1>2, <2>2 DEF SentPackets
<1> QED BY SMTT(40), <1>1, <1>2, <1>3 DEF Same

LEMMA EntersSame ==
  ASSUME NEW e, NEW x, UNCHANGED reader, UNCHANGED writer, TargetIn(sent', x) = TargetIn(sent, x)
  PROVE  Enters(e, x)' <=> Enters(e, x)
<1>1. Target(x)' = Target(x)
  BY DEF Target
<1>2. Link(far[e], Target(x))' <=> Link(far[e], Target(x))
  <2>1. Link(far[e], Target(x))' <=> (far[e] \in Conns \ Outbound /\ far[far[e]] \in Conns
              /\ pk[far[e]] # Target(x)' /\ ~Closed(far[far[e]])')
    BY DEF Link
  <2>2. Closed(far[far[e]])' <=> Closed(far[far[e]])
    BY DEF Closed
  <2> QED BY SMTT(40), <1>1, <2>1, <2>2 DEF Link
<1> QED BY <1>2 DEF Enters

(* p comes to the socket of the program's connection, and all else stays. *)
LEMMA SubmitStages ==
  ASSUME Before, NEW r \in Remotes, NEW f, NEW p, Submits(r, f, p)
  PROVE  /\ \A e \in Ends : \A i \in Stages : \A x \in Stage(e, i)' :
              \/ x \in Stage(e, i) /\ x \in SentPackets
              \/ e = far[r] /\ i = 2 /\ x = p /\ x \in FramePackets(<<f>>)
         /\ \A i \in Stages : 2 < i => Stage(far[r], i)' = {}
         /\ FramePackets(net[far[r]]) \subseteq Stage(far[r], 2)
<1> DEFINE e0 == far[r]
<1>0. TypeOK /\ SafeInv /\ e0 \in Ends /\ e0 \in Conns /\ far[e0] = r /\ r \notin Conns
  BY Zenon, EndsMeet DEF Before
<1>1. /\ \A e \in Ends : \A i \in Stages :
           e # e0 \/ i # 2 => OnTheWay(e, i)' = OnTheWay(e, i)
      /\ OnTheWay(e0, 2)' \subseteq OnTheWay(e0, 2) \cup FramePackets(<<f>>)
  <2>1. /\ OnTheWay(e0, 2)' = FramePackets(Append(net[e0], f))
        /\ \A e \in Ends : e # e0 => OnTheWay(e, 2)' = OnTheWay(e, 2)
    BY Zenon, <1>0, WayNet DEF Submits
  <2>2. OnTheWay(e0, 2) = FramePackets(net[e0])
    BY Zenon, Ways
  <2>3. FramePackets(Append(net[e0], f)) \subseteq FramePackets(net[e0]) \cup FramePackets(<<f>>)
    <3>1. net[e0] \in Seq(Frame) /\ f \in Frame
      BY Zenon, <1>0, SequenceTypes DEF Submits
    <3> QED BY Zenon, <3>1, FramesAdded
  <2>4. \A e \in Ends : \A i \in Stages : i # 2 => OnTheWay(e, i)' = OnTheWay(e, i)
    BY ZenonT(20), WayKept, StageNumbers DEF Submits
  <2> QED BY Zenon, <2>1, <2>2, <2>3, <2>4
<1> HIDE DEF e0
<1>2. ASSUME NEW e \in Ends, NEW i \in Stages, NEW x \in Stage(e, i)'
      PROVE  \/ x \in Stage(e, i) /\ x \in SentPackets
             \/ e = e0 /\ i = 2 /\ x = p /\ x \in FramePackets(<<f>>)
  <2>1. x \in OnTheWay(e, i)' /\ Enters(e, x)'
    BY <1>2 DEF Stage
  <2>2. CASE x \in OnTheWay(e, i)
    <3>1. x \in SentPackets
      BY Zenon, <1>0, <2>2, WayWasSent
    <3>2. TargetIn(sent', x) = TargetIn(sent, x)
      BY Zenon, <1>0, <3>1, SentBefore
    <3>3. Enters(e, x)
      BY Zenon, <2>1, <3>2, EntersSame DEF Submits
    <3> QED BY Zenon, <2>2, <3>1, <3>3 DEF Stage
  <2>3. CASE x \notin OnTheWay(e, i)
    <3>1. e = e0 /\ i = 2 /\ x \in FramePackets(<<f>>)
      BY Zenon, <1>1, <2>1, <2>3
    <3> QED BY Zenon, <3>1 DEF Submits
  <2> QED BY <2>2, <2>3
<1>3. ASSUME NEW i \in Stages, 2 < i PROVE Stage(e0, i)' = {}
  <2>1. i = 3 \/ i = 4 \/ i = 5
    BY <1>3, StageNumbers
  <2>2. OnTheWay(e0, i)' = {}
    BY Zenon, <1>0, <2>1, WaysAfter
  <2> QED BY Zenon, <2>2 DEF Stage
<1>4. FramePackets(net[e0]) \subseteq Stage(e0, 2)
  BY Zenon, <1>0, Ways DEF Stage, Enters
<1> QED BY Zenon, <1>2, <1>3, <1>4 DEF e0

LEMMA SubmitOrders ==
  ASSUME Before, NEW r \in Remotes, NEW f, NEW p, Submits(r, f, p)
  PROVE  StagesOrdered' /\ SocketsSorted'
<1> DEFINE e0 == far[r]
<1>0. TypeOK /\ SafeInv /\ StagesOrdered /\ SocketsSorted /\ e0 \in Ends
  BY Zenon, EndsMeet DEF Before
<1>1. /\ \A e \in Ends : \A i \in Stages : \A x \in Stage(e, i)' :
           \/ x \in Stage(e, i) /\ x \in SentPackets
           \/ e = e0 /\ i = 2 /\ x = p /\ x \in FramePackets(<<f>>)
      /\ \A i \in Stages : 2 < i => Stage(e0, i)' = {}
      /\ FramePackets(net[e0]) \subseteq Stage(e0, 2)
  BY Zenon, SubmitStages
<1>2. /\ \A x \in SentPackets : x.from = p.from => x.n < p.n
      /\ \A x, y \in SentPackets : Same(sent', x, y) => Same(sent, x, y)
  BY Zenon, <1>0, SentBefore
<1>3. 1 \in Stages /\ 2 \in Stages
  BY DEF Stages
<1>4. \A e \in Ends : \A i \in Stages : \A x \in Stage(e, i) : x \in SentPackets
  BY Zenon, <1>0, WayWasSent DEF Stage
<1> HIDE DEF e0
<1>5. StagesOrdered'
  <2> SUFFICES ASSUME NEW e \in Ends, NEW i \in Stages, NEW j \in Stages, i < j,
                      NEW x \in Stage(e, i)', NEW y \in Stage(e, j)', Same(sent', x, y)
               PROVE  x.n < y.n
    BY Zenon DEF StagesOrdered, Precedes
  <2>1. x.from = y.from
    BY DEF Same
  <2>2. ASSUME x \notin Stage(e, i) PROVE FALSE
    <3>1. e = e0 /\ i = 2
      BY Zenon, <1>1, <2>2
    <3> QED BY Zenon, <1>1, <3>1
  <2>3. x \in Stage(e, i) /\ x \in SentPackets
    BY Zenon, <1>4, <2>2
  <2>4. CASE y \in Stage(e, j)
    <3>1. Same(sent, x, y)
      BY Zenon, <1>2, <1>4, <2>3, <2>4
    <3> QED BY Zenon, <1>0, <2>3, <2>4, <3>1 DEF StagesOrdered, Precedes
  <2>5. CASE y = p
    BY Zenon, <1>2, <2>1, <2>3, <2>5
  <2> QED BY Zenon, <1>1, <2>4, <2>5
<1>6. ASSUME NEW q, NEW e \in Ends, NEW i \in Stages, Sorted(sent, q, Stage(e, i))
      PROVE  Sorted(sent', q, Stage(e, i))
  BY ZenonT(20), <1>2, <1>4, <1>6 DEF Sorted
<1>7. ASSUME NEW e \in Ends, NEW i \in Stages, e # e0 \/ i # 2
      PROVE  Stage(e, i)' \subseteq Stage(e, i)
  BY Zenon, <1>1, <1>7
<1>8. \A e \in Ends : Sorted(sent', net'[e], Stage(e, 2)')
  <2>0. net \in [Ends -> Seq(Frame)] /\ net' = [net EXCEPT ![e0] = Append(net[e0], f)] /\ f \in Frame
    BY Zenon, <1>0, SequenceTypes DEF Submits, e0
  <2>1. net'[e0] = Append(net[e0], f) /\ \A e \in Ends : e # e0 => net'[e] = net[e]
    BY SMTT(40), <1>0, <2>0
  <2>2. \A e \in Ends : Sorted(sent', net[e], Stage(e, 2))
    BY Zenon, <1>0, <1>3, <1>6 DEF SocketsSorted
  <2>3. ASSUME NEW e \in Ends, e # e0 PROVE Sorted(sent', net'[e], Stage(e, 2)')
    <3>1. Stage(e, 2)' \subseteq Stage(e, 2)
      BY SMTT(40), <1>3, <1>7, <2>3
    <3>2. Sorted(sent', net[e], Stage(e, 2))
      BY Zenon, <2>2
    <3>3. Sorted(sent', net[e], Stage(e, 2)')
      BY SMTT(40), <3>1, <3>2, SortedPart
    <3> QED BY SMTT(40), <2>1, <2>3, <3>3
  <2>4. Precedes(sent', FramePackets(net[e0]) \cap Stage(e0, 2),
                        FramePackets(<<f>>) \cap Stage(e0, 2)')
    <3> SUFFICES ASSUME NEW x \in Stage(e0, 2), NEW y \in FramePackets(<<f>>), Same(sent', x, y)
                 PROVE  x.n < y.n
      BY Zenon DEF Precedes
    <3>1. y = p /\ x.from = y.from /\ x \in SentPackets
      BY Zenon, <1>0, <1>3, <1>4 DEF Submits, Same
    <3> QED BY Zenon, <1>2, <3>1
  <2>5. FramePackets(net[e0]) \cap Stage(e0, 2)' \subseteq Stage(e0, 2)
    BY Zenon, <1>1
  <2>6. Sorted(sent', Append(net[e0], f), Stage(e0, 2)')
    BY Zenon, <1>0, <2>0, <2>2, <2>4, <2>5, FramesAdded
  <2> QED BY Zenon, <2>1, <2>3, <2>6
<1>9. \A o \in Remotes : Sorted(sent', received'[o], Stage(o, 1)')
  <2>1. ASSUME NEW o \in Remotes PROVE Sorted(sent', received[o], Stage(o, 1)')
    <3>1. o \in Ends /\ o # e0
      BY Zenon, EndsMeet DEF e0
    <3>2. Sorted(sent', received[o], Stage(o, 1))
      BY Zenon, <1>0, <1>3, <1>6, <3>1 DEF SocketsSorted
    <3>3. Stage(o, 1)' \subseteq Stage(o, 1)
      BY Zenon, <1>3, <1>7, <3>1
    <3> QED BY Zenon, <3>2, <3>3, SortedPart
  <2> QED BY Zenon, <2>1 DEF Submits
<1> QED BY ZenonT(40), <1>5, <1>8, <1>9 DEF SocketsSorted

LEMMA SubmitPaths ==
  ASSUME Before, NEW b, NEW g, b \subseteq g, Started(b), Started(g)', Paths(b),
         NEW r \in Remotes, NEW f, NEW p, Submits(r, f, p)
  PROVE  Paths(g)'
<1> DEFINE e0 == far[r]
<1>0. /\ TypeOK /\ SafeInv /\ ChannelInv /\ RouteBacked /\ [Next]_vars
      /\ e0 \in Conns /\ e0 \in Ends /\ e0 \in Places
      /\ FromHome(b) /\ Followed(b) /\ Passed(b)
  BY Zenon, EndsMeet, PlaceFacts DEF Before, RouteInv, Paths
<1>1. ASSUME NEW e \in Ends, NEW x \in Bound(e)'
      PROVE  x \in Bound(e) \/ (e = e0 /\ x = p /\ x \in FramePackets(<<f>>))
  <2>1. PICK i \in Stages : x \in Stage(e, i)'
    BY Zenon, <1>1 DEF Bound
  <2>2. \A d \in Ends : \A j \in Stages : \A y \in Stage(d, j)' :
          \/ y \in Stage(d, j) /\ y \in SentPackets
          \/ d = far[r] /\ j = 2 /\ y = p /\ y \in FramePackets(<<f>>)
    BY Zenon, SubmitStages
  <2>3. x \in Stage(e, i) \/ (e = e0 /\ x = p /\ x \in FramePackets(<<f>>))
    BY Zenon, <2>1, <2>2
  <2> QED BY Zenon, <2>3 DEF Bound
<1>2. ASSUME NEW l \in Places, NEW x \in Waiting(l)'
      PROVE  \/ x \in Waiting(l) /\ x \in SentPackets /\ Target(x) \in Keys
             \/ l = e0 /\ x = p /\ x \in FramePackets(<<f>>)
  <2>1. CASE l \in Servers
    <3>1. x \in Waiting(l)
      BY Zenon, <1>2, <2>1, WaitingAfter DEF Submits
    <3> QED BY Zenon, <1>0, <3>1, WaitingWasSent
  <2>2. CASE l \in Conns
    <3>1. l \in Ends /\ x \in Bound(l)' /\ Waiting(l) = Bound(l)
      BY Zenon, <1>2, <2>2, WaitingAfter, EndsMeet
    <3>2. x \in Waiting(l) \/ (l = e0 /\ x = p /\ x \in FramePackets(<<f>>))
      BY Zenon, <1>1, <3>1
    <3> QED BY Zenon, <1>0, <3>2, WaitingWasSent
  <2> QED BY Zenon, <2>1, <2>2, PlaceFacts
<1>3. ASSUME NEW o \in Remotes, NEW y \in Bound(o)' PROVE y \in Bound(o) /\ y \in SentPackets
  <2>1. o \in Ends /\ o # e0
    BY Zenon, <1>0, EndsMeet
  <2>2. y \in Bound(o)
    BY Zenon, <1>1, <1>3, <2>1
  <2> QED BY Zenon, <1>0, <2>1, <2>2, WaitingWasSent
<1>4. /\ \A x \in SentPackets : TargetIn(sent', x) = TargetIn(sent, x)
      /\ \A x \in SentPackets : x.from = p.from => ~(p.n <= x.n)
      /\ \A x, y \in SentPackets : Same(sent', x, y) => Same(sent, x, y)
      /\ p.from = r
  BY Zenon, <1>0, SentBefore
<1>5. \A x \in SentPackets : Target(x)' = Target(x)
  BY Zenon, <1>4 DEF Target
<1>6. ASSUME NEW k \in Keys, NEW m, NEW l \in Places, Leads(b, m, l, k) PROVE Leads(g, m, l, k)'
  BY Zenon, <1>0, <1>6, NextRoutes, LeadsKept
<1>7. \A x \in FramePackets(<<f>>) : Target(x)' \in Keys
  BY SMTT(40) DEF Submits
<1>h. far[p.from] = e0
  BY <1>4
<1> HIDE DEF e0
<1>8. FromHome(g)'
  <2> SUFFICES ASSUME NEW l \in Places, NEW x \in Waiting(l)', NEW k \in Keys,
                      k = Target(x)' \/ Unlinked
               PROVE  Leads(b, far[x.from], l, k)
    BY Zenon, <1>6 DEF FromHome
  <2>1. CASE x \in Waiting(l) /\ x \in SentPackets
    <3>1. k = Target(x) \/ Unlinked
      BY Zenon, <1>5, <2>1
    <3> QED BY Zenon, <1>0, <2>1, <3>1 DEF FromHome
  <2>2. CASE l = e0 /\ x = p
    BY Zenon, <1>h, <2>2, LeadsSelf
  <2> QED BY Zenon, <1>2, <2>1, <2>2
<1>9. Followed(g)'
  <2> SUFFICES ASSUME NEW l \in Places, NEW m \in Places,
                      NEW x \in Waiting(l)', NEW y \in Waiting(m)',
                      Same(sent', x, y), x.n <= y.n
               PROVE  Target(y)' \in Keys /\ Leads(b, m, l, Target(y)')
    BY Zenon, <1>6 DEF Followed
  <2>0. x.from = y.from /\ (TargetIn(sent', x) = TargetIn(sent', y) \/ Unlinked)
    BY DEF Same
  <2>1. CASE x \in SentPackets /\ x \in Waiting(l) /\ y \in SentPackets /\ y \in Waiting(m)
            /\ Target(y) \in Keys
    <3>1. Target(y)' = Target(y) /\ Same(sent, x, y)
      BY Zenon, <1>4, <1>5, <2>1
    <3>2. Leads(b, m, l, Target(y))
      BY Zenon, <1>0, <2>1, <3>1 DEF Followed
    <3> QED BY SMTT(40), <2>1, <3>1, <3>2
  <2>2. CASE x \in SentPackets /\ x \in Waiting(l)
             /\ m = e0 /\ y = p /\ y \in FramePackets(<<f>>)
    <3>1. Target(y)' \in Keys
      BY Zenon, <1>7, <2>2
    <3>2. Target(y)' = Target(x) \/ Unlinked
      BY Zenon, <1>4, <2>0, <2>2 DEF Target
    <3>3. far[x.from] = e0
      BY Zenon, <1>h, <2>0, <2>2
    <3>4. Leads(b, far[x.from], l, Target(y)')
      BY Zenon, <1>0, <2>2, <3>1, <3>2 DEF FromHome
    <3> QED BY ZenonT(40), <2>2, <3>1, <3>3, <3>4
  <2>3. CASE x = p /\ y \in SentPackets
    BY Zenon, <1>4, <2>0, <2>3
  <2>4. CASE l = e0 /\ m = e0 /\ y \in FramePackets(<<f>>)
    BY Zenon, <1>7, <2>4, LeadsSelf
  <2> QED BY Zenon, <1>2, <2>1, <2>2, <2>3, <2>4
<1>10. Passed(g)'
  <2> SUFFICES ASSUME NEW o \in Remotes, NEW y \in Bound(o)', NEW l \in Places,
                      NEW x \in Waiting(l)', Same(sent', x, y), x.n <= y.n
               PROVE  <<owner[far[o]], ServerOf(l)>> \in b
    BY Zenon DEF Passed
  <2>1. y \in Bound(o) /\ y \in SentPackets
    BY Zenon, <1>3
  <2>2. CASE x \in Waiting(l) /\ x \in SentPackets
    <3>1. Same(sent, x, y)
      BY Zenon, <1>4, <2>1, <2>2
    <3> QED BY Zenon, <1>0, <2>1, <2>2, <3>1 DEF Passed
  <2>3. CASE x = p
    BY Zenon, <1>4, <2>1, <2>3 DEF Same
  <2> QED BY Zenon, <1>2, <2>2, <2>3
<1> QED BY SMTT(40), <1>8, <1>9, <1>10 DEF Paths

-----------------------------------------------------------------------------
(* All steps *)

LEMMA StepsCalm ==
  ASSUME Before, GoOn
  PROVE  \/ Calm
         \/ \E c \in Conns : SendCommand(c)
         \/ \E s \in Servers : LoopSendPacket(s)
         \/ \E r \in Remotes : RemoteSend(r)
<1>0. [Next]_vars /\ Outbound \subseteq Conns
  BY EndsMeet DEF Before
<1>1. CASE UNCHANGED vars
  BY ZenonT(20), <1>1, QuietCalm DEF vars, service_vars, reader_vars, writer_vars, socket_vars,
     history_vars
<1>2. ASSUME NEW s \in Servers, ServerStep(s), ~LoopSendPacket(s) PROVE Calm
  <2>1. CASE StartAccepting(s)
    BY ZenonT(20), <2>1, QuietCalm DEF StartAccepting, reader_vars, writer_vars, socket_vars,
       history_vars
  <2> QED BY ZenonT(20), <1>2, <2>1, DeliverCalm, LoopDropCalm DEF ServerStep
<1>3. ASSUME NEW c \in Conns, MeshStart(c) \/ MeshStartFails(c) \/ MeshClientStep(c),
             ~SendCommand(c)
      PROVE  Calm
  BY ZenonT(20), <1>3, ReadersCalm, WritersCalm, ArrivalsCalm DEF MeshClientStep
<1>4. ASSUME NEW c \in Conns, AddNewClient(c) \/ RefuseClient(c) \/ ClientStep(c), ~SendCommand(c)
      PROVE  Calm
  BY ZenonT(20), <1>4, ReadersCalm, WritersCalm, ArrivalsCalm DEF ClientStep
<1>5. ASSUME NEW c \in Conns, AnnounceNext(c) \/ FloodNext(c) \/ LinkDown(c) PROVE Calm
  BY Zenon, <1>5, NoticesCalm
<1>6. ASSUME NEW r \in Remotes, RemoteRecv(r) PROVE Calm
  BY Zenon, <1>6, ArriveCalm
<1>7. CASE Next
  <2>1. CASE \E s \in Servers : ServerStep(s)
    BY Zenon, <1>2, <2>1
  <2>2. CASE \E c \in Outbound : MeshStart(c) \/ MeshStartFails(c) \/ MeshClientStep(c)
    BY Zenon, <1>0, <1>3, <2>2
  <2>3. CASE \E c \in Conns \ Outbound : AddNewClient(c) \/ RefuseClient(c) \/ ClientStep(c)
    BY Zenon, <1>4, <2>3
  <2>4. CASE \E c \in Conns : AnnounceNext(c) \/ FloodNext(c) \/ LinkDown(c)
    BY Zenon, <1>5, <2>4
  <2>5. CASE \E r \in Remotes : RemoteSend(r) \/ RemoteRecv(r)
    BY Zenon, <1>6, <2>5
  <2> QED BY Zenon, <1>7, <2>1, <2>2, <2>3, <2>4, <2>5 DEF Next
<1> QED BY SMTT(40), <1>0, <1>1, <1>7

LEMMA NextOrder ==
  ASSUME TypeOK, SafeInv, RouteInv, OrderInv, [Next]_vars
  PROVE  OrderInv'
<1>1. Before /\ GoOn /\ ChannelInv'
  BY Zenon, NextGoesOn, NextChannel DEF Before, OrderInv
<1>2. PICK b \in SUBSET (Servers \X Servers) : Started(b) /\ Paths(b)
  BY Zenon DEF OrderInv
<1>3. PICK g \in SUBSET (Servers \X Servers) : b \subseteq g /\ Started(g)'
  BY Zenon, <1>2, StartedGrows DEF OrderInv
<1>4. StagesOrdered' /\ SocketsSorted' /\ Paths(g)'
  <2>1. CASE Calm
    BY Zenon, <1>1, <1>2, <1>3, <2>1, CalmPaths DEF Calm
  <2>2. ASSUME NEW c \in Conns, SendCommand(c) PROVE StagesOrdered' /\ SocketsSorted' /\ Paths(g)'
    BY Zenon, <1>1, <1>2, <1>3, <2>2, SendMoves
  <2>3. ASSUME NEW s \in Servers, LoopSendPacket(s)
        PROVE  StagesOrdered' /\ SocketsSorted' /\ Paths(g)'
    BY Zenon, <1>1, <1>2, <1>3, <2>3, RouteMoves
  <2>4. ASSUME NEW r \in Remotes, RemoteSend(r)
        PROVE  StagesOrdered' /\ SocketsSorted' /\ Paths(g)'
    <3>1. PICK f, p : Submits(r, f, p)
      BY Zenon, <2>4, RemoteSubmits
    <3> QED BY Zenon, <1>1, <1>2, <1>3, <3>1, SubmitOrders, SubmitPaths
  <2> QED BY Zenon, <1>1, <2>1, <2>2, <2>3, <2>4, StepsCalm
<1>5. \E before \in SUBSET (Servers \X Servers) : Started(before)' /\ Paths(before)'
  BY Zenon, <1>3, <1>4
<1> QED BY SMTT(40), <1>1, <1>4, <1>5 DEF OrderInv

LEMMA InitOrder == ASSUME Init PROVE OrderInv
<1>1. /\ \A s \in Servers : commands[s] = <<>> /\ outgoing[s] = <<>>
      /\ \A c \in Conns : pending[c] = <<>> /\ sink[c] = <<>> /\ writing[c] = <<>>
      /\ \A e \in Ends : net[e] = <<>>
      /\ \A r \in Remotes : received[r] = <<>>
  BY DEF Init
<1>2. ASSUME NEW e \in Ends, NEW i \in Stages PROVE Stage(e, i) = {}
  <2>1. OnTheWay(e, 1) = {} /\ OnTheWay(e, 2) = {}
    <3>1. e \in Remotes \/ (e \in Conns /\ e \notin Remotes)
      BY EndsMeet
    <3> QED BY SMTT(40), <1>1, <3>1, NoPackets, Ways
  <2>2. OnTheWay(e, 3) = {} /\ OnTheWay(e, 4) = {} /\ OnTheWay(e, 5) = {}
    <3>1. CASE far[e] \in Conns
      <4>1. owner[far[e]] \in Servers
        BY SMTT(40), <3>1, EndsMeet
      <4>2. writing[far[e]] = <<>> /\ sink[far[e]] = <<>> /\ outgoing[owner[far[e]]] = <<>>
        BY SMTT(40), <1>1, <3>1, <4>1
      <4> QED BY SMTT(40), <3>1, <4>2, NoPackets, Ways
    <3>2. CASE far[e] \notin Conns
      BY Zenon, <3>2, Ways
    <3> QED BY SMTT(40), <3>1, <3>2
  <2>3. OnTheWay(e, i) = {}
    BY Zenon, <2>1, <2>2, StageNumbers
  <2> QED BY Zenon, <2>3 DEF Stage
<1>3. StagesOrdered
  BY Zenon, <1>2 DEF StagesOrdered, Precedes
<1>4. SocketsSorted
  BY <1>1 DEF SocketsSorted, Sorted
<1>5. (\A e \in Ends : Bound(e) = {}) /\ (\A l \in Places : Waiting(l) = {})
  <2>1. \A e \in Ends : Bound(e) = {}
    BY Zenon, <1>2 DEF Bound
  <2>2. \A c \in Conns : Waiting(c) = {}
    BY Zenon, <2>1, WaitingAfter, EndsMeet
  <2>3. \A s \in Servers : Waiting(s) = {}
    BY Zenon, <1>1, WaitingAfter, NoPackets
  <2> QED BY Zenon, <2>1, <2>2, <2>3, PlaceFacts
<1>6. \A b : Paths(b)
  BY Zenon, <1>5, EndsMeet DEF Paths, FromHome, Followed, Passed
<1>7. Started({})
  BY EndsMeet DEF Init, Started, Awake
<1>8. {} \in SUBSET (Servers \X Servers)
  OBVIOUS
<1>9. ChannelInv
  BY InitChannel
<1> QED BY Zenon, <1>3, <1>4, <1>6, <1>7, <1>8, <1>9 DEF OrderInv

(* What a program received from the same sender *)
LEMMA ReceivedInOrder ==
  ASSUME SafeInv, OrderInv, NEW r \in Remotes,
         NEW i \in DOMAIN received[r], NEW j \in DOMAIN received[r], i < j,
         received[r][i].ty \in Data, received[r][j].ty \in Data,
         received[r][i].payload.from = received[r][j].payload.from,
         received[r][i].target = received[r][j].target \/ Unlinked
  PROVE  received[r][i].payload.n < received[r][j].payload.n
<1>1. Sorted(sent, received[r], Stage(r, 1)) /\ r \in Ends /\ 1 \in Stages
  <2>1. Sorted(sent, received[r], Stage(r, 1)) /\ r \in Ends
    BY Zenon, EndsMeet DEF OrderInv, SocketsSorted
  <2>2. 1 \in Stages
    BY DEF Stages
  <2> QED BY Zenon, <2>1, <2>2
<1>2. ASSUME NEW l \in DOMAIN received[r], received[r][l].ty \in Data
      PROVE  /\ received[r][l].target = TargetIn(sent, received[r][l].payload)
             /\ received[r][l].payload \in Stage(r, 1)
  <2>1. received[r] \in Seq(GoodFrames(r))
    BY Zenon DEF SafeInv, ReceivedSafe
  <2>2. received[r][l] \in GoodFrames(r)
    BY ZenonT(40), <2>1, SeqElement
  <2>3. received[r][l].target = TargetIn(sent, received[r][l].payload)
    BY Zenon, <1>2, <2>2, GoodFramesSent DEF Target
  <2>4. received[r][l].payload \in FramePackets(received[r])
    BY SMTT(40), <1>2 DEF FramePackets
  <2> QED BY Zenon, <2>3, <2>4, Ways, EndsMeet DEF Stage, Enters
<1>3. Same(sent, received[r][i].payload, received[r][j].payload)
  BY <1>2 DEF Same
<1> QED BY Zenon, <1>1, <1>2, <1>3 DEF Sorted

=============================================================================
