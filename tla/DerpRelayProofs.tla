---------------------------- MODULE DerpRelayProofs ---------------------------
(***************************************************************************)
(* What the order comes to, for any servers, however they are linked: the  *)
(* order of what programs receive, and the refinement.  The histories of   *)
(* the programs are the same in the servers and in the relay of DerpRelay; *)
(* a key is known when a server has a route for it.                        *)
(***************************************************************************)
EXTENDS DerpOrderProofs, DerpSafetyProofs

(***************************************************************************)
(* However the servers are linked, the packets of one sender to one key    *)
(* stay in order in every socket, channel and task on their way and across *)
(* them.  (read_loop, command_loop and write_loop each hold one packet at  *)
(* a time, the channels between them are queues, and main connects to the  *)
(* mesh peers before it accepts connections, so that routes lead back in   *)
(* the order in which the servers started.)                                *)
(***************************************************************************)
THEOREM StaysInOrder == Spec => []OrderInv
<1>1. Init => OrderInv
  BY InitOrder
<1>2. TypeOK /\ SafeInv /\ RouteInv /\ OrderInv /\ [Next]_vars => OrderInv'
  BY NextOrder
<1> QED BY <1>1, <1>2, TypeCorrect, Safety, RoutesHaveReasons, PTL DEF Spec

(***************************************************************************)
(* Packets of one sender to one key reach a receiver in the order in which *)
(* they were sent, and none twice, over any number of linked servers.      *)
(***************************************************************************)
THEOREM KeysStayInOrder == Spec => []KeyInOrder
<1>1. SafeInv /\ OrderInv => KeyInOrder
  BY Zenon, ReceivedInOrder DEF KeyInOrder
<1> QED BY <1>1, Safety, StaysInOrder, PTL

(***************************************************************************)
(* On servers that are not linked to other dersp servers, all packets of   *)
(* one sender reach a receiver in the order in which they were sent.       *)
(***************************************************************************)
THEOREM DeliveryInOrder == Spec => [](Unlinked => InOrder)
<1>1. SafeInv /\ OrderInv => (Unlinked => InOrder)
  BY Zenon, ReceivedInOrder DEF InOrder
<1> QED BY <1>1, Safety, StaysInOrder, PTL

-----------------------------------------------------------------------------
(* Refinement *)

(* A step that neither the programs nor the routes take part in *)
LEMMA StepStutters ==
  ASSUME UNCHANGED <<sent, received>>, UNCHANGED peers_sinks
  PROVE  RelayNext
<1>1. UNCHANGED KnownKeys
  BY DEF KnownKeys, Known
<1> QED BY <1>1 DEF RelayNext, Relay!vars

(* The newest element of a history that has grown *)
LEMMA NewestIs ==
  ASSUME NEW h \in [Remotes -> Seq(Frame)], NEW r \in Remotes, NEW f \in Frame,
         NEW g, g = [h EXCEPT ![r] = Append(@, f)]
  PROVE  /\ Len(g[r]) = Len(h[r]) + 1
         /\ g[r][Len(g[r])] = f
<1>1. g[r] = Append(h[r], f) /\ h[r] \in Seq(Frame)
  OBVIOUS
<1> QED BY SMTT(40), <1>1, AppendProperties

LEMMA SendSubmits ==
  ASSUME TypeOK, NEW r \in Remotes, RemoteSend(r)
  PROVE  RelayNext
<1>1. PICK f \in FramesOf(r) : sent' = [sent EXCEPT ![r] = Append(@, f)]
  BY ZenonT(20) DEF RemoteSend
<1>2. f \in Frame
  BY SMTT(40), SentFrame
<1>3. UNCHANGED received /\ UNCHANGED peers_sinks
  BY Zenon DEF RemoteSend, service_vars
<1>4. UNCHANGED KnownKeys
  BY SMTT(40), <1>3 DEF KnownKeys, Known
<1>5. Len(sent'[r]) = Len(sent[r]) + 1 /\ sent'[r][Len(sent'[r])] = f
  <2>1. sent \in [Remotes -> Seq(Frame)]
    BY Zenon DEF TypeOK
  <2> QED BY <1>1, <1>2, <2>1, NewestIs, SMTT(40)
<1>6. Relay!Submit(r)
  BY <1>1, <1>2, <1>3, <1>4, <1>5, ZenonT(40) DEF Relay!Submit, Relay!Newest
<1> QED BY SMTT(40), <1>6 DEF RelayNext, Relay!Next

(* Routes appear one at a time. *)
LEMMA RouteLearnt ==
  ASSUME TypeOK, NEW s \in Servers, NEW k \in Keys, NEW c \in Conns,
         UNCHANGED <<sent, received>>,
         \/ peers_sinks' = [peers_sinks EXCEPT ![s][k] = c]
         \/ peers_sinks' = [peers_sinks EXCEPT ![s][k] = FirstRoute(@, c)]
  PROVE  RelayNext
<1>1. peers_sinks \in [Servers -> [Keys -> Conns \cup {None}]] /\ c # None
  BY SMTT(40), NetAssumption DEF TypeOK
<1>2. /\ Known(s, k)'
      /\ \A t \in Servers : \A x \in Keys : x # k => (Known(t, x)' <=> Known(t, x))
      /\ \A t \in Servers : t # s => (Known(t, k)' <=> Known(t, k))
  BY <1>1 DEF Known, FirstRoute
<1>3. KnownKeys' = KnownKeys \cup {k}
  BY <1>2 DEF KnownKeys
<1>4. Relay!Learn(k)
  BY SMTT(40), <1>3 DEF Relay!Learn
<1> QED BY ZenonT(40), <1>4 DEF RelayNext, Relay!Next

LEMMA RecvDelivers ==
  ASSUME TypeOK, SafeInv, RouteInv, OrderInv, NEW r \in Remotes, RemoteRecv(r)
  PROVE  RelayNext
<1> DEFINE c == far[r]
           f == Head(net[r])
           p == f.payload
<1>1. /\ r \in Ends /\ c \in Conns /\ c \in Ends /\ far[c] = r /\ owner[c] \in Servers
      /\ net[r] # <<>> /\ received' = [received EXCEPT ![r] = Append(@, f)]
  BY ZenonT(40), EndsMeet DEF RemoteRecv
<1>2. f \in GoodFrames(r) /\ f \in RoutedFrames(r) /\ f \in Frame
  <2>1. /\ net[r] \in Seq(GoodFrames(r)) /\ net[r] \in Seq(RoutedFrames(r))
        /\ net[r] \in Seq(Frame)
    BY SMTT(40), <1>1, SequenceTypes DEF SafeInv, NetSafe, RouteInv, NetRouted
  <2> QED BY ZenonT(40), <1>1, <2>1, FirstIn
<1>3. UNCHANGED sent /\ UNCHANGED KnownKeys
  BY DEF RemoteRecv, service_vars, KnownKeys, Known
<1>4. Len(received'[r]) = Len(received[r]) + 1 /\ received'[r][Len(received'[r])] = f
  <2>1. received \in [Remotes -> Seq(Frame)]
    BY Zenon DEF TypeOK
  <2> HIDE DEF c, f
  <2> QED BY <1>1, <1>2, <2>1, NewestIs, SMTT(40)
<1> HIDE DEF f
<1>5. f.ty \in Data => f.target \in Keys /\ p \in Payload
  BY <1>2 DEF Frame, Data
<1>6. f.ty = "PeerPresent" => f.public_key \in Keys
  BY <1>2 DEF Frame
<1>7. f.ty \in Data => f.target \in KnownKeys
  BY ZenonT(40), <1>1, <1>2, <1>5 DEF RoutedFrames, KnownKeys
<1>8. f.ty = "PeerPresent" => f.public_key \in KnownKeys
  BY ZenonT(40), <1>1, <1>2, <1>6 DEF RoutedFrames, KnownKeys, Told
<1>9. f.ty \in {"ForwardPacket", "PeerPresent"} => r \in {q \in Remotes : far[q] \in Meshers}
  BY SMTT(40), <1>2 DEF GoodFrames
<1>10. f.ty = "RecvPacket" => f.target = [q \in Remotes |-> KeyOf(q)][r]
  BY ZenonT(40), <1>2 DEF GoodFrames, KeyOf
<1>11. f.ty \in Data => Relay!Authentic(f)
  <2> SUFFICES ASSUME f.ty \in Data PROVE Relay!Authentic(f)
    OBVIOUS
  <2>1. Addressed(f.target, p) /\ (f.ty = "ForwardPacket" => f.source = TrueSource(p))
    BY SMTT(40), <1>2 DEF GoodFrames, Genuine, Data
  <2>2. p.from \in Remotes
    BY <1>5 DEF Payload
  <2> HIDE DEF p
  <2>3. TrueSource(p) = IF sent[p.from][p.n].ty = "SendPacket"
                          THEN [q \in Remotes |-> KeyOf(q)][p.from]
                          ELSE sent[p.from][p.n].source
    BY ZenonT(40), <2>2 DEF TrueSource, Original
  <2> QED BY SMTT(40), <2>1, <2>3 DEF Relay!Authentic, Addressed, Original, p
<1>12. f.ty \in Data => Relay!InSequence(r, f)
  <2> SUFFICES ASSUME f.ty \in Data, NEW i \in DOMAIN received[r],
                      received[r][i].ty \in Data, received[r][i].payload.from = p.from,
                      received[r][i].target = f.target
               PROVE  received[r][i].payload.n < p.n
    BY DEF Relay!InSequence, Relay!IsPacket, Data
  <2> DEFINE x == received[r][i].payload
  <2>1. x \in Stage(r, 1) /\ received[r][i].target = Target(x)
    <3>1. received[r] \in Seq(GoodFrames(r))
      BY Zenon DEF SafeInv, ReceivedSafe
    <3>2. received[r][i] \in GoodFrames(r)
      BY SMTT(40), <3>1, SeqElement
    <3>3. received[r][i].target = Target(x)
      BY Zenon, <3>2, GoodFramesSent
    <3>4. x \in FramePackets(received[r])
      BY DEF FramePackets
    <3> QED BY Zenon, <3>3, <3>4, Ways, EndsMeet DEF Stage, Enters
  <2>2. p \in Stage(r, 2) /\ f.target = Target(p)
    <3>1. 1 \in DOMAIN net[r] /\ net[r][1] = f
      BY ZenonT(40), <1>1, SequenceTypes, FirstIn DEF f
    <3>2. p \in FramePackets(net[r])
      BY ZenonT(40), <3>1 DEF FramePackets
    <3>3. f.target = Target(p)
      BY Zenon, <1>2, GoodFramesSent
    <3> QED BY Zenon, <3>2, <3>3, Ways, EndsMeet DEF Stage, Enters
  <2> HIDE DEF x, p
  <2>3. Same(sent, x, p)
    BY Zenon, <2>1, <2>2 DEF Same, Target, x
  <2>4. Precedes(sent, Stage(r, 1), Stage(r, 2))
    BY SMTT(40), <1>1 DEF OrderInv, StagesOrdered, Stages
  <2> QED BY ZenonT(40), <2>1, <2>2, <2>3, <2>4 DEF Precedes, x
<1>13. Relay!Deliver(r)
  <2>1. Relay!IsPacket(f) => f.ty \in Data
    BY DEF Relay!IsPacket, Data
  <2> QED BY ZenonT(40), <1>1, <1>2, <1>3, <1>4, <1>7, <1>8, <1>9, <1>10, <1>11, <1>12, <2>1
          DEF Relay!Deliver, Relay!Newest
<1> QED BY <1>13 DEF RelayNext, Relay!Next

(* Each step of the servers is one of the relay, or none. *)
LEMMA NextRelays ==
  ASSUME TypeOK, SafeInv, RouteInv, OrderInv, [Next]_vars
  PROVE  RelayNext
<1>1. CASE UNCHANGED vars
  BY SMTT(40), <1>1, StepStutters DEF vars, service_vars, history_vars
<1>2. CASE Next
  <2>1. ASSUME NEW r \in Remotes, RemoteSend(r) \/ RemoteRecv(r) PROVE RelayNext
    BY SMTT(40), <2>1, SendSubmits, RecvDelivers
  <2>2. CASE UNCHANGED <<sent, received>>
    <3>1. CASE UNCHANGED peers_sinks
      BY SMTT(40), <2>2, <3>1, StepStutters
    <3>2. ASSUME NEW c \in Conns, AddNewClient(c) PROVE RelayNext
      <4>1. owner[c] \in Servers /\ pk[c] \in Keys
        BY NetAssumption
      <4>2. peers_sinks' = [peers_sinks EXCEPT ![owner[c]][pk[c]] = c]
        BY <3>2 DEF AddNewClient
      <4> QED BY Zenon, <2>2, <4>1, <4>2, RouteLearnt
    <3>3. ASSUME NEW s \in Servers, LoopPeerPresent(s) PROVE RelayNext
      <4> DEFINE m == Head(commands[s])
      <4>1. m.key \in Keys /\ m.sink \in Conns
        <5>1. m \in ServiceCommand /\ m.cmd = "PeerPresent"
          BY ZenonT(40), <3>3, SequenceTypes, FirstIn DEF LoopPeerPresent, LoopReceives
        <5> QED BY SMTT(40), <5>1, CommandFields
      <4>2. peers_sinks' = [peers_sinks EXCEPT ![s][m.key] = FirstRoute(@, m.sink)]
        BY <3>3 DEF LoopPeerPresent
      <4> HIDE DEF m
      <4> QED BY ZenonT(40), <2>2, <4>1, <4>2, RouteLearnt
    <3> QED BY SMTT(40), <1>2, <3>1, <3>2, <3>3, RoutesUntouched
  <2> QED BY ZenonT(40), <1>2, <2>1, <2>2, HistoryUntouched
<1> QED BY SMTT(40), <1>1, <1>2

LEMMA InitRelays == Init => RelayInit
<1> SUFFICES ASSUME Init PROVE RelayInit
  OBVIOUS
<1>1. KnownKeys = {}
  BY DEF Init, KnownKeys, Known
<1>2. sent = [r \in Remotes |-> <<>>] /\ received = [r \in Remotes |-> <<>>]
  BY DEF Init
<1> QED BY SMTT(40), <1>1, <1>2 DEF RelayInit, Relay!Init

(***************************************************************************)
(* The servers, linked in any way, seen from the programs that connect to  *)
(* them, behave as the abstract relay: each packet that write_loop puts on *)
(* a socket is one that was sent, unaltered, to a key a server knows, and  *)
(* comes after those that its sender sent to that key before it.           *)
(***************************************************************************)
THEOREM RelayImplemented == Spec => ImplementsRelay
<1>1. Init => RelayInit
  BY InitRelays
<1>2. TypeOK /\ SafeInv /\ RouteInv /\ OrderInv /\ [Next]_vars => [RelayNext]_vars
  BY NextRelays
<1> QED BY <1>1, <1>2, TypeCorrect, Safety, RoutesHaveReasons, StaysInOrder, PTL
        DEF Spec, ImplementsRelay

=============================================================================
