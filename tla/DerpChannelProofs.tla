-------------------------- MODULE DerpChannelProofs --------------------------
(***************************************************************************)
(* What the channels, tasks and links of the servers hold, for any mesh:   *)
(* the first part of OrderInv.  Before that, sequences of packets: what    *)
(* taking from the front of one and appending to the next does to the      *)
(* order.  After it, what a step may do to the order of the starts, to the *)
(* ways that packets take, to the stages and to the places.                *)
(***************************************************************************)
EXTENDS DerpTypeProofs, DerpOrder

-----------------------------------------------------------------------------
(* Packets in sequences *)

LEMMA NoPackets ==
  /\ FramePackets(<<>>) = {} /\ CommandPackets(<<>>) = {}
  /\ \A c : HeldPackets(<<>>, c) = {}
BY DEF FramePackets, CommandPackets, HeldPackets

(* What a reader takes from a socket is earlier than what it leaves. *)
LEMMA FramesTaken ==
  ASSUME NEW h, NEW P, NEW q \in Seq(Frame), q # <<>>
  PROVE  /\ FramePackets(<<Head(q)>>) \subseteq FramePackets(q)
         /\ FramePackets(Tail(q)) \subseteq FramePackets(q)
         /\ Sorted(h, q, P) =>
              /\ Sorted(h, Tail(q), P)
              /\ Precedes(h, FramePackets(<<Head(q)>>) \cap P, FramePackets(Tail(q)) \cap P)
<1>1. /\ Len(q) \in Nat /\ Len(q) >= 1 /\ DOMAIN q = 1..Len(q) /\ Head(q) = q[1]
      /\ DOMAIN Tail(q) = 1..(Len(q) - 1)
      /\ \A i \in 1..(Len(q) - 1) : Tail(q)[i] = q[i + 1]
  BY HeadTailProperties, LenProperties, EmptySeq
<1>2. FramePackets(<<Head(q)>>) \subseteq FramePackets(q)
  BY <1>1 DEF FramePackets
<1>3. FramePackets(Tail(q)) \subseteq FramePackets(q)
  BY <1>1 DEF FramePackets
<1>4. ASSUME Sorted(h, q, P) PROVE Sorted(h, Tail(q), P)
  BY <1>1, <1>4 DEF Sorted
<1>5. ASSUME Sorted(h, q, P)
      PROVE  Precedes(h, FramePackets(<<Head(q)>>) \cap P, FramePackets(Tail(q)) \cap P)
  BY <1>1, <1>5 DEF Sorted, Precedes, FramePackets
<1> QED BY <1>2, <1>3, <1>4, <1>5

(* A write adds one frame at the end. *)
LEMMA FramesAdded ==
  ASSUME NEW h, NEW P, NEW Q, NEW q \in Seq(Frame), NEW f \in Frame
  PROVE  /\ FramePackets(Append(q, f)) \subseteq FramePackets(q) \cup FramePackets(<<f>>)
         /\ (/\ Sorted(h, q, P) /\ FramePackets(q) \cap Q \subseteq P
             /\ Precedes(h, FramePackets(q) \cap P, FramePackets(<<f>>) \cap Q))
              => Sorted(h, Append(q, f), Q)
<1>1. /\ Len(q) \in Nat /\ DOMAIN q = 1..Len(q)
      /\ DOMAIN Append(q, f) = 1..(Len(q) + 1)
      /\ \A i \in 1..Len(q) : Append(q, f)[i] = q[i]
      /\ Append(q, f)[Len(q) + 1] = f
  BY AppendProperties, LenProperties
<1>2. FramePackets(Append(q, f)) \subseteq FramePackets(q) \cup FramePackets(<<f>>)
  BY <1>1 DEF FramePackets
<1>3. ASSUME Sorted(h, q, P), FramePackets(q) \cap Q \subseteq P,
             Precedes(h, FramePackets(q) \cap P, FramePackets(<<f>>) \cap Q)
      PROVE  Sorted(h, Append(q, f), Q)
  <2> DEFINE a == Append(q, f)
             L == Data \cup {"SendPacket"}
  <2> SUFFICES ASSUME NEW i \in DOMAIN a, NEW j \in DOMAIN a, i < j,
                      a[i].ty \in L, a[j].ty \in L, a[i].payload \in Q, a[j].payload \in Q,
                      Same(h, a[i].payload, a[j].payload)
               PROVE  a[i].payload.n < a[j].payload.n
    BY Zenon DEF Sorted
  <2>1. i \in DOMAIN q /\ a[i] = q[i]
    BY <1>1
  <2>2. a[i].payload \in FramePackets(q) /\ a[i].payload \in P
    BY <1>3, <2>1 DEF FramePackets
  <2>3. CASE j \in DOMAIN q
    <3>1. a[j] = q[j]
      BY <1>1, <2>3
    <3>2. a[j].payload \in P
      BY <1>3, <2>3, <3>1 DEF FramePackets
    <3> QED BY ZenonT(20), <1>3, <2>1, <2>2, <2>3, <3>1, <3>2 DEF Sorted
  <2>4. CASE j \notin DOMAIN q
    <3>1. a[j] = f
      BY <1>1, <2>4
    <3>2. a[j].payload \in FramePackets(<<f>>)
      BY <3>1 DEF FramePackets
    <3> QED BY ZenonT(20), <1>3, <2>2, <3>2 DEF Precedes
  <2> QED BY <2>3, <2>4
<1> QED BY <1>2, <1>3

(* A socket that only some of its packets are looked at *)
LEMMA SortedPart ==
  ASSUME NEW h, NEW q, NEW P, NEW Q, Sorted(h, q, P), Q \subseteq P
  PROVE  Sorted(h, q, Q)
BY ZenonT(20) DEF Sorted

(* The same for commands *)
LEMMA CommandsMoved ==
  ASSUME NEW S, NEW q \in Seq(S)
  PROVE  /\ q # <<>> => /\ CommandPackets(<<Head(q)>>) \subseteq CommandPackets(q)
                        /\ CommandPackets(Tail(q)) \subseteq CommandPackets(q)
         /\ \A m \in S : CommandPackets(Append(q, m))
                           \subseteq CommandPackets(q) \cup CommandPackets(<<m>>)
<1>1. ASSUME q # <<>>
      PROVE  /\ CommandPackets(<<Head(q)>>) \subseteq CommandPackets(q)
             /\ CommandPackets(Tail(q)) \subseteq CommandPackets(q)
  <2>1. /\ Len(q) \in Nat /\ Len(q) >= 1 /\ DOMAIN q = 1..Len(q) /\ Head(q) = q[1]
        /\ DOMAIN Tail(q) = 1..(Len(q) - 1)
        /\ \A i \in 1..(Len(q) - 1) : Tail(q)[i] = q[i + 1]
    BY <1>1, HeadTailProperties, LenProperties, EmptySeq
  <2> QED BY <2>1 DEF CommandPackets
<1>2. ASSUME NEW m \in S
      PROVE  CommandPackets(Append(q, m)) \subseteq CommandPackets(q) \cup CommandPackets(<<m>>)
  <2>1. /\ Len(q) \in Nat /\ DOMAIN q = 1..Len(q)
        /\ DOMAIN Append(q, m) = 1..(Len(q) + 1)
        /\ \A i \in 1..Len(q) : Append(q, m)[i] = q[i]
        /\ Append(q, m)[Len(q) + 1] = m
    BY AppendProperties, LenProperties
  <2> QED BY <2>1 DEF CommandPackets
<1> QED BY <1>1, <1>2

LEMMA FirstIn ==
  ASSUME NEW S, NEW q \in Seq(S), q # <<>>
  PROVE  1 \in DOMAIN q /\ q[1] = Head(q) /\ Head(q) \in S
BY HeadTailProperties, LenProperties, EmptySeq

LEMMA Lone == Len(<<>>) <= 1 /\ \A x : Len(<<x>>) <= 1
OBVIOUS

(* A channel of one place *)
LEMMA OnePlace ==
  ASSUME NEW S, NEW q \in Seq(S)
  PROVE  /\ q # <<>> /\ Len(q) <= 1 => Tail(q) = <<>>
         /\ Len(q) < 1 => q = <<>>
         /\ \A x \in S : Len(q) < 1 => Append(q, x) = <<x>>
<1>1. Len(q) \in Nat /\ (q = <<>> <=> Len(q) = 0)
  BY LenProperties, EmptySeq
<1>2. ASSUME q # <<>>, Len(q) <= 1 PROVE Tail(q) = <<>>
  <2>1. Tail(q) \in Seq(S) /\ Len(Tail(q)) = Len(q) - 1
    BY <1>2, HeadTailProperties
  <2>2. Len(Tail(q)) = 0
    BY <1>1, <1>2, <2>1
  <2> QED BY ZenonT(20), <2>1, <2>2, EmptySeq
<1>3. Len(q) < 1 => q = <<>>
  BY <1>1
<1>4. ASSUME NEW x \in S, Len(q) < 1 PROVE Append(q, x) = <<x>>
  <2>1. Append(<<>>, x) = <<x>>
    OBVIOUS
  <2> QED BY <1>3, <1>4, <2>1, Zenon
<1> QED BY <1>2, <1>3, <1>4

-----------------------------------------------------------------------------
(* A connection that is up never gets back to the state before, and one    *)
(* that is closed stays closed.  (No loop is started twice.)               *)
GoOn ==
  \A c \in Conns : /\ Awake(c) => Awake(c)'
                   /\ Closed(c) => Closed(c)'

(* A step that concerns the loops of one connection *)
LEMMA LoopsGoOn ==
  ASSUME TypeOK, NEW c \in Conns, NEW x, NEW y,
         reader' = [reader EXCEPT ![c] = x] \/ UNCHANGED reader,
         writer' = [writer EXCEPT ![c] = y] \/ UNCHANGED writer,
         x # "none", reader[c] \in Over => x \in Over /\ y \in Over
  PROVE  GoOn
<1>1. reader \in [Conns -> TaskStatus] /\ writer \in [Conns -> TaskStatus]
  BY DEF TypeOK
<1>2. ASSUME NEW d \in Conns, Awake(d) PROVE Awake(d)'
  BY <1>1, <1>2 DEF Awake
<1>3. ASSUME NEW d \in Conns, Closed(d) PROVE Closed(d)'
  BY <1>1, <1>3 DEF Closed
<1> QED BY <1>2, <1>3 DEF GoOn

LEMMA NobodyStops == ASSUME UNCHANGED <<reader, writer>> PROVE GoOn
BY DEF GoOn, Awake, Closed

LEMMA ServerGoesOn == ASSUME NEW s \in Servers, ServerStep(s) PROVE GoOn
BY ZenonT(20), NobodyStops
   DEF ServerStep, StartAccepting, LoopSendPacket, LoopDeliver, LoopDies, LoopSubscribe,
       LoopPeerPresent, LoopReceives, reader_vars, writer_vars

LEMMA ReaderGoesOn ==
  ASSUME TypeOK, NEW c \in Conns,
         \/ ReadSendPacket(c) \/ ReadWatchConns(c) \/ ReadPeerPresent(c)
         \/ ReadUnhandled(c) \/ ReadMalformed(c) \/ ReadError(c) \/ SendCommand(c)
         \/ MeshReadPeerPresent(c) \/ MeshReadForwardPacket(c) \/ MeshReadUnhandled(c)
  PROVE  GoOn
<1>1. \/ UNCHANGED reader
      \/ reader' = [reader EXCEPT ![c] = "panicked"]
      \/ reader' = [reader EXCEPT ![c] = "ended"]
  BY ZenonT(20)
     DEF ReadSendPacket, ReadWatchConns, ReadPeerPresent, ReadUnhandled, ReadMalformed, ReadError,
         SendCommand, MeshReadPeerPresent, MeshReadForwardPacket, MeshReadUnhandled
<1>2. UNCHANGED writer
  BY ZenonT(20)
     DEF ReadSendPacket, ReadWatchConns, ReadPeerPresent, ReadUnhandled, ReadMalformed, ReadError,
         SendCommand, MeshReadPeerPresent, MeshReadForwardPacket, MeshReadUnhandled, writer_vars
<1>3. /\ "ended" # "none" /\ "panicked" # "none"
      /\ "ended" \in Over /\ "panicked" \in Over
  BY DEF Over
<1> QED BY ZenonT(20), <1>1, <1>2, <1>3, LoopsGoOn, NobodyStops

LEMMA WriterGoesOn ==
  ASSUME TypeOK, NEW c \in Conns,
         \/ RecvWrite(c) \/ RecvUnwritable(c) \/ WriteFrame(c) \/ WriteLost(c)
         \/ WriteFails(c) \/ RecvNone(c) \/ MeshRecvPeerPresent(c) \/ MeshRecvPacket(c)
         \/ MeshRecvNone(c) \/ MeshWriteFails(c)
  PROVE  GoOn
<1>1. \/ UNCHANGED writer
      \/ writer' = [writer EXCEPT ![c] = "panicked"]
      \/ writer' = [writer EXCEPT ![c] = "ended"]
  BY ZenonT(20)
     DEF RecvWrite, RecvUnwritable, WriteFrame, WriteLost, WriteFails, RecvNone,
         MeshRecvPeerPresent, MeshRecvPacket, MeshRecvNone, MeshWriteFails, EndWriter
<1>2. UNCHANGED reader
  BY ZenonT(20)
     DEF RecvWrite, RecvUnwritable, WriteFrame, WriteLost, WriteFails, RecvNone,
         MeshRecvPeerPresent, MeshRecvPacket, MeshRecvNone, MeshWriteFails, reader_vars
<1>3. "ended" # "none" /\ "ended" \in Over /\ "panicked" \in Over
  BY DEF Over
<1> QED BY ZenonT(20), <1>1, <1>2, <1>3, LoopsGoOn, NobodyStops

LEMMA ArrivalGoesOn ==
  ASSUME TypeOK, NEW c \in Conns,
         \/ MeshStart(c) \/ MeshStartFails(c) \/ MeshWatch(c) \/ MeshWatchLost(c)
         \/ MeshWatchFails(c) \/ AddNewClient(c) \/ RefuseClient(c)
  PROVE  GoOn
<1>1. reader[c] = "none" \/ reader[c] = "starting"
  BY ZenonT(20) DEF MeshStart, MeshStartFails, MeshWatch, MeshWatchLost, MeshWatchFails,
                    AddNewClient, RefuseClient, Arrived
<1>2. \E x \in {"starting", "running", "ended"} :
         reader' = [reader EXCEPT ![c] = x] /\ writer' = [writer EXCEPT ![c] = x]
  BY ZenonT(20) DEF MeshStart, MeshStartFails, MeshWatch, MeshWatchLost, MeshWatchFails,
                    AddNewClient, RefuseClient, EndWriter
<1>3. reader[c] \notin Over /\ \A x \in {"starting", "running", "ended"} : x # "none"
  BY <1>1 DEF Over
<1> QED BY ZenonT(20), <1>2, <1>3, LoopsGoOn

LEMMA NextGoesOn == ASSUME TypeOK, [Next]_vars PROVE GoOn
<1>1. CASE UNCHANGED vars
  BY ZenonT(20), <1>1, NobodyStops DEF vars, reader_vars, writer_vars
<1>2. ASSUME NEW s \in Servers, ServerStep(s) PROVE GoOn
  BY <1>2, ServerGoesOn
<1>3. ASSUME NEW c \in Outbound, MeshStart(c) \/ MeshStartFails(c) \/ MeshClientStep(c)
      PROVE  GoOn
  <2>1. c \in Conns
    BY Zenon, NetAssumption
  <2> QED BY ZenonT(20), <1>3, <2>1, ReaderGoesOn, WriterGoesOn, ArrivalGoesOn DEF MeshClientStep
<1>4. ASSUME NEW c \in Conns \ Outbound, AddNewClient(c) \/ RefuseClient(c) \/ ClientStep(c)
      PROVE  GoOn
  BY ZenonT(20), <1>4, ReaderGoesOn, WriterGoesOn, ArrivalGoesOn DEF ClientStep
<1>5. ASSUME NEW c \in Conns, AnnounceNext(c) \/ FloodNext(c) \/ LinkDown(c) PROVE GoOn
  BY ZenonT(20), <1>5, NobodyStops DEF AnnounceNext, FloodNext, LinkDown, reader_vars, writer_vars
<1>6. ASSUME NEW r \in Remotes, RemoteSend(r) \/ RemoteRecv(r) PROVE GoOn
  BY ZenonT(20), <1>6, NobodyStops DEF RemoteSend, RemoteRecv, reader_vars, writer_vars
<1> QED BY ZenonT(20), <1>1, <1>2, <1>3, <1>4, <1>5, <1>6 DEF Next

-----------------------------------------------------------------------------
(* ChannelInv, container by container *)

LEMMA SequenceTypes ==
  ASSUME TypeOK
  PROVE  /\ commands \in [Servers -> Seq(ServiceCommand)]
         /\ pending \in [Conns -> Seq(ServiceCommand)]
         /\ sink \in [Conns -> Seq(WriteLoopCommands)]
         /\ writing \in [Conns -> Seq(Frame)]
         /\ net \in [Ends -> Seq(Frame)]
         /\ received \in [Remotes -> Seq(Frame)]
         /\ outgoing \in [Servers -> Seq([sink : Conns, packet : Packet])]
         /\ reader \in [Conns -> TaskStatus]
BY Zenon DEF TypeOK

(* The two ends of a connection *)
LEMMA EndsMeet ==
  /\ \A c \in Conns : /\ c \in Ends /\ far[c] \in Ends /\ far[far[c]] = c /\ c \notin Remotes
                      /\ owner[c] \in Servers /\ pk[c] \in Keys /\ c \notin Servers
                      /\ far[c] \in Conns \/ far[c] \in Remotes
                      /\ far[c] \in Conns => (c \in Outbound <=> far[c] \notin Outbound)
  /\ \A r \in Remotes : /\ r \in Ends /\ r \notin Conns
                        /\ far[r] \in Conns /\ far[r] \in Ends /\ far[far[r]] = r
  /\ \A e \in Ends : far[e] \in Ends /\ far[far[e]] = e /\ (e \in Conns \/ e \in Remotes)
  /\ Outbound \subseteq Conns
BY NetAssumption DEF Ends

LEMMA MoreAwake ==
  ASSUME GoOn
  PROVE  /\ AwakeCommands \subseteq AwakeCommands'
         /\ \A q \in Seq(AwakeCommands) : q \in Seq(AwakeCommands')
<1>1. AwakeCommands \subseteq AwakeCommands'
  <2> SUFFICES ASSUME NEW m \in ServiceCommand, m.cmd # "SendPacket", Awake(m.sink)
               PROVE  Awake(m.sink)'
    BY DEF AwakeCommands
  <2>1. m.sink \in Conns
    BY CommandFields
  <2> QED BY <2>1 DEF GoOn
<1> HIDE DEF AwakeCommands
<1> QED BY <1>1, SeqMono, Zenon

(* What a step leaves alone *)
LEMMA ChannelKept ==
  ASSUME ChannelInv, GoOn
  PROVE  /\ UNCHANGED commands => CommandsHold'
         /\ UNCHANGED outgoing => OutgoingHold'
         /\ UNCHANGED <<pending, reader>> => PendingHold'
         /\ UNCHANGED sink => SinksHold'
         /\ UNCHANGED writing => WritingHold'
         /\ UNCHANGED net => NetHolds'
         /\ UNCHANGED accepting => PeersTried'
         /\ UNCHANGED reader => OpenersAwake'
         /\ TypeOK /\ UNCHANGED peers_sinks => RoutesAwake'
<1> USE DEF ChannelInv
<1>1. UNCHANGED commands => CommandsHold'
  BY MoreAwake DEF CommandsHold
<1>2. UNCHANGED outgoing => OutgoingHold'
  BY DEF OutgoingHold
<1>3. UNCHANGED <<pending, reader>> => PendingHold'
  BY MoreAwake DEF PendingHold, LinkCommands
<1>4. /\ UNCHANGED sink => SinksHold'
      /\ UNCHANGED writing => WritingHold'
      /\ UNCHANGED net => NetHolds'
  <2>1. UNCHANGED sink => SinksHold'
    BY DEF SinksHold
  <2>2. UNCHANGED writing => WritingHold'
    BY DEF WritingHold, LinkFrames
  <2>3. UNCHANGED net => NetHolds'
    BY DEF NetHolds, LinkFrames
  <2> QED BY Zenon, <2>1, <2>2, <2>3
<1>5. UNCHANGED accepting => PeersTried'
  BY NetAssumption DEF PeersTried, MeshPeersDone, GoOn, Awake
<1>6. UNCHANGED reader => OpenersAwake'
  BY DEF OpenersAwake, Awake
<1>7. TypeOK /\ UNCHANGED peers_sinks => RoutesAwake'
  BY DEF RoutesAwake, Known, GoOn, TypeOK
<1> QED BY <1>1, <1>2, <1>3, <1>4, <1>5, <1>6, <1>7

(* What a step puts in the place of the contents of one container *)
LEMMA ChannelPut ==
  ASSUME TypeOK, ChannelInv, GoOn
  PROVE  /\ \A s \in Servers : \A q \in Seq(AwakeCommands) :
              Len(q) <= 1 /\ commands' = [commands EXCEPT ![s] = q] => CommandsHold'
         /\ \A s \in Servers : \A q :
              Len(q) <= 1 /\ outgoing' = [outgoing EXCEPT ![s] = q] => OutgoingHold'
         /\ \A c \in Conns : \A q :
              Len(q) <= 1 /\ sink' = [sink EXCEPT ![c] = q] => SinksHold'
         /\ \A c \in Conns : \A q :
              (/\ Len(q) <= 1
               /\ far[c] \in Conns => q \in Seq(LinkFrames(c))
               /\ writing' = [writing EXCEPT ![c] = q]) => WritingHold'
         /\ \A e \in Ends : \A q :
              (/\ far[e] \in Conns => q \in Seq(LinkFrames(far[e]))
               /\ net' = [net EXCEPT ![e] = q]) => NetHolds'
<1> USE DEF ChannelInv
<1>1. ASSUME NEW s \in Servers, NEW q \in Seq(AwakeCommands), Len(q) <= 1,
             commands' = [commands EXCEPT ![s] = q]
      PROVE  CommandsHold'
  <2>1. \A t \in Servers : Len(commands'[t]) <= 1 /\ commands'[t] \in Seq(AwakeCommands)
    BY <1>1, SequenceTypes DEF CommandsHold
  <2> QED BY <2>1, MoreAwake DEF CommandsHold
<1>2. ASSUME NEW s \in Servers, NEW q, Len(q) <= 1, outgoing' = [outgoing EXCEPT ![s] = q]
      PROVE  OutgoingHold'
  BY <1>2, SequenceTypes DEF OutgoingHold
<1>3. ASSUME NEW c \in Conns, NEW q, Len(q) <= 1, sink' = [sink EXCEPT ![c] = q]
      PROVE  SinksHold'
  BY <1>3, SequenceTypes DEF SinksHold
<1>4. ASSUME NEW c \in Conns, NEW q, Len(q) <= 1, far[c] \in Conns => q \in Seq(LinkFrames(c)),
             writing' = [writing EXCEPT ![c] = q]
      PROVE  WritingHold'
  BY ZenonT(40), <1>4, SequenceTypes DEF WritingHold, LinkFrames
<1>5. ASSUME NEW e \in Ends, NEW q, far[e] \in Conns => q \in Seq(LinkFrames(far[e])),
             net' = [net EXCEPT ![e] = q]
      PROVE  NetHolds'
  <2>1. net'[e] = q /\ \A d \in Ends : d # e => net'[d] = net[d]
    BY <1>5, SequenceTypes
  <2>2. \A c \in Conns : far[c] \in Conns => net'[c] \in Seq(LinkFrames(far[c]))
    BY ZenonT(20), <1>5, <2>1, EndsMeet DEF NetHolds
  <2> QED BY <2>2 DEF NetHolds, LinkFrames
<1> QED BY ZenonT(40), <1>1, <1>2, <1>3, <1>4, <1>5

(* The same for a read loop *)
LEMMA PendingPut ==
  ASSUME TypeOK, ChannelInv, GoOn, NEW c \in Conns, NEW q \in Seq(AwakeCommands), Len(q) <= 1,
         far[c] \in Conns => q \in Seq(LinkCommands(far[c])),
         q # <<>> => reader'[c] = "running",
         \A d \in Conns : d # c => reader'[d] = reader[d],
         pending' = [pending EXCEPT ![c] = q]
  PROVE  PendingHold'
<1>1. pending'[c] = q /\ \A d \in Conns : d # c => pending'[d] = pending[d]
  BY SequenceTypes
<1>2. \A d \in Conns : pending'[d] \in Seq(AwakeCommands)
  BY <1>1 DEF ChannelInv, PendingHold
<1>3. \A d \in Conns : pending'[d] \in Seq(AwakeCommands')
  BY <1>2, MoreAwake
<1>4. ASSUME NEW d \in Conns
      PROVE  /\ Len(pending'[d]) <= 1
             /\ pending'[d] # <<>> => reader'[d] = "running"
             /\ far[d] \in Conns => pending'[d] \in Seq(LinkCommands(far[d]))
  <2>1. CASE d = c
    BY Zenon, <1>1, <2>1
  <2>2. CASE d # c
    BY Zenon, <1>1, <2>2 DEF ChannelInv, PendingHold
  <2> QED BY Zenon, <2>1, <2>2
<1> QED BY Zenon, <1>3, <1>4 DEF PendingHold, LinkCommands

(* A connection comes up, or its read loop ends. *)
LEMMA ReaderMoves ==
  ASSUME TypeOK, ChannelInv, GoOn, NEW c \in Conns, NEW x, pending[c] = <<>>,
         reader' = [reader EXCEPT ![c] = x],
         c \in Outbound \/ Awake(c) \/ (far[c] \in Conns => Awake(far[c]))
  PROVE  (UNCHANGED pending => PendingHold') /\ OpenersAwake'
<1>1. reader'[c] = x /\ \A d \in Conns : d # c => reader'[d] = reader[d]
  BY SequenceTypes
<1>2. ASSUME UNCHANGED pending PROVE PendingHold'
  <2>1. \A d \in Conns : pending'[d] \in Seq(AwakeCommands')
    BY <1>2, MoreAwake DEF ChannelInv, PendingHold
  <2> QED BY <1>1, <1>2, <2>1 DEF ChannelInv, PendingHold, LinkCommands
<1>3. ASSUME NEW d \in Conns \ Outbound, far[d] \in Conns, Awake(d)' PROVE Awake(far[d])'
  <2>1. Awake(far[d])
    BY <1>1, <1>3 DEF ChannelInv, OpenersAwake, Awake
  <2> QED BY <1>3, <2>1 DEF GoOn
<1> QED BY <1>2, <1>3 DEF OpenersAwake

(* What a read loop finds in a link *)
LEMMA LinkRead ==
  ASSUME TypeOK, ChannelInv, NEW c \in Conns, net[c] # <<>>, far[c] \in Conns
  PROVE  /\ Head(net[c]) \in LinkFrames(far[c])
         /\ Tail(net[c]) \in Seq(LinkFrames(far[c]))
<1>1. net[c] \in Seq(LinkFrames(far[c]))
  BY DEF ChannelInv, NetHolds
<1> QED BY ZenonT(40), <1>1, SeqHeadTail

(* Steps of the read loops *)
LEMMA ReadersChannel ==
  ASSUME TypeOK, ChannelInv, GoOn, NEW c \in Conns,
         \/ ReadSendPacket(c) \/ ReadWatchConns(c) \/ ReadPeerPresent(c)
         \/ ReadUnhandled(c) \/ ReadMalformed(c) \/ ReadError(c)
         \/ MeshReadPeerPresent(c) \/ MeshReadForwardPacket(c) \/ MeshReadUnhandled(c)
  PROVE  ChannelInv'
<1> USE DEF service_vars, writer_vars, socket_vars, history_vars
<1> DEFINE f == Head(net[c])
<1>1. c \in Ends /\ pk[c] \in Keys
  BY Zenon, EndsMeet
<1>2. ASSUME NEW types, GetNextMessage(c, types)
      PROVE  f \in Frame /\ f.ty \in types /\ NetHolds'
  <2>1. f \in Frame
    BY <1>1, <1>2, SequenceTypes, FirstIn DEF GetNextMessage
  <2>2. far[c] \in Conns => Tail(net[c]) \in Seq(LinkFrames(far[c]))
    BY <1>2, LinkRead DEF GetNextMessage
  <2>3. NetHolds'
    BY ZenonT(20), <1>1, <1>2, <2>2, ChannelPut DEF GetNextMessage
  <2> QED BY <1>2, <2>1, <2>3 DEF GetNextMessage
<1>3. /\ UNCHANGED commands /\ UNCHANGED outgoing /\ UNCHANGED sink /\ UNCHANGED writing
      /\ UNCHANGED accepting /\ UNCHANGED peers_sinks
  BY ZenonT(20)
     DEF ReadSendPacket, ReadWatchConns, ReadPeerPresent, ReadUnhandled, ReadMalformed, ReadError,
         MeshReadPeerPresent, MeshReadForwardPacket, MeshReadUnhandled
<1>4. /\ CommandsHold' /\ OutgoingHold' /\ SinksHold' /\ WritingHold' /\ PeersTried' /\ RoutesAwake'
  BY <1>3, ChannelKept, Zenon
<1>5. reader[c] = "running" /\ pending[c] = <<>>
  BY ZenonT(20)
     DEF ReadSendPacket, ReadWatchConns, ReadPeerPresent, ReadUnhandled, ReadMalformed, ReadError,
         MeshReadPeerPresent, MeshReadForwardPacket, MeshReadUnhandled, GetNextMessage
<1>6. ASSUME NEW q \in Seq(AwakeCommands), Len(q) <= 1, UNCHANGED reader,
             far[c] \in Conns => q \in Seq(LinkCommands(far[c])),
             pending' = [pending EXCEPT ![c] = q]
      PROVE  PendingHold' /\ OpenersAwake'
  <2>1. reader'[c] = "running" /\ \A d \in Conns : d # c => reader'[d] = reader[d]
    BY <1>5, <1>6
  <2>2. OpenersAwake'
    BY <1>6, ChannelKept
  <2> QED BY ZenonT(20), <1>6, <2>1, <2>2, PendingPut
<1>7. ASSUME NEW m \in ServiceCommand, UNCHANGED reader, pending' = [pending EXCEPT ![c] = <<m>>],
             m.cmd # "SendPacket" => m.sink = c,
             m.cmd = "SendPacket" /\ far[c] \in Conns =>
               far[c] \notin Outbound /\ m.target # pk[far[c]]
      PROVE  PendingHold' /\ OpenersAwake'
  <2>1. Awake(c)
    BY <1>5 DEF Awake
  <2>2. m \in AwakeCommands
    BY ZenonT(20), <1>7, <2>1 DEF AwakeCommands
  <2>3. far[c] \in Conns => m \in LinkCommands(far[c])
    BY ZenonT(20), <1>7 DEF LinkCommands
  <2>4. <<m>> \in Seq(AwakeCommands)
    BY <2>2, SeqSingle, Zenon
  <2>5. far[c] \in Conns => <<m>> \in Seq(LinkCommands(far[c]))
    BY <2>3, SeqSingle, Zenon
  <2> QED BY ZenonT(20), <1>6, <1>7, <2>4, <2>5, Lone
<1> HIDE DEF f
<1>8. CASE ReadSendPacket(c)
  <2>1. f \in Frame /\ f.ty = "SendPacket" /\ NetHolds'
    BY <1>2, <1>8 DEF ReadSendPacket
  <2>2. far[c] \notin Conns
    BY ZenonT(20), <1>8, <2>1, LinkRead DEF ReadSendPacket, GetNextMessage, LinkFrames, f
  <2>3. ClientPacket(c, f) \in ServiceCommand /\ ClientPacket(c, f).cmd = "SendPacket"
    <3>1. f.target \in Keys /\ f.payload \in Payload
      BY <2>1, FrameFields
    <3>2. ClientPacket(c, f) \in Packet
      BY <1>1, <3>1 DEF ClientPacket, PacketCommand, Packet
    <3> QED BY <3>2, PacketFields
  <2>4. PendingHold' /\ OpenersAwake'
    BY ZenonT(20), <1>7, <1>8, <2>2, <2>3 DEF ReadSendPacket, f
  <2> QED BY <1>4, <2>1, <2>4 DEF ChannelInv
<1>9. CASE MeshReadForwardPacket(c)
  <2>1. f \in Frame /\ f.ty = "ForwardPacket" /\ NetHolds'
    BY <1>2, <1>9 DEF MeshReadForwardPacket
  <2>2. far[c] \in Conns => far[c] \notin Outbound /\ f.target # pk[far[c]]
    <3>1. far[c] \in Conns => f \in LinkFrames(far[c])
      BY ZenonT(20), <1>9, LinkRead DEF MeshReadForwardPacket, GetNextMessage, f
    <3> QED BY <2>1, <3>1 DEF LinkFrames, Data
  <2>3. /\ ForwardedPacket(f) \in ServiceCommand /\ ForwardedPacket(f).cmd = "SendPacket"
        /\ ForwardedPacket(f).target = f.target
    <3>1. f.target \in Keys /\ f.source \in Keys /\ f.payload \in Payload
      BY <2>1, FrameFields
    <3>2. ForwardedPacket(f) \in Packet
      BY <3>1 DEF ForwardedPacket, PacketCommand, Packet
    <3>3. ForwardedPacket(f).target = f.target
      BY DEF ForwardedPacket, PacketCommand
    <3> QED BY <3>2, <3>3, PacketFields
  <2>4. PendingHold' /\ OpenersAwake'
    BY ZenonT(20), <1>7, <1>9, <2>2, <2>3 DEF MeshReadForwardPacket, f
  <2> QED BY <1>4, <2>1, <2>4 DEF ChannelInv
<1>10. CASE ReadPeerPresent(c) \/ MeshReadPeerPresent(c)
  <2> DEFINE m == PresentCommand(f.public_key, c)
  <2>1. f \in Frame /\ f.ty = "PeerPresent" /\ NetHolds'
    BY <1>2, <1>10 DEF ReadPeerPresent, MeshReadPeerPresent
  <2>2. m \in ServiceCommand /\ m.cmd = "PeerPresent" /\ m.sink = c
    <3>1. f.public_key \in Keys
      BY <2>1, FrameFields
    <3> QED BY <3>1 DEF PresentCommand, ServiceCommand
  <2>3. UNCHANGED reader /\ pending' = [pending EXCEPT ![c] = <<m>>]
    BY ZenonT(20), <1>10 DEF ReadPeerPresent, MeshReadPeerPresent, f
  <2> HIDE DEF m
  <2>4. PendingHold' /\ OpenersAwake'
    BY Zenon, <1>7, <2>2, <2>3
  <2> QED BY SMTT(40), <1>4, <2>1, <2>4 DEF ChannelInv
<1>11. CASE ReadWatchConns(c)
  <2>1. NetHolds'
    BY <1>2, <1>11 DEF ReadWatchConns
  <2>2. UNCHANGED reader /\ pending' = [pending EXCEPT ![c] = WatchCommand(c)]
    BY ZenonT(20), <1>11 DEF ReadWatchConns
  <2>3. CASE WatchCommand(c) = <<>>
    <3>1. pending' = [pending EXCEPT ![c] = <<>>]
      BY <2>2, <2>3
    <3>2. <<>> \in Seq(AwakeCommands) /\ <<>> \in Seq(LinkCommands(far[c]))
      OBVIOUS
    <3>3. PendingHold' /\ OpenersAwake'
      BY ZenonT(20), <1>6, <2>2, <3>1, <3>2, Lone
    <3> QED BY <1>4, <2>1, <3>3 DEF ChannelInv
  <2>4. CASE WatchCommand(c) = <<SubscribeCommand(pk[c], c)>>
    <3> DEFINE m == SubscribeCommand(pk[c], c)
    <3>1. m \in ServiceCommand /\ m.cmd = "Subscribe" /\ m.sink = c
      BY <1>1 DEF SubscribeCommand, ServiceCommand
    <3>2. pending' = [pending EXCEPT ![c] = <<m>>]
      BY Zenon, <2>2, <2>4
    <3> HIDE DEF m
    <3>3. PendingHold' /\ OpenersAwake'
      BY ZenonT(40), <1>7, <2>2, <3>1, <3>2
    <3> QED BY <1>4, <2>1, <3>3 DEF ChannelInv
  <2> QED BY Zenon, <2>3, <2>4 DEF WatchCommand
<1>12. CASE ReadUnhandled(c) \/ ReadMalformed(c) \/ MeshReadUnhandled(c) \/ ReadError(c)
  <2>1. /\ UNCHANGED pending
        /\ \E x : reader' = [reader EXCEPT ![c] = x]
    BY Zenon, <1>12 DEF ReadUnhandled, ReadMalformed, MeshReadUnhandled, ReadError
  <2>2. Awake(c)
    BY <1>5 DEF Awake
  <2>3. PendingHold' /\ OpenersAwake'
    BY ZenonT(20), <1>5, <2>1, <2>2, ReaderMoves
  <2>4. NetHolds'
    <3>1. CASE ReadError(c)
      BY Zenon, <3>1, ChannelKept DEF ReadError
    <3>2. CASE ReadUnhandled(c) \/ ReadMalformed(c) \/ MeshReadUnhandled(c)
      BY Zenon, <1>2, <3>2 DEF ReadUnhandled, ReadMalformed, MeshReadUnhandled
    <3> QED BY <1>12, <3>1, <3>2
  <2> QED BY <1>4, <2>3, <2>4 DEF ChannelInv
<1> QED BY <1>8, <1>9, <1>10, <1>11, <1>12

(* A read loop hands its command over, or ends. *)
LEMMA SendCommandChannel ==
  ASSUME TypeOK, ChannelInv, GoOn, NEW c \in Conns, SendCommand(c)
  PROVE  ChannelInv'
<1> DEFINE s == owner[c]
           m == Head(pending[c])
<1>1. /\ UNCHANGED outgoing /\ UNCHANGED sink /\ UNCHANGED writing /\ UNCHANGED net
      /\ UNCHANGED accepting /\ UNCHANGED peers_sinks
  BY DEF SendCommand, writer_vars, socket_vars
<1>2. /\ OutgoingHold' /\ SinksHold' /\ WritingHold' /\ NetHolds' /\ PeersTried' /\ RoutesAwake'
  BY <1>1, ChannelKept, Zenon
<1>3. s \in Servers /\ pending[c] # <<>> /\ pending' = [pending EXCEPT ![c] = <<>>]
      /\ reader[c] = "running"
  BY EndsMeet DEF SendCommand, ChannelInv, PendingHold
<1>4. m \in AwakeCommands
  BY SMTT(40), <1>3, SeqHeadTail DEF ChannelInv, PendingHold
<1>5. CommandsHold'
  <2>1. CASE UNCHANGED commands
    BY <2>1, ChannelKept
  <2>2. CASE command_loop[s] = "running"
    <3>1. Len(commands[s]) < 1 /\ commands' = [commands EXCEPT ![s] = Append(commands[s], m)]
      BY <2>2 DEF SendCommand, ChannelCap
    <3>2. Append(commands[s], m) = <<m>>
      <4>1. commands[s] \in Seq(AwakeCommands)
        BY <1>3 DEF ChannelInv, CommandsHold
      <4> QED BY <1>4, <3>1, <4>1, OnePlace
    <3>3. <<m>> \in Seq(AwakeCommands)
      BY <1>4, SeqSingle
    <3> QED BY ZenonT(20), <1>3, <3>1, <3>2, <3>3, ChannelPut, Lone
  <2> QED BY <2>1, <2>2 DEF SendCommand
<1>6. PendingHold' /\ OpenersAwake'
  <2>1. \A d \in Conns : d # c => reader'[d] = reader[d]
    BY ZenonT(20), SequenceTypes DEF SendCommand
  <2>2. <<>> \in Seq(AwakeCommands) /\ <<>> \in Seq(LinkCommands(far[c]))
    OBVIOUS
  <2>3. PendingHold'
    BY ZenonT(20), <1>3, <2>1, <2>2, Lone, PendingPut
  <2>4. \A d \in Conns : Awake(d)' => Awake(d)
    BY <1>3, <2>1 DEF Awake
  <2>5. OpenersAwake'
    BY <2>4 DEF ChannelInv, OpenersAwake, GoOn
  <2> QED BY <2>3, <2>5
<1> QED BY <1>2, <1>5, <1>6 DEF ChannelInv

(* A write loop takes a command from its sink. *)
LEMMA TakesCommand ==
  ASSUME TypeOK, ChannelInv, GoOn, NEW c \in Conns, sink[c] # <<>>,
         sink' = [sink EXCEPT ![c] = Tail(@)]
  PROVE  SinksHold'
<1>1. Tail(sink[c]) = <<>>
  BY SequenceTypes, OnePlace DEF ChannelInv, SinksHold
<1> QED BY ZenonT(20), <1>1, Lone, ChannelPut

(* Steps of the write loops *)
LEMMA WritersChannel ==
  ASSUME TypeOK, ChannelInv, GoOn, NEW c \in Conns,
         \/ c \notin Outbound /\ RecvWrite(c)
         \/ RecvUnwritable(c) \/ WriteFrame(c) \/ WriteLost(c)
         \/ WriteFails(c) \/ RecvNone(c) \/ MeshRecvPeerPresent(c) \/ MeshRecvPacket(c)
         \/ MeshRecvNone(c) \/ MeshWriteFails(c)
  PROVE  ChannelInv'
<1> USE DEF service_vars, reader_vars, socket_vars
<1> DEFINE m == Head(sink[c])
<1>1. /\ UNCHANGED commands /\ UNCHANGED outgoing /\ UNCHANGED pending /\ UNCHANGED reader
      /\ UNCHANGED accepting /\ UNCHANGED peers_sinks
  BY ZenonT(20)
     DEF RecvWrite, RecvUnwritable, WriteFrame, WriteLost, WriteFails, RecvNone,
         MeshRecvPeerPresent, MeshRecvPacket, MeshRecvNone, MeshWriteFails
<1>2. /\ CommandsHold' /\ OutgoingHold' /\ PendingHold' /\ PeersTried' /\ OpenersAwake' /\ RoutesAwake'
  BY <1>1, ChannelKept
<1>3. <<>> \in Seq(LinkFrames(c))
  OBVIOUS
<1>4. ASSUME NEW f \in LinkFrames(c), writing' = [writing EXCEPT ![c] = <<f>>]
      PROVE  WritingHold'
  <2>1. <<f>> \in Seq(LinkFrames(c))
    BY SeqSingle, Zenon
  <2> QED BY ZenonT(20), <1>4, <2>1, Lone, ChannelPut
<1>5. ASSUME writing' = [writing EXCEPT ![c] = <<>>] PROVE WritingHold'
  BY ZenonT(20), <1>3, <1>5, Lone, ChannelPut
<1>6. CASE c \notin Outbound /\ RecvWrite(c)
  <2>1. /\ SinksHold' /\ UNCHANGED net /\ writing' = [writing EXCEPT ![c] = <<FrameFor(c, m)>>]
        /\ sink[c] # <<>>
    BY ZenonT(20), <1>6, TakesCommand DEF RecvWrite
  <2>2. m \in WriteLoopCommands
    BY Zenon, <2>1, SequenceTypes, FirstIn
  <2>3. FrameFor(c, m) \in LinkFrames(c)
    <3>1. FrameFor(c, m) \in Frame
      BY SMTT(40), <2>2, WritableFrame
    <3>2. /\ FrameFor(c, m).ty # "SendPacket"
          /\ FrameFor(c, m).ty = "ForwardPacket" => FrameFor(c, m).target # pk[c]
      BY DEF FrameFor, PeerPresent, RecvPacket, ForwardPacket
    <3> QED BY ZenonT(20), <1>6, <3>1, <3>2 DEF LinkFrames
  <2>4. WritingHold' /\ NetHolds'
    BY Zenon, <1>4, <2>1, <2>3, ChannelKept
  <2> QED BY <1>2, <2>1, <2>4 DEF ChannelInv
<1>7. CASE MeshRecvPeerPresent(c)
  <2> DEFINE f == PeerPresent(m.key)
  <2>1. /\ SinksHold' /\ UNCHANGED net /\ writing' = [writing EXCEPT ![c] = <<f>>]
        /\ sink[c] # <<>> /\ m.cmd = "PeerPresent"
    BY ZenonT(20), <1>7, TakesCommand DEF MeshRecvPeerPresent
  <2>2. m.key \in Keys
    BY Zenon, <2>1, SequenceTypes, FirstIn, WriteFields
  <2>3. f \in LinkFrames(c)
    BY <2>2 DEF PeerPresent, LinkFrames, Frame, Data
  <2> HIDE DEF f
  <2>4. WritingHold' /\ NetHolds'
    BY Zenon, <1>4, <2>1, <2>3, ChannelKept
  <2> QED BY <1>2, <2>1, <2>4 DEF ChannelInv
<1>8. CASE WriteFrame(c)
  <2> DEFINE e == far[c]
             f == Head(writing[c])
  <2>1. /\ writing[c] # <<>> /\ writing' = [writing EXCEPT ![c] = <<>>] /\ UNCHANGED sink
        /\ net' = [net EXCEPT ![e] = Append(net[e], f)]
    BY SMTT(40), <1>8 DEF WriteFrame
  <2>2. e \in Ends /\ far[e] = c
    BY EndsMeet
  <2>3. e \in Conns => Append(net[e], f) \in Seq(LinkFrames(far[e]))
    <3>1. e \in Conns => net[e] \in Seq(LinkFrames(far[e]))
      BY SMTT(40), <2>2 DEF ChannelInv, NetHolds
    <3>2. e \in Conns => f \in LinkFrames(far[e])
      BY <2>1, <2>2, SeqHeadTail DEF ChannelInv, WritingHold
    <3> QED BY <3>1, <3>2, SeqAppend, Zenon
  <2>4. NetHolds'
    <3>1. CASE e \in Conns
      BY ZenonT(20), <2>1, <2>2, <2>3, <3>1, ChannelPut
    <3>2. CASE e \notin Conns
      <4>1. \A d \in Conns : net'[d] = net[d]
        BY ZenonT(20), <2>1, <3>2, SequenceTypes, EndsMeet
      <4> QED BY <4>1 DEF ChannelInv, NetHolds, LinkFrames
    <3> QED BY <3>1, <3>2
  <2> QED BY Zenon, <1>2, <1>5, <2>1, <2>4, ChannelKept DEF ChannelInv
<1>9. CASE WriteLost(c)
  <2>1. UNCHANGED net /\ UNCHANGED sink /\ writing' = [writing EXCEPT ![c] = <<>>]
    BY <1>9 DEF WriteLost
  <2> QED BY Zenon, <1>2, <1>5, <2>1, ChannelKept DEF ChannelInv
<1>10. CASE \/ RecvUnwritable(c) \/ WriteFails(c) \/ RecvNone(c)
            \/ MeshRecvPacket(c) \/ MeshRecvNone(c) \/ MeshWriteFails(c)
  <2>1. /\ UNCHANGED net /\ sink' = [sink EXCEPT ![c] = <<>>]
        /\ writing' = [writing EXCEPT ![c] = <<>>]
    BY ZenonT(20), <1>10 DEF RecvUnwritable, WriteFails, RecvNone, MeshRecvPacket, MeshRecvNone,
                             MeshWriteFails, EndWriter
  <2>2. SinksHold'
    BY ZenonT(20), <2>1, Lone, ChannelPut
  <2> QED BY Zenon, <1>2, <1>5, <2>1, <2>2, ChannelKept DEF ChannelInv
<1> QED BY <1>6, <1>7, <1>8, <1>9, <1>10

(* Connections that come up, or fail to *)
LEMMA ArrivalsChannel ==
  ASSUME TypeOK, ChannelInv, GoOn, NEW c \in Conns,
         \/ c \in Outbound /\ (MeshStart(c) \/ MeshStartFails(c) \/ MeshWatch(c)
                                 \/ MeshWatchLost(c) \/ MeshWatchFails(c))
         \/ AddNewClient(c) \/ RefuseClient(c)
  PROVE  ChannelInv'
<1> USE DEF service_vars, socket_vars
<1>1. /\ UNCHANGED commands /\ UNCHANGED outgoing /\ UNCHANGED pending /\ UNCHANGED accepting
  BY ZenonT(20) DEF MeshStart, MeshStartFails, MeshWatch, MeshWatchLost, MeshWatchFails,
                    AddNewClient, RefuseClient
<1>2. /\ CommandsHold' /\ OutgoingHold' /\ PeersTried'
  BY <1>1, ChannelKept
<1>3. PendingHold' /\ OpenersAwake'
  <2>1. reader[c] = "none" \/ reader[c] = "starting"
    BY ZenonT(20) DEF MeshStart, MeshStartFails, MeshWatch, MeshWatchLost, MeshWatchFails,
                      AddNewClient, RefuseClient, Arrived
  <2>2. \E x : reader' = [reader EXCEPT ![c] = x]
    BY ZenonT(20) DEF MeshStart, MeshStartFails, MeshWatch, MeshWatchLost, MeshWatchFails,
                      AddNewClient, RefuseClient
  <2>3. pending[c] = <<>>
    BY <2>1 DEF ChannelInv, PendingHold
  <2>4. c \in Outbound \/ Awake(c) \/ (far[c] \in Conns => Awake(far[c]))
    BY ZenonT(20) DEF AddNewClient, RefuseClient, Arrived, Awake
  <2> QED BY ZenonT(20), <1>1, <2>2, <2>3, <2>4, ReaderMoves
<1>4. SinksHold' /\ WritingHold'
  <2>1. CASE UNCHANGED sink /\ UNCHANGED writing
    BY <2>1, ChannelKept
  <2>2. CASE sink' = [sink EXCEPT ![c] = <<>>] /\ writing' = [writing EXCEPT ![c] = <<>>]
    <3>1. <<>> \in Seq(LinkFrames(c))
      OBVIOUS
    <3> QED BY ZenonT(20), <2>2, <3>1, Lone, ChannelPut
  <2> QED BY ZenonT(20), <2>1, <2>2
          DEF MeshStart, MeshStartFails, MeshWatch, MeshWatchLost, MeshWatchFails,
              AddNewClient, RefuseClient, EndWriter
<1>5. NetHolds'
  <2>1. CASE UNCHANGED net
    BY <2>1, ChannelKept
  <2>2. CASE MeshWatch(c)
    <3> DEFINE e == far[c]
               f == Bare("WatchConns")
    <3>1. net' = [net EXCEPT ![e] = Append(net[e], f)] /\ e \in Ends /\ far[e] = c
      BY ZenonT(20), <2>2, EndsMeet DEF MeshWatch
    <3>2. f \in LinkFrames(c)
      BY DEF Bare, LinkFrames, Frame, Data
    <3> HIDE DEF f
    <3>3. CASE e \in Conns
      <4>1. Append(net[e], f) \in Seq(LinkFrames(far[e]))
        BY SMTT(40), <3>1, <3>2, <3>3, SeqAppend DEF ChannelInv, NetHolds
      <4> QED BY ZenonT(20), <3>1, <4>1, ChannelPut
    <3>4. CASE e \notin Conns
      <4>1. \A d \in Conns : net'[d] = net[d]
        BY ZenonT(20), <3>1, <3>4, SequenceTypes, EndsMeet
      <4> QED BY <4>1 DEF ChannelInv, NetHolds, LinkFrames
    <3> QED BY <3>3, <3>4
  <2> QED BY ZenonT(20), <2>1, <2>2
          DEF MeshStart, MeshStartFails, MeshWatchLost, MeshWatchFails, AddNewClient, RefuseClient
<1>6. RoutesAwake'
  <2>1. CASE UNCHANGED peers_sinks
    BY <2>1, ChannelKept
  <2>2. CASE AddNewClient(c)
    <3>1. /\ peers_sinks' = [peers_sinks EXCEPT ![owner[c]][pk[c]] = c]
          /\ reader' = [reader EXCEPT ![c] = "running"]
      BY <2>2 DEF AddNewClient
    <3>2. peers_sinks \in [Servers -> [Keys -> Conns \cup {None}]]
      BY DEF TypeOK
    <3>3. reader'[c] = "running"
      BY <3>1, SequenceTypes
    <3>4. ASSUME NEW s \in Servers, NEW k \in Keys
          PROVE  peers_sinks'[s][k] = c \/ peers_sinks'[s][k] = peers_sinks[s][k]
      BY ZenonT(20), <3>1, <3>2
    <3>5. ASSUME NEW s \in Servers, NEW k \in Keys, peers_sinks[s][k] # None
          PROVE  Awake(peers_sinks[s][k]) /\ peers_sinks[s][k] \in Conns
      BY <3>2, <3>5 DEF ChannelInv, RoutesAwake, Known
    <3>6. ASSUME NEW s \in Servers, NEW k \in Keys, peers_sinks'[s][k] # None
          PROVE  reader'[peers_sinks'[s][k]] # "none"
      BY ZenonT(40), <3>3, <3>4, <3>5, <3>6 DEF GoOn, Awake
    <3> QED BY <3>6 DEF RoutesAwake, Known, Awake
  <2> QED BY ZenonT(20), <2>1, <2>2
          DEF MeshStart, MeshStartFails, MeshWatch, MeshWatchLost, MeshWatchFails, RefuseClient
<1> QED BY <1>2, <1>3, <1>4, <1>5, <1>6 DEF ChannelInv

(* Steps of the command loop, and the start of the accept loop *)
LEMMA LoopChannel ==
  ASSUME TypeOK, ChannelInv, GoOn, NEW s \in Servers, ServerStep(s)
  PROVE  ChannelInv'
<1> USE DEF reader_vars, writer_vars, socket_vars
<1> DEFINE m == Head(commands[s])
<1>1. /\ UNCHANGED <<pending, reader>> /\ UNCHANGED reader /\ UNCHANGED writing /\ UNCHANGED net
  BY ZenonT(20) DEF ServerStep, StartAccepting, LoopSendPacket, LoopDeliver, LoopDies,
                    LoopSubscribe, LoopPeerPresent
<1>2. /\ PendingHold' /\ OpenersAwake' /\ WritingHold' /\ NetHolds'
  BY Zenon, <1>1, ChannelKept
<1>3. PeersTried'
  <2>1. CASE UNCHANGED accepting
    BY <2>1, ChannelKept
  <2>2. CASE StartAccepting(s)
    <3>1. MeshPeersDone(s) /\ accepting' = [accepting EXCEPT ![s] = TRUE] /\ UNCHANGED reader
      BY <2>2 DEF StartAccepting
    <3>2. \A t \in Servers : accepting'[t] => MeshPeersDone(t)
      BY <3>1 DEF TypeOK, ChannelInv, PeersTried
    <3> QED BY <3>1, <3>2 DEF PeersTried, MeshPeersDone
  <2> QED BY ZenonT(20), <2>1, <2>2 DEF ServerStep, LoopSendPacket, LoopDeliver, LoopDies,
                                        LoopSubscribe, LoopPeerPresent
<1>4. ASSUME NEW cmd, LoopReceives(s, cmd)
      PROVE  CommandsHold' /\ m \in AwakeCommands /\ m.cmd = cmd
  <2>1. /\ commands[s] # <<>> /\ m.cmd = cmd
        /\ commands' = [commands EXCEPT ![s] = Tail(commands[s])]
    BY <1>4 DEF LoopReceives
  <2>2. commands[s] \in Seq(AwakeCommands) /\ Len(commands[s]) <= 1
    BY DEF ChannelInv, CommandsHold
  <2>3. m \in AwakeCommands /\ Tail(commands[s]) = <<>>
    BY <2>1, <2>2, OnePlace, SeqHeadTail
  <2>4. <<>> \in Seq(AwakeCommands)
    OBVIOUS
  <2> QED BY ZenonT(20), <2>1, <2>3, <2>4, Lone, ChannelPut
<1>5. CommandsHold'
  <2>1. CASE UNCHANGED commands
    BY <2>1, ChannelKept
  <2>2. CASE LoopDies(s)
    <3>1. <<>> \in Seq(AwakeCommands)
      OBVIOUS
    <3> QED BY ZenonT(20), <2>2, <3>1, Lone, ChannelPut DEF LoopDies
  <2> QED BY ZenonT(20), <1>4, <2>1, <2>2 DEF ServerStep, StartAccepting, LoopSendPacket,
                                              LoopDeliver, LoopSubscribe, LoopPeerPresent
<1>6. OutgoingHold'
  <2>1. CASE UNCHANGED outgoing
    BY <2>1, ChannelKept
  <2>2. CASE outgoing' = [outgoing EXCEPT ![s] = <<>>]
    BY ZenonT(20), <2>2, Lone, ChannelPut
  <2>3. CASE outgoing' = [outgoing EXCEPT ![s] = Routed(s, m)]
    <3>1. Len(Routed(s, m)) <= 1
      BY ZenonT(20), Lone DEF Routed
    <3> QED BY ZenonT(20), <2>3, <3>1, ChannelPut
  <2> QED BY ZenonT(20), <2>1, <2>2, <2>3 DEF ServerStep, StartAccepting, LoopSendPacket,
                                              LoopDeliver, LoopDies, LoopSubscribe, LoopPeerPresent
<1>7. SinksHold'
  <2>1. CASE UNCHANGED sink
    BY <2>1, ChannelKept
  <2>2. CASE LoopDeliver(s)
    <3> DEFINE h == Head(outgoing[s])
               c == h.sink
    <3>1. /\ outgoing[s] # <<>> /\ Len(sink[c]) < 1
          /\ sink' = [sink EXCEPT ![c] = Append(sink[c], h.packet)]
      BY ZenonT(20), <2>2 DEF LoopDeliver, SinkRoom, ChannelCap
    <3>2. h \in [sink : Conns, packet : Packet]
      BY ZenonT(20), <3>1, SequenceTypes, FirstIn
    <3>3. c \in Conns /\ h.packet \in WriteLoopCommands
      BY <3>2, PacketFields
    <3>4. Append(sink[c], h.packet) = <<h.packet>>
      BY ZenonT(20), <3>1, <3>3, SequenceTypes, OnePlace
    <3> QED BY ZenonT(20), <3>1, <3>3, <3>4, Lone, ChannelPut
  <2> QED BY ZenonT(20), <2>1, <2>2 DEF ServerStep, StartAccepting, LoopSendPacket,
                                        LoopDies, LoopSubscribe, LoopPeerPresent
<1>8. RoutesAwake'
  <2>1. CASE UNCHANGED peers_sinks
    BY <2>1, ChannelKept
  <2>2. CASE LoopPeerPresent(s)
    <3>1. m \in AwakeCommands /\ m.cmd = "PeerPresent"
      BY <1>4, <2>2 DEF LoopPeerPresent
    <3>2. m.key \in Keys /\ m.sink \in Conns /\ Awake(m.sink)
      BY <3>1, CommandFields DEF AwakeCommands
    <3>3. peers_sinks' = [peers_sinks EXCEPT ![s][m.key] = FirstRoute(@, m.sink)]
      BY <2>2 DEF LoopPeerPresent
    <3> HIDE DEF m
    <3>4. peers_sinks \in [Servers -> [Keys -> Conns \cup {None}]]
      BY DEF TypeOK
    <3>5. ASSUME NEW t \in Servers, NEW k \in Keys
          PROVE  peers_sinks'[t][k] = m.sink \/ peers_sinks'[t][k] = peers_sinks[t][k]
      BY ZenonT(20), <3>2, <3>3, <3>4 DEF FirstRoute
    <3>6. UNCHANGED reader
      BY <1>1
    <3> QED BY ZenonT(20), <3>2, <3>5, <3>6 DEF ChannelInv, RoutesAwake, Known, Awake
  <2> QED BY ZenonT(20), <2>1, <2>2 DEF ServerStep, StartAccepting, LoopSendPacket,
                                        LoopDeliver, LoopDies, LoopSubscribe
<1> QED BY <1>2, <1>3, <1>5, <1>6, <1>7, <1>8 DEF ChannelInv

(* The notice tasks *)
LEMMA NoticesChannel ==
  ASSUME TypeOK, ChannelInv, GoOn, NEW c \in Conns, AnnounceNext(c) \/ FloodNext(c)
  PROVE  ChannelInv'
<1> USE DEF service_vars, reader_vars, socket_vars
<1>1. /\ UNCHANGED commands /\ UNCHANGED outgoing /\ UNCHANGED <<pending, reader>>
      /\ UNCHANGED reader /\ UNCHANGED writing /\ UNCHANGED net /\ UNCHANGED accepting
      /\ UNCHANGED peers_sinks
  BY ZenonT(20) DEF AnnounceNext, FloodNext
<1>2. /\ CommandsHold' /\ OutgoingHold' /\ PendingHold' /\ WritingHold' /\ NetHolds'
      /\ PeersTried' /\ OpenersAwake' /\ RoutesAwake'
  BY <1>1, ChannelKept, Zenon
<1>3. ASSUME NEW w \in Conns, NEW k \in Keys, Notify(w, k) PROVE SinksHold'
  <2>1. CASE UNCHANGED sink
    BY <2>1, ChannelKept
  <2>2. CASE Len(sink[w]) < 1 /\ sink' = [sink EXCEPT ![w] = Append(sink[w], PresentWrite(k))]
    <3>1. PresentWrite(k) \in WriteLoopCommands
      BY DEF PresentWrite, WriteLoopCommands
    <3>2. Append(sink[w], PresentWrite(k)) = <<PresentWrite(k)>>
      BY ZenonT(20), <2>2, <3>1, SequenceTypes, OnePlace
    <3> QED BY ZenonT(20), <2>2, <3>2, Lone, ChannelPut
  <2> QED BY ZenonT(20), <1>3, <2>1, <2>2 DEF Notify, SinkRoom, ChannelCap
<1>4. CASE AnnounceNext(c)
  <2>1. announcing[c] \in Seq(Conns) /\ announcing[c] # <<>>
    BY SMTT(40), <1>4 DEF TypeOK, AnnounceNext
  <2>2. Head(announcing[c]) \in Conns
    BY <2>1, FirstIn
  <2> QED BY ZenonT(20), <1>2, <1>3, <1>4, <2>2, EndsMeet DEF AnnounceNext, ChannelInv
<1>5. CASE FloodNext(c)
  <2>1. Flooded(c) \in SUBSET Keys
    BY DEF Flooded
  <2> QED BY ZenonT(20), <1>2, <1>3, <1>5, <2>1 DEF FloodNext, ChannelInv
<1> QED BY <1>4, <1>5

(* The programs outside have no end of a link. *)
LEMMA OutsideChannel ==
  ASSUME TypeOK, ChannelInv, GoOn,
         \/ \E r \in Remotes : RemoteSend(r) \/ RemoteRecv(r)
         \/ \E c \in Conns : LinkDown(c)
  PROVE  ChannelInv'
<1> USE DEF service_vars, reader_vars, writer_vars
<1>1. /\ UNCHANGED commands /\ UNCHANGED outgoing /\ UNCHANGED <<pending, reader>>
      /\ UNCHANGED reader /\ UNCHANGED sink /\ UNCHANGED writing /\ UNCHANGED accepting
      /\ UNCHANGED peers_sinks
  BY ZenonT(20) DEF RemoteSend, RemoteRecv, LinkDown
<1>2. /\ CommandsHold' /\ OutgoingHold' /\ PendingHold' /\ SinksHold' /\ WritingHold'
      /\ PeersTried' /\ OpenersAwake' /\ RoutesAwake'
  BY <1>1, ChannelKept, Zenon
<1>3. ASSUME NEW r \in Remotes, NEW e \in {r, far[r]}, NEW q, net' = [net EXCEPT ![e] = q]
      PROVE  NetHolds'
  <2>1. ASSUME NEW d \in Conns, far[d] \in Conns PROVE d # e /\ d \in Ends
    BY ZenonT(20), <2>1, EndsMeet
  <2>2. ASSUME NEW d \in Conns, far[d] \in Conns PROVE net'[d] = net[d]
    BY <1>3, <2>1, <2>2, SequenceTypes
  <2> QED BY <2>2 DEF ChannelInv, NetHolds, LinkFrames
<1>4. NetHolds'
  <2>1. CASE \E c \in Conns : LinkDown(c)
    BY <2>1, ChannelKept, Zenon DEF LinkDown
  <2>2. ASSUME NEW r \in Remotes, RemoteSend(r) \/ RemoteRecv(r) PROVE NetHolds'
    <3>1. \E e \in {r, far[r]} : \E q : net' = [net EXCEPT ![e] = q]
      BY ZenonT(20), <2>2 DEF RemoteSend, RemoteRecv
    <3> QED BY ZenonT(40), <3>1, <1>3
  <2> QED BY <2>1, <2>2
<1> QED BY <1>2, <1>4 DEF ChannelInv

LEMMA InitChannel == Init => ChannelInv
<1> SUFFICES ASSUME Init PROVE ChannelInv
  OBVIOUS
<1>1. CommandsHold /\ OutgoingHold /\ PendingHold /\ SinksHold /\ WritingHold /\ NetHolds
  BY SMTT(40), Lone DEF Init, CommandsHold, OutgoingHold, PendingHold, SinksHold, WritingHold, NetHolds, Ends
<1>2. PeersTried /\ OpenersAwake /\ RoutesAwake
  BY DEF Init, PeersTried, OpenersAwake, RoutesAwake, Awake, Known
<1> QED BY <1>1, <1>2 DEF ChannelInv

LEMMA NextChannel == ASSUME TypeOK, ChannelInv, [Next]_vars PROVE ChannelInv'
<1>0. GoOn
  BY NextGoesOn
<1>1. CASE UNCHANGED vars
  <2>1. /\ UNCHANGED commands /\ UNCHANGED outgoing /\ UNCHANGED <<pending, reader>>
        /\ UNCHANGED reader /\ UNCHANGED sink /\ UNCHANGED writing /\ UNCHANGED net
        /\ UNCHANGED accepting /\ UNCHANGED peers_sinks
    BY Zenon, <1>1 DEF vars, service_vars, reader_vars, writer_vars, socket_vars
  <2> QED BY <1>0, <2>1, ChannelKept, Zenon DEF ChannelInv
<1>2. ASSUME NEW s \in Servers, ServerStep(s) PROVE ChannelInv'
  BY <1>0, <1>2, LoopChannel
<1>3. ASSUME NEW c \in Outbound, MeshStart(c) \/ MeshStartFails(c) \/ MeshClientStep(c)
      PROVE  ChannelInv'
  <2>1. c \in Conns
    BY Zenon, NetAssumption
  <2> QED BY ZenonT(20), <1>0, <1>3, <2>1, ReadersChannel, SendCommandChannel, WritersChannel,
             ArrivalsChannel DEF MeshClientStep
<1>4. ASSUME NEW c \in Conns \ Outbound, AddNewClient(c) \/ RefuseClient(c) \/ ClientStep(c)
      PROVE  ChannelInv'
  BY ZenonT(20), <1>0, <1>4, ReadersChannel, SendCommandChannel, WritersChannel, ArrivalsChannel
     DEF ClientStep
<1>5. ASSUME NEW c \in Conns, AnnounceNext(c) \/ FloodNext(c) PROVE ChannelInv'
  BY <1>0, <1>5, NoticesChannel
<1> QED BY ZenonT(20), <1>0, <1>1, <1>2, <1>3, <1>4, <1>5, OutsideChannel DEF Next

(***************************************************************************)
(* However the servers are linked: no channel or task holds more than one  *)
(* element, a server accepts connections only after it tried its mesh      *)
(* peers, routes lead only to connections that came up, and a link carries *)
(* packets in one direction only, never one for its far end's own key.     *)
(***************************************************************************)
THEOREM ChannelsHold == Spec => []ChannelInv
<1>1. Init => ChannelInv
  BY InitChannel
<1>2. TypeOK /\ ChannelInv /\ [Next]_vars => ChannelInv'
  BY NextChannel
<1> QED BY <1>1, <1>2, TypeCorrect, PTL DEF Spec

-----------------------------------------------------------------------------
(* The order in which the servers start *)

LEMMA AcceptingGrows ==
  ASSUME TypeOK, [Next]_vars
  PROVE  \A s \in Servers : accepting[s] => accepting'[s]
<1> USE DEF service_vars
<1>1. ASSUME NEW s \in Servers, ServerStep(s) PROVE UNCHANGED accepting \/ StartAccepting(s)
  BY ZenonT(20), <1>1 DEF ServerStep, LoopSendPacket, LoopDeliver, LoopDies, LoopSubscribe,
                          LoopPeerPresent
<1>2. ASSUME NEW c, MeshStart(c) \/ MeshStartFails(c) \/ MeshClientStep(c)
      PROVE  UNCHANGED accepting
  BY ZenonT(20), <1>2
     DEF MeshStart, MeshStartFails, MeshClientStep, MeshWatch, MeshWatchLost,
         MeshWatchFails, MeshReadPeerPresent, MeshReadForwardPacket, MeshReadUnhandled,
         ReadMalformed, ReadError, SendCommand, MeshRecvPeerPresent, MeshRecvPacket,
         MeshRecvNone, WriteFrame, WriteLost, MeshWriteFails
<1>3. ASSUME NEW c, AddNewClient(c) \/ RefuseClient(c) \/ ClientStep(c) PROVE UNCHANGED accepting
  BY ZenonT(20), <1>3
     DEF AddNewClient, RefuseClient, ClientStep, ReadSendPacket, ReadWatchConns, ReadPeerPresent,
         ReadUnhandled, ReadMalformed, ReadError, SendCommand, RecvWrite, RecvUnwritable,
         WriteFrame, WriteLost, WriteFails, RecvNone
<1>4. ASSUME NEW c, AnnounceNext(c) \/ FloodNext(c) \/ LinkDown(c) PROVE UNCHANGED accepting
  BY Zenon, <1>4 DEF AnnounceNext, FloodNext, LinkDown
<1>5. ASSUME NEW r, RemoteSend(r) \/ RemoteRecv(r) PROVE UNCHANGED accepting
  BY Zenon, <1>5 DEF RemoteSend, RemoteRecv
<1>6. UNCHANGED accepting \/ \E s \in Servers : StartAccepting(s)
  BY ZenonT(20), <1>1, <1>2, <1>3, <1>4, <1>5 DEF Next, vars
<1>7. ASSUME NEW s \in Servers, StartAccepting(s) PROVE \A t \in Servers : accepting[t] => accepting'[t]
  BY <1>7 DEF StartAccepting, TypeOK
<1> QED BY <1>6, <1>7

(* A mesh client comes up only in MeshClient::start. *)
LEMMA OpenerWakes ==
  ASSUME TypeOK, ChannelInv, [Next]_vars, NEW c \in Outbound, ~Awake(c), Awake(c)'
  PROVE  MeshStart(c) \/ MeshStartFails(c)
<1>1. c \in Conns /\ reader \in [Conns -> TaskStatus]
  BY ZenonT(40), EndsMeet, SequenceTypes
<1>2. ~UNCHANGED reader
  BY DEF Awake
<1>3. ASSUME NEW d \in Conns, NEW x, reader' = [reader EXCEPT ![d] = x] PROVE c = d
  BY <1>1, <1>3 DEF Awake
<1>4. ASSUME NEW s \in Servers, ServerStep(s) PROVE FALSE
  BY ZenonT(20), <1>2, <1>4 DEF ServerStep, StartAccepting, LoopSendPacket, LoopDeliver, LoopDies,
                                LoopSubscribe, LoopPeerPresent, reader_vars
<1>5. ASSUME NEW d \in Conns, ClientStep(d) \/ MeshClientStep(d)
      PROVE  /\ reader[d] \in {"starting", "running"}
             /\ \E x : reader' = [reader EXCEPT ![d] = x]
  <2>1. CASE SendCommand(d)
    <3>1. reader[d] = "running"
      BY Zenon, <2>1 DEF ChannelInv, PendingHold, SendCommand
    <3>2. \E x : reader' = [reader EXCEPT ![d] = x]
      BY ZenonT(20), <1>2, <2>1 DEF SendCommand
    <3> QED BY Zenon, <3>1, <3>2
  <2>2. CASE MeshWatch(d) \/ MeshWatchLost(d) \/ MeshWatchFails(d)
    BY ZenonT(20), <2>2 DEF MeshWatch, MeshWatchLost, MeshWatchFails
  <2>3. CASE \/ ReadUnhandled(d) \/ ReadMalformed(d) \/ ReadError(d) \/ MeshReadUnhandled(d)
    BY ZenonT(20), <2>3 DEF ReadUnhandled, ReadMalformed, ReadError, MeshReadUnhandled,
                            GetNextMessage
  <2>4. CASE \/ ReadSendPacket(d) \/ ReadWatchConns(d) \/ ReadPeerPresent(d)
             \/ MeshReadPeerPresent(d) \/ MeshReadForwardPacket(d)
    BY ZenonT(20), <1>2, <2>4 DEF ReadSendPacket, ReadWatchConns, ReadPeerPresent,
                                  MeshReadPeerPresent, MeshReadForwardPacket
  <2>5. CASE \/ RecvWrite(d) \/ RecvUnwritable(d) \/ WriteFrame(d) \/ WriteLost(d)
             \/ WriteFails(d) \/ RecvNone(d) \/ MeshRecvPeerPresent(d) \/ MeshRecvPacket(d)
             \/ MeshRecvNone(d) \/ MeshWriteFails(d)
    BY ZenonT(20), <1>2, <2>5 DEF RecvWrite, RecvUnwritable, WriteFrame, WriteLost, WriteFails,
         RecvNone, MeshRecvPeerPresent, MeshRecvPacket, MeshRecvNone, MeshWriteFails, reader_vars
  <2> QED BY ZenonT(20), <1>5, <2>1, <2>2, <2>3, <2>4, <2>5 DEF ClientStep, MeshClientStep
<1>6. ASSUME NEW d \in Conns, ClientStep(d) \/ MeshClientStep(d) PROVE FALSE
  <2>1. c = d /\ reader[d] \in {"starting", "running"}
    BY Zenon, <1>3, <1>5, <1>6
  <2> QED BY <2>1 DEF Awake
<1>7. ASSUME NEW d \in Outbound, MeshStart(d) \/ MeshStartFails(d) PROVE c = d
  <2>1. d \in Conns /\ \E x : reader' = [reader EXCEPT ![d] = x]
    BY Zenon, <1>7, NetAssumption DEF MeshStart, MeshStartFails
  <2> QED BY ZenonT(40), <1>3, <2>1
<1>8. ASSUME NEW d \in Conns \ Outbound, AddNewClient(d) \/ RefuseClient(d) PROVE FALSE
  <2>1. c = d
    BY ZenonT(20), <1>3, <1>8 DEF AddNewClient, RefuseClient
  <2> QED BY <2>1
<1>9. ASSUME NEW d, AnnounceNext(d) \/ FloodNext(d) \/ LinkDown(d) \/ RemoteSend(d) \/ RemoteRecv(d)
      PROVE  FALSE
  BY ZenonT(20), <1>2, <1>9 DEF AnnounceNext, FloodNext, LinkDown, RemoteSend, RemoteRecv, reader_vars
<1>10. Next
  BY Zenon, <1>2 DEF vars, reader_vars
<1> QED BY ZenonT(20), <1>4, <1>6, <1>7, <1>8, <1>9, <1>10, EndsMeet DEF Next

(* A server that starts to accept connections comes before those that do   *)
(* not yet.                                                                *)
LEMMA StartedGrows ==
  ASSUME TypeOK, ChannelInv, [Next]_vars, NEW b \in SUBSET (Servers \X Servers), Started(b)
  PROVE  \E g \in SUBSET (Servers \X Servers) : b \subseteq g /\ Started(g)'
<1>1. GoOn /\ \A s \in Servers : accepting[s] => accepting'[s]
  BY Zenon, NextGoesOn, AcceptingGrows
<1> PICK g \in SUBSET (Servers \X Servers) :
      g = b \cup {p \in Servers \X Servers : accepting'[p[1]] /\ ~accepting'[p[2]]}
  BY ZenonT(40)
<1>2. b \subseteq g
  OBVIOUS
<1>3. ASSUME NEW s \in Servers, NEW t \in Servers
      PROVE  <<s, t>> \in g <=> <<s, t>> \in b \/ (accepting'[s] /\ ~accepting'[t])
  OBVIOUS
<1>4. \A s \in Servers : <<s, s>> \notin g
  BY Zenon, <1>3 DEF Started
<1>5. ASSUME NEW s \in Servers, NEW t \in Servers, <<s, t>> \in g PROVE accepting'[s]
  BY ZenonT(20), <1>1, <1>3, <1>5 DEF Started
<1>6. ASSUME NEW s \in Servers, NEW t \in Servers, NEW u \in Servers,
             <<s, t>> \in g, <<t, u>> \in g
      PROVE  <<s, u>> \in g
  <2>1. accepting'[s] /\ accepting'[t] /\ <<s, t>> \in b
    BY ZenonT(20), <1>3, <1>5, <1>6
  <2>2. <<t, u>> \in b => <<s, u>> \in b
    BY ZenonT(20), <2>1 DEF Started
  <2> QED BY ZenonT(20), <1>3, <1>6, <2>1, <2>2
<1>7. ASSUME NEW c \in Outbound, far[c] \in Conns, Awake(c)'
      PROVE  <<owner[far[c]], owner[c]>> \in g \/ Closed(c)'
  <2>1. c \in Conns /\ owner[c] \in Servers /\ owner[far[c]] \in Servers
    BY ZenonT(20), <1>7, EndsMeet
  <2>2. CASE Awake(c)
    <3>1. <<owner[far[c]], owner[c]>> \in b \/ Closed(c)
      BY Zenon, <1>7, <2>2 DEF Started
    <3> QED BY Zenon, <1>1, <1>2, <2>1, <3>1 DEF GoOn
  <2>3. CASE MeshStartFails(c)
    <3>1. reader'[c] = "ended" /\ writer'[c] = "ended"
      BY ZenonT(40), <2>1, <2>3 DEF MeshStartFails, EndWriter, TypeOK
    <3> QED BY <3>1 DEF Closed, Over
  <2>4. CASE MeshStart(c)
    <3>1. ~accepting[owner[c]]
      BY ZenonT(20), <2>1, <2>4 DEF MeshStart, ChannelInv, PeersTried, MeshPeersDone
    <3>2. accepting[owner[far[c]]]
      BY <1>7, <2>4 DEF MeshStart
    <3>3. <<owner[far[c]], owner[c]>> \in b
      BY Zenon, <2>1, <3>1, <3>2 DEF Started
    <3> QED BY <1>2, <3>3
  <2> QED BY <1>7, <2>2, <2>3, <2>4, OpenerWakes
<1>8. Started(g)'
  BY ZenonT(20), <1>3, <1>4, <1>5, <1>6, <1>7 DEF Started
<1> QED BY <1>2, <1>8

(* Packets that a server sends on go to one that started later. *)
LEMMA OnwardLater ==
  ASSUME TypeOK, ChannelInv, RouteBacked, NEW b, Started(b),
         NEW s \in Servers, NEW k \in Keys, Onward(s, k)
  PROVE  LET c == peers_sinks[s][k] IN
         /\ c \in Conns /\ far[c] \in Conns /\ far[far[c]] = c /\ owner[c] = s
         /\ <<s, owner[far[c]]>> \in b
<1> DEFINE c == peers_sinks[s][k]
<1>1. c \in Conns \ Outbound /\ far[c] \in Conns /\ ~Closed(far[c]) /\ c # None
  BY NetAssumption DEF Onward, Link
<1>2. far[c] \in Outbound /\ far[far[c]] = c
  BY Zenon, <1>1, EndsMeet
<1>3. owner[c] = s
  BY SMTT(40), <1>1 DEF RouteBacked
<1>4. Awake(far[c])
  BY <1>1 DEF ChannelInv, RoutesAwake, OpenersAwake, Known
<1> HIDE DEF c
<1>5. <<owner[c], owner[far[c]]>> \in b
  BY ZenonT(20), <1>1, <1>2, <1>4 DEF Started
<1> QED BY Zenon, <1>1, <1>2, <1>3, <1>5 DEF c

(* A step leaves alone where packets go on to, or a client takes them. *)
RoutesGoOn(k) ==
  \A s \in Servers :
    /\ Onward(s, k) => \/ Onward(s, k)' /\ peers_sinks'[s][k] = peers_sinks[s][k]
                       \/ Final(s, k)'
    /\ Final(s, k) => Final(s, k)'

LEMMA NextRoutes == ASSUME TypeOK, [Next]_vars, NEW k \in Keys PROVE RoutesGoOn(k)
<1> SUFFICES ASSUME NEW s \in Servers, Onward(s, k) \/ Final(s, k)
             PROVE  \/ /\ Onward(s, k)' <=> Onward(s, k)
                       /\ peers_sinks'[s][k] = peers_sinks[s][k]
                    \/ Final(s, k)'
  BY SMTT(40) DEF RoutesGoOn, Final, Known
<1> DEFINE c == peers_sinks[s][k]
           d == peers_sinks'[s][k]
<1>1. c # None
  BY NetAssumption DEF Final, Known, Onward, Link
<1>2. CASE c # d
  <2>1. d # None /\ pk[d] = k
    BY SMTT(40), <1>1, <1>2, RouteReplaced
  <2> QED BY ZenonT(40), <2>1 DEF Final, Known, Onward, Link
<1>3. CASE c = d
  <2>1. Onward(s, k)' => Onward(s, k)
    BY SMTT(40), <1>3, NextGoesOn DEF Onward, Link, GoOn
  <2>2. ~Onward(s, k)' => Final(s, k)'
    BY SMTT(40), <1>1, <1>3 DEF Final, Known
  <2> QED BY SMTT(40), <1>3, <2>1, <2>2
<1> QED BY SMTT(40), <1>2, <1>3

-----------------------------------------------------------------------------
(* Where packets lead *)

LEMMA PlaceFacts ==
  /\ \A s \in Servers : s \in Places /\ ServerOf(s) = s /\ s \notin Conns
  /\ \A c \in Conns : /\ c \in Places /\ c \notin Servers /\ owner[c] \in Servers
                      /\ ServerOf(c) = owner[c]
  /\ \A l \in Places : ServerOf(l) \in Servers /\ (l \in Conns \/ l \in Servers)
BY EndsMeet DEF Places, ServerOf

LEMMA LeadsSelf == ASSUME NEW b, NEW l, NEW k PROVE Leads(b, l, l, k)
BY Zenon DEF Leads

(* Over a connection into its server *)
LEMMA LeadsIn ==
  ASSUME NEW b, NEW c \in Conns, NEW k
  PROVE  /\ \A m : Leads(b, m, c, k) => Leads(b, m, owner[c], k)
         /\ \A l : l # c /\ Leads(b, c, l, k) => Leads(b, owner[c], l, k)
<1>1. c \in Places /\ c \notin Servers /\ ServerOf(c) = owner[c] /\ ServerOf(owner[c]) = owner[c]
  BY Zenon, PlaceFacts
<1>2. ASSUME NEW m, Leads(b, m, c, k) PROVE Leads(b, m, owner[c], k)
  <2> SUFFICES ASSUME NEW S \in SUBSET Places, m \in S, Tracks(S, k)
               PROVE  \/ owner[c] \in S
                      \/ \E s \in S \cap Servers : Final(s, k) /\ <<s, ServerOf(owner[c])>> \in b
    BY Zenon DEF Leads
  <2>1. c \in S \/ \E s \in S \cap Servers : Final(s, k) /\ <<s, ServerOf(c)>> \in b
    BY Zenon, <1>2 DEF Leads
  <2>2. c \in S => owner[c] \in S
    BY DEF Tracks
  <2> QED BY Zenon, <1>1, <2>1, <2>2
<1>3. ASSUME NEW l, l # c, Leads(b, c, l, k) PROVE Leads(b, owner[c], l, k)
  <2> SUFFICES ASSUME NEW S \in SUBSET Places, owner[c] \in S, Tracks(S, k)
               PROVE  l \in S \/ \E s \in S \cap Servers : Final(s, k) /\ <<s, ServerOf(l)>> \in b
    BY Zenon DEF Leads
  <2> DEFINE T == S \cup {c}
  <2>1. T \in SUBSET Places /\ c \in T /\ T \cap Servers = S \cap Servers
    BY SMTT(40), <1>1
  <2>2. Tracks(T, k)
    BY <1>1 DEF Tracks
  <2>3. l \in T \/ \E s \in T \cap Servers : Final(s, k) /\ <<s, ServerOf(l)>> \in b
    <3> HIDE DEF T
    <3> QED BY Zenon, <1>3, <2>1, <2>2 DEF Leads
  <2> QED BY <1>3, <2>1, <2>3
<1> QED BY <1>2, <1>3

(* From a server on to another *)
LEMMA LeadsOn ==
  ASSUME TypeOK, ChannelInv, RouteBacked, NEW b, Started(b),
         NEW s \in Servers, NEW k \in Keys, Onward(s, k)
  PROVE  LET e == far[peers_sinks[s][k]] IN
         /\ \A m : Leads(b, m, s, k) => Leads(b, m, e, k)
         /\ \A l : l # s /\ Leads(b, s, l, k) => Leads(b, e, l, k)
<1> DEFINE e == far[peers_sinks[s][k]]
<1>1. e \in Conns /\ <<s, owner[e]>> \in b
  BY OnwardLater
<1>2. s \in Places /\ ServerOf(s) = s /\ ServerOf(e) = owner[e] /\ owner[e] \in Servers /\ s \notin Conns
  BY Zenon, <1>1, PlaceFacts
<1>3. ASSUME NEW m, Leads(b, m, s, k) PROVE Leads(b, m, e, k)
  <2> SUFFICES ASSUME NEW S \in SUBSET Places, m \in S, Tracks(S, k)
               PROVE  e \in S \/ \E t \in S \cap Servers : Final(t, k) /\ <<t, ServerOf(e)>> \in b
    BY Zenon DEF Leads
  <2>1. s \in S \/ \E t \in S \cap Servers : Final(t, k) /\ <<t, ServerOf(s)>> \in b
    BY Zenon, <1>3 DEF Leads
  <2>2. s \in S => e \in S
    BY DEF Tracks
  <2> HIDE DEF e
  <2>3. ASSUME NEW t \in Servers, <<t, s>> \in b PROVE <<t, owner[e]>> \in b
    BY Zenon, <1>1, <1>2, <2>3 DEF Started
  <2> QED BY Zenon, <1>2, <2>1, <2>2, <2>3
<1>4. ASSUME NEW l, l # s, Leads(b, s, l, k) PROVE Leads(b, e, l, k)
  <2> SUFFICES ASSUME NEW S \in SUBSET Places, e \in S, Tracks(S, k)
               PROVE  l \in S \/ \E t \in S \cap Servers : Final(t, k) /\ <<t, ServerOf(l)>> \in b
    BY Zenon DEF Leads
  <2> DEFINE T == S \cup {s}
  <2>1. T \in SUBSET Places /\ s \in T
    BY SMTT(40), <1>2
  <2>2. Tracks(T, k)
    BY <1>2 DEF Tracks
  <2>3. l \in T \/ \E t \in T \cap Servers : Final(t, k) /\ <<t, ServerOf(l)>> \in b
    <3> HIDE DEF T
    <3> QED BY Zenon, <1>4, <2>1, <2>2 DEF Leads
  <2>4. ~Final(s, k)
    BY DEF Final
  <2> QED BY Zenon, <1>4, <2>3, <2>4
<1> QED BY SMTT(40), <1>3, <1>4

(* To a client *)
LEMMA LeadsOut ==
  ASSUME NEW b, NEW s \in Servers, NEW k, NEW l, l # s, Leads(b, s, l, k), ~Onward(s, k)
  PROVE  <<s, ServerOf(l)>> \in b
<1>1. {s} \in SUBSET Places /\ s \in {s} /\ s \notin Conns
  BY PlaceFacts
<1>2. Tracks({s}, k)
  BY <1>1 DEF Tracks
<1>3. l \in {s} \/ \E t \in {s} \cap Servers : Final(t, k) /\ <<t, ServerOf(l)>> \in b
  BY Zenon, <1>1, <1>2 DEF Leads
<1> QED BY ZenonT(40), <1>3

(* Nothing leads back. *)
LEMMA NoReturn ==
  ASSUME TypeOK, ChannelInv, RouteBacked, NEW b, Started(b), NEW k \in Keys,
         NEW s \in Servers, NEW e \in Conns, <<s, owner[e]>> \in b, Leads(b, e, s, k)
  PROVE  FALSE
<1> PICK S \in SUBSET Places : S = {p \in Places : <<s, ServerOf(p)>> \in b}
  BY ZenonT(40)
<1>1. e \in S /\ s \notin S
  BY Zenon, PlaceFacts DEF Started
<1>2. ASSUME NEW c \in S \cap Conns PROVE owner[c] \in S
  BY ZenonT(40), PlaceFacts
<1>3. ASSUME NEW t \in S \cap Servers PROVE <<s, t>> \in b
  BY SMTT(40), PlaceFacts
<1>4. ASSUME NEW t \in S \cap Servers, Onward(t, k) PROVE far[peers_sinks[t][k]] \in S
  <2> DEFINE f == far[peers_sinks[t][k]]
  <2>1. f \in Conns /\ <<t, owner[f]>> \in b
    BY <1>4, OnwardLater
  <2> HIDE DEF f
  <2>2. <<s, owner[f]>> \in b
    BY Zenon, <1>3, <2>1, PlaceFacts DEF Started
  <2>3. f \in Places /\ ServerOf(f) = owner[f]
    BY Zenon, <2>1, PlaceFacts
  <2>4. f \in S
    BY <2>2, <2>3
  <2> QED BY SMTT(40), <2>4 DEF f
<1>5. Tracks(S, k)
  BY Zenon, <1>2, <1>4 DEF Tracks
<1>6. PICK t \in S \cap Servers : <<t, ServerOf(s)>> \in b
  BY Zenon, <1>1, <1>5 DEF Leads
<1>7. <<s, s>> \in b
  BY Zenon, <1>3, <1>6, PlaceFacts DEF Started
<1> QED BY <1>7 DEF Started

(* What leads to a place before a step does so after it. *)
LEMMA LeadsKept ==
  ASSUME TypeOK, ChannelInv, RouteBacked, NEW b, NEW g, b \subseteq g, Started(b), Started(g)',
         NEW k \in Keys, RoutesGoOn(k), NEW m, NEW l \in Places, Leads(b, m, l, k)
  PROVE  Leads(g, m, l, k)'
<1> SUFFICES ASSUME NEW S \in SUBSET Places, m \in S, Tracks(S, k)'
             PROVE  l \in S \/ \E s \in S \cap Servers : Final(s, k)' /\ <<s, ServerOf(l)>> \in g
  BY Zenon DEF Leads
<1> DEFINE Taken(p) == \E t \in S \cap Servers : Final(t, k)' /\ <<t, ServerOf(p)>> \in g
           T == {p \in Places : p \in S \/ Taken(p)}
<1>1. T \in SUBSET Places /\ m \in T
  OBVIOUS
<1>2. ASSUME NEW s \in Servers, NEW t \in Servers, NEW u \in Servers, <<s, t>> \in g, <<t, u>> \in g
      PROVE  <<s, u>> \in g
  BY Zenon, <1>2 DEF Started
<1>3. ASSUME NEW c \in T \cap Conns PROVE owner[c] \in T
  <2>1. c \in S => owner[c] \in S
    BY DEF Tracks
  <2>2. ServerOf(owner[c]) = ServerOf(c) /\ owner[c] \in Places
    BY Zenon, PlaceFacts
  <2> QED BY Zenon, <2>1, <2>2
<1>4. ASSUME NEW s \in T \cap Servers, Onward(s, k) PROVE far[peers_sinks[s][k]] \in T
  <2> DEFINE e == far[peers_sinks[s][k]]
  <2>1. e \in Conns /\ <<s, owner[e]>> \in g
    BY Zenon, <1>4, OnwardLater
  <2>2. e \in Places /\ ServerOf(e) = owner[e] /\ owner[e] \in Servers /\ ServerOf(s) = s
    BY Zenon, <2>1, PlaceFacts
  <2>3. CASE s \in S
    <3>1. e \in S \/ Final(s, k)'
      BY Zenon, <1>4, <2>3 DEF RoutesGoOn, Tracks
    <3> HIDE DEF e
    <3>2. e \in T
      BY Zenon, <2>1, <2>2, <2>3, <3>1
    <3> QED BY ZenonT(40), <3>2 DEF e
  <2>4. CASE Taken(s)
    <3> HIDE DEF e
    <3>1. Taken(e)
      BY Zenon, <1>2, <2>1, <2>2, <2>4
    <3>2. e \in T
      BY Zenon, <2>2, <3>1
    <3> QED BY ZenonT(40), <3>2 DEF e
  <2> QED BY Zenon, <2>3, <2>4
<1> HIDE DEF Taken
<1>5. Tracks(T, k)
  <2> HIDE DEF T
  <2> QED BY Zenon, <1>3, <1>4 DEF Tracks
<1>6. l \in T \/ \E s \in T \cap Servers : Final(s, k) /\ <<s, ServerOf(l)>> \in b
  <2> HIDE DEF T
  <2> QED BY Zenon, <1>1, <1>5 DEF Leads
<1>7. ASSUME NEW s \in T \cap Servers, Final(s, k), <<s, ServerOf(l)>> \in b
      PROVE  l \in S \/ Taken(l)
  <2>1. Final(s, k)' /\ <<s, ServerOf(l)>> \in g /\ ServerOf(l) \in Servers /\ ServerOf(s) = s
    BY ZenonT(40), <1>7, PlaceFacts DEF RoutesGoOn
  <2>2. CASE s \in S
    BY Zenon, <2>1, <2>2 DEF Taken
  <2>3. CASE Taken(s)
    BY Zenon, <1>2, <2>1, <2>3 DEF Taken
  <2> QED BY <2>2, <2>3
<1> QED BY Zenon, <1>6, <1>7 DEF Taken

-----------------------------------------------------------------------------
(* The stages on the way to an end, before and after a step *)

LEMMA Ways ==
  ASSUME NEW e
  PROVE  /\ e \in Remotes => OnTheWay(e, 1) = FramePackets(received[e])
         /\ e \notin Remotes => OnTheWay(e, 1) = CommandPackets(pending[e])
         /\ OnTheWay(e, 2) = FramePackets(net[e])
         /\ far[e] \in Conns =>
              /\ OnTheWay(e, 3) = FramePackets(writing[far[e]])
              /\ OnTheWay(e, 4) = CommandPackets(sink[far[e]])
              /\ OnTheWay(e, 5) = HeldPackets(outgoing[owner[far[e]]], far[e])
         /\ far[e] \notin Conns =>
              OnTheWay(e, 3) = {} /\ OnTheWay(e, 4) = {} /\ OnTheWay(e, 5) = {}
BY DEF OnTheWay

LEMMA WaysAfter ==
  ASSUME NEW e
  PROVE  /\ e \in Remotes => OnTheWay(e, 1)' = FramePackets(received'[e])
         /\ e \notin Remotes => OnTheWay(e, 1)' = CommandPackets(pending'[e])
         /\ OnTheWay(e, 2)' = FramePackets(net'[e])
         /\ far[e] \in Conns =>
              /\ OnTheWay(e, 3)' = FramePackets(writing'[far[e]])
              /\ OnTheWay(e, 4)' = CommandPackets(sink'[far[e]])
              /\ OnTheWay(e, 5)' = HeldPackets(outgoing'[owner[far[e]]], far[e])
         /\ far[e] \notin Conns =>
              OnTheWay(e, 3)' = {} /\ OnTheWay(e, 4)' = {} /\ OnTheWay(e, 5)' = {}
BY DEF OnTheWay

LEMMA StageNumbers == \A i \in Stages : i \in Nat /\ (i = 1 \/ i = 2 \/ i = 3 \/ i = 4 \/ i = 5)
BY DEF Stages

(* A link that is closed stays so: packets only stop entering. *)
LEMMA EntersLess ==
  ASSUME GoOn, UNCHANGED sent, NEW e \in Ends, NEW p, Enters(e, p)'
  PROVE  Enters(e, p)
<1> SUFFICES ASSUME e \in Conns, far[e] \in Conns PROVE Link(far[e], Target(p))
  BY Zenon DEF Enters
<1>1. Link(far[e], Target(p))' /\ far[far[e]] = e
  BY Zenon, EndsMeet DEF Enters
<1>2. Target(p)' = Target(p)
  BY DEF Target
<1>3. ~Closed(e)
  BY Zenon, <1>1 DEF GoOn, Link
<1> QED BY ZenonT(20), <1>1, <1>2, <1>3 DEF Link

(* In a step the stage k of e0 may grow by M, and no other stage grows. *)
Flow(e0, k, M) ==
  /\ \A e \in Ends : \A i \in Stages :
       e # e0 \/ i # k => OnTheWay(e, i)' \subseteq OnTheWay(e, i)
  /\ OnTheWay(e0, k)' \subseteq OnTheWay(e0, k) \cup M

LEMMA StagesFlow ==
  ASSUME GoOn, UNCHANGED sent, NEW e0 \in Ends, NEW k \in Stages, NEW M, Flow(e0, k, M)
  PROVE  /\ \A e \in Ends : \A i \in Stages :
              e # e0 \/ i # k => Stage(e, i)' \subseteq Stage(e, i)
         /\ Stage(e0, k)' \subseteq Stage(e0, k) \cup {p \in M : Enters(e0, p)}
<1>1. ASSUME NEW e \in Ends, NEW i \in Stages, NEW p \in Stage(e, i)'
      PROVE  p \in OnTheWay(e, i)' /\ Enters(e, p)
  BY Zenon, EntersLess DEF Stage
<1>2. ASSUME NEW e \in Ends, NEW i \in Stages, e # e0 \/ i # k, NEW p \in Stage(e, i)'
      PROVE  p \in Stage(e, i)
  <2>1. p \in OnTheWay(e, i)
    BY Zenon, <1>1, <1>2 DEF Flow
  <2> QED BY Zenon, <1>1, <2>1 DEF Stage
<1>3. ASSUME NEW p \in Stage(e0, k)' PROVE p \in Stage(e0, k) \/ (p \in M /\ Enters(e0, p))
  <2>1. p \in OnTheWay(e0, k) \/ p \in M
    BY Zenon, <1>1, <1>3 DEF Flow
  <2> QED BY Zenon, <1>1, <2>1 DEF Stage
<1> QED BY Zenon, <1>2, <1>3

(* What arrives in stage k is later than what is in the stages before, and *)
(* earlier than what is left in the stages behind.                         *)
LEMMA OrderFlow ==
  ASSUME GoOn, UNCHANGED sent, NEW e0 \in Ends, NEW k \in Stages, NEW M, Flow(e0, k, M),
         StagesOrdered,
         \A i \in Stages : i < k => Precedes(sent, Stage(e0, i), {p \in M : Enters(e0, p)}),
         \A j \in Stages : k < j => Precedes(sent, {p \in M : Enters(e0, p)}, Stage(e0, j)')
  PROVE  StagesOrdered'
<1> DEFINE N == {p \in M : Enters(e0, p)}
<1>1. /\ \A e \in Ends : \A i \in Stages :
           e # e0 \/ i # k => Stage(e, i)' \subseteq Stage(e, i)
      /\ Stage(e0, k)' \subseteq Stage(e0, k) \cup N
  BY StagesFlow
<1> HIDE DEF N
<1> SUFFICES ASSUME NEW e \in Ends, NEW i \in Stages, NEW j \in Stages, i < j,
                    NEW x \in Stage(e, i)', NEW y \in Stage(e, j)', Same(sent, x, y)
             PROVE  x.n < y.n
  BY Zenon DEF StagesOrdered, Precedes
<1>2. i # j
  BY StageNumbers
<1>3. CASE x \in Stage(e, i) /\ y \in Stage(e, j)
  BY Zenon, <1>3 DEF StagesOrdered, Precedes
<1>4. CASE x \notin Stage(e, i)
  <2>1. e = e0 /\ i = k /\ x \in N
    BY Zenon, <1>1, <1>4
  <2> QED BY Zenon, <2>1 DEF Precedes, N
<1>5. CASE x \in Stage(e, i) /\ y \notin Stage(e, j)
  <2>1. e = e0 /\ j = k /\ y \in N
    BY Zenon, <1>1, <1>5
  <2> QED BY Zenon, <1>5, <2>1 DEF Precedes, N
<1> QED BY SMTT(40), <1>3, <1>4, <1>5

(* The same for packets that come from the stage behind. *)
LEMMA OrderDown ==
  ASSUME GoOn, UNCHANGED sent, NEW e0 \in Ends, NEW k \in Stages, NEW M, Flow(e0, k, M),
         StagesOrdered, k + 1 \in Stages, M \subseteq OnTheWay(e0, k + 1),
         Precedes(sent, {p \in M : Enters(e0, p)}, Stage(e0, k + 1)')
  PROVE  /\ StagesOrdered'
         /\ \A e \in Ends : Bound(e)' \subseteq Bound(e)
         /\ \A e \in Ends : \A i \in Stages :
              e # e0 \/ i # k => Stage(e, i)' \subseteq Stage(e, i)
<1> DEFINE N == {p \in M : Enters(e0, p)}
<1>1. N \subseteq Stage(e0, k + 1)
  BY DEF Stage
<1>2. /\ \A e \in Ends : \A i \in Stages :
           e # e0 \/ i # k => Stage(e, i)' \subseteq Stage(e, i)
      /\ Stage(e0, k)' \subseteq Stage(e0, k) \cup N
  BY StagesFlow
<1> HIDE DEF N
<1>3. ASSUME NEW i \in Stages, i < k PROVE Precedes(sent, Stage(e0, i), N)
  <2>1. i < k + 1
    BY SMTT(40), <1>3, StageNumbers
  <2> QED BY Zenon, <1>1, <2>1 DEF StagesOrdered, Precedes
<1>4. ASSUME NEW j \in Stages, k < j PROVE Precedes(sent, N, Stage(e0, j)')
  <2>1. CASE j = k + 1
    BY <2>1 DEF N
  <2>2. CASE j # k + 1
    <3>1. k + 1 < j /\ j # k
      BY <1>4, <2>2, StageNumbers
    <3>2. Stage(e0, j)' \subseteq Stage(e0, j)
      BY Zenon, <1>2, <3>1
    <3> QED BY Zenon, <1>1, <3>1, <3>2 DEF StagesOrdered, Precedes
  <2> QED BY SMTT(40), <2>1, <2>2
<1>5. StagesOrdered'
  BY Zenon, <1>3, <1>4, OrderFlow DEF N
<1>6. ASSUME NEW e \in Ends PROVE Bound(e)' \subseteq Bound(e)
  <2> SUFFICES ASSUME NEW i \in Stages, NEW p \in Stage(e, i)'
               PROVE  \E j \in Stages : p \in Stage(e, j)
    BY Zenon DEF Bound
  <2> QED BY Zenon, <1>1, <1>2
<1> QED BY Zenon, <1>2, <1>5, <1>6

(* Sockets that no packet is written to *)
LEMMA NetSorted ==
  ASSUME TypeOK, SocketsSorted, UNCHANGED sent,
         \A e \in Ends : Stage(e, 2)' \subseteq Stage(e, 2),
         \/ UNCHANGED net
         \/ \E c \in Ends : net[c] # <<>> /\ net' = [net EXCEPT ![c] = Tail(net[c])]
  PROVE  \A e \in Ends : Sorted(sent', net'[e], Stage(e, 2)')
<1> SUFFICES ASSUME NEW e \in Ends PROVE Sorted(sent', net'[e], Stage(e, 2)')
  OBVIOUS
<1>1. Sorted(sent, net[e], Stage(e, 2)) /\ net[e] \in Seq(Frame) /\ sent' = sent
  BY Zenon, SequenceTypes DEF SocketsSorted
<1>2. net'[e] = net[e] \/ (net[e] # <<>> /\ net'[e] = Tail(net[e]))
  <2>1. DOMAIN net = Ends
    BY SequenceTypes
  <2> QED BY ZenonT(20), <2>1
<1>3. Sorted(sent, net'[e], Stage(e, 2))
  <2>1. net[e] # <<>> => Sorted(sent, Tail(net[e]), Stage(e, 2))
    BY Zenon, <1>1, FramesTaken
  <2> QED BY <1>1, <1>2, <2>1
<1>4. Stage(e, 2)' \subseteq Stage(e, 2)
  BY SMTT(40)
<1> QED BY SMTT(40), <1>1, <1>3, <1>4, SortedPart

(* One that is *)
LEMMA NetAppended ==
  ASSUME TypeOK, SocketsSorted, GoOn, UNCHANGED sent, NEW c \in Ends, NEW f \in Frame,
         net' = [net EXCEPT ![c] = Append(net[c], f)],
         \A e \in Ends : e # c => Stage(e, 2)' \subseteq Stage(e, 2),
         Precedes(sent, Stage(c, 2), FramePackets(<<f>>) \cap Stage(c, 2)')
  PROVE  \A e \in Ends : Sorted(sent', net'[e], Stage(e, 2)')
<1> SUFFICES ASSUME NEW e \in Ends PROVE Sorted(sent', net'[e], Stage(e, 2)')
  OBVIOUS
<1>1. Sorted(sent, net[e], Stage(e, 2)) /\ net[e] \in Seq(Frame) /\ sent' = sent
  BY Zenon, SequenceTypes DEF SocketsSorted
<1>2. CASE e # c
  <2>1. net'[e] = net[e]
    BY <1>2, SequenceTypes
  <2>2. Stage(e, 2)' \subseteq Stage(e, 2)
    BY <1>2
  <2> QED BY SMTT(40), <1>1, <2>1, <2>2, SortedPart
<1>3. CASE e = c
  <2>1. net'[e] = Append(net[e], f)
    BY <1>3, SequenceTypes
  <2>2. FramePackets(net[e]) \cap Stage(e, 2)' \subseteq Stage(e, 2)
    BY Zenon, EntersLess, Ways DEF Stage
  <2>3. Precedes(sent, FramePackets(net[e]) \cap Stage(e, 2), FramePackets(<<f>>) \cap Stage(e, 2)')
    BY Zenon, <1>3 DEF Precedes
  <2> QED BY Zenon, <1>1, <2>1, <2>2, <2>3, FramesAdded
<1> QED BY SMTT(40), <1>2, <1>3

(* What a program received *)
LEMMA ReceivedSorted ==
  ASSUME SocketsSorted, UNCHANGED sent, UNCHANGED received,
         \A r \in Remotes : Stage(r, 1)' \subseteq Stage(r, 1)
  PROVE  \A r \in Remotes : Sorted(sent', received'[r], Stage(r, 1)')
BY Zenon, SortedPart DEF SocketsSorted

-----------------------------------------------------------------------------
(* Every packet on its way, and in a command channel, was sent. *)

SentPackets == {p \in Payload : p.n \in DOMAIN sent[p.from]}

LEMMA SentTargets ==
  ASSUME TypeOK, NEW p \in SentPackets
  PROVE  p.from \in Remotes /\ far[p.from] \in Conns /\ p.n \in Nat
BY EndsMeet DEF SentPackets, Payload

LEMMA GoodPacketsSent ==
  ASSUME NEW m \in GoodPackets
  PROVE  m.payload \in SentPackets /\ m.target = Target(m.payload) /\ m.target \in Keys
<1>1. m \in Packet /\ Addressed(m.target, m.payload)
  BY SMTT(40) DEF GoodPackets, Genuine
<1> QED BY <1>1, PacketFields DEF SentPackets, Addressed, Original, Target, TargetIn

LEMMA GoodFramesSent ==
  ASSUME NEW e, NEW f \in GoodFrames(e), f.ty \in Data \cup {"SendPacket"}
  PROVE  f.payload \in SentPackets /\ f.target = Target(f.payload) /\ f.target \in Keys
<1>1. f \in Frame /\ Addressed(f.target, f.payload)
  BY DEF GoodFrames, Genuine, Data
<1>2. f.payload \in Payload /\ f.target \in Keys
  BY <1>1, FrameFields DEF Data
<1> QED BY SMTT(40), <1>1, <1>2 DEF SentPackets, Addressed, Original, Target, TargetIn

LEMMA FramesWereSent ==
  ASSUME NEW e, NEW q \in Seq(GoodFrames(e)), NEW p \in FramePackets(q)
  PROVE  p \in SentPackets /\ Target(p) \in Keys
<1>1. PICK i \in DOMAIN q : q[i].ty \in Data \cup {"SendPacket"} /\ p = q[i].payload
  BY DEF FramePackets
<1>2. q[i] \in GoodFrames(e)
  BY SeqElement
<1> QED BY Zenon, <1>1, <1>2, GoodFramesSent

LEMMA CommandsWereSent ==
  ASSUME NEW S, \A m \in S : m.cmd = "SendPacket" => m \in GoodPackets,
         NEW q \in Seq(S), NEW p \in CommandPackets(q)
  PROVE  p \in SentPackets /\ Target(p) \in Keys
<1>1. PICK i \in DOMAIN q : q[i].cmd = "SendPacket" /\ p = q[i].payload
  BY DEF CommandPackets
<1>2. q[i] \in S
  BY SeqElement
<1> QED BY Zenon, <1>1, <1>2, GoodPacketsSent

LEMMA HeldWereSent ==
  ASSUME NEW q \in Seq(GoodHeld), NEW c, NEW p \in HeldPackets(q, c)
  PROVE  p \in SentPackets /\ Target(p) \in Keys
<1>1. PICK i \in DOMAIN q : p = q[i].packet.payload
  BY DEF HeldPackets
<1>2. q[i] \in GoodHeld
  BY SeqElement
<1>3. q[i].packet \in GoodPackets
  BY <1>2 DEF GoodHeld
<1> QED BY Zenon, <1>1, <1>3, GoodPacketsSent

LEMMA WayWasSent ==
  ASSUME SafeInv, NEW e \in Ends, NEW i \in Stages, NEW p \in OnTheWay(e, i)
  PROVE  p \in SentPackets /\ Target(p) \in Keys
<1>1. CASE i = 1 /\ e \in Remotes
  BY Zenon, <1>1, Ways, FramesWereSent DEF SafeInv, ReceivedSafe
<1>2. CASE i = 1 /\ e \notin Remotes
  <2>1. e \in Conns
    BY <1>2 DEF Ends
  <2>2. \A m \in GoodCommands : m.cmd = "SendPacket" => m \in GoodPackets
    BY DEF GoodCommands
  <2> HIDE DEF GoodCommands
  <2> QED BY Zenon, <1>2, <2>1, <2>2, Ways, CommandsWereSent DEF SafeInv, PendingSafe
<1>3. CASE i = 2
  BY Zenon, <1>3, Ways, FramesWereSent DEF SafeInv, NetSafe
<1>4. CASE far[e] \in Conns /\ i = 3
  BY Zenon, <1>4, Ways, FramesWereSent DEF SafeInv, WritingSafe
<1>5. CASE far[e] \in Conns /\ i = 4
  <2>1. \A m \in GoodWrites(far[e]) : m.cmd = "SendPacket" => m \in GoodPackets
    BY DEF GoodWrites
  <2> QED BY Zenon, <1>5, <2>1, Ways, CommandsWereSent DEF SafeInv, SinksSafe
<1>6. CASE far[e] \in Conns /\ i = 5
  <2>1. owner[far[e]] \in Servers
    BY Zenon, <1>6, EndsMeet
  <2> QED BY Zenon, <1>6, <2>1, Ways, HeldWereSent DEF SafeInv, OutgoingSafe
<1>7. CASE far[e] \notin Conns /\ i \in {3, 4, 5}
  BY <1>7, Ways
<1> QED BY Zenon, <1>1, <1>2, <1>3, <1>4, <1>5, <1>6, <1>7, StageNumbers

LEMMA WaitingWasSent ==
  ASSUME SafeInv
  PROVE  /\ \A l \in Places : \A p \in Waiting(l) : p \in SentPackets /\ Target(p) \in Keys
         /\ \A e \in Ends : \A p \in Bound(e) : p \in SentPackets /\ Target(p) \in Keys
<1>1. ASSUME NEW e \in Ends, NEW p \in Bound(e) PROVE p \in SentPackets /\ Target(p) \in Keys
  <2>1. PICK i \in Stages : p \in OnTheWay(e, i)
    BY Zenon DEF Bound, Stage
  <2> QED BY Zenon, <2>1, WayWasSent
<1>2. ASSUME NEW s \in Servers, NEW p \in CommandPackets(commands[s])
      PROVE  p \in SentPackets /\ Target(p) \in Keys
  <2>1. \A m \in GoodCommands : m.cmd = "SendPacket" => m \in GoodPackets
    BY DEF GoodCommands
  <2> QED BY Zenon, <1>2, <2>1, CommandsWereSent DEF SafeInv, CommandsSafe
<1>3. ASSUME NEW l \in Places, NEW p \in Waiting(l)
      PROVE  p \in SentPackets /\ Target(p) \in Keys
  <2>1. CASE l \in Servers
    BY Zenon, <1>2, <1>3, <2>1 DEF Waiting
  <2>2. CASE l \notin Servers
    BY Zenon, <1>1, <1>3, <2>2, EndsMeet, PlaceFacts DEF Waiting
  <2> QED BY <2>1, <2>2
<1> QED BY <1>1, <1>3

-----------------------------------------------------------------------------
(* The places on the way of a packet *)

(* In a step packets M get from m0 to l0, a place further on their way,    *)
(* and the others stay or are lost.                                        *)
LEMMA PathsMoved ==
  ASSUME TypeOK, SafeInv, ChannelInv, RouteBacked, [Next]_vars, UNCHANGED sent,
         NEW b, NEW g, b \subseteq g, Started(b), Started(g)', Paths(b),
         NEW m0 \in Places, NEW l0 \in Places, NEW M, M \subseteq Waiting(m0),
         \A l \in Places : \A x \in Waiting(l)' : x \in Waiting(l) \/ (l = l0 /\ x \in M),
         \A r \in Remotes : \A y \in Bound(r)' :
           \/ y \in Bound(r)
           \/ \A l \in Places : \A x \in Waiting(l)' :
                Same(sent, x, y) /\ x.n <= y.n => <<owner[far[r]], ServerOf(l)>> \in b,
         \A x \in M : \A m \in Places : \A k \in Keys :
           (k = Target(x) \/ Unlinked) /\ Leads(b, m, m0, k) => Leads(b, m, l0, k),
         \A y \in M : \A l \in Places :
           l # m0 /\ Leads(b, m0, l, Target(y)) => Leads(b, l0, l, Target(y)),
         \A y \in M : \A x \in Waiting(m0)' : Same(sent, x, y) => ~(x.n <= y.n),
         \A s \in Servers : <<s, ServerOf(m0)>> \in b => <<s, ServerOf(l0)>> \in b
  PROVE  Paths(g)'
<1>1. ASSUME NEW k \in Keys, NEW m, NEW l \in Places, Leads(b, m, l, k) PROVE Leads(g, m, l, k)'
  BY Zenon, <1>1, NextRoutes, LeadsKept
<1>2. \A p : Target(p)' = Target(p)
  BY Zenon DEF Target
<1>3. ASSUME NEW l \in Places, NEW p \in Waiting(l)
      PROVE  Target(p) \in Keys /\ far[p.from] \in Conns /\ far[p.from] \in Places
  BY Zenon, WaitingWasSent, SentTargets, PlaceFacts
<1>4. FromHome(g)'
  <2> SUFFICES ASSUME NEW l \in Places, NEW x \in Waiting(l)', NEW k \in Keys,
                      k = Target(x) \/ Unlinked
               PROVE  Leads(b, far[x.from], l, k)
    BY Zenon, <1>1, <1>2 DEF FromHome
  <2>1. CASE x \in Waiting(l)
    BY Zenon, <2>1 DEF Paths, FromHome
  <2>2. CASE l = l0 /\ x \in M
    <3>1. Leads(b, far[x.from], m0, k)
      BY Zenon, <2>2 DEF Paths, FromHome
    <3> QED BY Zenon, <1>3, <2>2, <3>1
  <2> QED BY Zenon, <2>1, <2>2
<1>5. Followed(g)'
  <2> SUFFICES ASSUME NEW l \in Places, NEW m \in Places,
                      NEW x \in Waiting(l)', NEW y \in Waiting(m)',
                      Same(sent, x, y), x.n <= y.n
               PROVE  Leads(b, m, l, Target(y)) /\ Target(y) \in Keys
    BY Zenon, <1>1, <1>2 DEF Followed
  <2>0. Target(y) \in Keys
    BY Zenon, <1>3
  <2>1. CASE x \in Waiting(l) /\ y \in Waiting(m)
    BY Zenon, <2>0, <2>1 DEF Paths, Followed
  <2>2. CASE x \in M /\ l = l0 /\ y \in Waiting(m)
    <3>1. Leads(b, m, m0, Target(y))
      BY Zenon, <2>2 DEF Paths, Followed
    <3>2. Target(y) = Target(x) \/ Unlinked
      BY Zenon DEF Same, Target
    <3> QED BY Zenon, <2>0, <2>2, <3>1, <3>2
  <2>3. CASE x \in Waiting(l) /\ y \in M /\ m = l0
    <3>1. Leads(b, m0, l, Target(y))
      BY Zenon, <2>3 DEF Paths, Followed
    <3>2. l # m0
      BY Zenon, <2>3
    <3> QED BY Zenon, <2>0, <2>3, <3>1, <3>2
  <2>4. CASE l = l0 /\ m = l0
    BY Zenon, <2>0, <2>4, LeadsSelf
  <2> QED BY Zenon, <2>1, <2>2, <2>3, <2>4
<1>6. Passed(g)'
  <2> SUFFICES ASSUME NEW r \in Remotes, NEW y \in Bound(r)', NEW l \in Places,
                      NEW x \in Waiting(l)', Same(sent, x, y), x.n <= y.n
               PROVE  <<owner[far[r]], ServerOf(l)>> \in b
    BY Zenon DEF Passed
  <2> SUFFICES ASSUME y \in Bound(r) PROVE <<owner[far[r]], ServerOf(l)>> \in b
    BY Zenon
  <2>1. CASE x \in Waiting(l)
    BY Zenon, <2>1 DEF Paths, Passed
  <2>2. CASE x \in M /\ l = l0
    <3>1. <<owner[far[r]], ServerOf(m0)>> \in b
      BY Zenon, <2>2 DEF Paths, Passed
    <3>2. owner[far[r]] \in Servers
      BY Zenon, EndsMeet
    <3> QED BY Zenon, <2>2, <3>1, <3>2
  <2> QED BY Zenon, <2>1, <2>2
<1> QED BY Zenon, <1>4, <1>5, <1>6 DEF Paths

(* The steps in which no packet gets from one place to another *)
Calm ==
  /\ UNCHANGED sent
  /\ StagesOrdered' /\ SocketsSorted'
  /\ \A e \in Ends : Bound(e)' \subseteq Bound(e)
  /\ \A s \in Servers : CommandPackets(commands'[s]) \subseteq CommandPackets(commands[s])

LEMMA WaitingAfter ==
  /\ \A s \in Servers : /\ Waiting(s) = CommandPackets(commands[s])
                        /\ Waiting(s)' = CommandPackets(commands'[s])
  /\ \A c \in Conns : Waiting(c) = Bound(c) /\ Waiting(c)' = Bound(c)'
BY Zenon, PlaceFacts DEF Waiting

(* What is true before a step *)
Before ==
  /\ TypeOK /\ SafeInv /\ RouteInv /\ ChannelInv /\ StagesOrdered /\ SocketsSorted
  /\ [Next]_vars

LEMMA CalmPaths ==
  ASSUME Before, Calm, NEW b, NEW g, b \subseteq g, Started(b), Started(g)', Paths(b)
  PROVE  Paths(g)'
<1>1. TypeOK /\ SafeInv /\ ChannelInv /\ RouteBacked /\ [Next]_vars /\ UNCHANGED sent
  BY Zenon DEF Before, RouteInv, Calm
<1>2. ASSUME NEW l \in Places, NEW x \in Waiting(l)' PROVE x \in Waiting(l)
  <2>1. CASE l \in Servers
    BY Zenon, <1>2, <2>1, WaitingAfter DEF Calm
  <2>2. CASE l \in Conns
    <3>1. l \in Ends /\ x \in Bound(l)' /\ Waiting(l) = Bound(l)
      BY Zenon, <1>2, <2>2, WaitingAfter, EndsMeet
    <3> QED BY Zenon, <3>1 DEF Calm
  <2> QED BY Zenon, <2>1, <2>2, PlaceFacts
<1>3. ASSUME NEW r \in Remotes, NEW y \in Bound(r)' PROVE y \in Bound(r)
  BY Zenon, <1>3, EndsMeet DEF Calm
<1>4. FromHome(g)' /\ Followed(g)' /\ Passed(g)'
  <2>1. ASSUME NEW k \in Keys, NEW m, NEW l \in Places, Leads(b, m, l, k) PROVE Leads(g, m, l, k)'
    BY Zenon, <1>1, <2>1, NextRoutes, LeadsKept
  <2>2. \A p : Target(p)' = Target(p)
    BY <1>1 DEF Target
  <2>3. \A l \in Places : \A p \in Waiting(l) : Target(p) \in Keys
    BY Zenon, <1>1, WaitingWasSent
  <2>4. UNCHANGED sent /\ FromHome(b) /\ Followed(b) /\ Passed(b)
    BY <1>1 DEF Paths
  <2>5. FromHome(g)'
    BY ZenonT(20), <1>2, <2>1, <2>2, <2>4 DEF FromHome
  <2>6. Followed(g)'
    BY ZenonT(20), <1>2, <2>1, <2>2, <2>3, <2>4 DEF Followed
  <2>7. Passed(g)'
    BY ZenonT(20), <1>2, <1>3, <2>4 DEF Passed
  <2> QED BY <2>5, <2>6, <2>7
<1> QED BY <1>4 DEF Paths

-----------------------------------------------------------------------------
(* The stages that a step leaves alone, and those that it changes *)

LEMMA WayKept ==
  /\ UNCHANGED received /\ UNCHANGED pending => \A e : OnTheWay(e, 1)' = OnTheWay(e, 1)
  /\ UNCHANGED net => \A e : OnTheWay(e, 2)' = OnTheWay(e, 2)
  /\ UNCHANGED writing => \A e : OnTheWay(e, 3)' = OnTheWay(e, 3)
  /\ UNCHANGED sink => \A e : OnTheWay(e, 4)' = OnTheWay(e, 4)
  /\ UNCHANGED outgoing => \A e : OnTheWay(e, 5)' = OnTheWay(e, 5)
BY DEF OnTheWay

LEMMA WayRead ==
  ASSUME TypeOK, NEW c \in Conns, NEW q, UNCHANGED received, pending' = [pending EXCEPT ![c] = q]
  PROVE  /\ OnTheWay(c, 1)' = CommandPackets(q)
         /\ \A e \in Ends : e # c => OnTheWay(e, 1)' = OnTheWay(e, 1)
<1>1. pending'[c] = q /\ \A d \in Conns : d # c => pending'[d] = pending[d]
  BY SequenceTypes
<1>2. c \notin Remotes /\ \A e \in Ends : e \in Remotes \/ e \in Conns
  BY Zenon, EndsMeet
<1>3. OnTheWay(c, 1)' = CommandPackets(q)
  BY Zenon, <1>1, <1>2, WaysAfter
<1>4. ASSUME NEW e \in Ends, e # c PROVE OnTheWay(e, 1)' = OnTheWay(e, 1)
  <2>1. CASE e \in Remotes
    BY Zenon, <2>1, Ways, WaysAfter
  <2>2. CASE e \notin Remotes
    <3>1. OnTheWay(e, 1)' = CommandPackets(pending'[e]) /\ OnTheWay(e, 1) = CommandPackets(pending[e])
      BY Zenon, <2>2, Ways, WaysAfter
    <3> QED BY Zenon, <1>1, <1>2, <1>4, <2>2, <3>1
  <2> QED BY Zenon, <2>1, <2>2
<1> QED BY Zenon, <1>3, <1>4

LEMMA WayReceived ==
  ASSUME TypeOK, NEW r \in Remotes, NEW q, UNCHANGED pending,
         received' = [received EXCEPT ![r] = q]
  PROVE  /\ OnTheWay(r, 1)' = FramePackets(q)
         /\ \A e \in Ends : e # r => OnTheWay(e, 1)' = OnTheWay(e, 1)
<1>1. received'[r] = q /\ \A d \in Remotes : d # r => received'[d] = received[d]
  BY SequenceTypes
<1>2. OnTheWay(r, 1)' = FramePackets(q)
  BY Zenon, <1>1, WaysAfter
<1>3. ASSUME NEW e \in Ends, e # r PROVE OnTheWay(e, 1)' = OnTheWay(e, 1)
  <2>1. CASE e \in Remotes
    <3>1. OnTheWay(e, 1)' = FramePackets(received'[e]) /\ OnTheWay(e, 1) = FramePackets(received[e])
      BY Zenon, <2>1, Ways, WaysAfter
    <3> QED BY Zenon, <1>1, <1>3, <2>1, <3>1
  <2>2. CASE e \notin Remotes
    BY Zenon, <2>2, Ways, WaysAfter
  <2> QED BY Zenon, <2>1, <2>2
<1> QED BY Zenon, <1>2, <1>3

LEMMA WayNet ==
  ASSUME TypeOK, NEW c \in Ends, NEW q, net' = [net EXCEPT ![c] = q]
  PROVE  /\ OnTheWay(c, 2)' = FramePackets(q)
         /\ \A e \in Ends : e # c => OnTheWay(e, 2)' = OnTheWay(e, 2)
<1>1. net'[c] = q /\ \A d \in Ends : d # c => net'[d] = net[d]
  BY SequenceTypes
<1>2. OnTheWay(c, 2)' = FramePackets(q)
  BY Zenon, <1>1, WaysAfter
<1>3. ASSUME NEW e \in Ends, e # c PROVE OnTheWay(e, 2)' = OnTheWay(e, 2)
  <2>1. OnTheWay(e, 2)' = FramePackets(net'[e]) /\ OnTheWay(e, 2) = FramePackets(net[e])
    BY Zenon, Ways, WaysAfter
  <2> QED BY Zenon, <1>1, <1>3, <2>1
<1> QED BY Zenon, <1>2, <1>3

LEMMA WayWritten ==
  ASSUME TypeOK, NEW c \in Conns, NEW q, writing' = [writing EXCEPT ![c] = q]
  PROVE  /\ OnTheWay(far[c], 3)' = FramePackets(q)
         /\ \A e \in Ends : e # far[c] => OnTheWay(e, 3)' = OnTheWay(e, 3)
<1>1. writing'[c] = q /\ \A d \in Conns : d # c => writing'[d] = writing[d]
  BY SequenceTypes
<1>2. far[far[c]] = c /\ \A e \in Ends : e # far[c] => far[e] # c
  BY Zenon, EndsMeet
<1>3. ASSUME NEW e \in Ends, e # far[c] PROVE OnTheWay(e, 3)' = OnTheWay(e, 3)
  <2>1. CASE far[e] \in Conns
    <3>1. /\ OnTheWay(e, 3) = FramePackets(writing[far[e]])
          /\ OnTheWay(e, 3)' = FramePackets(writing'[far[e]])
      BY Zenon, <2>1, Ways, WaysAfter
    <3>2. writing'[far[e]] = writing[far[e]]
      BY Zenon, <1>1, <1>2, <1>3, <2>1
    <3> QED BY Zenon, <3>1, <3>2
  <2>2. CASE far[e] \notin Conns
    BY Zenon, <2>2, Ways, WaysAfter
  <2> QED BY <2>1, <2>2
<1>4. OnTheWay(far[c], 3)' = FramePackets(writing'[far[far[c]]])
  BY Zenon, <1>2, WaysAfter
<1> QED BY ZenonT(20), <1>1, <1>2, <1>3, <1>4

LEMMA WayTaken ==
  ASSUME TypeOK, NEW c \in Conns, NEW q, sink' = [sink EXCEPT ![c] = q]
  PROVE  /\ OnTheWay(far[c], 4)' = CommandPackets(q)
         /\ \A e \in Ends : e # far[c] => OnTheWay(e, 4)' = OnTheWay(e, 4)
<1>1. sink'[c] = q /\ \A d \in Conns : d # c => sink'[d] = sink[d]
  BY SMTT(40), SequenceTypes
<1>2. far[far[c]] = c /\ \A e \in Ends : e # far[c] => far[e] # c
  BY Zenon, EndsMeet
<1>3. ASSUME NEW e \in Ends, e # far[c] PROVE OnTheWay(e, 4)' = OnTheWay(e, 4)
  <2>1. CASE far[e] \in Conns
    <3>1. /\ OnTheWay(e, 4) = CommandPackets(sink[far[e]])
          /\ OnTheWay(e, 4)' = CommandPackets(sink'[far[e]])
      BY Zenon, <2>1, Ways, WaysAfter
    <3>2. sink'[far[e]] = sink[far[e]]
      BY Zenon, <1>1, <1>2, <1>3, <2>1
    <3> QED BY Zenon, <3>1, <3>2
  <2>2. CASE far[e] \notin Conns
    BY Zenon, <2>2, Ways, WaysAfter
  <2> QED BY <2>1, <2>2
<1>4. OnTheWay(far[c], 4)' = CommandPackets(sink'[far[far[c]]])
  BY Zenon, <1>2, WaysAfter
<1> QED BY SMTT(40), <1>1, <1>2, <1>3, <1>4

LEMMA WayRouted ==
  ASSUME TypeOK, NEW s \in Servers, NEW q, outgoing' = [outgoing EXCEPT ![s] = q]
  PROVE  \A e \in Ends : \/ OnTheWay(e, 5)' = OnTheWay(e, 5)
                         \/ /\ far[e] \in Conns /\ owner[far[e]] = s
                            /\ OnTheWay(e, 5)' = HeldPackets(q, far[e])
<1>1. outgoing'[s] = q /\ \A t \in Servers : t # s => outgoing'[t] = outgoing[t]
  BY SequenceTypes
<1>2. \A e \in Ends : far[e] \in Conns => owner[far[e]] \in Servers
  BY Zenon, EndsMeet
<1>3. ASSUME NEW e \in Ends, far[e] \in Conns, owner[far[e]] # s
      PROVE  OnTheWay(e, 5)' = OnTheWay(e, 5)
  <2>1. outgoing'[owner[far[e]]] = outgoing[owner[far[e]]]
    BY Zenon, <1>1, <1>2, <1>3
  <2>2. /\ OnTheWay(e, 5) = HeldPackets(outgoing[owner[far[e]]], far[e])
        /\ OnTheWay(e, 5)' = HeldPackets(outgoing'[owner[far[e]]], far[e])
    BY Zenon, <1>3, Ways, WaysAfter
  <2> QED BY Zenon, <2>1, <2>2
<1>4. ASSUME NEW e \in Ends, far[e] \in Conns, owner[far[e]] = s
      PROVE  OnTheWay(e, 5)' = HeldPackets(q, far[e])
  BY Zenon, <1>1, <1>4, WaysAfter
<1>5. ASSUME NEW e \in Ends, far[e] \notin Conns PROVE OnTheWay(e, 5)' = OnTheWay(e, 5)
  BY Zenon, <1>5, Ways, WaysAfter
<1> QED BY Zenon, <1>3, <1>4, <1>5

(* Packets are lost, or nothing happens to them. *)
LEMMA StagesDrained ==
  ASSUME Before, GoOn, UNCHANGED sent, UNCHANGED received,
         \A e \in Ends : \A i \in Stages : OnTheWay(e, i)' \subseteq OnTheWay(e, i),
         \/ UNCHANGED net
         \/ \E c \in Ends : net[c] # <<>> /\ net' = [net EXCEPT ![c] = Tail(net[c])]
  PROVE  /\ StagesOrdered' /\ SocketsSorted'
         /\ \A e \in Ends : Bound(e)' \subseteq Bound(e)
         /\ \A e \in Ends : \A i \in Stages : Stage(e, i)' \subseteq Stage(e, i)
<1>1. ASSUME NEW e \in Ends, NEW i \in Stages PROVE Stage(e, i)' \subseteq Stage(e, i)
  BY Zenon, EntersLess DEF Stage
<1>2. StagesOrdered'
  BY ZenonT(20), <1>1 DEF Before, StagesOrdered, Precedes
<1>3. \A e \in Ends : Bound(e)' \subseteq Bound(e)
  BY Zenon, <1>1 DEF Bound
<1>4. 1 \in Stages /\ 2 \in Stages
  BY DEF Stages
<1>5. \A e \in Ends : Sorted(sent', net'[e], Stage(e, 2)')
  BY Zenon, <1>1, <1>4, NetSorted DEF Before
<1>6. \A r \in Remotes : Sorted(sent', received'[r], Stage(r, 1)')
  BY Zenon, <1>1, <1>4, ReceivedSorted, EndsMeet DEF Before
<1> QED BY Zenon, <1>1, <1>2, <1>3, <1>5, <1>6 DEF SocketsSorted

LEMMA Drained ==
  ASSUME Before, GoOn, UNCHANGED sent, UNCHANGED received,
         \A e \in Ends : \A i \in Stages : OnTheWay(e, i)' \subseteq OnTheWay(e, i),
         \/ UNCHANGED net
         \/ \E c \in Ends : net[c] # <<>> /\ net' = [net EXCEPT ![c] = Tail(net[c])],
         \A s \in Servers : CommandPackets(commands'[s]) \subseteq CommandPackets(commands[s])
  PROVE  Calm
BY Zenon, StagesDrained DEF Calm

(* The form in which the steps use it *)
LEMMA Drains ==
  ASSUME Before, GoOn, UNCHANGED sent, UNCHANGED received,
         \A e \in Ends : /\ OnTheWay(e, 1)' \subseteq OnTheWay(e, 1)
                         /\ OnTheWay(e, 2)' \subseteq OnTheWay(e, 2)
                         /\ OnTheWay(e, 3)' \subseteq OnTheWay(e, 3)
                         /\ OnTheWay(e, 4)' \subseteq OnTheWay(e, 4)
                         /\ OnTheWay(e, 5)' \subseteq OnTheWay(e, 5),
         \/ UNCHANGED net
         \/ \E c \in Ends : net[c] # <<>> /\ net' = [net EXCEPT ![c] = Tail(net[c])],
         \A s \in Servers : CommandPackets(commands'[s]) \subseteq CommandPackets(commands[s])
  PROVE  Calm
<1>1. \A e \in Ends : \A i \in Stages : OnTheWay(e, i)' \subseteq OnTheWay(e, i)
  BY StageNumbers
<1> QED BY Zenon, <1>1, Drained

(* A packet goes down one stage: what that and the sockets need *)
LEMMA Sinks ==
  ASSUME Before, GoOn, UNCHANGED sent, UNCHANGED commands,
         NEW e0 \in Ends, NEW k \in Stages, NEW j \in Stages, j = k + 1, NEW M,
         \A e \in Ends : /\ e # e0 \/ k # 1 => OnTheWay(e, 1)' \subseteq OnTheWay(e, 1)
                         /\ e # e0 \/ k # 2 => OnTheWay(e, 2)' \subseteq OnTheWay(e, 2)
                         /\ e # e0 \/ k # 3 => OnTheWay(e, 3)' \subseteq OnTheWay(e, 3)
                         /\ e # e0 \/ k # 4 => OnTheWay(e, 4)' \subseteq OnTheWay(e, 4)
                         /\ OnTheWay(e, 5)' \subseteq OnTheWay(e, 5),
         OnTheWay(e0, k)' \subseteq OnTheWay(e0, k) \cup M,
         M \subseteq OnTheWay(e0, j),
         Precedes(sent, {p \in M : Enters(e0, p)}, Stage(e0, j)')
  PROVE  /\ \A e \in Ends : \A i \in Stages :
              e # e0 \/ i # k => Stage(e, i)' \subseteq Stage(e, i)
         /\ SocketsSorted' => Calm
<1>1. Flow(e0, k, M)
  BY StageNumbers DEF Flow
<1>2. StagesOrdered
  BY SMTT(40) DEF Before
<1>3. /\ StagesOrdered' /\ \A e \in Ends : Bound(e)' \subseteq Bound(e)
      /\ \A e \in Ends : \A i \in Stages :
           e # e0 \/ i # k => Stage(e, i)' \subseteq Stage(e, i)
  BY SMTT(40), <1>1, <1>2, OrderDown
<1> QED BY Zenon, <1>3 DEF Calm

-----------------------------------------------------------------------------
(* The steps of a reader and of a writer, in which a packet goes down a stage *)

(* A read loop takes a frame and makes at most its packet into a command. *)
LEMMA ReadCalm ==
  ASSUME Before, GoOn, NEW c \in Conns, NEW q,
         net[c] # <<>>, net' = [net EXCEPT ![c] = Tail(net[c])],
         pending[c] = <<>>, pending' = [pending EXCEPT ![c] = q],
         CommandPackets(q) \subseteq FramePackets(<<Head(net[c])>>),
         UNCHANGED <<sent, received, writing, sink, outgoing, commands>>
  PROVE  Calm
<1> DEFINE M == CommandPackets(q)
<1>0. TypeOK /\ SocketsSorted /\ c \in Ends /\ c \notin Remotes
  BY Zenon, EndsMeet DEF Before
<1>1. /\ UNCHANGED sent /\ UNCHANGED received /\ UNCHANGED writing /\ UNCHANGED sink
      /\ UNCHANGED outgoing /\ UNCHANGED commands
  OBVIOUS
<1>2. net[c] \in Seq(Frame) /\ Sorted(sent, net[c], Stage(c, 2))
  BY Zenon, <1>0, SequenceTypes DEF SocketsSorted
<1>3. /\ FramePackets(<<Head(net[c])>>) \subseteq FramePackets(net[c])
      /\ FramePackets(Tail(net[c])) \subseteq FramePackets(net[c])
      /\ Precedes(sent, FramePackets(<<Head(net[c])>>) \cap Stage(c, 2),
                        FramePackets(Tail(net[c])) \cap Stage(c, 2))
  BY Zenon, <1>2, FramesTaken
<1>4. /\ OnTheWay(c, 1)' = M
      /\ \A e \in Ends : e # c => OnTheWay(e, 1)' = OnTheWay(e, 1)
  BY Zenon, <1>0, <1>1, WayRead
<1>5. /\ OnTheWay(c, 2) = FramePackets(net[c]) /\ OnTheWay(c, 2)' = FramePackets(Tail(net[c]))
      /\ \A e \in Ends : e # c => OnTheWay(e, 2)' = OnTheWay(e, 2)
  BY Zenon, <1>0, WayNet, Ways
<1>6. /\ 1 \in Stages /\ 2 \in Stages /\ 1 + 1 = 2
  BY DEF Stages
<1> HIDE DEF M
<1>7. Precedes(sent, {p \in M : Enters(c, p)}, Stage(c, 2)')
  <2>1. {p \in M : Enters(c, p)} \subseteq FramePackets(<<Head(net[c])>>) \cap Stage(c, 2)
    BY <1>3, <1>5 DEF M, Stage
  <2>2. Stage(c, 2)' \subseteq FramePackets(Tail(net[c])) \cap Stage(c, 2)
    BY Zenon, <1>0, <1>1, <1>3, <1>5, EntersLess DEF Stage
  <2> QED BY Zenon, <1>3, <2>1, <2>2 DEF Precedes
<1>8. \A e \in Ends : /\ e # c => OnTheWay(e, 1)' \subseteq OnTheWay(e, 1)
                      /\ OnTheWay(e, 2)' \subseteq OnTheWay(e, 2)
                      /\ OnTheWay(e, 3)' \subseteq OnTheWay(e, 3)
                      /\ OnTheWay(e, 4)' \subseteq OnTheWay(e, 4)
                      /\ OnTheWay(e, 5)' \subseteq OnTheWay(e, 5)
  BY ZenonT(20), <1>1, <1>3, <1>4, <1>5, WayKept
<1>9. M \subseteq OnTheWay(c, 2) /\ OnTheWay(c, 1)' \subseteq OnTheWay(c, 1) \cup M
  BY <1>3, <1>4, <1>5 DEF M
<1>10. /\ \A e \in Ends : \A i \in Stages :
            e # c \/ i # 1 => Stage(e, i)' \subseteq Stage(e, i)
       /\ SocketsSorted' => Calm
  BY ZenonT(20), <1>0, <1>1, <1>6, <1>7, <1>8, <1>9, Sinks
<1>11. /\ \A e \in Ends : Stage(e, 2)' \subseteq Stage(e, 2)
       /\ \A r \in Remotes : Stage(r, 1)' \subseteq Stage(r, 1)
  BY <1>0, <1>6, <1>10, EndsMeet
<1>12. SocketsSorted'
  <2>1. \A e \in Ends : Sorted(sent', net'[e], Stage(e, 2)')
    BY Zenon, <1>0, <1>1, <1>11, NetSorted
  <2>2. \A r \in Remotes : Sorted(sent', received'[r], Stage(r, 1)')
    BY Zenon, <1>0, <1>1, <1>11, ReceivedSorted
  <2> QED BY Zenon, <2>1, <2>2 DEF SocketsSorted
<1> QED BY <1>10, <1>12

(* A write loop takes a command and makes at most its packet into a frame. *)
LEMMA RecvCalm ==
  ASSUME Before, GoOn, NEW c \in Conns, NEW f,
         writing[c] = <<>>, sink[c] # <<>>,
         writing' = [writing EXCEPT ![c] = <<f>>], sink' = [sink EXCEPT ![c] = Tail(sink[c])],
         FramePackets(<<f>>) \subseteq CommandPackets(<<Head(sink[c])>>),
         UNCHANGED <<sent, received, net, pending, outgoing, commands>>
  PROVE  Calm
<1> DEFINE M == FramePackets(<<f>>)
           e0 == far[c]
<1>0. TypeOK /\ SocketsSorted /\ e0 \in Ends /\ far[e0] = c
  BY Zenon, EndsMeet DEF Before
<1>1. /\ UNCHANGED sent /\ UNCHANGED received /\ UNCHANGED net /\ UNCHANGED pending
      /\ UNCHANGED outgoing /\ UNCHANGED commands
  OBVIOUS
<1>2. Tail(sink[c]) = <<>> /\ CommandPackets(<<Head(sink[c])>>) \subseteq CommandPackets(sink[c])
  <2>1. sink[c] \in Seq(WriteLoopCommands) /\ Len(sink[c]) <= 1
    BY Zenon, <1>0, SequenceTypes DEF Before, ChannelInv, SinksHold
  <2> QED BY <2>1, OnePlace, CommandsMoved
<1>3. /\ OnTheWay(e0, 3)' = M
      /\ \A e \in Ends : e # e0 => OnTheWay(e, 3)' = OnTheWay(e, 3)
  BY ZenonT(40), <1>0, WayWritten
<1>4. /\ OnTheWay(e0, 4)' = {} /\ OnTheWay(e0, 4) = CommandPackets(sink[far[e0]])
      /\ \A e \in Ends : e # e0 => OnTheWay(e, 4)' = OnTheWay(e, 4)
  <2>1. /\ OnTheWay(e0, 4)' = CommandPackets(Tail(sink[c]))
        /\ \A e \in Ends : e # e0 => OnTheWay(e, 4)' = OnTheWay(e, 4)
    BY ZenonT(40), <1>0, WayTaken
  <2>2. OnTheWay(e0, 4) = CommandPackets(sink[far[e0]])
    BY Zenon, <1>0, Ways
  <2> QED BY Zenon, <1>2, <2>1, <2>2, NoPackets
<1>5. 1 \in Stages /\ 2 \in Stages /\ 3 \in Stages /\ 4 \in Stages /\ 3 + 1 = 4 /\ 1 # 3 /\ 2 # 3
  BY DEF Stages
<1> HIDE DEF M, e0
<1>6. Precedes(sent, {p \in M : Enters(e0, p)}, Stage(e0, 4)')
  BY Zenon, <1>4 DEF Precedes, Stage
<1>7. \A e \in Ends : /\ OnTheWay(e, 1)' \subseteq OnTheWay(e, 1)
                      /\ OnTheWay(e, 2)' \subseteq OnTheWay(e, 2)
                      /\ e # e0 => OnTheWay(e, 3)' \subseteq OnTheWay(e, 3)
                      /\ OnTheWay(e, 4)' \subseteq OnTheWay(e, 4)
                      /\ OnTheWay(e, 5)' \subseteq OnTheWay(e, 5)
  BY ZenonT(20), <1>1, <1>3, <1>4, WayKept
<1>8. M \subseteq OnTheWay(e0, 4) /\ OnTheWay(e0, 3)' \subseteq OnTheWay(e0, 3) \cup M
  BY SMTT(40), <1>0, <1>2, <1>3, <1>4 DEF M
<1>9. /\ \A e \in Ends : \A i \in Stages :
           e # e0 \/ i # 3 => Stage(e, i)' \subseteq Stage(e, i)
      /\ SocketsSorted' => Calm
  BY ZenonT(20), <1>0, <1>1, <1>5, <1>6, <1>7, <1>8, Sinks
<1>10. /\ \A e \in Ends : Stage(e, 2)' \subseteq Stage(e, 2)
       /\ \A r \in Remotes : Stage(r, 1)' \subseteq Stage(r, 1)
  BY ZenonT(20), <1>5, <1>9, EndsMeet
<1>11. SocketsSorted'
  <2>1. \A e \in Ends : Sorted(sent', net'[e], Stage(e, 2)')
    BY Zenon, <1>0, <1>1, <1>10, NetSorted
  <2>2. \A r \in Remotes : Sorted(sent', received'[r], Stage(r, 1)')
    BY Zenon, <1>0, <1>1, <1>10, ReceivedSorted
  <2> QED BY Zenon, <2>1, <2>2 DEF SocketsSorted
<1> QED BY <1>9, <1>11

(* A write loop writes its frame to the socket. *)
LEMMA WriteCalm ==
  ASSUME Before, GoOn, NEW c \in Conns, WriteFrame(c)
  PROVE  Calm
<1> DEFINE f == Head(writing[c])
           M == FramePackets(<<f>>)
           e0 == far[c]
<1>0. TypeOK /\ SocketsSorted /\ StagesOrdered /\ e0 \in Ends /\ far[e0] = c
  BY Zenon, EndsMeet DEF Before
<1>1. /\ UNCHANGED sent /\ UNCHANGED received /\ UNCHANGED pending /\ UNCHANGED sink
      /\ UNCHANGED outgoing /\ UNCHANGED commands
      /\ net' = [net EXCEPT ![e0] = Append(net[e0], f)]
      /\ writing' = [writing EXCEPT ![c] = <<>>] /\ writing[c] # <<>>
  BY ZenonT(20) DEF WriteFrame, service_vars, reader_vars, history_vars
<1>2. f \in Frame /\ M \subseteq FramePackets(writing[c])
  <2>1. writing[c] \in Seq(Frame)
    BY Zenon, <1>0, SequenceTypes
  <2> QED BY Zenon, <1>1, <2>1, FirstIn, FramesTaken
<1> HIDE DEF f
<1>3. /\ OnTheWay(e0, 3)' = {} /\ OnTheWay(e0, 3) = FramePackets(writing[far[e0]])
      /\ \A e \in Ends : e # e0 => OnTheWay(e, 3)' = OnTheWay(e, 3)
  <2>1. /\ OnTheWay(e0, 3)' = FramePackets(<<>>)
        /\ \A e \in Ends : e # e0 => OnTheWay(e, 3)' = OnTheWay(e, 3)
    BY ZenonT(40), <1>0, <1>1, WayWritten
  <2>2. OnTheWay(e0, 3) = FramePackets(writing[far[e0]])
    BY Zenon, <1>0, Ways
  <2> QED BY Zenon, <2>1, <2>2, NoPackets
<1>4. /\ OnTheWay(e0, 2)' \subseteq OnTheWay(e0, 2) \cup M
      /\ \A e \in Ends : e # e0 => OnTheWay(e, 2)' = OnTheWay(e, 2)
  <2>1. /\ OnTheWay(e0, 2)' = FramePackets(Append(net[e0], f))
        /\ \A e \in Ends : e # e0 => OnTheWay(e, 2)' = OnTheWay(e, 2)
    BY Zenon, <1>0, <1>1, WayNet
  <2>2. FramePackets(Append(net[e0], f)) \subseteq FramePackets(net[e0]) \cup M
    BY ZenonT(40), <1>0, <1>2, SequenceTypes, FramesAdded
  <2>3. OnTheWay(e0, 2) = FramePackets(net[e0])
    BY Zenon, Ways
  <2> QED BY Zenon, <2>1, <2>2, <2>3
<1>5. 1 \in Stages /\ 2 \in Stages /\ 3 \in Stages /\ 3 = 2 + 1 /\ 2 < 3 /\ 1 # 2
  BY SMTT(40) DEF Stages
<1>6. M \subseteq OnTheWay(e0, 3)
  BY <1>0, <1>2, <1>3
<1> HIDE DEF M, e0
<1>7. Precedes(sent, {p \in M : Enters(e0, p)}, Stage(e0, 3)')
  BY Zenon, <1>3 DEF Precedes, Stage
<1>8. \A e \in Ends : /\ OnTheWay(e, 1)' \subseteq OnTheWay(e, 1)
                      /\ e # e0 => OnTheWay(e, 2)' \subseteq OnTheWay(e, 2)
                      /\ OnTheWay(e, 3)' \subseteq OnTheWay(e, 3)
                      /\ OnTheWay(e, 4)' \subseteq OnTheWay(e, 4)
                      /\ OnTheWay(e, 5)' \subseteq OnTheWay(e, 5)
  BY ZenonT(20), <1>1, <1>3, <1>4, WayKept
<1>9. /\ \A e \in Ends : \A i \in Stages :
           e # e0 \/ i # 2 => Stage(e, i)' \subseteq Stage(e, i)
      /\ SocketsSorted' => Calm
  BY ZenonT(20), <1>0, <1>1, <1>4, <1>5, <1>6, <1>7, <1>8, Sinks
<1>10. /\ \A e \in Ends : e # e0 => Stage(e, 2)' \subseteq Stage(e, 2)
       /\ \A r \in Remotes : Stage(r, 1)' \subseteq Stage(r, 1)
  BY ZenonT(20), <1>5, <1>9, EndsMeet
<1>11. Precedes(sent, Stage(e0, 2), M \cap Stage(e0, 2)')
  <2>1. M \cap Stage(e0, 2)' \subseteq Stage(e0, 3)
    BY Zenon, <1>0, <1>1, <1>6, EntersLess DEF Stage
  <2>2. Precedes(sent, Stage(e0, 2), Stage(e0, 3))
    BY Zenon, <1>0, <1>5 DEF StagesOrdered
  <2> QED BY Zenon, <2>1, <2>2 DEF Precedes
<1>12. SocketsSorted'
  <2>1. \A e \in Ends : Sorted(sent', net'[e], Stage(e, 2)')
    BY Zenon, <1>0, <1>1, <1>2, <1>10, <1>11, NetAppended DEF M
  <2>2. \A r \in Remotes : Sorted(sent', received'[r], Stage(r, 1)')
    BY Zenon, <1>0, <1>1, <1>10, ReceivedSorted
  <2> QED BY Zenon, <2>1, <2>2 DEF SocketsSorted
<1> QED BY <1>9, <1>12

(* The command loop puts the packet that it holds into a sink. *)
LEMMA DeliverCalm ==
  ASSUME Before, GoOn, NEW s \in Servers, LoopDeliver(s)
  PROVE  Calm
<1>0. TypeOK /\ SocketsSorted
  BY DEF Before
<1>1. /\ UNCHANGED sent /\ UNCHANGED received /\ UNCHANGED pending /\ UNCHANGED net
      /\ UNCHANGED writing /\ UNCHANGED commands
      /\ outgoing' = [outgoing EXCEPT ![s] = <<>>] /\ outgoing[s] # <<>>
  BY ZenonT(20) DEF LoopDeliver, reader_vars, socket_vars, history_vars
<1>2. PICK c \in Conns, m \in Packet :
        /\ owner[c] = s
        /\ sink' = [sink EXCEPT ![c] = Append(sink[c], m)] /\ Len(sink[c]) < 1
        /\ CommandPackets(<<m>>) \subseteq HeldPackets(outgoing[s], c)
  <2> DEFINE h == Head(outgoing[s])
  <2>1. h \in RoutedHeld(s) /\ h \in [sink : Conns, packet : Packet]
        /\ 1 \in DOMAIN outgoing[s] /\ outgoing[s][1] = h
    <3>1. outgoing[s] \in Seq(RoutedHeld(s)) /\ outgoing[s] \in Seq([sink : Conns, packet : Packet])
      BY Zenon, <1>0, SequenceTypes DEF Before, RouteInv, OutgoingRouted
    <3> QED BY Zenon, <1>1, <3>1, FirstIn
  <2>2. h.sink \in Conns /\ owner[h.sink] = s /\ h.packet \in Packet
    BY Zenon, <2>1 DEF RoutedHeld
  <2>3. CommandPackets(<<h.packet>>) \subseteq HeldPackets(outgoing[s], h.sink)
    BY SMTT(40), <2>1 DEF CommandPackets, HeldPackets
  <2>4. sink' = [sink EXCEPT ![h.sink] = Append(sink[h.sink], h.packet)] /\ Len(sink[h.sink]) < 1
    BY ZenonT(20) DEF LoopDeliver, SinkRoom, ChannelCap
  <2> HIDE DEF h
  <2> QED BY Zenon, <2>2, <2>3, <2>4
<1> DEFINE M == CommandPackets(<<m>>)
           e0 == far[c]
<1>5. e0 \in Ends /\ far[e0] = c
  BY Zenon, EndsMeet
<1>6. Append(sink[c], m) = <<m>>
  <2>1. m \in WriteLoopCommands
    BY PacketFields
  <2> QED BY Zenon, <1>0, <1>2, <2>1, SequenceTypes, OnePlace
<1>7. /\ OnTheWay(e0, 4)' = M
      /\ \A e \in Ends : e # e0 => OnTheWay(e, 4)' = OnTheWay(e, 4)
  <2>1. sink' = [sink EXCEPT ![c] = <<m>>]
    BY Zenon, <1>2, <1>6
  <2> QED BY ZenonT(40), <1>0, <2>1, WayTaken
<1>8. /\ M \subseteq OnTheWay(e0, 5) /\ OnTheWay(e0, 5)' = {}
      /\ \A e \in Ends : OnTheWay(e, 5)' \subseteq OnTheWay(e, 5)
  <2>1. OnTheWay(e0, 5) = HeldPackets(outgoing[owner[far[e0]]], far[e0])
        /\ OnTheWay(e0, 5)' = HeldPackets(outgoing'[owner[far[e0]]], far[e0])
    BY Zenon, <1>5, Ways, WaysAfter
  <2>2. outgoing'[s] = <<>>
    BY SMTT(40), <1>0, <1>1, SequenceTypes
  <2>3. \A e \in Ends : \/ OnTheWay(e, 5)' = OnTheWay(e, 5)
                        \/ OnTheWay(e, 5)' = HeldPackets(<<>>, far[e])
    BY ZenonT(40), <1>0, <1>1, WayRouted
  <2>4. \A e \in Ends : OnTheWay(e, 5)' \subseteq OnTheWay(e, 5)
    BY Zenon, <2>3, NoPackets
  <2> QED BY SMTT(40), <1>2, <1>5, <2>1, <2>2, <2>4, NoPackets
<1>9. 1 \in Stages /\ 2 \in Stages /\ 4 \in Stages /\ 5 \in Stages /\ 5 = 4 + 1
      /\ 1 # 4 /\ 2 # 4
  BY DEF Stages
<1> HIDE DEF M, e0
<1>10. Precedes(sent, {p \in M : Enters(e0, p)}, Stage(e0, 5)')
  BY Zenon, <1>8 DEF Precedes, Stage
<1>11. \A e \in Ends : /\ OnTheWay(e, 1)' \subseteq OnTheWay(e, 1)
                       /\ OnTheWay(e, 2)' \subseteq OnTheWay(e, 2)
                       /\ OnTheWay(e, 3)' \subseteq OnTheWay(e, 3)
                       /\ e # e0 => OnTheWay(e, 4)' \subseteq OnTheWay(e, 4)
                       /\ OnTheWay(e, 5)' \subseteq OnTheWay(e, 5)
  BY ZenonT(20), <1>1, <1>7, <1>8, WayKept
<1>12. OnTheWay(e0, 4)' \subseteq OnTheWay(e0, 4) \cup M
  BY <1>7
<1>13. /\ \A e \in Ends : \A i \in Stages :
            e # e0 \/ i # 4 => Stage(e, i)' \subseteq Stage(e, i)
       /\ SocketsSorted' => Calm
  BY ZenonT(20), <1>0, <1>1, <1>5, <1>8, <1>9, <1>10, <1>11, <1>12, Sinks
<1>14. /\ \A e \in Ends : Stage(e, 2)' \subseteq Stage(e, 2)
       /\ \A r \in Remotes : Stage(r, 1)' \subseteq Stage(r, 1)
  BY ZenonT(20), <1>9, <1>13, EndsMeet
<1>15. SocketsSorted'
  <2>1. \A e \in Ends : Sorted(sent', net'[e], Stage(e, 2)')
    BY Zenon, <1>0, <1>1, <1>14, NetSorted
  <2>2. \A r \in Remotes : Sorted(sent', received'[r], Stage(r, 1)')
    BY Zenon, <1>0, <1>1, <1>14, ReceivedSorted
  <2> QED BY Zenon, <2>1, <2>2 DEF SocketsSorted
<1> QED BY <1>13, <1>15

=============================================================================
