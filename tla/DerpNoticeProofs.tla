--------------------------- MODULE DerpNoticeProofs ---------------------------
(***************************************************************************)
(* NoClientMissed, for any servers, connections and programs outside: a    *)
(* notice moves from one container to the next until it arrives, as long   *)
(* as the connection works; and whoever joins the mesh, or connects, finds *)
(* the notices it needs among those that are started with it.              *)
(***************************************************************************)
EXTENDS DerpTypeProofs

Covered(w, k) == NoticeUnderWay(w, k) \/ NoticeArrived(w, k)

(* No notice to w is lost in this step, nor does w come to life in it. *)
NoticesKept ==
  \A w \in Conns : \A k \in Keys :
    Listening(w)' => Listening(w) /\ (Covered(w, k) => Covered(w, k)')

(* Nobody joins the mesh, and no client connects. *)
NobodyJoins ==
  \A s \in Servers : MeshSinks(s)' \subseteq MeshSinks(s) /\ LocalKeys(s)' \subseteq LocalKeys(s)

(* What is added to a queue is in it. *)
LEMMA HasAppend ==
  ASSUME NEW S, NEW q \in Seq(S), NEW x \in S
  PROVE  Has(Append(q, x), x)
<1>1. Append(q, x) \in Seq(S) /\ Len(Append(q, x)) = Len(q) + 1 /\ Append(q, x)[Len(q) + 1] = x
  BY AppendProperties
<1>2. Len(q) + 1 \in DOMAIN Append(q, x)
  BY <1>1, LenProperties
<1> QED BY <1>1, <1>2 DEF Has

(* What was in a queue is still in it when something is added. *)
LEMMA HasBefore ==
  ASSUME NEW S, NEW q \in Seq(S), NEW x \in S, NEW y, Has(q, y)
  PROVE  Has(Append(q, x), y)
<1>1. /\ Append(q, x) \in Seq(S) /\ Len(Append(q, x)) = Len(q) + 1
      /\ \A i \in 1..Len(q) : Append(q, x)[i] = q[i]
      /\ Append(q, x)[Len(q) + 1] = x
  BY AppendProperties
<1>2. Len(q) \in Nat /\ DOMAIN q = 1..Len(q) /\ DOMAIN Append(q, x) = 1..(Len(q) + 1)
  BY <1>1, LenProperties
<1> QED BY <1>1, <1>2 DEF Has

(* When the first is taken, the others stay. *)
LEMMA HasTail ==
  ASSUME NEW S, NEW q \in Seq(S), q # <<>>, NEW y, Has(q, y)
  PROVE  y = Head(q) \/ Has(Tail(q), y)
<1>1. PICK i \in DOMAIN q : q[i] = y
  BY DEF Has
<1>2. /\ Len(q) \in Nat /\ DOMAIN q = 1..Len(q) /\ Head(q) = q[1]
      /\ Tail(q) \in Seq(S) /\ Len(Tail(q)) = Len(q) - 1
      /\ \A j \in 1..Len(Tail(q)) : Tail(q)[j] = q[j + 1]
  BY HeadTailProperties, LenProperties
<1>3. DOMAIN Tail(q) = 1..(Len(q) - 1)
  BY <1>2, LenProperties
<1>4. CASE i = 1
  BY <1>1, <1>2, <1>4
<1>5. CASE i # 1
  <2>1. i - 1 \in 1..(Len(q) - 1) /\ (i - 1) + 1 = i
    BY <1>2, <1>5
  <2>2. Tail(q)[i - 1] = y
    BY <1>1, <1>2, <2>1
  <2> QED BY <1>3, <2>1, <2>2 DEF Has
<1> QED BY <1>4, <1>5

(* A queue of one, and a queue of none. *)
LEMMA HasSingle == (\A x : Has(<<x>>, x)) /\ \A x : ~Has(<<>>, x)
BY DEF Has

(* A queue of at most one has nothing but its first. *)
LEMMA HasOnly ==
  ASSUME NEW S, NEW q \in Seq(S), Len(q) <= 1, NEW y, Has(q, y)
  PROVE  y = Head(q)
<1>1. PICK i \in DOMAIN q : q[i] = y
  BY DEF Has
<1>2. Len(q) \in Nat /\ DOMAIN q = 1..Len(q)
  BY LenProperties
<1>3. i = 1 /\ q # <<>>
  BY <1>2
<1> QED BY <1>1, <1>3, HeadTailProperties

(* The types of what notices move through. *)
LEMMA NoticeTypes ==
  ASSUME TypeOK
  PROVE  /\ announcing \in [Conns -> Seq(Conns)] /\ flooding \in [Conns -> [Keys -> Nat]]
         /\ sink \in [Conns -> Seq(WriteLoopCommands)]
         /\ writing \in [Conns -> Seq(Frame)]
         /\ net \in [Ends -> Seq(Frame)] /\ received \in [Remotes -> Seq(Frame)]
         /\ reader \in [Conns -> TaskStatus] /\ writer \in [Conns -> TaskStatus]
         /\ link \in [Conns -> BOOLEAN] /\ accepting \in [Servers -> BOOLEAN]
BY DEF TypeOK

-----------------------------------------------------------------------------
(* A step that takes no notice anywhere loses none. *)
LEMMA Idle ==
  ASSUME UNCHANGED <<flooding, announcing, sink, writing, received>>,
         \A r \in Remotes : \A x : Has(net[r], x) => Has(net'[r], x),
         \A c \in Conns : link'[c] => link[c],
         \A c \in Conns : writer[c] \in Over => writer'[c] \in Over
  PROVE  NoticesKept
<1> SUFFICES ASSUME NEW w \in Conns, NEW k \in Keys, Listening(w)'
             PROVE  Listening(w) /\ (Covered(w, k) => Covered(w, k)')
  BY DEF NoticesKept
<1>1. far[w] \in Remotes /\ Listening(w)
  BY DEF Listening
<1> QED BY ZenonT(30), <1>1 DEF Covered, NoticeUnderWay, NoticeArrived, Flooded

(* Steps of the read loops: only the sockets of servers are read. *)
LEMMA ReadersKeep ==
  ASSUME TypeOK, NEW c \in Conns,
         \/ ReadSendPacket(c) \/ ReadWatchConns(c) \/ ReadPeerPresent(c)
         \/ ReadUnhandled(c) \/ ReadMalformed(c) \/ ReadError(c)
         \/ MeshReadPeerPresent(c) \/ MeshReadForwardPacket(c) \/ MeshReadUnhandled(c)
         \/ SendCommand(c)
  PROVE  NoticesKept
<1> USE DEF service_vars, reader_vars, writer_vars, notice_vars, socket_vars, history_vars
<1>1. net' = [net EXCEPT ![c] = Tail(@)] \/ UNCHANGED net
  BY ZenonT(20)
  DEF ReadSendPacket, ReadWatchConns, ReadPeerPresent, ReadUnhandled, ReadMalformed, ReadError,
      MeshReadPeerPresent, MeshReadForwardPacket, MeshReadUnhandled, SendCommand, GetNextMessage
<1>2. UNCHANGED <<flooding, announcing, sink, writing, received, link, writer>>
  BY ZenonT(20)
  DEF ReadSendPacket, ReadWatchConns, ReadPeerPresent, ReadUnhandled, ReadMalformed, ReadError,
      MeshReadPeerPresent, MeshReadForwardPacket, MeshReadUnhandled, SendCommand
<1>3. \A r \in Remotes : net'[r] = net[r]
  BY <1>1, NoticeTypes, NetAssumption DEF Ends
<1> QED BY <1>2, <1>3, Idle

(* The steps of the service other than LoopDeliver and LoopSubscribe, of   *)
(* the accept loop on a new connection, and the end of a link. *)
LEMMA ServiceKeeps ==
  ASSUME TypeOK, Arrivals, NEW s \in Servers, NEW c \in Conns,
         \/ StartAccepting(s) \/ LoopSendPacket(s) \/ LoopDies(s) \/ LoopPeerPresent(s)
         \/ MeshStart(c) \/ LinkDown(c)
  PROVE  NoticesKept
<1> USE DEF service_vars, reader_vars, writer_vars, notice_vars, socket_vars, history_vars
<1>1. UNCHANGED <<flooding, announcing, sink, writing, received, net>>
  BY ZenonT(20) DEF StartAccepting, LoopSendPacket, LoopDies, LoopPeerPresent, MeshStart, LinkDown
<1>2. \/ UNCHANGED <<link, writer>>
      \/ UNCHANGED writer /\ link' = [link EXCEPT ![c] = FALSE]
      \/ /\ UNCHANGED link /\ writer' = [writer EXCEPT ![c] = "starting"]
         /\ reader[c] = "none"
  BY ZenonT(20) DEF StartAccepting, LoopSendPacket, LoopDies, LoopPeerPresent, MeshStart, LinkDown
<1>3. reader[c] = "none" => writer[c] = "none"
  BY DEF Arrivals
<1>4. \A d \in Conns : (link'[d] => link[d]) /\ (writer[d] \in Over => writer'[d] \in Over)
  BY Zenon, <1>2, <1>3, NoticeTypes DEF Over
<1> QED BY <1>1, <1>4, Idle

(* A write loop that ends has nobody listening at its far end any more. *)
LEMMA EndKeeps ==
  ASSUME TypeOK, NEW c \in Conns, NEW status \in Over, EndWriter(c, status),
         UNCHANGED <<flooding, announcing, received, net>>,
         \A d \in Conns : link'[d] => link[d]
  PROVE  NoticesKept
<1> SUFFICES ASSUME NEW w \in Conns, NEW k \in Keys, Listening(w)'
             PROVE  Listening(w) /\ (Covered(w, k) => Covered(w, k)')
  BY DEF NoticesKept
<1>1. writer' = [writer EXCEPT ![c] = status] /\ sink' = [sink EXCEPT ![c] = <<>>]
      /\ writing' = [writing EXCEPT ![c] = <<>>]
  BY DEF EndWriter
<1>2. w # c
  BY <1>1, NoticeTypes DEF Listening
<1>3. writer'[w] = writer[w] /\ sink'[w] = sink[w] /\ writing'[w] = writing[w]
  BY <1>1, <1>2, NoticeTypes
<1>4. Listening(w) /\ far[w] \in Remotes
  BY <1>3 DEF Listening
<1> QED BY ZenonT(30), <1>3, <1>4 DEF Covered, NoticeUnderWay, NoticeArrived, Flooded

(* The steps with which a write loop ends, or never starts *)
LEMMA EndersKeep ==
  ASSUME TypeOK, NEW c \in Conns,
         \/ RecvUnwritable(c) \/ WriteFails(c) \/ RecvNone(c)
         \/ MeshRecvPacket(c) \/ MeshRecvNone(c) \/ MeshWriteFails(c)
         \/ MeshWatchFails(c) \/ MeshStartFails(c) \/ RefuseClient(c)
  PROVE  NoticesKept
<1> USE DEF service_vars, reader_vars, writer_vars, notice_vars, socket_vars, history_vars
<1>1. EndWriter(c, "ended") \/ EndWriter(c, "panicked")
  BY ZenonT(20) DEF RecvUnwritable, WriteFails, RecvNone, MeshRecvPacket, MeshRecvNone,
                    MeshWriteFails, MeshWatchFails, MeshStartFails, RefuseClient
<1>2. /\ UNCHANGED <<flooding, announcing, received, net>>
      /\ UNCHANGED link \/ link' = [link EXCEPT ![c] = FALSE]
  BY ZenonT(20) DEF RecvUnwritable, WriteFails, RecvNone, MeshRecvPacket, MeshRecvNone,
                    MeshWriteFails, MeshWatchFails, MeshStartFails, RefuseClient
<1>3. \A d \in Conns : link'[d] => link[d]
  BY Zenon, <1>2, NoticeTypes
<1>4. {"ended", "panicked"} \subseteq Over
  BY DEF Over
<1> QED BY <1>1, <1>2, <1>3, <1>4, EndKeeps

(* MeshClient::run starts its write loop. *)
LEMMA WatchKeeps ==
  ASSUME TypeOK, Arrivals, NEW c \in Conns, MeshWatch(c) \/ MeshWatchLost(c)
  PROVE  NoticesKept
<1> USE DEF service_vars, reader_vars, writer_vars, notice_vars, socket_vars, history_vars
<1>1. /\ UNCHANGED <<flooding, announcing, sink, writing, received, link>>
      /\ writer' = [writer EXCEPT ![c] = "running"] /\ reader[c] = "starting"
      /\ UNCHANGED net \/ net' = [net EXCEPT ![far[c]] = Append(@, Bare("WatchConns"))]
  BY ZenonT(20) DEF MeshWatch, MeshWatchLost
<1>2. writer[c] = "starting"
  BY <1>1 DEF Arrivals
<1>3. \A d \in Conns : writer[d] \in Over => writer'[d] \in Over
  BY <1>1, <1>2, NoticeTypes DEF Over
<1>4. ASSUME NEW r \in Remotes PROVE \A x : Has(net[r], x) => Has(net'[r], x)
  <2>1. net[r] \in Seq(Frame) /\ Bare("WatchConns") \in Frame
    BY NoticeTypes DEF Ends, Bare, Frame
  <2>2. net'[r] = net[r] \/ net'[r] = Append(net[r], Bare("WatchConns"))
    BY <1>1, NoticeTypes DEF Ends
  <2> QED BY ZenonT(40), <2>1, <2>2, HasBefore
<1> QED BY <1>1, <1>3, <1>4, Idle

(* A write loop takes a command out of its channel. *)
LEMMA TakersKeep ==
  ASSUME TypeOK, NEW c \in Conns, RecvWrite(c) \/ MeshRecvPeerPresent(c)
  PROVE  NoticesKept
<1> USE DEF service_vars, reader_vars, writer_vars, notice_vars, socket_vars, history_vars
<1> SUFFICES ASSUME NEW w \in Conns, NEW k \in Keys, Listening(w)'
             PROVE  Listening(w) /\ (Covered(w, k) => Covered(w, k)')
  BY DEF NoticesKept
<1> DEFINE m == Head(sink[c])
<1>1. /\ UNCHANGED <<flooding, announcing, received, net, link, writer>>
      /\ writing[c] = <<>> /\ sink[c] # <<>> /\ sink' = [sink EXCEPT ![c] = Tail(@)]
  BY ZenonT(20) DEF RecvWrite, MeshRecvPeerPresent
<1>2. \E f : /\ writing' = [writing EXCEPT ![c] = <<f>>]
             /\ m.cmd = "PeerPresent" => f = PeerPresent(m.key)
  BY ZenonT(20) DEF RecvWrite, MeshRecvPeerPresent, FrameFor
<1>3. Listening(w) /\ far[w] \in Remotes
  BY <1>1 DEF Listening
<1>4. ASSUME Has(writing[w], PeerPresent(k)) PROVE Has(writing'[w], PeerPresent(k))
  <2>1. w # c
    BY <1>1, <1>4, HasSingle
  <2> QED BY <1>2, <1>4, <2>1, NoticeTypes
<1>5. ASSUME Has(sink[w], PresentWrite(k))
      PROVE  Has(sink'[w], PresentWrite(k)) \/ Has(writing'[w], PeerPresent(k))
  <2>1. CASE w # c
    BY <1>1, <1>5, <2>1, NoticeTypes
  <2>2. CASE w = c
    <3>1. sink'[c] = Tail(sink[c]) /\ sink[c] \in Seq(WriteLoopCommands)
      BY <1>1, NoticeTypes
    <3>2. PresentWrite(k) = m \/ Has(sink'[c], PresentWrite(k))
      BY <1>1, <1>5, <2>2, <3>1, HasTail
    <3>3. ASSUME PresentWrite(k) = m PROVE Has(writing'[c], PeerPresent(k))
      <4>1. m.cmd = "PeerPresent" /\ m.key = k
        BY <3>3 DEF PresentWrite
      <4>2. writing'[c] = <<PeerPresent(k)>>
        BY <1>2, <4>1, NoticeTypes
      <4> QED BY <4>2, HasSingle
    <3> QED BY <2>2, <3>2, <3>3
  <2> QED BY <2>1, <2>2
<1> QED BY ZenonT(30), <1>1, <1>3, <1>4, <1>5 DEF Covered, NoticeUnderWay, NoticeArrived, Flooded

(* A write loop writes a frame.  If it is lost, the far end has gone. *)
LEMMA WritersKeep ==
  ASSUME TypeOK, Arrivals, NEW c \in Conns, WriteFrame(c) \/ WriteLost(c)
  PROVE  NoticesKept
<1> USE DEF service_vars, reader_vars, writer_vars, notice_vars, socket_vars, history_vars
<1> SUFFICES ASSUME NEW w \in Conns, NEW k \in Keys, Listening(w)'
             PROVE  Listening(w) /\ (Covered(w, k) => Covered(w, k)')
  BY DEF NoticesKept
<1>1. /\ UNCHANGED <<flooding, announcing, received, sink, link, writer>>
      /\ writing[c] # <<>> /\ writing' = [writing EXCEPT ![c] = <<>>]
  BY ZenonT(20) DEF WriteFrame, WriteLost
<1>2. \/ Up(c) /\ net' = [net EXCEPT ![far[c]] = Append(@, Head(writing[c]))]
      \/ ~Up(c) /\ UNCHANGED net
  BY ZenonT(20) DEF WriteFrame, WriteLost
<1>3. Listening(w) /\ far[w] \in Remotes /\ link[w]
  BY <1>1 DEF Listening
<1>4. writing[c] \in Seq(Frame) /\ Len(writing[c]) <= 1 /\ Head(writing[c]) \in Frame
  BY <1>1, NoticeTypes, SeqHeadTail DEF Arrivals
<1>5. net[far[w]] \in Seq(Frame) /\ far[w] \in Ends /\ far[c] \in Ends
  BY NoticeTypes, NetAssumption DEF Ends
<1>6. ASSUME NEW x, Has(net[far[w]], x) PROVE Has(net'[far[w]], x)
  <2>1. net'[far[w]] = net[far[w]] \/ net'[far[w]] = Append(net[far[w]], Head(writing[c]))
    BY ZenonT(40), <1>2, <1>5, NoticeTypes
  <2> QED BY Zenon, <1>4, <1>5, <1>6, <2>1, HasBefore
<1>7. ASSUME Has(writing[w], PeerPresent(k))
      PROVE  Has(writing'[w], PeerPresent(k)) \/ Has(net'[far[w]], PeerPresent(k))
  <2>1. CASE w # c
    BY <1>1, <1>7, <2>1, NoticeTypes
  <2>2. CASE w = c
    <3>1. PeerPresent(k) = Head(writing[c])
      BY <1>4, <1>7, <2>2, HasOnly
    <3>2. Up(c)
      BY <1>3, <2>2, NetAssumption DEF Up
    <3>3. net'[far[c]] = Append(net[far[c]], Head(writing[c]))
      BY <1>2, <1>5, <3>2, NoticeTypes
    <3> QED BY <1>4, <1>5, <2>2, <3>1, <3>3, HasAppend
  <2> QED BY <2>1, <2>2
<1> QED BY ZenonT(30), <1>1, <1>3, <1>6, <1>7 DEF Covered, NoticeUnderWay, NoticeArrived, Flooded

(* A notice or a packet is put into the sink of d. *)
LEMMA SinkGrows ==
  ASSUME TypeOK, NEW d \in Conns, NEW m \in WriteLoopCommands,
         sink' = [sink EXCEPT ![d] = Append(@, m)]
  PROVE  /\ Has(sink'[d], m)
         /\ \A w \in Conns : \A x : Has(sink[w], x) => Has(sink'[w], x)
<1>1. sink'[d] = Append(sink[d], m) /\ sink[d] \in Seq(WriteLoopCommands)
  BY NoticeTypes
<1>2. ASSUME NEW w \in Conns, NEW x, Has(sink[w], x) PROVE Has(sink'[w], x)
  <2>1. CASE w = d
    BY <1>1, <1>2, <2>1, HasBefore
  <2>2. CASE w # d
    BY <1>2, <2>2, NoticeTypes
  <2> QED BY <2>1, <2>2
<1> QED BY <1>1, <1>2, HasAppend

(* The command loop puts a packet into a sink. *)
LEMMA DeliverKeeps ==
  ASSUME TypeOK, NEW s \in Servers, LoopDeliver(s)
  PROVE  NoticesKept
<1> USE DEF service_vars, reader_vars, writer_vars, notice_vars, socket_vars, history_vars
<1> SUFFICES ASSUME NEW w \in Conns, NEW k \in Keys, Listening(w)'
             PROVE  Listening(w) /\ (Covered(w, k) => Covered(w, k)')
  BY DEF NoticesKept
<1> DEFINE h == Head(outgoing[s])
<1>1. /\ UNCHANGED <<flooding, announcing, received, net, writing, link, writer>>
      /\ sink' = [sink EXCEPT ![h.sink] = Append(@, h.packet)]
  BY ZenonT(20) DEF LoopDeliver
<1>2. h.sink \in Conns /\ h.packet \in Packet
  <2>1. outgoing[s] \in Seq([sink : Conns, packet : Packet]) /\ outgoing[s] # <<>>
    BY Zenon DEF TypeOK, LoopDeliver
  <2>2. h \in [sink : Conns, packet : Packet]
    BY Zenon, <2>1, SeqHeadTail
  <2> QED BY <2>2
<1>3. h.packet \in WriteLoopCommands
  BY <1>2, PacketFields
<1> HIDE DEF h
<1>4. Has(sink[w], PresentWrite(k)) => Has(sink'[w], PresentWrite(k))
  BY ZenonT(40), <1>1, <1>2, <1>3, SinkGrows
<1>5. Listening(w) /\ far[w] \in Remotes
  BY <1>1 DEF Listening
<1> QED BY ZenonT(30), <1>1, <1>4, <1>5 DEF Covered, NoticeUnderWay, NoticeArrived, Flooded

(* The task of notify_all_mesh_peers tells one member: its notice moves    *)
(* into the sink, unless nobody listens there. *)
LEMMA AnnounceKeeps ==
  ASSUME TypeOK, NEW c \in Conns, AnnounceNext(c)
  PROVE  NoticesKept
<1> USE DEF service_vars, reader_vars, writer_vars, notice_vars, socket_vars, history_vars
<1> SUFFICES ASSUME NEW w \in Conns, NEW k \in Keys, Listening(w)'
             PROVE  Listening(w) /\ (Covered(w, k) => Covered(w, k)')
  BY DEF NoticesKept
<1> DEFINE d == Head(announcing[c])
<1>1. /\ UNCHANGED <<flooding, received, net, writing, link, writer>>
      /\ announcing[c] # <<>> /\ announcing' = [announcing EXCEPT ![c] = Tail(@)]
      /\ Notify(d, pk[c])
  BY ZenonT(20) DEF AnnounceNext
<1>2. d \in Conns /\ announcing[c] \in Seq(Conns) /\ pk[c] \in Keys
  BY <1>1, SeqHeadTail, NoticeTypes, NetAssumption
<1>3. PresentWrite(pk[c]) \in WriteLoopCommands
  BY <1>2 DEF PresentWrite, WriteLoopCommands
<1>4. Listening(w) /\ far[w] \in Remotes /\ writer[w] \notin Over
  BY <1>1 DEF Listening
<1> HIDE DEF d
<1>5. \A x : Has(sink[w], x) => Has(sink'[w], x)
  BY Zenon, <1>1, <1>2, <1>3, SinkGrows DEF Notify
<1>6. d = w => Has(sink'[w], PresentWrite(pk[c]))
  BY ZenonT(40), <1>1, <1>2, <1>3, <1>4, SinkGrows DEF Notify, SinkClosed
<1>7. ASSUME NEW e \in Conns, Has(announcing[e], w)
      PROVE  Has(announcing'[e], w) \/ Has(sink'[w], PresentWrite(pk[e]))
  <2>1. CASE e # c
    BY <1>1, <1>7, <2>1, NoticeTypes
  <2>2. CASE e = c
    <3>1. w = d \/ Has(Tail(announcing[c]), w)
      BY ZenonT(40), <1>1, <1>2, <1>7, <2>2, HasTail DEF d
    <3>2. announcing'[c] = Tail(announcing[c])
      BY <1>1, NoticeTypes
    <3> QED BY <1>6, <2>2, <3>1, <3>2
  <2> QED BY <2>1, <2>2
<1> QED BY ZenonT(30), <1>1, <1>4, <1>5, <1>7 DEF Covered, NoticeUnderWay, NoticeArrived, Flooded

(* The same for a notice of notify_about_all_clients *)
LEMMA FloodKeeps ==
  ASSUME TypeOK, NEW d \in Conns, FloodNext(d)
  PROVE  NoticesKept
<1> USE DEF service_vars, reader_vars, writer_vars, notice_vars, socket_vars, history_vars
<1> SUFFICES ASSUME NEW w \in Conns, NEW k \in Keys, Listening(w)'
             PROVE  Listening(w) /\ (Covered(w, k) => Covered(w, k)')
  BY DEF NoticesKept
<1>1. UNCHANGED <<announcing, received, net, writing, link, writer>>
  BY ZenonT(20) DEF FloodNext
<1>2. PICK j \in Flooded(d) : Notify(d, j) /\ flooding' = [flooding EXCEPT ![d][j] = @ - 1]
  BY ZenonT(20) DEF FloodNext
<1>3. j \in Keys
  BY DEF Flooded
<1>4. PresentWrite(j) \in WriteLoopCommands
  BY <1>3 DEF PresentWrite, WriteLoopCommands
<1>5. Listening(w) /\ far[w] \in Remotes /\ writer[w] \notin Over
  BY SMTT(40), <1>1 DEF Listening
<1>6. \A x : Has(sink[w], x) => Has(sink'[w], x)
  BY Zenon, <1>2, <1>4, SinkGrows DEF Notify
<1>7. d = w => Has(sink'[w], PresentWrite(j))
  BY ZenonT(40), <1>2, <1>4, <1>5, SinkGrows DEF Notify, SinkClosed
<1>8. k \in Flooded(w) => k \in Flooded(w)' \/ Has(sink'[w], PresentWrite(k))
  BY ZenonT(20), <1>2, <1>7, NoticeTypes, LessFlooded
<1> QED BY ZenonT(30), <1>1, <1>5, <1>6, <1>8 DEF Covered, NoticeUnderWay, NoticeArrived

(* A program outside reads what was sent to it, or sends. *)
LEMMA RemotesKeep ==
  ASSUME TypeOK, NEW r \in Remotes, RemoteSend(r) \/ RemoteRecv(r)
  PROVE  NoticesKept
<1> USE DEF service_vars, reader_vars, writer_vars, notice_vars, socket_vars, history_vars
<1>1. CASE RemoteSend(r)
  <2>1. PICK f : /\ net' = [net EXCEPT ![far[r]] = Append(@, f)]
                 /\ UNCHANGED <<flooding, announcing, sink, writing, received, link, writer>>
    BY ZenonT(20), <1>1 DEF RemoteSend
  <2>2. \A q \in Remotes : net'[q] = net[q]
    BY <2>1, NoticeTypes, NetAssumption DEF Ends
  <2> QED BY <2>1, <2>2, Idle
<1>2. CASE RemoteRecv(r)
  <2> SUFFICES ASSUME NEW w \in Conns, NEW k \in Keys, Listening(w)'
               PROVE  Listening(w) /\ (Covered(w, k) => Covered(w, k)')
    BY DEF NoticesKept
  <2>1. /\ net[r] # <<>> /\ net' = [net EXCEPT ![r] = Tail(@)]
        /\ received' = [received EXCEPT ![r] = Append(@, Head(net[r]))]
        /\ UNCHANGED <<flooding, announcing, sink, writing, link, writer>>
    BY ZenonT(20), <1>2 DEF RemoteRecv
  <2>2. Listening(w) /\ far[w] \in Remotes
    BY <2>1 DEF Listening
  <2>3. net[r] \in Seq(Frame) /\ Head(net[r]) \in Frame /\ received[r] \in Seq(Frame)
    BY <2>1, NoticeTypes, SeqHeadTail DEF Ends
  <2>4. net'[r] = Tail(net[r]) /\ received'[r] = Append(received[r], Head(net[r]))
    BY <2>1, NoticeTypes DEF Ends
  <2>5. CASE far[w] # r
    <3>1. net'[far[w]] = net[far[w]] /\ received'[far[w]] = received[far[w]]
      BY <2>1, <2>2, <2>5, NoticeTypes DEF Ends
    <3> QED BY ZenonT(30), <2>1, <2>2, <3>1 DEF Covered, NoticeUnderWay, NoticeArrived, Flooded
  <2>6. CASE far[w] = r
    <3>1. ASSUME NEW x, Has(net[r], x) PROVE Has(net'[r], x) \/ Has(received'[r], x)
      <4>1. x = Head(net[r]) \/ Has(Tail(net[r]), x)
        BY <2>1, <2>3, <3>1, HasTail
      <4> QED BY <2>3, <2>4, <4>1, HasAppend
    <3>2. ASSUME NEW x, Has(received[r], x) PROVE Has(received'[r], x)
      BY <2>3, <2>4, <3>2, HasBefore
    <3> QED BY ZenonT(30), <2>1, <2>2, <2>6, <3>1, <3>2 DEF Covered, NoticeUnderWay, NoticeArrived, Flooded
  <2> QED BY SMTT(40), <2>5, <2>6
<1> QED BY ZenonT(40), <1>1, <1>2

(* A new subscriber is sent a snapshot; notices to it that are still under *)
(* way are not forgotten.                                                  *)
LEMMA SubscribeKeeps ==
  ASSUME TypeOK, NEW s \in Servers, LoopSubscribe(s)
  PROVE  NoticesKept
<1> USE DEF service_vars, reader_vars, writer_vars, notice_vars, socket_vars, history_vars
<1> SUFFICES ASSUME NEW w \in Conns, NEW k \in Keys, Listening(w)'
             PROVE  Listening(w) /\ (Covered(w, k) => Covered(w, k)')
  BY DEF NoticesKept
<1>1. UNCHANGED <<announcing, received, net, sink, writing, link, writer>>
  BY ZenonT(20) DEF LoopSubscribe
<1>2. PICK d, K : /\ flooding' = [flooding EXCEPT ![d] = OnceMore(@, K)]
                  /\ K \in SUBSET Keys
  BY ZenonT(20) DEF LoopSubscribe, CurrentPeers
<1>3. Listening(w) /\ far[w] \in Remotes
  BY <1>1 DEF Listening
<1>4. k \in Flooded(w) => k \in Flooded(w)'
  <2>1. CASE d \in Conns
    BY ZenonT(20), <1>2, <2>1, NoticeTypes, MoreFlooded
  <2>2. CASE d \notin Conns
    BY <1>2, <2>2, NoticeTypes DEF Flooded
  <2> QED BY <2>1, <2>2
<1> QED BY ZenonT(30), <1>1, <1>3, <1>4 DEF Covered, NoticeUnderWay, NoticeArrived

(* A new client starts a task of its own that tells the mesh. *)
LEMMA ClientKeeps ==
  ASSUME TypeOK, Arrivals, NEW c \in Conns, AddNewClient(c)
  PROVE  NoticesKept
<1> USE DEF service_vars, reader_vars, writer_vars, notice_vars, socket_vars, history_vars
<1> SUFFICES ASSUME NEW w \in Conns, NEW k \in Keys, Listening(w)'
             PROVE  Listening(w) /\ (Covered(w, k) => Covered(w, k)')
  BY DEF NoticesKept
<1>1. /\ UNCHANGED <<flooding, received, net, sink, writing, link>>
      /\ writer' = [writer EXCEPT ![c] = "running"]
      /\ reader[c] = "none"
  BY ZenonT(20) DEF AddNewClient, Arrived
<1>2. PICK order : announcing' = [announcing EXCEPT ![c] = order]
  BY ZenonT(20) DEF AddNewClient
<1>3. writer[c] = "none" /\ announcing[c] = <<>>
  BY <1>1 DEF Arrivals
<1>4. writer[w] \in Over => writer'[w] \in Over
  BY SMTT(40), <1>1, <1>3, NoticeTypes DEF Over
<1>5. Listening(w) /\ far[w] \in Remotes
  BY <1>1, <1>4 DEF Listening
<1>6. ASSUME NEW e \in Conns, Has(announcing[e], w) PROVE Has(announcing'[e], w)
  <2>1. e # c
    BY <1>3, <1>6, HasSingle
  <2> QED BY <1>2, <1>6, <2>1, NoticeTypes
<1> QED BY ZenonT(30), <1>1, <1>5, <1>6 DEF Covered, NoticeUnderWay, NoticeArrived, Flooded

(* No step of the system loses a notice. *)
LEMMA NextKeeps ==
  ASSUME TypeOK, Arrivals, Next
  PROVE  NoticesKept
<1>1. ASSUME NEW s \in Servers, ServerStep(s) PROVE NoticesKept
  <2>1. CASE LoopDeliver(s)
    BY <2>1, DeliverKeeps
  <2>2. CASE LoopSubscribe(s)
    BY <2>2, SubscribeKeeps
  <2>3. CASE \/ StartAccepting(s) \/ LoopSendPacket(s) \/ LoopDies(s) \/ LoopPeerPresent(s)
    <3>1. CASE Conns = {}
      BY <3>1 DEF NoticesKept
    <3>2. CASE Conns # {}
      BY <2>3, <3>2, ServiceKeeps
    <3> QED BY <3>1, <3>2
  <2> QED BY <1>1, <2>1, <2>2, <2>3 DEF ServerStep
<1>2. ASSUME NEW c \in Outbound, MeshStart(c) \/ MeshStartFails(c) PROVE NoticesKept
  <2>1. c \in Conns /\ owner[c] \in Servers
    BY NetAssumption
  <2> QED BY <1>2, <2>1, ServiceKeeps, EndersKeep
<1>3. ASSUME NEW c \in Conns, MeshClientStep(c) PROVE NoticesKept
  BY <1>3, WatchKeeps, EndersKeep, ReadersKeep, TakersKeep, WritersKeep DEF MeshClientStep
<1>4. ASSUME NEW c \in Conns, ClientStep(c) PROVE NoticesKept
  BY <1>4, EndersKeep, ReadersKeep, TakersKeep, WritersKeep DEF ClientStep
<1>5. ASSUME NEW c \in Conns, AddNewClient(c) \/ RefuseClient(c) PROVE NoticesKept
  BY <1>5, ClientKeeps, EndersKeep
<1>6. ASSUME NEW c \in Conns, AnnounceNext(c) \/ FloodNext(c) \/ LinkDown(c) PROVE NoticesKept
  <2>1. owner[c] \in Servers
    BY NetAssumption
  <2> QED BY <1>6, <2>1, AnnounceKeeps, FloodKeeps, ServiceKeeps
<1>7. ASSUME NEW r \in Remotes, RemoteSend(r) \/ RemoteRecv(r) PROVE NoticesKept
  BY <1>7, RemotesKeep
<1>8. Outbound \subseteq Conns
  BY NetAssumption
<1> QED BY <1>1, <1>2, <1>3, <1>4, <1>5, <1>6, <1>7, <1>8 DEF Next

-----------------------------------------------------------------------------
(* Arrivals: what a step must respect *)
LEMMA ArrivalsCarried ==
  ASSUME Arrivals, KnowledgeGrows, UNCHANGED accepting,
         \A d \in Conns : reader[d] # "none" => reader'[d] # "none",
         \A d \in Conns \ Outbound : reader'[d] # "none" /\ reader[d] = "none" =>
           accepting[owner[d]] /\ (link'[d] => Known(owner[d], pk[d])'),
         \A d \in Conns : link'[d] => link[d],
         \A d \in Conns : reader'[d] = "none" => announcing'[d] = <<>>,
         \A d \in Conns : reader'[d] \in {"none", "starting"} => writer'[d] = reader'[d],
         \A d \in Conns : Len(writing'[d]) <= 1,
         \A d \in Conns : writing'[d] # <<>> => writer'[d] = "running",
         \A d \in Conns : pending'[d] # <<>> => reader'[d] = "running"
  PROVE  Arrivals'
<1>1. \A s \in Servers : accepting'[s] => MeshPeersDone(s)'
  <2>1. \A s \in Servers : accepting[s] => MeshPeersDone(s)
    BY ZenonT(20) DEF Arrivals
  <2>2. Outbound \subseteq Conns
    BY SMTT(40), NetAssumption
  <2>3. \A s \in Servers : MeshPeersDone(s) => MeshPeersDone(s)'
    BY SMTT(40), <2>2 DEF MeshPeersDone
  <2> QED BY <2>1, <2>3
<1>2. \A c \in Conns \ Outbound : reader'[c] # "none" => accepting'[owner[c]]
  BY SMTT(40) DEF Arrivals
<1>3. ASSUME NEW c \in Conns \ Outbound, reader'[c] # "none", link'[c]
      PROVE  Known(owner[c], pk[c])'
  <2>1. CASE reader[c] = "none"
    BY SMTT(40), <1>3, <2>1
  <2>2. CASE reader[c] # "none"
    <3>1. Known(owner[c], pk[c])
      BY ZenonT(20), <1>3, <2>2 DEF Arrivals
    <3>2. owner[c] \in Servers /\ pk[c] \in Keys
      BY ZenonT(40), NetAssumption
    <3> QED BY <3>1, <3>2 DEF KnowledgeGrows
  <2> QED BY SMTT(40), <2>1, <2>2
<1> QED BY ZenonT(40), <1>1, <1>2, <1>3 DEF Arrivals

(* Steps that leave the tasks of all connections alone *)
LEMMA OthersArrive ==
  ASSUME TypeOK, Arrivals, KnowledgeGrows, UNCHANGED <<accepting, reader, pending, writer, writing>>,
         \A d \in Conns : link'[d] => link[d],
         \A d \in Conns : announcing[d] = <<>> => announcing'[d] = <<>>
  PROVE  Arrivals'
<1>1. /\ \A d \in Conns : reader'[d] = "none" => announcing'[d] = <<>>
      /\ \A d \in Conns : reader'[d] \in {"none", "starting"} => writer'[d] = reader'[d]
      /\ \A d \in Conns : Len(writing'[d]) <= 1
      /\ \A d \in Conns : writing'[d] # <<>> => writer'[d] = "running"
      /\ \A d \in Conns : pending'[d] # <<>> => reader'[d] = "running"
  BY ZenonT(40) DEF Arrivals
<1> QED BY SMTT(40), <1>1, ArrivalsCarried

(* Steps of the read loop of c: it goes on, or it ends. *)
LEMMA ReadersArrive ==
  ASSUME TypeOK, Arrivals, KnowledgeGrows, NEW c \in Conns,
         \/ ReadSendPacket(c) \/ ReadWatchConns(c) \/ ReadPeerPresent(c)
         \/ ReadUnhandled(c) \/ ReadMalformed(c) \/ ReadError(c)
         \/ MeshReadPeerPresent(c) \/ MeshReadForwardPacket(c) \/ MeshReadUnhandled(c)
         \/ SendCommand(c)
  PROVE  Arrivals'
<1> USE DEF service_vars, reader_vars, writer_vars, notice_vars, socket_vars, history_vars
<1>1. UNCHANGED <<accepting, announcing, link, writer, writing>>
  BY ZenonT(20)
  DEF ReadSendPacket, ReadWatchConns, ReadPeerPresent, ReadUnhandled, ReadMalformed, ReadError,
      MeshReadPeerPresent, MeshReadForwardPacket, MeshReadUnhandled, SendCommand
<1>2. pending \in [Conns -> Seq(ServiceCommand)] /\ reader \in [Conns -> TaskStatus]
  BY DEF TypeOK
<1>3. \/ /\ reader[c] = "running" /\ UNCHANGED reader
         /\ \E q : pending' = [pending EXCEPT ![c] = q]
      \/ /\ reader[c] = "running"
         /\ pending[c] = <<>> /\ UNCHANGED pending
         /\ \E status \in Over : reader' = [reader EXCEPT ![c] = status]
      \/ /\ reader[c] = "running" /\ pending' = [pending EXCEPT ![c] = <<>>]
         /\ \E status \in Over : reader' = [reader EXCEPT ![c] = status]
  <2>1. CASE ReadSendPacket(c) \/ ReadWatchConns(c) \/ ReadPeerPresent(c)
             \/ MeshReadPeerPresent(c) \/ MeshReadForwardPacket(c)
    BY ZenonT(20), <2>1 DEF ReadSendPacket, ReadWatchConns, ReadPeerPresent, MeshReadPeerPresent,
                            MeshReadForwardPacket, GetNextMessage
  <2>2. CASE ReadUnhandled(c) \/ ReadMalformed(c) \/ ReadError(c) \/ MeshReadUnhandled(c)
    BY ZenonT(20), <2>2
    DEF ReadUnhandled, ReadMalformed, ReadError, MeshReadUnhandled, GetNextMessage, Over
  <2>3. CASE SendCommand(c)
    <3>1. pending[c] # <<>> /\ pending' = [pending EXCEPT ![c] = <<>>]
      BY ZenonT(20), <2>3 DEF SendCommand
    <3>2. UNCHANGED reader \/ \E status \in Over : reader' = [reader EXCEPT ![c] = status]
      BY ZenonT(20), <2>3 DEF SendCommand, Over
    <3>3. reader[c] = "running"
      BY ZenonT(40), <3>1 DEF Arrivals
    <3> QED BY ZenonT(20), <3>1, <3>2, <3>3
  <2> QED BY <2>1, <2>2, <2>3
<1>4. ASSUME NEW d \in Conns
      PROVE  /\ reader'[d] = reader[d] \/ (reader[d] = "running" /\ reader'[d] \in Over)
             /\ pending'[d] # <<>> => reader'[d] = "running"
  <2>1. CASE d = c
    BY ZenonT(40), <1>2, <1>3, <2>1
  <2>2. CASE d # c
    <3>1. reader'[d] = reader[d] /\ pending'[d] = pending[d]
      BY SMTT(40), <1>2, <1>3, <2>2
    <3> QED BY <3>1 DEF Arrivals
  <2> QED BY <2>1, <2>2
<1>5. /\ \A d \in Conns : reader[d] # "none" <=> reader'[d] # "none"
      /\ \A d \in Conns : reader'[d] = "none" => announcing'[d] = <<>>
      /\ \A d \in Conns : reader'[d] \in {"none", "starting"} => writer'[d] = reader'[d]
      /\ \A d \in Conns : Len(writing'[d]) <= 1
      /\ \A d \in Conns : writing'[d] # <<>> => writer'[d] = "running"
  BY ZenonT(40), <1>1, <1>4 DEF Arrivals, Over
<1> QED BY ZenonT(40), <1>1, <1>4, <1>5, ArrivalsCarried

(* Steps of the write loop of c: it is past its start. *)
LEMMA WritersArrive ==
  ASSUME TypeOK, Arrivals, KnowledgeGrows, NEW c \in Conns,
         \/ RecvWrite(c) \/ MeshRecvPeerPresent(c) \/ WriteFrame(c) \/ WriteLost(c)
         \/ RecvUnwritable(c) \/ WriteFails(c) \/ RecvNone(c)
         \/ MeshRecvPacket(c) \/ MeshRecvNone(c) \/ MeshWriteFails(c)
  PROVE  Arrivals'
<1> USE DEF service_vars, reader_vars, writer_vars, notice_vars, socket_vars, history_vars
<1>1. UNCHANGED <<accepting, announcing, link, reader, pending>>
  BY ZenonT(20)
  DEF RecvWrite, MeshRecvPeerPresent, WriteFrame, WriteLost, RecvUnwritable, WriteFails, RecvNone,
      MeshRecvPacket, MeshRecvNone, MeshWriteFails
<1>2. writer[c] = "running" \/ writing[c] # <<>>
  BY ZenonT(40)
  DEF RecvWrite, MeshRecvPeerPresent, WriteFrame, WriteLost, RecvUnwritable, WriteFails, RecvNone,
      MeshRecvPacket, MeshRecvNone, MeshWriteFails
<1>3. writer[c] = "running" /\ reader[c] \notin {"none", "starting"}
  BY <1>2 DEF Arrivals
<1>4. \/ UNCHANGED writer /\ \E f : writing' = [writing EXCEPT ![c] = <<f>>]
      \/ UNCHANGED writer /\ writing' = [writing EXCEPT ![c] = <<>>]
      \/ /\ \E status : writer' = [writer EXCEPT ![c] = status]
         /\ writing' = [writing EXCEPT ![c] = <<>>]
  BY ZenonT(40)
  DEF RecvWrite, MeshRecvPeerPresent, WriteFrame, WriteLost, RecvUnwritable, WriteFails, RecvNone,
      MeshRecvPacket, MeshRecvNone, MeshWriteFails, EndWriter
<1>5. ASSUME NEW d \in Conns
      PROVE  /\ Len(writing'[d]) <= 1
             /\ writing'[d] # <<>> => writer'[d] = "running"
             /\ reader[d] \in {"none", "starting"} => writer'[d] = reader[d]
  <2>1. CASE d = c
    <3>1. \/ writer'[c] = "running" /\ \E f : writing'[c] = <<f>>
          \/ writing'[c] = <<>>
      BY <1>3, <1>4, NoticeTypes
    <3>2. Len(<<>>) <= 1 /\ \A f : Len(<<f>>) <= 1
      BY SMTT(40)
    <3> QED BY ZenonT(40), <1>3, <2>1, <3>1, <3>2
  <2>2. CASE d # c
    <3>1. writer'[d] = writer[d] /\ writing'[d] = writing[d]
      BY SMTT(40), <1>4, <2>2, NoticeTypes
    <3> QED BY ZenonT(40), <3>1 DEF Arrivals
  <2> QED BY ZenonT(40), <2>1, <2>2
<1>6. /\ \A d \in Conns : reader'[d] = "none" => announcing'[d] = <<>>
      /\ \A d \in Conns : pending'[d] # <<>> => reader'[d] = "running"
  BY ZenonT(40), <1>1 DEF Arrivals
<1> QED BY Zenon, <1>1, <1>5, <1>6, ArrivalsCarried

(* Connections that come up, or fail to.  A client of the server gets here *)
(* once the server accepts connections, and then has a route or is closed. *)
LEMMA StartersArrive ==
  ASSUME TypeOK, Arrivals, KnowledgeGrows, NEW c \in Conns,
         \/ c \in Outbound /\ (MeshStart(c) \/ MeshStartFails(c))
         \/ MeshWatch(c) \/ MeshWatchLost(c) \/ MeshWatchFails(c)
         \/ AddNewClient(c) \/ RefuseClient(c)
  PROVE  Arrivals'
<1> USE DEF service_vars, reader_vars, writer_vars, notice_vars, socket_vars, history_vars
<1>1. UNCHANGED <<accepting, pending>> /\ reader[c] \in {"none", "starting"}
  BY ZenonT(40) DEF MeshStart, MeshStartFails, MeshWatch, MeshWatchLost, MeshWatchFails,
                    AddNewClient, RefuseClient, Arrived
<1>2. pending[c] = <<>> /\ writing[c] = <<>>
  BY ZenonT(40), <1>1 DEF Arrivals
<1>3. UNCHANGED writing \/ writing' = [writing EXCEPT ![c] = <<>>]
  BY ZenonT(20) DEF MeshStart, MeshStartFails, MeshWatch, MeshWatchLost, MeshWatchFails,
                    AddNewClient, RefuseClient, EndWriter
<1>4. UNCHANGED announcing \/ \E q : announcing' = [announcing EXCEPT ![c] = q]
  BY ZenonT(20) DEF MeshStart, MeshStartFails, MeshWatch, MeshWatchLost, MeshWatchFails,
                    AddNewClient, RefuseClient
<1>5. \E status \in {"starting", "running", "ended"} :
        /\ reader' = [reader EXCEPT ![c] = status]
        /\ writer' = [writer EXCEPT ![c] = status]
  BY ZenonT(20) DEF MeshStart, MeshStartFails, MeshWatch, MeshWatchLost, MeshWatchFails,
                    AddNewClient, RefuseClient, EndWriter
<1>6. UNCHANGED link \/ link' = [link EXCEPT ![c] = FALSE]
  BY ZenonT(20) DEF MeshStart, MeshStartFails, MeshWatch, MeshWatchLost, MeshWatchFails,
                    AddNewClient, RefuseClient
<1>7. ASSUME NEW d \in Conns
      PROVE  /\ reader[d] # "none" => reader'[d] # "none"
             /\ link'[d] => link[d]
             /\ reader'[d] = "none" => announcing'[d] = <<>>
             /\ reader'[d] \in {"none", "starting"} => writer'[d] = reader'[d]
             /\ Len(writing'[d]) <= 1
             /\ writing'[d] # <<>> => writer'[d] = "running"
             /\ pending'[d] # <<>> => reader'[d] = "running"
  <2>1. CASE d = c
    <3>1. writing'[c] = <<>> /\ pending'[c] = <<>> /\ reader'[c] # "none"
          /\ writer'[c] = reader'[c]
      BY ZenonT(40), <1>1, <1>2, <1>3, <1>5, NoticeTypes
    <3>2. link'[c] => link[c]
      BY <1>6, NoticeTypes
    <3>3. Len(<<>>) <= 1
      BY SMTT(40)
    <3> QED BY ZenonT(40), <2>1, <3>1, <3>2, <3>3
  <2>2. CASE d # c
    <3>1. /\ reader'[d] = reader[d] /\ writer'[d] = writer[d] /\ writing'[d] = writing[d]
          /\ announcing'[d] = announcing[d] /\ link'[d] = link[d] /\ pending'[d] = pending[d]
      BY <1>1, <1>3, <1>4, <1>5, <1>6, <2>2, NoticeTypes
    <3> QED BY ZenonT(40), <3>1 DEF Arrivals
  <2> QED BY SMTT(40), <2>1, <2>2
<1>8. ASSUME NEW d \in Conns \ Outbound, reader'[d] # "none", reader[d] = "none"
      PROVE  accepting[owner[d]] /\ (link'[d] => Known(owner[d], pk[d])')
  <2>1. d = c
    BY ZenonT(40), <1>5, <1>8, NoticeTypes
  <2>2. AddNewClient(c) \/ RefuseClient(c)
    BY <1>8, <2>1 DEF MeshWatch, MeshWatchLost, MeshWatchFails
  <2>3. accepting[owner[c]]
    BY ZenonT(40), <2>2 DEF AddNewClient, RefuseClient, Arrived
  <2>4. CASE AddNewClient(c)
    <3>1. peers_sinks' = [peers_sinks EXCEPT ![owner[c]][pk[c]] = c]
      BY <2>4 DEF AddNewClient
    <3>2. peers_sinks \in [Servers -> [Keys -> Conns \cup {None}]]
      BY DEF TypeOK
    <3>3. owner[c] \in Servers /\ pk[c] \in Keys /\ c # None
      BY SMTT(40), NetAssumption
    <3>4. peers_sinks'[owner[c]][pk[c]] = c
      BY ZenonT(40), <3>1, <3>2, <3>3
    <3> QED BY ZenonT(40), <2>1, <2>3, <3>3, <3>4 DEF Known
  <2>5. CASE RefuseClient(c)
    <3>1. link' = [link EXCEPT ![c] = FALSE]
      BY ZenonT(40), <2>5 DEF RefuseClient
    <3> QED BY ZenonT(40), <2>1, <2>3, <3>1, NoticeTypes
  <2> QED BY ZenonT(40), <2>2, <2>4, <2>5
<1> QED BY ZenonT(40), <1>1, <1>7, <1>8, ArrivalsCarried

(* main enters the accept loop after new has tried all mesh peers. *)
LEMMA AcceptArrives ==
  ASSUME TypeOK, Arrivals, NEW s \in Servers, StartAccepting(s)
  PROVE  Arrivals'
<1> USE DEF service_vars, reader_vars, writer_vars, notice_vars, socket_vars, history_vars
<1>1. /\ UNCHANGED <<peers_sinks, reader, pending, writer, writing, announcing, link>>
      /\ accepting' = [accepting EXCEPT ![s] = TRUE] /\ MeshPeersDone(s)
  BY ZenonT(20) DEF StartAccepting
<1>2. \A t \in Servers : accepting[t] => accepting'[t]
  BY ZenonT(40), <1>1, NoticeTypes
<1>3. \A t \in Servers : accepting'[t] => MeshPeersDone(t)
  BY ZenonT(40), <1>1, NoticeTypes DEF Arrivals
<1>4. \A t \in Servers : accepting'[t] => MeshPeersDone(t)'
  BY ZenonT(40), <1>1, <1>3 DEF MeshPeersDone
<1>5. \A c \in Conns \ Outbound : reader'[c] # "none" => accepting'[owner[c]]
  BY ZenonT(40), <1>1, <1>2, NetAssumption DEF Arrivals
<1>6. /\ \A c \in Conns \ Outbound : reader'[c] # "none" /\ link'[c] => Known(owner[c], pk[c])'
      /\ \A c \in Conns : reader'[c] = "none" => announcing'[c] = <<>>
      /\ \A c \in Conns : reader'[c] \in {"none", "starting"} => writer'[c] = reader'[c]
      /\ \A c \in Conns : Len(writing'[c]) <= 1
      /\ \A c \in Conns : writing'[c] # <<>> => writer'[c] = "running"
      /\ \A c \in Conns : pending'[c] # <<>> => reader'[c] = "running"
  BY <1>1 DEF Arrivals, Known
<1> QED BY ZenonT(40), <1>4, <1>5, <1>6 DEF Arrivals

(* Every step keeps the server and its connections in step. *)
LEMMA NextArrives ==
  ASSUME TypeOK, Arrivals, Next
  PROVE  Arrivals'
<1> USE DEF service_vars, reader_vars, writer_vars, notice_vars, socket_vars, history_vars
<1>0. KnowledgeGrows
  BY NextGrows
<1>1. ASSUME NEW s \in Servers, ServerStep(s) PROVE Arrivals'
  <2>1. CASE StartAccepting(s)
    BY ZenonT(40), <2>1, AcceptArrives
  <2>2. CASE ~StartAccepting(s)
    <3>1. UNCHANGED <<accepting, reader, pending, writer, writing, link, announcing>>
      BY ZenonT(20), <1>1, <2>2
      DEF ServerStep, LoopSendPacket, LoopDeliver, LoopDies, LoopSubscribe, LoopPeerPresent
    <3> QED BY <1>0, <3>1, OthersArrive
  <2> QED BY <2>1, <2>2
<1>2. ASSUME NEW c \in Conns, c \in Outbound /\ (MeshStart(c) \/ MeshStartFails(c))
      PROVE  Arrivals'
  BY <1>0, <1>2, StartersArrive
<1>3. ASSUME NEW c \in Conns, MeshClientStep(c) PROVE Arrivals'
  BY ZenonT(40), <1>0, <1>3, StartersArrive, ReadersArrive, WritersArrive DEF MeshClientStep
<1>4. ASSUME NEW c \in Conns, ClientStep(c) PROVE Arrivals'
  BY <1>0, <1>4, ReadersArrive, WritersArrive DEF ClientStep
<1>5. ASSUME NEW c \in Conns, AddNewClient(c) \/ RefuseClient(c) PROVE Arrivals'
  BY ZenonT(40), <1>0, <1>5, StartersArrive
<1>6. ASSUME NEW c \in Conns, AnnounceNext(c) \/ FloodNext(c) \/ LinkDown(c) PROVE Arrivals'
  <2>1. UNCHANGED <<accepting, reader, pending, writer, writing>>
    BY ZenonT(20), <1>6 DEF AnnounceNext, FloodNext, LinkDown
  <2>2. UNCHANGED link \/ link' = [link EXCEPT ![c] = FALSE]
    BY ZenonT(20), <1>6 DEF AnnounceNext, FloodNext, LinkDown
  <2>3. \/ UNCHANGED announcing
        \/ announcing[c] # <<>> /\ announcing' = [announcing EXCEPT ![c] = Tail(@)]
    BY ZenonT(20), <1>6 DEF AnnounceNext, FloodNext, LinkDown
  <2>4. \A d \in Conns : link'[d] => link[d]
    BY ZenonT(40), <2>2, NoticeTypes
  <2>5. \A d \in Conns : announcing[d] = <<>> => announcing'[d] = <<>>
    BY <2>3, NoticeTypes
  <2> QED BY <1>0, <2>1, <2>4, <2>5, OthersArrive
<1>7. ASSUME NEW r \in Remotes, RemoteSend(r) \/ RemoteRecv(r) PROVE Arrivals'
  <2>1. UNCHANGED <<accepting, reader, pending, writer, writing, link, announcing>>
    BY ZenonT(20), <1>7 DEF RemoteSend, RemoteRecv
  <2> QED BY <1>0, <2>1, OthersArrive
<1>8. Outbound \subseteq Conns
  BY NetAssumption
<1> QED BY <1>1, <1>2, <1>3, <1>4, <1>5, <1>6, <1>7, <1>8 DEF Next

-----------------------------------------------------------------------------
(* A member and a client that were both there before, or a notice that is  *)
(* there now: that is all a step needs.                                    *)
LEMMA MissedByNone ==
  ASSUME TypeOK', NoClientMissed, NoticesKept,
         \A s \in Servers : \A w \in MeshSinks(s)' : \A k \in LocalKeys(s)' :
           (w \in MeshSinks(s) /\ k \in LocalKeys(s)) \/ Covered(w, k)'
  PROVE  NoClientMissed'
<1> SUFFICES ASSUME NEW s \in Servers, NEW w \in MeshSinks(s)', NEW k \in LocalKeys(s)',
                    Listening(w)'
             PROVE  Covered(w, k)'
  BY ZenonT(20) DEF NoClientMissed, Covered
<1>1. mesh' \in [Servers -> [Keys -> Conns \cup {None}]]
  BY DEF TypeOK
<1>2. w \in Conns
  BY SMTT(40), <1>1 DEF MeshSinks
<1>3. k \in Keys
  BY NetAssumption DEF LocalKeys, LocalClients
<1>4. CASE w \in MeshSinks(s) /\ k \in LocalKeys(s)
  <2>1. Listening(w) /\ (Covered(w, k) => Covered(w, k)')
    BY <1>2, <1>3 DEF NoticesKept
  <2>2. Covered(w, k)
    BY ZenonT(20), <1>4, <2>1 DEF NoClientMissed, Covered
  <2> QED BY <2>1, <2>2
<1> QED BY <1>4

(* Steps in which nobody joins: no map of members changes, and what is a   *)
(* connected client now was one before.                                    *)
LEMMA NoneNew ==
  ASSUME UNCHANGED mesh,
         \A c \in Conns \ Outbound :
           reader'[c] # "none" /\ link'[c] => reader[c] # "none" /\ link[c]
  PROVE  NobodyJoins
<1> SUFFICES ASSUME NEW s \in Servers
             PROVE  MeshSinks(s)' \subseteq MeshSinks(s) /\ LocalKeys(s)' \subseteq LocalKeys(s)
  BY DEF NobodyJoins
<1>1. MeshSinks(s)' = MeshSinks(s)
  BY DEF MeshSinks
<1>2. LocalClients(s)' \subseteq LocalClients(s)
  BY DEF LocalClients
<1>3. LocalKeys(s)' \subseteq LocalKeys(s)
  BY <1>2 DEF LocalKeys
<1> QED BY <1>1, <1>3

(* MeshStart makes a member before the first client is accepted. *)
LEMMA StartMisses ==
  ASSUME TypeOK, TypeOK', Arrivals, NoClientMissed, NoticesKept, NEW c \in Outbound, MeshStart(c)
  PROVE  NoClientMissed'
<1> USE DEF service_vars, reader_vars, writer_vars, notice_vars, socket_vars, history_vars
<1> DEFINE s == owner[c]
<1>1. c \in Conns /\ s \in Servers /\ pk[c] \in Keys
  BY NetAssumption
<1>2. /\ mesh' = [mesh EXCEPT ![s][pk[c]] = c] /\ UNCHANGED link
      /\ reader' = [reader EXCEPT ![c] = "starting"]
      /\ reader[c] = "none" /\ meshkey[s] # None
  BY ZenonT(20) DEF MeshStart
<1>3. ~accepting[s]
  BY <1>1, <1>2 DEF Arrivals, MeshPeersDone
<1>4. \A d \in Conns \ Outbound : reader'[d] = reader[d]
  BY ZenonT(40), <1>1, <1>2, NoticeTypes
<1>5. LocalClients(s)' = {}
  <2>1. \A d \in Conns \ Outbound : reader[d] # "none" => accepting[owner[d]]
    BY ZenonT(40) DEF Arrivals
  <2>2. \A d \in Conns \ Outbound : owner[d] = s => reader'[d] = "none"
    BY ZenonT(40), <1>3, <1>4, <2>1
  <2> QED BY <2>2 DEF LocalClients
<1>6. LocalKeys(s)' = {}
  BY <1>5 DEF LocalKeys
<1>7. ASSUME NEW t \in Servers, t # s
      PROVE  MeshSinks(t)' = MeshSinks(t) /\ LocalKeys(t)' \subseteq LocalKeys(t)
  <2>1. mesh'[t] = mesh[t]
    BY ZenonT(40), <1>1, <1>2, <1>7 DEF TypeOK
  <2>2. LocalClients(t)' = LocalClients(t)
    BY <1>2, <1>4 DEF LocalClients
  <2> QED BY ZenonT(40), <2>1, <2>2 DEF MeshSinks, LocalKeys
<1> HIDE DEF s
<1> QED BY <1>6, <1>7, MissedByNone

(* The snapshot for a new subscriber holds every client of the server. *)
LEMMA SubscribeMisses ==
  ASSUME TypeOK, TypeOK', Arrivals, NoClientMissed, NoticesKept, NEW s \in Servers,
         LoopSubscribe(s)
  PROVE  NoClientMissed'
<1> USE DEF service_vars, reader_vars, writer_vars, notice_vars, socket_vars, history_vars
<1> DEFINE m == Head(commands[s])
           members == [mesh[s] EXCEPT ![m.key] = m.sink]
<1>1. /\ mesh' = [mesh EXCEPT ![s] = members]
      /\ flooding' = [flooding EXCEPT ![m.sink] = OnceMore(@, CurrentPeers(s, members))]
      /\ UNCHANGED <<reader, link>>
      /\ LoopReceives(s, "Subscribe")
  BY ZenonT(20) DEF LoopSubscribe
<1>2. m.key \in Keys /\ m.sink \in Conns
  <2>1. commands[s] \in Seq(ServiceCommand) /\ commands[s] # <<>> /\ m.cmd = "Subscribe"
    BY ZenonT(40), <1>1 DEF TypeOK, LoopReceives
  <2>2. m \in ServiceCommand
    BY ZenonT(40), <2>1, SeqHeadTail
  <2> QED BY ZenonT(40), <2>1, <2>2, CommandFields
<1>3. mesh \in [Servers -> [Keys -> Conns \cup {None}]]
  BY DEF TypeOK
<1>4. mesh'[s] = members /\ \A k \in Keys : members[k] = None => mesh[s][k] = None
  <2>1. mesh'[s] = members
    BY ZenonT(40), <1>1, <1>3
  <2>2. m.sink # None
    BY <1>2, NetAssumption
  <2>3. mesh[s] \in [Keys -> Conns \cup {None}]
    BY <1>3
  <2>4. \A k \in Keys : members[k] = None => mesh[s][k] = None
    BY <1>2, <2>2, <2>3
  <2> QED BY ZenonT(40), <2>1, <2>4
<1>5. \A t \in Servers : LocalClients(t)' = LocalClients(t)
  BY <1>1 DEF LocalClients
<1>6. ASSUME NEW t \in Servers, t # s
      PROVE  MeshSinks(t)' = MeshSinks(t) /\ LocalKeys(t)' = LocalKeys(t)
  <2>1. mesh'[t] = mesh[t]
    BY SMTT(40), <1>1, <1>3, <1>6
  <2> QED BY ZenonT(40), <1>5, <2>1 DEF MeshSinks, LocalKeys
<1>6a. PICK d \in Conns : d = m.sink
  BY <1>2
<1>7. ASSUME NEW k \in LocalKeys(s)'
      PROVE  k \in LocalKeys(s) /\ k \in Flooded(d)'
  <2>1. k \in {pk[c] : c \in LocalClients(s)} /\ k \in Keys /\ mesh'[s][k] = None
    BY SMTT(40), <1>5, <1>7, NetAssumption DEF LocalKeys, LocalClients
  <2>2. PICK c \in LocalClients(s) : pk[c] = k
    BY SMTT(40), <2>1
  <2>3. Known(s, k)
    BY ZenonT(40), <2>2 DEF Arrivals, LocalClients
  <2>4. k \in CurrentPeers(s, members)
    BY ZenonT(40), <1>4, <2>1, <2>3 DEF CurrentPeers, Known
  <2>5. k \in CurrentPeers(s, members) => k \in Flooded(d)'
    <3>1. CurrentPeers(s, members) \in SUBSET Keys
      BY DEF CurrentPeers
    <3>2. PICK K \in SUBSET Keys : /\ K = CurrentPeers(s, members)
                                   /\ flooding' = [flooding EXCEPT ![d] = OnceMore(@, K)]
      BY <1>1, <1>6a, <3>1
    <3>3. Flooded(d)' = Flooded(d) \cup K
      BY ZenonT(20), <3>2, NoticeTypes, MoreFlooded
    <3> QED BY <3>2, <3>3
  <2> QED BY ZenonT(40), <1>4, <2>1, <2>4, <2>5 DEF LocalKeys
<1>8. ASSUME NEW w \in MeshSinks(s)' PROVE w \in MeshSinks(s) \/ w = d
  <2>1. PICK j \in Keys : w = mesh'[s][j] /\ w # None
    BY ZenonT(40) DEF MeshSinks
  <2>2. w = d \/ w = mesh[s][j]
    BY <1>2, <1>3, <1>4, <1>6a, <2>1
  <2> QED BY <2>1, <2>2 DEF MeshSinks
<1> HIDE DEF m, members
<1>9. ASSUME NEW t \in Servers, NEW w \in MeshSinks(t)', NEW k \in LocalKeys(t)'
      PROVE  (w \in MeshSinks(t) /\ k \in LocalKeys(t)) \/ Covered(w, k)'
  <2>1. CASE t # s
    BY SMTT(40), <1>6, <1>9, <2>1
  <2>2. CASE t = s
    <3>1. k \in LocalKeys(s) /\ (w = d => k \in Flooded(w)')
      BY <1>7, <1>9, <2>2
    <3>2. w = d => Covered(w, k)'
      BY ZenonT(20), <3>1 DEF Covered, NoticeUnderWay
    <3> QED BY ZenonT(40), <1>8, <1>9, <2>2, <3>1, <3>2
  <2> QED BY <2>1, <2>2
<1> QED BY <1>9, MissedByNone

(* The task started for a new client is to tell every member. *)
LEMMA ClientMisses ==
  ASSUME TypeOK, TypeOK', NoClientMissed, NoticesKept, NEW c \in Conns, AddNewClient(c)
  PROVE  NoClientMissed'
<1> USE DEF service_vars, reader_vars, writer_vars, notice_vars, socket_vars, history_vars
<1>1. owner[c] \in Servers /\ pk[c] \in Keys
  BY NetAssumption
<1>2. UNCHANGED <<mesh, link>> /\ reader' = [reader EXCEPT ![c] = "running"]
  BY ZenonT(20) DEF AddNewClient
<1>3. PICK order \in NotifyAllMeshPeers(owner[c]) : announcing' = [announcing EXCEPT ![c] = order]
  BY ZenonT(20) DEF AddNewClient
<1>4. order \in Seq(Conns)
  BY <1>1, OrderType
<1>5. ASSUME NEW w \in MeshSinks(owner[c]) PROVE Has(announcing'[c], w)
  <2>1. order \in [1..Cardinality(MeshSinks(owner[c])) -> MeshSinks(owner[c])]
        /\ \E i \in 1..Cardinality(MeshSinks(owner[c])) : order[i] = w
    BY DEF NotifyAllMeshPeers
  <2>2. Has(order, w)
    BY <2>1 DEF Has
  <2>3. announcing'[c] = order
    BY <1>3, NoticeTypes
  <2> QED BY <2>2, <2>3
<1>6. ASSUME NEW t \in Servers, NEW w \in MeshSinks(t)', NEW k \in LocalKeys(t)'
      PROVE  (w \in MeshSinks(t) /\ k \in LocalKeys(t)) \/ Covered(w, k)'
  <2>1. w \in MeshSinks(t)
    BY <1>2, <1>6 DEF MeshSinks
  <2>2. PICK d \in LocalClients(t)' : pk[d] = k
    BY SMTT(40), <1>6 DEF LocalKeys
  <2>3. k \notin {j \in Keys : mesh[t][j] # None}
    BY <1>2, <1>6 DEF LocalKeys
  <2>4. d \in Conns \ Outbound /\ owner[d] = t /\ reader'[d] # "none" /\ link[d]
    BY <1>2, <2>2 DEF LocalClients
  <2>5. CASE d = c
    <3>1. Has(announcing'[c], w) /\ pk[c] = k
      BY <1>5, <2>1, <2>2, <2>4, <2>5
    <3>2. Covered(w, k)'
      BY ZenonT(20), <3>1 DEF Covered, NoticeUnderWay
    <3> QED BY ZenonT(40), <3>2
  <2>6. CASE d # c
    <3>1. reader[d] # "none"
      BY SMTT(40), <1>2, <2>4, <2>6, NoticeTypes
    <3>2. d \in LocalClients(t)
      BY ZenonT(40), <2>4, <3>1 DEF LocalClients
    <3> QED BY ZenonT(40), <2>1, <2>2, <2>3, <3>2 DEF LocalKeys
  <2> QED BY <2>5, <2>6
<1> QED BY <1>6, MissedByNone

(* Who takes part changes in three steps only. *)
LEMMA WhoJoins ==
  ASSUME TypeOK, Arrivals, Next
  PROVE  \/ NobodyJoins
         \/ \E c \in Outbound : MeshStart(c)
         \/ \E c \in Conns : AddNewClient(c)
         \/ \E s \in Servers : LoopSubscribe(s)
<1> USE DEF service_vars, reader_vars, writer_vars, notice_vars, socket_vars, history_vars
<1>1. ASSUME NEW s \in Servers, ServerStep(s), ~LoopSubscribe(s) PROVE NobodyJoins
  <2>1. UNCHANGED <<mesh, reader, link>>
    BY ZenonT(20), <1>1
    DEF ServerStep, StartAccepting, LoopSendPacket, LoopDeliver, LoopDies, LoopPeerPresent
  <2> QED BY <2>1, NoneNew
<1>2. ASSUME NEW c \in Outbound, MeshStartFails(c) PROVE NobodyJoins
  <2>1. UNCHANGED <<mesh, link>> /\ reader' = [reader EXCEPT ![c] = "ended"]
    BY ZenonT(20), <1>2 DEF MeshStartFails
  <2>2. \A d \in Conns \ Outbound : reader'[d] = reader[d]
    BY <2>1, NoticeTypes, NetAssumption
  <2> QED BY <2>1, <2>2, NoneNew
<1>3. ASSUME NEW c \in Conns, MeshClientStep(c) \/ ClientStep(c) PROVE NobodyJoins
  <2>1. UNCHANGED <<mesh, link>>
    BY ZenonT(20), <1>3
    DEF MeshClientStep, ClientStep, MeshWatch, MeshWatchLost, MeshWatchFails,
        ReadSendPacket, ReadWatchConns, ReadPeerPresent, ReadUnhandled, ReadMalformed, ReadError,
        MeshReadPeerPresent, MeshReadForwardPacket, MeshReadUnhandled, SendCommand,
        RecvWrite, MeshRecvPeerPresent, WriteFrame, WriteLost, RecvUnwritable, WriteFails,
        RecvNone, MeshRecvPacket, MeshRecvNone, MeshWriteFails
  <2>2. UNCHANGED reader \/ (reader[c] # "none" /\ \E x : reader' = [reader EXCEPT ![c] = x])
    <3>1. CASE MeshWatch(c) \/ MeshWatchLost(c) \/ MeshWatchFails(c)
      BY ZenonT(20), <3>1 DEF MeshWatch, MeshWatchLost, MeshWatchFails
    <3>2. CASE ReadUnhandled(c) \/ ReadMalformed(c) \/ ReadError(c) \/ MeshReadUnhandled(c)
      BY ZenonT(20), <3>2
      DEF ReadUnhandled, ReadMalformed, ReadError, MeshReadUnhandled, GetNextMessage
    <3>3. CASE SendCommand(c)
      <4>1. pending[c] # <<>> /\ (UNCHANGED reader \/ \E x : reader' = [reader EXCEPT ![c] = x])
        BY ZenonT(20), <3>3 DEF SendCommand
      <4>2. reader[c] # "none"
        BY <4>1 DEF Arrivals
      <4> QED BY <4>1, <4>2
    <3>4. CASE \/ ReadSendPacket(c) \/ ReadWatchConns(c) \/ ReadPeerPresent(c)
               \/ MeshReadPeerPresent(c) \/ MeshReadForwardPacket(c)
      BY ZenonT(20), <3>4
      DEF ReadSendPacket, ReadWatchConns, ReadPeerPresent, MeshReadPeerPresent,
          MeshReadForwardPacket
    <3>5. CASE \/ RecvWrite(c) \/ MeshRecvPeerPresent(c) \/ WriteFrame(c) \/ WriteLost(c)
               \/ RecvUnwritable(c) \/ WriteFails(c) \/ RecvNone(c)
               \/ MeshRecvPacket(c) \/ MeshRecvNone(c) \/ MeshWriteFails(c)
      BY ZenonT(20), <3>5
      DEF RecvWrite, MeshRecvPeerPresent, WriteFrame, WriteLost, RecvUnwritable, WriteFails,
          RecvNone, MeshRecvPacket, MeshRecvNone, MeshWriteFails
    <3> QED BY <1>3, <3>1, <3>2, <3>3, <3>4, <3>5 DEF MeshClientStep, ClientStep
  <2>3. \A d \in Conns \ Outbound : reader'[d] # "none" => reader[d] # "none"
    BY <2>2, NoticeTypes
  <2> QED BY <2>1, <2>3, NoneNew
<1>4. ASSUME NEW c \in Conns, RefuseClient(c) PROVE NobodyJoins
  <2>1. /\ UNCHANGED mesh /\ link' = [link EXCEPT ![c] = FALSE]
        /\ reader' = [reader EXCEPT ![c] = "ended"]
    BY ZenonT(20), <1>4 DEF RefuseClient
  <2>2. \A d \in Conns : reader'[d] # "none" /\ link'[d] => reader[d] # "none" /\ link[d]
    BY <2>1, NoticeTypes
  <2> QED BY <2>1, <2>2, NoneNew
<1>5. ASSUME NEW c \in Conns, AnnounceNext(c) \/ FloodNext(c) \/ LinkDown(c) PROVE NobodyJoins
  <2>1. /\ UNCHANGED <<mesh, reader>>
        /\ UNCHANGED link \/ link' = [link EXCEPT ![c] = FALSE]
    BY ZenonT(20), <1>5 DEF AnnounceNext, FloodNext, LinkDown
  <2>2. \A d \in Conns : link'[d] => link[d]
    BY Zenon, <2>1, NoticeTypes
  <2> QED BY <2>1, <2>2, NoneNew
<1>6. ASSUME NEW r \in Remotes, RemoteSend(r) \/ RemoteRecv(r) PROVE NobodyJoins
  <2>1. UNCHANGED <<mesh, reader, link>>
    BY ZenonT(20), <1>6 DEF RemoteSend, RemoteRecv
  <2> QED BY <2>1, NoneNew
<1>7. Outbound \subseteq Conns
  BY NetAssumption
<1> QED BY SMTT(40), <1>1, <1>2, <1>3, <1>4, <1>5, <1>6, <1>7 DEF Next

(* Every step keeps NoticeInv. *)
LEMMA NextNotices ==
  ASSUME TypeOK, TypeOK', NoticeInv, [Next]_vars
  PROVE  NoticeInv'
<1>1. Arrivals /\ NoClientMissed
  BY DEF NoticeInv
<1>2. CASE Next
  <2>1. Arrivals' /\ NoticesKept
    BY <1>1, <1>2, NextArrives, NextKeeps
  <2>2. CASE NobodyJoins
    <3>1. NoClientMissed'
      BY <1>1, <2>1, <2>2, MissedByNone DEF NobodyJoins
    <3> QED BY <2>1, <3>1 DEF NoticeInv
  <2>3. ASSUME NEW c \in Outbound, MeshStart(c) PROVE NoticeInv'
    BY <1>1, <2>1, <2>3, StartMisses DEF NoticeInv
  <2>4. ASSUME NEW c \in Conns, AddNewClient(c) PROVE NoticeInv'
    BY <1>1, <2>1, <2>4, ClientMisses DEF NoticeInv
  <2>5. ASSUME NEW s \in Servers, LoopSubscribe(s) PROVE NoticeInv'
    BY <1>1, <2>1, <2>5, SubscribeMisses DEF NoticeInv
  <2> QED BY ZenonT(40), <1>1, <1>2, <2>2, <2>3, <2>4, <2>5, WhoJoins
<1>3. CASE UNCHANGED vars
  <2>1. /\ UNCHANGED <<accepting, reader, pending, writer, writing, link, announcing, mesh>>
        /\ UNCHANGED <<flooding, sink, received, net, peers_sinks>>
    BY <1>3 DEF vars, service_vars, reader_vars, writer_vars, notice_vars, socket_vars, history_vars
  <2>2. KnowledgeGrows
    BY <1>3, NextGrows
  <2>3. Arrivals'
    BY ZenonT(40), <1>1, <2>1, <2>2, OthersArrive
  <2>4. NobodyJoins /\ NoticesKept
    BY <2>1, NoneNew, Idle
  <2>5. NoClientMissed'
    BY <1>1, <2>4, MissedByNone DEF NobodyJoins
  <2> QED BY SMTT(40), <2>3, <2>5 DEF NoticeInv
<1> QED BY <1>2, <1>3

(* At first there is neither a member nor a client. *)
LEMMA InitNotices == Init => NoticeInv
<1> SUFFICES ASSUME Init PROVE NoticeInv
  BY ZenonT(40)
<1>1. Arrivals
  <2>1. Len(<<>>) <= 1
    OBVIOUS
  <2> QED BY <2>1, NetAssumption DEF Init, Arrivals
<1>2. ASSUME NEW s \in Servers PROVE MeshSinks(s) = {}
  BY DEF Init, MeshSinks
<1>3. NoClientMissed
  BY <1>2 DEF NoClientMissed
<1> QED BY <1>1, <1>3 DEF NoticeInv

(***************************************************************************)
(* However many servers, mesh members and clients there are, and however   *)
(* often a member subscribes again: the snapshot taken under the write     *)
(* lock and the announcements after it leave out no client.                *)
(***************************************************************************)
THEOREM NobodyIsMissed == Spec => []NoticeInv
<1>1. Spec => []TypeOK
  BY TypeCorrect
<1>2. Init => NoticeInv
  BY InitNotices
<1>3. TypeOK /\ TypeOK' /\ NoticeInv /\ [Next]_vars => NoticeInv'
  BY NextNotices
<1> QED BY <1>1, <1>2, <1>3, PTL DEF Spec

=============================================================================
