----------------------------- MODULE DerpService -----------------------------
(***************************************************************************)
(* service.rs: the state that the tasks of a server share, the loop that   *)
(* serves its command channel, and the whole system made of the servers,   *)
(* the read and write loops of their connections, and the programs that    *)
(* connect to them.                                                        *)
(*                                                                         *)
(* The RwLock around DerpService is never held across an await that waits  *)
(* for anything but the lock, so each critical section is one step.        *)
(***************************************************************************)
EXTENDS DerpMeshClient

(* The connections that are in the mesh of s, whatever their keys. *)
MeshSinks(s) == {mesh[s][k] : k \in Keys} \ {None}

-----------------------------------------------------------------------------
(* DerpService::new and the accept loop.  new connects to the mesh peers   *)
(* one after the other; the order is left open here, which allows every    *)
(* order of the configured list.                                           *)

(* MeshClient::start succeeds when the other server answers: dersp does so *)
(* once it accepts connections.  The mesh peer is told nothing yet.        *)
MeshStart(c) ==
  LET s == owner[c] IN
  /\ meshkey[s] # None
  /\ reader[c] = "none"
  /\ Up(c)
  /\ far[c] \in Conns => accepting[owner[far[c]]]
  /\ mesh' = [mesh EXCEPT ![s][pk[c]] = c]
  /\ reader' = [reader EXCEPT ![c] = "starting"]
  /\ writer' = [writer EXCEPT ![c] = "starting"]
  /\ UNCHANGED <<peers_sinks, accepting, commands, command_loop, outgoing,
                 pending, sink, writing, notice_vars, socket_vars, history_vars>>

(* An error of start is logged, and there is no second attempt. *)
MeshStartFails(c) ==
  LET s == owner[c] IN
  /\ meshkey[s] # None
  /\ reader[c] = "none"
  /\ ~Up(c)
  /\ reader' = [reader EXCEPT ![c] = "ended"]
  /\ EndWriter(c, "ended")
  /\ UNCHANGED <<service_vars, pending, notice_vars, socket_vars, history_vars>>

BugAcceptEarly(s) == TRUE

(* Every mesh peer was tried, and only then does main enter the accept     *)
(* loop; without a mesh key they are ignored.                              *)
MeshPeersDone(s) ==
  meshkey[s] # None => \A c \in Outbound : owner[c] = s => reader[c] # "none"

StartAccepting(s) ==
  /\ ~accepting[s]
  /\ MeshPeersDone(s)
  /\ accepting' = [accepting EXCEPT ![s] = TRUE]
  /\ UNCHANGED <<peers_sinks, mesh, commands, command_loop, outgoing, reader_vars,
                 writer_vars, notice_vars, socket_vars, history_vars>>

(* A connection was accepted and its handshake is complete.  Each runs in  *)
(* a task of its own, and the order in which they get here is arbitrary.   *)
Arrived(c) ==
  /\ accepting[owner[c]]
  /\ reader[c] = "none"
  /\ far[c] \in Conns => reader[far[c]] # "none"

BugNotifyNobody(s) == {<<>>}

(* notify_all_mesh_peers: the mesh is cloned, and a task tells its members *)
(* one after the other, in the order of iteration of a hash map.           *)
NotifyAllMeshPeers(s) ==
  LET D == 1..Cardinality(MeshSinks(s))
  IN {q \in [D -> MeshSinks(s)] : \A w \in MeshSinks(s) : \E i \in D : q[i] = w}

AddNewClient(c) ==
  LET s == owner[c] IN
  /\ Arrived(c)
  /\ MeshKeyFits(c)
  /\ reader' = [reader EXCEPT ![c] = "running"]
  /\ writer' = [writer EXCEPT ![c] = "running"]
  /\ peers_sinks' = [peers_sinks EXCEPT ![s][pk[c]] = c]
  /\ \E order \in NotifyAllMeshPeers(s) : announcing' = [announcing EXCEPT ![c] = order]
  /\ UNCHANGED <<mesh, accepting, commands, command_loop, outgoing, pending, sink,
                 writing, flooding, socket_vars, history_vars>>

(* The handshake fails, the mesh key is wrong, or the socket has lost its  *)
(* peer: the socket is dropped.                                            *)
RefuseClient(c) ==
  /\ Arrived(c)
  /\ ~MeshKeyFits(c) \/ ~Up(c)
  /\ reader' = [reader EXCEPT ![c] = "ended"]
  /\ EndWriter(c, "ended")
  /\ link' = [link EXCEPT ![c] = FALSE]
  /\ UNCHANGED <<service_vars, pending, notice_vars, net, history_vars>>

-----------------------------------------------------------------------------
(* command_loop *)

LoopReceives(s, cmd) ==
  /\ command_loop[s] = "running"
  /\ outgoing[s] = <<>>
  /\ commands[s] # <<>>
  /\ Head(commands[s]).cmd = cmd
  /\ commands' = [commands EXCEPT ![s] = Tail(@)]

BugUnrouted(s, packet) == <<[sink |-> peers_sinks[s][packet.target], packet |-> packet]>>

(* A packet without a route is dropped.  Otherwise the sink is cloned, and *)
(* the lock is released before the loop waits for room in the sink.        *)
Routed(s, packet) ==
  LET route == peers_sinks[s][packet.target] IN
  IF route = None THEN <<>> ELSE <<[sink |-> route, packet |-> packet]>>

LoopSendPacket(s) ==
  /\ LoopReceives(s, "SendPacket")
  /\ outgoing' = [outgoing EXCEPT ![s] = Routed(s, Head(commands[s]))]
  /\ UNCHANGED <<peers_sinks, mesh, accepting, command_loop, reader_vars,
                 writer_vars, notice_vars, socket_vars, history_vars>>

BugDeliverTwice(s) ==
  LET c == Head(outgoing[s]).sink IN
  /\ outgoing[s] # <<>>
  /\ ~SinkClosed(c)
  /\ SinkRoom(c)
  /\ sink' = [sink EXCEPT ![c] = Append(@, Head(outgoing[s]).packet)]
  /\ UNCHANGED <<service_vars, reader_vars, writer, writing, notice_vars, socket_vars,
                 history_vars>>

BugTrySend(s) ==
  LET c == Head(outgoing[s]).sink IN
  /\ outgoing[s] # <<>>
  /\ ~SinkClosed(c)
  /\ sink' = IF SinkRoom(c) THEN [sink EXCEPT ![c] = Append(@, Head(outgoing[s]).packet)]
             ELSE sink
  /\ outgoing' = [outgoing EXCEPT ![s] = <<>>]
  /\ UNCHANGED <<peers_sinks, mesh, accepting, commands, command_loop, reader_vars,
                 writer, writing, notice_vars, socket_vars, history_vars>>

LoopDeliver(s) ==
  LET c == Head(outgoing[s]).sink IN
  /\ outgoing[s] # <<>>
  /\ ~SinkClosed(c)
  /\ SinkRoom(c)
  /\ sink' = [sink EXCEPT ![c] = Append(@, Head(outgoing[s]).packet)]
  /\ outgoing' = [outgoing EXCEPT ![s] = <<>>]
  /\ UNCHANGED <<peers_sinks, mesh, accepting, commands, command_loop, reader_vars,
                 writer, writing, notice_vars, socket_vars, history_vars>>

(* sink.send(..).await? on a closed sink: the command loop returns. *)
LoopDies(s) ==
  /\ outgoing[s] # <<>>
  /\ SinkClosed(Head(outgoing[s]).sink)
  /\ command_loop' = [command_loop EXCEPT ![s] = "stopped"]
  /\ commands' = [commands EXCEPT ![s] = <<>>]
  /\ outgoing' = [outgoing EXCEPT ![s] = <<>>]
  /\ UNCHANGED <<peers_sinks, mesh, accepting, reader_vars, writer_vars, notice_vars,
                 socket_vars, history_vars>>

BugFloodNothing(s, members) == {}

BugFloodUnknown(s, members) == {k \in Keys : members[k] = None}

(* The keys that a new subscriber is told: all that have a route and are   *)
(* not members of the mesh, given the map of members after the insertion.  *)
CurrentPeers(s, members) ==
  {k \in Keys : peers_sinks[s][k] # None /\ members[k] = None}

(* Every subscription spawns a task of its own, also the second one on a   *)
(* connection.                                                             *)
OnceMore(notices, ks) == [k \in Keys |-> IF k \in ks THEN notices[k] + 1 ELSE notices[k]]

LoopSubscribe(s) ==
  LET command == Head(commands[s])
      members == [mesh[s] EXCEPT ![command.key] = command.sink]
  IN /\ LoopReceives(s, "Subscribe")
     /\ mesh' = [mesh EXCEPT ![s] = members]
     /\ flooding' = [flooding EXCEPT ![command.sink] = OnceMore(@, CurrentPeers(s, members))]
     /\ UNCHANGED <<peers_sinks, accepting, command_loop, outgoing, reader_vars,
                    writer_vars, announcing, socket_vars, history_vars>>

BugLastPresentWins(old, new) == new

(* Entry::Occupied is left alone. *)
FirstRoute(old, new) == IF old = None THEN new ELSE old

LoopPeerPresent(s) ==
  LET command == Head(commands[s]) IN
  /\ LoopReceives(s, "PeerPresent")
  /\ peers_sinks' = [peers_sinks EXCEPT ![s][command.key] = FirstRoute(@, command.sink)]
  /\ UNCHANGED <<mesh, accepting, command_loop, outgoing, reader_vars, writer_vars,
                 notice_vars, socket_vars, history_vars>>

-----------------------------------------------------------------------------
(* The spawned tasks.  A send to a closed sink fails and is logged. *)

Notify(w, k) ==
  /\ SinkClosed(w) \/ SinkRoom(w)
  /\ sink' = IF SinkClosed(w) THEN sink
             ELSE [sink EXCEPT ![w] = Append(@, PresentWrite(k))]

(* The task of notify_all_mesh_peers about c *)
AnnounceNext(c) ==
  /\ announcing[c] # <<>>
  /\ Notify(Head(announcing[c]), pk[c])
  /\ announcing' = [announcing EXCEPT ![c] = Tail(@)]
  /\ UNCHANGED <<service_vars, reader_vars, writer, writing, flooding, socket_vars,
                 history_vars>>

(* A task of notify_about_all_clients for w *)
FloodNext(w) ==
  \E k \in Flooded(w) :
    /\ Notify(w, k)
    /\ flooding' = [flooding EXCEPT ![w][k] = @ - 1]
    /\ UNCHANGED <<service_vars, reader_vars, writer, writing, announcing, socket_vars,
                   history_vars>>

-----------------------------------------------------------------------------
(* The programs outside, and the network. *)

FramesOf(r) ==
  LET payload == [from |-> r, n |-> Len(sent[r]) + 1] IN
  {f \in {SendPacket(t, payload) : t \in Targets}
           \cup {ForwardPacket(k, t, payload) : k \in Targets, t \in Targets}
           \cup {PeerPresent(k) : k \in Targets}
           \cup {Bare(ty) : ty \in {"WatchConns", "KeepAlive", "Malformed"}} :
     f.ty \in Behaviour[r]}

(* A Remote sends any frame that its Behaviour has, WatchConns again too. *)
RemoteSend(r) ==
  \E f \in FramesOf(r) :
    /\ reader[far[r]] = "running"
    /\ link[far[r]]
    /\ Len(sent[r]) < MaxFrames[r]
    /\ Len(net[far[r]]) < SocketCap
    /\ sent' = [sent EXCEPT ![r] = Append(@, f)]
    /\ net' = [net EXCEPT ![far[r]] = Append(@, f)]
    /\ UNCHANGED <<service_vars, reader_vars, writer_vars, notice_vars, link, received>>

RemoteRecv(r) ==
  /\ net[r] # <<>>
  /\ received' = [received EXCEPT ![r] = Append(@, Head(net[r]))]
  /\ net' = [net EXCEPT ![r] = Tail(@)]
  /\ UNCHANGED <<service_vars, reader_vars, writer_vars, notice_vars, link, sent>>

LinkDown(c) ==
  /\ c \in Fragile
  /\ link[c]
  /\ link' = [link EXCEPT ![c] = FALSE]
  /\ UNCHANGED <<service_vars, reader_vars, writer_vars, notice_vars, net, history_vars>>

-----------------------------------------------------------------------------
ServerStep(s) ==
  \/ StartAccepting(s)
  \/ LoopSendPacket(s) \/ LoopDeliver(s) \/ LoopDies(s)
  \/ LoopSubscribe(s) \/ LoopPeerPresent(s)

Next ==
  \/ \E s \in Servers : ServerStep(s)
  \/ \E c \in Outbound : MeshStart(c) \/ MeshStartFails(c) \/ MeshClientStep(c)
  \/ \E c \in Conns \ Outbound : AddNewClient(c) \/ RefuseClient(c) \/ ClientStep(c)
  \/ \E c \in Conns : AnnounceNext(c) \/ FloodNext(c) \/ LinkDown(c)
  \/ \E r \in Remotes : RemoteSend(r) \/ RemoteRecv(r)

Spec == Init /\ [][Next]_vars

=============================================================================
