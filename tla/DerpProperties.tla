---------------------------- MODULE DerpProperties ----------------------------
(***************************************************************************)
(* What the relay promises, stated over the whole system.                  *)
(***************************************************************************)
EXTENDS DerpService

(* The key under which a Remote is known to the server it talks to. *)
KeyOf(r) == pk[far[r]]

Data == {"RecvPacket", "ForwardPacket"}

(* The frame in which the Remote that made up a payload sent it. *)
Original(payload) == sent[payload.from][payload.n]

(* The source that a packet has from its first hop on: a client cannot     *)
(* choose it, another server can.                                          *)
TrueSource(payload) ==
  IF Original(payload).ty = "SendPacket" THEN KeyOf(payload.from)
  ELSE Original(payload).source

(***************************************************************************)
(* A program receives, as a client, only packets that were addressed to    *)
(* its own key, and every packet reaches it with the target, and if        *)
(* forwarded with the source, that it was sent with.  The source of a      *)
(* client is the key of its connection.  (read_loop, command_loop and      *)
(* write_loop each rebuild the packet.)                                    *)
(***************************************************************************)
AuthenticDelivery ==
  \A r \in Remotes : \A i \in DOMAIN received[r] :
    LET f == received[r][i] IN
    f.ty \in Data =>
      /\ f.payload.n \in DOMAIN sent[f.payload.from]
      /\ f.target = Original(f.payload).target
      /\ f.ty = "RecvPacket" => f.target = KeyOf(r)
      /\ f.ty = "ForwardPacket" => f.source = TrueSource(f.payload)

(***************************************************************************)
(* Who is connected, and packets for others, are disclosed only to         *)
(* programs that presented the mesh key and to the mesh peers that the     *)
(* server connected to itself.  (WatchConns in read_loop, write_loop.)     *)
(***************************************************************************)
MeshOnly ==
  \A r \in Remotes : \A i \in DOMAIN received[r] :
    received[r][i].ty \in {"ForwardPacket", "PeerPresent"} =>
      far[r] \in Outbound \/ can_mesh(far[r])

(***************************************************************************)
(* The packets of one sender reach one receiver in the order in which they *)
(* were sent, and none reaches it twice, also when the receiver's key is   *)
(* taken over by another connection half-way.                              *)
(***************************************************************************)
InOrder ==
  \A r \in Remotes : \A i, j \in DOMAIN received[r] :
    LET f == received[r][i]
        g == received[r][j]
    IN i < j /\ f.ty \in Data /\ g.ty \in Data /\ f.payload.from = g.payload.from
         => f.payload.n < g.payload.n

(***************************************************************************)
(* The packets of one sender to one key reach one receiver in order, and   *)
(* none twice, also when they pass several servers on the way, and when    *)
(* routes change while they do.                                            *)
(***************************************************************************)
KeyInOrder ==
  \A r \in Remotes : \A i, j \in DOMAIN received[r] :
    LET f == received[r][i]
        g == received[r][j]
    IN (/\ i < j /\ f.ty \in Data /\ g.ty \in Data
        /\ f.payload.from = g.payload.from /\ f.target = g.target)
         => f.payload.n < g.payload.n

(* s has a route for k. *)
Known(s, k) == peers_sinks[s][k] # None

(* The far end of e, if it is a dersp server, has a route for k; otherwise *)
(* it announced k.                                                         *)
Told(e, k) ==
  IF far[e] \in Conns THEN Known(owner[far[e]], k)
  ELSE \E i \in DOMAIN sent[far[e]] : sent[far[e]][i] = PeerPresent(k)

(* There is a reason to send packets for k to c. *)
Reaches(c, k) == k = pk[c] \/ Told(c, k)

(***************************************************************************)
(* A route leads to a connection of the same server, and it leads there    *)
(* because the connection is that of the key itself, or because the far    *)
(* end announced the key; if that is a dersp server, it has a route for    *)
(* the key itself.  (add_new_client, PeerPresent in command_loop.)         *)
(***************************************************************************)
RouteBacked ==
  \A s \in Servers : \A k \in Keys :
    LET c == peers_sinks[s][k] IN
    c # None => owner[c] = s /\ Reaches(c, k)

(* A step leaves a route alone, sets it for the first time, or replaces it *)
(* by a connection of the very key that comes up in this step.             *)
RouteStep ==
  \A s \in Servers : \A k \in Keys :
    peers_sinks[s][k] \notin {None, peers_sinks'[s][k]} =>
      LET c == peers_sinks'[s][k] IN
      c # None /\ pk[c] = k /\ reader[c] = "none" /\ reader'[c] = "running"

(***************************************************************************)
(* A route, once there, is changed only by a new connection of the very    *)
(* key it is for: no announcement by a mesh peer takes traffic away from a *)
(* known client.                                                           *)
(***************************************************************************)
RouteKept == [][RouteStep]_vars

(* The clients that connected to s, if their connection is unbroken; one   *)
(* that s refuses is closed.                                               *)
LocalClients(s) == {c \in Conns \ Outbound : owner[c] = s /\ reader[c] # "none" /\ link[c]}

(* Their keys, mesh members excepted. *)
LocalKeys(s) == {pk[c] : c \in LocalClients(s)} \ {k \in Keys : mesh[s][k] # None}

Has(q, x) == \E i \in DOMAIN q : q[i] = x

(* The notice about k is on its way to the far end of w ... *)
NoticeUnderWay(w, k) ==
  \/ k \in Flooded(w)
  \/ \E c \in Conns : pk[c] = k /\ Has(announcing[c], w)
  \/ Has(sink[w], PresentWrite(k))
  \/ Has(writing[w], PeerPresent(k))
  \/ Has(net[far[w]], PeerPresent(k))

(* ... or has reached it. *)
NoticeArrived(w, k) == far[w] \in Remotes /\ Has(received[far[w]], PeerPresent(k))

(* The far end of w is a program outside that can still be told. *)
Listening(w) == far[w] \in Remotes /\ link[w] /\ writer[w] \notin Over

(***************************************************************************)
(* No client falls between the snapshot that a new mesh member is sent and *)
(* the announcements it gets afterwards: at any time each member, as long  *)
(* as its connection works, has been told of every client of the server,   *)
(* or a notice is under way.  (This rests on the write lock that           *)
(* SubscribeForPeerChanges holds over insertion and snapshot, and on       *)
(* DerpService::new returning before the first client is accepted.)        *)
(***************************************************************************)
NoClientMissed ==
  \A s \in Servers : \A w \in MeshSinks(s) : \A k \in LocalKeys(s) :
    Listening(w) => NoticeUnderWay(w, k) \/ NoticeArrived(w, k)

(* What is true of a connection, and of its server, by the time it is up. *)
Arrivals ==
  /\ \A s \in Servers : accepting[s] => MeshPeersDone(s)
  /\ \A c \in Conns \ Outbound : reader[c] # "none" => accepting[owner[c]]
  /\ \A c \in Conns \ Outbound : reader[c] # "none" /\ link[c] => Known(owner[c], pk[c])
  /\ \A c \in Conns : reader[c] = "none" => announcing[c] = <<>>
  /\ \A c \in Conns : reader[c] \in {"none", "starting"} => writer[c] = reader[c]
  /\ \A c \in Conns : Len(writing[c]) <= 1
  /\ \A c \in Conns : writing[c] # <<>> => writer[c] = "running"
  /\ \A c \in Conns : pending[c] # <<>> => reader[c] = "running"

(***************************************************************************)
(* NoClientMissed with what makes it inductive: a connection is accepted   *)
(* only when all mesh peers were tried, and is routed when it is accepted. *)
(* (add_new_client, the order of the steps in main and new.)               *)
(***************************************************************************)
NoticeInv == Arrivals /\ NoClientMissed

(***************************************************************************)
(* The write loop of a client without the mesh key panics only through     *)
(* what that client did itself: it announced a key that is not its own.    *)
(***************************************************************************)
PanicSelfInflicted ==
  \A c \in Conns \ Outbound :
    far[c] \in Remotes /\ writer[c] = "panicked" =>
      /\ ~can_mesh(c)
      /\ \E i \in DOMAIN sent[far[c]] :
           sent[far[c]][i].ty = "PeerPresent" /\ sent[far[c]][i].public_key # pk[c]

-----------------------------------------------------------------------------
(* What comments and assertions of the code say and the code does not do.  *)

(***************************************************************************)
(* RecvPacket is "v2: 32B src pub key + packet bytes": the key in the      *)
(* frame that a client receives is that of the sender.                     *)
(***************************************************************************)
RecvNamesSource ==
  \A r \in Remotes : \A i \in DOMAIN received[r] :
    LET f == received[r][i] IN
    f.ty = "RecvPacket" => f.target = TrueSource(f.payload)

(***************************************************************************)
(* The unwrap() on sending a PeerPresent command: the command loop runs as *)
(* long as there are read loops.                                           *)
(***************************************************************************)
UnwrapHolds ==
  \A c \in Conns :
    pending[c] # <<>> /\ Head(pending[c]).cmd = "PeerPresent"
      => command_loop[owner[c]] = "running"

-----------------------------------------------------------------------------
(***************************************************************************)
(* Fairness.  A tokio task that can run is eventually run, and the senders *)
(* that wait for a place in a bounded channel are served first come, first *)
(* served: strong fairness for every send.  The programs outside read what *)
(* they are sent, but nothing makes them send.                             *)
(***************************************************************************)
ReaderTask(c) ==
  \/ ReadSendPacket(c) \/ ReadWatchConns(c) \/ ReadPeerPresent(c) \/ ReadUnhandled(c)
  \/ ReadMalformed(c)

WriterTask(c) ==
  RecvWrite(c) \/ RecvUnwritable(c) \/ WriteFrame(c) \/ WriteFails(c) \/ RecvNone(c)

LoopTask(s) ==
  LoopSendPacket(s) \/ LoopSubscribe(s) \/ LoopPeerPresent(s) \/ LoopDies(s)

Fairness ==
  /\ \A s \in Servers : /\ WF_vars(StartAccepting(s))
                        /\ WF_vars(LoopTask(s))
                        /\ SF_vars(LoopDeliver(s))
  /\ \A c \in Conns \ Outbound : /\ WF_vars(AddNewClient(c))
                                 /\ WF_vars(ReaderTask(c))
                                 /\ WF_vars(WriterTask(c))
  /\ \A c \in Conns : /\ SF_vars(SendCommand(c))
                      /\ SF_vars(AnnounceNext(c))
                      /\ SF_vars(FloodNext(c))
  /\ \A r \in Remotes : WF_vars(RemoteRecv(r))

FairSpec == Spec /\ Fairness

(* The packet r sent as its n-th frame waits to be routed by its server. *)
Unrouted(r, n) ==
  LET c == far[r]
      Is(p) == p.payload = [from |-> r, n |-> n]
  IN \/ \E i \in DOMAIN net[c] : net[c][i].ty = "SendPacket" /\ Is(net[c][i])
     \/ \E i \in DOMAIN pending[c] : pending[c][i].cmd = "SendPacket" /\ Is(pending[c][i])
     \/ \E i \in DOMAIN commands[owner[c]] :
          commands[owner[c]][i].cmd = "SendPacket" /\ Is(commands[owner[c]][i])

Got(r, from, n) ==
  \E i \in DOMAIN received[r] :
    received[r][i].ty = "RecvPacket" /\ received[r][i].payload = [from |-> from, n |-> n]

(***************************************************************************)
(* Where no connection breaks, a packet whose target has a route when the  *)
(* command loop has yet to take it reaches a program of that key, however  *)
(* full the channels on its way are.                                       *)
(***************************************************************************)
EventuallyDelivered ==
  \A r \in Remotes : \A n \in 1..MaxFrames[r] : \A k \in Targets :
    (/\ Unrouted(r, n)
     /\ sent[r][n].target = k
     /\ peers_sinks[owner[far[r]]][k] # None)
      ~> \E q \in Remotes : KeyOf(q) = k /\ Got(q, r, n)

(***************************************************************************)
(* Where no connection breaks, every mesh member is eventually told of     *)
(* every client.                                                           *)
(***************************************************************************)
EventuallyTold ==
  \A w \in Conns : \A k \in Keys :
    (far[w] \in Remotes /\ w \in MeshSinks(owner[w]) /\ k \in LocalKeys(owner[w]))
      ~> (NoticeArrived(w, k) \/ k \notin LocalKeys(owner[w]))

=============================================================================
