------------------------------ MODULE DerpOrder ------------------------------
(***************************************************************************)
(* The inductive invariant behind InOrder and KeyInOrder, and the relay as *)
(* an implementation of the abstract one of DerpRelay.                     *)
(*                                                                         *)
(* Packets travel over a link between two servers in one direction only,   *)
(* from the server that accepted it to the one that opened it, and a link  *)
(* is opened to a server that already accepts connections by one that does *)
(* not yet: packets travel from servers that started earlier to servers    *)
(* that started later.  On the way a packet waits at places: at a          *)
(* connection through which it is to enter a server, then at that server,  *)
(* then at the connection at the other end of its route, and so on.        *)
(***************************************************************************)
EXTENDS DerpInvariant, DerpRoutes

FramePackets(q) ==
  {q[i].payload : i \in {j \in DOMAIN q : q[j].ty \in Data \cup {"SendPacket"}}}
CommandPackets(q) == {q[i].payload : i \in {j \in DOMAIN q : q[j].cmd = "SendPacket"}}
HeldPackets(q, c) == {q[i].packet.payload : i \in {j \in DOMAIN q : q[j].sink = c}}

(* The key that a packet is for, given the frames h that were sent *)
TargetIn(h, p) == h[p.from][p.n].target
Target(p) == TargetIn(sent, p)

(* No connection leads to another dersp server. *)
Unlinked == \A c \in Conns : far[c] \in Remotes

(* The packets whose order matters: those of one sender to one key, and    *)
(* all those of one sender where there is only one server to pass.         *)
Same(h, x, y) == x.from = y.from /\ (TargetIn(h, x) = TargetIn(h, y) \/ Unlinked)

Precedes(h, A, B) == \A x \in A, y \in B : Same(h, x, y) => x.n < y.n

-----------------------------------------------------------------------------
(* Places *)

(* Packets for k that are routed to c enter the dersp server at its other  *)
(* end.  Those for pk[c] itself do not: they are written as RecvPacket.    *)
Link(c, k) ==
  /\ c \in Conns \ Outbound
  /\ far[c] \in Conns
  /\ pk[c] # k
  /\ ~Closed(far[c])

(* A packet on its way to the end e passes five stages, from the command   *)
(* loop that routed it to the program or the read loop that takes it.      *)
Stages == 1..5

OnTheWay(e, i) ==
  CASE i = 1 -> IF e \in Remotes THEN FramePackets(received[e]) ELSE CommandPackets(pending[e])
    [] i = 2 -> FramePackets(net[e])
    [] i = 3 -> IF far[e] \in Conns THEN FramePackets(writing[far[e]]) ELSE {}
    [] i = 4 -> IF far[e] \in Conns THEN CommandPackets(sink[far[e]]) ELSE {}
    [] i = 5 -> IF far[e] \in Conns THEN HeldPackets(outgoing[owner[far[e]]], far[e]) ELSE {}

(* Where e is one end of a link, not all of them enter the server there. *)
Enters(e, p) == e \in Conns /\ far[e] \in Conns => Link(far[e], Target(p))

Stage(e, i) == {p \in OnTheWay(e, i) : Enters(e, p)}

Bound(e) == UNION {Stage(e, i) : i \in Stages}

Places == Conns \cup Servers

Waiting(l) == IF l \in Servers THEN CommandPackets(commands[l]) ELSE Bound(l)

ServerOf(l) == IF l \in Servers THEN l ELSE owner[l]

(* Where packets for k go from s: on to another server, or to a client. *)
Onward(s, k) == Link(peers_sinks[s][k], k)
Final(s, k) == Known(s, k) /\ ~Onward(s, k)

(* S has, with each place, the one where packets for k go from there. *)
Tracks(S, k) ==
  /\ \A c \in S \cap Conns : owner[c] \in S
  /\ \A s \in S \cap Servers : Onward(s, k) => far[peers_sinks[s][k]] \in S

(* From m packets for k get to l, or else to a server that used to send    *)
(* them further, but now has a client of that key.                         *)
Leads(before, m, l, k) ==
  \A S \in SUBSET Places :
    m \in S /\ Tracks(S, k) =>
      l \in S \/ \E s \in S \cap Servers : Final(s, k) /\ <<s, ServerOf(l)>> \in before

-----------------------------------------------------------------------------
(* What makes packets travel in one direction *)

Awake(c) == reader[c] # "none"

AwakeCommands == {m \in ServiceCommand : m.cmd # "SendPacket" => Awake(m.sink)}

(* What travels over a link from its end c: the server that opened it      *)
(* writes no packets, and the one that accepted it forwards none that is   *)
(* for the other server itself.                                            *)
LinkFrames(c) ==
  {f \in Frame : /\ f.ty # "SendPacket"
                 /\ c \in Outbound => f.ty \notin Data
                 /\ f.ty = "ForwardPacket" => f.target # pk[c]}

LinkCommands(c) ==
  {m \in ServiceCommand : m.cmd = "SendPacket" => c \notin Outbound /\ m.target # pk[c]}

(* The channels and the tasks hold one element at most, and refer only to  *)
(* connections that are up.                                                *)
CommandsHold == \A s \in Servers : Len(commands[s]) <= 1 /\ commands[s] \in Seq(AwakeCommands)
OutgoingHold == \A s \in Servers : Len(outgoing[s]) <= 1
PendingHold ==
  \A c \in Conns : /\ Len(pending[c]) <= 1 /\ pending[c] \in Seq(AwakeCommands)
                   /\ pending[c] # <<>> => reader[c] = "running"
                   /\ far[c] \in Conns => pending[c] \in Seq(LinkCommands(far[c]))
SinksHold == \A c \in Conns : Len(sink[c]) <= 1
WritingHold ==
  \A c \in Conns : /\ Len(writing[c]) <= 1
                   /\ far[c] \in Conns => writing[c] \in Seq(LinkFrames(c))
NetHolds == \A c \in Conns : far[c] \in Conns => net[c] \in Seq(LinkFrames(far[c]))

(* No server accepts connections before it tried its mesh peers; a link    *)
(* is up at the end that opened it first; routes lead to what is up.       *)
PeersTried == \A s \in Servers : accepting[s] => MeshPeersDone(s)
OpenersAwake == \A c \in Conns \ Outbound : far[c] \in Conns /\ Awake(c) => Awake(far[c])
RoutesAwake == \A s \in Servers : \A k \in Keys : Known(s, k) => Awake(peers_sinks[s][k])

ChannelInv ==
  /\ CommandsHold /\ OutgoingHold /\ PendingHold
  /\ SinksHold /\ WritingHold /\ NetHolds
  /\ PeersTried /\ OpenersAwake /\ RoutesAwake

(* An order in which the servers started: links lead back in it. *)
Started(before) ==
  /\ \A s \in Servers : <<s, s>> \notin before
  /\ \A s, t, u \in Servers : <<s, t>> \in before /\ <<t, u>> \in before => <<s, u>> \in before
  /\ \A s, t \in Servers : <<s, t>> \in before => accepting[s]
  /\ \A s, t \in Servers : accepting[s] /\ ~accepting[t] => <<s, t>> \in before
  /\ \A c \in Outbound :
       far[c] \in Conns /\ Awake(c) => <<owner[far[c]], owner[c]>> \in before \/ Closed(c)

-----------------------------------------------------------------------------
(* A later stage holds earlier packets. *)
StagesOrdered ==
  \A e \in Ends : \A i, j \in Stages : i < j => Precedes(sent, Stage(e, i), Stage(e, j))

(* So does the front of a socket. *)
Sorted(h, q, P) ==
  \A i, j \in DOMAIN q :
    (/\ i < j
     /\ q[i].ty \in Data \cup {"SendPacket"} /\ q[j].ty \in Data \cup {"SendPacket"}
     /\ q[i].payload \in P /\ q[j].payload \in P
     /\ Same(h, q[i].payload, q[j].payload)) => q[i].payload.n < q[j].payload.n

SocketsSorted ==
  /\ \A e \in Ends : Sorted(sent, net[e], Stage(e, 2))
  /\ \A r \in Remotes : Sorted(sent, received[r], Stage(r, 1))

(* Every packet is on the way from its sender's connection ... *)
FromHome(before) ==
  \A l \in Places : \A x \in Waiting(l) : \A k \in Keys :
    k = Target(x) \/ Unlinked => Leads(before, far[x.from], l, k)

(* ... and on the way that the packets sent after it are to take. *)
Followed(before) ==
  \A l, m \in Places : \A x \in Waiting(l), y \in Waiting(m) :
    Same(sent, x, y) /\ x.n <= y.n => Leads(before, m, l, Target(y))

(* Those that were sent before a packet that is on its way to a program    *)
(* are there too, or went past its server.                                 *)
Passed(before) ==
  \A r \in Remotes : \A y \in Bound(r) : \A l \in Places : \A x \in Waiting(l) :
    Same(sent, x, y) /\ x.n <= y.n => <<owner[far[r]], ServerOf(l)>> \in before

Paths(before) == FromHome(before) /\ Followed(before) /\ Passed(before)

(***************************************************************************)
(* Packets of one sender to one key keep their order in and between all    *)
(* the sockets, channels and tasks of all the servers that they pass on    *)
(* the way to one receiver, however the servers are linked and however     *)
(* routes change meanwhile.  (read_loop, command_loop, write_loop of both  *)
(* kinds of connection, and the order of the steps in main and new.)       *)
(***************************************************************************)
OrderInv ==
  /\ ChannelInv /\ StagesOrdered /\ SocketsSorted
  /\ \E before \in SUBSET (Servers \X Servers) : Started(before) /\ Paths(before)

-----------------------------------------------------------------------------
(* The keys that some server has a route for *)
KnownKeys == {k \in Keys : \E s \in Servers : Known(s, k)}

Relay == INSTANCE DerpRelay WITH
  Programs <- Remotes,
  key <- [r \in Remotes |-> KeyOf(r)],
  Members <- {r \in Remotes : far[r] \in Meshers},
  known <- KnownKeys

RelayInit == Relay!Init
RelayNext == [Relay!Next]_(Relay!vars)

(***************************************************************************)
(* The servers, seen from the programs that connect to them, are the       *)
(* abstract relay: it neither makes up, alters, duplicates, reorders nor   *)
(* misdirects packets, and delivers only for keys that it has heard of.    *)
(***************************************************************************)
ImplementsRelay == RelayInit /\ [][RelayNext]_vars

=============================================================================
