------------------------------ MODULE DerpRoutes ------------------------------
(***************************************************************************)
(* The inductive invariant behind RouteBacked and PanicSelfInflicted: why  *)
(* a server came to route a key to a connection, followed back through the *)
(* containers in which announcements and packets travel.                   *)
(***************************************************************************)
EXTENDS DerpProperties

RoutedFrames(e) ==
  {f \in Frame : /\ f.ty = "PeerPresent" => Told(e, f.public_key)
                 /\ f.ty \in Data /\ far[e] \in Conns => Known(owner[far[e]], f.target)}

RoutedCommands(s) ==
  {m \in ServiceCommand : /\ m.cmd # "SendPacket" => owner[m.sink] = s
                          /\ m.cmd = "Subscribe" => m.key = pk[m.sink]
                          /\ m.cmd = "PeerPresent" => Told(m.sink, m.key)}

RoutedHeld(s) ==
  {h \in [sink : Conns, packet : Packet] : /\ owner[h.sink] = s
                                           /\ Reaches(h.sink, h.packet.target)
                                           /\ Known(s, h.packet.target)}

RoutedWrites(c) ==
  {m \in WriteLoopCommands :
     /\ m.cmd = "SendPacket" => Reaches(c, m.target) /\ Known(owner[c], m.target)
     /\ m.cmd = "PeerPresent" => Known(owner[c], m.key)}

CommandsRouted == \A s \in Servers : commands[s] \in Seq(RoutedCommands(s))
OutgoingRouted == \A s \in Servers : outgoing[s] \in Seq(RoutedHeld(s))
PendingRouted == \A c \in Conns : pending[c] \in Seq(RoutedCommands(owner[c]))
SinksRouted == \A c \in Conns : sink[c] \in Seq(RoutedWrites(c))
WritingRouted == \A c \in Conns : writing[c] \in Seq(RoutedFrames(far[c]))
NetRouted == \A e \in Ends : net[e] \in Seq(RoutedFrames(e))
MeshRouted ==
  \A s \in Servers : \A k \in Keys :
    mesh[s][k] # None => owner[mesh[s][k]] = s /\ pk[mesh[s][k]] = k
AnnouncingRouted ==
  \A c \in Conns : announcing[c] # <<>> =>
    /\ announcing[c] \in Seq({w \in Conns : owner[w] = owner[c]})
    /\ Known(owner[c], pk[c])
FloodingRouted == \A c \in Conns : \A k \in Flooded(c) : Known(owner[c], k)
PanicsExplained ==
  \A c \in Conns \ Outbound :
    writer[c] = "panicked" => ~can_mesh(c) /\ \E k \in Keys \ {pk[c]} : Told(c, k)

(***************************************************************************)
(* Wherever a key is announced, routed, or the target of a packet, it is   *)
(* one that the far end of the connection in question stands for: its own  *)
(* key, or one that it announced before.  A write loop panics over a       *)
(* packet only when its far end announced a key of somebody else.          *)
(* (command_loop, add_new_client, the read and write loops.)               *)
(***************************************************************************)
RouteInv ==
  /\ RouteBacked
  /\ CommandsRouted /\ OutgoingRouted /\ PendingRouted
  /\ SinksRouted /\ WritingRouted /\ NetRouted
  /\ MeshRouted /\ AnnouncingRouted /\ FloodingRouted
  /\ PanicsExplained

=============================================================================
