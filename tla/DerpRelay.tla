------------------------------ MODULE DerpRelay ------------------------------
(***************************************************************************)
(* What a mesh of dersp servers promises to the programs that connect to   *)
(* it, without servers, channels, tasks or sockets: a relay that takes     *)
(* frames and hands some of them on.  It may lose packets, but does not    *)
(* make them up, alter, duplicate, reorder or misdirect them, and tells    *)
(* only members of the mesh which keys it knows.                           *)
(***************************************************************************)
EXTENDS Naturals, Sequences

CONSTANTS
  Programs,  \* the programs that connect
  Keys,      \* their public keys
  key,       \* the key of each program
  Members,   \* the programs that are members of the mesh
  Frame      \* all frames

VARIABLES
  sent,      \* the frames that each program sent
  received,  \* the frames that each program received
  known      \* the keys that the relay has heard of

vars == <<sent, received, known>>

Init ==
  /\ sent = [r \in Programs |-> <<>>]
  /\ received = [r \in Programs |-> <<>>]
  /\ known = {}

(* What a step that adds to the frames h of r adds. *)
Newest(h, r) == h[r][Len(h[r])]

(* Program r hands over a frame. *)
Submit(r) ==
  /\ Len(sent'[r]) = Len(sent[r]) + 1
  /\ LET f == Newest(sent', r) IN
     /\ f \in Frame
     /\ sent' = [sent EXCEPT ![r] = Append(@, f)]
  /\ UNCHANGED <<received, known>>

(* A client connects, or a key is announced. *)
Learn(k) ==
  /\ known' = known \cup {k}
  /\ UNCHANGED <<sent, received>>

IsPacket(f) == f.ty \in {"RecvPacket", "ForwardPacket"}

(* The packet is one that was sent, to this target; if it is forwarded it  *)
(* also names its source, which only another server of the mesh states.    *)
Authentic(f) ==
  LET p == f.payload
      original == sent[p.from][p.n]
  IN /\ p.n \in DOMAIN sent[p.from]
     /\ original.target = f.target
     /\ f.ty = "ForwardPacket" =>
          f.source = IF original.ty = "SendPacket" THEN key[p.from] ELSE original.source

(* No later packet of the same sender to the same key was received before. *)
InSequence(r, f) ==
  \A i \in DOMAIN received[r] :
    LET g == received[r][i] IN
    IsPacket(g) /\ g.payload.from = f.payload.from /\ g.target = f.target
      => g.payload.n < f.payload.n

(* The relay hands a frame to r. *)
Deliver(r) ==
  /\ Len(received'[r]) = Len(received[r]) + 1
  /\ LET f == Newest(received', r) IN
     /\ f \in Frame
     /\ IsPacket(f) => Authentic(f) /\ InSequence(r, f) /\ f.target \in known
     /\ f.ty = "RecvPacket" => f.target = key[r]
     /\ f.ty \in {"ForwardPacket", "PeerPresent"} => r \in Members
     /\ f.ty = "PeerPresent" => f.public_key \in known
     /\ received' = [received EXCEPT ![r] = Append(@, f)]
  /\ UNCHANGED <<sent, known>>

Next ==
  \/ \E r \in Programs : Submit(r) \/ Deliver(r)
  \/ \E k \in Keys : Learn(k)

Spec == Init /\ [][Next]_vars

=============================================================================
