----------------------------- MODULE DerpStartup -----------------------------
(***************************************************************************)
(* How the servers of a mesh come up: main binds the listening socket,     *)
(* DerpService::new connects to the configured mesh peers one after the    *)
(* other and waits for the key of each, and only when it has returned does *)
(* the accept loop answer the connections that others have opened in the   *)
(* meantime.                                                               *)
(***************************************************************************)
EXTENDS Naturals, Sequences

CONSTANTS
  Servers,     \* the processes, named by the address they listen on
  Unresolved,  \* a host name that lookup_host does not find
  mesh_peers,  \* Config::mesh_peers of each server
  has_meshkey, \* whether Config::meshkey of a server is set
  Breaks,      \* whether a handshake with a server that accepts may fail
  MaxBoots,    \* how often a server is started at most
  MaxExits     \* how often a process ends at most, over all servers

ASSUME StartupAssumption ==
  /\ Unresolved \notin Servers
  /\ mesh_peers \in [Servers -> Seq(Servers \cup {Unresolved})]
  /\ has_meshkey \in [Servers -> BOOLEAN] /\ Breaks \in BOOLEAN
  /\ MaxBoots \in Nat
  /\ MaxExits \in Nat

VARIABLES
  phase,   \* what the main task of a server is doing
  at,      \* the mesh peer that DerpService::new has come to
  meshed,  \* the mesh peers that answered and are still there
  clock,   \* history: how many accept loops have started
  stamp,   \* history: the clock when the accept loop of a server started
  boots,   \* how often a server was started
  exits    \* how many processes have ended

vars == <<phase, at, meshed, clock, stamp, boots, exits>>

(* "connecting": about to connect to mesh peer number at.  "waiting": the  *)
(* kernel of the peer has taken the connection and the HTTP request waits  *)
(* to be answered.  "greeted": the HTTP response came, the server key is   *)
(* to follow.  "spinning": the stream ended instead, which                 *)
(* get_next_message does not notice.                                       *)
Phase == {"down", "connecting", "waiting", "greeted", "spinning", "accepting"}

TypeOK ==
  /\ phase \in [Servers -> Phase]
  /\ at \in [Servers -> Nat]
  /\ meshed \in [Servers -> SUBSET Servers]
  /\ clock \in Nat
  /\ stamp \in [Servers -> Nat]
  /\ boots \in [Servers -> Nat]
  /\ exits \in Nat

Init ==
  /\ phase = [s \in Servers |-> "down"]
  /\ at = [s \in Servers |-> 1]
  /\ meshed = [s \in Servers |-> {}]
  /\ clock = 0
  /\ stamp = [s \in Servers |-> 0]
  /\ boots = [s \in Servers |-> 0]
  /\ exits = 0

Peer(s) == mesh_peers[s][at[s]]

(* main: TcpListener::bind.  From now on a connect to s succeeds. *)
Boot(s) ==
  /\ phase[s] = "down"
  /\ boots[s] < MaxBoots
  /\ boots' = [boots EXCEPT ![s] = @ + 1]
  /\ phase' = [phase EXCEPT ![s] = "connecting"]
  /\ at' = [at EXCEPT ![s] = 1]
  /\ UNCHANGED <<meshed, clock, stamp, exits>>

(* The loop over mesh_peers in new; there is none without a mesh key. *)
Trying(s) == phase[s] = "connecting" /\ has_meshkey[s] /\ at[s] \in DOMAIN mesh_peers[s]

(* TcpStream::connect is served by the kernel as soon as the peer is bound. *)
Connect(s) ==
  /\ Trying(s)
  /\ Peer(s) # Unresolved
  /\ phase[Peer(s)] # "down"
  /\ phase' = [phase EXCEPT ![s] = "waiting"]
  /\ UNCHANGED <<at, meshed, clock, stamp, boots, exits>>

BugRetry(s) ==
  /\ Trying(s)
  /\ Peer(s) # Unresolved
  /\ phase[Peer(s)] = "down"
  /\ UNCHANGED vars

(* Connection refused: a warning, and on to the next peer. *)
Refused(s) ==
  /\ Trying(s)
  /\ Peer(s) # Unresolved
  /\ phase[Peer(s)] = "down"
  /\ at' = [at EXCEPT ![s] = @ + 1]
  /\ UNCHANGED <<phase, meshed, clock, stamp, boots, exits>>

BugAnswerWhenBound(p) == phase[p] # "down"

(* Only the accept loop of a peer spawns handle_client. *)
Answers(p) == phase[p] = "accepting"

(* The peer accepts, and finalize_http_phase writes the HTTP response. *)
Greeted(s) ==
  /\ phase[s] = "waiting"
  /\ Answers(Peer(s))
  /\ phase' = [phase EXCEPT ![s] = "greeted"]
  /\ UNCHANGED <<at, meshed, clock, stamp, boots, exits>>

(* The request or the response is cut by a read, or the connection breaks: *)
(* connect_http or exchange_keys returns an error, the sender of the key   *)
(* is dropped, and new warns and goes on to the next peer.                 *)
HandshakeFails(s) ==
  /\ Breaks
  /\ phase[s] \in {"waiting", "greeted"}
  /\ Answers(Peer(s))
  /\ phase' = [phase EXCEPT ![s] = "connecting"]
  /\ at' = [at EXCEPT ![s] = @ + 1]
  /\ UNCHANGED <<meshed, clock, stamp, boots, exits>>

(* write_server_key in the peer, exchange_keys in s, and mesh.insert *)
Meshed(s) ==
  /\ phase[s] = "greeted"
  /\ phase' = [phase EXCEPT ![s] = "connecting"]
  /\ meshed' = [meshed EXCEPT ![s] = @ \cup {Peer(s)}]
  /\ at' = [at EXCEPT ![s] = @ + 1]
  /\ UNCHANGED <<clock, stamp, boots, exits>>

(* new has returned; main enters the accept loop. *)
Serve(s) ==
  /\ phase[s] = "connecting"
  /\ has_meshkey[s] => at[s] \notin DOMAIN mesh_peers[s]
  /\ phase' = [phase EXCEPT ![s] = "accepting"]
  /\ clock' = clock + 1
  /\ stamp' = [stamp EXCEPT ![s] = clock]
  /\ UNCHANGED <<at, meshed, boots, exits>>

(* The process s ends, and the kernel closes its sockets.  To a peer that  *)
(* waits for the HTTP response this is an error, and it goes on to the     *)
(* next mesh peer; one that waits for the server key gets an error or, if  *)
(* the stream just ends, spins.                                            *)
Ends(s, spinning) ==
  LET dropped == {t \in Servers \ {s} : phase[t] \in {"waiting", "greeted"} /\ Peer(t) = s}
  IN /\ spinning \subseteq {t \in dropped : phase[t] = "greeted"}
     /\ phase' = [t \in Servers |-> IF t = s THEN "down"
                                    ELSE IF t \in spinning THEN "spinning"
                                    ELSE IF t \in dropped THEN "connecting"
                                    ELSE phase[t]]
     /\ at' = [t \in Servers |-> IF t \in dropped \ spinning THEN at[t] + 1 ELSE at[t]]
     /\ meshed' = [t \in Servers |-> IF t = s THEN {} ELSE meshed[t] \ {s}]
     /\ UNCHANGED <<clock, stamp, boots>>

(* lookup_host fails: new returns the error, and so does main. *)
LookupFails(s) ==
  /\ Trying(s)
  /\ Peer(s) = Unresolved
  /\ \E spinning \in SUBSET Servers : Ends(s, spinning)
  /\ UNCHANGED exits

(* The process is stopped from outside. *)
Exit(s) ==
  /\ phase[s] # "down"
  /\ exits < MaxExits
  /\ \E spinning \in SUBSET Servers : Ends(s, spinning)
  /\ exits' = exits + 1

Step(s) ==
  \/ Connect(s) \/ Refused(s) \/ LookupFails(s)
  \/ Greeted(s) \/ HandshakeFails(s) \/ Meshed(s)
  \/ Serve(s)

Next == \E s \in Servers : Boot(s) \/ Step(s) \/ Exit(s)

Spec == Init /\ [][Next]_vars

(* Every task of a live process is eventually run; nothing makes an        *)
(* operator start a server.                                                *)
FairSpec == Spec /\ \A s \in Servers : WF_vars(Step(s))

-----------------------------------------------------------------------------
(***************************************************************************)
(* The mesh connections never form a cycle: every non-empty set of servers *)
(* has a member that holds no mesh connection into the set.  A server      *)
(* forwards packets only to servers that have connected to it (the write   *)
(* loop of a MeshClient knows no packets), so a forwarded packet never     *)
(* comes back to a server.                                                 *)
(***************************************************************************)
NoMeshCycle ==
  \A S \in SUBSET Servers : S # {} => \E a \in S : meshed[a] \cap S = {}

(***************************************************************************)
(* The reason for it: a mesh connection leads to a server whose accept     *)
(* loop runs, and whose accept loop was started before one's own.          *)
(***************************************************************************)
MeshedInOrder ==
  \A a \in Servers : \A b \in meshed[a] :
    /\ phase[a] # "down"
    /\ phase[b] = "accepting"
    /\ phase[a] = "accepting" => stamp[b] < stamp[a]

(* The servers that s waits for when it starts. *)
Uses(s) ==
  IF has_meshkey[s] THEN {mesh_peers[s][i] : i \in DOMAIN mesh_peers[s]} \cap Servers
  ELSE {}

(* No chain of lists that starts at s leads back to a server on it: s is   *)
(* in a set of servers that use only each other, and without a cycle.      *)
Grounded(s) ==
  \E G \in SUBSET Servers :
    /\ s \in G
    /\ \A t \in G : Uses(t) \subseteq G
    /\ \A S \in SUBSET G : S # {} => \E t \in S : Uses(t) \cap S = {}

(***************************************************************************)
(* Whatever other servers do, and whichever of its peers stop and start    *)
(* again meanwhile, a server that does not wait for itself comes to accept *)
(* connections, or ends, unless a server spins on a stream that has ended. *)
(* So it does when handshakes fail: new goes on to the next peer.          *)
(* (The order of connecting and accepting in new and main.)                *)
(***************************************************************************)
EventuallyServes ==
  \A s \in Servers : Grounded(s) =>
    (phase[s] = "connecting" ~> (\/ phase[s] \in {"accepting", "down"}
                                 \/ \E t \in Servers : phase[t] = "spinning"))

(***************************************************************************)
(* "List of other derp servers with which we should create a mesh": of two *)
(* servers that both run and of which one lists the other, one eventually  *)
(* holds a mesh connection to the other.                                   *)
(***************************************************************************)
MeshCreated ==
  \A a, b \in Servers :
    (/\ phase[a] # "down" /\ phase[b] # "down"
     /\ \E i \in DOMAIN mesh_peers[a] : mesh_peers[a][i] = b)
      ~> (b \in meshed[a] \/ a \in meshed[b])

=============================================================================
