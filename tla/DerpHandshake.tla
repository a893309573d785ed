---------------------------- MODULE DerpHandshake ----------------------------
(***************************************************************************)
(* The handshake between the MeshClient of one server (the client here)    *)
(* and handle_client of another: proto/mod.rs, connect_http and run, and   *)
(* the decision of add_new_client, which comes when the client has been    *)
(* told that the handshake is over.                                        *)
(*                                                                         *)
(* Each message has several parts, so that a read may return a part of a   *)
(* message, one message, or the end of one and the start of the next.      *)
(***************************************************************************)
EXTENDS Naturals, Sequences

CONSTANTS
  Pieces,     \* parts of a message
  Fragments,  \* the messages within which a read may end
  MaxFrames,  \* frames that each end writes after the handshake
  MeshKeys,   \* mesh keys that servers are configured with
  None        \* no mesh key, or to a server one that is empty

Messages == {"http_request", "http_response", "server_key", "client_info",
             "server_info", "frame"}

ASSUME HandshakeAssumption ==
  Pieces \in Nat \ {0} /\ Fragments \subseteq Messages /\ MaxFrames \in Nat

VARIABLES
  server,   \* what handle_client, or later the read loop, is waiting for
  client,   \* what MeshClient::run is waiting for
  up,       \* bytes on the way to the server
  down,     \* bytes on the way to the client
  buffer,   \* bytes in the DerpReader of the client
  inbox,    \* bytes that the read loop of the server has got
  taken,    \* number of frames that the read loop of the client has got
  written,  \* history: number of frames that each end has written
  cut,      \* history: one of the single reads, or the single write, was short
  meshkey   \* the mesh key of the server, and the one that the client offers

handshake_vars == <<server, client, up, down, buffer, inbox, taken, written, cut, meshkey>>

Message(m) == [i \in 1..Pieces |-> [msg |-> m, part |-> i]]

(* connect_http has written the request. *)
HandshakeInit ==
  /\ server = "http_request" /\ client = "http_response"
  /\ up = Message("http_request") /\ down = <<>>
  /\ buffer = <<>> /\ inbox = <<>> /\ taken = 0
  /\ written = [server |-> 0, client |-> 0] /\ cut = FALSE
  /\ meshkey \in [server : MeshKeys \cup {None}, client : MeshKeys \cup {None}]

(* How many parts one read of the stream q may return. *)
ReadSizes(q) == {n \in 1..Len(q) : q[n].part = Pieces \/ q[n].msg \in Fragments}

BugExact(q, m) == q = Message(m)

StartsWith(q, m) == Len(q) >= Pieces /\ SubSeq(q, 1, Pieces) = Message(m)
Rest(q, n) == SubSeq(q, n + 1, Len(q))

-----------------------------------------------------------------------------
(* handle_handshake in the server.  Both steps read once into a buffer of  *)
(* their own, and what follows the message in that buffer is dropped.      *)

(* finalize_http_phase and write_server_key.  The response is written with *)
(* one write, and the count that it returns is not looked at.              *)
FinalizeHttpPhase ==
  /\ server = "http_request"
  /\ \E n \in ReadSizes(up), k \in 1..Pieces :
       /\ up' = Rest(up, n)
       /\ IF StartsWith(SubSeq(up, 1, n), "http_request")
          THEN /\ down' = down \o SubSeq(Message("http_response"), 1, k) \o Message("server_key")
               /\ cut' = (cut \/ k < Pieces)
               /\ server' = "client_info"
          ELSE server' = "failed" /\ cut' = (cut \/ n < Pieces) /\ UNCHANGED down
  /\ UNCHANGED <<client, buffer, inbox, taken, written, meshkey>>

(* read_client_info and write_server_info, before anybody has looked at    *)
(* the mesh key.  A client info that is cut off is padded with zeros, and  *)
(* then does not decrypt.                                                  *)
ReadClientInfo ==
  /\ server = "client_info"
  /\ \E n \in ReadSizes(up) :
       /\ up' = Rest(up, n)
       /\ cut' = (cut \/ n < Pieces)
       /\ IF StartsWith(SubSeq(up, 1, n), "client_info")
          THEN down' = down \o Message("server_info") /\ server' = "adding"
          ELSE server' = "failed" /\ UNCHANGED down
  /\ UNCHANGED <<client, buffer, inbox, taken, written, meshkey>>

(* The match on the mesh keys: who offers none is a client like any other. *)
Admitted == meshkey.client \in {None, meshkey.server}

BugAdmitAll ==
  /\ server = "adding"
  /\ server' = "serving"
  /\ UNCHANGED <<client, up, down, buffer, inbox, taken, written, cut, meshkey>>

(* add_new_client starts the loops of the client, or drops the socket. *)
AddNewClient ==
  /\ server = "adding"
  /\ server' = IF Admitted THEN "serving" ELSE "refused"
  /\ UNCHANGED <<client, up, down, buffer, inbox, taken, written, cut, meshkey>>

(* Bytes that nobody will read any more: the kernel of the server resets   *)
(* the connection, and a read of the client is an error.                   *)
Reset ==
  /\ server \in {"failed", "refused"} /\ up # <<>>
  /\ client # "failed"
  /\ client' = "failed" /\ down' = <<>>
  /\ UNCHANGED <<server, up, buffer, inbox, taken, written, cut, meshkey>>

(* The client has gone: a read returns no bytes, which is an error. *)
ServerEof ==
  /\ server \in {"http_request", "client_info"}
  /\ client = "failed" /\ up = <<>>
  /\ server' = "failed"
  /\ UNCHANGED <<client, up, down, buffer, inbox, taken, written, cut, meshkey>>

(* The read loop of Client, with a DerpReader of its own *)
ServerRead ==
  /\ server = "serving"
  /\ \E n \in ReadSizes(up) : inbox' = inbox \o SubSeq(up, 1, n) /\ up' = Rest(up, n)
  /\ UNCHANGED <<server, client, down, buffer, taken, written, cut, meshkey>>

(* The write loop of Client: anyone may send packets to a client as soon   *)
(* as it is among the peers, so that a frame may follow the server info at *)
(* once.                                                                   *)
ServerWrite ==
  /\ server = "serving"
  /\ written.server < MaxFrames
  /\ down' = down \o Message("frame")
  /\ written' = [written EXCEPT !.server = @ + 1]
  /\ UNCHANGED <<server, client, up, buffer, inbox, taken, cut, meshkey>>

-----------------------------------------------------------------------------
(* MeshClient::run *)

BugDropLeftovers(chunk) == <<>>

(* connect_http returns what it has read beyond the response. *)
Leftovers(chunk) == Rest(chunk, Pieces)

ConnectHttp ==
  /\ client = "http_response"
  /\ \E n \in ReadSizes(down) :
       /\ down' = Rest(down, n)
       /\ cut' = (cut \/ n < Pieces)
       /\ IF StartsWith(SubSeq(down, 1, n), "http_response")
          THEN buffer' = Leftovers(SubSeq(down, 1, n)) /\ client' = "server_key"
          ELSE client' = "failed" /\ UNCHANGED buffer
  /\ UNCHANGED <<server, up, inbox, taken, written, meshkey>>

(* The server has gone before it answered: nothing to parse. *)
ConnectHttpEof ==
  /\ client = "http_response" /\ server = "failed" /\ down = <<>>
  /\ client' = "failed"
  /\ UNCHANGED <<server, up, down, buffer, inbox, taken, written, cut, meshkey>>

(* get_next_message reads until its buffer holds a message.  When the      *)
(* server has gone it reads no bytes for ever, and run never returns.      *)
FillBuffer ==
  /\ client \in {"server_key", "server_info", "running"}
  /\ Len(buffer) < Pieces
  /\ \E n \in ReadSizes(down) : buffer' = buffer \o SubSeq(down, 1, n) /\ down' = Rest(down, n)
  /\ UNCHANGED <<server, client, up, inbox, taken, written, cut, meshkey>>

BugEagerWatch ==
  /\ client = "server_key"
  /\ StartsWith(buffer, "server_key")
  /\ up' = up \o Message("client_info") \o Message("frame")
  /\ written' = [written EXCEPT !.client = 1]
  /\ client' = "server_info"
  /\ buffer' = Rest(buffer, Pieces)
  /\ UNCHANGED <<server, down, inbox, taken, cut, meshkey>>

(* exchange_keys *)
ExchangeKeys ==
  /\ client = "server_key"
  /\ Len(buffer) >= Pieces
  /\ buffer' = Rest(buffer, Pieces)
  /\ IF StartsWith(buffer, "server_key")
     THEN up' = up \o Message("client_info") /\ client' = "server_info"
     ELSE client' = "failed" /\ UNCHANGED up
  /\ UNCHANGED <<server, down, inbox, taken, written, cut, meshkey>>

BugNewReader ==
  /\ client = "server_info"
  /\ StartsWith(buffer, "server_info")
  /\ buffer' = <<>>
  /\ up' = up \o Message("frame")
  /\ written' = [written EXCEPT !.client = @ + 1]
  /\ client' = "running"
  /\ UNCHANGED <<server, down, inbox, taken, cut, meshkey>>

BugNoServerInfo ==
  /\ client = "server_info"
  /\ up' = up \o Message("frame")
  /\ written' = [written EXCEPT !.client = @ + 1]
  /\ client' = "running"
  /\ UNCHANGED <<server, down, inbox, buffer, taken, cut, meshkey>>

(* read_server_info, write_watch_conns: the first frame *)
ReadServerInfo ==
  /\ client = "server_info"
  /\ Len(buffer) >= Pieces
  /\ buffer' = Rest(buffer, Pieces)
  /\ IF StartsWith(buffer, "server_info")
     THEN /\ up' = up \o Message("frame")
          /\ written' = [written EXCEPT !.client = @ + 1]
          /\ client' = "running"
     ELSE client' = "failed" /\ UNCHANGED <<up, written>>
  /\ UNCHANGED <<server, down, inbox, taken, cut, meshkey>>

(* The read loop, which goes on with the DerpReader of the handshake *)
ClientRead ==
  /\ client = "running"
  /\ StartsWith(buffer, "frame")
  /\ taken' = taken + 1
  /\ buffer' = Rest(buffer, Pieces)
  /\ UNCHANGED <<server, client, up, down, inbox, written, cut, meshkey>>

(* The write loop: PeerPresent frames *)
WriteFrame ==
  /\ client = "running"
  /\ written.client < MaxFrames
  /\ up' = up \o Message("frame")
  /\ written' = [written EXCEPT !.client = @ + 1]
  /\ UNCHANGED <<server, client, down, buffer, inbox, taken, cut, meshkey>>

ServerStep == FinalizeHttpPhase \/ ReadClientInfo \/ AddNewClient \/ ServerEof \/ ServerRead
ClientStep ==
  ConnectHttp \/ ConnectHttpEof \/ FillBuffer \/ ExchangeKeys \/ ReadServerInfo \/ ClientRead

HandshakeNext == ServerStep \/ ClientStep \/ ServerWrite \/ WriteFrame \/ Reset

(* Both tasks are run; nothing makes the write loops write, and a reset    *)
(* may come too late to be seen by a reader that has met the end of the    *)
(* stream.                                                                 *)
HandshakeSpec ==
  /\ HandshakeInit /\ [][HandshakeNext]_handshake_vars
  /\ WF_handshake_vars(ServerStep) /\ WF_handshake_vars(ClientStep)

-----------------------------------------------------------------------------
(* n frames, one after the other, and part i of such a stream *)
FramePart(i) == [msg |-> "frame", part |-> ((i - 1) % Pieces) + 1]
Frames(n) == [i \in 1..(n * Pieces) |-> FramePart(i)]

(***************************************************************************)
(* Although the server drops what follows the client info in its buffer    *)
(* and starts its read loop on an empty one, no byte of a frame is lost,   *)
(* however the reads cut the stream: the client sends no frame before the  *)
(* server info has told it that the handshake is over.                     *)
(***************************************************************************)
NoFrameLost == server \in {"adding", "serving"} => inbox \o up = Frames(written.client)

(***************************************************************************)
(* Frames that arrive together with the server info, or with a part of it, *)
(* are not lost either: the read loop of the client goes on with the       *)
(* buffer of the handshake, which in turn starts with what connect_http    *)
(* read beyond the response.                                               *)
(***************************************************************************)
NoFrameSkipped == client = "running" => buffer \o down = Frames(written.server - taken)

(***************************************************************************)
(* A client whose mesh key fits and that has begun to take part in the     *)
(* mesh is served, or is about to be.  One whose key does not fit begins   *)
(* all the same, since the server info is written before add_new_client    *)
(* compares the keys, but it is never served.                              *)
(***************************************************************************)
ServedWhenRunning ==
  client = "running" => server \in {"adding", IF Admitted THEN "serving" ELSE "refused"}

(***************************************************************************)
(* Although it was told that the handshake is over, and subscribes, a      *)
(* client whose mesh key does not fit gets no frame, and no frame of it    *)
(* reaches a read loop.                                                    *)
(***************************************************************************)
NothingForRefused ==
  ~Admitted => inbox = <<>> /\ written.server = 0 /\ taken = 0

(* What the client is yet to take: in its buffer, or on the way to it *)
Ahead == buffer \o down

(***************************************************************************)
(* A handshake fails only when a read ended within one of the messages for *)
(* which the code reads once (the request, the response and the client     *)
(* info) or the one write of the response did, or when the mesh key is     *)
(* refused: never because two messages came in one read, nor because one   *)
(* that a DerpReader reads came in parts.                                  *)
(***************************************************************************)
FailsOnlyWhenCut == "failed" \in {server, client} => cut \/ server = "refused"

(***************************************************************************)
(* Until the handshake is over, the server is about to add the client, or  *)
(* one of the two ends has bytes of the message that it waits for: they    *)
(* never both wait for the other, although each of them drops or keeps a   *)
(* different part of what it reads too much.                               *)
(***************************************************************************)
NoCircularWait ==
  \/ cut
  \/ server = "adding"
  \/ server \in {"serving", "refused"} /\ client \in {"running", "failed"}
  \/ server \in {"http_request", "client_info"} /\ StartsWith(up, server)
  \/ client \in {"http_response", "server_key", "server_info"} /\ StartsWith(Ahead, client)

(* The stages of a handshake, and which bytes are where *)
Unwritten == inbox = <<>> /\ taken = 0 /\ written.client = 0

Requested ==
  /\ server = "http_request" /\ client = "http_response"
  /\ up = Message("http_request") /\ Ahead = <<>> /\ written.server = 0

Answered ==
  /\ server = "client_info" /\ client = "http_response"
  /\ up = <<>> /\ buffer = <<>> /\ written.server = 0
  /\ down = Message("http_response") \o Message("server_key")

(* The response was written in part only, and what follows it is no part   *)
(* of one.                                                                 *)
Garbled ==
  /\ server = "client_info" /\ client = "http_response" /\ cut
  /\ up = <<>> /\ buffer = <<>> /\ written.server = 0
  /\ \E i \in 1..Pieces : i \in 1..Len(down) /\ down[i].msg # "http_response"

Keyed ==
  /\ server = "client_info" /\ client = "server_key"
  /\ up = <<>> /\ Ahead = Message("server_key") /\ written.server = 0

Introduced ==
  /\ server = "client_info" /\ client = "server_info"
  /\ up = Message("client_info") /\ Ahead = <<>> /\ written.server = 0

(* The loops of the client run, or are about to. *)
Served ==
  \/ server = "adding" /\ inbox = <<>> /\ written.server = 0
  \/ server = "serving" /\ Admitted

Accepted ==
  /\ Served /\ client = "server_info"
  /\ up = <<>> /\ Ahead = Message("server_info") \o Frames(written.server)

Established ==
  /\ Served /\ client = "running"
  /\ inbox \o up = Frames(written.client)
  /\ taken <= written.server /\ Ahead = Frames(written.server - taken)

Silent == inbox = <<>> /\ taken = 0 /\ written.server = 0

TurnedAway ==
  /\ server = "refused" /\ ~Admitted /\ Silent
  /\ \/ client = "server_info" /\ up = <<>> /\ Ahead = Message("server_info")
     \/ client = "running" /\ Ahead = <<>>
     \/ client = "failed"

Broken ==
  /\ cut /\ Silent
  /\ \/ server = "failed" /\ client \in {"http_response", "server_info"} /\ Ahead = <<>>
     \/ server = "failed" /\ client = "failed"
     \/ server = "client_info" /\ client = "failed" /\ up = <<>>

Part == [msg : Messages, part : 1..Pieces]

HandshakeTypeOK ==
  /\ up \in Seq(Part) /\ down \in Seq(Part) /\ buffer \in Seq(Part) /\ inbox \in Seq(Part)
  /\ taken \in Nat /\ written \in [server : Nat, client : Nat] /\ cut \in BOOLEAN
  /\ meshkey \in [server : MeshKeys \cup {None}, client : MeshKeys \cup {None}]

(***************************************************************************)
(* The inductive invariant: both ends are in one of these stages, in step  *)
(* with the bytes between them and in their buffers.                       *)
(***************************************************************************)
HandshakeInv ==
  /\ HandshakeTypeOK
  /\ \/ Unwritten /\ (Requested \/ Answered \/ Garbled \/ Keyed \/ Introduced \/ Accepted)
     \/ Established
     \/ TurnedAway
     \/ Broken

(***************************************************************************)
(* The handshake completes, or ends with the refusal of a mesh key that    *)
(* does not fit, unless a read or the write is short for one of the        *)
(* messages for which the code reads or writes once (the request, the      *)
(* response and the client info), whatever else a read returns with them   *)
(* and however the others, which a DerpReader reads, are cut.              *)
(***************************************************************************)
HandshakeCompletes ==
  <>(cut \/ IF Admitted THEN client = "running" /\ server = "serving" ELSE server = "refused")

=============================================================================
