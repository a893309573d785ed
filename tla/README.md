# A verification of dersp

dersp is a DERP relay: clients connect over TCP, are known by their curve25519
public key, and send each other packets through the server. Servers of a mesh
tell each other which clients they have and forward packets between them. This
directory holds TLA+ specifications of the relay, configurations that
model-check them with TLC, and theorems that TLAPS proves about them.

## The system and its parts

| Part | Code | Modelled by |
| --- | --- | --- |
| shared state, accept loop, command loop, notice tasks | `dersp/src/service.rs` | `DerpService` |
| read and write loop of an accepted connection | `dersp/src/client.rs` | `DerpClient` |
| connection that a server opens to a mesh peer | `dersp/src/mesh_client.rs` | `DerpMeshClient` (loops), `DerpStartup` (`start`), `DerpHandshake` (`run`) |
| start of a process | `dersp/src/main.rs`, `DerpService::new` | `DerpStartup` |
| reassembly of frames from a TCP stream | `dersp/src/inout.rs` | `DerpReader` |
| handshake | `dersp/src/proto/mod.rs` | `DerpHandshake` |
| frames | `dersp/src/proto/data.rs` | `DerpNet` (as records), `DerpReader` and `MCFormats` (as bytes) |
| codec | `codec/src` | `DerpCodec` |
| derive macro of the codec | `codec-derive/src` | `DerpCodec` |
| keys | `dersp/src/crypto.rs` | `DerpKeys`; model values elsewhere |

How they interact. `main` binds the listening socket, and `DerpService::new`
spawns the command loop and connects to the configured mesh peers one after the
other. Then the accept loop spawns a task per connection, which runs the
handshake and calls `add_new_client` under the write lock. That starts a read
loop and a write loop. The write loop is fed through a channel of one element,
its sink. A read loop turns frames into commands for the service, which go
through another channel of one element to the command loop. The command loop
looks up the sink for the target of a packet in `peers_sinks` and waits until
there is room in it. `mesh` holds the sinks of the mesh peers that want to hear
of clients; spawned tasks tell them, first from a snapshot when they subscribe
and then client by client.

## The modules

`DerpNet` declares the constants, all variables, the frames and commands, and
how sockets and channels behave. `DerpClient`, `DerpMeshClient` and
`DerpService` extend each other in this order and add the actions; the last one
composes the system. `DerpProperties` states what is expected of it, and the
fairness. Three more modules hold inductive invariants: `DerpInvariant` of
addressing, `DerpRoutes` of the routes, `DerpOrder` of the order of packets.
`DerpRelay` is the abstract specification of the whole: a relay without
servers, channels or tasks, that takes frames from programs and hands some of
them on. `DerpOrder` instantiates it with the refinement mapping: the programs
are the `Remotes`, and the relay knows a key when some server has a route for
it. For each key the abstract relay keeps the order of the packets of each
sender. A client receives only packets for its own key, so for it that is the
order of everything that one sender sends it. A mesh member is forwarded packets
for several keys, and those for different keys may come to it over different
servers: between them there is no order to promise. The proofs are in the modules
whose names end in `Proofs`.

| Variable | In the code |
| --- | --- |
| `peers_sinks`, `mesh` | the fields of `DerpService`; a sink is named by its connection |
| `accepting` | `new` has returned and the accept loop runs |
| `commands`, `sink` | contents of the two kinds of channel |
| `command_loop`, `reader`, `writer` | status of the tasks: running, returned, panicked |
| `outgoing`, `pending`, `writing` | what a task holds while it waits in `send` or `write_all` |
| `announcing`, `flooding` | what the tasks of `notify_all_mesh_peers` and `notify_about_all_clients` have left to do |
| `net`, `link` | frames in the sockets, and whether the connection is unbroken |
| `sent`, `received` | history: what the programs outside sent and received |

An end of a connection at a server is a member of `Conns`. Its far end is
either another member (two dersp servers) or one of `Remotes`: a program that is
not dersp, which may send any sequence of the frames that `Behaviour` allows it,
`WatchConns` more than once too. Each subscription starts a notice task of its
own; `flooding` counts, for each connection and key, in how many of these tasks
the notice is still to be sent.
`pk[c]` is the key that the handshake on `c` established. For a connection that
a server opened it is the key that the other server made up for it, since
`handle_client` generates one per connection.

Choices that a reader should know:

- The `RwLock` is never held over an `await` that waits for anything but the
  lock. So a critical section is one step, and taking a command from the
  channel is one step with the critical section that follows it.
- Every wait for room in a channel or socket is a separate step from the one
  that produced the element. The code between two waits of a task is one step.
- A broken connection may show as an error, as data that is silently lost, or
  as the end of the stream. At the end of the stream `get_next_message` reads
  again for ever, so that the reader simply takes no further step.
- `MeshStart` covers connection, key exchange and the insertion into `mesh`:
  nothing reads `mesh` before the accept loop starts. The rest of
  `MeshClient::run` is a separate step, `MeshWatch`. That `start` may wait for
  ever is modelled in `DerpStartup`.
- "KeepAlive" stands for every type of frame that no read loop knows. All of
  them run into `todo!()`. The comment on `KeepAlive` calls it a no-op, and the
  one on `WatchConns` says that the connection of a sender without permission
  is closed; the code ignores such a frame and marks it as a TODO.
- `_Stop` is never sent, and the command loop never sees `None`, because the
  service that it shares holds a sender. Both are left out.

`DerpStartup` stands alone. It models how processes come up: a connection is
accepted by the kernel as soon as the peer is bound, but answered only by its
accept loop; a refused connection is skipped, and so is, where `Breaks` allows it, a peer
with which the key exchange fails; a name that does not resolve ends
the process; a peer that goes away during the key exchange leaves the server
spinning in `get_next_message`.

`DerpReader` works on bytes, which are numbers below `Base` (256 in the code), with
the header as it is: a type and a size of four bytes. The other end sends frames
one after the other, the network cuts the stream anywhere, and the connection
may end within a frame.
`DerpHandshake` cuts every message into `Pieces` parts and follows both ends from
the HTTP request into the read loops, with the buffers of both. Both ends have
any mesh key, or none. `handle_handshake` writes the server info before
`add_new_client` compares the keys, so that a client whose key does not fit is
first told that the handshake is over, and subscribes; then the server drops the
socket, and the client may see that as the end of the stream or as a reset
(`Reset`). The HTTP response is written with a single `write`, which may write a
part of it only.

`DerpCodec` describes types as data: integers, arrays, `Opaque`, `Vec`,
`Option`, `SizeWrapper`, structs, and enums with their attributes.
`DecodeCompiles` and `EncodeCompiles` say which declarations the derive macros,
and then the compiler, accept; `encode` and `decode` follow the hand-written
implementations and the generated code. A behaviour declares a type, encodes
values of it one after the other into one buffer, and decodes these bytes, or
bytes of another program. A `Vec` whose elements take no bytes would make
`decode` loop for ever; no type of the code is of this kind, and none is
declared in the model. `DerpKeys` takes a key of one of the three kinds
through any sequence of the conversions that `crypto.rs` has: bytes, base64,
hex, `crypto_box`. Whether `crypto_box` clamps the secret keys that it holds is
left open. What decides the public key of a secret key is its clamped scalar,
which stands for the result of the multiplication on the curve.

## Runs

| Run | Question | Result |
| --- | --- | --- |
| `local` | Do packets between the clients of one server keep their addressing and order when a client connects anew and connections break? Does the server implement the abstract relay? | holds |
| `watch` | A mesh peer subscribes, once or twice, while clients arrive, and a client without the mesh key watches and announces: is anything disclosed, anyone missed, any route taken away? | holds |
| `outbound` | Two mesh peers that the server connects to itself announce and forward: is every packet right in every channel and task, and is a notice to the member lost, when the second peer has taken the place of the first in the mesh map? | holds |
| `mesh` | Two dersp servers and a client that roams: do they together implement the abstract relay, do packets keep their order wherever they wait on their way through both, and what backs a route, an announcement, a packet under way? | holds |
| `live` | Are packets delivered and mesh members told, with channels of one element? | holds |
| `startup` | With restarts, key exchanges that fail, and lists that lead round in a circle: can mesh connections form a cycle, and does every server that does not wait for itself come up? | holds: no cycle, they come up |
| `formats` | Are values read back as they were written, by whatever derived code and through whatever buffer; do bytes have one meaning; do keys survive their conversions? | holds |
| `reader` | Are frames reassembled, whatever their bytes and however the stream is cut? Which bytes are in the buffer and the socket meanwhile? | holds |
| `handshake` | Is a frame lost in a buffer of the handshake, when does a handshake fail, what does a client with the wrong mesh key get, and can both ends wait for each other? | holds: no; only when a message is cut or the key refused; nothing; no |
| `recv_source` | Does `RecvPacket` name the sender, as its comment says? | violated: it names the receiver |
| `unwrap` | Can a read loop always send a PeerPresent command, as its `unwrap()` asserts? | violated: the command loop returns when a sink is closed |
| `startup_mutual` | Do two servers that list each other create a mesh? | violated: they wait for each other |

The properties are stated and explained in `DerpProperties`, `DerpInvariant`,
`DerpRoutes`, `DerpOrder`, `DerpStartup`, `DerpReader`, `DerpHandshake`,
`DerpCodec` and `DerpKeys`. `SafeInv`, `RouteInv`, `NoticeInv`, `OrderInv`,
`HandshakeInv`, `ReaderInv` and `KeysInv` are the inductive invariants that the
proofs use. TLC checks them in the same runs, so that the models and the proofs
speak of the same thing. The operators whose name starts with `Bug` are small
faults of the code, one for each property of each passing run. They show
that the property notices the fault: if the definition that follows such an
operator is replaced by it, TLC reports the property violated. They take no
part in the specifications.

### Bounds

Channels have their real capacity, one. Sockets hold `SocketCap` frames, one or
two, so that writers do wait. Each Remote sends at most `MaxFrames` frames, of
the types in `Behaviour`; `Fragile` names the connections that may break. Two
packets of one sender are needed for the order, two connections of one key for
takeover, two servers for forwarding, and one announcement per Remote for a
route to the wrong place. These cases all occur within the bounds, which the
faults above confirm. `watch` and `outbound` use three connections,
`mesh` five. Four connections with liveness are out of reach of TLC, so `live`
uses three.

`startup` uses five servers, two starts each and one process that ends. Two of
them list each other; of the other three one waits for the second, and the second
for the third, which has no mesh key and waits for nobody. Any key exchange may
fail. `startup_mutual` sets `Breaks` to false: there the two servers wait although
no connection breaks.

In `reader` a byte is a bit. Two frames are sent, with all bodies of up to two
bytes and two longer ones, of four and eight bytes, whose sizes use the high
bytes of the header; a read returns at most three bytes, less than a header, so
that headers are cut too. That a body may hold what looks like a header, of any
size, is covered by the proof. `handshake` uses three parts per message, up
to three frames from each end, and two mesh keys, so that the keys of the two ends
fit, differ, or are missing at one end or both.

In `formats` a byte of the codec is a bit. It declares the frames of the
protocol, with keys of one to five bytes and sizes of two or three, a few nested
types, and every enum of two variants over three attributes and five lists of
fields, the ill-formed ones included, which are then rejected. Two values are
encoded, into a `Vec` and into slices of four lengths: one that ends inside a
header, one inside a body, and two that some frames fill exactly. `SliceFull`
compares a slice with the bytes of the same values in a `Vec`: it holds them
all, or has overflowed exactly because they do not fit. Foreign
inputs have up to six bytes, enough for a frame with one byte left over. Keys
have their real 32 bytes; the first and the last, which clamping changes, take
nine values around its masks, and the others are fixed. The proof is for all
keys.

Deadlock is not checked in any run. The programs outside may stop sending, and
servers that list each other do wait for ever, which `startup_mutual` shows.

### Fairness

`FairSpec` in `DerpProperties` assumes that tokio runs every task that can run,
which is weak fairness for each task. For a task that waits for room in a
channel it assumes strong fairness: the permits of a tokio channel are handed
out first come, first served, so a sender that waits is not overtaken for ever.
Remotes are assumed to read what they are sent. Nothing is assumed about when
they send, and connections do not break in the run. Accepted connections
complete their handshake, which `DerpHandshake` treats separately. In
`DerpStartup` the steps of a live process are weakly fair; nothing makes an
operator start one, and nothing makes a key exchange fail. In `DerpReader` and
`DerpHandshake` a read that finds bytes returns, and `add_new_client` is reached;
a reset of the connection may come or not.

## Proofs

Everything below is proved for any sets of servers, connections, programs
outside and keys, and for any bounds. The assumptions are the named ones that
TLC evaluates in the runs: `NetAssumption` (`DerpNet`: every connection has two
ends, at least one at a server, exactly one of two dersp ends opened it, there
are finitely many connections, and none of them is a server), `StartupAssumption` (`DerpStartup`: the
lists of mesh peers are sequences), `HandshakeAssumption` (a message has at least
one part), `ReaderAssumption` (a byte has at least two values, a read may return
something, and the size of a body fits into four bytes) and `KeysAssumption`
(a key is made of 32 bytes).

| Theorem | Module | Statement |
| --- | --- | --- |
| `TypeCorrect` | `DerpTypeProofs` | `Spec => []TypeOK` |
| `Safety` | `DerpSafetyProofs` | `Spec => []SafeInv` |
| `DeliveryIsAuthentic` | `DerpSafetyProofs` | `Spec => []AuthenticDelivery` |
| `MeshIsClosed` | `DerpSafetyProofs` | `Spec => []MeshOnly` |
| `RoutesAreKept` | `DerpSafetyProofs` | `Spec => RouteKept` |
| `RoutesHaveReasons` | `DerpSafetyProofs` | `Spec => []RouteInv` |
| `RoutesAreBacked` | `DerpSafetyProofs` | `Spec => []RouteBacked` |
| `PanicsAreSelfInflicted` | `DerpSafetyProofs` | `Spec => []PanicSelfInflicted` |
| `NobodyIsMissed` | `DerpNoticeProofs` | `Spec => []NoticeInv` |
| `ChannelsHold` | `DerpChannelProofs` | `Spec => []ChannelInv` |
| `StaysInOrder` | `DerpRelayProofs` | `Spec => []OrderInv` |
| `KeysStayInOrder` | `DerpRelayProofs` | `Spec => []KeyInOrder` |
| `DeliveryInOrder` | `DerpRelayProofs` | `Spec => [](Unlinked => InOrder)` |
| `RelayImplemented` | `DerpRelayProofs` | `Spec => ImplementsRelay` |
| `MeshOrder` | `DerpSetupProofs` | `Spec => []MeshedInOrder` |
| `MeshAcyclic` | `DerpSetupProofs` | `Spec => []NoMeshCycle` |
| `StartupTypeOK` | `DerpSetupProofs` | `Spec => []TypeOK` of `DerpStartup` |
| `HandshakeStages` | `DerpSetupProofs` | `HandshakeSpec => []HandshakeInv` |
| `FramesReachServer` | `DerpSetupProofs` | `HandshakeSpec => []NoFrameLost` |
| `FramesReachClient` | `DerpSetupProofs` | `HandshakeSpec => []NoFrameSkipped` |
| `RunningIsServed` | `DerpSetupProofs` | `HandshakeSpec => []ServedWhenRunning` |
| `RefusedIsSilent` | `DerpSetupProofs` | `HandshakeSpec => []NothingForRefused` |
| `OnlyCutsFail` | `DerpSetupProofs` | `HandshakeSpec => []FailsOnlyWhenCut` |
| `SomeoneHasBytes` | `DerpSetupProofs` | `HandshakeSpec => []NoCircularWait` |
| `ReaderKeepsPlace` | `DerpFormatsProofs` | `ReaderSpec => []ReaderInv` |
| `ReaderReturnsFrames` | `DerpFormatsProofs` | `ReaderSpec => []FramesAsSent` |
| `ReaderWaitsForWhole` | `DerpFormatsProofs` | `ReaderSpec => []ReturnsWholeFrames` |
| `KeysStayVersions` | `DerpFormatsProofs` | `KeysSpec => []KeysInv` |
| `KeysComeBack` | `DerpFormatsProofs` | `KeysSpec => []KeyKept` |
| `PublicKeyComesBack` | `DerpFormatsProofs` | `KeysSpec => []PublicKept` |

*Delivery and the mesh.* `AuthenticDelivery` and `MeshOnly` speak of what was
received, and say nothing of the packets still inside. The inductive invariant
`SafeInv` (`DerpInvariant`) gives every channel, socket and task the set of
elements that it may hold: `GoodCommands` for the command channel and the read
loops, `GoodWrites(c)` for the sink of `c`, `GoodFrames(e)` for what travels to
the end `e`. A packet is good if the history has it with the same target and
source. A notice is good on its way to a connection in `Meshers`. The proof has
three parts. The lemmas `GoodFromFrame`, `GoodFromWrite`, `GoodPacketFits` and
`GoodNotices` say that what a loop makes of a good element is good where it puts
it. While nobody outside sends, the sets do not change (`SameGood`); when
somebody does, they only grow (`MoreGood`), because the history is only
appended to. Then each action is one case, in one lemma per kind of task. TLC
checks `SafeInv` in the run `outbound`.

*Routes.* Only `AddNewClient` and `LoopPeerPresent` change `peers_sinks`
(`RoutesUntouched`), and the second only where there is no route. Why a server
routes a key to a connection takes an invariant of its own: `RouteInv` follows
an announcement back from the map through the command channel, the read loop,
the socket and, if the far end is dersp too, the write loop, sink and notice
task there, to a route at that server. Routes are never removed, so what is
known stays known, and every set of the invariant only grows. A write loop that
panics does so over a packet for a key that is not its own, and `RouteInv` says
who announced that key.

*Notices.* `NoClientMissed` says that a member that listens was told of every
client, or that the notice is under way: in the list of a notice task, in the
sink, in the hands of the write loop, or in the socket. `NoticeInv` adds what
makes it inductive (`Arrivals`): no client is accepted before all mesh peers
were tried, an accepted client is routed, and a task that has not started has
nothing to do. The proof shows that each step hands a notice on to the next of
these places or leaves it where it is (`NoticesKept`), and then that a new
client or a new member is covered from its first state: the notice task of a
client starts with all members of the map, and the snapshot for a member holds
all clients.

*Order.* Servers may be linked in any way, a packet may pass any number of
them, and a client that moves opens another way while packets for it are on the
old one. Three facts make that tractable. First, a link carries packets in one
direction only, from the server that accepted it to the one that opened it: the
write loop of a `MeshClient` knows only notices, and a packet that is routed to it
ends it. `ChannelInv` says this of every socket and task of a link. Second, a
server opens its links before it accepts connections, to servers that accept
already: links lead back in the order in which the servers started (`Started`).
So a packet travels to servers that started later, and never comes to one twice.
Third, an announcement never replaces a route; only a client that connects does.
A server that once has a client of a key keeps the packets for it.

`OrderInv` then has two parts. Between the command loop that routed a packet and
the far end of the route there are five stages: the hands of the command loop,
sink, hands of the write loop, socket, and what was read. Earlier packets are in
later stages (`StagesOrdered`), and at the front of a socket (`SocketsSorted`). The
other part is about the whole way. A place is a connection at which a packet
enters a server, or the server's command channel. `Leads(m, l, k)` says that a
packet for `k`, following the routes of this moment from the place `m`, comes to
the place `l`; or else that it comes to a server with a client of that key, which
started before the server of `l`: a client that connected behind the packets that
went on from there. The way is given by the sets that are closed under it, which
first-order provers can handle, in place of a path. `Followed` says that from
where a later packet waits the way leads to every place where an earlier one does,
`FromHome` the same for the packets that are not sent yet, and `Passed` that
earlier packets have gone past the server where a later one is on its way to a
program. So a packet can overtake an earlier one only by ending at another
connection.

The proof has three kinds of steps. Most steps are calm (`WriteCalm`, `NotifyCalm`
and the other lemmas whose names end in `Calm`): no packet comes to another place.
A step that takes a packet to the next place (`SendMoves`, `RouteMoves`) moves it
along its way. A step that changes a route is the hard one: a client that connects
cuts the ways through its server, and all who came through it now end there, which
is the second case of `Leads`; an announcement extends them. `DerpChannelProofs`
proves `ChannelInv`, what a step may do to the stages, the places and the order of
the starts, and that the loops of a connection keep the order; `DerpOrderProofs`
that every other step does; `DerpRelayProofs` what that comes to for those who
receive the packets.

`InOrder` relates packets for different keys too. In a mesh that is not promised,
as said above. `DeliveryInOrder` shows it for servers without connections to other
dersp servers (`Unlinked`), for their mesh members too; it comes from the same
invariant, which relates all the packets of one sender where there is one server
to pass (`Same`).

*Refinement.* `RelayImplemented` combines all of the above, for any mesh: the step
that delivers a frame is an abstract delivery because of `SafeInv` (authentic,
members only), `OrderInv` (in sequence) and `RouteInv` (for a known key); a step
that adds a route is an abstract `Learn`; a frame from outside is a `Submit`; all
others stutter.

*Startup.* `NoMeshCycle` is not inductive either. The invariant adds that every
server gets a stamp when it starts to accept, that stamps lie in the past
(`StampsPast`), that a peer which has answered a key exchange still accepts
(`PeerKnown`), and that a connection leads to an older stamp (`MeshedInOrder`).
The order of the stamps rules out cycles of any length.

*Handshake.* The properties speak of the frames behind the handshake, and hold
because of how far both ends have come before. `HandshakeInv` names the stages:
`Requested`, `Answered`, `Keyed`, `Introduced`, `Accepted`, `Established`,
`Garbled` when the response was written in part, `TurnedAway` when the mesh key was
refused, and `Broken` when one of the single reads was cut. Each says which messages lie in
the two streams; the stream to the client and the client's buffer count as one
sequence (`Ahead`), because the buffer only takes over its front. The lemmas
`ReadOne` and `ReadTwo` say what one read may return of a stream of one or of two
messages, `MoreFrames` that frames behind frames are frames. Each action then
keeps its stage or leads to the next. A message has any number of parts, and a
read may end within any of them.

*Reader.* `FramesAsSent` says nothing of the bytes that are not returned yet.
`ReaderInv` records where each frame ends in the stream and says that the buffer
followed by the socket holds, byte for byte, the frames from the first one on
that was not returned, as far as they were sent. `SizeRead` shows that the four
bytes of a size, read as a number, give the size back, for every base, and
`SufficientIsWhole` that next_message then finds exactly the next frame. So a body
that looks like a header does no harm: the reader never looks at it as one.

*Keys.* `HexRead` and `Base64Read` show that both notations of any 32 bytes are
read back as the same bytes; base64 is treated in groups of three bytes and four
digits (`Group`, `SixBitsOfGroup`, `EightBitsOfGroup`), the last of which has one
byte less and a padding. `ClampOnce` says that clamping twice is clamping once.
`KeysInv` then only has to say that what is held is the key as it was made, or
clamped, or a text of one of the two.

Only model-checked are:

- the properties of `DerpCodec`: its types are nested to any depth, `encode` and
  `decode` are recursive over them, and what they compute for every type needs
  induction over data, which these provers do not offer;
- everything that must eventually happen (`EventuallyDelivered`,
  `EventuallyTold`, `EventuallyServes`, `AllReturned`, `HandshakeCompletes`):
  liveness under fairness is out of reach of the prover. For the handshake the
  theorem `SomeoneHasBytes` is the safety half: somebody can always go on.

## What is not modelled

- The curve, the box cipher, the contents of HTTP headers and of the client
  info: a message is complete or it is not, and only complete ones are accepted.
- Of the derive macro: the converters (`into`, `from` and their fallible
  forms), which dersp does not use, the trait bounds, and the form of the
  tokens. `Infallible`, which has no values.
- The `Debug` form of a key, which nothing reads back.
- Logging, and the parser of the command line. The option for the mesh key is
  documented as a path; the code uses the text itself.

The comment on the frame type `ServerKey` in `proto/data.rs` allows "0+ bytes
future use" behind the key. `SizeWrapper::decode` rejects bytes that its content
leaves over, so a server key with such bytes is not accepted. The model follows
the code.

## What could come next

1. Three servers in a line, and a member that subscribes on two connections of one
   key, as runs. Both exceed what TLC explores in minutes with these modules; the proofs
   cover them.
2. A bound on how long a packet waits behind a slow client: the theorems say in
   which order packets arrive, and only the run `live` says that they do.
