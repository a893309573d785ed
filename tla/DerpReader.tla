------------------------------ MODULE DerpReader ------------------------------
(***************************************************************************)
(* inout.rs: how DerpReader cuts the byte stream of a socket into frames,  *)
(* however the network has cut it into reads.  A byte is a number below    *)
(* Base, which is 256 in the code.                                         *)
(***************************************************************************)
EXTENDS Naturals, Sequences

CONSTANTS
  Base,       \* number of values of a byte
  Bodies,     \* the bodies of the frames
  ReadCap,    \* MAX_TCP_PACKET_SIZE: bytes that one read returns at most
  MaxFrames   \* frames that the other end sends at most

Byte == 0..(Base - 1)

(* The size of a body fits into the four bytes of a header. *)
ASSUME ReaderAssumption ==
  /\ Base \in Nat \ {0, 1} /\ ReadCap \in Nat \ {0} /\ MaxFrames \in Nat
  /\ \A body \in Bodies : body \in Seq(Byte) /\ Len(body) < Base * Base * Base * Base

VARIABLES
  frames,    \* the frames that the other end has sent, and where each ends in the stream
  open,      \* no frame was broken off by the end of the connection
  unread,    \* bytes that are yet to be read from the socket
  data,      \* InputBuffer::data
  returned   \* messages that get_next_message has returned

reader_vars == <<frames, open, unread, data, returned>>

HEADER_SIZE == 5

(* The encoder: type, size in network byte order, body. *)
SizeField(n) ==
  LET high == n \div Base
      higher == high \div Base
      highest == higher \div Base
  IN <<highest % Base, higher % Base, high % Base, n % Base>>

Encoded(f) == <<f.ty>> \o SizeField(Len(f.body)) \o f.body

ReaderInit ==
  /\ frames = <<>> /\ open = TRUE /\ unread = <<>>
  /\ data = <<>> /\ returned = <<>>

(* Where frame i ends in the stream *)
End(i) == IF i = 0 THEN 0 ELSE frames[i].end

(* The other end sends a frame.  The connection may end anywhere, also     *)
(* within a frame.                                                         *)
Send ==
  /\ open /\ Len(frames) < MaxFrames
  /\ \E ty \in Byte, body \in Bodies :
       LET bytes == Encoded([ty |-> ty, body |-> body])
       IN /\ frames' = Append(frames, [ty |-> ty, body |-> body,
                                       end |-> End(Len(frames)) + Len(bytes)])
          /\ \E n \in 1..Len(bytes) :
               unread' = unread \o SubSeq(bytes, 1, n) /\ open' = (n = Len(bytes))
  /\ UNCHANGED <<data, returned>>

Size(d) == ((d[2] * Base + d[3]) * Base + d[4]) * Base + d[5]

BugNoHeader(d) == Size(d)

(* message_size, from the header at the start of the buffer *)
MessageSize(d) == HEADER_SIZE + Size(d)

BugStrict(d) == Len(d) > HEADER_SIZE /\ Len(d) > MessageSize(d)

(* next_message finds a whole message. *)
Sufficient(d) == Len(d) >= HEADER_SIZE /\ Len(d) >= MessageSize(d)

(* get_next_message returns: the message is drained from the buffer. *)
Return ==
  /\ Sufficient(data)
  /\ returned' = Append(returned, [ty |-> data[1], buffer |-> SubSeq(data, 1, MessageSize(data))])
  /\ data' = SubSeq(data, MessageSize(data) + 1, Len(data))
  /\ UNCHANGED <<frames, open, unread>>

BugOverwrite(d, chunk) == chunk

(* input_data *)
InputData(d, chunk) == d \o chunk

(* A read returns what the network has delivered.  At the end of the       *)
(* stream it returns no bytes, and get_next_message reads again for ever:  *)
(* a step that changes nothing.                                            *)
Read ==
  /\ ~Sufficient(data)
  /\ \E n \in 1..Len(unread) :
       /\ n <= ReadCap
       /\ data' = InputData(data, SubSeq(unread, 1, n))
       /\ unread' = SubSeq(unread, n + 1, Len(unread))
  /\ UNCHANGED <<frames, open, returned>>

ReaderNext == Send \/ Return \/ Read

ReaderSpec == ReaderInit /\ [][ReaderNext]_reader_vars /\ WF_reader_vars(Return \/ Read)

-----------------------------------------------------------------------------
(***************************************************************************)
(* The messages returned are the frames that were sent, header included,   *)
(* from the first on and without a gap, whatever bytes the bodies contain  *)
(* and wherever the reads cut the stream.                                  *)
(***************************************************************************)
FramesAsSent ==
  /\ Len(returned) <= Len(frames)
  /\ \A i \in DOMAIN returned :
       returned[i] = [ty |-> frames[i].ty, buffer |-> Encoded(frames[i])]

(***************************************************************************)
(* next_message takes the buffer for a message if and only if all bytes of *)
(* the next frame are there: it neither waits for a byte that follows the  *)
(* frame nor takes a part of it for a message.                             *)
(***************************************************************************)
ReturnsWholeFrames ==
  Sufficient(data) <=>
    /\ Len(returned) < Len(frames)
    /\ Len(data) >= Len(Encoded(frames[Len(returned) + 1]))

(* The number of frames that were sent to the last byte *)
WholeFrames == IF open THEN Len(frames) ELSE Len(frames) - 1

(***************************************************************************)
(* Every frame whose last byte arrives is returned, also when no frame     *)
(* follows it.                                                             *)
(***************************************************************************)
AllReturned == \A n \in 1..MaxFrames : (WholeFrames >= n) ~> (Len(returned) >= n)

-----------------------------------------------------------------------------
(* The bytes that have been sent and that no message has taken yet *)
Pending == data \o unread

ReaderTypeOK ==
  /\ frames \in Seq([ty : Byte, body : Bodies, end : Nat]) /\ open \in BOOLEAN
  /\ unread \in Seq(Byte) /\ data \in Seq(Byte)
  /\ returned \in Seq([ty : Byte, buffer : Seq(Byte)])

EndsInOrder ==
  /\ \A i \in 1..Len(frames) : End(i) = End(i - 1) + Len(Encoded(frames[i]))
  /\ \A i, j \in 0..Len(frames) : i <= j => End(i) <= End(j)

(* How far the pending bytes reach: into the last frame, or to its end *)
PendingReaches ==
  LET reached == End(Len(returned)) + Len(Pending)
  IN IF open THEN reached = End(Len(frames))
     ELSE /\ Len(frames) > 0
          /\ End(Len(frames) - 1) < reached /\ reached < End(Len(frames))

(* Where frame i, which has not been returned, starts among them *)
Start(i) == End(i - 1) - End(Len(returned))

(* Each byte that is pending is the byte of its frame. *)
PendingAsSent ==
  \A i \in (Len(returned) + 1)..Len(frames) : \A k \in 1..Len(Encoded(frames[i])) :
    Start(i) + k <= Len(Pending) => Pending[Start(i) + k] = Encoded(frames[i])[k]

(***************************************************************************)
(* The inductive invariant: get_next_message keeps its place in the        *)
(* stream.  What is in InputBuffer::data, followed by what is still in the *)
(* socket, continues byte for byte where the returned messages end, as far *)
(* as the other end has sent.                                              *)
(***************************************************************************)
ReaderInv == ReaderTypeOK /\ EndsInOrder /\ PendingReaches /\ PendingAsSent /\ FramesAsSent

=============================================================================
