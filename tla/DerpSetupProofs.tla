--------------------------- MODULE DerpSetupProofs ---------------------------
(***************************************************************************)
(* Proofs about how servers come up and connect: about DerpHandshake, for  *)
(* messages of any length, reads that end anywhere and any number of       *)
(* frames, and about DerpStartup, for any set of servers, any lists of     *)
(* mesh peers and any number of restarts.                                  *)
(***************************************************************************)
EXTENDS DerpHandshake, DerpStartup, Integers, SequenceTheorems, WellFoundedInduction, TLAPS

-----------------------------------------------------------------------------
(* Arithmetic *)

LEMMA NextMultiple ==
  ASSUME NEW P \in Nat \ {0}, NEW a \in Int, NEW b \in Int, a < b
  PROVE  a * P + P <= b * P
<1>1. PICK d \in Nat : b = a + 1 + d
  <2> WITNESS b - a - 1 \in Nat
  <2> QED OBVIOUS
<1>2. b * P = a * P + P + d * P /\ d * P >= 0
  BY <1>1
<1> QED BY <1>2

LEMMA Remainder ==
  ASSUME NEW P \in Nat \ {0}, NEW n \in Nat, NEW r \in 0..(P - 1)
  PROVE  (n * P + r) % P = r
<1> DEFINE x == n * P + r
           q == x \div P
           m == x % P
<1>1. n * P \in Nat
  OBVIOUS
<1>2. x = P * q + m /\ m \in 0..(P - 1) /\ q \in Int
  BY <1>1
<1>3. P * q = q * P
  BY <1>2
<1> HIDE DEF x, q, m
<1>4. x = n * P + r
  BY DEF x
<1>5. CASE q < n
  <2>1. q * P + P <= n * P
    BY <1>2, <1>5, NextMultiple
  <2> QED BY <1>1, <1>2, <1>3, <1>4, <2>1
<1>6. CASE n < q
  <2>1. n * P + P <= q * P
    BY <1>2, <1>6, NextMultiple
  <2> QED BY <1>1, <1>2, <1>3, <1>4, <2>1
<1>7. CASE q = n
  BY <1>1, <1>2, <1>3, <1>4, <1>7 DEF m, x
<1> QED BY <1>2, <1>5, <1>6, <1>7

LEMMA SameRemainder ==
  ASSUME NEW P \in Nat \ {0}, NEW x \in Nat
  PROVE  (x + P) % P = x % P
<1> DEFINE n == x \div P
           r == x % P
<1>1. n \in Nat /\ r \in 0..(P - 1) /\ x = P * n + r
  OBVIOUS
<1> HIDE DEF n, r
<1>2. x + P = (n + 1) * P + r
  BY <1>1
<1>3. ((n + 1) * P + r) % P = r
  BY <1>1, Remainder
<1> QED BY <1>2, <1>3 DEF r

-----------------------------------------------------------------------------
(* Sequences *)

LEMMA SplitAt ==
  ASSUME NEW S, NEW s \in Seq(S), NEW n \in 0..Len(s)
  PROVE  /\ SubSeq(s, 1, n) \in Seq(S) /\ Len(SubSeq(s, 1, n)) = n
         /\ SubSeq(s, n + 1, Len(s)) \in Seq(S) /\ Len(SubSeq(s, n + 1, Len(s))) = Len(s) - n
         /\ SubSeq(s, 1, n) \o SubSeq(s, n + 1, Len(s)) = s
<1>1. SubSeq(s, 1, n) \in Seq(S) /\ Len(SubSeq(s, 1, n)) = n
  OBVIOUS
<1>2. SubSeq(s, n + 1, Len(s)) \in Seq(S) /\ Len(SubSeq(s, n + 1, Len(s))) = Len(s) - n
  OBVIOUS
<1>3. SubSeq(s, 1, n) \o SubSeq(s, n + 1, Len(s)) = SubSeq(s, 1, Len(s))
  <2>1. 1 \in 1..(Len(s) + 1) /\ n \in (1 - 1)..Len(s) /\ Len(s) \in n..Len(s)
    OBVIOUS
  <2> QED BY Zenon, <2>1, ConcatAdjacentSubSeq
<1> QED BY Zenon, <1>1, <1>2, <1>3, SubSeqFull

LEMMA SamePrefix ==
  ASSUME NEW S, NEW s \in Seq(S), NEW t \in Seq(S), NEW u \in Seq(S), NEW v \in Seq(S),
         s \o t = u \o v, Len(u) = Len(s)
  PROVE  s = u /\ t = v
<1>1. ASSUME NEW i \in 1..Len(u) PROVE s[i] = u[i]
  <2>1. (s \o t)[i] = s[i]
    BY ConcatProperties
  <2>2. (u \o v)[i] = u[i]
    BY ConcatProperties
  <2> QED BY <2>1, <2>2
<1>2. s = u
  BY <1>1, SeqEqual
<1> QED BY Zenon, <1>2, ConcatSimplifications

LEMMA Regroup ==
  ASSUME NEW S, NEW a \in Seq(S), NEW b \in Seq(S), NEW c \in Seq(S), NEW s, s = a \o b
  PROVE  s \o c = a \o (b \o c)
BY SMTT(40), ConcatAssociative

LEMMA CutAt ==
  ASSUME NEW S, NEW s \in Seq(S), NEW t \in Seq(S), NEW n \in 0..Len(s)
  PROVE  s \o t = SubSeq(s, 1, n) \o (SubSeq(s, n + 1, Len(s)) \o t)
<1>1. PICK a \in Seq(S), b \in Seq(S) :
        a = SubSeq(s, 1, n) /\ b = SubSeq(s, n + 1, Len(s)) /\ s = a \o b
  <2>1. /\ SubSeq(s, 1, n) \in Seq(S) /\ SubSeq(s, n + 1, Len(s)) \in Seq(S)
        /\ s = SubSeq(s, 1, n) \o SubSeq(s, n + 1, Len(s))
    BY SplitAt, Zenon
  <2> QED BY <2>1, Zenon
<1>2. s = a \o b
  BY <1>1, Zenon
<1>3. s \o t = a \o (b \o t)
  BY SMTT(40), <1>2, Regroup
<1> QED BY <1>1, <1>3, Zenon

LEMMA CutFront ==
  ASSUME NEW S, NEW s \in Seq(S), NEW t \in Seq(S), NEW u \in Seq(S), NEW v \in Seq(S),
         s \o t = u \o v, Len(u) <= Len(s)
  PROVE  /\ SubSeq(s, 1, Len(u)) = u
         /\ SubSeq(s, Len(u) + 1, Len(s)) \o t = v
<1>1. Len(u) \in 0..Len(s)
  OBVIOUS
<1>2. SubSeq(s, 1, Len(u)) \o (SubSeq(s, Len(u) + 1, Len(s)) \o t) = u \o v
  BY <1>1, CutAt, Zenon
<1>3. /\ SubSeq(s, 1, Len(u)) \in Seq(S) /\ Len(u) = Len(SubSeq(s, 1, Len(u)))
      /\ SubSeq(s, Len(u) + 1, Len(s)) \in Seq(S)
  BY <1>1, SplitAt, ZenonT(40)
<1>4. SubSeq(s, Len(u) + 1, Len(s)) \o t \in Seq(S)
  BY <1>3, ConcatProperties
<1>5. PICK a \in Seq(S), b \in Seq(S) :
        /\ a = SubSeq(s, 1, Len(u)) /\ b = SubSeq(s, Len(u) + 1, Len(s)) \o t
        /\ a \o b = u \o v /\ Len(u) = Len(a)
  BY <1>2, <1>3, <1>4, Zenon
<1>6. a \o b = u \o v /\ Len(u) = Len(a)
  BY <1>5, Zenon
<1>7. a = u /\ b = v
  BY <1>6, SamePrefix, Zenon
<1> QED BY <1>5, <1>7, Zenon

LEMMA ReadInto ==
  ASSUME NEW S, NEW b \in Seq(S), NEW s \in Seq(S), NEW n \in 0..Len(s)
  PROVE  (b \o SubSeq(s, 1, n)) \o SubSeq(s, n + 1, Len(s)) = b \o s
<1>1. PICK x \in Seq(S), y \in Seq(S) :
        x = SubSeq(s, 1, n) /\ y = SubSeq(s, n + 1, Len(s)) /\ s = x \o y
  <2>1. /\ SubSeq(s, 1, n) \in Seq(S) /\ SubSeq(s, n + 1, Len(s)) \in Seq(S)
        /\ s = SubSeq(s, 1, n) \o SubSeq(s, n + 1, Len(s))
    BY SplitAt, Zenon
  <2> QED BY <2>1, Zenon
<1>2. (b \o x) \o y = b \o (x \o y)
  BY SMTT(40), ConcatAssociative
<1> QED BY <1>1, <1>2, Zenon

LEMMA JoinEqual ==
  ASSUME NEW S, NEW s \in Seq(S), NEW t \in Seq(S), NEW u \in Seq(S),
         Len(u) = Len(s) + Len(t),
         \A i \in 1..Len(s) : u[i] = s[i],
         \A i \in 1..Len(t) : u[Len(s) + i] = t[i]
  PROVE  s \o t = u
<1>1. PICK w \in Seq(S) : w = s \o t /\ Len(w) = Len(s) + Len(t)
  BY SMTT(40), ConcatProperties
<1>2. ASSUME NEW i \in 1..Len(u) PROVE w[i] = u[i]
  <2>1. CASE i <= Len(s)
    BY <1>1, <2>1
  <2>2. CASE i > Len(s)
    <3>1. w[i] = t[i - Len(s)]
      BY <1>1, <2>2
    <3>2. i - Len(s) \in 1..Len(t) /\ Len(s) + (i - Len(s)) = i
      BY <2>2
    <3> QED BY <3>1, <3>2
  <2> QED BY <2>1, <2>2
<1>3. w = u
  BY <1>1, <1>2, SeqEqual
<1> QED BY <1>1, <1>3

-----------------------------------------------------------------------------
(* Messages and frames *)

LEMMA MessageType ==
  ASSUME NEW m \in Messages
  PROVE  /\ Message(m) \in Seq(Part) /\ Len(Message(m)) = Pieces /\ Message(m) # <<>>
         /\ \A i \in 1..Pieces : Message(m)[i] = [msg |-> m, part |-> i]
<1>1. \A i \in 1..Pieces : [msg |-> m, part |-> i] \in Part
  BY DEF Part
<1> QED BY <1>1, HandshakeAssumption DEF Message

LEMMA FrameParts ==
  /\ \A i \in Nat \ {0} : FramePart(i) \in Part /\ FramePart(Pieces + i) = FramePart(i)
  /\ \A n \in Nat : \A i \in 1..Pieces :
       FramePart(n * Pieces + i) = [msg |-> "frame", part |-> i]
<1> USE HandshakeAssumption
<1>1. ASSUME NEW i \in Nat \ {0} PROVE FramePart(i) \in Part /\ FramePart(Pieces + i) = FramePart(i)
  <2>1. i - 1 \in Nat /\ (Pieces + i) - 1 = (i - 1) + Pieces
    OBVIOUS
  <2>2. ((Pieces + i) - 1) % Pieces = (i - 1) % Pieces
    BY Zenon, <2>1, SameRemainder
  <2>3. (i - 1) % Pieces \in 0..(Pieces - 1)
    BY <2>1
  <2> QED BY <2>2, <2>3 DEF FramePart, Part, Messages
<1>2. ASSUME NEW n \in Nat, NEW i \in 1..Pieces
      PROVE  FramePart(n * Pieces + i) = [msg |-> "frame", part |-> i]
  <2>1. n * Pieces \in Nat
    OBVIOUS
  <2>2. (n * Pieces + i) - 1 = n * Pieces + (i - 1) /\ i - 1 \in 0..(Pieces - 1)
    BY <2>1
  <2>3. (n * Pieces + (i - 1)) % Pieces = i - 1
    BY <2>2, Remainder
  <2> QED BY <2>2, <2>3 DEF FramePart
<1> QED BY Zenon, <1>1, <1>2

LEMMA FramesType ==
  ASSUME NEW n \in Nat
  PROVE  /\ n * Pieces \in Nat
         /\ Frames(n) \in Seq(Part) /\ Len(Frames(n)) = n * Pieces
         /\ \A i \in 1..(n * Pieces) : Frames(n)[i] = FramePart(i)
<1>1. PICK k \in Nat : k = n * Pieces
  BY HandshakeAssumption
<1>2. \A i \in 1..k : FramePart(i) \in Part
  BY FrameParts
<1>3. [i \in 1..k |-> FramePart(i)] \in Seq(Part) /\ Len([i \in 1..k |-> FramePart(i)]) = k
  BY <1>2
<1> QED BY <1>1, <1>3 DEF Frames

LEMMA NoFrames == Frames(0) = <<>>
BY HandshakeAssumption DEF Frames

(* A frame after n frames makes n + 1, and so does a frame before them. *)
LEMMA MoreFrames ==
  ASSUME NEW n \in Nat
  PROVE  /\ Frames(n) \o Message("frame") = Frames(n + 1)
         /\ Message("frame") \o Frames(n) = Frames(n + 1)
<1>1. PICK k \in Nat : k = n * Pieces /\ (n + 1) * Pieces = k + Pieces
  BY HandshakeAssumption
<1>2. PICK m \in Seq(Part) :
        /\ m = Message("frame") /\ Len(m) = Pieces
        /\ \A i \in 1..Pieces : m[i] = [msg |-> "frame", part |-> i]
  BY MessageType DEF Messages
<1>3. PICK f \in Seq(Part) :
        f = Frames(n) /\ Len(f) = k /\ \A i \in 1..k : f[i] = FramePart(i)
  BY <1>1, FramesType, Zenon
<1>4. PICK g \in Seq(Part) :
        /\ g = Frames(n + 1) /\ Len(g) = k + Pieces
        /\ \A i \in 1..(k + Pieces) : g[i] = FramePart(i)
  <2>1. n + 1 \in Nat
    OBVIOUS
  <2> QED BY <1>1, <2>1, FramesType, ZenonT(40)
<1>5. ASSUME NEW i \in 1..Pieces PROVE FramePart(k + i) = m[i] /\ FramePart(i) = m[i]
  <2>1. FramePart(k + i) = m[i]
    BY <1>1, <1>2, FrameParts, Zenon
  <2>2. 0 \in Nat /\ 0 * Pieces + i = i
    BY HandshakeAssumption
  <2>3. FramePart(0 * Pieces + i) = [msg |-> "frame", part |-> i]
    BY <2>2, FrameParts, Zenon
  <2> QED BY <1>2, <2>1, <2>2, <2>3
<1>6. f \o m = g
  <2>1. \A i \in 1..Len(f) : g[i] = f[i]
    BY <1>3, <1>4, HandshakeAssumption
  <2>2. \A i \in 1..Len(m) : g[Len(f) + i] = m[i]
    BY <1>2, <1>3, <1>4, <1>5, HandshakeAssumption
  <2>3. Len(g) = Len(f) + Len(m)
    BY <1>2, <1>3, <1>4
  <2> QED BY <2>1, <2>2, <2>3, JoinEqual, Zenon
<1>7. m \o f = g
  <2>1. \A i \in 1..Len(m) : g[i] = m[i]
    BY SMTT(40), <1>2, <1>4, <1>5, HandshakeAssumption
  <2>2. ASSUME NEW i \in 1..Len(f) PROVE g[Len(m) + i] = f[i]
    <3>1. i \in Nat \ {0} /\ i \in 1..k /\ Pieces + i \in 1..(k + Pieces)
      BY <1>3, HandshakeAssumption
    <3>2. FramePart(Pieces + i) = FramePart(i)
      BY <3>1, FrameParts, Zenon
    <3> QED BY SMTT(40), <1>2, <1>3, <1>4, <3>1, <3>2
  <2>3. Len(g) = Len(m) + Len(f)
    BY <1>2, <1>3, <1>4, HandshakeAssumption
  <2> QED BY <2>1, <2>2, <2>3, JoinEqual, Zenon
<1> QED BY <1>2, <1>3, <1>4, <1>6, <1>7, Zenon

-----------------------------------------------------------------------------
(* Reads *)

LEMMA ReadTypes ==
  ASSUME NEW q \in Seq(Part), NEW n \in ReadSizes(q)
  PROVE  /\ n \in 1..Len(q) /\ n \in 0..Len(q) /\ q # <<>>
         /\ SubSeq(q, 1, n) \in Seq(Part) /\ Len(SubSeq(q, 1, n)) = n
         /\ Rest(q, n) \in Seq(Part)
BY DEF ReadSizes, Rest

LEMMA RestType ==
  ASSUME NEW q \in Seq(Part), NEW n \in 0..Len(q)
  PROVE  Rest(q, n) \in Seq(Part)
BY DEF Rest

(* What a reader takes from the front of what it has, and what is left. *)
LEMMA TakeMessage ==
  ASSUME NEW b \in Seq(Part), NEW d \in Seq(Part), NEW v \in Seq(Part), NEW m \in Messages,
         b \o d = Message(m) \o v, Len(b) >= Pieces
  PROVE  StartsWith(b, m) /\ Rest(b, Pieces) \o d = v
<1>1. PICK u \in Seq(Part) : u = Message(m) /\ Len(u) = Pieces
  BY MessageType, Zenon
<1>2. b \o d = u \o v /\ Len(u) <= Len(b)
  BY <1>1, HandshakeAssumption
<1>3. SubSeq(b, 1, Len(u)) = u /\ SubSeq(b, Len(u) + 1, Len(b)) \o d = v
  BY <1>2, CutFront, Zenon
<1> QED BY <1>1, <1>3, Zenon DEF StartsWith, Rest

(* A read of a stream that is one message gets all of it or is cut. *)
LEMMA ReadOne ==
  ASSUME NEW m \in Messages, NEW n \in ReadSizes(Message(m))
  PROVE  /\ StartsWith(SubSeq(Message(m), 1, n), m) => Rest(Message(m), n) = <<>>
         /\ ~StartsWith(SubSeq(Message(m), 1, n), m) => n < Pieces
<1>1. PICK u \in Seq(Part) : u = Message(m) /\ Len(u) = Pieces
  BY MessageType, Zenon
<1>2. n \in 1..Pieces /\ Len(SubSeq(u, 1, n)) = n
  BY <1>1, ReadTypes
<1>3. CASE n < Pieces
  BY <1>1, <1>2, <1>3, HandshakeAssumption DEF StartsWith
<1>4. CASE n = Pieces
  <2>1. SubSeq(u, 1, n) = u /\ SubSeq(u, 1, Pieces) = u
    BY <1>1, <1>4, SubSeqFull
  <2>2. Rest(u, n) = <<>>
    BY <1>1, <1>4 DEF Rest
  <2> QED BY <1>1, <1>4, <2>1, <2>2 DEF StartsWith
<1> QED BY <1>2, <1>3, <1>4, HandshakeAssumption

(* One of a stream of two gets the first, and what else it gets and what   *)
(* it leaves are the second, or it is cut.                                 *)
LEMMA ReadTwo ==
  ASSUME NEW m \in Messages, NEW k \in Messages, NEW q \in Seq(Part),
         q = Message(m) \o Message(k), NEW n \in ReadSizes(q)
  PROVE  /\ StartsWith(SubSeq(q, 1, n), m) =>
              /\ Rest(SubSeq(q, 1, n), Pieces) \in Seq(Part)
              /\ Rest(SubSeq(q, 1, n), Pieces) \o Rest(q, n) = Message(k)
         /\ ~StartsWith(SubSeq(q, 1, n), m) => n < Pieces
<1>1. PICK b \in Seq(Part), d \in Seq(Part) :
        b = SubSeq(q, 1, n) /\ d = Rest(q, n) /\ Len(b) = n
  BY ReadTypes, Zenon
<1>2. b \o d = q
  <2>1. n \in 0..Len(q)
    BY ReadTypes, Zenon
  <2>2. SubSeq(q, 1, n) \o SubSeq(q, n + 1, Len(q)) = q
    BY <2>1, SplitAt, Zenon
  <2> QED BY <1>1, <2>2, Zenon DEF Rest
<1>3. b \o d = Message(m) \o Message(k) /\ Message(k) \in Seq(Part)
  BY <1>2, MessageType, Zenon
<1>4. CASE Len(b) >= Pieces
  <2>1. StartsWith(b, m) /\ Rest(b, Pieces) \o d = Message(k)
    BY <1>3, <1>4, TakeMessage, Zenon
  <2>2. Rest(b, Pieces) \in Seq(Part)
    BY <1>4, RestType, HandshakeAssumption
  <2> QED BY <1>1, <2>1, <2>2, Zenon
<1>5. CASE ~(Len(b) >= Pieces)
  <2>1. ~StartsWith(b, m)
    BY <1>5, Zenon DEF StartsWith
  <2>2. n < Pieces
    BY <1>1, <1>5, HandshakeAssumption
  <2> QED BY <1>1, <2>1, <2>2, Zenon
<1> QED BY <1>4, <1>5, Zenon

LEMMA NothingToRead == ReadSizes(<<>>) = {}
BY DEF ReadSizes

-----------------------------------------------------------------------------
(* The stages tell the statuses of the ends apart. *)

LEMMA InStage ==
  ASSUME HandshakeInv
  PROVE  /\ server = "http_request" => Unwritten /\ Requested
         /\ server = "client_info" /\ client = "http_response" =>
              Unwritten /\ (Answered \/ Garbled)
         /\ client = "server_key" => Unwritten /\ Keyed
         /\ server = "client_info" /\ client = "server_info" => Unwritten /\ Introduced
         /\ server \in {"adding", "serving"} /\ client = "server_info" => Unwritten /\ Accepted
         /\ server \in {"adding", "serving"} /\ client = "running" => Established
         /\ server = "refused" => TurnedAway
         /\ server = "failed" => Broken
         /\ client = "failed" /\ server # "refused" => Broken
         /\ client = "running" => server \in {"adding", "serving", "refused"}
         /\ server = "client_info" => client \in {"http_response", "server_key", "server_info", "failed"}
         /\ server \in {"adding", "serving"} => client \in {"server_info", "running"}
         /\ client = "server_info" => server \in {"client_info", "adding", "serving", "refused", "failed"}
         /\ client = "http_response" => server \in {"http_request", "client_info", "failed"}
BY Zenon DEF HandshakeInv, Requested, Answered, Garbled, Keyed, Introduced, Accepted, Established,
             TurnedAway, Broken, Served

(* A response that was written in part is not taken for a whole one. *)
LEMMA NoResponse ==
  ASSUME NEW d \in Seq(Part), NEW n \in ReadSizes(d), NEW i \in 1..Pieces,
         i \in 1..Len(d), d[i].msg # "http_response"
  PROVE  ~StartsWith(SubSeq(d, 1, n), "http_response")
<1> SUFFICES ASSUME StartsWith(SubSeq(d, 1, n), "http_response") PROVE FALSE
  OBVIOUS
<1>1. PICK c \in Seq(Part) : c = SubSeq(d, 1, n) /\ Len(c) = n /\ n \in 1..Len(d)
  BY ReadTypes, Zenon
<1>2. i <= n /\ c[i] = d[i]
  <2>1. Len(c) >= Pieces
    BY <1>1, Zenon DEF StartsWith
  <2>2. i <= n
    BY <1>1, <2>1, HandshakeAssumption
  <2> QED BY <1>1, <2>2
<1>3. SubSeq(c, 1, Pieces)[i] = c[i]
  BY <1>1, <1>2, HandshakeAssumption DEF StartsWith
<1>4. SubSeq(c, 1, Pieces) = Message("http_response")
  BY <1>1, Zenon DEF StartsWith
<1>5. Message("http_response")[i].msg = "http_response"
  BY DEF Message
<1> QED BY <1>2, <1>3, <1>4, <1>5, Zenon

LEMMA NoBytes ==
  ASSUME NEW b \in Seq(Part), NEW d \in Seq(Part), b \o d = <<>>
  PROVE  b = <<>> /\ d = <<>>
BY ConcatEqualIffEmpty

LEMMA InitStage == HandshakeInit => HandshakeInv
<1> SUFFICES ASSUME HandshakeInit PROVE HandshakeInv
  OBVIOUS
<1>1. HandshakeTypeOK
  <2>1. Message("http_request") \in Seq(Part)
    BY MessageType DEF Messages
  <2>2. <<>> \in Seq(Part)
    OBVIOUS
  <2>3. taken \in Nat /\ written \in [server : Nat, client : Nat] /\ cut \in BOOLEAN
    BY Zenon DEF HandshakeInit
  <2> QED BY <2>1, <2>2, <2>3, Zenon DEF HandshakeInit, HandshakeTypeOK
<1>2. Ahead = <<>>
  BY DEF HandshakeInit, Ahead
<1>3. Unwritten /\ Requested
  BY <1>2 DEF HandshakeInit, Unwritten, Requested
<1> QED BY <1>1, <1>3, Zenon DEF HandshakeInv

LEMMA FrontType ==
  ASSUME NEW q \in Seq(Part), NEW k \in 1..Len(q)
  PROVE  SubSeq(q, 1, k) \in Seq(Part) /\ Len(SubSeq(q, 1, k)) = k
OBVIOUS

(* What the server writes after k parts of the response *)
LEMMA ShortResponse ==
  ASSUME NEW k \in 1..Pieces
  PROVE  \E d \in Seq(Part) :
           /\ d = SubSeq(Message("http_response"), 1, k) \o Message("server_key")
           /\ k = Pieces => d = Message("http_response") \o Message("server_key")
           /\ k < Pieces => /\ k + 1 \in 1..Pieces /\ k + 1 \in 1..Len(d)
                            /\ d[k + 1].msg # "http_response"
<1>1. PICK m \in Seq(Part) : m = Message("http_response") /\ Len(m) = Pieces
  BY MessageType DEF Messages
<1>2. PICK u \in Seq(Part) :
        u = Message("server_key") /\ Len(u) = Pieces /\ u[1] = [msg |-> "server_key", part |-> 1]
  BY MessageType, HandshakeAssumption DEF Messages
<1>3. PICK v \in Seq(Part) : v = SubSeq(m, 1, k) /\ Len(v) = k
  BY <1>1, FrontType, Zenon
<1>4. PICK d : d = v \o u
  OBVIOUS
<1>5. d \in Seq(Part) /\ Len(d) = k + Pieces
  BY <1>2, <1>3, <1>4, ConcatProperties, HandshakeAssumption
<1>6. k = Pieces => v = m
  BY <1>1, <1>3, SubSeqFull
<1>7. ASSUME k < Pieces
      PROVE  k + 1 \in 1..Pieces /\ k + 1 \in 1..Len(d) /\ d[k + 1].msg # "http_response"
  <2>1. k + 1 \in 1..Pieces /\ k + 1 \in 1..Len(d)
    BY <1>5, <1>7, HandshakeAssumption
  <2>2. d[k + 1] = u[1]
    BY <1>2, <1>3, <1>4, HandshakeAssumption
  <2> QED BY <1>2, <2>1, <2>2
<1> QED BY <1>1, <1>2, <1>3, <1>4, <1>5, <1>6, <1>7, Zenon

LEMMA FinalizeHttpPhaseStage ==
  ASSUME HandshakeInv, FinalizeHttpPhase PROVE HandshakeInv'
<1>1. server = "http_request" /\ Unwritten /\ Requested /\ HandshakeTypeOK
  BY InStage, Zenon DEF FinalizeHttpPhase, HandshakeInv
<1>2. up = Message("http_request") /\ buffer = <<>> /\ down = <<>>
  BY <1>1, NoBytes DEF Requested, Ahead, HandshakeTypeOK
<1>3. PICK n \in ReadSizes(up), k \in 1..Pieces :
        /\ up' = Rest(up, n)
        /\ IF StartsWith(SubSeq(up, 1, n), "http_request")
           THEN /\ down' = down \o SubSeq(Message("http_response"), 1, k) \o Message("server_key")
                /\ cut' = (cut \/ k < Pieces)
                /\ server' = "client_info"
           ELSE server' = "failed" /\ cut' = (cut \/ n < Pieces) /\ UNCHANGED down
  BY Zenon DEF FinalizeHttpPhase
<1>4. UNCHANGED <<client, buffer, inbox, taken, written, meshkey>>
  BY Zenon DEF FinalizeHttpPhase
<1>5. /\ StartsWith(SubSeq(up, 1, n), "http_request") => up' = <<>>
      /\ ~StartsWith(SubSeq(up, 1, n), "http_request") => n < Pieces
  BY <1>2, <1>3, ReadOne DEF Messages
<1>6. up' \in Seq(Part)
  BY <1>1, <1>3, ReadTypes DEF HandshakeTypeOK
<1>7. cut' \in BOOLEAN
  BY <1>3
<1>8. CASE StartsWith(SubSeq(up, 1, n), "http_request")
  <2>1. PICK d \in Seq(Part) :
          /\ d = SubSeq(Message("http_response"), 1, k) \o Message("server_key")
          /\ k = Pieces => d = Message("http_response") \o Message("server_key")
          /\ k < Pieces => /\ k + 1 \in 1..Pieces /\ k + 1 \in 1..Len(d)
                           /\ d[k + 1].msg # "http_response"
    BY ShortResponse, Zenon
  <2>2. down' = d
    <3>1. PICK m \in Seq(Part) : m = SubSeq(Message("http_response"), 1, k)
      <4>1. PICK u \in Seq(Part) : u = Message("http_response") /\ Len(u) = Pieces
        BY MessageType DEF Messages
      <4> QED BY <4>1, FrontType, Zenon
    <3>2. <<>> \o m = m
      BY <3>1, ConcatEmptySeq
    <3> QED BY <1>2, <1>3, <1>8, <2>1, <3>1, <3>2, Zenon
  <2>3. /\ down' \in Seq(Part)
        /\ k = Pieces => down' = Message("http_response") \o Message("server_key")
        /\ k < Pieces => /\ k + 1 \in 1..Pieces /\ k + 1 \in 1..Len(down')
                         /\ down'[k + 1].msg # "http_response"
    BY <2>1, <2>2, Zenon
  <2>4. HandshakeTypeOK'
    BY <1>1, <1>4, <1>6, <1>7, <2>3 DEF HandshakeTypeOK
  <2>5. Unwritten'
    BY <1>1, <1>4 DEF Unwritten
  <2>6. CASE k = Pieces
    <3>1. Answered'
      BY Zenon, <1>1, <1>2, <1>3, <1>4, <1>5, <1>8, <2>3, <2>6 DEF Requested, Answered
    <3> QED BY <2>4, <2>5, <3>1, Zenon DEF HandshakeInv
  <2>7. CASE k < Pieces
    <3>1. Garbled'
      BY Zenon, <1>1, <1>2, <1>3, <1>4, <1>5, <1>8, <2>3, <2>7 DEF Requested, Garbled
    <3> QED BY <2>4, <2>5, <3>1, Zenon DEF HandshakeInv
  <2>8. k = Pieces \/ k < Pieces
    BY HandshakeAssumption
  <2> QED BY <2>6, <2>7, <2>8, Zenon
<1>9. CASE ~StartsWith(SubSeq(up, 1, n), "http_request")
  <2>1. HandshakeTypeOK'
    BY <1>1, <1>3, <1>4, <1>6, <1>7, <1>9 DEF HandshakeTypeOK
  <2>2. Broken'
    BY Zenon, <1>1, <1>3, <1>4, <1>5, <1>9 DEF Requested, Broken, Silent, Unwritten, Ahead
  <2> QED BY <2>1, <2>2, Zenon DEF HandshakeInv
<1> QED BY <1>8, <1>9, Zenon

LEMMA ReadClientInfoStage ==
  ASSUME HandshakeInv, ReadClientInfo PROVE HandshakeInv'
<1>1. server = "client_info" /\ HandshakeTypeOK
  BY Zenon DEF ReadClientInfo, HandshakeInv
<1>2. PICK n \in ReadSizes(up) :
        /\ up' = Rest(up, n)
        /\ cut' = (cut \/ n < Pieces)
        /\ IF StartsWith(SubSeq(up, 1, n), "client_info")
           THEN down' = down \o Message("server_info") /\ server' = "adding"
           ELSE server' = "failed" /\ UNCHANGED down
  BY Zenon DEF ReadClientInfo
<1>3. UNCHANGED <<client, buffer, inbox, taken, written, meshkey>>
  BY Zenon DEF ReadClientInfo
<1>4. up # <<>>
  BY <1>2, NothingToRead
<1>5. Unwritten /\ Introduced
  BY <1>1, <1>4, InStage DEF Answered, Garbled, Keyed, Broken
<1>6. up = Message("client_info") /\ buffer = <<>> /\ down = <<>>
  BY <1>1, <1>5, NoBytes DEF Introduced, Ahead, HandshakeTypeOK
<1>7. /\ StartsWith(SubSeq(up, 1, n), "client_info") => up' = <<>>
      /\ ~StartsWith(SubSeq(up, 1, n), "client_info") => n < Pieces
  BY <1>2, <1>6, ReadOne DEF Messages
<1>8. up' \in Seq(Part) /\ cut' \in BOOLEAN
  BY <1>1, <1>2, ReadTypes DEF HandshakeTypeOK
<1>9. CASE StartsWith(SubSeq(up, 1, n), "client_info")
  <2>1. down' = Message("server_info") /\ down' \in Seq(Part)
    BY <1>2, <1>6, <1>9, MessageType, ConcatEmptySeq DEF Messages
  <2>2. HandshakeTypeOK'
    BY <1>1, <1>3, <1>8, <2>1 DEF HandshakeTypeOK
  <2>3. Frames(written'.server) = <<>>
    BY <1>3, <1>5, NoFrames DEF Introduced
  <2>4. Ahead' = Message("server_info") \o Frames(written'.server)
    BY <1>3, <1>6, <2>1, <2>3, MessageType, ConcatEmptySeq DEF Ahead, Messages
  <2>5. Unwritten' /\ Accepted'
    BY Zenon, <1>2, <1>3, <1>5, <1>7, <1>9, <2>4 DEF Unwritten, Introduced, Accepted, Served
  <2> QED BY <2>2, <2>5, Zenon DEF HandshakeInv
<1>10. CASE ~StartsWith(SubSeq(up, 1, n), "client_info")
  <2>1. HandshakeTypeOK'
    BY <1>1, <1>2, <1>3, <1>8, <1>10 DEF HandshakeTypeOK
  <2>2. Broken'
    BY Zenon, <1>2, <1>3, <1>5, <1>7, <1>10 DEF Introduced, Broken, Silent, Unwritten, Ahead
  <2> QED BY <2>1, <2>2, Zenon DEF HandshakeInv
<1> QED BY <1>9, <1>10, Zenon

LEMMA AddNewClientStage ==
  ASSUME HandshakeInv, AddNewClient PROVE HandshakeInv'
<1>1. server = "adding" /\ HandshakeTypeOK /\ client \in {"server_info", "running"}
  BY InStage, Zenon DEF AddNewClient, HandshakeInv
<1>2. /\ server' = IF Admitted THEN "serving" ELSE "refused"
      /\ UNCHANGED <<client, up, down, buffer, inbox, taken, written, cut, meshkey>>
  BY Zenon DEF AddNewClient
<1>3. HandshakeTypeOK' /\ Ahead' = Ahead /\ (Admitted' <=> Admitted)
  BY Zenon, <1>1, <1>2 DEF HandshakeTypeOK, Ahead, Admitted
<1>4. (Unwritten /\ Accepted) \/ Established
  BY <1>1, InStage, Zenon
<1>5. CASE Admitted
  <2>1. Served'
    BY Zenon, <1>2, <1>3, <1>5 DEF Served
  <2> QED BY Zenon, <1>2, <1>3, <1>4, <2>1 DEF HandshakeInv, Unwritten, Accepted, Established
<1>6. CASE ~Admitted
  <2>1. server' = "refused" /\ ~Admitted' /\ inbox = <<>> /\ written.server = 0
    BY <1>1, <1>2, <1>3, <1>4, <1>6 DEF Served, Accepted, Established
  <2>2. CASE Unwritten /\ Accepted
    <3>1. Ahead = Message("server_info")
      BY <2>1, <2>2, NoFrames, MessageType, ConcatEmptySeq DEF Accepted, Messages
    <3> QED BY Zenon, <1>2, <1>3, <2>1, <2>2, <3>1
            DEF HandshakeInv, TurnedAway, Silent, Unwritten, Accepted
  <2>3. CASE Established
    <3>1. taken = 0 /\ written.server - taken = 0
      BY <1>1, <2>1, <2>3 DEF Established, HandshakeTypeOK
    <3>2. Ahead = <<>>
      BY <2>3, <3>1, NoFrames, Zenon DEF Established
    <3> QED BY Zenon, <1>2, <1>3, <2>1, <2>3, <3>1, <3>2
            DEF HandshakeInv, TurnedAway, Silent, Established
  <2> QED BY <1>4, <2>2, <2>3, Zenon
<1> QED BY <1>5, <1>6, Zenon

LEMMA ResetStage ==
  ASSUME HandshakeInv, Reset PROVE HandshakeInv'
<1>1. /\ HandshakeTypeOK /\ (Broken \/ TurnedAway)
      /\ client' = "failed" /\ down' = <<>>
      /\ UNCHANGED <<server, up, buffer, inbox, taken, written, cut, meshkey>>
  BY InStage, Zenon DEF HandshakeInv, Reset
<1>2. HandshakeTypeOK'
  <2>1. <<>> \in Seq(Part)
    OBVIOUS
  <2> QED BY Zenon, <1>1, <2>1 DEF HandshakeTypeOK
<1>3. CASE server = "failed"
  BY Zenon, <1>1, <1>2, <1>3 DEF HandshakeInv, Broken, TurnedAway, Silent
<1>4. CASE server = "refused"
  BY Zenon, <1>1, <1>2, <1>4 DEF HandshakeInv, Broken, TurnedAway, Silent, Admitted
<1> QED BY <1>3, <1>4, Zenon DEF Reset

LEMMA EofStage ==
  ASSUME HandshakeInv, ServerEof \/ ConnectHttpEof PROVE HandshakeInv'
<1>1. HandshakeTypeOK' /\ Broken
  BY InStage DEF HandshakeInv, HandshakeTypeOK, ServerEof, ConnectHttpEof
<1>2. Broken'
  BY Zenon, <1>1 DEF Broken, Silent, ServerEof, ConnectHttpEof, Ahead
<1> QED BY <1>1, <1>2, Zenon DEF HandshakeInv

LEMMA ServerReadStage ==
  ASSUME HandshakeInv, ServerRead PROVE HandshakeInv'
<1>1. server = "serving" /\ HandshakeTypeOK
  BY Zenon DEF ServerRead, HandshakeInv
<1>2. PICK n \in ReadSizes(up) : inbox' = inbox \o SubSeq(up, 1, n) /\ up' = Rest(up, n)
  BY Zenon DEF ServerRead
<1>3. UNCHANGED <<server, client, down, buffer, taken, written, cut, meshkey>>
  BY Zenon DEF ServerRead
<1>4. up # <<>>
  BY <1>2, NothingToRead
<1>5. Established
  BY <1>1, <1>4, InStage DEF Accepted
<1>6. up' \in Seq(Part) /\ inbox' \in Seq(Part)
  BY <1>1, <1>2, ReadTypes, ConcatProperties DEF HandshakeTypeOK
<1>7. inbox' \o up' = inbox \o up
  <2>1. up \in Seq(Part) /\ inbox \in Seq(Part) /\ n \in 0..Len(up)
    BY <1>1, ReadTypes DEF HandshakeTypeOK
  <2>2. (inbox \o SubSeq(up, 1, n)) \o SubSeq(up, n + 1, Len(up)) = inbox \o up
    BY <2>1, ReadInto, Zenon
  <2> QED BY <1>2, <2>2, Zenon DEF Rest
<1>8. HandshakeTypeOK'
  BY <1>1, <1>3, <1>6 DEF HandshakeTypeOK
<1>9. Established'
  BY <1>1, <1>3, <1>5, <1>7, Zenon DEF Established, Served, Admitted, Ahead
<1> QED BY <1>8, <1>9, Zenon DEF HandshakeInv

(* A frame that is written is the last of those ahead. *)
LEMMA WrittenBehind ==
  ASSUME NEW b \in Seq(Part), NEW d \in Seq(Part), NEW n \in Nat, b \o d = Frames(n)
  PROVE  b \o (d \o Message("frame")) = Frames(n + 1)
<1>1. PICK m \in Seq(Part) : m = Message("frame")
  BY MessageType DEF Messages
<1>2. PICK f : f = Frames(n) /\ f = b \o d
  OBVIOUS
<1>3. f = b \o d
  BY <1>2
<1>4. f \o m = b \o (d \o m)
  BY ONLY <1>3, b \in Seq(Part), d \in Seq(Part), m \in Seq(Part), Regroup
<1>5. Frames(n) \o m = Frames(n + 1)
  BY <1>1, MoreFrames, Zenon
<1> QED BY <1>1, <1>2, <1>4, <1>5, Zenon

(* So it is while the server info is ahead of them. *)
LEMMA WrittenBehindInfo ==
  ASSUME NEW b \in Seq(Part), NEW d \in Seq(Part), NEW n \in Nat,
         b \o d = Message("server_info") \o Frames(n)
  PROVE  b \o (d \o Message("frame")) = Message("server_info") \o Frames(n + 1)
<1>1. PICK m \in Seq(Part) : m = Message("frame")
  BY MessageType DEF Messages
<1>2. PICK i \in Seq(Part) : i = Message("server_info")
  BY MessageType DEF Messages
<1>3. PICK f \in Seq(Part) : f = Frames(n)
  BY FramesType, Zenon
<1>4. PICK a : a = b \o d /\ a = i \o f
  BY Zenon, <1>2, <1>3
<1>5. a \o m = b \o (d \o m)
  <2>1. a = b \o d
    BY <1>4
  <2> QED BY ONLY <2>1, b \in Seq(Part), d \in Seq(Part), m \in Seq(Part), Regroup
<1>6. a \o m = i \o (f \o m)
  <2>1. a = i \o f
    BY Zenon, <1>4
  <2> QED BY ONLY <2>1, i \in Seq(Part), f \in Seq(Part), m \in Seq(Part), Regroup
<1>7. f \o m = Frames(n + 1)
  BY <1>1, <1>3, MoreFrames, Zenon
<1> QED BY <1>1, <1>2, <1>5, <1>6, <1>7, Zenon

LEMMA ServerWriteStage ==
  ASSUME HandshakeInv, ServerWrite PROVE HandshakeInv'
<1>1. server = "serving" /\ HandshakeTypeOK /\ client \in {"server_info", "running"}
  BY InStage, Zenon DEF ServerWrite, HandshakeInv
<1>2. /\ down' = down \o Message("frame")
      /\ written' = [written EXCEPT !.server = @ + 1]
      /\ UNCHANGED <<server, client, up, buffer, inbox, taken, cut, meshkey>>
  BY Zenon DEF ServerWrite
<1>3. PICK m \in Seq(Part) : m = Message("frame")
  BY MessageType DEF Messages
<1>4. down' \in Seq(Part)
  BY <1>1, <1>2, <1>3, ConcatProperties DEF HandshakeTypeOK
<1>5. /\ written' \in [server : Nat, client : Nat] /\ written'.client = written.client
      /\ written'.server = written.server + 1 /\ written.server \in Nat
  <2>1. written \in [server : Nat, client : Nat]
    BY <1>1, Zenon DEF HandshakeTypeOK
  <2> QED BY <1>2, <2>1
<1>6. HandshakeTypeOK'
  BY <1>1, <1>2, <1>4, <1>5 DEF HandshakeTypeOK
<1>7. CASE client = "server_info"
  <2>1. Unwritten /\ Accepted
    BY <1>1, <1>7, InStage, Zenon
  <2>2. PICK n \in Nat : n = written.server /\ written'.server = n + 1
    BY <1>5
  <2>3. /\ buffer \in Seq(Part) /\ down \in Seq(Part)
        /\ buffer \o down = Message("server_info") \o Frames(n)
    BY <1>1, <2>1, <2>2, Zenon DEF HandshakeTypeOK, Accepted, Ahead
  <2>4. buffer \o (down \o Message("frame")) = Message("server_info") \o Frames(n + 1)
    BY <2>3, WrittenBehindInfo, Zenon
  <2>6. Ahead' = Message("server_info") \o Frames(written'.server)
    BY <1>2, <2>2, <2>4, Zenon DEF Ahead
  <2>7. Unwritten' /\ Accepted'
    BY Zenon, <1>1, <1>2, <1>5, <2>1, <2>6 DEF Unwritten, Accepted, Served, Admitted
  <2> QED BY <1>6, <2>7, Zenon DEF HandshakeInv
<1>8. CASE client = "running"
  <2>1. Established
    BY <1>1, <1>8, InStage, Zenon
  <2>2. PICK k \in Nat : k = written.server - taken /\ written'.server - taken = k + 1
    BY <1>1, <1>5, <2>1 DEF Established, HandshakeTypeOK
  <2>3. buffer \in Seq(Part) /\ down \in Seq(Part) /\ buffer \o down = Frames(k)
    BY <1>1, <2>1, <2>2, Zenon DEF HandshakeTypeOK, Established, Ahead
  <2>4. buffer \o (down \o Message("frame")) = Frames(k + 1)
    BY <2>3, WrittenBehind, ZenonT(40)
  <2>5. Ahead' = Frames(written'.server - taken')
    BY <1>2, <2>2, <2>4, Zenon DEF Ahead
  <2>6. taken' <= written'.server
    BY SMTT(40), <1>1, <1>2, <1>5, <2>1 DEF Established, HandshakeTypeOK
  <2>7. Established'
    BY <1>1, <1>2, <1>5, <2>1, <2>5, <2>6, Zenon DEF Established, Served, Admitted
  <2> QED BY <1>6, <2>7, Zenon DEF HandshakeInv
<1> QED BY <1>1, <1>7, <1>8, Zenon

LEMMA ConnectHttpStage ==
  ASSUME HandshakeInv, ConnectHttp PROVE HandshakeInv'
<1>1. client = "http_response" /\ HandshakeTypeOK
  BY Zenon DEF ConnectHttp, HandshakeInv
<1>2. PICK n \in ReadSizes(down) :
        /\ down' = Rest(down, n)
        /\ cut' = (cut \/ n < Pieces)
        /\ IF StartsWith(SubSeq(down, 1, n), "http_response")
           THEN buffer' = Leftovers(SubSeq(down, 1, n)) /\ client' = "server_key"
           ELSE client' = "failed" /\ UNCHANGED buffer
  BY Zenon DEF ConnectHttp
<1>3. UNCHANGED <<server, up, inbox, taken, written, meshkey>>
  BY Zenon DEF ConnectHttp
<1>4. down # <<>>
  BY <1>2, NothingToRead
<1>5. Unwritten /\ (Answered \/ Garbled)
  <2>1. Ahead # <<>>
    BY <1>1, <1>4, NoBytes DEF Ahead, HandshakeTypeOK
  <2> QED BY <1>1, <2>1, InStage DEF Requested, Broken
<1>6. down \in Seq(Part) /\ server = "client_info" /\ up = <<>> /\ written.server = 0
  BY <1>1, <1>5, Zenon DEF HandshakeTypeOK, Answered, Garbled
<1>7. "http_response" \in Messages /\ "server_key" \in Messages
  BY DEF Messages
<1>8. CASE StartsWith(SubSeq(down, 1, n), "http_response")
  <2>1. Answered
    <3>1. ASSUME Garbled PROVE FALSE
      BY <1>6, <1>8, <3>1, NoResponse, Zenon DEF Garbled
    <3> QED BY <1>5, <3>1, Zenon
  <2>2. /\ Rest(SubSeq(down, 1, n), Pieces) \in Seq(Part)
        /\ Rest(SubSeq(down, 1, n), Pieces) \o Rest(down, n) = Message("server_key")
    <3>1. down = Message("http_response") \o Message("server_key")
      BY <2>1, Zenon DEF Answered
    <3> QED BY <1>6, <1>7, <1>8, <3>1, ReadTwo, Zenon
  <2>3. down' \in Seq(Part) /\ cut' \in BOOLEAN
    BY Zenon, <1>2, <1>6, ReadTypes
  <2>4. buffer' \in Seq(Part) /\ Ahead' = Message("server_key")
    BY <1>2, <1>8, <2>2, Zenon DEF Leftovers, Ahead
  <2>5. HandshakeTypeOK'
    BY <1>1, <1>3, <2>3, <2>4 DEF HandshakeTypeOK
  <2>6. Unwritten' /\ Keyed'
    BY Zenon, <1>2, <1>3, <1>5, <1>6, <1>8, <2>4 DEF Unwritten, Keyed
  <2> QED BY <2>5, <2>6, Zenon DEF HandshakeInv
<1>9. CASE ~StartsWith(SubSeq(down, 1, n), "http_response")
  <2>1. cut'
    <3>1. CASE Answered
      <4>1. down = Message("http_response") \o Message("server_key")
        BY <3>1, Zenon DEF Answered
      <4> QED BY <1>2, <1>6, <1>7, <1>9, <4>1, ReadTwo, Zenon
    <3>2. CASE Garbled
      BY <1>2, <3>2, Zenon DEF Garbled
    <3> QED BY <1>5, <3>1, <3>2, Zenon
  <2>2. down' \in Seq(Part) /\ cut' \in BOOLEAN
    BY Zenon, <1>2, <1>6, ReadTypes
  <2>3. HandshakeTypeOK'
    BY <1>1, <1>2, <1>3, <1>9, <2>2 DEF HandshakeTypeOK
  <2>4. Broken'
    BY Zenon, <1>2, <1>3, <1>5, <1>6, <1>9, <2>1 DEF Unwritten, Broken, Silent
  <2> QED BY <2>3, <2>4, Zenon DEF HandshakeInv
<1> QED BY <1>8, <1>9, Zenon

LEMMA FillBufferStage ==
  ASSUME HandshakeInv, FillBuffer PROVE HandshakeInv'
<1>1. client \in {"server_key", "server_info", "running"} /\ HandshakeTypeOK
  BY Zenon DEF FillBuffer, HandshakeInv
<1>2. PICK n \in ReadSizes(down) : buffer' = buffer \o SubSeq(down, 1, n) /\ down' = Rest(down, n)
  BY Zenon DEF FillBuffer
<1>3. UNCHANGED <<server, client, up, inbox, taken, written, cut, meshkey>>
  BY Zenon DEF FillBuffer
<1>4. down \in Seq(Part) /\ buffer \in Seq(Part) /\ n \in 0..Len(down)
  BY <1>1, ReadTypes DEF HandshakeTypeOK
<1>5. down' \in Seq(Part) /\ buffer' \in Seq(Part)
  BY <1>2, <1>4, ReadTypes, ConcatProperties
<1>6. Ahead' = Ahead
  <2>1. (buffer \o SubSeq(down, 1, n)) \o SubSeq(down, n + 1, Len(down)) = buffer \o down
    BY <1>4, ReadInto, Zenon
  <2> QED BY <1>2, <2>1, Zenon DEF Rest, Ahead
<1>7. HandshakeTypeOK'
  BY <1>1, <1>3, <1>5 DEF HandshakeTypeOK
<1>8. /\ Unwritten => Unwritten'
      /\ Keyed => Keyed'
      /\ Introduced => Introduced'
      /\ Accepted => Accepted'
      /\ Established => Established'
      /\ TurnedAway => TurnedAway'
      /\ Broken => Broken'
  BY Zenon, <1>3, <1>6 DEF Unwritten, Keyed, Introduced, Accepted, Established, TurnedAway, Broken,
                           Served, Silent, Admitted
<1>9. ~Requested /\ ~Answered /\ ~Garbled
  BY <1>1 DEF Requested, Answered, Garbled
<1>10. (Unwritten /\ (Keyed \/ Introduced \/ Accepted)) \/ Established \/ TurnedAway \/ Broken
  BY <1>9, Zenon DEF HandshakeInv
<1>11. (Unwritten' /\ (Keyed' \/ Introduced' \/ Accepted')) \/ Established' \/ TurnedAway' \/ Broken'
  BY <1>8, <1>10, Zenon
<1> QED BY <1>7, <1>11, Zenon DEF HandshakeInv

LEMMA ExchangeKeysStage ==
  ASSUME HandshakeInv, ExchangeKeys PROVE HandshakeInv'
<1>1. client = "server_key" /\ Len(buffer) >= Pieces /\ HandshakeTypeOK /\ Unwritten /\ Keyed
  BY InStage, Zenon DEF ExchangeKeys, HandshakeInv
<1>2. /\ "server_key" \in Messages /\ <<>> \in Seq(Part)
      /\ buffer \in Seq(Part) /\ down \in Seq(Part)
  BY <1>1 DEF Messages, HandshakeTypeOK
<1>3. buffer \o down = Message("server_key") \o <<>>
  BY <1>1, <1>2, MessageType, ConcatEmptySeq, Zenon DEF Keyed, Ahead
<1>4. StartsWith(buffer, "server_key") /\ Rest(buffer, Pieces) \o down = <<>>
  BY <1>1, <1>2, <1>3, TakeMessage, Zenon
<1>5. Rest(buffer, Pieces) \in Seq(Part)
  BY <1>1, <1>2, RestType, HandshakeAssumption
<1>6. /\ buffer' = Rest(buffer, Pieces) /\ up' = up \o Message("client_info")
      /\ client' = "server_info"
      /\ UNCHANGED <<server, down, inbox, taken, written, cut, meshkey>>
  BY <1>4, Zenon DEF ExchangeKeys
<1>7. up' = Message("client_info") /\ up' \in Seq(Part)
  BY <1>1, <1>6, MessageType, ConcatEmptySeq DEF Keyed, Messages
<1>8. HandshakeTypeOK'
  BY <1>1, <1>5, <1>6, <1>7 DEF HandshakeTypeOK
<1>9. Ahead' = <<>>
  BY <1>4, <1>6, Zenon DEF Ahead
<1>10. Unwritten' /\ Introduced'
  BY <1>1, <1>6, <1>7, <1>9 DEF Unwritten, Keyed, Introduced
<1> QED BY <1>8, <1>10, Zenon DEF HandshakeInv

LEMMA ReadServerInfoStage ==
  ASSUME HandshakeInv, ReadServerInfo PROVE HandshakeInv'
<1>1. client = "server_info" /\ Len(buffer) >= Pieces /\ HandshakeTypeOK
  BY Zenon DEF ReadServerInfo, HandshakeInv
<1>2. /\ "server_info" \in Messages /\ "frame" \in Messages
      /\ buffer \in Seq(Part) /\ down \in Seq(Part)
  BY <1>1 DEF Messages, HandshakeTypeOK
<1>3. Ahead # <<>>
  <2>1. buffer # <<>>
    BY <1>1, HandshakeAssumption
  <2> QED BY <1>2, <2>1, NoBytes, Zenon DEF Ahead
<1>4. Rest(buffer, Pieces) \in Seq(Part)
  BY <1>1, <1>2, RestType, HandshakeAssumption
<1>5. (Unwritten /\ Accepted) \/ (TurnedAway /\ Ahead = Message("server_info"))
  BY <1>1, <1>3, InStage DEF Introduced, Broken, TurnedAway
<1>6. PICK f \in Seq(Part) :
        /\ Unwritten /\ Accepted => f = Frames(written.server)
        /\ TurnedAway => f = <<>>
        /\ buffer \o down = Message("server_info") \o f
  <2>1. CASE Unwritten /\ Accepted
    <3>1. ~TurnedAway
      BY <2>1 DEF Accepted, Served, TurnedAway
    <3>2. Frames(written.server) \in Seq(Part)
      BY <1>1, FramesType DEF HandshakeTypeOK
    <3> QED BY <2>1, <3>1, <3>2, Zenon DEF Accepted, Ahead
  <2>2. CASE TurnedAway /\ Ahead = Message("server_info")
    <3>1. ~Accepted
      BY <2>2 DEF Accepted, Served, TurnedAway
    <3>2. <<>> \in Seq(Part) /\ Message("server_info") \o <<>> = Message("server_info")
      BY <1>2, MessageType, ConcatEmptySeq
    <3> QED BY <2>2, <3>1, <3>2, Zenon DEF Ahead
  <2> QED BY <1>5, <2>1, <2>2, Zenon
<1>7. StartsWith(buffer, "server_info") /\ Rest(buffer, Pieces) \o down = f
  BY <1>1, <1>2, <1>6, TakeMessage, Zenon
<1>8. /\ buffer' = Rest(buffer, Pieces) /\ up' = up \o Message("frame")
      /\ written' = [written EXCEPT !.client = @ + 1]
      /\ client' = "running"
      /\ UNCHANGED <<server, down, inbox, taken, cut, meshkey>>
  BY <1>7, Zenon DEF ReadServerInfo
<1>9. up' = Message("frame") /\ up' \in Seq(Part)
  <2>1. up = <<>>
    BY <1>1, <1>5 DEF Accepted, TurnedAway
  <2> QED BY <1>2, <1>8, <2>1, MessageType, ConcatEmptySeq
<1>10. /\ written' \in [server : Nat, client : Nat] /\ written.server \in Nat
       /\ written'.client = written.client + 1 /\ written'.server = written.server
  <2>1. written \in [server : Nat, client : Nat]
    BY <1>1, Zenon DEF HandshakeTypeOK
  <2> QED BY <1>8, <2>1
<1>11. HandshakeTypeOK'
  BY <1>1, <1>4, <1>8, <1>9, <1>10 DEF HandshakeTypeOK
<1>12. Ahead' = f
  BY <1>7, <1>8, Zenon DEF Ahead
<1>13. CASE Unwritten /\ Accepted
  <2>1. inbox' \o up' = Frames(written'.client)
    <3>1. <<>> \o Message("frame") = Message("frame")
      BY <1>2, MessageType, ConcatEmptySeq
    <3>2. Frames(0) \o Message("frame") = Frames(0 + 1)
      BY MoreFrames, Zenon, 0 \in Nat
    <3>3. 0 + 1 = 1 /\ inbox' = <<>> /\ written'.client = 1
      BY <1>8, <1>10, <1>13 DEF Unwritten
    <3> QED BY <1>9, <3>1, <3>2, <3>3, NoFrames, Zenon
  <2>2. taken' <= written'.server /\ written'.server - taken' = written.server
    BY <1>8, <1>10, <1>13 DEF Unwritten
  <2>3. Ahead' = Frames(written'.server - taken')
    BY <1>6, <1>12, <1>13, <2>2, Zenon
  <2>4. Established'
    BY Zenon, <1>8, <1>10, <1>13, <2>1, <2>2, <2>3 DEF Established, Accepted, Served, Admitted
  <2> QED BY <1>11, <2>4, Zenon DEF HandshakeInv
<1>14. CASE TurnedAway
  <2>1. TurnedAway'
    BY Zenon, <1>6, <1>8, <1>10, <1>12, <1>14 DEF TurnedAway, Silent, Admitted
  <2> QED BY <1>11, <2>1, Zenon DEF HandshakeInv
<1> QED BY <1>5, <1>13, <1>14, Zenon

LEMMA ClientReadStage ==
  ASSUME HandshakeInv, ClientRead PROVE HandshakeInv'
<1>1. client = "running" /\ StartsWith(buffer, "frame") /\ HandshakeTypeOK /\ Established
  <2>1. client = "running" /\ StartsWith(buffer, "frame") /\ HandshakeTypeOK
    BY Zenon DEF ClientRead, HandshakeInv
  <2>2. buffer # <<>>
    BY <2>1, HandshakeAssumption DEF StartsWith
  <2>3. Ahead # <<>>
    BY <2>1, <2>2, NoBytes, Zenon DEF Ahead, HandshakeTypeOK
  <2> QED BY <2>1, <2>3, InStage DEF TurnedAway
<1>2. /\ taken' = taken + 1 /\ buffer' = Rest(buffer, Pieces)
      /\ UNCHANGED <<server, client, up, down, inbox, written, cut, meshkey>>
  BY Zenon DEF ClientRead
<1>3. /\ "frame" \in Messages /\ Len(buffer) >= Pieces
      /\ buffer \in Seq(Part) /\ down \in Seq(Part)
  BY <1>1 DEF Messages, HandshakeTypeOK, StartsWith
<1>4. /\ taken \in Nat /\ written.server \in Nat /\ taken <= written.server
      /\ Ahead = Frames(written.server - taken)
  BY <1>1 DEF HandshakeTypeOK, Established
<1>5. written.server # taken
  <2>1. buffer # <<>>
    BY <1>3, HandshakeAssumption
  <2>2. Ahead # <<>>
    BY <1>3, <2>1, NoBytes, Zenon DEF Ahead
  <2>3. written.server = taken => written.server - taken = 0
    BY <1>4
  <2> QED BY <1>4, <2>2, <2>3, NoFrames, Zenon
<1>6. PICK k \in Nat : written.server - taken = k + 1 /\ written.server - taken' = k
  BY <1>2, <1>4, <1>5
<1>7. Frames(k) \in Seq(Part) /\ buffer \o down = Message("frame") \o Frames(k)
  BY <1>4, <1>6, FramesType, MoreFrames, Zenon DEF Ahead
<1>8. Rest(buffer, Pieces) \o down = Frames(k)
  BY <1>3, <1>7, TakeMessage, Zenon
<1>9. Rest(buffer, Pieces) \in Seq(Part)
  BY <1>3, RestType, HandshakeAssumption
<1>10. HandshakeTypeOK'
  BY <1>1, <1>2, <1>9 DEF HandshakeTypeOK
<1>11. Ahead' = Frames(written'.server - taken')
  BY <1>2, <1>6, <1>8, Zenon DEF Ahead
<1>12. taken' <= written'.server
  BY <1>2, <1>4, <1>5
<1>13. Established'
  BY <1>1, <1>2, <1>11, <1>12, Zenon DEF Established, Served, Admitted
<1> QED BY <1>10, <1>13, Zenon DEF HandshakeInv

LEMMA WriteFrameStage ==
  ASSUME HandshakeInv, WriteFrame PROVE HandshakeInv'
<1>1. client = "running" /\ HandshakeTypeOK /\ (Established \/ TurnedAway)
  BY InStage, Zenon DEF WriteFrame, HandshakeInv
<1>2. /\ up' = up \o Message("frame")
      /\ written' = [written EXCEPT !.client = @ + 1]
      /\ UNCHANGED <<server, client, down, buffer, inbox, taken, cut, meshkey>>
  BY Zenon DEF WriteFrame
<1>3. PICK m \in Seq(Part) : m = Message("frame")
  BY MessageType DEF Messages
<1>4. up' \in Seq(Part)
  BY <1>1, <1>2, <1>3, ConcatProperties DEF HandshakeTypeOK
<1>5. /\ written' \in [server : Nat, client : Nat] /\ written'.server = written.server
      /\ written'.client = written.client + 1 /\ written.client \in Nat
  <2>1. written \in [server : Nat, client : Nat]
    BY <1>1, Zenon DEF HandshakeTypeOK
  <2> QED BY <1>2, <2>1
<1>6. HandshakeTypeOK'
  BY <1>1, <1>2, <1>4, <1>5 DEF HandshakeTypeOK
<1>7. CASE Established
  <2>1. inbox \in Seq(Part) /\ up \in Seq(Part) /\ inbox \o up = Frames(written.client)
    BY <1>1, <1>7, Zenon DEF HandshakeTypeOK, Established
  <2>2. inbox \o (up \o Message("frame")) = Frames(written.client + 1)
    BY <1>5, <2>1, WrittenBehind, ZenonT(40)
  <2>3. inbox' \o up' = Frames(written'.client)
    BY <1>2, <1>5, <2>2, Zenon
  <2>4. Established'
    BY <1>2, <1>5, <1>7, <2>3, Zenon DEF Established, Served, Admitted, Ahead
  <2> QED BY <1>6, <2>4, Zenon DEF HandshakeInv
<1>8. CASE TurnedAway
  <2>1. TurnedAway'
    BY <1>1, <1>2, <1>5, <1>8, Zenon DEF TurnedAway, Silent, Admitted, Ahead
  <2> QED BY <1>6, <2>1, Zenon DEF HandshakeInv
<1> QED BY <1>1, <1>7, <1>8, Zenon

LEMMA NextStage ==
  ASSUME HandshakeInv, [HandshakeNext]_handshake_vars PROVE HandshakeInv'
<1>1. CASE UNCHANGED handshake_vars
  BY Zenon, <1>1 DEF handshake_vars, HandshakeInv, HandshakeTypeOK, Unwritten, Requested, Answered,
              Garbled, Keyed, Introduced, Accepted, Established, TurnedAway, Broken, Served, Silent,
              Admitted, Ahead
<1> QED BY <1>1, FinalizeHttpPhaseStage, ReadClientInfoStage, AddNewClientStage, ResetStage,
           EofStage, ServerReadStage,
           ServerWriteStage, ConnectHttpStage, FillBufferStage, ExchangeKeysStage,
           ReadServerInfoStage, ClientReadStage, WriteFrameStage, Zenon
        DEF HandshakeNext, ServerStep, ClientStep

-----------------------------------------------------------------------------
(***************************************************************************)
(* Both ends of a handshake are always in one of its stages, whatever the  *)
(* number of parts of a message, the messages within which reads may end   *)
(* and the number of frames that follow.                                   *)
(***************************************************************************)
THEOREM HandshakeStages == HandshakeSpec => []HandshakeInv
BY InitStage, NextStage, PTL DEF HandshakeSpec

(***************************************************************************)
(* No byte of a frame of the client is lost between its write loop and the *)
(* read loop of the server, although handle_handshake drops what it reads  *)
(* beyond the client info.                                                 *)
(***************************************************************************)
THEOREM FramesReachServer == HandshakeSpec => []NoFrameLost
<1>1. HandshakeInv => NoFrameLost
  <2> SUFFICES ASSUME HandshakeInv, server \in {"adding", "serving"}
               PROVE  inbox \o up = Frames(written.client)
    BY Zenon DEF NoFrameLost
  <2>1. (Unwritten /\ Accepted) \/ Established
    BY InStage, Zenon
  <2>2. <<>> \o <<>> = <<>>
    OBVIOUS
  <2> QED BY <2>1, <2>2, NoFrames, Zenon DEF Unwritten, Accepted, Established
<1> QED BY <1>1, HandshakeStages, PTL

(***************************************************************************)
(* The read loop of the client gets every frame that the server has        *)
(* written, from the first one on, in whatever read it came.               *)
(***************************************************************************)
THEOREM FramesReachClient == HandshakeSpec => []NoFrameSkipped
<1>1. HandshakeInv => NoFrameSkipped
  <2> SUFFICES ASSUME HandshakeInv, client = "running"
               PROVE  buffer \o down = Frames(written.server - taken)
    BY Zenon DEF NoFrameSkipped
  <2>1. CASE Established
    BY <2>1, Zenon DEF Established, Ahead
  <2>2. CASE TurnedAway
    <3>1. written.server - taken = 0
      BY <2>2 DEF TurnedAway, Silent
    <3>2. buffer \o down = <<>>
      BY <2>2, Zenon DEF TurnedAway, Ahead
    <3> QED BY <3>1, <3>2, NoFrames, Zenon
  <2> QED BY <2>1, <2>2, InStage, Zenon
<1> QED BY <1>1, HandshakeStages, PTL

(***************************************************************************)
(* A client that runs is served, or is about to be, if its mesh key fits;  *)
(* otherwise the server has refused it, or is about to.                    *)
(***************************************************************************)
THEOREM RunningIsServed == HandshakeSpec => []ServedWhenRunning
<1>1. HandshakeInv => ServedWhenRunning
  BY InStage, Zenon DEF ServedWhenRunning, Established, Served, TurnedAway
<1> QED BY <1>1, HandshakeStages, PTL

(***************************************************************************)
(* Nothing passes between a server and a client whose mesh key it refuses, *)
(* although that client was told that the handshake is over.               *)
(***************************************************************************)
THEOREM RefusedIsSilent == HandshakeSpec => []NothingForRefused
<1>1. HandshakeInv => NothingForRefused
  <2> SUFFICES ASSUME HandshakeInv, ~Admitted
               PROVE  inbox = <<>> /\ written.server = 0 /\ taken = 0
    BY Zenon DEF NothingForRefused
  <2>1. CASE Unwritten
    BY <2>1 DEF HandshakeInv, Unwritten, Requested, Answered, Garbled, Keyed, Introduced, Accepted,
                Established, TurnedAway, Broken, Served, Silent
  <2>2. CASE Established
    BY <2>2 DEF HandshakeInv, HandshakeTypeOK, Established, Served
  <2>3. CASE TurnedAway \/ Broken
    BY <2>3, Zenon DEF TurnedAway, Broken, Silent
  <2> QED BY <2>1, <2>2, <2>3, Zenon DEF HandshakeInv
<1> QED BY <1>1, HandshakeStages, PTL

(***************************************************************************)
(* Neither end fails but for a mesh key that is refused, for a read that   *)
(* ended within the request, the response or the client info, or for a     *)
(* response that was written in part.                                      *)
(***************************************************************************)
THEOREM OnlyCutsFail == HandshakeSpec => []FailsOnlyWhenCut
<1>1. HandshakeInv => FailsOnlyWhenCut
  BY InStage, Zenon DEF FailsOnlyWhenCut, Broken
<1> QED BY <1>1, HandshakeStages, PTL

(* What begins with a message is recognised, with and without more bytes. *)
LEMMA StartsWithMessage ==
  ASSUME NEW m \in Messages, NEW v \in Seq(Part)
  PROVE  StartsWith(Message(m), m) /\ StartsWith(Message(m) \o v, m)
<1>1. PICK u \in Seq(Part) : u = Message(m) /\ Len(u) = Pieces
  BY MessageType, Zenon
<1>2. SubSeq(u, 1, Len(u)) = u
  BY SubSeqFull
<1>3. Len(u \o v) >= Len(u) /\ SubSeq(u \o v, 1, Len(u)) = u
  BY CutAt
<1>4. Pieces \in Nat /\ Pieces >= Pieces
  BY HandshakeAssumption
<1>5. StartsWith(u, m)
  BY <1>1, <1>2, <1>4, Zenon DEF StartsWith
<1>6. StartsWith(u \o v, m)
  BY <1>1, <1>3, Zenon DEF StartsWith
<1> QED BY <1>1, <1>5, <1>6, Zenon

(***************************************************************************)
(* Unless a read was cut, the two ends never wait for each other.          *)
(***************************************************************************)
THEOREM SomeoneHasBytes == HandshakeSpec => []NoCircularWait
<1>1. HandshakeInv => NoCircularWait
  <2> SUFFICES ASSUME HandshakeInv PROVE NoCircularWait
    OBVIOUS
  <2>1. \A m \in Messages : StartsWith(Message(m), m)
    <3>1. <<>> \in Seq(Part)
      OBVIOUS
    <3> QED BY <3>1, StartsWithMessage, Zenon
  <2>2. CASE Requested
    BY <2>1, <2>2 DEF Requested, NoCircularWait, Messages
  <2>3. CASE Answered
    <3>1. "http_response" \in Messages /\ "server_key" \in Messages
      BY DEF Messages
    <3>2. Message("server_key") \in Seq(Part) /\ down \in Seq(Part)
      BY <3>1, MessageType, Zenon DEF HandshakeInv, HandshakeTypeOK
    <3>3. StartsWith(down, "http_response")
      BY <2>3, <3>1, <3>2, StartsWithMessage, Zenon DEF Answered
    <3>4. Ahead = down
      BY <2>3, <3>2, ConcatEmptySeq DEF Answered, Ahead
    <3> QED BY <2>3, <3>3, <3>4, Zenon DEF Answered, NoCircularWait
  <2>4. CASE Keyed
    BY <2>1, <2>4 DEF Keyed, NoCircularWait, Messages
  <2>5. CASE Introduced
    BY <2>1, <2>5 DEF Introduced, NoCircularWait, Messages
  <2>6. CASE Accepted
    <3>1. "server_info" \in Messages /\ Frames(written.server) \in Seq(Part)
      BY FramesType DEF Messages, HandshakeInv, HandshakeTypeOK
    <3> QED BY <2>6, <3>1, StartsWithMessage, Zenon DEF Accepted, NoCircularWait
  <2>7. CASE Established \/ Garbled \/ Broken
    BY <2>7, Zenon DEF Established, Served, Garbled, Broken, NoCircularWait
  <2>8. CASE TurnedAway
    BY <2>1, <2>8 DEF TurnedAway, NoCircularWait, Messages
  <2> QED BY <2>2, <2>3, <2>4, <2>5, <2>6, <2>7, <2>8, Zenon DEF HandshakeInv
<1> QED BY <1>1, HandshakeStages, PTL

-----------------------------------------------------------------------------
(* Startup *)

(* A server that waits for a peer has come to an entry of its list that    *)
(* names a server; one that was greeted waits for a server that accepts.   *)
PeerKnown ==
  \A s \in Servers :
    /\ phase[s] \in {"waiting", "greeted"} =>
         at[s] \in DOMAIN mesh_peers[s] /\ Peer(s) \in Servers
    /\ phase[s] = "greeted" => phase[Peer(s)] = "accepting"

StampsPast == \A s \in Servers : phase[s] = "accepting" => stamp[s] < clock

(***************************************************************************)
(* The inductive invariant.  MeshedInOrder alone does not survive Meshed,  *)
(* which needs to know that the peer that answered still accepts and is    *)
(* not the server itself, nor Serve, which needs to know that the new      *)
(* stamp is larger than all others.                                        *)
(***************************************************************************)
StartupInv ==
  /\ TypeOK
  /\ MeshedInOrder
  /\ PeerKnown
  /\ StampsPast

(* The invariant holds while no server is started. *)
LEMMA InitStartupInv == Init => StartupInv
BY StartupAssumption DEF Init, StartupInv, TypeOK, MeshedInOrder, PeerKnown, StampsPast, Phase

(* A process that ends takes the connections to it along. *)
LEMMA EndsKeepsInv ==
  ASSUME StartupInv, NEW s \in Servers, NEW spinning \in SUBSET Servers,
         Ends(s, spinning), exits' \in Nat
  PROVE  StartupInv'
<1> USE StartupAssumption
<1>1. TypeOK'
  BY DEF StartupInv, TypeOK, Ends, Phase
<1>2. \A t \in Servers : meshed'[t] \subseteq meshed[t] \ {s} /\ s \notin meshed'[t]
  BY DEF StartupInv, TypeOK, Ends
<1>3. \A t \in Servers : phase'[t] = "accepting" <=> (t # s /\ phase[t] = "accepting")
  BY DEF StartupInv, TypeOK, Ends, Phase
<1>4. \A t \in Servers : phase'[t] = "down" <=> (t = s \/ phase[t] = "down")
  BY DEF StartupInv, TypeOK, Ends, Phase
<1>5. MeshedInOrder'
  <2>1. meshed'[s] = {} /\ stamp' = stamp
    BY DEF Ends
  <2> QED
    BY SMTT(40), <1>2, <1>3, <1>4, <2>1 DEF StartupInv, TypeOK, MeshedInOrder
<1>6. ASSUME NEW t \in Servers, phase'[t] \in {"greeted", "waiting"}
      PROVE  /\ phase'[t] = phase[t] /\ at'[t] = at[t]
             /\ Peer(t) # s
  BY <1>6 DEF StartupInv, TypeOK, Ends, Phase
<1>7. ASSUME NEW t \in Servers, phase'[t] \in {"greeted", "waiting"}
      PROVE  Peer(t)' = Peer(t)
  BY <1>6, <1>7 DEF Peer
<1>8. PeerKnown'
  BY SMTT(40), <1>3, <1>6, <1>7 DEF StartupInv, PeerKnown
<1>9. StampsPast'
  BY <1>3 DEF StartupInv, StampsPast, Ends
<1> QED
  BY <1>1, <1>5, <1>8, <1>9 DEF StartupInv

(* Every step keeps the invariant: one case per action. *)
LEMMA NextKeepsStartupInv == StartupInv /\ [Next]_vars => StartupInv'
<1> USE StartupAssumption
<1> SUFFICES ASSUME StartupInv, [Next]_vars PROVE StartupInv'
  OBVIOUS
<1>1. CASE UNCHANGED vars
  BY <1>1 DEF vars, StartupInv, TypeOK, MeshedInOrder, PeerKnown, StampsPast, Peer
<1>2. ASSUME NEW s \in Servers, Boot(s) PROVE StartupInv'
  <2>1. TypeOK'
    BY <1>2 DEF Boot, StartupInv, TypeOK, Phase
  <2>2. MeshedInOrder'
    BY SMTT(40), <1>2 DEF Boot, StartupInv, TypeOK, MeshedInOrder, PeerKnown, StampsPast
  <2>3. PeerKnown'
    BY <1>2 DEF Boot, StartupInv, TypeOK, PeerKnown, Peer
  <2>4. StampsPast'
    BY <1>2 DEF Boot, StartupInv, TypeOK, StampsPast
  <2> QED BY <2>1, <2>2, <2>3, <2>4 DEF StartupInv
<1>3. ASSUME NEW s \in Servers, Connect(s) PROVE StartupInv'
  <2>1. TypeOK'
    BY <1>3 DEF Connect, Trying, StartupInv, TypeOK, Phase
  <2>2. MeshedInOrder'
    BY <1>3 DEF Connect, Trying, StartupInv, TypeOK, MeshedInOrder, PeerKnown, StampsPast
  <2>3. PeerKnown'
    BY SMTT(40), <1>3 DEF Connect, Trying, StartupInv, TypeOK, PeerKnown, Peer
  <2>4. StampsPast'
    BY <1>3 DEF Connect, Trying, StartupInv, TypeOK, StampsPast
  <2> QED BY <2>1, <2>2, <2>3, <2>4 DEF StartupInv
<1>4. ASSUME NEW s \in Servers, Refused(s) PROVE StartupInv'
  <2>1. TypeOK'
    BY SMTT(40), <1>4 DEF Refused, Trying, StartupInv, TypeOK, Phase
  <2>2. MeshedInOrder'
    BY <1>4 DEF Refused, Trying, StartupInv, TypeOK, MeshedInOrder, PeerKnown, StampsPast
  <2>3. PeerKnown'
    BY SMTT(40), <1>4 DEF Refused, Trying, StartupInv, TypeOK, PeerKnown, Peer
  <2>4. StampsPast'
    BY <1>4 DEF Refused, Trying, StartupInv, TypeOK, StampsPast
  <2> QED BY <2>1, <2>2, <2>3, <2>4 DEF StartupInv
<1>5. ASSUME NEW s \in Servers, LookupFails(s) PROVE StartupInv'
  BY <1>5, EndsKeepsInv DEF LookupFails, StartupInv, TypeOK
<1>6. ASSUME NEW s \in Servers, Greeted(s) PROVE StartupInv'
  <2>1. TypeOK'
    BY <1>6 DEF Greeted, Answers, StartupInv, TypeOK, Phase
  <2>2. MeshedInOrder'
    BY SMTT(40), <1>6 DEF Greeted, Answers, StartupInv, TypeOK, MeshedInOrder, PeerKnown, StampsPast
  <2>3. PeerKnown'
    BY <1>6 DEF Greeted, Answers, StartupInv, TypeOK, PeerKnown, Peer
  <2>4. StampsPast'
    BY <1>6 DEF Greeted, Answers, StartupInv, TypeOK, StampsPast
  <2> QED BY <2>1, <2>2, <2>3, <2>4 DEF StartupInv
<1>7. ASSUME NEW s \in Servers, Meshed(s) PROVE StartupInv'
  <2>1. TypeOK'
    BY SMTT(40), <1>7 DEF Meshed, StartupInv, TypeOK, PeerKnown, Phase
  <2>2. MeshedInOrder'
    BY SMTT(40), <1>7 DEF Meshed, StartupInv, TypeOK, MeshedInOrder, PeerKnown, StampsPast
  <2>3. PeerKnown'
    BY SMTT(40), <1>7 DEF Meshed, StartupInv, TypeOK, PeerKnown, Peer
  <2>4. StampsPast'
    BY <1>7 DEF Meshed, StartupInv, TypeOK, StampsPast
  <2> QED BY <2>1, <2>2, <2>3, <2>4 DEF StartupInv
<1>8. ASSUME NEW s \in Servers, Serve(s) PROVE StartupInv'
  <2>1. TypeOK'
    BY <1>8 DEF Serve, StartupInv, TypeOK, Phase
  <2>2. MeshedInOrder'
    BY SMTT(40), <1>8 DEF Serve, StartupInv, TypeOK, MeshedInOrder, PeerKnown, StampsPast
  <2>3. PeerKnown'
    BY <1>8 DEF Serve, StartupInv, TypeOK, PeerKnown, Peer
  <2>4. StampsPast'
    BY <1>8 DEF Serve, StartupInv, TypeOK, StampsPast
  <2> QED BY <2>1, <2>2, <2>3, <2>4 DEF StartupInv
<1>9. ASSUME NEW s \in Servers, Exit(s) PROVE StartupInv'
  BY <1>9, EndsKeepsInv DEF Exit, StartupInv, TypeOK
<1>10. ASSUME NEW s \in Servers, HandshakeFails(s) PROVE StartupInv'
  <2>1. TypeOK'
    BY SMTT(40), <1>10 DEF HandshakeFails, StartupInv, TypeOK, Phase
  <2>2. MeshedInOrder'
    BY SMTT(40), <1>10 DEF HandshakeFails, StartupInv, TypeOK, MeshedInOrder
  <2>3. PeerKnown'
    BY SMTT(40), <1>10 DEF HandshakeFails, StartupInv, TypeOK, PeerKnown, Peer
  <2>4. StampsPast'
    BY <1>10 DEF HandshakeFails, StartupInv, TypeOK, StampsPast
  <2> QED BY <2>1, <2>2, <2>3, <2>4 DEF StartupInv
<1> QED
  BY <1>1, <1>2, <1>3, <1>4, <1>5, <1>6, <1>7, <1>8, <1>9, <1>10 DEF Next, Step

(* Among the servers of S the one whose accept loop started first holds    *)
(* no mesh connection into S; if no accept loop of S runs, none does.      *)
LEMMA OrderForbidsCycles == TypeOK /\ MeshedInOrder => NoMeshCycle
<1> SUFFICES ASSUME TypeOK, MeshedInOrder, NEW S \in SUBSET Servers, S # {}
             PROVE  \E a \in S : meshed[a] \cap S = {}
  BY DEF NoMeshCycle
<1> DEFINE A == {a \in S : phase[a] = "accepting"}
           T == {stamp[a] : a \in A}
<1>1. CASE A = {}
  BY <1>1 DEF MeshedInOrder, TypeOK
<1>2. CASE A # {}
  <2>1. T \subseteq Nat /\ T # {}
    BY Zenon, <1>2 DEF TypeOK
  <2>2. PICK x \in T : \A y \in T : ~(<<y, x>> \in OpToRel(<, Nat))
    <3> HIDE DEF T
    <3> QED BY <2>1, NatLessThanWellFounded, WFMin
  <2>3. \A y \in T : ~(y < x)
    BY Zenon, <2>1, <2>2 DEF OpToRel
  <2>4. PICK a \in A : x = stamp[a]
    OBVIOUS
  <2>5. ASSUME NEW b \in meshed[a] \cap S PROVE FALSE
    <3>1. phase[b] = "accepting" /\ stamp[b] < stamp[a]
      BY <2>4, <2>5 DEF MeshedInOrder, TypeOK
    <3> QED BY <2>3, <2>4, <3>1
  <2> QED BY <2>4, <2>5
<1> QED BY <1>1, <1>2

(***************************************************************************)
(* Whatever the lists of mesh peers and whatever the order in which the    *)
(* servers are started, stopped and started again, a mesh connection leads *)
(* to a server whose accept loop started earlier.                          *)
(***************************************************************************)
THEOREM MeshOrder == Spec => []MeshedInOrder
<1>1. StartupInv => MeshedInOrder
  BY DEF StartupInv
<1> QED
  BY InitStartupInv, NextKeepsStartupInv, <1>1, PTL DEF Spec

(***************************************************************************)
(* The mesh connections therefore never form a cycle, so that a packet     *)
(* that is handed from server to server never comes back.                  *)
(***************************************************************************)
THEOREM MeshAcyclic == Spec => []NoMeshCycle
<1>1. StartupInv => NoMeshCycle
  BY OrderForbidsCycles DEF StartupInv
<1> QED
  BY InitStartupInv, NextKeepsStartupInv, <1>1, PTL DEF Spec

(* The variables of the startup keep their types: in particular a mesh
   connection leads to a server, never to a name that was not resolved. *)
THEOREM StartupTypeOK == Spec => []TypeOK
<1>1. StartupInv => TypeOK
  BY DEF StartupInv
<1> QED
  BY InitStartupInv, NextKeepsStartupInv, <1>1, PTL DEF Spec

=============================================================================
