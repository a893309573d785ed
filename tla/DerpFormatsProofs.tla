--------------------------- MODULE DerpFormatsProofs ---------------------------
(***************************************************************************)
(* Proofs about DerpReader, for bytes of any number of values and bodies   *)
(* of any size that fits into a header, however the stream is cut, and     *)
(* about DerpKeys, for keys of any 32 bytes and conversions in any order.  *)
(***************************************************************************)
EXTENDS DerpReader, DerpKeys, Integers, SequenceTheorems, TLAPS

-----------------------------------------------------------------------------
(* The size in a header *)

LEMMA Division ==
  ASSUME NEW B \in Nat \ {0}, NEW x \in Nat
  PROVE  /\ x \div B \in Nat /\ x % B \in 0..(B - 1)
         /\ x = (x \div B) * B + (x % B)
OBVIOUS

(* A number below p * B has a quotient below p. *)
LEMMA SmallQuotient ==
  ASSUME NEW B \in Nat \ {0}, NEW p \in Nat, NEW x \in Nat, x < p * B
  PROVE  x \div B < p
<1>1. PICK q \in Nat, r \in 0..(B - 1) : q = x \div B /\ x = q * B + r
  BY Division
<1>2. ASSUME q >= p PROVE FALSE
  <2>1. PICK d \in Nat : q = p + d
    <3>1. q - p \in Nat /\ q = p + (q - p)
      BY <1>2
    <3> QED BY <3>1, Zenon
  <2>2. q * B = p * B + d * B /\ d * B >= 0 /\ p * B \in Nat /\ d * B \in Nat
    BY <2>1
  <2> QED BY <1>1, <2>2
<1> QED BY <1>1, <1>2

(* What message_size computes from the bytes of SizeField *)
LEMMA SizeRead ==
  ASSUME NEW n \in Nat, n < Base * Base * Base * Base
  PROVE  /\ SizeField(n) \in Seq(Byte) /\ Len(SizeField(n)) = 4
         /\ ((SizeField(n)[1] * Base + SizeField(n)[2]) * Base + SizeField(n)[3]) * Base
              + SizeField(n)[4] = n
<1>0. Base \in Nat \ {0}
  BY ReaderAssumption
<1>1. PICK h \in Nat, a \in Byte : h = n \div Base /\ a = n % Base /\ n = h * Base + a
  BY <1>0, Division DEF Byte
<1>2. PICK i \in Nat, b \in Byte : i = h \div Base /\ b = h % Base /\ h = i * Base + b
  BY <1>0, Division DEF Byte
<1>3. PICK j \in Nat, c \in Byte : j = i \div Base /\ c = i % Base /\ i = j * Base + c
  BY <1>0, Division DEF Byte
<1>4. j < Base
  <2>1. PICK p2 \in Nat, p3 \in Nat : p2 = Base * Base /\ p3 = p2 * Base
    BY <1>0
  <2>2. h < p3
    BY Zenon, <1>0, <1>1, <2>1, SmallQuotient
  <2>3. i < p2
    BY Zenon, <1>0, <1>2, <2>1, <2>2, SmallQuotient
  <2> QED BY <1>0, <1>3, <2>1, <2>3, SmallQuotient
<1>5. j % Base = j /\ j \in Byte
  BY <1>0, <1>4 DEF Byte
<1>6. SizeField(n) = <<j, c, b, a>>
  BY <1>1, <1>2, <1>3, <1>5, Zenon DEF SizeField
<1>7. <<j, c, b, a>> \in Seq(Byte) /\ Len(<<j, c, b, a>>) = 4
  BY <1>1, <1>2, <1>3, <1>5
<1>8. ((j * Base + c) * Base + b) * Base + a = n
  BY Zenon, <1>1, <1>2, <1>3
<1>9. /\ <<j, c, b, a>>[1] = j /\ <<j, c, b, a>>[2] = c
      /\ <<j, c, b, a>>[3] = b /\ <<j, c, b, a>>[4] = a
  OBVIOUS
<1> QED BY <1>6, <1>7, <1>8, <1>9

LEMMA EncodedFrame ==
  ASSUME NEW f, f.ty \in Byte, f.body \in Bodies
  PROVE  /\ Encoded(f) \in Seq(Byte) /\ Encoded(f)[1] = f.ty
         /\ Len(Encoded(f)) \in Nat /\ Len(Encoded(f)) >= HEADER_SIZE
         /\ HEADER_SIZE + Size(Encoded(f)) = Len(Encoded(f))
<1>0. PICK ty \in Byte, body \in Bodies : ty = f.ty /\ body = f.body
  OBVIOUS
<1>1. body \in Seq(Byte) /\ Len(body) \in Nat /\ Len(body) < Base * Base * Base * Base
  BY ReaderAssumption
<1>2. PICK z \in Seq(Byte) :
        /\ z = SizeField(Len(body)) /\ Len(z) = 4
        /\ ((z[1] * Base + z[2]) * Base + z[3]) * Base + z[4] = Len(body)
  BY <1>1, SizeRead, Zenon
<1>3. PICK t \in Seq(Byte) : t = <<ty>> /\ Len(t) = 1 /\ t[1] = ty
  <2>1. <<ty>> \in Seq(Byte) /\ Len(<<ty>>) = 1 /\ <<ty>>[1] = ty
    OBVIOUS
  <2> QED BY <2>1, Zenon
<1>4. PICK u \in Seq(Byte) :
        /\ u = t \o z /\ Len(u) = 5 /\ u[1] = ty
        /\ u[2] = z[1] /\ u[3] = z[2] /\ u[4] = z[3] /\ u[5] = z[4]
  <2>1. Len(t) = 1 /\ Len(z) = 4 /\ t[1] = ty
    BY <1>2, <1>3
  <2>2. PICK u \in Seq(Byte) :
          /\ u = t \o z /\ Len(u) = Len(t) + Len(z)
          /\ \A k \in 1..(Len(t) + Len(z)) : u[k] = IF k <= Len(t) THEN t[k] ELSE z[k - Len(t)]
    <3>1. /\ t \o z \in Seq(Byte) /\ Len(t \o z) = Len(t) + Len(z)
          /\ \A k \in 1..(Len(t) + Len(z)) :
               (t \o z)[k] = IF k <= Len(t) THEN t[k] ELSE z[k - Len(t)]
      BY ConcatProperties
    <3> QED BY <3>1, Zenon
  <2>3. Len(u) = 5 /\ \A k \in 1..5 : u[k] = IF k <= 1 THEN t[k] ELSE z[k - 1]
    BY <2>1, <2>2
  <2>4. u[1] = ty /\ u[2] = z[1] /\ u[3] = z[2] /\ u[4] = z[3] /\ u[5] = z[4]
    BY <2>1, <2>3
  <2> QED BY <2>2, <2>3, <2>4, Zenon
<1>5. PICK e \in Seq(Byte) :
        e = u \o body /\ Len(e) = 5 + Len(body) /\ \A k \in 1..5 : e[k] = u[k]
  <2>1. u \o body \in Seq(Byte) /\ Len(u \o body) = 5 + Len(body)
    BY SMTT(40), <1>1, <1>4, ConcatProperties
  <2>2. \A k \in 1..5 : (u \o body)[k] = u[k]
    BY SMTT(40), <1>1, <1>4, ConcatProperties
  <2> QED BY <2>1, <2>2, Zenon
<1>6. e = Encoded(f)
  BY <1>0, <1>2, <1>3, <1>4, <1>5, Zenon DEF Encoded
<1>7. Size(e) = Len(body)
  <2>1. e[2] = z[1] /\ e[3] = z[2] /\ e[4] = z[3] /\ e[5] = z[4]
    BY SMTT(40), <1>4, <1>5
  <2> QED BY <1>2, <2>1, Zenon DEF Size
<1>8. e[1] = ty
  BY <1>4, <1>5
<1>9. Len(e) = HEADER_SIZE + Len(body) /\ Len(e) \in Nat /\ Len(e) >= HEADER_SIZE
  BY <1>1, <1>5 DEF HEADER_SIZE
<1> QED BY <1>0, <1>6, <1>7, <1>8, <1>9, Zenon

-----------------------------------------------------------------------------
(* The frames and their ends *)

LEMMA FrameSent ==
  ASSUME ReaderInv, NEW i \in 1..Len(frames)
  PROVE  /\ frames[i].ty \in Byte /\ frames[i].body \in Bodies
         /\ Encoded(frames[i]) \in Seq(Byte) /\ Encoded(frames[i])[1] = frames[i].ty
         /\ Len(Encoded(frames[i])) \in Nat /\ Len(Encoded(frames[i])) >= HEADER_SIZE
         /\ HEADER_SIZE + Size(Encoded(frames[i])) = Len(Encoded(frames[i]))
<1>1. frames[i] \in [ty : Byte, body : Bodies, end : Nat]
  <2>1. frames \in Seq([ty : Byte, body : Bodies, end : Nat])
    BY Zenon DEF ReaderInv, ReaderTypeOK
  <2> QED BY <2>1, ElementOfSeq, Zenon
<1>2. frames[i].ty \in Byte /\ frames[i].body \in Bodies
  BY <1>1
<1> QED BY <1>2, EncodedFrame, Zenon

LEMMA EndType ==
  ASSUME ReaderInv, NEW i \in 0..Len(frames)
  PROVE  End(i) \in Nat
<1>1. frames \in Seq([ty : Byte, body : Bodies, end : Nat])
  BY Zenon DEF ReaderInv, ReaderTypeOK
<1>2. CASE i = 0
  BY <1>2 DEF End
<1>3. CASE i # 0
  <2>1. i \in 1..Len(frames)
    BY <1>1, <1>3
  <2>2. frames[i] \in [ty : Byte, body : Bodies, end : Nat]
    BY <1>1, <2>1, ElementOfSeq, Zenon
  <2> QED BY <1>3, <2>2 DEF End
<1> QED BY <1>2, <1>3

(***************************************************************************)
(* What is pending begins with the next frame, as far as it has arrived.   *)
(***************************************************************************)
LEMMA NextFrameAhead ==
  ASSUME ReaderInv, Len(returned) < Len(frames)
  PROVE  \A k \in 1..Len(data) : k <= Len(Encoded(frames[Len(returned) + 1]))
           => data[k] = Encoded(frames[Len(returned) + 1])[k]
<1>1. PICK r \in Nat : r = Len(returned) /\ r + 1 \in 1..Len(frames)
  BY DEF ReaderInv, ReaderTypeOK
<1>2. PICK e \in Seq(Byte) : e = Encoded(frames[r + 1])
  BY <1>1, FrameSent
<1>3. data \in Seq(Byte) /\ unread \in Seq(Byte)
  BY DEF ReaderInv, ReaderTypeOK
<1>4. PICK p \in Seq(Byte) :
        /\ p = Pending /\ Len(p) = Len(data) + Len(unread)
        /\ \A k \in 1..(Len(data) + Len(unread)) :
             p[k] = IF k <= Len(data) THEN data[k] ELSE unread[k - Len(data)]
  <2>1. /\ data \o unread \in Seq(Byte) /\ Len(data \o unread) = Len(data) + Len(unread)
        /\ \A k \in 1..(Len(data) + Len(unread)) :
             (data \o unread)[k] = IF k <= Len(data) THEN data[k] ELSE unread[k - Len(data)]
    BY <1>3, ConcatProperties
  <2> QED BY <2>1, Zenon DEF Pending
<1>5. End(r) \in Nat /\ r + 1 - 1 = r /\ End(r) - End(r) = 0
  BY <1>1, EndType
<1>6. Start(r + 1) = 0
  BY <1>1, <1>5 DEF Start
<1>7. \A k \in 1..Len(e) : 0 + k <= Len(p) => p[0 + k] = e[k]
  <2>1. r + 1 \in (Len(returned) + 1)..Len(frames)
    BY <1>1
  <2>2. \A k \in 1..Len(Encoded(frames[r + 1])) : Start(r + 1) + k <= Len(Pending)
          => Pending[Start(r + 1) + k] = Encoded(frames[r + 1])[k]
    BY <2>1, Zenon DEF ReaderInv, PendingAsSent
  <2> QED BY <1>2, <1>4, <1>6, <2>2, Zenon
<1>8. ASSUME NEW k \in 1..Len(data), k <= Len(e) PROVE data[k] = e[k]
  BY SMTT(40), <1>3, <1>4, <1>7, <1>8
<1> QED BY <1>1, <1>2, <1>8, Zenon

(* Without a further frame nothing is pending. *)
LEMMA NothingPending ==
  ASSUME ReaderInv, Len(returned) >= Len(frames)
  PROVE  Len(data) = 0 /\ Len(unread) = 0 /\ open
<1>1. /\ data \in Seq(Byte) /\ unread \in Seq(Byte) /\ Len(Pending) = Len(data) + Len(unread)
      /\ Len(returned) = Len(frames) /\ Len(frames) \in Nat
  BY ConcatProperties DEF ReaderInv, ReaderTypeOK, FramesAsSent, Pending
<1>2. End(Len(frames)) \in Nat
  BY <1>1, EndType
<1> QED BY <1>1, <1>2 DEF ReaderInv, PendingReaches

(***************************************************************************)
(* The buffer holds a whole message if and only if it holds all bytes of   *)
(* the next frame.                                                         *)
(***************************************************************************)
LEMMA SufficientIsWhole ==
  ASSUME ReaderInv
  PROVE  /\ ReturnsWholeFrames
         /\ Sufficient(data) => MessageSize(data) = Len(Encoded(frames[Len(returned) + 1]))
<1>1. CASE Len(returned) >= Len(frames)
  <2>1. ~Sufficient(data)
    BY <1>1, NothingPending DEF Sufficient, HEADER_SIZE
  <2>2. ~(Len(returned) < Len(frames))
    BY <1>1 DEF ReaderInv, ReaderTypeOK
  <2> QED BY <2>1, <2>2, Zenon DEF ReturnsWholeFrames
<1>2. CASE Len(returned) < Len(frames)
  <2>1. Len(returned) + 1 \in 1..Len(frames)
    BY <1>2 DEF ReaderInv, ReaderTypeOK
  <2>2. PICK e \in Seq(Byte) :
          /\ e = Encoded(frames[Len(returned) + 1])
          /\ Len(e) >= HEADER_SIZE /\ HEADER_SIZE + Size(e) = Len(e)
    BY <2>1, FrameSent, Zenon
  <2>3. \A k \in 1..Len(data) : k <= Len(e) => data[k] = e[k]
    BY <1>2, <2>2, NextFrameAhead, Zenon
  <2>4. ASSUME Len(data) >= HEADER_SIZE PROVE MessageSize(data) = Len(e)
    <3>1. Len(data) \in Nat /\ Len(e) \in Nat
      BY DEF ReaderInv, ReaderTypeOK
    <3>2. data[2] = e[2] /\ data[3] = e[3] /\ data[4] = e[4] /\ data[5] = e[5]
      BY SMTT(40), <2>2, <2>3, <2>4, <3>1 DEF HEADER_SIZE
    <3>3. Size(data) = Size(e)
      BY <3>2, Zenon DEF Size
    <3> QED BY <2>2, <3>3, Zenon DEF MessageSize
  <2>5. Sufficient(data) <=> Len(data) >= Len(e)
    <3>1. Len(data) \in Nat /\ Len(e) \in Nat
      BY DEF ReaderInv, ReaderTypeOK
    <3>2. CASE Len(data) >= HEADER_SIZE
      BY <2>4, <3>2, Zenon DEF Sufficient
    <3>3. CASE ~(Len(data) >= HEADER_SIZE)
      BY <2>2, <3>1, <3>3 DEF Sufficient, HEADER_SIZE
    <3> QED BY <3>2, <3>3
  <2> QED BY <1>2, <2>2, <2>4, <2>5, Zenon DEF ReturnsWholeFrames, Sufficient
<1>3. Len(returned) \in Nat /\ Len(frames) \in Nat
  BY DEF ReaderInv, ReaderTypeOK
<1> QED BY <1>1, <1>2, <1>3

-----------------------------------------------------------------------------
(* The steps *)

LEMMA InitReader == ReaderInit => ReaderInv
<1> SUFFICES ASSUME ReaderInit PROVE ReaderInv
  OBVIOUS
<1>1. frames = <<>> /\ open = TRUE /\ unread = <<>> /\ data = <<>> /\ returned = <<>>
  BY Zenon DEF ReaderInit
<1>2. ReaderTypeOK
  BY <1>1 DEF ReaderTypeOK
<1>3. Len(frames) = 0 /\ Len(returned) = 0 /\ Len(Pending) = 0 /\ End(0) = 0
  BY <1>1 DEF Pending, End
<1>4. EndsInOrder
  BY <1>3 DEF EndsInOrder
<1>5. PendingReaches
  BY <1>1, <1>3 DEF PendingReaches
<1>6. PendingAsSent
  BY <1>3 DEF PendingAsSent
<1>7. FramesAsSent
  BY <1>1 DEF FramesAsSent
<1> QED BY <1>2, <1>4, <1>5, <1>6, <1>7, Zenon DEF ReaderInv

(* A read moves bytes from the socket to the buffer. *)
LEMMA MovedBytes ==
  ASSUME NEW S, NEW d \in Seq(S), NEW s \in Seq(S), NEW n \in 1..Len(s)
  PROVE  /\ d \o SubSeq(s, 1, n) \in Seq(S) /\ SubSeq(s, n + 1, Len(s)) \in Seq(S)
         /\ (d \o SubSeq(s, 1, n)) \o SubSeq(s, n + 1, Len(s)) = d \o s
<1>1. SubSeq(s, 1, n) \in Seq(S) /\ SubSeq(s, n + 1, Len(s)) \in Seq(S)
  OBVIOUS
<1>2. SubSeq(s, 1, n) \o SubSeq(s, n + 1, Len(s)) = s
  <2>1. 1 \in 1..(Len(s) + 1) /\ n \in (1 - 1)..Len(s) /\ Len(s) \in n..Len(s)
    OBVIOUS
  <2>2. SubSeq(s, 1, n) \o SubSeq(s, n + 1, Len(s)) = SubSeq(s, 1, Len(s))
    BY <2>1, ConcatAdjacentSubSeq
  <2> QED BY <2>2, SubSeqFull
<1>3. PICK x \in Seq(S), y \in Seq(S) :
        x = SubSeq(s, 1, n) /\ y = SubSeq(s, n + 1, Len(s)) /\ x \o y = s
  BY <1>1, <1>2, Zenon
<1>4. d \o x \in Seq(S)
  BY ConcatProperties
<1>5. (d \o x) \o y = d \o (x \o y)
  BY SMTT(40), ConcatAssociative
<1> QED BY <1>3, <1>4, <1>5, Zenon

LEMMA ReadKeepsInv ==
  ASSUME ReaderInv, Read PROVE ReaderInv'
<1>1. PICK n \in 1..Len(unread) :
        /\ data' = data \o SubSeq(unread, 1, n)
        /\ unread' = SubSeq(unread, n + 1, Len(unread))
  BY Zenon DEF Read, InputData
<1>2. UNCHANGED <<frames, open, returned>> /\ ReaderTypeOK
  BY Zenon DEF Read, ReaderInv
<1>3. data' \in Seq(Byte) /\ unread' \in Seq(Byte) /\ Pending' = Pending
  <2>1. data \in Seq(Byte) /\ unread \in Seq(Byte)
    BY <1>2, Zenon DEF ReaderTypeOK
  <2> QED BY <1>1, <2>1, MovedBytes, ZenonT(40) DEF Pending
<1>4. ReaderTypeOK'
  BY <1>2, <1>3, Zenon DEF ReaderTypeOK
<1> QED BY <1>2, <1>3, <1>4 DEF ReaderInv, EndsInOrder, End, PendingReaches, PendingAsSent, Start,
                               FramesAsSent

LEMMA Regroup ==
  ASSUME NEW S, NEW a \in Seq(S), NEW b \in Seq(S), NEW c \in Seq(S), NEW s, s = a \o b
  PROVE  s \o c = a \o (b \o c)
BY ConcatAssociative

LEMMA SendKeepsInv ==
  ASSUME ReaderInv, Send PROVE ReaderInv'
<1>1. /\ frames \in Seq([ty : Byte, body : Bodies, end : Nat]) /\ open
      /\ unread \in Seq(Byte) /\ data \in Seq(Byte)
      /\ UNCHANGED <<data, returned>>
      /\ returned \in Seq([ty : Byte, buffer : Seq(Byte)])
  BY Zenon DEF Send, ReaderInv, ReaderTypeOK
<1>2. PICK ty \in Byte, body \in Bodies :
        /\ frames' = Append(frames, [ty |-> ty, body |-> body,
              end |-> End(Len(frames)) + Len(Encoded([ty |-> ty, body |-> body]))])
        /\ \E n \in 1..Len(Encoded([ty |-> ty, body |-> body])) :
             /\ unread' = unread \o SubSeq(Encoded([ty |-> ty, body |-> body]), 1, n)
             /\ open' = (n = Len(Encoded([ty |-> ty, body |-> body])))
  BY Zenon DEF Send
<1>3. PICK e \in Seq(Byte) :
        e = Encoded([ty |-> ty, body |-> body]) /\ Len(e) \in Nat /\ Len(e) >= HEADER_SIZE
  <2>1. [ty |-> ty, body |-> body].ty \in Byte /\ [ty |-> ty, body |-> body].body \in Bodies
    OBVIOUS
  <2> QED BY <2>1, EncodedFrame, Zenon
<1>4. PICK n \in 1..Len(e) :
        unread' = unread \o SubSeq(e, 1, n) /\ open' = (n = Len(e))
  BY <1>2, <1>3, Zenon
<1>5. PICK l \in Nat, r \in Nat, m \in Nat, z \in Nat :
        /\ l = Len(frames) /\ r = Len(returned) /\ r <= l
        /\ m = End(l) /\ z = m + Len(e)
  <2>1. Len(frames) \in Nat /\ Len(returned) \in Nat /\ Len(returned) <= Len(frames)
    BY <1>1 DEF ReaderInv, FramesAsSent
  <2>2. End(Len(frames)) \in Nat
    BY <2>1, EndType
  <2>3. End(Len(frames)) + Len(e) \in Nat
    BY <1>3, <2>2
  <2> QED BY <2>1, <2>2, <2>3, Zenon
<1>6. PICK f \in [ty : Byte, body : Bodies, end : Nat] :
        f = [ty |-> ty, body |-> body, end |-> z] /\ f.end = z /\ frames' = Append(frames, f)
  BY Zenon, <1>2, <1>3, <1>5
<1>7. Encoded(f) = e
  <2>1. f.ty = [ty |-> ty, body |-> body].ty /\ f.body = [ty |-> ty, body |-> body].body
    BY <1>6
  <2> QED BY <1>3, <2>1, Zenon DEF Encoded
<1>8. /\ frames' \in Seq([ty : Byte, body : Bodies, end : Nat]) /\ Len(frames') = l + 1
      /\ \A i \in 1..l : frames'[i] = frames[i]
      /\ frames'[l + 1] = f
  BY <1>1, <1>5, <1>6, AppendProperties
<1>9. (\A i \in 0..l : (End(i))' = End(i)) /\ (End(l + 1))' = z
  BY <1>5, <1>6, <1>8 DEF End
<1>10. /\ \A i \in 1..l : Encoded(frames'[i]) = Encoded(frames[i])
       /\ Encoded(frames'[l + 1]) = e
  BY <1>7, <1>8, Zenon
<1>11. PICK p \in Seq(Byte), w \in Seq(Byte) :
         /\ p = Pending /\ w = Pending' /\ unread' \in Seq(Byte) /\ Len(w) = Len(p) + n
         /\ \A k \in 1..Len(p) : w[k] = p[k]
         /\ \A k \in 1..n : w[Len(p) + k] = e[k]
  <2>1. PICK x \in Seq(Byte) :
          x = SubSeq(e, 1, n) /\ Len(x) = n /\ \A k \in 1..n : x[k] = e[k]
    <3>1. /\ SubSeq(e, 1, n) \in Seq(Byte) /\ Len(SubSeq(e, 1, n)) = n
          /\ \A k \in 1..n : SubSeq(e, 1, n)[k] = e[k]
      OBVIOUS
    <3> QED BY <3>1, Zenon
  <2>2. PICK d \in Seq(Byte), b \in Seq(Byte) : d = data /\ b = unread
    BY <1>1, Zenon
  <2>3. PICK p \in Seq(Byte) : p = d \o b
    BY Zenon, ConcatProperties
  <2>4. p \o x = d \o (b \o x)
    <3>1. p = d \o b
      BY <2>3, Zenon
    <3> QED BY ONLY SMTT(40), <3>1, d \in Seq(Byte), b \in Seq(Byte), x \in Seq(Byte), Regroup
  <2>5. b \o x \in Seq(Byte)
    BY ConcatProperties
  <2>6. /\ p \o x \in Seq(Byte) /\ Len(p \o x) = Len(p) + Len(x)
        /\ \A k \in 1..Len(p) : (p \o x)[k] = p[k]
        /\ \A k \in 1..Len(x) : (p \o x)[Len(p) + k] = x[k]
    BY ONLY SMTT(40), p \in Seq(Byte), x \in Seq(Byte), ConcatProperties
  <2>7. unread' = b \o x /\ p = Pending /\ p \o x = Pending'
    BY <1>1, <1>4, <2>1, <2>2, <2>3, <2>4, Zenon DEF Pending
  <2>8. PICK w \in Seq(Byte) : w = p \o x
    BY <2>6, Zenon
  <2>9. /\ unread' \in Seq(Byte) /\ w = Pending' /\ Len(w) = Len(p) + n
        /\ \A k \in 1..Len(p) : w[k] = p[k]
        /\ \A k \in 1..n : w[Len(p) + k] = e[k]
    BY <2>1, <2>5, <2>6, <2>7, <2>8, Zenon
  <2> QED BY <2>7, <2>9, Zenon
<1>12. PICK s \in Nat : s = End(r) /\ s + Len(p) = m
  BY SMTT(40), <1>1, <1>5, <1>11, EndType DEF ReaderInv, PendingReaches
<1>13. ReaderTypeOK'
  <2>1. open' \in BOOLEAN
    BY <1>4, Zenon
  <2> QED BY <1>1, <1>8, <1>11, <2>1, Zenon DEF ReaderTypeOK
<1>14. EndsInOrder'
  <2>1. ASSUME NEW i \in 1..(l + 1) PROVE (End(i))' = (End(i - 1))' + Len(Encoded(frames'[i]))
    <3>1. CASE i \in 1..l
      <4>1. End(i) = End(i - 1) + Len(Encoded(frames[i]))
        BY <1>5, <3>1, Zenon DEF ReaderInv, EndsInOrder
      <4>2. i - 1 \in 0..l /\ i \in 0..l
        BY <3>1
      <4> QED BY <1>9, <1>10, <3>1, <4>1, <4>2, Zenon
    <3>2. CASE i = l + 1
      <4>1. i - 1 = l /\ l \in 0..l
        BY <3>2
      <4> QED BY <1>5, <1>9, <1>10, <3>2, <4>1, Zenon
    <3> QED BY <3>1, <3>2
  <2>2. ASSUME NEW i \in 0..(l + 1), NEW j \in 0..(l + 1), i <= j
        PROVE  (End(i))' <= (End(j))'
    <3>1. CASE j \in 0..l
      <4>1. i \in 0..l
        BY <2>2, <3>1
      <4>2. End(i) <= End(j)
        BY <1>5, <2>2, <3>1, <4>1, Zenon DEF ReaderInv, EndsInOrder
      <4> QED BY <1>9, <3>1, <4>1, <4>2, Zenon
    <3>2. CASE j = l + 1 /\ i \in 0..l
      <4>1. End(i) <= m /\ End(i) \in Nat
        <5>1. l \in 0..l /\ i <= l
          BY <3>2
        <5> QED BY <1>5, <3>2, <5>1, EndType, Zenon DEF ReaderInv, EndsInOrder
      <4> QED BY SMTT(40), <1>3, <1>5, <1>9, <3>2, <4>1
    <3>3. CASE j = l + 1 /\ i = l + 1
      BY <1>9, <3>3
    <3> QED BY <3>1, <3>2, <3>3
  <2> QED BY Zenon, <1>8, <2>1, <2>2 DEF EndsInOrder
<1>15. PendingReaches'
  <2>1. (End(Len(returned)))' = s /\ Len(Pending') = Len(p) + n
    <3>1. r \in 0..l
      BY <1>5
    <3> QED BY SMTT(40), <1>1, <1>5, <1>9, <1>11, <1>12, <3>1 DEF End
  <2>2. (End(Len(frames)))' = z /\ (End(Len(frames) - 1))' = m /\ Len(frames') > 0
    <3>1. Len(frames') = l + 1 /\ l + 1 - 1 = l /\ l \in 0..l
      BY <1>8
    <3>2. (End(Len(frames)))' = (End(l + 1))' /\ (End(Len(frames) - 1))' = (End(l))'
      BY <3>1 DEF End
    <3> QED BY SMTT(40), <1>5, <1>9, <3>1, <3>2
  <2>3. Len(p) \in Nat /\ n >= 1 /\ n <= Len(e)
    BY <1>3
  <2>4. CASE n = Len(e)
    <3>1. s + (Len(p) + n) = z
      BY SMTT(40), <1>3, <1>5, <1>12, <2>3, <2>4
    <3>2. open'
      BY <1>4, <2>4, Zenon
    <3> QED BY <2>1, <2>2, <3>1, <3>2, Zenon DEF PendingReaches
  <2>5. CASE n # Len(e)
    <3>1. m < s + (Len(p) + n) /\ s + (Len(p) + n) < z
      BY SMTT(40), <1>3, <1>5, <1>12, <2>3, <2>5
    <3>2. ~open'
      BY <1>4, <2>5, Zenon
    <3> QED BY <2>1, <2>2, <3>1, <3>2, Zenon DEF PendingReaches
  <2> QED BY <2>4, <2>5
<1>16. PendingAsSent'
  <2> SUFFICES ASSUME NEW i \in (r + 1)..(l + 1), NEW k \in 1..Len(Encoded(frames'[i])),
                      ((End(i - 1))' - s) + k <= Len(w)
               PROVE  w[((End(i - 1))' - s) + k] = Encoded(frames'[i])[k]
    <3>1. r \in 0..l
      BY <1>5
    <3>2. (End(Len(returned)))' = s
      BY <1>1, <1>5, <1>9, <1>12, <3>1 DEF End
    <3> QED BY ZenonT(40), <1>1, <1>5, <1>8, <1>11, <3>2 DEF PendingAsSent, Start
  <2>1. CASE i \in 1..l
    <3>1. PICK a \in Nat, b \in Nat : a = End(i - 1) /\ b = End(i) /\ s <= a /\ b <= m
      <4>1. i - 1 \in 0..l /\ i \in 0..l /\ r \in 0..l /\ l \in 0..l /\ r <= i - 1 /\ i <= l
        BY <1>5, <2>1
      <4> QED BY <1>5, <1>12, <4>1, EndType, Zenon DEF ReaderInv, EndsInOrder
    <3>2. b = a + Len(Encoded(frames[i]))
      BY <1>5, <2>1, <3>1, Zenon DEF ReaderInv, EndsInOrder
    <3>3. PICK g \in Seq(Byte) : g = Encoded(frames[i]) /\ Len(g) \in Nat
      BY <1>5, <2>1, FrameSent, Zenon
    <3>4. (End(i - 1))' = a /\ Encoded(frames'[i]) = g
      <4>1. i - 1 \in 0..l
        BY <2>1
      <4> QED BY <1>9, <1>10, <2>1, <3>1, <3>3, <4>1, Zenon
    <3>5. (a - s) + k \in 1..Len(p) /\ k \in 1..Len(g)
      <4>1. b = a + Len(g) /\ k \in 1..Len(g)
        BY <3>2, <3>3, <3>4, Zenon
      <4>2. Len(p) \in Nat
        OBVIOUS
      <4>3. s <= a /\ b <= m /\ s + Len(p) = m /\ Len(g) \in Nat
        BY <1>12, <3>1, <3>3, Zenon
      <4> QED BY ONLY <4>1, <4>2, <4>3, m \in Nat, s \in Nat, a \in Nat, b \in Nat
    <3>6. p[(a - s) + k] = g[k]
      <4>1. i \in (Len(returned) + 1)..Len(frames)
        BY <1>5, <2>1
      <4>2. Start(i) = a - s
        BY <1>5, <1>12, <3>1, Zenon DEF Start
      <4>3. (a - s) + k <= Len(p)
        BY <3>5
      <4> QED BY <1>11, <3>3, <3>5, <4>1, <4>2, <4>3, Zenon DEF ReaderInv, PendingAsSent
    <3> QED BY <1>11, <3>4, <3>5, <3>6, Zenon
  <2>2. CASE i = l + 1
    <3>1. (End(i - 1))' = m /\ Encoded(frames'[i]) = e
      <4>1. i - 1 = l /\ l \in 0..l
        BY <2>2
      <4> QED BY <1>5, <1>9, <1>10, <2>2, <4>1, Zenon
    <3>2. (m - s) + k <= Len(p) + n /\ k \in 1..Len(e)
      BY <1>11, <3>1, Zenon
    <3>3. Len(p) \in Nat /\ Len(e) \in Nat
      BY <1>3
    <3>4. (m - s) + k = Len(p) + k /\ k \in 1..n
      BY ONLY SMTT(40), <1>12, <3>2, <3>3, m \in Nat, s \in Nat, n \in 1..Len(e)
    <3> QED BY <1>11, <3>1, <3>4, Zenon
  <2> QED BY SMTT(40), <2>1, <2>2
<1>17. FramesAsSent'
  <2>1. returned' = returned /\ Len(returned') <= Len(frames')
    BY <1>1, <1>5, <1>8
  <2>2. ASSUME NEW i \in DOMAIN returned
        PROVE  returned[i] = [ty |-> frames'[i].ty, buffer |-> Encoded(frames'[i])]
    <3>1. i \in 1..l
      BY SMTT(40), <1>1, <1>5
    <3>2. returned[i] = [ty |-> frames[i].ty, buffer |-> Encoded(frames[i])]
      BY Zenon DEF ReaderInv, FramesAsSent
    <3> QED BY <1>8, <3>1, <3>2, Zenon
  <2> QED BY <2>1, <2>2, Zenon DEF FramesAsSent
<1> QED BY <1>13, <1>14, <1>15, <1>16, <1>17, Zenon DEF ReaderInv

LEMMA ReturnKeepsInv ==
  ASSUME ReaderInv, Return PROVE ReaderInv'
<1>1. /\ frames \in Seq([ty : Byte, body : Bodies, end : Nat])
      /\ unread \in Seq(Byte) /\ data \in Seq(Byte)
      /\ UNCHANGED <<frames, open, unread>> /\ Sufficient(data)
      /\ returned \in Seq([ty : Byte, buffer : Seq(Byte)])
      /\ open \in BOOLEAN
  BY Zenon DEF Return, ReaderInv, ReaderTypeOK
<1>2. PICK l \in Nat, r \in Nat : l = Len(frames) /\ r = Len(returned) /\ r < l
  <2>1. Len(frames) \in Nat /\ Len(returned) \in Nat
    BY <1>1
  <2>2. Len(returned) < Len(frames)
    BY <1>1, SufficientIsWhole, Zenon DEF ReturnsWholeFrames
  <2> QED BY <2>1, <2>2, Zenon
<1>3. r + 1 \in 1..l /\ r + 1 \in 0..l /\ r \in 0..l /\ (r + 1) - 1 = r
  BY <1>2
<1>4. PICK e \in Seq(Byte), c \in Nat :
        /\ e = Encoded(frames[r + 1]) /\ c = Len(e) /\ c >= HEADER_SIZE
        /\ e[1] = frames[r + 1].ty
  BY <1>2, <1>3, FrameSent, Zenon
<1>5. MessageSize(data) = c /\ Len(data) >= c /\ Len(data) \in Nat
  <2>1. Len(data) \in Nat
    BY <1>1
  <2> QED BY <1>1, <1>2, <1>4, <2>1, SufficientIsWhole, Zenon DEF ReturnsWholeFrames
<1>6. \A k \in 1..c : data[k] = e[k]
  <2>1. \A k \in 1..Len(data) : k <= Len(e) => data[k] = e[k]
    BY <1>2, <1>4, NextFrameAhead, Zenon
  <2> QED BY <1>4, <1>5, <2>1
<1>7. SubSeq(data, 1, c) = e
  <2>1. PICK x \in Seq(Byte) :
          x = SubSeq(data, 1, c) /\ Len(x) = c /\ \A k \in 1..c : x[k] = data[k]
    <3>1. /\ SubSeq(data, 1, c) \in Seq(Byte) /\ Len(SubSeq(data, 1, c)) = c
          /\ \A k \in 1..c : SubSeq(data, 1, c)[k] = data[k]
      BY <1>1, <1>5
    <3> QED BY <3>1, Zenon
  <2>2. Len(x) = Len(e) /\ \A k \in 1..Len(x) : x[k] = e[k]
    BY <1>4, <1>6, <2>1, Zenon
  <2> QED BY <2>1, <2>2, SeqEqual, Zenon
<1>8. data[1] = frames[r + 1].ty
  BY <1>4, <1>6 DEF HEADER_SIZE
<1>9. PICK v : v = [ty |-> frames[r + 1].ty, buffer |-> e] /\ returned' = Append(returned, v)
  BY <1>5, <1>7, <1>8, Zenon DEF Return
<1>10. /\ returned' \in Seq([ty : Byte, buffer : Seq(Byte)]) /\ Len(returned') = r + 1
       /\ \A i \in 1..r : returned'[i] = returned[i]
       /\ returned'[r + 1] = v
  <2>1. frames[r + 1].ty \in Byte
    BY <1>2, <1>3, FrameSent, Zenon
  <2>2. v \in [ty : Byte, buffer : Seq(Byte)]
    BY <1>9, <2>1
  <2> QED BY <1>1, <1>2, <1>9, <2>2, AppendProperties
<1>11. PICK t \in Seq(Byte) :
         /\ data' = t /\ Len(t) = Len(data) - c
         /\ \A k \in 1..Len(t) : t[k] = data[c + k]
  <2>1. /\ SubSeq(data, c + 1, Len(data)) \in Seq(Byte)
        /\ Len(SubSeq(data, c + 1, Len(data))) = Len(data) - c
        /\ \A k \in 1..(Len(data) - c) : SubSeq(data, c + 1, Len(data))[k] = data[c + k]
    BY SMTT(40), <1>1, <1>5
  <2>2. data' = SubSeq(data, c + 1, Len(data))
    BY <1>5, Zenon DEF Return
  <2> QED BY <2>1, <2>2, Zenon
<1>12. PICK p \in Seq(Byte), w \in Seq(Byte) :
         /\ p = Pending /\ w = Pending' /\ Len(w) = Len(p) - c /\ Len(p) >= c
         /\ \A k \in 1..Len(w) : w[k] = p[c + k]
  <2>1. PICK d \in Seq(Byte), b \in Seq(Byte) : d = data /\ b = unread
    BY <1>1, Zenon
  <2>2. PICK p \in Seq(Byte) :
          /\ p = d \o b /\ Len(p) = Len(d) + Len(b)
          /\ \A k \in 1..(Len(d) + Len(b)) : p[k] = IF k <= Len(d) THEN d[k] ELSE b[k - Len(d)]
    <3>1. /\ d \o b \in Seq(Byte) /\ Len(d \o b) = Len(d) + Len(b)
          /\ \A k \in 1..(Len(d) + Len(b)) :
               (d \o b)[k] = IF k <= Len(d) THEN d[k] ELSE b[k - Len(d)]
      BY ConcatProperties
    <3> QED BY <3>1, Zenon
  <2>3. PICK w \in Seq(Byte) :
          /\ w = t \o b /\ Len(w) = Len(t) + Len(b)
          /\ \A k \in 1..(Len(t) + Len(b)) : w[k] = IF k <= Len(t) THEN t[k] ELSE b[k - Len(t)]
    <3>1. /\ t \o b \in Seq(Byte) /\ Len(t \o b) = Len(t) + Len(b)
          /\ \A k \in 1..(Len(t) + Len(b)) :
               (t \o b)[k] = IF k <= Len(t) THEN t[k] ELSE b[k - Len(t)]
      BY ConcatProperties
    <3> QED BY <3>1, Zenon
  <2>4. Len(t) = Len(d) - c /\ Len(d) >= c /\ \A k \in 1..Len(t) : t[k] = d[c + k]
    BY <1>5, <1>11, <2>1, Zenon
  <2>5. Len(w) = Len(p) - c /\ Len(p) >= c
    BY <2>2, <2>3, <2>4
  <2>6. ASSUME NEW k \in 1..Len(w) PROVE w[k] = p[c + k]
    <3>1. CASE k <= Len(t)
      BY SMTT(40), <2>2, <2>3, <2>4, <3>1
    <3>2. CASE k > Len(t)
      BY SMTT(40), <2>2, <2>3, <2>4, <3>2
    <3> QED BY <3>1, <3>2
  <2>7. p = Pending /\ w = Pending'
    BY <1>1, <1>11, <2>1, <2>2, <2>3, Zenon DEF Pending
  <2> QED BY <2>5, <2>6, <2>7, Zenon
<1>13. PICK s \in Nat, z \in Nat : s = End(r) /\ z = End(r + 1) /\ z = s + c
  <2>1. End(r) \in Nat /\ End(r + 1) \in Nat
    BY <1>2, <1>3, EndType, Zenon
  <2>2. End(r + 1) = End(r) + c
    BY <1>2, <1>3, <1>4, Zenon DEF ReaderInv, EndsInOrder
  <2> QED BY <2>1, <2>2, Zenon
<1>14. /\ \A i : (End(i))' = End(i)
       /\ (End(Len(returned)))' = z
  BY <1>1, <1>10, <1>13 DEF End
<1>15. ReaderTypeOK'
  BY <1>1, <1>10, <1>11, Zenon DEF ReaderTypeOK
<1>16. EndsInOrder'
  BY <1>1 DEF ReaderInv, EndsInOrder, End
<1>17. PendingReaches'
  <2>1. z + Len(w) = s + Len(p)
    BY <1>12, <1>13
  <2>2. (End(Len(frames)))' = End(Len(frames)) /\ (End(Len(frames) - 1))' = End(Len(frames) - 1)
    BY <1>1 DEF End
  <2>3. /\ open => s + Len(p) = End(Len(frames))
        /\ ~open => /\ Len(frames) > 0
                    /\ End(Len(frames) - 1) < s + Len(p) /\ s + Len(p) < End(Len(frames))
    BY <1>2, <1>12, <1>13, Zenon DEF ReaderInv, PendingReaches
  <2> QED BY <1>1, <1>12, <1>14, <2>1, <2>2, <2>3, Zenon DEF PendingReaches
<1>18. PendingAsSent'
  <2> SUFFICES ASSUME NEW i \in (r + 2)..l, NEW k \in 1..Len(Encoded(frames[i])),
                      (End(i - 1) - z) + k <= Len(w)
               PROVE  w[(End(i - 1) - z) + k] = Encoded(frames[i])[k]
    <3>1. Len(returned') + 1 = r + 2
      BY <1>10
    <3>2. \A i : (Start(i))' = End(i - 1) - z
      BY <1>14, Zenon DEF Start
    <3> QED BY <1>1, <1>2, <1>12, <3>1, <3>2, ZenonT(40) DEF PendingAsSent
  <2>1. PICK a \in Nat : a = End(i - 1) /\ z <= a
    <3>1. i - 1 \in 0..l /\ r + 1 <= i - 1
      BY <1>2
    <3> QED BY <1>2, <1>3, <1>13, <3>1, EndType, Zenon DEF ReaderInv, EndsInOrder
  <2>2. (a - z) + k \in 1..Len(w) /\ (a - z) + k + c = (a - s) + k /\ (a - s) + k <= Len(p)
    <3>1. (a - z) + k <= Len(w)
      BY <2>1, Zenon
    <3>2. k \in Nat /\ k >= 1 /\ Len(p) \in Nat
      OBVIOUS
    <3>3. Len(w) = Len(p) - c /\ z = s + c /\ z <= a
      BY <1>12, <1>13, <2>1, Zenon
    <3> QED BY ONLY <3>1, <3>2, <3>3, a \in Nat, s \in Nat, z \in Nat, c \in Nat
  <2>3. p[(a - s) + k] = Encoded(frames[i])[k]
    <3>1. i \in (Len(returned) + 1)..Len(frames)
      BY <1>2
    <3>2. Start(i) = a - s
      BY <1>2, <1>13, <2>1, Zenon DEF Start
    <3> QED BY <1>12, <2>2, <3>1, <3>2, Zenon DEF ReaderInv, PendingAsSent
  <2>4. w[(a - z) + k] = p[c + ((a - z) + k)]
    BY <1>12, <2>2, Zenon
  <2>5. c + ((a - z) + k) = (a - s) + k
    <3>1. z = s + c /\ k \in Nat
      BY <1>13
    <3> QED BY ONLY <3>1, a \in Nat, s \in Nat, c \in Nat
  <2> QED BY <2>1, <2>3, <2>4, <2>5, Zenon
<1>19. FramesAsSent'
  <2>1. DOMAIN returned = 1..r /\ DOMAIN returned' = 1..(r + 1)
    BY <1>1, <1>2, <1>10
  <2>2. Len(returned') <= Len(frames')
    BY <1>1, <1>2, <1>10
  <2>3. ASSUME NEW i \in 1..(r + 1)
        PROVE  returned'[i] = [ty |-> frames[i].ty, buffer |-> Encoded(frames[i])]
    <3>1. CASE i \in 1..r
      BY <1>10, <2>1, <3>1, Zenon DEF ReaderInv, FramesAsSent
    <3>2. CASE i = r + 1
      BY <1>4, <1>9, <1>10, <3>2, Zenon
    <3> QED BY <3>1, <3>2
  <2> QED BY <1>1, <2>1, <2>2, <2>3, Zenon DEF FramesAsSent
<1> QED BY <1>15, <1>16, <1>17, <1>18, <1>19, Zenon DEF ReaderInv

LEMMA NextKeepsReaderInv ==
  ASSUME ReaderInv, [ReaderNext]_reader_vars PROVE ReaderInv'
<1>1. CASE UNCHANGED reader_vars
  <2>1. /\ frames' = frames /\ open' = open /\ unread' = unread
        /\ data' = data /\ returned' = returned
    BY <1>1, Zenon DEF reader_vars
  <2>2. ReaderTypeOK' /\ FramesAsSent'
    BY <2>1, Zenon DEF ReaderInv, ReaderTypeOK, FramesAsSent
  <2>3. Pending' = Pending /\ \A i : End(i)' = End(i)
    BY <2>1, Zenon DEF Pending, End
  <2>4. EndsInOrder' /\ PendingReaches'
    BY <2>1, <2>3, Zenon DEF ReaderInv, EndsInOrder, PendingReaches
  <2>5. PendingAsSent'
    BY <2>1, <2>3, Zenon DEF ReaderInv, PendingAsSent, Start
  <2> QED BY <2>2, <2>4, <2>5, Zenon DEF ReaderInv
<1> QED BY <1>1, SendKeepsInv, ReturnKeepsInv, ReadKeepsInv, ZenonT(40) DEF ReaderNext

-----------------------------------------------------------------------------
(***************************************************************************)
(* Whatever frames are sent, whatever reads the network makes of them and  *)
(* wherever the connection ends: each byte that the reader has not handed  *)
(* out belongs to the frame and the place that it was sent in.             *)
(***************************************************************************)
THEOREM ReaderKeepsPlace == ReaderSpec => []ReaderInv
BY InitReader, NextKeepsReaderInv, PTL DEF ReaderSpec

(***************************************************************************)
(* get_next_message returns the frames that were sent, in their order and  *)
(* byte for byte.                                                          *)
(***************************************************************************)
THEOREM ReaderReturnsFrames == ReaderSpec => []FramesAsSent
<1>1. ReaderInv => FramesAsSent
  BY DEF ReaderInv
<1> QED BY <1>1, ReaderKeepsPlace, PTL

(***************************************************************************)
(* next_message finds a message exactly when the whole next frame is in    *)
(* the buffer.                                                             *)
(***************************************************************************)
THEOREM ReaderWaitsForWhole == ReaderSpec => []ReturnsWholeFrames
<1>1. ReaderInv => ReturnsWholeFrames
  BY SufficientIsWhole
<1> QED BY <1>1, ReaderKeepsPlace, PTL

-----------------------------------------------------------------------------
(* Keys *)

Key == [1..KEY_SIZE -> 0..255]

(* Clamping twice is clamping once. *)
LEMMA ClampOnce ==
  ASSUME NEW bytes \in Key
  PROVE  Clamp(bytes) \in Key /\ Clamp(Clamp(bytes)) = Clamp(bytes)
<1>1. \A x \in 0..255 : And248(x) \in 0..255 /\ And248(And248(x)) = And248(x)
  BY DEF And248
<1>2. \A x \in 0..255 : Or64(And127(x)) \in 0..255 /\ Or64(And127(Or64(And127(x)))) = Or64(And127(x))
  BY DEF And127, Or64
<1>3. 1 \in 1..KEY_SIZE /\ KEY_SIZE \in 1..KEY_SIZE /\ KEY_SIZE # 1
  BY DEF KEY_SIZE
<1> QED BY ZenonT(40), <1>1, <1>2, <1>3 DEF Clamp, Key

(* A key as a sequence *)
LEMMA FunctionIsSeq ==
  ASSUME NEW n \in Nat, NEW S, NEW f \in [1..n -> S]
  PROVE  Len(f) = n
OBVIOUS

LEMMA KeyIsSeq ==
  ASSUME NEW bytes \in Key
  PROVE  Len(bytes) = 32 /\ \A i \in 1..32 : bytes[i] \in 0..255
<1>1. bytes \in [1..KEY_SIZE -> 0..255]
  BY Zenon DEF Key
<1>2. KEY_SIZE = 32
  BY DEF KEY_SIZE
<1>3. Len(bytes) = KEY_SIZE
  <2>1. KEY_SIZE \in Nat
    BY DEF KEY_SIZE
  <2> QED BY <1>1, <2>1, FunctionIsSeq, SMTT(40)
<1>4. \A i \in 1..KEY_SIZE : bytes[i] \in 0..255
  BY <1>1, Zenon
<1> QED BY <1>2, <1>3, <1>4, Zenon

(* Hex is read as what it was written from. *)
LEMMA HexRead ==
  ASSUME NEW bytes \in Key
  PROVE  Len(ToHex(bytes)) = 64 /\ FromHex(ToHex(bytes)) = bytes
<1>1. 2 * Len(bytes) = 64
  <2>1. Len(bytes) = 32
    BY KeyIsSeq, Zenon
  <2> QED BY <2>1
<1>2. PICK text : text = ToHex(bytes)
  OBVIOUS
<1>3. text = [i \in 1..64 |-> IF i % 2 = 1 THEN bytes[(i + 1) \div 2] \div 16
                              ELSE bytes[(i + 1) \div 2] % 16]
  <2>1. ToHex(bytes) = [i \in 1..(2 * Len(bytes)) |->
          IF i % 2 = 1 THEN bytes[(i + 1) \div 2] \div 16 ELSE bytes[(i + 1) \div 2] % 16]
    BY Zenon DEF ToHex
  <2> QED BY <1>1, <1>2, <2>1, Zenon
<1>4. Len(text) = 64
  BY <1>3
<1>5. ASSUME NEW i \in 1..32 PROVE 16 * text[2 * i - 1] + text[2 * i] = bytes[i]
  <2>1. 2 * i - 1 \in 1..64 /\ 2 * i \in 1..64 /\ (2 * i - 1) % 2 = 1 /\ (2 * i) % 2 = 0
    OBVIOUS
  <2>2. (2 * i - 1 + 1) \div 2 = i /\ (2 * i + 1) \div 2 = i
    OBVIOUS
  <2>3. text[2 * i - 1] = bytes[i] \div 16 /\ text[2 * i] = bytes[i] % 16
    BY SMTT(40), <1>3, <2>1, <2>2
  <2>4. PICK b \in 0..255 : b = bytes[i]
    BY KeyIsSeq
  <2>5. 16 * (b \div 16) + (b % 16) = b
    OBVIOUS
  <2> QED BY <2>3, <2>4, <2>5
<1>6. Len(text) \div 2 = 32
  BY <1>4
<1>7. FromHex(text) = [i \in 1..32 |-> bytes[i]]
  BY Zenon, <1>5, <1>6 DEF FromHex
<1>8. bytes = [i \in 1..32 |-> bytes[i]]
  BY DEF Key, KEY_SIZE
<1> QED BY <1>2, <1>4, <1>7, <1>8

(* Three bytes and their four digits *)
LEMMA Group ==
  ASSUME NEW a \in 0..255, NEW b \in 0..255, NEW c \in 0..255
  PROVE  /\ a \div 4 \in 0..63 /\ 16 * (a % 4) + (b \div 16) \in 0..63
         /\ 4 * (b % 16) + (c \div 64) \in 0..63 /\ c % 64 \in 0..63
         /\ 4 * (a \div 4) + ((16 * (a % 4) + (b \div 16)) \div 16) = a
         /\ 16 * ((16 * (a % 4) + (b \div 16)) % 16) + ((4 * (b % 16) + (c \div 64)) \div 4) = b
         /\ 64 * ((4 * (b % 16) + (c \div 64)) % 4) + (c % 64) = c
OBVIOUS

(* The digits and the bytes of group g *)
LEMMA SixBitsOfGroup ==
  ASSUME NEW bytes, NEW g \in Nat
  PROVE  /\ SixBits(bytes, 4 * g + 1) = At(bytes, 3 * g + 1) \div 4
         /\ SixBits(bytes, 4 * g + 2) =
              16 * (At(bytes, 3 * g + 1) % 4) + (At(bytes, 3 * g + 2) \div 16)
         /\ SixBits(bytes, 4 * g + 3) =
              4 * (At(bytes, 3 * g + 2) % 16) + (At(bytes, 3 * g + 3) \div 64)
         /\ SixBits(bytes, 4 * g + 4) = At(bytes, 3 * g + 3) % 64
<1>1. /\ (4 * g + 1 - 1) \div 4 = g /\ (4 * g + 2 - 1) \div 4 = g
      /\ (4 * g + 3 - 1) \div 4 = g /\ (4 * g + 4 - 1) \div 4 = g
  OBVIOUS
<1>2. /\ (4 * g + 1) % 4 = 1 /\ (4 * g + 2) % 4 = 2
      /\ (4 * g + 3) % 4 = 3 /\ (4 * g + 4) % 4 = 0
  OBVIOUS
<1> QED BY <1>1, <1>2 DEF SixBits

LEMMA EightBitsOfGroup ==
  ASSUME NEW text, NEW g \in Nat
  PROVE  /\ EightBits(text, 3 * g + 1) = 4 * text[4 * g + 1] + (text[4 * g + 2] \div 16)
         /\ EightBits(text, 3 * g + 2) =
              16 * (text[4 * g + 2] % 16) + (text[4 * g + 3] \div 4)
         /\ EightBits(text, 3 * g + 3) = 64 * (text[4 * g + 3] % 4) + text[4 * g + 4]
<1>1. /\ (3 * g + 1 - 1) \div 3 = g /\ (3 * g + 2 - 1) \div 3 = g
      /\ (3 * g + 3 - 1) \div 3 = g
  OBVIOUS
<1>2. (3 * g + 1) % 3 = 1 /\ (3 * g + 2) % 3 = 2 /\ (3 * g + 3) % 3 = 0
  OBVIOUS
<1> QED BY <1>1, <1>2 DEF EightBits

(* Base64 is read as what it was written from: 43 digits and one padding. *)
LEMMA Base64Read ==
  ASSUME NEW bytes \in Key
  PROVE  Len(ToBase64(bytes)) = 44 /\ FromBase64(ToBase64(bytes)) = bytes
<1>1. Len(bytes) = 32 /\ \A i \in 1..32 : bytes[i] \in 0..255
  BY KeyIsSeq, ZenonT(40)
<1>2. DOMAIN bytes = 1..32
  BY Zenon DEF Key, KEY_SIZE
<1>3. /\ \A i \in Nat : At(bytes, i) \in 0..255
      /\ \A i \in 1..32 : At(bytes, i) = bytes[i]
  <2>1. 0 \in 0..255
    OBVIOUS
  <2> QED BY <1>1, <1>2, <2>1, Zenon DEF At
<1>4. PICK text : text = ToBase64(bytes)
  OBVIOUS
<1>5. text = [i \in 1..44 |-> IF i > 43 THEN Pad ELSE SixBits(bytes, i)]
  <2>1. (8 * 32 + 5) \div 6 = 43 /\ 4 * ((43 + 3) \div 4) = 44
    OBVIOUS
  <2> QED BY <1>1, <1>4, <2>1, ZenonT(40) DEF ToBase64
<1>6. Len(text) = 44 /\ text[44] = Pad
  BY <1>5
<1>7. \A i \in 1..43 : text[i] = SixBits(bytes, i)
  BY <1>5
<1>8. ASSUME NEW g \in 0..10
      PROVE  /\ At(bytes, 3 * g + 1) \in 0..255 /\ At(bytes, 3 * g + 2) \in 0..255 /\ At(bytes, 3 * g + 3) \in 0..255
             /\ text[4 * g + 1] = At(bytes, 3 * g + 1) \div 4
             /\ text[4 * g + 2] =
                  16 * (At(bytes, 3 * g + 1) % 4) + (At(bytes, 3 * g + 2) \div 16)
             /\ text[4 * g + 3] =
                  4 * (At(bytes, 3 * g + 2) % 16) + (At(bytes, 3 * g + 3) \div 64)
             /\ g < 10 => text[4 * g + 4] = At(bytes, 3 * g + 3) % 64
  <2>1. /\ 4 * g + 1 \in 1..43 /\ 4 * g + 2 \in 1..43 /\ 4 * g + 3 \in 1..43
        /\ g < 10 => 4 * g + 4 \in 1..43
    OBVIOUS
  <2>2. /\ At(bytes, 3 * g + 1) \in 0..255 /\ At(bytes, 3 * g + 2) \in 0..255
        /\ At(bytes, 3 * g + 3) \in 0..255
    <3>1. 3 * g + 1 \in Nat /\ 3 * g + 2 \in Nat /\ 3 * g + 3 \in Nat
      OBVIOUS
    <3> QED BY <1>3, <3>1, Zenon
  <2>3. g \in Nat
    OBVIOUS
  <2>4. /\ SixBits(bytes, 4 * g + 1) = At(bytes, 3 * g + 1) \div 4
        /\ SixBits(bytes, 4 * g + 2) =
             16 * (At(bytes, 3 * g + 1) % 4) + (At(bytes, 3 * g + 2) \div 16)
        /\ SixBits(bytes, 4 * g + 3) =
             4 * (At(bytes, 3 * g + 2) % 16) + (At(bytes, 3 * g + 3) \div 64)
        /\ SixBits(bytes, 4 * g + 4) = At(bytes, 3 * g + 3) % 64
    BY <2>3, SixBitsOfGroup, Zenon
  <2> QED BY <1>7, <2>1, <2>2, <2>4, Zenon
<1>9. ASSUME NEW i \in 1..43 PROVE text[i] \in 0..63
  <2>1. PICK g \in 0..10, j \in 1..4 : i = 4 * g + j
    <3>1. (i - 1) \div 4 \in 0..10 /\ i - 4 * ((i - 1) \div 4) \in 1..4
      OBVIOUS
    <3>2. i = 4 * ((i - 1) \div 4) + (i - 4 * ((i - 1) \div 4))
      OBVIOUS
    <3> QED BY <3>1, <3>2, Zenon
  <2>a. PICK a : a = At(bytes, 3 * g + 1)
    OBVIOUS
  <2>b. PICK b : b = At(bytes, 3 * g + 2)
    OBVIOUS
  <2>c. PICK c : c = At(bytes, 3 * g + 3)
    OBVIOUS
  <2>2. /\ a \in 0..255 /\ b \in 0..255 /\ c \in 0..255
        /\ text[4 * g + 1] = a \div 4
        /\ text[4 * g + 2] = 16 * (a % 4) + (b \div 16)
        /\ text[4 * g + 3] = 4 * (b % 16) + (c \div 64)
        /\ g < 10 => text[4 * g + 4] = c % 64
    <3>1. /\ At(bytes, 3 * g + 1) \in 0..255 /\ At(bytes, 3 * g + 2) \in 0..255 /\ At(bytes, 3 * g + 3) \in 0..255
          /\ text[4 * g + 1] = At(bytes, 3 * g + 1) \div 4
          /\ text[4 * g + 2] =
               16 * (At(bytes, 3 * g + 1) % 4) + (At(bytes, 3 * g + 2) \div 16)
          /\ text[4 * g + 3] =
               4 * (At(bytes, 3 * g + 2) % 16) + (At(bytes, 3 * g + 3) \div 64)
          /\ g < 10 => text[4 * g + 4] = At(bytes, 3 * g + 3) % 64
      BY <1>8, Zenon
    <3> QED BY <2>a, <2>b, <2>c, <3>1, Zenon
  <2>3. /\ text[4 * g + 1] \in 0..63 /\ text[4 * g + 2] \in 0..63
        /\ text[4 * g + 3] \in 0..63
        /\ g < 10 => text[4 * g + 4] \in 0..63
    <3>1. a \in 0..255 /\ b \in 0..255 /\ c \in 0..255
      BY <2>2, Zenon
    <3>2. /\ a \div 4 \in 0..63 /\ 16 * (a % 4) + (b \div 16) \in 0..63
          /\ 4 * (b % 16) + (c \div 64) \in 0..63 /\ c % 64 \in 0..63
      BY ONLY <3>1
    <3> QED BY <2>2, <3>2, Zenon
  <2>4. j = 1 \/ j = 2 \/ j = 3 \/ (j = 4 /\ g < 10)
    BY <2>1
  <2> QED BY <2>1, <2>3, <2>4, Zenon
<1>10. Digits(text) = 43
  <2>1. \A i \in 1..Len(text) : (text[i] = Pad) <=> (i > 43)
    <3>1. ASSUME NEW i \in 1..43 PROVE text[i] # Pad /\ ~(i > 43)
      <4>1. text[i] \in 0..63
        BY <1>9, Zenon
      <4> QED BY <4>1 DEF Pad
    <3>2. \A i \in 1..44 : i \in 1..43 \/ i = 44
      OBVIOUS
    <3>3. 44 > 43
      OBVIOUS
    <3> QED BY <1>6, <3>1, <3>2, <3>3, Zenon
  <2>2. 43 \in 0..Len(text)
    BY <1>6
  <2>3. ASSUME NEW n \in 0..Len(text), \A i \in 1..Len(text) : (text[i] = Pad) <=> (i > n)
        PROVE  n = 43
    <3>1. 44 > n /\ ~(43 > n)
      <4>1. 44 \in 1..Len(text) /\ 43 \in 1..Len(text) /\ ~(43 > 43) /\ 44 > 43
        BY <1>6
      <4> QED BY <2>1, <2>3, <4>1, Zenon
    <3> QED BY <1>6, <3>1
  <2> QED BY <2>1, <2>2, <2>3, Zenon DEF Digits
<1>11. ASSUME NEW i \in 1..32 PROVE EightBits(text, i) = bytes[i]
  <2>1. PICK g \in 0..10, j \in 1..3 : i = 3 * g + j
    <3>1. (i - 1) \div 3 \in 0..10 /\ i - 3 * ((i - 1) \div 3) \in 1..3
      OBVIOUS
    <3>2. i = 3 * ((i - 1) \div 3) + (i - 3 * ((i - 1) \div 3))
      OBVIOUS
    <3> QED BY <3>1, <3>2, Zenon
  <2>a. PICK a : a = At(bytes, 3 * g + 1)
    OBVIOUS
  <2>b. PICK b : b = At(bytes, 3 * g + 2)
    OBVIOUS
  <2>c. PICK c : c = At(bytes, 3 * g + 3)
    OBVIOUS
  <2>2. /\ a \in 0..255 /\ b \in 0..255 /\ c \in 0..255
        /\ text[4 * g + 1] = a \div 4
        /\ text[4 * g + 2] = 16 * (a % 4) + (b \div 16)
        /\ text[4 * g + 3] = 4 * (b % 16) + (c \div 64)
        /\ g < 10 => text[4 * g + 4] = c % 64
    <3>1. /\ At(bytes, 3 * g + 1) \in 0..255 /\ At(bytes, 3 * g + 2) \in 0..255 /\ At(bytes, 3 * g + 3) \in 0..255
          /\ text[4 * g + 1] = At(bytes, 3 * g + 1) \div 4
          /\ text[4 * g + 2] =
               16 * (At(bytes, 3 * g + 1) % 4) + (At(bytes, 3 * g + 2) \div 16)
          /\ text[4 * g + 3] =
               4 * (At(bytes, 3 * g + 2) % 16) + (At(bytes, 3 * g + 3) \div 64)
          /\ g < 10 => text[4 * g + 4] = At(bytes, 3 * g + 3) % 64
      BY <1>8, Zenon
    <3> QED BY <2>a, <2>b, <2>c, <3>1, Zenon
  <2>3. g \in Nat
    OBVIOUS
  <2>4. /\ EightBits(text, 3 * g + 1) = a /\ EightBits(text, 3 * g + 2) = b
        /\ g < 10 => EightBits(text, 3 * g + 3) = c
    <3>1. /\ 4 * (a \div 4) + ((16 * (a % 4) + (b \div 16)) \div 16) = a
          /\ 16 * ((16 * (a % 4) + (b \div 16)) % 16) + ((4 * (b % 16) + (c \div 64)) \div 4) = b
          /\ 64 * ((4 * (b % 16) + (c \div 64)) % 4) + (c % 64) = c
      <4>1. a \in 0..255 /\ b \in 0..255 /\ c \in 0..255
        BY <2>2, Zenon
      <4> QED BY ONLY <4>1
    <3>2. /\ EightBits(text, 3 * g + 1) = 4 * text[4 * g + 1] + (text[4 * g + 2] \div 16)
          /\ EightBits(text, 3 * g + 2) = 16 * (text[4 * g + 2] % 16) + (text[4 * g + 3] \div 4)
          /\ EightBits(text, 3 * g + 3) = 64 * (text[4 * g + 3] % 4) + text[4 * g + 4]
      BY <2>3, EightBitsOfGroup, Zenon
    <3> QED BY <2>2, <3>1, <3>2, Zenon
  <2>5. j = 1 \/ j = 2 \/ (j = 3 /\ g < 10)
    BY <2>1
  <2>6. EightBits(text, i) = At(bytes, i)
    BY <2>1, <2>a, <2>b, <2>c, <2>4, <2>5, Zenon
  <2> QED BY <1>3, <2>6, Zenon
<1>12. FromBase64(text) = [i \in 1..32 |-> bytes[i]]
  <2>1. (6 * 43) \div 8 = 32
    OBVIOUS
  <2> QED BY <1>10, <1>11, <2>1, Zenon DEF FromBase64
<1>13. bytes = [i \in 1..32 |-> bytes[i]]
  BY DEF Key, KEY_SIZE
<1> QED BY <1>4, <1>6, <1>12, <1>13, Zenon

(* from_str reads both notations of a key, and makes the key anew. *)
LEMMA FromStrReads ==
  ASSUME NEW k, NEW bytes \in Key
  PROVE  \A text \in {ToBase64(bytes), ToHex(bytes)} :
           from_str(k, text) = [ok |-> TRUE, key |-> new(k, bytes)]
<1>1. 2 * KEY_SIZE = 64 /\ 44 # 64
  BY DEF KEY_SIZE
<1>2. from_str(k, ToHex(bytes)) = [ok |-> TRUE, key |-> new(k, bytes)]
  <2>1. Len(ToHex(bytes)) = 64 /\ FromHex(ToHex(bytes)) = bytes
    BY HexRead, Zenon
  <2> QED BY <1>1, <2>1, ZenonT(40) DEF from_str
<1>3. from_str(k, ToBase64(bytes)) = [ok |-> TRUE, key |-> new(k, bytes)]
  <2>1. Len(ToBase64(bytes)) = 44 /\ FromBase64(ToBase64(bytes)) = bytes
    BY Base64Read, Zenon
  <2> QED BY <1>1, <2>1, ZenonT(40) DEF from_str
<1> QED BY <1>2, <1>3, Zenon

(* What a key may have become is a key, and making it anew leads no       *)
(* further.                                                                *)
LEMMA VersionsClosed ==
  ASSUME KeysInv, NEW key \in Versions
  PROVE  key \in Key /\ new(kind, key) \in Versions
<1>1. made.key \in Key
  BY SMTT(40) DEF KeysInv, Key
<1>2. Clamp(made.key) \in Key /\ Clamp(Clamp(made.key)) = Clamp(made.key)
  BY <1>1, ClampOnce, Zenon
<1> QED BY <1>1, <1>2, Zenon DEF Versions, new

LEMMA KeysStart == KeysInit => KeysInv
<1> SUFFICES ASSUME KeysInit PROVE KeysInv
  OBVIOUS
<1>1. PICK bytes \in RawKeys :
        \/ \E k \in {"secret", "public", "preshared"} : Make(k, new(k, bytes), TRUE)
        \/ Make("secret", try_from(bytes), FALSE)
  BY Zenon DEF KeysInit
<1>2. bytes \in Key
  BY KeysAssumption, Zenon DEF Key
<1>3. Clamp(bytes) \in Key /\ Clamp(Clamp(bytes)) = Clamp(bytes)
  BY <1>2, ClampOnce, Zenon
<1>4. ASSUME NEW k \in {"secret", "public", "preshared"}, Make(k, new(k, bytes), TRUE)
      PROVE  KeysInv
  <2>1. /\ kind = k /\ form = "key" /\ held = new(k, bytes)
        /\ made = [key |-> new(k, bytes), clamped |-> TRUE]
    BY <1>4, Zenon DEF Make
  <2>2. made.key = new(k, bytes) /\ made.clamped = TRUE
    BY <2>1, Zenon
  <2>3. new(k, bytes) \in Key /\ (k = "secret" => Clamp(new(k, bytes)) = new(k, bytes))
    BY <1>2, <1>3, Zenon DEF new
  <2> QED BY <2>1, <2>2, <2>3, Zenon DEF KeysInv, Versions, Key
<1>5. ASSUME Make("secret", try_from(bytes), FALSE) PROVE KeysInv
  <2>1. /\ kind = "secret" /\ form = "key" /\ held = bytes
        /\ made = [key |-> bytes, clamped |-> FALSE]
    BY <1>5, Zenon DEF Make, try_from
  <2>2. made.key = bytes /\ made.clamped = FALSE
    BY <2>1, Zenon
  <2> QED BY <1>2, <2>1, <2>2, Zenon DEF KeysInv, Versions, Key
<1> QED BY <1>1, <1>4, <1>5, Zenon

(* A conversion that ends with a version of the key, or with the text of  *)
(* one, keeps the invariant.                                               *)
LEMMA ConvertKeeps ==
  ASSUME KeysInv, NEW from, NEW to, NEW content, Convert(from, to, content),
         \/ to \in {"key", "bytes", "box"} /\ content \in Versions
         \/ to = "text" /\ \E key \in Versions : content \in {ToBase64(key), ToHex(key)}
  PROVE  KeysInv'
<1>1. form' = to /\ held' = content /\ kind' = kind /\ made' = made
  BY Zenon DEF Convert
<1>2. Versions' = Versions
  BY <1>1, Zenon DEF Versions
<1>3. \/ form' \in {"key", "bytes", "box"} /\ held' \in Versions'
      \/ form' = "text" /\ \E key \in Versions' : held' \in {ToBase64(key), ToHex(key)}
  BY <1>1, <1>2, Zenon
<1> QED BY <1>1, <1>3, Zenon DEF KeysInv

LEMMA KeysStep == KeysInv /\ [KeysNext]_keys_vars => KeysInv'
<1> SUFFICES ASSUME KeysInv, [KeysNext]_keys_vars PROVE KeysInv'
  OBVIOUS
<1>0. ASSUME form \in {"key", "bytes", "box"} PROVE held \in Versions /\ new(kind, held) \in Versions
  <2>1. held \in Versions
    BY <1>0, Zenon DEF KeysInv
  <2> QED BY <2>1, VersionsClosed, Zenon
<1>1. CASE Display
  BY <1>0, <1>1, ConvertKeeps, Zenon DEF Display, Convert
<1>2. CASE LowerHex
  BY <1>0, <1>2, ConvertKeeps, Zenon DEF LowerHex, Convert
<1>3. CASE FromStr
  <2>1. form = "text" /\ Convert("text", "key", from_str(kind, held).key)
    BY <1>3, Zenon DEF FromStr, Convert
  <2>2. PICK key \in Versions : held \in {ToBase64(key), ToHex(key)}
    BY <2>1, Zenon DEF KeysInv
  <2>3. key \in Key /\ new(kind, key) \in Versions
    BY VersionsClosed, Zenon
  <2>4. from_str(kind, held) = [ok |-> TRUE, key |-> new(kind, key)]
    BY <2>2, <2>3, FromStrReads, Zenon
  <2>5. from_str(kind, held).key = new(kind, key)
    BY <2>4
  <2> QED BY <2>1, <2>3, <2>5, ConvertKeeps, Zenon
<1>4. CASE IntoBytes
  BY <1>0, <1>4, ConvertKeeps, Zenon DEF IntoBytes, Convert
<1>5. CASE TryFrom
  BY <1>0, <1>5, ConvertKeeps, Zenon DEF TryFrom, Convert, try_from
<1>6. CASE New
  BY <1>0, <1>6, ConvertKeeps, Zenon DEF New, Convert
<1>7. CASE IntoBox
  <2>1. PICK bytes \in {held, new(kind, held)} : Convert("key", "box", bytes)
    BY <1>7, Zenon DEF IntoBox
  <2>2. bytes \in Versions
    BY <1>0, <2>1, Zenon DEF Convert
  <2> QED BY <2>1, <2>2, ConvertKeeps, Zenon
<1>8. CASE FromBox
  BY <1>0, <1>8, ConvertKeeps, Zenon DEF FromBox, Convert
<1>9. CASE UNCHANGED keys_vars
  <2>1. kind' = kind /\ form' = form /\ held' = held /\ made' = made
    BY <1>9, Zenon DEF keys_vars
  <2> QED BY <2>1, Zenon DEF KeysInv, Versions
<1> QED BY <1>1, <1>2, <1>3, <1>4, <1>5, <1>6, <1>7, <1>8, <1>9, Zenon DEF KeysNext

(***************************************************************************)
(* Whatever conversions of crypto.rs a key goes through, what is held is   *)
(* the key it was made as or the clamped one, as bytes or as a text that   *)
(* from_str reads.                                                         *)
(***************************************************************************)
THEOREM KeysStayVersions == KeysSpec => []KeysInv
BY KeysStart, KeysStep, PTL DEF KeysSpec

(* Whatever its bytes, a key that was clamped when it was made, or is not  *)
(* a secret one, comes back byte for byte from any conversions.            *)
THEOREM KeysComeBack == KeysSpec => []KeyKept
<1>1. KeysInv => KeyKept
  <2> SUFFICES ASSUME KeysInv, made.clamped
               PROVE  /\ form = "key" => held = made.key
                      /\ form = "text" => from_str(kind, held) = [ok |-> TRUE, key |-> made.key]
    BY Zenon DEF KeyKept
  <2>1. ASSUME NEW key \in Versions PROVE key = made.key /\ new(kind, key) = made.key
    BY Zenon DEF KeysInv, Versions, new
  <2>2. form = "key" => held = made.key
    BY <2>1, Zenon DEF KeysInv
  <2>3. ASSUME form = "text" PROVE from_str(kind, held) = [ok |-> TRUE, key |-> made.key]
    <3>1. PICK key \in Versions : held \in {ToBase64(key), ToHex(key)}
      BY <2>3, Zenon DEF KeysInv
    <3>2. key \in Key
      BY VersionsClosed, Zenon
    <3>3. from_str(kind, held) = [ok |-> TRUE, key |-> new(kind, key)]
      BY <3>1, <3>2, FromStrReads, Zenon
    <3> QED BY <2>1, <3>3, Zenon
  <2> QED BY <2>2, <2>3, Zenon
<1> QED BY <1>1, KeysStayVersions, PTL

(* Whatever its bytes, a secret key keeps its public key, and changes only *)
(* to its clamped form.                                                    *)
THEOREM PublicKeyComesBack == KeysSpec => []PublicKept
<1>1. KeysInv => PublicKept
  <2> SUFFICES ASSUME KeysInv, form = "key", kind = "secret"
               PROVE  held \in {made.key, Clamp(made.key)} /\ public(held) = public(made.key)
    BY Zenon DEF PublicKept
  <2>1. held \in {made.key, Clamp(made.key)}
    BY Zenon DEF KeysInv, Versions
  <2>2. Clamp(Clamp(made.key)) = Clamp(made.key)
    BY ClampOnce, Zenon DEF KeysInv, Key
  <2> QED BY <2>1, <2>2, Zenon DEF public
<1> QED BY <1>1, KeysStayVersions, PTL

=============================================================================
