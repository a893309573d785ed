------------------------------ MODULE MCFormats ------------------------------
(* The codec and the keys, with bytes of two values for the codec.  The two *)
(* share no state: in a behaviour one of them moves and the other rests.    *)
EXTENDS DerpCodec, DerpKeys

(* Frame<T>: the frame types recvPing (0) and Unkonow, and a size of two    *)
(* bytes, so that a size overflows at four.                                 *)
FrameType ==
  Enum(1, << Variant(<<Tag(0)>>, FALSE, <<>>),
             Variant(<<Unknown>>, FALSE, <<[of |-> U(1), attrs |-> <<Unknown>>]>>) >>)
Frame(of) == Struct(<<FrameType, SizeWrapper(2, of)>>)

(* SendPacket, WatchConns and ServerKey, and a stream of frames of two      *)
(* types, PeerPresent and WatchConns, which has the bytes of one Frame<T>   *)
(* after the other.  There a key is longer than a header with an empty      *)
(* body, as in the code.                                                    *)
SendPacket == Struct(<<Array(2), Vec(U(1))>>)
WatchConns == Struct(<<Vec(U(1))>>)
ServerKey == Struct(<<Array(1), Array(1)>>)
PeerPresent == Struct(<<Array(5)>>)
Stream ==
  Enum(1, << Variant(<<Tag(0)>>, FALSE, <<Field(SizeWrapper(3, PeerPresent))>>),
             Variant(<<Unknown>>, FALSE, <<[of |-> U(1), attrs |-> <<Unknown>>],
                                           Field(SizeWrapper(3, WatchConns))>>) >>)
FrameTypes == {Frame(SendPacket), Frame(WatchConns), Frame(ServerKey), Stream}

(* The nested sizes of a Vector of Opaque, sizes that overflow at two, an   *)
(* Option at the end of a buffer, and bytes that are ignored.               *)
Nested ==
  {SizeWrapper(2, Vec(Opaque(1))), Opaque(1), SizeWrapper(1, Vec(U(2))), U(2),
   Struct(<<U(1), Option(U(1))>>), Struct(<<Opaque(2), Vec(U(1))>>),
   Struct(<<U(1), Ignore>>)}

(* Every enum of at most two variants of these fields and attributes, and   *)
(* structs with misplaced attributes.                                       *)
Plain == [of |-> U(1), attrs |-> <<>>]
Repeats == [of |-> U(1), attrs |-> <<Unknown>>]
Tagged == [of |-> U(1), attrs |-> <<Tag(0)>>]
Variants(attrs) ==
  {Variant(a, FALSE, fields) : a \in attrs, fields \in {<<>>, <<Plain>>, <<Repeats>>}}
    \cup {Variant(a, TRUE, fields) : a \in attrs, fields \in {<<Repeats>>, <<Plain, Repeats>>}}
Enums == {Enum(1, variants) : variants \in Variants({<<Tag(0)>>, <<Tag(1)>>, <<Unknown>>})
                                            \X Variants({<<Tag(0)>>, <<Unknown>>})}
Misplaced ==
  {Enum(1, <<v>>) : v \in Variants({<<>>, <<Tag(0), Unknown>>, <<Unknown>>})}
    \cup {[ty |-> "struct", fields |-> <<f>>] : f \in {Repeats, Tagged}}
    \cup {Enum(1, <<Variant(<<Unknown>>, FALSE, <<Repeats, f>>)>>) : f \in {Repeats, Tagged}}

MCTypes == FrameTypes \cup Nested \cup Enums \cup Misplaced

(* Keys that differ in the bytes that are clamped *)
EndBytes == {0, 7, 8, 63, 64, 127, 128, 192, 255}
Raw(first, last) ==
  [i \in 1..KEY_SIZE |->
     IF i = 1 THEN first ELSE IF i = KEY_SIZE THEN last ELSE (37 * i) % 256]
MCRawKeys == {Raw(first, last) : first, last \in EndBytes}

(* A key that has had all its conversions, and a codec with nothing to do *)
KeysIdle ==
  /\ kind = "public" /\ form = "key" /\ held = Raw(0, 0)
  /\ made = [key |-> held, clamped |-> TRUE] /\ steps = MaxConversions
CodecIdle ==
  /\ type = U(1) /\ buffer = VecBuffer /\ phase = "none"
  /\ encoded = <<>> /\ input = <<>> /\ decoded = <<>>

Init ==
  \/ CodecInit /\ KeysIdle
  \/ KeysInit /\ CodecIdle

Next ==
  \/ CodecNext /\ UNCHANGED keys_vars
  \/ KeysNext /\ UNCHANGED codec_vars

Spec == Init /\ [][Next]_<<codec_vars, keys_vars>>

=============================================================================
