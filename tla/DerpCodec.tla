------------------------------ MODULE DerpCodec ------------------------------
(***************************************************************************)
(* The codec: the implementations of Encode and Decode for the basic       *)
(* types, the code that the derive macros generate for structs and enums,  *)
(* and the two kinds of write buffer.  A byte is a number below Base (256  *)
(* in the code).                                                           *)
(*                                                                         *)
(* The specification declares a type, encodes values of it one after the   *)
(* other into one buffer, and then decodes either these bytes or bytes of  *)
(* another program.                                                        *)
(***************************************************************************)
EXTENDS Naturals, Sequences, SequencesExt

CONSTANTS
  Base,       \* number of values of a byte
  Types,      \* the types that are declared
  Capacities, \* lengths of the slices that are encoded into
  MaxLen,     \* elements in a Vec at most
  MaxValues,  \* values encoded at most
  MaxInput    \* bytes that another program sends at most

ASSUME CodecAssumption ==
  /\ Base \in Nat \ {0, 1} /\ Capacities \subseteq Nat
  /\ MaxLen \in Nat /\ MaxValues \in Nat /\ MaxInput \in Nat

Byte == 0..(Base - 1)

-----------------------------------------------------------------------------
(* Types.  The attributes of a variant or field are a sequence of tag(n)   *)
(* and unknown; a unit struct or variant has no fields.                    *)

U(w) == [ty |-> "int", w |-> w]
Array(n) == [ty |-> "array", n |-> n]
Opaque(w) == [ty |-> "opaque", w |-> w]
Vec(of) == [ty |-> "vec", of |-> of]
Option(of) == [ty |-> "option", of |-> of]
SizeWrapper(w, of) == [ty |-> "sized", w |-> w, of |-> of]
Ignore == [ty |-> "ignore"]

Tag(n) == [meta |-> "tag", value |-> n]
Unknown == [meta |-> "unknown"]

Field(of) == [of |-> of, attrs |-> <<>>]
Struct(types) == [ty |-> "struct", fields |-> [i \in DOMAIN types |-> Field(types[i])]]
Variant(attrs, named, fields) == [attrs |-> attrs, named |-> named, fields |-> fields]
Enum(w, variants) == [ty |-> "enum", w |-> w, variants |-> variants]

(* attr.rs *)
extract_codec_meta(attrs) ==
  IF attrs = <<>> THEN [meta |-> "none"]
  ELSE IF Len(attrs) = 1 THEN attrs[1] ELSE [meta |-> "error"]

get_variant_tag(variant) == extract_codec_meta(variant.attrs)
is_unknown(field) == extract_codec_meta(field.attrs).meta = "unknown"
FieldError(field) == extract_codec_meta(field.attrs).meta \in {"tag", "error"}

RangeOf(s) == {s[i] : i \in DOMAIN s}
UnknownFields(fields) == {i \in DOMAIN fields : is_unknown(fields[i])}

(* decode_data and decode_fields accept the declaration, and the compiler  *)
(* the match that they make of it, which has to be exhaustive and to show  *)
(* the type of the tag.                                                    *)
DecodeCompiles(t) ==
  LET metas == [i \in DOMAIN t.variants |-> get_variant_tag(t.variants[i])]
      unknowns == {i \in DOMAIN metas : metas[i].meta = "unknown"}
  IN CASE t.ty = "struct" ->
            \A f \in RangeOf(t.fields) : ~FieldError(f) /\ ~is_unknown(f)
       [] t.ty = "enum" ->
            /\ \A m \in RangeOf(metas) : m.meta \in {"tag", "unknown"}
            /\ \A i \in DOMAIN metas : \A f \in RangeOf(t.variants[i].fields) :
                 ~FieldError(f) /\ (is_unknown(f) => i \in unknowns)
            /\ \E i \in DOMAIN metas : i \notin unknowns \/ UnknownFields(t.variants[i].fields) # {}
            /\ unknowns # {} \/ 0..(Base^t.w - 1) \subseteq {m.value : m \in RangeOf(metas)}
       [] OTHER -> TRUE

(* encode_data and encode_fields do, for which a misplaced attribute of a  *)
(* field is no error.  The pattern of a variant with named fields starts   *)
(* with a comma if there is none to encode.                                *)
EncodeCompiles(t) ==
  t.ty = "enum" =>
    \A v \in RangeOf(t.variants) :
      /\ get_variant_tag(v).meta \in {"tag", "unknown"}
      /\ v.named => UnknownFields(v.fields) # DOMAIN v.fields

-----------------------------------------------------------------------------
(* Values: numbers for the integers, sequences for all that has parts (an  *)
(* Option has one or none), and the number of the variant with its fields. *)

RECURSIVE Values(_), Product(_)
Product(types) ==
  IF types = <<>> THEN {<<>>}
  ELSE {<<v>> \o vs : v \in Values(Head(types)), vs \in Product(Tail(types))}

Values(t) ==
  CASE t.ty = "int" -> 0..(Base^t.w - 1)
    [] t.ty = "array" -> [1..t.n -> Byte]
    [] t.ty = "opaque" -> BoundedSeq(Byte, MaxLen)
    [] t.ty = "vec" -> BoundedSeq(Values(t.of), MaxLen)
    [] t.ty = "option" -> BoundedSeq(Values(t.of), 1)
    [] t.ty = "sized" -> Values(t.of)
    [] t.ty = "ignore" -> {<<>>}
    [] t.ty = "struct" -> Product([i \in DOMAIN t.fields |-> t.fields[i].of])
    [] t.ty = "enum" ->
         UNION {[variant : {i},
                 fields : LET fields == t.variants[i].fields
                          IN Product([j \in DOMAIN fields |-> fields[j].of])] :
                  i \in DOMAIN t.variants}

-----------------------------------------------------------------------------
(* Write buffers.  out is what was written, or skipped by later_fill; room *)
(* is what is left of a slice, and cap (history) its length.               *)

Slice(cap) == [kind |-> "slice", out |-> <<>>, room |-> cap, cap |-> cap]
VecBuffer == [kind |-> "vec", out |-> <<>>, room |-> 0, cap |-> 0]

Ok(b, n) == [status |-> "ok", buf |-> b, n |-> n]
Fails(b, status) == [status |-> status, buf |-> b, n |-> 0]

BugFits(b, n) == b.kind = "slice" => b.room > n

Fits(b, n) == b.kind = "slice" => b.room >= n

Advance(b, bytes) ==
  [b EXCEPT !.out = @ \o bytes,
            !.room = IF b.kind = "slice" THEN @ - Len(bytes) ELSE @]

fill_from(b, bytes) ==
  IF Fits(b, Len(bytes)) THEN Ok(Advance(b, bytes), Len(bytes)) ELSE Fails(b, "overflow")

BugRestore(b) == b

(* When the callback of later_fill fails, the slice was already taken out  *)
(* of the reference and is not put back.                                   *)
Taken(b) == [b EXCEPT !.room = 0]

(* to_be_bytes *)
BeBytes(v, w) == [i \in 1..w |-> (v \div Base^(w - i)) % Base]

(* Encode.  Size::try_from(..).unwrap() panics on what does not fit. *)
RECURSIVE encode(_, _, _), EncodeAll(_, _, _)
EncodeAll(types, values, b) ==
  IF types = <<>> THEN Ok(b, 0)
  ELSE LET first == encode(Head(types), Head(values), b)
           rest == EncodeAll(Tail(types), Tail(values), first.buf)
       IN IF first.status # "ok" THEN first ELSE [rest EXCEPT !.n = first.n + @]

BugTruncate(w, n) == TRUE

SizeFits(w, n) == n < Base^w

(* SizeWrapper::encode, with what the callback of later_fill returned *)
FillSize(w, b, inner) ==
  LET start == Len(b.out) IN
  CASE inner.status = "overflow" -> [inner EXCEPT !.buf = Taken(@)]
    [] inner.status = "panic" -> inner
    [] inner.status = "ok" ->
         IF SizeFits(w, inner.n)
         THEN Ok([inner.buf EXCEPT !.out = [i \in DOMAIN @ |->
                    IF i \in (start + 1)..(start + w) THEN BeBytes(inner.n, w)[i - start]
                    ELSE @[i]]],
                 inner.n + w)
         ELSE Fails(inner.buf, "panic")

(* encode_fields leaves out the unknown fields, which repeat the tag. *)
EncodeFields(fields, values, b) ==
  LET kept == SelectSeq([i \in DOMAIN fields |-> i], LAMBDA i : ~is_unknown(fields[i]))
  IN EncodeAll([j \in DOMAIN kept |-> fields[kept[j]].of],
               [j \in DOMAIN kept |-> values[kept[j]]], b)

(* The tag of encode_data: the attribute, or the first unknown field, if   *)
(* there is one (extract_unknown).                                         *)
HasTag(variant) ==
  get_variant_tag(variant).meta = "tag" \/ UnknownFields(variant.fields) # {}

TagOf(variant, values) ==
  IF get_variant_tag(variant).meta = "tag" THEN get_variant_tag(variant).value
  ELSE values[Min(UnknownFields(variant.fields))]

EncodeEnum(t, variant, values, b) ==
  LET tag == encode(U(t.w), TagOf(variant, values), b)
      rest == EncodeFields(variant.fields, values, tag.buf)
  IN CASE ~HasTag(variant) -> Fails(b, "panic")
       [] tag.status # "ok" -> tag
       [] OTHER -> [rest EXCEPT !.n = tag.n + @]

encode(t, v, b) ==
  CASE t.ty = "int" -> fill_from(b, BeBytes(v, t.w))
    [] t.ty = "array" -> fill_from(b, v)
    [] t.ty = "vec" -> EncodeAll([i \in DOMAIN v |-> t.of], v, b)
    [] t.ty = "option" -> EncodeAll([i \in DOMAIN v |-> t.of], v, b)
    [] t.ty = "opaque" ->
         IF SizeFits(t.w, Len(v))
         THEN EncodeAll(<<U(t.w), Vec(U(1))>>, <<Len(v), v>>, b)
         ELSE Fails(b, "panic")
    [] t.ty = "sized" ->
         IF Fits(b, t.w)
         THEN FillSize(t.w, b, encode(t.of, v, Advance(b, [i \in 1..t.w |-> 0])))
         ELSE Fails(b, "overflow")
    [] t.ty = "ignore" -> Fails(b, "panic")
    [] t.ty = "struct" -> EncodeFields(t.fields, v, b)
    [] t.ty = "enum" -> EncodeEnum(t, t.variants[v.variant], v.fields, b)

-----------------------------------------------------------------------------
(* Decode: the value and the bytes that are left, or an error. *)

Decoded(v, rest) == [ok |-> TRUE, value |-> v, rest |-> rest]
DecodeError == [ok |-> FALSE]

Number(bytes) == FoldLeft(LAMBDA n, byte : n * Base + byte, 0, bytes)

fill_buf(s, n) ==
  IF Len(s) < n THEN DecodeError
  ELSE Decoded(SubSeq(s, 1, n), SubSeq(s, n + 1, Len(s)))

BugLeftOver(inner) == TRUE

(* SizeWrapper: the value has to take all the bytes that the size gives. *)
TakesAll(inner) == inner.rest = <<>>

(* The arm of the match on the tag: the first that fits, where the arm of  *)
(* an unknown variant fits every tag.                                      *)
Arm(variants, tag) ==
  Min({i \in DOMAIN variants : LET m == get_variant_tag(variants[i])
                               IN m.meta = "unknown" \/ m.value = tag})

RECURSIVE decode(_, _), DecodeFields(_, _, _), DecodeVec(_, _)
DecodeFields(fields, tag, s) ==
  IF fields = <<>> THEN Decoded(<<>>, s)
  ELSE LET first == IF is_unknown(Head(fields)) THEN Decoded(tag, s)
                    ELSE decode(Head(fields).of, s)
           rest == DecodeFields(Tail(fields), tag, first.rest)
       IN IF ~first.ok \/ ~rest.ok THEN DecodeError
          ELSE Decoded(<<first.value>> \o rest.value, rest.rest)

(* Vec: until the buffer is empty.  This loop has no end if the elements   *)
(* take no bytes; no such type is declared.                                *)
DecodeVec(of, s) ==
  IF s = <<>> THEN Decoded(<<>>, s)
  ELSE LET first == decode(of, s)
           rest == DecodeVec(of, first.rest)
       IN IF ~first.ok \/ ~rest.ok THEN DecodeError
          ELSE Decoded(<<first.value>> \o rest.value, rest.rest)

decode(t, s) ==
  CASE t.ty = "int" ->
         LET bytes == fill_buf(s, t.w)
         IN IF bytes.ok THEN Decoded(Number(bytes.value), bytes.rest) ELSE DecodeError
    [] t.ty = "array" -> fill_buf(s, t.n)
    [] t.ty = "vec" -> DecodeVec(t.of, s)
    [] t.ty = "option" ->
         IF s = <<>> THEN Decoded(<<>>, s) ELSE DecodeFields(<<Field(t.of)>>, 0, s)
    [] t.ty = "opaque" ->
         LET len == decode(U(t.w), s)
         IN IF len.ok THEN fill_buf(len.rest, len.value) ELSE DecodeError
    [] t.ty = "sized" ->
         LET size == decode(U(t.w), s)
             left == fill_buf(size.rest, size.value)
             inner == decode(t.of, left.value)
         IN IF size.ok /\ left.ok /\ inner.ok /\ TakesAll(inner)
            THEN Decoded(inner.value, left.rest) ELSE DecodeError
    [] t.ty = "ignore" -> Decoded(<<>>, <<>>)
    [] t.ty = "struct" -> DecodeFields(t.fields, 0, s)
    [] t.ty = "enum" ->
         LET tag == decode(U(t.w), s)
             arm == Arm(t.variants, tag.value)
             fields == DecodeFields(t.variants[arm].fields, tag.value, tag.rest)
         IN IF tag.ok /\ fields.ok
            THEN Decoded([variant |-> arm, fields |-> fields.value], fields.rest)
            ELSE DecodeError

-----------------------------------------------------------------------------
VARIABLES
  type,     \* the type declared
  buffer,   \* the write buffer
  encoded,  \* the values encoded so far, and what encode returned
  phase,    \* "writing", then "reading" our own bytes or "foreign" ones
  input,    \* bytes yet to be decoded
  decoded   \* values decoded so far, with the bytes that each took

codec_vars == <<type, buffer, encoded, phase, input, decoded>>

CodecInit ==
  /\ type \in {t \in Types : DecodeCompiles(t) /\ EncodeCompiles(t)}
  /\ buffer \in {VecBuffer} \cup {Slice(cap) : cap \in Capacities}
  /\ encoded = <<>> /\ phase = "writing" /\ input = <<>> /\ decoded = <<>>

EncodeNext ==
  /\ phase = "writing"
  /\ Len(encoded) < MaxValues
  /\ \A i \in DOMAIN encoded : encoded[i].status # "panic"
  /\ \E v \in Values(type) :
       LET result == encode(type, v, buffer) IN
       /\ buffer' = result.buf
       /\ encoded' = Append(encoded, [value |-> v, status |-> result.status, n |-> result.n])
  /\ UNCHANGED <<type, phase, input, decoded>>

(* The bytes written reach a reader, unless the writer panicked. *)
Deliver ==
  /\ phase = "writing"
  /\ encoded # <<>> /\ \A i \in DOMAIN encoded : encoded[i].status # "panic"
  /\ phase' = "reading" /\ input' = buffer.out
  /\ UNCHANGED <<type, buffer, encoded, decoded>>

(* Another program writes bytes of its own. *)
ForeignInput ==
  /\ phase = "writing" /\ encoded = <<>> /\ buffer.kind = "vec"
  /\ phase' = "foreign"
  /\ input' \in BoundedSeq(Byte, MaxInput)
  /\ UNCHANGED <<type, buffer, encoded, decoded>>

DecodeNext ==
  /\ phase \in {"reading", "foreign"}
  /\ input # <<>>
  /\ LET result == decode(type, input) IN
     /\ result.ok
     /\ decoded' = Append(decoded,
          [value |-> result.value, bytes |-> SubSeq(input, 1, Len(input) - Len(result.rest))])
     /\ input' = result.rest
  /\ UNCHANGED <<type, buffer, encoded, phase>>

CodecNext == EncodeNext \/ Deliver \/ ForeignInput \/ DecodeNext

-----------------------------------------------------------------------------
(* The encodings of a type show where they end. *)
RECURSIVE Delimited(_)
Delimited(t) ==
  CASE t.ty \in {"vec", "option", "ignore"} -> FALSE
    [] t.ty = "struct" -> \A f \in RangeOf(t.fields) : Delimited(f.of)
    [] t.ty = "enum" ->
         \A v \in RangeOf(t.variants) : \A f \in RangeOf(v.fields) : Delimited(f.of)
    [] OTHER -> TRUE

(* What a value has to satisfy so that its bytes can mean it: an earlier   *)
(* arm does not take its tag (an unknown variant that is not the last one  *)
(* takes all, and an unknown value should not be a known tag), unknown     *)
(* fields repeat the tag, and what follows a part that extends to the end  *)
(* of the buffer (Vec, Option) is nothing.                                 *)
RECURSIVE Faithful(_, _)
Faithful(t, v) ==
  CASE t.ty = "enum" ->
         LET variant == t.variants[v.variant]
             tag == TagOf(variant, v.fields)
         IN /\ HasTag(variant)
            /\ v.variant = Arm(t.variants, tag)
            /\ \A i \in DOMAIN variant.fields :
                 IF is_unknown(variant.fields[i]) THEN v.fields[i] = tag
                 ELSE Faithful(variant.fields[i].of, v.fields[i])
    [] t.ty = "struct" ->
         \A i \in DOMAIN v :
           Faithful(t.fields[i].of, v[i]) /\ (i < Len(v) => Delimited(t.fields[i].of))
    [] t.ty = "sized" -> Faithful(t.of, v)
    [] t.ty = "vec" -> \A i \in DOMAIN v : Faithful(t.of, v[i])
    [] OTHER -> t.ty # "ignore"

(* The values that were encoded before one failed *)
Whole == {i \in DOMAIN encoded : \A j \in 1..i : encoded[j].status = "ok"}

(***************************************************************************)
(* Values that were encoded one after the other are decoded again, in the  *)
(* same order and with nothing between them, whatever struct or enum was   *)
(* declared and into whatever buffer they were written, also when a later  *)
(* one did not fit.  A size that does not fit its type panics and never    *)
(* shows as a smaller one.                                                 *)
(***************************************************************************)
RoundTrip ==
  /\ phase = "reading"
  /\ Delimited(type) \/ Len(encoded) = 1
  /\ \A i \in Whole : Faithful(type, encoded[i].value)
  => /\ \A i \in DOMAIN decoded \cap Whole : decoded[i].value = encoded[i].value
     /\ (\E i \in Whole : i > Len(decoded)) => decode(type, input).ok
     /\ Whole = DOMAIN encoded =>
          /\ DOMAIN decoded \subseteq Whole
          /\ DOMAIN decoded = Whole => input = <<>>

(***************************************************************************)
(* Bytes have one reading and a value one writing: what was decoded, from  *)
(* whatever bytes, encodes to the very bytes that it was decoded from, or  *)
(* cannot be encoded at all (Ignore, unknown variants that forget the      *)
(* tag).  The relay rebuilds the frames it passes on.                      *)
(***************************************************************************)
Canonical ==
  \A i \in DOMAIN decoded :
    LET again == encode(type, decoded[i].value, VecBuffer)
    IN again.status = "ok" => again.buf.out = decoded[i].bytes /\ again.n = Len(decoded[i].bytes)

(* Frames, as Frame<T> of proto/data.rs makes them: a tag, the frame type, *)
(* and a SizeWrapper                                                       *)
IsFrames(t) ==
  t.ty = "enum" /\ \A v \in RangeOf(t.variants) :
    v.fields # <<>> /\ v.fields[Len(v.fields)].of.ty = "sized"

(***************************************************************************)
(* Once a frame did not fit into a slice, no later one is written behind   *)
(* the part of it that was: a reader of the slice finds whole frames, and  *)
(* then at most a torn one.  (later_fill leaves the slice empty when its   *)
(* callback fails.)                                                        *)
(***************************************************************************)
NothingBehindTorn ==
  IsFrames(type) =>
    \A i, j \in DOMAIN encoded :
      i < j /\ encoded[i].status = "overflow" => encoded[j].status = "overflow"

(* The bytes that encode says it wrote *)
RECURSIVE Total(_)
Total(entries) == IF entries = <<>> THEN 0 ELSE Head(entries).n + Total(Tail(entries))

(***************************************************************************)
(* A slice is used to its last byte, also within a SizeWrapper, and encode *)
(* returns what it wrote: until a value overflows, the buffer holds the    *)
(* bytes that a Vec would hold, and a value overflows exactly when the     *)
(* bytes up to its end would not fit into the slice as it was at first.    *)
(***************************************************************************)
SliceFull ==
  LET last == encoded[Len(encoded)]
      all == EncodeAll([i \in DOMAIN encoded |-> type],
                       [i \in DOMAIN encoded |-> encoded[i].value], VecBuffer)
  IN (encoded # <<>> /\ \A i \in 1..(Len(encoded) - 1) : encoded[i].status = "ok") =>
       /\ last.status = "ok" => buffer.out = all.buf.out /\ Total(encoded) = all.n
       /\ all.status = "ok" =>
            (last.status = "overflow" <=> buffer.kind = "slice" /\ all.n > buffer.cap)

=============================================================================
