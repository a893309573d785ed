------------------------------ MODULE DerpKeys ------------------------------
(***************************************************************************)
(* The keys of crypto.rs and their conversions.  A key is 32 bytes; it is  *)
(* written as base64 (Display) or hex (LowerHex), read back by FromStr,    *)
(* taken apart into bytes and made of bytes, and handed to crypto_box and  *)
(* back.  A text is a sequence of digits: 0..15 of hex, 0..63 of base64,   *)
(* and Pad.                                                                *)
(***************************************************************************)
EXTENDS Naturals, Sequences

CONSTANTS
  RawKeys,        \* the bytes that keys are made of
  MaxConversions  \* conversions of a key at most

KEY_SIZE == 32

ASSUME KeysAssumption ==
  (\A bytes \in RawKeys : bytes \in [1..KEY_SIZE -> 0..255]) /\ MaxConversions \in Nat

And248(byte) == byte - (byte % 8)
And127(byte) == byte % 128
Or64(byte) == IF (byte \div 64) % 2 = 1 THEN byte ELSE byte + 64

BugClampToggles(bytes) ==
  [bytes EXCEPT ![1] = And248(@),
                ![KEY_SIZE] = IF Or64(And127(@)) = And127(@) THEN And127(@) - 64
                              ELSE Or64(And127(@))]

Clamp(bytes) ==
  [bytes EXCEPT ![1] = And248(@), ![KEY_SIZE] = Or64(And127(@))]

(* SecretKey::new clamps, PublicKey::new and PresharedKey::new do not. *)
new(kind, bytes) == IF kind = "secret" THEN Clamp(bytes) ELSE bytes

(* TryFrom<&[u8]> and TryFrom<Vec<u8>> *)
try_from(bytes) == bytes

(* The scalar that curve25519 multiplies the base point by: what decides   *)
(* the public key of a secret key.                                         *)
public(bytes) == Clamp(bytes)

-----------------------------------------------------------------------------
Pad == 64

ToHex(bytes) ==
  [i \in 1..(2 * Len(bytes)) |->
     LET byte == bytes[(i + 1) \div 2] IN IF i % 2 = 1 THEN byte \div 16 ELSE byte % 16]

FromHex(text) ==
  [i \in 1..(Len(text) \div 2) |-> 16 * text[2 * i - 1] + text[2 * i]]

At(s, i) == IF i \in DOMAIN s THEN s[i] ELSE 0

(* Digit i of base64: four digits for three bytes *)
SixBits(bytes, i) ==
  LET byte(j) == At(bytes, 3 * ((i - 1) \div 4) + j)
  IN CASE i % 4 = 1 -> byte(1) \div 4
       [] i % 4 = 2 -> 16 * (byte(1) % 4) + (byte(2) \div 16)
       [] i % 4 = 3 -> 4 * (byte(2) % 16) + (byte(3) \div 64)
       [] i % 4 = 0 -> byte(3) % 64

(* Padded to a multiple of four *)
ToBase64(bytes) ==
  LET digits == (8 * Len(bytes) + 5) \div 6
  IN [i \in 1..(4 * ((digits + 3) \div 4)) |-> IF i > digits THEN Pad ELSE SixBits(bytes, i)]

(* The number of digits in front of the padding *)
Digits(text) ==
  CHOOSE n \in 0..Len(text) : \A i \in 1..Len(text) : (text[i] = Pad) <=> (i > n)

EightBits(text, i) ==
  LET digit(j) == text[4 * ((i - 1) \div 3) + j]
  IN CASE i % 3 = 1 -> 4 * digit(1) + (digit(2) \div 16)
       [] i % 3 = 2 -> 16 * (digit(2) % 16) + (digit(3) \div 4)
       [] i % 3 = 0 -> 64 * (digit(3) % 4) + digit(4)

FromBase64(text) == [i \in 1..((6 * Digits(text)) \div 8) |-> EightBits(text, i)]

BugAlwaysClamps(kind, text) ==
  CASE Len(text) = 2 * KEY_SIZE -> [ok |-> TRUE, key |-> Clamp(FromHex(text))]
    [] Len(text) = 44 -> [ok |-> TRUE, key |-> Clamp(FromBase64(text))]
    [] OTHER -> [ok |-> FALSE]

(* FromStr tells the two notations apart by their length. *)
from_str(kind, text) ==
  CASE Len(text) = 2 * KEY_SIZE -> [ok |-> TRUE, key |-> new(kind, FromHex(text))]
    [] Len(text) = 44 -> [ok |-> TRUE, key |-> new(kind, FromBase64(text))]
    [] OTHER -> [ok |-> FALSE]

-----------------------------------------------------------------------------
VARIABLES
  kind,     \* "secret", "public" or "preshared"
  form,     \* what is held: a "key", its "bytes", a "text", or a "box" key
  held,     \* its bytes or digits
  made,     \* the key that was made first, and whether it was clamped then
  steps     \* conversions so far

keys_vars == <<kind, form, held, made, steps>>

Make(k, key, clamped) ==
  /\ kind = k /\ form = "key" /\ held = key /\ steps = 0
  /\ made = [key |-> key, clamped |-> clamped]

(* SecretKey::new, gen_with and from_str, PublicKey::new, and TryFrom,     *)
(* which takes the bytes of a secret key as they are.                      *)
KeysInit ==
  \E bytes \in RawKeys :
    \/ \E k \in {"secret", "public", "preshared"} : Make(k, new(k, bytes), TRUE)
    \/ Make("secret", try_from(bytes), FALSE)

Convert(from, to, content) ==
  /\ form = from /\ steps < MaxConversions
  /\ form' = to /\ held' = content /\ steps' = steps + 1
  /\ UNCHANGED <<kind, made>>

Display == Convert("key", "text", ToBase64(held))
LowerHex == Convert("key", "text", ToHex(held))
FromStr == from_str(kind, held).ok /\ Convert("text", "key", from_str(kind, held).key)
IntoBytes == Convert("key", "bytes", held)
TryFrom == Convert("bytes", "key", try_from(held))
New == Convert("bytes", "key", new(kind, held))

(* crypto_box keeps the bytes of a secret key or clamps them; the code     *)
(* here relies on neither.                                                 *)
IntoBox ==
  /\ kind # "preshared"
  /\ \E bytes \in {held, new(kind, held)} : Convert("key", "box", bytes)

FromBox == Convert("box", "key", held)

KeysNext ==
  \/ Display \/ LowerHex \/ FromStr \/ IntoBytes \/ TryFrom \/ New \/ IntoBox \/ FromBox

KeysSpec == KeysInit /\ [][KeysNext]_keys_vars

-----------------------------------------------------------------------------
(***************************************************************************)
(* A key stays the same key through any conversions: a public or preshared *)
(* key, and a secret key that was clamped when it was made, comes back     *)
(* byte for byte, and FromStr reads whatever Display and LowerHex write.   *)
(***************************************************************************)
KeyKept ==
  made.clamped =>
    /\ form = "key" => held = made.key
    /\ form = "text" => from_str(kind, held) = [ok |-> TRUE, key |-> made.key]

(***************************************************************************)
(* The bytes of a secret key that were taken as they are change when it is *)
(* written and read, but only once, to the clamped ones, and its public    *)
(* key (by which the relay knows its owner) is the same before and after.  *)
(***************************************************************************)
PublicKept ==
  (form = "key" /\ kind = "secret") =>
    /\ held \in {made.key, Clamp(made.key)}
    /\ public(held) = public(made.key)

(* What a key may have become: itself, or clamped *)
Versions == IF kind = "secret" THEN {made.key, Clamp(made.key)} ELSE {made.key}

(***************************************************************************)
(* The inductive invariant: whatever conversions of crypto.rs come next,   *)
(* bytes and crypto_box hold the key as it was made or its clamped form, a *)
(* text is the base64 or the hex of one of these, and a secret key that    *)
(* SecretKey::new has clamped is not changed by clamping it again.         *)
(***************************************************************************)
KeysInv ==
  /\ kind \in {"secret", "public", "preshared"}
  /\ made.key \in [1..KEY_SIZE -> 0..255]
  /\ kind = "secret" \/ made.clamped
  /\ (kind = "secret" /\ made.clamped) => Clamp(made.key) = made.key
  /\ \/ form \in {"key", "bytes", "box"} /\ held \in Versions
     \/ form = "text" /\ \E key \in Versions : held \in {ToBase64(key), ToHex(key)}

=============================================================================
