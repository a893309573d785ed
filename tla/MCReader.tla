------------------------------- MODULE MCReader -------------------------------
(* Bytes of two values.  The bodies of zero to two bytes, and two bodies    *)
(* whose sizes need the third and the fourth byte of a header.              *)
EXTENDS DerpReader

MCBodies ==
  UNION {[1..n -> Byte] : n \in 0..2} \cup {<<1, 0, 1, 1>>, <<0, 0, 0, 0, 0, 0, 1, 0>>}

=============================================================================
