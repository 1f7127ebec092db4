---------------------------- MODULE MCFloatEncoding ----------------------------
(***************************************************************************)
(* Up to four floats, so that every length of padding and of the last      *)
(* string occurs, and single floats with each byte once in each place.     *)
(***************************************************************************)
EXTENDS FloatEncoding

Some == {<<0, 0, 128, 63>>, <<251, 239, 190, 255>>, <<97, 66, 122, 7>>}
MCWeights ==
  UNION {[1 .. n -> Some] : n \in 0 .. 4}
    \cup {<<[k \in 1 .. 4 |-> (b + 77 * k) % 256]>> : b \in 0 .. 255}
=============================================================================
