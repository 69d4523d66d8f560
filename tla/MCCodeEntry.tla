---------------------------- MODULE MCCodeEntry ----------------------------
(* Instances of CodeEntry for TLC: codes of four bits, in base 3. *)
EXTENDS CodeEntry

(* Digests of which only the last bit is in the signature. *)
SmallHmac == [pc \in (0 .. 3) \X (0 .. 1) |-> (2 * pc[1] + 3 * pc[2] + 1) % 4]

(* Each string of the right length, one too short and one too long; 3 is a *)
(* character that is no digit.                                             *)
AllInputs ==
  {<<a, b, c>> : a \in 0 .. 3, b \in 0 .. 2, c \in 0 .. 2} \cup {<<1, 2>>, <<0, 0, 0, 1>>}
=============================================================================
