------------------------------- MODULE MCEfi -------------------------------
(* Instances of Efi for TLC. *)
EXTENDS Efi

CONSTANTS active, level, debug, zero, one

(* One content has a byte, the other has two. *)
OneOrTwoBytes == [v \in {zero, one} |-> IF v = zero THEN 1 ELSE 2]
=============================================================================
