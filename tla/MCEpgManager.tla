---------------------------- MODULE MCEpgManager ----------------------------
(* Instances of EpgManager for TLC. *)
EXTENDS EpgManager, TLC

CONSTANTS code1, code2, code3, bogus, slot1, slot2, slot3

SpanOf == [c \in Codes |-> IF c = code1 THEN 2 ELSE IF c = code2 THEN 3 ELSE G_MAXUINT64]

SlotSymmetry == Permutations(SaveSlots)
=============================================================================
