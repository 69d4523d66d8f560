-------------------------- MODULE MCEpgManagerLife --------------------------
(* Instances of EpgManagerLife for TLC. *)
EXTENDS EpgManagerLife, TLC

CONSTANTS code1, code2, bogus, slot1, slot2

SpanOf == [c \in Codes |-> IF c = code1 THEN 2 ELSE IF c = code2 THEN 3 ELSE G_MAXUINT64]

Unused == [c \in Codes |-> 0]

(* No PAYG state was ever saved. *)
FreshDisks == {[clockTime |-> NoFile, expirySeconds |-> NoFile, usedCodes |-> NoFile]}

(* Missing, empty, corrupt and good files. *)
AnyDisks ==
  [clockTime : {Empty, Corrupt, 1},
   expirySeconds : {Corrupt, 2},
   usedCodes : {Corrupt, Unused}]
=============================================================================
