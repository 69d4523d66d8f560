--------------------------- MODULE MCManagerService ---------------------------
(* Instances of ManagerService for TLC. *)
EXTENDS ManagerService

CONSTANTS code1, code2

SpanOf == [c \in Codes |-> IF c = code1 THEN 1 ELSE G_MAXUINT64]
=============================================================================
