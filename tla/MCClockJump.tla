---------------------------- MODULE MCClockJump ----------------------------
(* Instances of ClockJump for TLC. *)
EXTENDS ClockJump

ShortAndLongJumps == {-3, 1}
=============================================================================
