------------------------------- MODULE Nvram -------------------------------
(***************************************************************************)
(* What libeos-payg/efi.c promises of the firmware's variables: they last, *)
(* only PAYG's are changed, a change is done at once or not at all, and    *)
(* once the root was pivoted no variable gets another value, although new  *)
(* ones are stored and old ones removed.                                   *)
(***************************************************************************)
CONSTANTS Vars, PaygVars, Values, Absent

VARIABLES store, pivoted

TypeOK == store \in [Vars -> Values \cup {Absent}] /\ pivoted \in BOOLEAN

Init == TypeOK /\ ~pivoted

Put(v, value) ==
  /\ ~pivoted \/ store[v] = Absent
  /\ store' = [store EXCEPT ![v] = value]
  /\ UNCHANGED pivoted

Remove(v) ==
  /\ store' = [store EXCEPT ![v] = Absent]
  /\ UNCHANGED pivoted

(* For tests. *)
Clear ==
  /\ store' = [v \in Vars |-> IF v \in PaygVars THEN Absent ELSE store[v]]
  /\ UNCHANGED pivoted

Pivot == pivoted' = TRUE /\ UNCHANGED store

(* The power may fail while a variable is changed. *)
Reboot ==
  /\ pivoted' = FALSE
  /\ \/ UNCHANGED store
     \/ \E v \in PaygVars, value \in Values :
          /\ ~pivoted \/ store[v] = Absent
          /\ store' = [store EXCEPT ![v] = value]
     \/ \E v \in PaygVars : store' = [store EXCEPT ![v] = Absent]

Next ==
  \/ \E v \in PaygVars, value \in Values : Put(v, value)
  \/ \E v \in PaygVars : Remove(v)
  \/ Clear
  \/ Pivot
  \/ Reboot

Spec == Init /\ [][Next]_<<store, pivoted>>
=============================================================================
