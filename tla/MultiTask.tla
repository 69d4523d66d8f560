------------------------------ MODULE MultiTask ------------------------------
(***************************************************************************)
(* The counter that epg_multi_task_attach() hides in a GTask               *)
(* (libeos-payg/multi-task.c): a task that stands for several parallel     *)
(* sub-operations returns TRUE when the last one has succeeded, and an     *)
(* error as soon as the first one has failed.                              *)
(*                                                                         *)
(* A task is a record of the number of sub-operations it still waits for   *)
(* and of whether it has returned an error (g_task_had_error()).           *)
(***************************************************************************)
EXTENDS Naturals

MultiTasks == [pending : Nat, hadError : BOOLEAN]

Attach(n) == [pending |-> n, hadError |-> FALSE]

Increment(task) == [pending |-> task.pending + 1, hadError |-> task.hadError]

ReturnBoolean(task) == [pending |-> task.pending - 1, hadError |-> task.hadError]

ReturnError(task) == [pending |-> task.pending - 1, hadError |-> TRUE]

(* The caller's callback has run: with an error, or with TRUE. *)
HasReturned(task) == task.hadError \/ task.pending = 0
=============================================================================
