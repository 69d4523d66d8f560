---------------------------- MODULE RateLimiter ----------------------------
(***************************************************************************)
(* What the rate limit of epg_manager_add_code() (libeos-payg/manager.c)   *)
(* does to a user who enters codes for a long time: the attempts that are  *)
(* refused unseen, those whose code is looked at and found wrong, and      *)
(* those that succeed and clear the history.                               *)
(***************************************************************************)
EXTENDS RateLimit

CONSTANTS
  StartTimes,    \* values of CLOCK_BOOTTIME when the manager starts
  MaxBoottime    \* bound on CLOCK_BOOTTIME

ASSUME RateLimiterAssumption ==
  /\ StartTimes \subseteq Nat
  /\ MaxBoottime \in Nat
  /\ MaxBoottime + RATE_LIMITING_TIME_PERIOD_SECS <= G_MAXUINT64
  /\ \A t \in StartTimes : t <= MaxBoottime

VARIABLES
  nowSecs,       \* CLOCK_BOOTTIME
  history,       \* rate_limiting_history
  checked        \* observed: when the last wrong codes were looked at

vars == <<nowSecs, history, checked>>

Init ==
  /\ nowSecs \in StartTimes
  /\ history = ClearedHistory
  /\ checked = ClearedHistory

(* CLOCK_BOOTTIME goes on, also while the computer is suspended. *)
Tick ==
  /\ nowSecs < MaxBoottime
  /\ nowSecs' = nowSecs + 1
  /\ UNCHANGED <<history, checked>>

TooManyAttempts ==
  /\ IsRateLimited(history, nowSecs)
  /\ history' = PushAttempt(history, nowSecs)
  /\ UNCHANGED <<nowSecs, checked>>

WrongCode ==
  /\ ~IsRateLimited(history, nowSecs)
  /\ history' = PushAttempt(history, nowSecs)
  /\ checked' = PushAttempt(checked, nowSecs)
  /\ UNCHANGED nowSecs

RightCode ==
  /\ ~IsRateLimited(history, nowSecs)
  /\ history' = ClearedHistory
  /\ checked' = ClearedHistory
  /\ UNCHANGED nowSecs

Next == Tick \/ TooManyAttempts \/ WrongCode \/ RightCode

Spec == Init /\ [][Next]_vars
-----------------------------------------------------------------------------
TypeOK ==
  /\ nowSecs \in 0 .. MaxBoottime
  /\ history \in [Attempts -> 0 .. MaxBoottime]
  /\ checked \in [Attempts -> 0 .. MaxBoottime]

(* Once the subtraction in the start of the window no longer wraps around, *)
(* a wrong code is only looked at when the one that was looked at          *)
(* RATE_LIMITING_N_ATTEMPTS wrong codes ago is out of the time period.     *)
SpacedAttempts ==
  WrongCode /\ nowSecs > RATE_LIMITING_TIME_PERIOD_SECS =>
    LET oldest == checked[RATE_LIMITING_N_ATTEMPTS]
    IN  oldest > 0 => nowSecs > oldest + RATE_LIMITING_TIME_PERIOD_SECS

(* Calls are limited to 10 attempts every 30 minutes, on a computer that   *)
(* has been on for longer than that; attempts from before count.           *)
LimitIsKept == [][SpacedAttempts]_vars

(* From then on, "rate-limit-end-time" is the last second of the limit:    *)
(* the attempts that were refused unseen move it, and both always agree.   *)
(* Provider and manager document it as the first second after the limit,   *)
(* see RetryAtEndTime.                                                     *)
EndTimeIsExact ==
  nowSecs > RATE_LIMITING_TIME_PERIOD_SECS =>
    \/ /\ IsRateLimited(history, nowSecs)
       /\ RateLimitEndTime(history) > 0
       /\ nowSecs <= RateLimitEndTime(history)
    \/ /\ ~IsRateLimited(history, nowSecs)
       /\ RateLimitEndTime(history) > 0 => nowSecs > RateLimitEndTime(history)

-----------------------------------------------------------------------------
(* What comments of the code say of the limit and the code does not keep.  *)

(* The same limit without regard to when the computer was turned on        *)
(* (manager.c:113): false, since the start of the window wraps around in   *)
(* the first half hour, and no attempt is ever in it.                      *)
SpacedFromBoot ==
  WrongCode =>
    LET oldest == checked[RATE_LIMITING_N_ATTEMPTS]
    IN  oldest > 0 => nowSecs > oldest + RATE_LIMITING_TIME_PERIOD_SECS

LimitFromBoot == [][SpacedFromBoot]_vars

(* At "rate-limit-end-time" the user can try again (provider.c:74-76):     *)
(* false, since an attempt that is exactly one period old still counts.    *)
RetryAtEndTime ==
  /\ RateLimitEndTime(history) > 0
  /\ nowSecs >= RateLimitEndTime(history)
  => ~IsRateLimited(history, nowSecs)
=============================================================================
