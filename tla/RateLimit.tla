------------------------------ MODULE RateLimit ------------------------------
(***************************************************************************)
(* The rate limiting of epg_manager_add_code() (libeos-payg/manager.c): a  *)
(* queue of the times of the last RATE_LIMITING_N_ATTEMPTS calls, newest   *)
(* first, in seconds of CLOCK_BOOTTIME.  Times are guint64, so the start   *)
(* of the sliding window wraps around when the clock is below the period.  *)
(***************************************************************************)
EXTENDS Integers, FiniteSets

CONSTANTS
  RATE_LIMITING_N_ATTEMPTS,
  RATE_LIMITING_TIME_PERIOD_SECS,
  G_MAXUINT64            \* the largest guint64

ASSUME RateLimitAssumption ==
  /\ RATE_LIMITING_N_ATTEMPTS \in Nat \ {0}
  /\ RATE_LIMITING_TIME_PERIOD_SECS \in Nat \ {0}
  /\ G_MAXUINT64 \in Nat
  /\ RATE_LIMITING_TIME_PERIOD_SECS <= G_MAXUINT64

Attempts == 1 .. RATE_LIMITING_N_ATTEMPTS

Histories == [Attempts -> 0 .. G_MAXUINT64]

ClearedHistory == [i \in Attempts |-> 0]

PeriodStart(nowSecs) ==
  (nowSecs - RATE_LIMITING_TIME_PERIOD_SECS) % (G_MAXUINT64 + 1)

(* A bug: one attempt more than the limit goes through. *)
IsRateLimitedTooLate(history, nowSecs) ==
  Cardinality({i \in Attempts : history[i] >= PeriodStart(nowSecs)})
    > RATE_LIMITING_N_ATTEMPTS

IsRateLimited(history, nowSecs) ==
  Cardinality({i \in Attempts : history[i] >= PeriodStart(nowSecs)})
    >= RATE_LIMITING_N_ATTEMPTS

(* A bug: the end of the attempt's period is pushed. *)
PushAttemptEnd(history, nowSecs) ==
  [i \in Attempts |->
     IF i = 1 THEN nowSecs + RATE_LIMITING_TIME_PERIOD_SECS ELSE history[i - 1]]

(* Every call is pushed, also the one that is about to be rejected. *)
PushAttempt(history, nowSecs) ==
  [i \in Attempts |-> IF i = 1 THEN nowSecs ELSE history[i - 1]]

(* A bug: the time is counted from the newest attempt. *)
RateLimitEndOfNewest(history) ==
  IF history[1] > 0
  THEN (history[1] + RATE_LIMITING_TIME_PERIOD_SECS) % (G_MAXUINT64 + 1)
  ELSE 0

RateLimitEndTime(history) ==
  LET oldest == history[RATE_LIMITING_N_ATTEMPTS]
  IN  IF oldest > 0
      THEN (oldest + RATE_LIMITING_TIME_PERIOD_SECS) % (G_MAXUINT64 + 1)
      ELSE 0
=============================================================================
