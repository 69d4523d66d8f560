------------------------------ MODULE Hwclock ------------------------------
(***************************************************************************)
(* The hardware clock (libeos-payg/hwclock.c): main() compares it with the *)
(* system clock once, before the root pivot, and from then on the system   *)
(* clock is written to it every 659 seconds and after each jump.           *)
(*                                                                         *)
(* A clock that is set is given by its difference to CLOCK_BOOTTIME, in    *)
(* ticks, so that time itself changes neither the RTC nor the system clock.*)
(* What is read from one and written to the other is an absolute time, in  *)
(* whole seconds, and is old when it is written.                           *)
(***************************************************************************)
EXTENDS Integers

CONSTANTS
  UNIT,          \* ticks per second
  PRECISION,     \* 1 << 19, the seconds that the comparison does not tell apart
  WriteResults,  \* subset of {"ok", "err"}: how RTC_SET_TIME may end
  MaxFailures    \* bound on the writes that fail

ASSUME HwclockAssumption ==
  /\ UNIT \in Nat \ {0}
  /\ PRECISION \in Nat \ {0}
  /\ WriteResults \subseteq {"ok", "err"}
  /\ MaxFailures \in Nat

VARIABLES
  rtcFd,         \* rtc_fd is open
  periodic,      \* the timer of 659 seconds was added
  queued,
  idleUpdates,   \* whether payg_hwclock_update() is an idle source
  nowTm,         \* now_tm: the seconds that payg_hwclock_update() has read
  nowAt,         \* observed: CLOCK_BOOTTIME at that moment
  rtc,           \* the RTC
  rtcLag,        \* observed: the time between the last reading and its write
  failures       \* bound: writes that failed

hwclockVars == <<rtcFd, periodic, queued, idleUpdates, nowTm, nowAt, rtc, rtcLag, failures>>

Secs(ticks) == ticks \div UNIT

(* The clock of the computer was reset unless it is at least as late as    *)
(* the system clock, to a few days.                                        *)
Plausible(rtcSecs, sysSecs) == rtcSecs \div PRECISION >= sysSecs \div PRECISION

(* payg_hwclock_init().  The RTC stays open when it cannot be read or is   *)
(* out of sync.  Without enforcing mode it is never opened.                *)
HwclockInit(opened, readable, rtcTime, sysTime) ==
  /\ rtcFd = opened
  /\ periodic = (opened /\ readable /\ Plausible(Secs(rtcTime), Secs(sysTime)))
  /\ queued = FALSE
  /\ idleUpdates = FALSE
  /\ nowTm = 0 /\ nowAt = 0
  /\ rtcLag = 0
  /\ failures = 0

(* payg_hwclock_queue_update() *)
QueueUpdate ==
  LET queues == rtcFd /\ ~queued
  IN  /\ queued' = (queued \/ queues)
      /\ idleUpdates' = (idleUpdates \/ queues)

(* payg_hwclock_update() reads the clock with time(), which cuts it to     *)
(* seconds, and then writes what it has read.                              *)
ReadsNow(systemClock, boottime) ==
  /\ idleUpdates
  /\ idleUpdates' = FALSE
  /\ queued' = FALSE
  /\ nowTm' = Secs(systemClock)
  /\ nowAt' = boottime
  /\ UNCHANGED <<rtcFd, periodic, rtc, rtcLag, failures>>

(* A write that fails is logged and not repeated. *)
WritesRtc(boottime) ==
  /\ \/ /\ "ok" \in WriteResults
        /\ rtc' = nowTm * UNIT - boottime
        /\ rtcLag' = boottime - nowAt
        /\ UNCHANGED failures
     \/ /\ "err" \in WriteResults /\ failures < MaxFailures
        /\ failures' = failures + 1
        /\ UNCHANGED <<rtc, rtcLag>>
  /\ nowTm' = 0 /\ nowAt' = 0
  /\ UNCHANGED <<rtcFd, periodic, queued, idleUpdates>>

(* source_hwclock_update() *)
PeriodicUpdate ==
  /\ periodic
  /\ QueueUpdate
  /\ UNCHANGED <<rtcFd, periodic, nowTm, nowAt, rtc, rtcLag, failures>>
=============================================================================
