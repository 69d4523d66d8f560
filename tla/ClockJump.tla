----------------------------- MODULE ClockJump -----------------------------
(***************************************************************************)
(* The detection of clock jumps: the cancel-on-set timerfd                 *)
(* (libeos-payg/clock-jump-source.c), the service's comparison of the wall *)
(* clock with CLOCK_BOOTTIME, both cut to seconds (libeos-payg/service.c), *)
(* and the hardware clock, which follows each jump.                        *)
(*                                                                         *)
(* The clocks are read one after the other, so time passes and the wall    *)
(* clock is set between any two steps of the main loop, also within one    *)
(* callback.  The wall clock is boottime + offset.  The time of the model  *)
(* starts with the detection: what the clocks did before is in their       *)
(* initial values, with which nothing is compared.                         *)
(***************************************************************************)
EXTENDS Hwclock

CONSTANTS
  StartOffsets,  \* what the wall clock is ahead of CLOCK_BOOTTIME at the start
  RtcOffsets,    \* and the RTC
  Jumps,         \* by how much clock_settime() or adjtime() sets the wall clock
  SuspendTicks,  \* how long the computer may be suspended
  SourceResults, \* subset of {"ok", "err"}: whether the timerfd can be created
  ReadResults,   \* subset of {"canceled", "other"}: how reading the timerfd may end
  MaxJumps,      \* bound on the jumps and suspends
  MaxBoottime    \* bound on CLOCK_BOOTTIME, in ticks

ASSUME ClockJumpAssumption ==
  /\ StartOffsets \subseteq Nat /\ RtcOffsets \subseteq Nat
  /\ Jumps \subseteq Int \ {0}
  /\ SuspendTicks \subseteq Nat
  /\ SourceResults \subseteq {"ok", "err"}
  /\ ReadResults \subseteq {"canceled", "other"}
  /\ MaxJumps \in Nat /\ MaxBoottime \in Nat

VARIABLES
  boottime,      \* CLOCK_BOOTTIME, in ticks
  offset,        \* CLOCK_REALTIME - CLOCK_BOOTTIME
  jumps,         \* bound: jumps and suspends so far
  step,          \* where the main loop is in a callback that reads the clocks
  source,        \* the GSource
  ready,         \* its timerfd was cancelled and not yet read
  realV0,        \* clock_realtime_secs_v0
  bootV0,        \* clock_boottime_secs_v0
  readReal,      \* the wall clock as it was last read, before it is cut to seconds
  readAt,        \* observed: CLOCK_BOOTTIME at that moment
  reported,      \* observed: the sum of the deltas the provider was told
  seen,          \* observed: what the clocks were apart at the reading for V0
  skew,          \* observed: the time between the two readings for V0
  first,         \* observed: what the clocks were apart when the detection started
  firstSkew,     \* observed: the time between the two readings then
  missed         \* observed: a jump before the timerfd existed is not yet compared

clockVars == <<boottime, offset, jumps>>
detectionVars == <<step, source, ready, realV0, bootV0, readReal, readAt>>
observedVars == <<reported, seen, skew, first, firstSkew, missed>>
jumpVars == <<clockVars, detectionVars, observedVars, hwclockVars>>

(* The wall clock was set since it was last read. *)
Unwatched == readReal - readAt # offset

(* The main loop is not in one of these callbacks. *)
AtLoop == step \in {"off", "loop"}

InitClocks ==
  /\ boottime = 0
  /\ offset \in StartOffsets
  /\ rtc \in RtcOffsets
  /\ \E opened \in BOOLEAN, readable \in BOOLEAN : HwclockInit(opened, readable, rtc, offset)
  /\ jumps = 0
  /\ step = "off"
  /\ source = "none"
  /\ ready = FALSE
  /\ realV0 = 0 /\ bootV0 = 0
  /\ readReal = 0 /\ readAt = 0
  /\ reported = 0 /\ seen = 0 /\ first = 0
  /\ skew = 0 /\ firstSkew = 0
  /\ missed = FALSE
-----------------------------------------------------------------------------
(* The kernel. *)

TimePasses ==
  /\ step # "off"
  /\ boottime < MaxBoottime
  /\ boottime' = boottime + 1
  /\ UNCHANGED <<offset, jumps, detectionVars, observedVars, hwclockVars>>

(* Each discontinuous change cancels the timerfd, once it exists.          *)
Cancelled == ready' = (ready \/ source = "armed")

ClockSet(delta) ==
  /\ step # "off"
  /\ jumps < MaxJumps
  /\ boottime + offset + delta >= 0
  /\ offset' = offset + delta
  /\ jumps' = jumps + 1
  /\ Cancelled
  /\ UNCHANGED <<boottime, step, source, realV0, bootV0, readReal, readAt,
                 observedVars, hwclockVars>>

(* When the computer resumes, both clocks have gone on alike, and the      *)
(* timerfd is cancelled all the same.                                      *)
Resume(ticks) ==
  /\ step # "off"
  /\ jumps < MaxJumps
  /\ boottime + ticks <= MaxBoottime
  /\ boottime' = boottime + ticks
  /\ jumps' = jumps + 1
  /\ Cancelled
  /\ UNCHANGED <<offset, step, source, realV0, bootV0, readReal, readAt,
                 observedVars, hwclockVars>>
-----------------------------------------------------------------------------
(* _init_clock_jump_detection(), called once, by epg_service_set_provider() *)

StartDetection ==
  /\ step = "off" /\ source = "none"
  /\ readReal' = boottime + offset
  /\ readAt' = boottime
  /\ realV0' = Secs(boottime + offset)
  /\ step' = "startBoot"
  /\ UNCHANGED <<clockVars, source, ready, bootV0, observedVars, hwclockVars>>

StartReadsBoottime ==
  /\ step = "startBoot"
  /\ bootV0' = Secs(boottime)
  /\ seen' = readReal - readAt /\ skew' = boottime - readAt
  /\ first' = seen' /\ firstSkew' = skew'
  /\ step' = "newSource"
  /\ UNCHANGED <<clockVars, source, ready, realV0, readReal, readAt, reported, missed,
                 hwclockVars>>

(* epg_clock_jump_source_new().  Without a source the service runs on and  *)
(* no jump is ever detected.                                               *)
NewSource ==
  /\ step = "newSource"
  /\ missed' = Unwatched
  /\ \E result \in SourceResults :
       source' = IF result = "ok" THEN "armed" ELSE "failed"
  /\ step' = "loop"
  /\ UNCHANGED <<clockVars, ready, realV0, bootV0, readReal, readAt, reported, seen, skew,
                 first, firstSkew, hwclockVars>>
-----------------------------------------------------------------------------
(* epg_clock_jump_source_dispatch() and clock_jump_cb() *)

(* read() takes the readiness away before the clocks are read.  The source *)
(* removes itself when the result is not the one of a cancelled timerfd,   *)
(* and from then on no jump is detected.                                   *)
Dispatch ==
  /\ step = "loop" /\ ready
  /\ ready' = FALSE
  /\ \/ "canceled" \in ReadResults /\ step' = "jumpReal" /\ UNCHANGED source
     \/ "other" \in ReadResults /\ source' = "removed" /\ UNCHANGED step
  /\ UNCHANGED <<clockVars, realV0, bootV0, readReal, readAt, observedVars, hwclockVars>>

JumpReadsRealtime ==
  /\ step = "jumpReal"
  /\ readReal' = boottime + offset
  /\ readAt' = boottime
  /\ missed' = FALSE
  /\ step' = "jumpBoot"
  /\ UNCHANGED <<clockVars, source, ready, realV0, bootV0, reported, seen, skew, first,
                 firstSkew, hwclockVars>>

ClockJumpDelta(realV1, bootV1) == (realV1 - realV0) - (bootV1 - bootV0)

(* A bug: the hardware clock is only set for a jump of whole seconds. *)
QueuesIfWhole(delta) == delta # 0

QueuesAfter(delta) == TRUE

(* A bug: the next delta is counted from the start again. *)
KeptV0(v0, v1) == v0

NextV0(v0, v1) == v1

(* A bug: the timerfd is only read after the clocks. *)
ReadAfterClocks == FALSE

ReadyAfterCallback == ready

(* epg_provider_wallclock_time_changed() is called for a delta that is not *)
(* zero; the hardware clock is updated in any case.                        *)
JumpReadsBoottime ==
  /\ step = "jumpBoot"
  /\ LET realV1 == Secs(readReal)
         bootV1 == Secs(boottime)
         delta  == ClockJumpDelta(realV1, bootV1)
     IN  /\ reported' = reported + delta
         /\ realV0' = NextV0(realV0, realV1)
         /\ bootV0' = NextV0(bootV0, bootV1)
         /\ IF QueuesAfter(delta) THEN QueueUpdate ELSE UNCHANGED <<queued, idleUpdates>>
  /\ seen' = readReal - readAt /\ skew' = boottime - readAt
  /\ ready' = ReadyAfterCallback
  /\ step' = "loop"
  /\ UNCHANGED <<clockVars, source, readReal, readAt, first, firstSkew, missed,
                 rtcFd, periodic, nowTm, nowAt, rtc, rtcLag, failures>>
-----------------------------------------------------------------------------
(* The hardware clock, in the same main loop. *)

HwclockUpdate ==
  /\ step = "loop"
  /\ ReadsNow(boottime + offset, boottime)
  /\ step' = "rtc"
  /\ UNCHANGED <<clockVars, source, ready, realV0, bootV0, readReal, readAt, observedVars>>

HwclockWrite ==
  /\ step = "rtc"
  /\ WritesRtc(boottime)
  /\ step' = "loop"
  /\ UNCHANGED <<clockVars, source, ready, realV0, bootV0, readReal, readAt, observedVars>>

SourceHwclockUpdate ==
  /\ step = "loop"
  /\ PeriodicUpdate
  /\ UNCHANGED <<clockVars, detectionVars, observedVars>>

Clocks ==
  \/ TimePasses
  \/ \E delta \in Jumps : ClockSet(delta)
  \/ \E ticks \in SuspendTicks : Resume(ticks)

(* The steps within a callback, which nothing else of the loop interrupts. *)
CallbackSteps ==
  \/ StartReadsBoottime
  \/ NewSource
  \/ JumpReadsRealtime
  \/ JumpReadsBoottime
  \/ HwclockWrite

Sources ==
  \/ Dispatch
  \/ HwclockUpdate
  \/ SourceHwclockUpdate

JumpNext == Clocks \/ StartDetection \/ CallbackSteps \/ Sources

JumpSpec == InitClocks /\ [][JumpNext]_jumpVars

(* The main loop runs and dispatches its sources in turn: an idle source   *)
(* has a lower priority than the timerfd, whose jumps are bounded.         *)
JumpFairness ==
  /\ WF_jumpVars(CallbackSteps)
  /\ WF_jumpVars(Dispatch)
  /\ WF_jumpVars(HwclockUpdate)
  /\ WF_jumpVars(SourceHwclockUpdate)

JumpFairSpec == JumpSpec /\ JumpFairness
-----------------------------------------------------------------------------
JumpTypeOK ==
  /\ boottime \in 0 .. MaxBoottime
  /\ offset \in Int /\ boottime + offset >= 0
  /\ jumps \in 0 .. MaxJumps
  /\ step \in {"off", "startBoot", "newSource", "loop", "jumpReal", "jumpBoot",
               "rtc"}
  /\ source \in {"none", "armed", "failed", "removed"}
  /\ ready \in BOOLEAN
  /\ {realV0, bootV0, readReal, readAt} \subseteq Int
  /\ {reported, seen, skew, first, firstSkew} \subseteq Int
  /\ rtcFd \in BOOLEAN /\ periodic \in BOOLEAN
  /\ queued \in BOOLEAN /\ idleUpdates \in BOOLEAN
  /\ {nowTm, nowAt, rtc, rtcLag} \subseteq Int
  /\ missed \in BOOLEAN
  /\ failures \in 0 .. MaxFailures

(* The provider is told what the clocks are apart, less what they were     *)
(* apart at the start.  Each comparison of the two clocks is wrong by less *)
(* than a second either way, for the seconds are cut, and by the time that *)
(* passes between its two readings, a suspend included.  These errors do   *)
(* not add up: only those of the first and the last comparison are in the  *)
(* sum of all deltas, whatever jumps, suspends and delays there were.      *)
ErrorsDoNotAdd ==
  source # "none" =>
    LET error == reported * UNIT - (seen - first)
        delay == firstSkew - skew
    IN  delay - 2 * UNIT < error /\ error < delay + 2 * UNIT

(* A jump is either in the wall clock that was last compared, or the       *)
(* timerfd is ready, so that another comparison follows: also when it      *)
(* comes between the dispatch and the readings.  Only one that comes       *)
(* before the timerfd exists waits for the next.                           *)
NoJumpIsLost == source = "armed" /\ step = "loop" /\ Unwatched => ready \/ missed

(* The RTC is behind the system clock by the part of a second that was cut *)
(* off and by what passed between the reading and the write, and never     *)
(* ahead of it.                                                            *)
RtcIsClose == offset - UNIT - rtcLag < rtc /\ rtc <= offset

(* After a jump the hardware clock is set, also when it was out of sync at *)
(* the start and has no timer, also for less than a second and also when   *)
(* the jump comes between the reading and the write of an update that is   *)
(* under way, unless a write fails or the source was removed.  With its    *)
(* timer it follows the system clock in the end, whatever was missed and   *)
(* whichever writes failed.                                                *)
RtcFollows ==
  /\ ready /\ rtcFd ~> RtcIsClose \/ failures > 0 \/ source = "removed"
  /\ <>[](periodic /\ step # "off" => RtcIsClose)
=============================================================================
