------------------------- MODULE EpgManagerRefinement -------------------------
(***************************************************************************)
(* EpgManager implements Provider: every step of the manager, its saves    *)
(* and its timer is a step that the interface allows, or one that the      *)
(* service does not see.  The timer behind the interface's "expired": when *)
(* credit that runs out is noticed.                                        *)
(***************************************************************************)
EXTENDS EpgManagerProofs

(* "expired" is only ever emitted for credit that is exhausted. *)
SignalIsTrue == signalled => enabled /\ expiryTime <= nowSecs

RefinementInv == TypeOK /\ ShutdownNotLost /\ SignalIsTrue

UsedSet == {c \in Codes : usedCodes[c] > 0}

UsedVars == <<nowSecs, enabled, expiryTime, usedCodes, signalled, cancelled>>

-----------------------------------------------------------------------------
(* set_expiry_time() stays between its base and the end of the span, and   *)
(* signals nothing but exhausted credit.                                   *)
LEMMA SetExpiryTimeRange ==
  ASSUME RefinementInv, NEW base \in 0 .. G_MAXUINT64, NEW span \in Nat,
         SetExpiryTime(base, span), UNCHANGED <<nowSecs, enabled>>
  PROVE  /\ expiryTime' \in base .. AddClamped(base, span)
         /\ signalled' \in BOOLEAN
         /\ signalled' => enabled /\ expiryTime' <= nowSecs
<1> DEFINE end == AddClamped(base, span)
<1>0. base \in Nat /\ nowSecs \in Nat /\ expiryTime \in Nat /\ signalled \in BOOLEAN
  BY RateLimitAssumption DEF RefinementInv, TypeOK
<1>1. end \in Nat /\ base <= end
  BY RateLimitAssumption DEF AddClamped
<1>2. CASE expiryTime' = end /\ signalled' = (signalled /\ end = expiryTime)
  <2>1. signalled' => signalled /\ end = expiryTime
    BY <1>2, Zenon
  <2>2. signalled' \in BOOLEAN
    BY <1>2, Zenon
  <2> QED BY <1>0, <1>1, <1>2, <2>1, <2>2 DEF RefinementInv, SignalIsTrue
<1>3. CASE /\ expiryTime' = base
           /\ signalled' = ((signalled /\ base = expiryTime) \/ (enabled /\ base <= nowSecs))
  <2>1. signalled' => (signalled /\ base = expiryTime) \/ (enabled /\ base <= nowSecs)
    BY <1>3, Zenon
  <2>2. signalled' \in BOOLEAN
    BY <1>3, Zenon
  <2> QED BY <1>0, <1>1, <1>3, <2>1, <2>2 DEF RefinementInv, SignalIsTrue
<1>4. \/ expiryTime' = end /\ signalled' = (signalled /\ end = expiryTime)
      \/ /\ expiryTime' = base
         /\ signalled' = ((signalled /\ base = expiryTime) \/ (enabled /\ base <= nowSecs))
  BY Zenon DEF SetExpiryTime
<1> QED BY <1>2, <1>3, <1>4

(* The same, as the interface states it. *)
LEMMA SignalAllowed ==
  ASSUME signalled' \in BOOLEAN, signalled' => enabled /\ expiryTime' <= nowSecs
  PROVE  signalled' \in {FALSE, enabled /\ expiryTime' <= nowSecs}
<1>1. CASE signalled' = FALSE
  BY <1>1
<1>2. CASE signalled' = TRUE
  BY <1>2
<1> QED BY <1>1, <1>2, Zenon

LEMMA BaseType ==
  ASSUME TypeOK
  PROVE  /\ nowSecs \in 0 .. G_MAXUINT64 /\ nowSecs \in Nat /\ expiryTime \in Nat
         /\ expiryTime \in 0 .. G_MAXUINT64
BY EpgManagerAssumption, RateLimitAssumption DEF TypeOK

-----------------------------------------------------------------------------
(* Each step, as the service sees it. *)

(* What the service does not look at may change in any way. *)
LEMMA Unseen ==
  ASSUME UNCHANGED UsedVars, UNCHANGED shutdownResult
  PROVE  UNCHANGED Interface!providerVars
BY DEF UsedVars, Interface!providerVars

LEMMA AcceptCodeImplements ==
  ASSUME RefinementInv, NEW code \in Codes, AcceptCode(code)
  PROVE  Interface!AddCode(code) /\ SignalIsTrue'
<1> DEFINE base == IF nowSecs < expiryTime THEN expiryTime ELSE nowSecs
<1>1. base \in 0 .. G_MAXUINT64
  BY BaseType DEF RefinementInv
<1>2. Span[code] \in Nat
  BY EpgManagerAssumption
<1>3. /\ enabled /\ ~cancelled /\ usedCodes[code] = 0
      /\ usedCodes' = [usedCodes EXCEPT ![code] = @ + 1]
      /\ SetExpiryTime(base, Span[code])
      /\ UNCHANGED <<nowSecs, enabled, cancelled, shutdownResult>>
  BY DEF AcceptCode, IsUnused, clockVars, shutdownVars
<1> HIDE DEF base
<1>4. /\ expiryTime' \in base .. AddClamped(base, Span[code])
      /\ signalled' \in BOOLEAN
      /\ signalled' => enabled /\ expiryTime' <= nowSecs
  BY <1>1, <1>2, <1>3, SetExpiryTimeRange
<1>5. signalled' \in {FALSE, enabled /\ expiryTime' <= nowSecs}
  BY <1>4, SignalAllowed
<1>6. base = Interface!LaterOf(nowSecs, expiryTime)
  BY DEF base, Interface!LaterOf
<1>7. AddClamped(base, Span[code]) = Interface!ClampedSum(base, Span[code])
  BY DEF AddClamped, Interface!ClampedSum
<1>8. UsedSet' = UsedSet \cup {code} /\ code \notin UsedSet
  <2>1. usedCodes \in [Codes -> Nat]
    BY DEF RefinementInv, TypeOK, CodeCounts
  <2>2. usedCodes'[code] = 1 /\ \A c \in Codes \ {code} : usedCodes'[c] = usedCodes[c]
    BY <1>3, <2>1
  <2> QED BY <1>3, <2>1, <2>2 DEF UsedSet
<1>9. SignalIsTrue'
  BY <1>3, <1>4 DEF SignalIsTrue
<1> QED
  BY <1>3, <1>4, <1>5, <1>6, <1>7, <1>8, <1>9
     DEF Interface!AddCode, Interface!MayEmitExpired, UsedSet

LEMMA ClearCodeImplements ==
  ASSUME RefinementInv, ClearCode
  PROVE  Interface!ProviderClearCode /\ SignalIsTrue'
<1>1. /\ enabled /\ ~cancelled /\ expiryTime' = 0
      /\ signalled' = (signalled /\ expiryTime = 0)
      /\ UNCHANGED <<nowSecs, enabled, usedCodes, cancelled, shutdownResult>>
  BY DEF ClearCode, clockVars, shutdownVars
<1>2. signalled' => signalled
  BY <1>1, Zenon
<1>3. SignalIsTrue'
  BY <1>1, <1>2, BaseType DEF RefinementInv, SignalIsTrue
<1> QED BY <1>1, <1>3, Zenon DEF Interface!ProviderClearCode

LEMMA WallclockImplements ==
  ASSUME RefinementInv, WallclockTimeChanged
  PROVE  /\ Interface!ConsumeCredit \/ UNCHANGED Interface!providerVars
         /\ SignalIsTrue'
<1>0. /\ nowSecs \in Nat /\ expiryTime \in Nat /\ nowSecs \in 0 .. G_MAXUINT64
      /\ expiryTime <= G_MAXUINT64 /\ jumpSecs \in Int
  BY BaseType DEF RefinementInv, TypeOK
<1>1. UNCHANGED <<nowSecs, enabled, usedCodes, cancelled, shutdownResult>>
  BY DEF WallclockTimeChanged, shutdownVars
<1>2. CASE jumpSecs > 0 /\ nowSecs < expiryTime
  <2> DEFINE credit == expiryTime - nowSecs
             left == IF jumpSecs > credit THEN 0 ELSE credit - jumpSecs
  <2>1. SetExpiryTime(nowSecs, left)
    BY <1>2 DEF WallclockTimeChanged
  <2>2. left \in Nat /\ AddClamped(nowSecs, left) <= expiryTime
    <3>1. left \in Nat /\ nowSecs + left <= expiryTime
      BY <1>0, <1>2
    <3> HIDE DEF left
    <3> QED BY <1>0, <3>1, RateLimitAssumption DEF AddClamped
  <2>3. AddClamped(nowSecs, left) \in Nat
    BY <1>0, <2>2, RateLimitAssumption DEF AddClamped
  <2> HIDE DEF left
  <2>4. /\ expiryTime' \in nowSecs .. AddClamped(nowSecs, left)
        /\ signalled' \in BOOLEAN
        /\ signalled' => enabled /\ expiryTime' <= nowSecs
    BY <1>0, <1>1, <2>1, <2>2, SetExpiryTimeRange
  <2>5. signalled' \in {FALSE, enabled /\ expiryTime' <= nowSecs}
    BY <2>4, SignalAllowed
  <2>6. expiryTime' \in nowSecs .. expiryTime
    BY <1>0, <2>2, <2>3, <2>4
  <2>7. SignalIsTrue'
    BY <1>1, <2>4 DEF SignalIsTrue
  <2>8. Interface!ConsumeCredit
    BY <1>1, <1>2, <2>5, <2>6 DEF Interface!ConsumeCredit, Interface!MayEmitExpired
  <2> QED BY <2>7, <2>8
<1>3. CASE ~(jumpSecs > 0 /\ nowSecs < expiryTime)
  <2>1. UNCHANGED <<expiryTime, signalled>>
    BY <1>3 DEF WallclockTimeChanged
  <2> QED BY <1>1, <2>1, Unseen DEF UsedVars, RefinementInv, SignalIsTrue
<1> QED BY <1>2, <1>3

LEMMA CheckExpiredImplements ==
  ASSUME RefinementInv, CheckExpired
  PROVE  /\ Interface!Expire \/ UNCHANGED Interface!providerVars
         /\ SignalIsTrue'
<1>1. /\ signalled' = (signalled \/ (enabled /\ expiryTime <= nowSecs))
      /\ UNCHANGED <<nowSecs, enabled, expiryTime, usedCodes, cancelled, shutdownResult>>
  BY DEF CheckExpired, clockVars, shutdownVars
<1>2. CASE enabled /\ expiryTime <= nowSecs
  <2>1. signalled' = TRUE
    BY <1>1, <1>2, Zenon
  <2>2. SignalIsTrue'
    BY <1>1, <1>2 DEF SignalIsTrue
  <2> QED BY <1>1, <1>2, <2>1, <2>2 DEF Interface!Expire
<1>3. CASE ~(enabled /\ expiryTime <= nowSecs)
  <2>1. signalled' = signalled
    BY <1>1, <1>3, Zenon DEF RefinementInv, TypeOK
  <2> QED BY <1>1, <2>1, Unseen DEF UsedVars, RefinementInv, SignalIsTrue
<1> QED BY <1>2, <1>3

LEMMA SavingIoImplements ==
  ASSUME RefinementInv, SavingIo
  PROVE  /\ Interface!ShutdownReturned \/ UNCHANGED Interface!providerVars
         /\ SignalIsTrue'
<1>1. UNCHANGED UsedVars
  BY DEF SavingIo, EndFileOperation, FileSaved, UsedVars, clockVars, creditVars, shutdownVars
<1>2. SignalIsTrue'
  BY <1>1 DEF UsedVars, RefinementInv, SignalIsTrue
<1>3. CASE shutdownResult' = shutdownResult
  BY <1>1, <1>2, <1>3, Unseen
<1>4. CASE shutdownResult' # shutdownResult
  <2>1. shutdownResult' # "none"
    BY <1>4 DEF SavingIo, EndFileOperation, FileSaved, shutdownVars, InternalSaveReturns,
                ShutdownSaveReturns, SaveResult
  <2> QED BY <1>1, <1>2, <2>1
          DEF UsedVars, Interface!ShutdownReturned, Interface!providerVars
<1> QED BY <1>3, <1>4

(* Every step is one of the interface, and keeps the invariant. *)
LEMMA StepImplements ==
  ASSUME RefinementInv, [Next]_vars
  PROVE  [Interface!ProviderNext]_(Interface!providerVars) /\ SignalIsTrue'
<1>0. /\ nowSecs \in Nat /\ expiryTime \in Nat /\ signalled \in BOOLEAN
  BY BaseType DEF RefinementInv, TypeOK
<1>1. CASE Tick
  <2>1. /\ nowSecs < MaxBoottime /\ nowSecs' = nowSecs + 1
        /\ UNCHANGED <<enabled, expiryTime, usedCodes, signalled, cancelled, shutdownResult>>
    BY <1>1 DEF Tick, creditVars, shutdownVars
  <2>2. SignalIsTrue'
    BY <1>0, <2>1 DEF RefinementInv, SignalIsTrue
  <2> QED BY <2>1, <2>2 DEF Interface!ProviderNext, Interface!ProviderTick
<1>2. CASE \E delta \in JumpDeltas : ClockJump(delta)
  <2>1. UNCHANGED UsedVars /\ UNCHANGED shutdownResult
    BY <1>2 DEF ClockJump, UsedVars, creditVars, shutdownVars
  <2> QED BY <2>1, Unseen DEF UsedVars, RefinementInv, SignalIsTrue
<1>3. CASE \E code \in Codes \cup InvalidCodes : RejectCode(code)
  <2>1. UNCHANGED UsedVars /\ UNCHANGED shutdownResult
    BY <1>3 DEF RejectCode, UsedVars, clockVars, shutdownVars
  <2> QED BY <2>1, Unseen DEF UsedVars, RefinementInv, SignalIsTrue
<1>4. CASE \E code \in Codes : AcceptCode(code)
  BY <1>4, AcceptCodeImplements DEF Interface!ProviderNext
<1>5. CASE ClearCode
  BY <1>5, ClearCodeImplements DEF Interface!ProviderNext
<1>6. CASE WallclockTimeChanged
  BY <1>6, WallclockImplements DEF Interface!ProviderNext
<1>7. CASE CheckExpired
  BY <1>7, CheckExpiredImplements DEF Interface!ProviderNext
<1>8. CASE ShutdownAsync
  <2>1. /\ ~cancelled /\ cancelled' = TRUE
        /\ UNCHANGED <<nowSecs, enabled, expiryTime, usedCodes, signalled, shutdownResult>>
    BY <1>8 DEF ShutdownAsync, clockVars, creditVars
  <2>2. SignalIsTrue'
    BY <2>1 DEF RefinementInv, SignalIsTrue
  <2>3. shutdownResult = "none"
    BY <2>1 DEF RefinementInv, ShutdownNotLost
  <2>4. Interface!ProviderShutdown
    BY <2>1, <2>3 DEF Interface!ProviderShutdown
  <2> QED BY <2>2, <2>4 DEF Interface!ProviderNext
<1>9. CASE SavingIo
  BY <1>9, SavingIoImplements DEF Interface!ProviderNext
<1>10. CASE UNCHANGED vars
  <2>1. UNCHANGED UsedVars /\ UNCHANGED shutdownResult
    BY <1>10 DEF vars, UsedVars, clockVars, creditVars, shutdownVars
  <2> QED BY <2>1, Unseen DEF UsedVars, RefinementInv, SignalIsTrue
<1> QED BY <1>1, <1>2, <1>3, <1>4, <1>5, <1>6, <1>7, <1>8, <1>9, <1>10
        DEF Next, Environment, Handlers

LEMMA InitImplements == Init => Interface!ProviderInit /\ SignalIsTrue
<1> SUFFICES ASSUME Init PROVE Interface!ProviderInit /\ SignalIsTrue
  OBVIOUS
<1>1. /\ nowSecs \in StartTimes /\ enabled \in BOOLEAN /\ cancelled = FALSE
      /\ \E credit \in StartCredits : expiryTime = nowSecs + credit
      /\ usedCodes = [c \in Codes |-> 0] /\ signalled = FALSE
  BY DEF Init
<1>2. UsedSet = {}
  BY <1>1 DEF UsedSet
<1> QED BY <1>1, <1>2 DEF Interface!ProviderInit, SignalIsTrue, UsedSet

(* "expired" tells the truth: while it stands for the current expiry time, *)
(* there is no credit.                                                     *)
THEOREM ExpiredIsTrue == Spec => []SignalIsTrue
<1>1. TypeOK /\ ShutdownNotLost /\ SignalIsTrue /\ [Next]_vars => SignalIsTrue'
  BY StepImplements DEF RefinementInv
<1>2. Init => SignalIsTrue
  BY InitImplements
<1> QED BY <1>1, <1>2, TypeCorrect, ShutdownIsNotLost, PTL DEF Spec

(* The manager implements the interface that the service relies on.        *)
THEOREM ManagerImplementsProvider == Spec => ImplementsProvider
<1>1. Init => Interface!ProviderInit
  BY InitImplements
<1>2. TypeOK /\ ShutdownNotLost /\ SignalIsTrue /\ [Next]_vars
        => [Interface!ProviderNext]_(Interface!providerVars)
  BY StepImplements DEF RefinementInv
<1>3. Spec => Interface!ProviderSpec
  BY <1>1, <1>2, TypeCorrect, ShutdownIsNotLost, ExpiredIsTrue, PTL DEF Spec, Interface!ProviderSpec
<1> QED BY <1>3 DEF ImplementsProvider

-----------------------------------------------------------------------------
(* Credit that runs out is noticed. *)

(* The timer looks again, at most one of its intervals after the expiry    *)
(* time.                                                                   *)
TimerWatches == timer.interval > 0 /\ timer.next <= expiryTime + timer.interval

(* An expiry time set to the present or before has a disarmed timer. *)
SetToThePast == expiryTime <= nowSecs /\ timer = NoTimer

WatchInv ==
  enabled /\ expiryTime \in 1 .. G_MAXUINT64 - 1 /\ ~signalled =>
    TimerWatches \/ SetToThePast

(* A timer for some credit is started at the present, so that its first    *)
(* look is no later than its interval after the time it was counted from.  *)
LEMMA NewTimerWatches ==
  ASSUME TypeOK, NEW secs \in Nat \ {0}, NEW end \in Nat, nowSecs <= end
  PROVE  /\ NewTimer(secs).interval > 0
         /\ NewTimer(secs).next <= end + NewTimer(secs).interval
BY EpgManagerAssumption DEF NewTimer, TimerInterval, TypeOK

LEMMA SetExpiryTimeWatches ==
  ASSUME TypeOK, "err" \notin TimerResults, NEW base \in 0 .. G_MAXUINT64, NEW span \in Nat,
         nowSecs <= base, SetExpiryTime(base, span)
  PROVE  /\ expiryTime' = AddClamped(base, span)
         /\ expiryTime' # G_MAXUINT64 /\ span > 0 => TimerWatches'
         /\ expiryTime' # G_MAXUINT64 /\ span = 0 => expiryTime' = base /\ timer' = NoTimer
<1> DEFINE end == AddClamped(base, span)
<1>1. /\ expiryTime' = end
      /\ timer' = IF end = G_MAXUINT64 THEN NoTimer ELSE NewTimer(end - base)
  BY DEF SetExpiryTime
<1>2. /\ end \in Nat /\ base \in Nat /\ nowSecs \in Nat
      /\ end # G_MAXUINT64 => end = base + span
  BY RateLimitAssumption, EpgManagerAssumption DEF AddClamped, TypeOK
<1> HIDE DEF end
<1>3. ASSUME end # G_MAXUINT64, span > 0
      PROVE  TimerWatches'
  <2>1. end - base \in Nat \ {0} /\ nowSecs <= end /\ timer' = NewTimer(end - base)
    BY <1>1, <1>2, <1>3
  <2> QED BY <1>1, <1>2, <2>1, NewTimerWatches DEF TimerWatches
<1>4. ASSUME end # G_MAXUINT64, span = 0
      PROVE  end = base /\ timer' = NoTimer
  BY <1>1, <1>2, <1>4 DEF NewTimer
<1> QED BY <1>1, <1>3, <1>4 DEF end

(* The kernel's timer goes on in its grid, so the next look is less than   *)
(* an interval from the present.                                           *)
LEMMA RearmedWatches ==
  ASSUME TypeOK, TimerIsReady
  PROVE  Rearmed.interval = timer.interval /\ Rearmed.next <= nowSecs + timer.interval
<1>1. timer.interval \in Nat \ {0} /\ timer.next \in Nat /\ nowSecs - timer.next \in Nat
      /\ nowSecs \in Nat
  BY DEF TypeOK, Timers, TimerIsReady
<1> DEFINE q == (nowSecs - timer.next) \div timer.interval
<1>2. q \in Nat /\ timer.interval * q <= nowSecs - timer.next
  BY <1>1
<1> HIDE DEF q
<1>3. timer.interval * (q + 1) = timer.interval * q + timer.interval
      /\ timer.interval * q \in Nat
  BY <1>1, <1>2
<1>4. Rearmed.interval = timer.interval /\ Rearmed.next = timer.next + timer.interval * (q + 1)
  BY <1>1 DEF Rearmed, TypeOK, Timers, q
<1> QED BY <1>1, <1>2, <1>3, <1>4

(* What a step does to the timer: it leaves it, or starts one that watches *)
(* the credit, or is a reported jump that left no credit to watch.         *)
LEMMA WatchStep ==
  ASSUME TypeOK, "err" \notin TimerResults, [Next]_vars,
         enabled', expiryTime' \in 1 .. G_MAXUINT64 - 1, ~signalled'
  PROVE  \/ TimerWatches'
         \/ WallclockTimeChanged /\ jumpSecs > 0 /\ SetToThePast'
         \/ /\ enabled /\ expiryTime' = expiryTime /\ ~signalled
            /\ TimerWatches => TimerWatches'
            /\ SetToThePast => SetToThePast'
<1> DEFINE Left == /\ enabled /\ expiryTime' = expiryTime /\ ~signalled
                   /\ TimerWatches => TimerWatches'
                   /\ SetToThePast => SetToThePast'
<1>t. /\ nowSecs \in Nat /\ expiryTime \in Nat /\ nowSecs \in 0 .. G_MAXUINT64
      /\ expiryTime \in 0 .. G_MAXUINT64 /\ expiryTime' # G_MAXUINT64
      /\ expiryTime' # 0 /\ jumpSecs \in Int
  BY BaseType, RateLimitAssumption DEF TypeOK
<1>1. ASSUME UNCHANGED <<enabled, expiryTime, signalled, timer>>,
             nowSecs' \in {nowSecs, nowSecs + 1}
      PROVE  Left
  <2>1. SetToThePast => SetToThePast'
    BY <1>t, <1>1 DEF SetToThePast, NoTimer
  <2>2. TimerWatches => TimerWatches'
    BY <1>1 DEF TimerWatches
  <2> QED BY <1>1, <2>1, <2>2
<1>2. CASE UNCHANGED vars \/ Environment \/ SavingIo \/ ShutdownAsync
           \/ \E code \in Codes \cup InvalidCodes : RejectCode(code)
  <2>1. UNCHANGED <<enabled, expiryTime, signalled, timer>> /\ nowSecs' \in {nowSecs, nowSecs + 1}
    BY <1>2 DEF vars, Environment, Tick, ClockJump, SavingIo, EndFileOperation, FileSaved,
                ShutdownAsync, RejectCode, clockVars, creditVars
  <2> QED BY <1>1, <2>1
<1>3. ASSUME NEW code \in Codes, AcceptCode(code)
      PROVE  TimerWatches'
  <2> DEFINE base == IF nowSecs < expiryTime THEN expiryTime ELSE nowSecs
  <2>1. base \in 0 .. G_MAXUINT64 /\ nowSecs <= base
    BY <1>t
  <2>2. Span[code] \in Nat /\ Span[code] > 0
    BY EpgManagerAssumption, RateLimitAssumption
  <2>3. SetExpiryTime(base, Span[code])
    BY <1>3 DEF AcceptCode
  <2> HIDE DEF base
  <2> QED BY <1>t, <2>1, <2>2, <2>3, SetExpiryTimeWatches
<1>4. CASE ClearCode
  BY <1>t, <1>4 DEF ClearCode
<1>5. CASE WallclockTimeChanged
  <2>1. CASE jumpSecs > 0 /\ nowSecs < expiryTime
    <3> DEFINE left == IF jumpSecs > expiryTime - nowSecs
                       THEN 0 ELSE expiryTime - nowSecs - jumpSecs
    <3>1. left \in Nat
      BY <1>t, <2>1
    <3>2. SetExpiryTime(nowSecs, left) /\ nowSecs' = nowSecs
      BY <1>5, <2>1 DEF WallclockTimeChanged
    <3> HIDE DEF left
    <3>3. /\ expiryTime' # G_MAXUINT64 /\ left > 0 => TimerWatches'
          /\ expiryTime' # G_MAXUINT64 /\ left = 0 => expiryTime' = nowSecs /\ timer' = NoTimer
      BY <1>t, <3>1, <3>2, SetExpiryTimeWatches
    <3>4. CASE left = 0
      <4>1. expiryTime' = nowSecs /\ timer' = NoTimer /\ nowSecs' = nowSecs
        BY <1>t, <3>2, <3>3, <3>4
      <4>2. SetToThePast'
        BY <1>t, <4>1 DEF SetToThePast, NoTimer
      <4> QED BY <1>5, <2>1, <4>2
    <3> QED BY <1>t, <3>1, <3>3, <3>4
  <2>2. CASE ~(jumpSecs > 0 /\ nowSecs < expiryTime)
    <3>1. UNCHANGED <<enabled, expiryTime, signalled, timer>> /\ nowSecs' = nowSecs
      BY <1>5, <2>2 DEF WallclockTimeChanged
    <3> QED BY <1>1, <3>1
  <2> QED BY <2>1, <2>2
<1>6. CASE CheckExpired
  <2>1. /\ signalled' = (signalled \/ (enabled /\ expiryTime <= nowSecs))
        /\ timer' = IF enabled /\ expiryTime > nowSecs THEN Rearmed ELSE NoTimer
        /\ UNCHANGED <<nowSecs, enabled, expiryTime>> /\ TimerIsReady
    BY <1>6 DEF CheckExpired, clockVars
  <2>2. ~(enabled /\ expiryTime <= nowSecs)
    BY <2>1, Zenon
  <2>3. expiryTime > nowSecs /\ timer' = Rearmed
    BY <1>t, <2>1, <2>2
  <2>4. timer.interval > 0 /\ timer.interval \in Nat
    BY <2>1 DEF TimerIsReady, TypeOK, Timers
  <2>5. /\ Rearmed.interval = timer.interval
        /\ Rearmed.next <= nowSecs + timer.interval
        /\ Rearmed \in Timers
    BY <2>1, RearmedWatches, RearmedType
  <2> QED BY <1>t, <2>1, <2>3, <2>4, <2>5 DEF TimerWatches, Timers
<1> QED BY <1>2, <1>3, <1>4, <1>5, <1>6 DEF Next, Handlers

(* At the start a timer watches the credit there is. *)
LEMMA InitWatches ==
  ASSUME Init, expiryTime # G_MAXUINT64
  PROVE  TimerWatches \/ (SetToThePast /\ 0 \in StartCredits)
<1>1. PICK credit \in StartCredits :
        /\ expiryTime = nowSecs + credit
        /\ timer = IF expiryTime = G_MAXUINT64 THEN NoTimer ELSE NewTimer(credit)
  BY DEF Init
<1>2. credit \in Nat /\ nowSecs \in Nat
  BY EpgManagerAssumption DEF Init
<1>3. TypeOK
  BY InitTypeInv DEF TypeInv
<1>4. CASE credit = 0
  BY <1>1, <1>2, <1>4 DEF NewTimer, SetToThePast, NoTimer
<1>5. CASE credit # 0
  <2>1. timer = NewTimer(credit)
    BY <1>1
  <2> QED BY <1>1, <1>2, <1>3, <1>5, <2>1, NewTimerWatches DEF TimerWatches
<1> QED BY <1>4, <1>5

CreditIsWatched ==
  enabled /\ expiryTime \in nowSecs + 1 .. G_MAXUINT64 - 1 /\ ~signalled => TimerWatches

(* While there is credit and timers can be created, one of them watches    *)
(* the expiry time, however the clocks are set, the credit is extended or  *)
(* consumed and the timer has ticked.                                      *)
THEOREM CreditAlwaysWatched ==
  ASSUME "err" \notin TimerResults
  PROVE  Spec => []CreditIsWatched
<1>1. Init => WatchInv
  BY InitWatches, RateLimitAssumption DEF WatchInv
<1>2. TypeOK /\ WatchInv /\ [Next]_vars => WatchInv'
  <2> SUFFICES ASSUME TypeOK, WatchInv, [Next]_vars,
                      enabled', expiryTime' \in 1 .. G_MAXUINT64 - 1, ~signalled'
               PROVE  TimerWatches' \/ SetToThePast'
    BY DEF WatchInv
  <2> QED BY WatchStep DEF WatchInv
<1>3. TypeOK /\ WatchInv => CreditIsWatched
  <2> SUFFICES ASSUME TypeOK, WatchInv, enabled, ~signalled,
                      expiryTime \in nowSecs + 1 .. G_MAXUINT64 - 1
               PROVE  TimerWatches
    BY DEF CreditIsWatched
  <2>1. nowSecs \in Nat /\ expiryTime \in Nat
    BY BaseType
  <2>2. expiryTime \in 1 .. G_MAXUINT64 - 1 /\ ~(expiryTime <= nowSecs)
    BY <2>1, RateLimitAssumption
  <2> QED BY <2>2 DEF WatchInv, SetToThePast
<1> QED BY <1>1, <1>2, <1>3, TypeCorrect, PTL DEF Spec

(* A set_expiry_time() that finds no timer has the expiry time of before,  *)
(* unless it signals.                                                      *)
LEMMA SetExpiryTimeOutcome ==
  ASSUME TypeOK, NEW base \in 0 .. G_MAXUINT64, NEW span \in Nat, nowSecs <= base,
         SetExpiryTime(base, span), enabled
  PROVE  \/ TimerWatches'
         \/ expiryTime' = G_MAXUINT64
         \/ span = 0 /\ expiryTime' = base
         \/ expiryTime' = base /\ (base <= nowSecs => signalled')
<1> DEFINE end == AddClamped(base, span)
<1>1. /\ end \in Nat /\ base \in Nat /\ nowSecs \in Nat
      /\ end # G_MAXUINT64 => end = base + span
  BY RateLimitAssumption, EpgManagerAssumption DEF AddClamped, TypeOK
<1>2. CASE /\ expiryTime' = end
           /\ timer' = IF end = G_MAXUINT64 THEN NoTimer ELSE NewTimer(end - base)
  <2> HIDE DEF end
  <2>1. CASE end # G_MAXUINT64 /\ span > 0
    <3>1. end - base \in Nat \ {0} /\ nowSecs <= end /\ timer' = NewTimer(end - base)
      BY <1>1, <1>2, <2>1
    <3> QED BY <1>1, <1>2, <3>1, NewTimerWatches DEF TimerWatches
  <2>2. CASE end = G_MAXUINT64
    BY <1>2, <2>2
  <2>3. CASE end # G_MAXUINT64 /\ span = 0
    BY <1>1, <1>2, <2>3
  <2> QED BY <2>1, <2>2, <2>3
<1>3. CASE /\ expiryTime' = base
           /\ signalled' = ((signalled /\ base = expiryTime) \/ (enabled /\ base <= nowSecs))
  <2>1. base <= nowSecs => signalled'
    BY <1>3, Zenon
  <2> QED BY <1>3, <2>1
<1>4. \/ /\ expiryTime' = end
         /\ timer' = IF end = G_MAXUINT64 THEN NoTimer ELSE NewTimer(end - base)
      \/ /\ expiryTime' = base
         /\ signalled' = ((signalled /\ base = expiryTime) \/ (enabled /\ base <= nowSecs))
  BY Zenon DEF SetExpiryTime
<1> QED BY <1>2, <1>3, <1>4

(* What becomes of a watched expiry time in a step: it is watched on, or   *)
(* "expired" is emitted, or the credit is cleared, infinite or all         *)
(* consumed by a jump of the wall clock, or a code was accepted for which  *)
(* no timer could be created.                                              *)
WatchGoesOn ==
  enabled /\ expiryTime \in 1 .. G_MAXUINT64 - 1 /\ TimerWatches =>
    \/ TimerWatches' \/ signalled'
    \/ expiryTime' \in {0, G_MAXUINT64, nowSecs}
    \/ usedCodes' # usedCodes /\ expiryTime' = expiryTime

(* These are all the ways in which a manager stops watching its credit     *)
(* without having told that it is exhausted, however often the timer has   *)
(* ticked, the credit was extended and the clocks were set.                *)
THEOREM WatchIsKept == Spec => [][WatchGoesOn]_vars
<1>1. TypeOK /\ [Next]_vars => [WatchGoesOn]_vars
  <2> SUFFICES ASSUME TypeOK, Next, enabled, expiryTime \in 1 .. G_MAXUINT64 - 1, TimerWatches
               PROVE  \/ TimerWatches' \/ signalled'
                      \/ expiryTime' \in {0, G_MAXUINT64, nowSecs}
                      \/ usedCodes' # usedCodes /\ expiryTime' = expiryTime
    BY DEF WatchGoesOn
  <2>t. /\ nowSecs \in Nat /\ expiryTime \in Nat /\ nowSecs \in 0 .. G_MAXUINT64
        /\ expiryTime \in 0 .. G_MAXUINT64 /\ jumpSecs \in Int
    BY BaseType, RateLimitAssumption DEF TypeOK
  <2>1. CASE UNCHANGED <<expiryTime, timer>>
    BY <2>1 DEF TimerWatches
  <2>2. CASE \E code \in Codes : AcceptCode(code)
    <3>1. PICK code \in Codes : AcceptCode(code)
      BY <2>2
    <3> DEFINE base == IF nowSecs < expiryTime THEN expiryTime ELSE nowSecs
    <3>2. base \in 0 .. G_MAXUINT64 /\ nowSecs <= base /\ Span[code] \in Nat /\ Span[code] # 0
      BY <2>t, EpgManagerAssumption, RateLimitAssumption
    <3>3. SetExpiryTime(base, Span[code])
      BY <3>1 DEF AcceptCode
    <3>4. usedCodes' # usedCodes
      <4>1. usedCodes' = [usedCodes EXCEPT ![code] = @ + 1] /\ usedCodes[code] = 0
        BY <3>1 DEF AcceptCode, IsUnused
      <4>2. usedCodes'[code] = 1
        BY <4>1 DEF TypeOK, CodeCounts
      <4> QED BY <4>1, <4>2
    <3>5. base = expiryTime \/ base = nowSecs
      OBVIOUS
    <3> HIDE DEF base
    <3>6. TimerWatches' \/ expiryTime' = G_MAXUINT64 \/ expiryTime' = base
      BY <3>2, <3>3, SetExpiryTimeOutcome
    <3> QED BY <3>4, <3>5, <3>6
  <2>3. CASE ClearCode
    BY <2>3 DEF ClearCode
  <2>4. CASE WallclockTimeChanged
    <3>1. CASE jumpSecs > 0 /\ nowSecs < expiryTime
      <4> DEFINE left == IF jumpSecs > expiryTime - nowSecs
                         THEN 0 ELSE expiryTime - nowSecs - jumpSecs
      <4>1. left \in Nat
        BY <2>t, <3>1
      <4>2. SetExpiryTime(nowSecs, left)
        BY <2>4, <3>1 DEF WallclockTimeChanged
      <4> HIDE DEF left
      <4> QED BY <2>t, <4>1, <4>2, SetExpiryTimeOutcome
    <3>2. CASE ~(jumpSecs > 0 /\ nowSecs < expiryTime)
      BY <2>1, <2>4, <3>2 DEF WallclockTimeChanged
    <3> QED BY <3>1, <3>2
  <2>5. CASE CheckExpired
    <3>1. /\ signalled' = (signalled \/ (enabled /\ expiryTime <= nowSecs))
          /\ timer' = IF enabled /\ expiryTime > nowSecs THEN Rearmed ELSE NoTimer
          /\ UNCHANGED expiryTime /\ TimerIsReady
      BY <2>5 DEF CheckExpired
    <3>2. CASE expiryTime <= nowSecs
      BY <3>1, <3>2, Zenon
    <3>3. CASE ~(expiryTime <= nowSecs)
      <4>1. expiryTime > nowSecs /\ timer' = Rearmed
        BY <2>t, <3>1, <3>3
      <4>2. timer.interval > 0 /\ timer.interval \in Nat
        BY <3>1 DEF TimerIsReady, TypeOK, Timers
      <4>3. /\ Rearmed.interval = timer.interval
            /\ Rearmed.next <= nowSecs + timer.interval
            /\ Rearmed \in Timers
        BY <3>1, RearmedWatches, RearmedType
      <4> QED BY <2>t, <3>1, <4>1, <4>2, <4>3 DEF TimerWatches, Timers
    <3> QED BY <3>2, <3>3
  <2>6. CASE Environment \/ SavingIo \/ ShutdownAsync
             \/ \E code \in Codes \cup InvalidCodes : RejectCode(code)
    <3>1. UNCHANGED <<expiryTime, timer>>
      BY <2>6 DEF Environment, Tick, ClockJump, SavingIo, EndFileOperation, FileSaved,
                  ShutdownAsync, RejectCode, creditVars
    <3> QED BY <2>1, <3>1
  <2> QED BY <2>2, <2>3, <2>4, <2>5, <2>6 DEF Next, Handlers
<1> QED BY <1>1, TypeCorrect, PTL DEF Spec
=============================================================================
