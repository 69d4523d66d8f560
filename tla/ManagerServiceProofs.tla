------------------------- MODULE ManagerServiceProofs -------------------------
(***************************************************************************)
(* Theorems about ManagerService for every provider that keeps the         *)
(* promises of module Provider, every set of codes and every timeout.      *)
(***************************************************************************)
EXTENDS ManagerService, TLAPS

(* The provider's side of the invariant: "expired" is only ever emitted    *)
(* for credit that is exhausted.                                           *)
ExpiredIsExhausted == expired => expiryTime <= nowSecs

(* Before the service is there, nothing is counted down. *)
QuietUntilConnected == ~connected => shutdownTimer = "none"

TimerInv ==
  /\ ExpiredIsExhausted
  /\ QuietUntilConnected
  /\ ExpiredIsCountedDown
  /\ NoPowerOffWithCredit

ServiceInv == TypeOK /\ TimerInv

-----------------------------------------------------------------------------
LEMMA InitServiceInv == Init => ServiceInv
<1> SUFFICES ASSUME Init PROVE ServiceInv
  OBVIOUS
<1>1. /\ nowSecs \in StartTimes /\ enabled \in BOOLEAN /\ enabled
      /\ \E credit \in StartCredits : expiryTime = nowSecs + credit
      /\ used = {} /\ expired = FALSE /\ state = "running"
      /\ connected = FALSE /\ shutdownTimer = "none" /\ remaining = 0
      /\ announced = "none" /\ poweredOff = FALSE /\ suspendedSecs = 0
  BY DEF Init, ProviderInit
<1>2. expiryTime \in 0 .. G_MAXUINT64 /\ nowSecs \in 0 .. MaxBoottime
  BY <1>1, ManagerServiceAssumption
<1>e. enabled = TRUE
  BY <1>1, Zenon
<1>a. /\ used \subseteq Codes /\ expired \in BOOLEAN /\ connected \in BOOLEAN
      /\ poweredOff \in BOOLEAN /\ state \in {"running", "stopping", "stopped"}
      /\ shutdownTimer \in {"none", "running", "fired"}
      /\ announced \in {"none", "impending", "cancelled"}
  BY <1>1
<1>b. remaining \in 0 .. TIMEOUT_POWEROFF_NO_CREDIT /\ suspendedSecs \in 0 .. MaxSuspended
  BY <1>1, ManagerServiceAssumption
<1>3. TypeOK
  BY <1>2, <1>e, <1>a, <1>b DEF TypeOK
<1> QED
  BY <1>1, <1>3 DEF ServiceInv, TimerInv, ExpiredIsExhausted, QuietUntilConnected,
       ExpiredIsCountedDown, NoPowerOffWithCredit

-----------------------------------------------------------------------------
(* The steps of the provider. *)

(* What every step of the provider does to the credit, and all that the    *)
(* callbacks need to know of it: the end of the credit is signalled only   *)
(* when it is reached, and an expiry time that changes without a signal    *)
(* leaves no signal of an earlier one behind.                              *)
StepKeepsCredit ==
  /\ UNCHANGED <<nowSecs, enabled>>
  /\ expiryTime' \in 0 .. G_MAXUINT64
  /\ used' \subseteq Codes
  /\ expired' \in BOOLEAN
  /\ state' \in {"running", "stopping", "stopped"}
  /\ expired' => expiryTime' <= nowSecs
  /\ expired' /\ expired /\ expiryTime' # expiryTime => expiryTime' > 0

LEMMA EmittedType ==
  ASSUME MayEmitExpired, enabled = TRUE
  PROVE  expired' \in BOOLEAN /\ (expired' => expiryTime' <= nowSecs)
BY Zenon DEF MayEmitExpired

LEMMA ProviderStepKeepsCredit ==
  ASSUME ServiceInv, ProviderStep
  PROVE  StepKeepsCredit
<1>0. /\ nowSecs \in Nat /\ expiryTime \in Nat /\ expired \in BOOLEAN /\ enabled = TRUE
      /\ nowSecs <= G_MAXUINT64 /\ expiryTime <= G_MAXUINT64 /\ G_MAXUINT64 \in Nat
      /\ used \subseteq Codes
      /\ state \in {"running", "stopping", "stopped"}
      /\ expired => expiryTime <= nowSecs
  BY ManagerServiceAssumption DEF ServiceInv, TypeOK, TimerInv, ExpiredIsExhausted
<1>1. ASSUME NEW code \in Codes, AddCode(code)
      PROVE  StepKeepsCredit
  <2> DEFINE base == LaterOf(nowSecs, expiryTime)
  <2>1. base \in Nat /\ base >= expiryTime /\ base <= G_MAXUINT64
    BY <1>0 DEF LaterOf
  <2>2. ClampedSum(base, Span[code]) <= G_MAXUINT64 /\ ClampedSum(base, Span[code]) \in Nat
    <3>1. Span[code] \in Nat
      BY ManagerServiceAssumption
    <3> HIDE DEF base
    <3> QED BY <1>0, <2>1, <3>1 DEF ClampedSum
  <2>3. expiryTime' \in base .. ClampedSum(base, Span[code])
    BY <1>1 DEF AddCode
  <2> HIDE DEF base
  <2>4. expiryTime' \in 0 .. G_MAXUINT64 /\ expiryTime' >= expiryTime
    BY <1>0, <2>1, <2>2, <2>3
  <2>5. expired' \in BOOLEAN /\ (expired' => expiryTime' <= nowSecs)
    BY <1>0, <1>1, EmittedType DEF AddCode
  <2>6. used' \subseteq Codes /\ UNCHANGED <<nowSecs, enabled, state>>
    BY <1>0, <1>1 DEF AddCode
  <2> QED BY <1>0, <2>4, <2>5, <2>6 DEF StepKeepsCredit
<1>2. CASE ProviderClearCode
  <2>1. /\ expiryTime' = 0 /\ expired' = (expired /\ expiryTime = 0)
        /\ UNCHANGED <<nowSecs, enabled, used, state>>
    BY <1>2 DEF ProviderClearCode
  <2>2. expired' \in BOOLEAN /\ (expired' => expiryTime = 0)
    BY <2>1, Zenon
  <2> QED BY <1>0, <2>1, <2>2 DEF StepKeepsCredit
<1>3. CASE ConsumeCredit
  <2>1. /\ nowSecs < expiryTime /\ expiryTime' \in nowSecs .. expiryTime
        /\ UNCHANGED <<nowSecs, enabled, used, state>>
        /\ MayEmitExpired
    BY <1>3 DEF ConsumeCredit
  <2>2. expired' \in BOOLEAN /\ (expired' => expiryTime' <= nowSecs)
    BY <1>0, <2>1, EmittedType
  <2>3. ~expired
    BY <1>0, <2>1
  <2> QED BY <1>0, <2>1, <2>2, <2>3 DEF StepKeepsCredit
<1>4. CASE Expire
  BY <1>0, <1>4 DEF Expire, StepKeepsCredit
<1>5. CASE ProviderShutdown \/ ShutdownReturned
  <2>1. /\ UNCHANGED <<nowSecs, enabled, expiryTime, used, expired>>
        /\ state' \in {"running", "stopping", "stopped"}
    BY <1>5 DEF ProviderShutdown, ShutdownReturned
  <2> QED BY <1>0, <2>1 DEF StepKeepsCredit
<1> QED BY <1>1, <1>2, <1>3, <1>4, <1>5 DEF ProviderStep

(* The callbacks leave the timer as the new credit demands.                *)
LEMMA CallbacksKeepTimer ==
  ASSUME ServiceInv, StepKeepsCredit, Callbacks
  PROVE  ServiceInv'
<1>0. /\ nowSecs \in Nat /\ expiryTime \in Nat /\ expired \in BOOLEAN
      /\ remaining \in 0 .. TIMEOUT_POWEROFF_NO_CREDIT
      /\ connected \in BOOLEAN /\ poweredOff \in BOOLEAN
      /\ shutdownTimer \in {"none", "running", "fired"}
      /\ announced \in {"none", "impending", "cancelled"}
      /\ TIMEOUT_POWEROFF_NO_CREDIT \in Nat
  BY ManagerServiceAssumption DEF ServiceInv, TypeOK
<1>1. /\ UNCHANGED <<nowSecs, connected, poweredOff, suspendedSecs>>
      /\ expiryTime' \in Nat /\ expired' \in BOOLEAN
      /\ expired' => expiryTime' <= nowSecs
      /\ expired' /\ expired /\ expiryTime' # expiryTime => expiryTime' > 0
  BY ManagerServiceAssumption DEF StepKeepsCredit, Callbacks
<1>2. /\ remaining' \in 0 .. TIMEOUT_POWEROFF_NO_CREDIT
      /\ shutdownTimer' \in {"none", "running", "fired"}
      /\ announced' \in {"none", "impending", "cancelled"}
  BY <1>0 DEF Callbacks, ExpiredCb, StartShutdownTimer, NotifyExpiryTimeCb
<1>3. TypeOK'
  BY <1>1, <1>2 DEF StepKeepsCredit, ServiceInv, TypeOK
<1>4. ExpiredIsExhausted'
  BY <1>1 DEF ExpiredIsExhausted
<1>5. CASE ~connected
  <2>1. UNCHANGED <<shutdownTimer, remaining, announced>>
    BY <1>5 DEF Callbacks
  <2> QED
    BY <1>1, <1>3, <1>4, <1>5, <2>1
       DEF ServiceInv, TimerInv, QuietUntilConnected, ExpiredIsCountedDown,
           NoPowerOffWithCredit
<1>6. CASE connected /\ ExpiredEmitted
  <2>1. ExpiredCb /\ expiryTime' <= nowSecs
    BY <1>1, <1>6 DEF Callbacks, ExpiredEmitted
  <2> QED
    BY <1>1, <1>3, <1>4, <1>6, <2>1
       DEF ServiceInv, TimerInv, QuietUntilConnected, ExpiredIsCountedDown,
           NoPowerOffWithCredit, ExpiredCb, StartShutdownTimer
<1>7. CASE connected /\ ~ExpiredEmitted /\ ExpiryTimeNotified
  <2>1. NotifyExpiryTimeCb /\ (expired' => expired)
    BY <1>7 DEF Callbacks, ExpiredEmitted
  <2> QED
    BY <1>0, <1>1, <1>3, <1>4, <1>7, <2>1
       DEF ServiceInv, TimerInv, QuietUntilConnected, ExpiredIsCountedDown, ExpiryTimeNotified,
           NoPowerOffWithCredit, NotifyExpiryTimeCb, CancelsTimer
<1>8. CASE connected /\ ~ExpiredEmitted /\ ~ExpiryTimeNotified
  <2>1. /\ UNCHANGED <<shutdownTimer, remaining, announced, expiryTime>>
        /\ expired' => expired
    BY <1>8 DEF Callbacks, ExpiredEmitted, ExpiryTimeNotified
  <2> QED
    BY <1>1, <1>3, <1>4, <1>8, <2>1
       DEF ServiceInv, TimerInv, QuietUntilConnected, ExpiredIsCountedDown,
           NoPowerOffWithCredit
<1> QED BY <1>0, <1>5, <1>6, <1>7, <1>8

-----------------------------------------------------------------------------
(* The steps of the service. *)

LEMMA NextServiceInv == ServiceInv /\ [Next]_vars => ServiceInv'
<1> SUFFICES ASSUME ServiceInv, [Next]_vars PROVE ServiceInv'
  OBVIOUS
<1> USE DEF ServiceInv, TimerInv, QuietUntilConnected, ExpiredIsCountedDown,
            ExpiredIsExhausted, NoPowerOffWithCredit
<1>0. /\ nowSecs \in Nat /\ expiryTime \in Nat
      /\ remaining \in 0 .. TIMEOUT_POWEROFF_NO_CREDIT /\ suspendedSecs \in 0 .. MaxSuspended
      /\ TIMEOUT_POWEROFF_NO_CREDIT \in Nat /\ MaxSuspended \in Nat /\ MaxBoottime \in Nat
  BY ManagerServiceAssumption DEF TypeOK
<1>1. CASE Connect
  <2>1. TypeOK'
    BY <1>0, <1>1 DEF TypeOK, Connect, ExpiredCb, StartShutdownTimer, providerVars
  <2> QED
    BY <1>0, <1>1, <2>1
       DEF Connect, AlreadyExpired, ExpiredCb, StartShutdownTimer, providerVars
<1>2. CASE ProviderStep /\ Callbacks
  <2>1. StepKeepsCredit
    BY <1>2, ProviderStepKeepsCredit
  <2> QED BY <1>2, <2>1, CallbacksKeepTimer
<1>3. CASE Tick
  <2>1. TypeOK'
    BY <1>0, <1>3 DEF TypeOK, Tick, ProviderTick
  <2> QED BY <1>0, <1>3, <2>1 DEF Tick, ProviderTick
<1>4. CASE SuspendedTick
  <2>1. TypeOK'
    BY <1>0, <1>4 DEF TypeOK, SuspendedTick, ProviderTick, serviceVars
  <2> QED BY <1>0, <1>4, <2>1 DEF SuspendedTick, ProviderTick, serviceVars
<1>5. CASE PowerOff
  <2>1. TypeOK'
    BY <1>5 DEF TypeOK, PowerOff, providerVars
  <2> QED BY <1>5, <2>1 DEF PowerOff, providerVars
<1>6. CASE UNCHANGED vars
  BY <1>6 DEF TypeOK, vars, providerVars, serviceVars
<1> QED BY <1>1, <1>2, <1>3, <1>4, <1>5, <1>6 DEF Next

LEMMA ServiceInvariant == Spec => []ServiceInv
BY InitServiceInv, NextServiceInv, PTL DEF Spec

(* The types of the service and of its provider: a timer never has more    *)
(* left than the timeout of the power-off.                                 *)
THEOREM ServiceTypeCorrect == Spec => []TypeOK
<1>1. ServiceInv => TypeOK
  BY DEF ServiceInv
<1> QED BY <1>1, ServiceInvariant, PTL

(* No computer with credit is powered off, whatever the provider does      *)
(* within its promises: codes, jumps of the clock, clearing, suspension.   *)
THEOREM CreditIsNotPoweredOff == Spec => []NoPowerOffWithCredit
<1>1. ServiceInv => NoPowerOffWithCredit
  BY DEF ServiceInv, TimerInv
<1> QED BY <1>1, ServiceInvariant, PTL

(* The end of the credit is counted down, also when it was signalled       *)
(* before the service existed.                                             *)
THEOREM ExpiryIsCountedDown == Spec => []ExpiredIsCountedDown
<1>1. ServiceInv => ExpiredIsCountedDown
  BY DEF ServiceInv, TimerInv
<1> QED BY <1>1, ServiceInvariant, PTL
=============================================================================
