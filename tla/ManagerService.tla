---------------------------- MODULE ManagerService ----------------------------
(***************************************************************************)
(* The D-Bus service of the provider (libeos-payg/manager-service.c): how  *)
(* it follows the provider's signals to power off a computer without       *)
(* credit, and what it announces on the bus.  The provider is any that     *)
(* keeps the promises of module Provider.                                  *)
(*                                                                         *)
(* The provider emits its signals inside its own operations, so the        *)
(* service's callbacks belong to the provider's steps.  CLOCK_BOOTTIME     *)
(* goes on while the computer is suspended, the power-off timer does not.  *)
(***************************************************************************)
EXTENDS Provider

CONSTANTS
  TIMEOUT_POWEROFF_NO_CREDIT, \* in seconds
  MaxSuspended                \* bound on the seconds of suspension

ASSUME ManagerServiceAssumption ==
  /\ TIMEOUT_POWEROFF_NO_CREDIT \in Nat \ {0}
  /\ MaxSuspended \in Nat
  /\ StartTimes \subseteq Nat /\ StartCredits \subseteq Nat
  /\ MaxBoottime \in Nat
  /\ Span \in [Codes -> Nat]
  /\ G_MAXUINT64 \in Nat
  /\ \A t \in StartTimes : t <= MaxBoottime
  /\ \A t \in StartTimes, c \in StartCredits : t + c <= G_MAXUINT64
  /\ MaxBoottime <= G_MAXUINT64

VARIABLES
  connected,      \* the service exists and is connected to the signals
  shutdownTimer,  \* shutdown_timer_id: "none", "running", or "fired": the
                  \*   ID of a source that is gone
  remaining,      \* seconds until the running timer is ready
  announced,      \* the last ImpendingShutdown: "none", "impending", "cancelled"
  poweredOff,     \* systemctl has been asked to power off
  suspendedSecs   \* how long the computer was suspended

serviceVars == <<connected, shutdownTimer, remaining, announced, poweredOff>>
vars == <<providerVars, serviceVars, suspendedSecs>>

Init ==
  /\ ProviderInit
  /\ enabled
  /\ connected = FALSE
  /\ shutdownTimer = "none"
  /\ remaining = 0
  /\ announced = "none"
  /\ poweredOff = FALSE
  /\ suspendedSecs = 0
-----------------------------------------------------------------------------
(* A bug: the timeout is multiplied by 60 twice. *)
StartLongTimer ==
  /\ shutdownTimer' = "running"
  /\ remaining' = 60 * TIMEOUT_POWEROFF_NO_CREDIT
  /\ announced' = "impending"

StartShutdownTimer ==
  /\ shutdownTimer' = "running"
  /\ remaining' = TIMEOUT_POWEROFF_NO_CREDIT
  /\ announced' = "impending"

(* expired_cb(): a second signal does not start a second timer. *)
ExpiredCb ==
  IF shutdownTimer = "none"
  THEN StartShutdownTimer
  ELSE UNCHANGED <<shutdownTimer, remaining, announced>>

(* A bug: the timer is never removed. *)
NeverCancels == FALSE

CancelsTimer ==
  shutdownTimer # "none" /\ (expiryTime' = 0 \/ expiryTime' > nowSecs)

(* notify_expiry_time_cb() *)
NotifyExpiryTimeCb ==
  IF CancelsTimer
  THEN /\ shutdownTimer' = "none"
       /\ remaining' = 0
       /\ announced' = "cancelled"
  ELSE UNCHANGED <<shutdownTimer, remaining, announced>>

ExpiredEmitted == expired' /\ ~expired

ExpiryTimeNotified == expiryTime' # expiryTime

(* The callbacks that run within a step of the provider.  One that does    *)
(* both emits "expired" first, and the notification of an expiry time that *)
(* is over changes nothing.                                                *)
Callbacks ==
  /\ IF ~connected THEN UNCHANGED <<shutdownTimer, remaining, announced>>
     ELSE IF ExpiredEmitted THEN ExpiredCb
     ELSE IF ExpiryTimeNotified THEN NotifyExpiryTimeCb
     ELSE UNCHANGED <<shutdownTimer, remaining, announced>>
  /\ UNCHANGED <<connected, poweredOff, suspendedSecs>>

(* A bug: the expiry is left to the signal. *)
NotExpiredYet == FALSE

AlreadyExpired == expiryTime <= nowSecs

(* epg_service_startup_complete(): the service is created for a provider   *)
(* that has been running since the start, maybe before the root pivot, and *)
(* may have emitted "expired" to nobody.                                   *)
Connect ==
  /\ ~connected /\ state = "running"
  /\ connected' = TRUE
  /\ IF AlreadyExpired THEN ExpiredCb
                       ELSE UNCHANGED <<shutdownTimer, remaining, announced>>
  /\ UNCHANGED <<providerVars, poweredOff, suspendedSecs>>

Tick ==
  /\ ProviderTick
  /\ remaining' = IF shutdownTimer = "running" /\ remaining > 0
                  THEN remaining - 1 ELSE remaining
  /\ UNCHANGED <<connected, shutdownTimer, announced, poweredOff, suspendedSecs>>

(* Time passes while the computer is suspended. *)
SuspendedTick ==
  /\ suspendedSecs < MaxSuspended
  /\ ProviderTick
  /\ suspendedSecs' = suspendedSecs + 1
  /\ UNCHANGED serviceVars

(* payg_system_poweroff(): the source removes itself, its ID stays. *)
PowerOff ==
  /\ shutdownTimer = "running" /\ remaining = 0
  /\ shutdownTimer' = "fired"
  /\ poweredOff' = TRUE
  /\ UNCHANGED <<providerVars, connected, remaining, announced, suspendedSecs>>

(* A method call on the bus, the timer of the provider, a jump of the wall
   clock that the service reports, and epg_service_shutdown(). *)
ProviderStep ==
  \/ connected /\ \E code \in Codes : AddCode(code)
  \/ connected /\ ProviderClearCode
  \/ ConsumeCredit
  \/ Expire
  \/ ProviderShutdown
  \/ ShutdownReturned

Next ==
  \/ Connect
  \/ ProviderStep /\ Callbacks
  \/ Tick
  \/ SuspendedTick
  \/ PowerOff

Spec == Init /\ [][Next]_vars

(* The main loop dispatches a timer that is ready, the clock runs. *)
Fairness == WF_vars(PowerOff) /\ WF_vars(Tick)

FairSpec == Spec /\ Fairness
-----------------------------------------------------------------------------
TypeOK ==
  /\ nowSecs \in 0 .. MaxBoottime
  /\ enabled = TRUE
  /\ expiryTime \in 0 .. G_MAXUINT64
  /\ used \subseteq Codes
  /\ expired \in BOOLEAN
  /\ state \in {"running", "stopping", "stopped"}
  /\ connected \in BOOLEAN
  /\ shutdownTimer \in {"none", "running", "fired"}
  /\ remaining \in 0 .. TIMEOUT_POWEROFF_NO_CREDIT
  /\ announced \in {"none", "impending", "cancelled"}
  /\ poweredOff \in BOOLEAN
  /\ suspendedSecs \in 0 .. MaxSuspended

(* A provider that has reported the end of the credit is counted down:     *)
(* also when it did so before the service was there, and however often     *)
(* credit came and went since.                                             *)
ExpiredIsCountedDown == connected /\ expired => shutdownTimer # "none"

(* A computer with credit is not powered off: no code, jump of the clock   *)
(* or repeated signal leaves a timer running that belongs to credit which  *)
(* ran out before.                                                         *)
NoPowerOffWithCredit == shutdownTimer # "none" => expiryTime <= nowSecs

(* A computer without credit is powered off in the end, unless the timer   *)
(* is cancelled, as far as the bounded clock goes.                         *)
EnoughTime ==
  nowSecs + TIMEOUT_POWEROFF_NO_CREDIT + (MaxSuspended - suspendedSecs) <= MaxBoottime

PoweredOffWithoutCredit ==
  connected /\ expired /\ EnoughTime ~> poweredOff \/ shutdownTimer = "none"

(* The timer is cancelled when "the expiry time was extended into the      *)
(* future" (manager-service.c:889-891): false, since clearing the code     *)
(* of a computer without credit sets the expiry time to 0 and so takes     *)
(* back the power-off.                                                     *)
OnlyCreditCancels ==
  [][shutdownTimer # "none" /\ shutdownTimer' = "none" => expiryTime' > nowSecs]_vars

(* An announcement that means "shutdown cancelled" (manager-service.c:909) *)
(* is true: false, since the ID of the timer that has fired stays, and     *)
(* credit that comes after systemctl was asked "cancels" it.               *)
CancelledIsTrue == poweredOff => announced # "cancelled"
=============================================================================
