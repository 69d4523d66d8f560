------------------------------- MODULE Provider -------------------------------
(***************************************************************************)
(* What the service may rely on of a provider of credit (EpgProvider,      *)
(* libeos-payg/provider.c), whichever implements it: how the credit may    *)
(* change, when "expired" may be emitted, and what stops after a shutdown. *)
(* EpgManager implements this specification, see EpgManagerRefinement.     *)
(*                                                                         *)
(* The interface promises less than its documentation says.  A provider    *)
(* that cannot create a timer shortens the credit it has just been given,  *)
(* one that has no credit, or whose credit is cleared, may never emit      *)
(* "expired", and the wall clock still consumes credit, and credit still expires, during a shutdown and  *)
(* after it, until the process ends.                                       *)
(***************************************************************************)
EXTENDS Integers

CONSTANTS
  Codes,          \* the codes that verify
  Span,           \* [Codes -> seconds of credit]
  G_MAXUINT64,    \* the largest guint64: no end of the credit
  StartTimes,     \* values of CLOCK_BOOTTIME when the provider is created
  StartCredits,   \* seconds of credit it is created with
  MaxBoottime     \* bound on CLOCK_BOOTTIME

VARIABLES
  nowSecs,        \* CLOCK_BOOTTIME
  enabled,
  expiryTime,
  used,           \* the codes that have been accepted
  expired,        \* "expired" was emitted for this expiry time
  state           \* "running", "stopping", "stopped"

providerVars == <<nowSecs, enabled, expiryTime, used, expired, state>>
-----------------------------------------------------------------------------
LaterOf(a, b) == IF a < b THEN b ELSE a

ClampedSum(a, b) == IF a + b > G_MAXUINT64 THEN G_MAXUINT64 ELSE a + b

ProviderInit ==
  /\ nowSecs \in StartTimes
  /\ enabled \in BOOLEAN
  /\ \E credit \in StartCredits : expiryTime = nowSecs + credit
  /\ used = {}
  /\ expired = FALSE
  /\ state = "running"

ProviderTick ==
  /\ nowSecs < MaxBoottime
  /\ nowSecs' = nowSecs + 1
  /\ UNCHANGED <<enabled, expiryTime, used, expired, state>>

(* "expired" is emitted when there is no credit left, or not at all. *)
MayEmitExpired == expired' \in {FALSE, enabled /\ expiryTime' <= nowSecs}

(* A code adds its span to the credit, once. *)
AddCode(code) ==
  /\ enabled /\ state = "running"
  /\ code \notin used
  /\ used' = used \cup {code}
  /\ LET base == LaterOf(nowSecs, expiryTime)
     IN  expiryTime' \in base .. ClampedSum(base, Span[code])
  /\ MayEmitExpired
  /\ UNCHANGED <<nowSecs, enabled, state>>

(* "This function should cause #EpgProvider::expired to be emitted
   instantly", says the interface; the manager empties the credit, stops the
   timer and emits nothing (ExhaustedIsSignalled of module EpgManager). *)
ProviderClearCode ==
  /\ enabled /\ state = "running"
  /\ expiryTime' = 0
  /\ expired' = (expired /\ expiryTime = 0)
  /\ UNCHANGED <<nowSecs, enabled, used, state>>

(* A jump forward of the wall clock consumes credit. *)
ConsumeCredit ==
  /\ nowSecs < expiryTime
  /\ expiryTime' \in nowSecs .. expiryTime
  /\ MayEmitExpired
  /\ UNCHANGED <<nowSecs, enabled, used, state>>

Expire ==
  /\ enabled
  /\ expiryTime <= nowSecs
  /\ expired' = TRUE
  /\ UNCHANGED <<nowSecs, enabled, expiryTime, used, state>>

ProviderShutdown ==
  /\ state = "running"
  /\ state' = "stopping"
  /\ UNCHANGED <<nowSecs, enabled, expiryTime, used, expired>>

ShutdownReturned ==
  /\ state = "stopping"
  /\ state' = "stopped"
  /\ UNCHANGED <<nowSecs, enabled, expiryTime, used, expired>>

ProviderNext ==
  \/ ProviderTick
  \/ \E code \in Codes : AddCode(code)
  \/ ProviderClearCode
  \/ ConsumeCredit
  \/ Expire
  \/ ProviderShutdown
  \/ ShutdownReturned

ProviderSpec == ProviderInit /\ [][ProviderNext]_providerVars
=============================================================================
