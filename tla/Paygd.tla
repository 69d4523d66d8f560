-------------------------------- MODULE Paygd --------------------------------
(***************************************************************************)
(* eos-paygd (eos-paygd/main.c), boot after boot: whether this boot is     *)
(* enforced, the wait for the bus, the service (libeos-payg/service.c) and *)
(* the choice of its provider, the ways the process ends, and what powers  *)
(* off the computer then: the timers that call payg_system_poweroff(), the *)
(* watchdog that is not pinged any more, and systemd when the unit fails.  *)
(*                                                                         *)
(* Code between two iterations of the main loop is one step.  Time is      *)
(* counted in minutes, relative to the events.                             *)
(***************************************************************************)
EXTENDS Integers

CONSTANTS
  TIMEOUT_POWEROFF_ON_ERROR,  \* 20 minutes
  WATCHDOG_TIMEOUT,           \* 20 minutes without a ping
  EfiResults,        \* subset of {"ok", "err"}: whether efivars can be opened
  ExistsResults,     \* subset of {"ok", "err"}: whether it can be seen what exists
  RtcResults,        \* subset of {"ok", "err"}: whether the RTC works and is plausible
  SystemctlResults,  \* subset of {"ok", "err"}: the result of systemctl poweroff
  ServiceErrors,     \* subset of {"error", "signalled"}: how the service may end
  LegacyModes,       \* subset of BOOLEAN: run from the root filesystem
  DaemonLevels,      \* values of EPG_SECURITY_LEVEL that are booted
  NoTimer

ASSUME PaygdAssumption ==
  /\ TIMEOUT_POWEROFF_ON_ERROR \in Nat \ {0}
  /\ WATCHDOG_TIMEOUT \in Nat /\ WATCHDOG_TIMEOUT > 1
  /\ EfiResults \subseteq {"ok", "err"} /\ RtcResults \subseteq {"ok", "err"}
  /\ ExistsResults \subseteq {"ok", "err"}
  /\ SystemctlResults \subseteq {"ok", "err"}
  /\ ServiceErrors \subseteq {"error", "signalled"}
  /\ LegacyModes \subseteq BOOLEAN
  /\ DaemonLevels \subseteq 0 .. 127   \* bound: chars are signed beyond it
  /\ NoTimer \notin Nat

VARIABLES
  power,        \* "on", "stopping": systemd was asked to power off, "off"
  pc,           \* where main() is
  exitStatus,   \* "none", "success", "failure", "signal", "killed"
  legacy,       \* payg_legacy_mode
  enforcing,    \* enforcing_mode
  efiOpen,      \* eospayg_efi_init() has opened efivars
  activeEfivar, \* eospayg_active_efivar: what the service read of EOSPAYG_active
  provider,     \* "none", "external", "manager"
  timers,       \* minutes until a call of payg_system_poweroff(), by cause
  timeoutId,    \* timeout_id is not zero
  unpinged,     \* minutes since the last ping of the watchdog, NoTimer if closed
  active,       \* EOSPAYG_active in the NVRAM
  level,        \* EOSPAYG_securitylevel in the NVRAM
  promised,     \* observed: the causes for which a power-off was announced
  refused,      \* observed: systemctl failed
  misread       \* observed: the service did not see that EOSPAYG_active is set

bootVars == <<legacy, enforcing, efiOpen, activeEfivar>>
nvram == <<active, level>>
observed == <<promised, refused, misread>>
vars == <<power, pc, exitStatus, bootVars, provider, timers, timeoutId,
          unpinged, nvram, observed>>

Causes == {"efi", "level", "rtc", "bus", "exit"}

NoTimers == [c \in Causes |-> NoTimer]

(* main() iterates the main context. *)
Looping == pc \in {"waitBus", "service", "exiting", "pinging"}

Init ==
  /\ power = "off"
  /\ pc = "exited"
  /\ exitStatus = "none"
  /\ legacy = FALSE
  /\ enforcing = FALSE
  /\ efiOpen = FALSE
  /\ activeEfivar = FALSE
  /\ provider = "none"
  /\ timers = NoTimers
  /\ timeoutId = FALSE
  /\ unpinged = NoTimer
  /\ active \in BOOLEAN
  /\ level \in DaemonLevels
  /\ promised = {}
  /\ refused = FALSE
  /\ misread = FALSE
-----------------------------------------------------------------------------
(* Starting: all of main() before the service's providers are loaded. *)

(* payg_get_eospayg_active_set(), which main() and the service call each   *)
(* for itself: whatever error faccessat() has, the variable "does not      *)
(* exist".                                                                 *)
ReadsActive(opened, seen) == opened /\ active /\ seen = "ok"

(* A bug: only a secure boot is required. *)
EnforcesUnlessInsecure(found, secure) == secure

Enforces(found, secure) == secure /\ found

(* A bug: the level of the daemon is always stored. *)
StoredLevel(daemonLevel) == daemonLevel

(* test_and_update_securitylevel(): the stored level is only raised. *)
LevelAfter(daemonLevel) == IF level < daemonLevel THEN daemonLevel ELSE level

Regressed(daemonLevel) == level > daemonLevel

(* A bug: the timeout is multiplied by 60 twice. *)
LongTimers(failed) ==
  [c \in Causes |-> IF c \in failed THEN 60 * TIMEOUT_POWEROFF_ON_ERROR ELSE NoTimer]

(* The timers of checks that failed, which are never removed. *)
CheckTimers(failed) ==
  [c \in Causes |-> IF c \in failed THEN TIMEOUT_POWEROFF_ON_ERROR ELSE NoTimer]

(* A boot from the initramfs.  The stored level may be unreadable.         *)
StartInitramfs(efi, seen, secure, readable, rtc, daemonLevel) ==
  /\ legacy' = FALSE
  /\ efiOpen' = (efi = "ok")
  /\ enforcing' = Enforces(ReadsActive(efi = "ok", seen), secure)
  /\ \/ level' = IF enforcing' /\ readable THEN LevelAfter(daemonLevel) ELSE level
     \/ level' = level   \* the write failed
  /\ promised' = {c \in {"efi", "level", "rtc"} :
                    \/ c = "efi" /\ efi = "err"
                    \/ c = "level" /\ enforcing' /\ (~readable \/ Regressed(daemonLevel))
                    \/ c = "rtc" /\ enforcing' /\ rtc = "err"}
  /\ timers' = CheckTimers(promised')

StartLegacy ==
  /\ legacy' = TRUE
  /\ efiOpen' = FALSE
  /\ enforcing' = TRUE
  /\ timers' = NoTimers
  /\ promised' = {}
  /\ UNCHANGED level

Start ==
  /\ power = "off"
  /\ power' = "on"
  /\ pc' = "secureInit"
  /\ exitStatus' = "none"
  /\ activeEfivar' = FALSE
  /\ provider' = "none"
  /\ timeoutId' = FALSE
  /\ unpinged' = NoTimer
  /\ refused' = FALSE
  /\ misread' = FALSE
  /\ \/ \E efi \in EfiResults, seen \in ExistsResults, secure \in BOOLEAN,
           readable \in BOOLEAN, rtc \in RtcResults, daemonLevel \in DaemonLevels :
          /\ FALSE \in LegacyModes
          /\ StartInitramfs(efi, seen, secure, readable, rtc, daemonLevel)
     \/ TRUE \in LegacyModes /\ StartLegacy
  /\ UNCHANGED active

Ends(status) ==
  /\ pc' = "exited"
  /\ exitStatus' = status
  /\ provider' = "none"
  /\ timers' = NoTimers
  /\ timeoutId' = FALSE

(* epg_service_secure_init_sync(), which reads EOSPAYG_active again, and   *)
(* main() up to the wait for the bus.  The watchdog, the LSM or the        *)
(* notification of systemd may be missing.                                 *)
SecureInit ==
  /\ power # "off" /\ pc = "secureInit"
  /\ \E seen \in ExistsResults : activeEfivar' = (~legacy /\ ReadsActive(efiOpen, seen))
  /\ misread' = (efiOpen /\ active /\ ~activeEfivar')
  /\ \/ /\ provider' \in {"none", "external"}
        /\ \/ /\ legacy
              /\ pc' = "service"
              /\ UNCHANGED <<timers, timeoutId, unpinged>>
           \/ /\ ~legacy
              /\ pc' = "waitBus"
              /\ timers' = [timers EXCEPT !["bus"] = TIMEOUT_POWEROFF_ON_ERROR]
              /\ timeoutId' = TRUE
              /\ unpinged' = IF enforcing THEN 0 ELSE NoTimer
        /\ UNCHANGED exitStatus
     \/ /\ ~legacy
        /\ Ends("failure")
        /\ unpinged' \in IF enforcing THEN {NoTimer, 0} ELSE {NoTimer}
  /\ UNCHANGED <<power, legacy, enforcing, efiOpen, nvram, promised, refused>>

(* A bug: the timers of the start are removed with that of the wait. *)
NoTimersLeft == NoTimers

TimersAfterWait == [timers EXCEPT !["bus"] = NoTimer]

(* The bus is there, maybe after its timer has run. *)
BusConnected ==
  /\ power # "off" /\ pc = "waitBus"
  /\ timers' = TimersAfterWait
  /\ timeoutId' = FALSE
  /\ pc' = IF enforcing THEN "service" ELSE "serviceEnded"
  /\ UNCHANGED <<power, exitStatus, bootVars, provider, unpinged, nvram, observed>>
-----------------------------------------------------------------------------
(* The service. *)

(* epg_service_startup_async(): external providers whose state is on the   *)
(* main filesystem are only found now; without one, EpgManager is used     *)
(* where PAYG is not known to be active.                                   *)
ServiceStartup ==
  /\ power # "off" /\ pc = "service" /\ provider = "none"
  /\ \/ provider' = "external"
     \/ ~activeEfivar /\ provider' = "manager"
  /\ UNCHANGED <<power, pc, exitStatus, bootVars, timers, timeoutId, unpinged, nvram, observed>>

(* EpgManager is disabled: the service exits without an error. *)
ServiceNotNeeded ==
  /\ power # "off" /\ pc = "service" /\ provider = "none"
  /\ ~activeEfivar
  /\ pc' = "serviceEnded"
  /\ UNCHANGED <<power, exitStatus, bootVars, provider, timers, timeoutId, unpinged, nvram, observed>>

(* provider_unlocked_cb(): the loan is paid off. *)
Unlocked ==
  /\ power # "off" /\ pc = "service" /\ provider = "external"
  /\ active' \in IF activeEfivar THEN {FALSE, active} ELSE {active}
  /\ UNCHANGED <<power, pc, exitStatus, bootVars, provider, timers, timeoutId, unpinged, level, observed>>

ServiceFailed(error) ==
  /\ power # "off" /\ pc = "service"
  /\ pc' = "exiting"
  /\ provider' = "none"
  /\ timeoutId' = TRUE
  /\ timers' = [timers EXCEPT !["exit"] =
                  IF error = "signalled" THEN 0 ELSE TIMEOUT_POWEROFF_ON_ERROR]
  /\ exitStatus' = IF error = "signalled" THEN "signal" ELSE "failure"
  /\ promised' = promised \cup {"exit"}
  /\ UNCHANGED <<power, bootVars, unpinged, nvram, refused, misread>>

(* main() after a service that ended without an error, or was not run. *)
ServiceEnded ==
  /\ power # "off" /\ pc = "serviceEnded"
  /\ IF unpinged # NoTimer
     THEN /\ pc' = "pinging"
          /\ UNCHANGED <<exitStatus, provider, timers, timeoutId>>
     ELSE Ends("success")
  /\ UNCHANGED <<power, bootVars, unpinged, nvram, observed>>
-----------------------------------------------------------------------------
(* Time, power and failures. *)

(* The idle source that a signal leaves behind is the only one that is     *)
(* given the address of timeout_id.                                        *)
ClearsTimeoutId(cause) == cause = "exit" /\ exitStatus = "signal"

SystemPowerOff ==
  \E result \in SystemctlResults :
    /\ power' = IF result = "ok" /\ power = "on" THEN "stopping" ELSE power
    /\ refused' = (refused \/ result = "err")

(* payg_system_poweroff() *)
TimerFires(cause) ==
  /\ power # "off" /\ Looping /\ timers[cause] = 0
  /\ timers' = [timers EXCEPT ![cause] = NoTimer]
  /\ timeoutId' = (timeoutId /\ ~ClearsTimeoutId(cause))
  /\ SystemPowerOff
  /\ UNCHANGED <<pc, exitStatus, bootVars, provider, unpinged, nvram, promised, misread>>

(* The end of main(): it returns, or raises the signal again. *)
LeavesLoop ==
  /\ power # "off" /\ pc = "exiting" /\ ~timeoutId
  /\ Ends(exitStatus)
  /\ UNCHANGED <<power, bootVars, unpinged, nvram, observed>>

Ping ==
  /\ power # "off" /\ Looping /\ unpinged \notin {NoTimer, 0}
  /\ unpinged' = 0
  /\ UNCHANGED <<power, pc, exitStatus, bootVars, provider, timers, timeoutId, nvram, observed>>

Passed(minutes) == IF minutes \in {NoTimer, 0} THEN minutes ELSE minutes - 1

(* A main loop that runs pings the watchdog in time. *)
Tick ==
  /\ power # "off"
  /\ Looping /\ unpinged # NoTimer => unpinged + 1 < WATCHDOG_TIMEOUT
  /\ unpinged # NoTimer => unpinged < WATCHDOG_TIMEOUT
  /\ timers' = [c \in Causes |-> Passed(timers[c])]
  /\ unpinged' = IF unpinged = NoTimer THEN NoTimer ELSE unpinged + 1
  /\ UNCHANGED <<power, pc, exitStatus, bootVars, provider, timeoutId, nvram, observed>>

(* The process is killed or crashes.  A signal that asks it to stop before *)
(* the service handles it is no failure once systemd was notified.         *)
Crash ==
  /\ power # "off" /\ pc # "exited"
  /\ Ends("killed") \/ (pc # "secureInit" /\ Ends("signal"))
  /\ UNCHANGED <<power, bootVars, unpinged, nvram, observed>>

(* A bug: a failure of the unit is ignored. *)
NoFailureAction == FALSE

(* FailureAction=poweroff of the unit of the initramfs. *)
FailureAction == ~legacy /\ exitStatus \in {"failure", "killed"} /\ pc = "exited"

PowersDown ==
  \/ power = "stopping"
  \/ power = "on" /\ FailureAction
  \/ power = "on" /\ unpinged = WATCHDOG_TIMEOUT

PowerDown ==
  /\ PowersDown
  /\ power' = "off"
  /\ pc' = "exited"
  /\ UNCHANGED <<exitStatus, bootVars, provider, timers, timeoutId, unpinged, nvram, observed>>

Service ==
  \/ ServiceStartup
  \/ ServiceNotNeeded
  \/ Unlocked
  \/ \E error \in ServiceErrors : ServiceFailed(error)

Next ==
  \/ Start
  \/ SecureInit
  \/ BusConnected
  \/ Service
  \/ ServiceEnded
  \/ \E cause \in Causes : TimerFires(cause)
  \/ LeavesLoop
  \/ Ping
  \/ Tick
  \/ Crash
  \/ PowerDown

Spec == Init /\ [][Next]_vars

(* Time passes, the process runs, a main loop that runs dispatches its     *)
(* sources, and what cuts the power does so in the end.  Neither the bus   *)
(* nor an end of the service is certain.                                   *)
Fairness ==
  /\ WF_vars(Tick)
  /\ WF_vars(SecureInit)
  /\ WF_vars(ServiceEnded)
  /\ \A cause \in Causes : WF_vars(TimerFires(cause))
  /\ WF_vars(LeavesLoop)
  /\ WF_vars(Ping)
  /\ WF_vars(PowerDown)

FairSpec == Spec /\ Fairness
-----------------------------------------------------------------------------
TypeOK ==
  /\ power \in {"on", "stopping", "off"}
  /\ pc \in {"secureInit", "waitBus", "service", "serviceEnded", "exiting",
             "pinging", "exited"}
  /\ exitStatus \in {"none", "success", "failure", "signal", "killed"}
  /\ legacy \in BOOLEAN /\ enforcing \in BOOLEAN
  /\ efiOpen \in BOOLEAN /\ activeEfivar \in BOOLEAN
  /\ provider \in {"none", "external", "manager"}
  /\ timers \in [Causes -> 0 .. TIMEOUT_POWEROFF_ON_ERROR \cup {NoTimer}]
  /\ timeoutId \in BOOLEAN
  /\ unpinged \in 0 .. WATCHDOG_TIMEOUT \cup {NoTimer}
  /\ active \in BOOLEAN
  /\ level \in Nat
  /\ promised \subseteq Causes
  /\ refused \in BOOLEAN
  /\ misread \in BOOLEAN

(* Outside of the backward compatibility mode the insecure EpgManager is   *)
(* only ever used after one particular failure: main() has found           *)
(* EOSPAYG_active, and the service, which looks again, has not.            *)
InsecureOnlyAfterMisread ==
  power # "off" /\ provider = "manager" => legacy \/ (enforcing /\ misread)

(* "It would not be safe to fall back to the unsecure EpgManager"          *)
(* (service.c:409-413): it is done nevertheless when the second of the two *)
(* reads fails, since the error looks like a variable that is not set.     *)
NoInsecureProvider == power # "off" /\ provider = "manager" => legacy

(* The level stored in the NVRAM never goes backwards, whichever daemons   *)
(* are booted and whichever writes fail.                                   *)
SecurityLevelNeverFalls == [][level' >= level]_vars

(* An enforced boot does not go on without the daemon, however it ended    *)
(* and whatever systemctl does: the computer goes off.                     *)
NoBootWithoutDaemon ==
  enforcing /\ ~legacy /\ pc = "exited" /\ power # "off" ~> power = "off"

(* In an enforced boot a power-off that was announced happens, although the *)
(* bus, a crash, a signal or the end of the service come in between, as    *)
(* long as systemctl works.                                                *)
EnforcedPowerOff ==
  enforcing /\ ~legacy /\ promised # {} /\ power # "off" ~> power = "off" \/ refused

(* "shutting down in 20 minutes": a power-off that was announced happens,  *)
(* also when the bus, a crash or the end of the service come in between.   *)
PromisedPowerOff == promised # {} /\ power # "off" ~> power = "off"
=============================================================================
