---------------------------- MODULE PaygdProofs ----------------------------
(***************************************************************************)
(* eos-paygd, boot after boot, for any timeouts and any levels of the      *)
(* daemons: the security level never falls, and outside of the backward    *)
(* compatibility mode the insecure provider is only used when the service  *)
(* could not see that EOSPAYG_active is set.                               *)
(***************************************************************************)
EXTENDS Paygd, TLAPS

(* An enforced boot from the initramfs has found EOSPAYG_active; the       *)
(* service, which only an enforced boot runs, has found it too or has      *)
(* misread it.                                                             *)
ServiceIsEnforced ==
  /\ pc = "secureInit" /\ enforcing /\ ~legacy => efiOpen /\ active
  /\ pc \in {"waitBus", "service"} /\ enforcing /\ ~legacy => activeEfivar \/ misread
  /\ pc = "service" /\ ~legacy => enforcing

ProviderInv ==
  /\ TypeOK
  /\ ServiceIsEnforced
  /\ InsecureOnlyAfterMisread
-----------------------------------------------------------------------------
LEMMA InitProviderInv == Init => ProviderInv
<1> SUFFICES ASSUME Init
             PROVE  ProviderInv
  OBVIOUS
<1>1. level \in Nat /\ NoTimers \in [Causes -> 0 .. TIMEOUT_POWEROFF_ON_ERROR \cup {NoTimer}]
  BY PaygdAssumption DEF Init, NoTimers
<1> QED BY <1>1 DEF Init, ProviderInv, TypeOK, ServiceIsEnforced, InsecureOnlyAfterMisread

LEMMA NoTimersType == NoTimers \in [Causes -> 0 .. TIMEOUT_POWEROFF_ON_ERROR \cup {NoTimer}]
BY DEF NoTimers

LEMMA StartInv ==
  ASSUME ProviderInv, Start
  PROVE  ProviderInv' /\ level' >= level
<1>1. level \in Nat /\ active \in BOOLEAN /\ refused \in BOOLEAN
  BY DEF ProviderInv, TypeOK
<1>2. /\ power' = "on" /\ pc' = "secureInit" /\ exitStatus' = "none" /\ provider' = "none"
      /\ timeoutId' = FALSE /\ unpinged' = NoTimer /\ refused' = FALSE /\ active' = active
      /\ activeEfivar' = FALSE /\ misread' = FALSE
  BY DEF Start
<1>3. ASSUME NEW efi \in EfiResults, NEW seen \in ExistsResults, NEW secure \in BOOLEAN,
             NEW readable \in BOOLEAN, NEW rtc \in RtcResults, NEW daemonLevel \in DaemonLevels,
             StartInitramfs(efi, seen, secure, readable, rtc, daemonLevel)
      PROVE  ProviderInv' /\ level' >= level
  <2>1. /\ legacy' = FALSE /\ efiOpen' = (efi = "ok")
        /\ enforcing' = Enforces(ReadsActive(efi = "ok", seen), secure)
    BY <1>3 DEF StartInitramfs
  <2>2. /\ enforcing' \in BOOLEAN /\ efiOpen' \in BOOLEAN
        /\ enforcing' => efiOpen' /\ active
    BY <1>1, <2>1, Zenon DEF Enforces, ReadsActive
  <2>3. daemonLevel \in Nat
    BY PaygdAssumption
  <2>4. level' \in {level, LevelAfter(daemonLevel)}
    BY <1>3 DEF StartInitramfs
  <2>5. level' \in Nat /\ level' >= level
    BY <1>1, <2>3, <2>4 DEF LevelAfter
  <2>6. promised' \subseteq Causes
    BY <1>3 DEF StartInitramfs, Causes
  <2>7. timers' = CheckTimers(promised')
    BY <1>3 DEF StartInitramfs
  <2>8. timers' \in [Causes -> 0 .. TIMEOUT_POWEROFF_ON_ERROR \cup {NoTimer}]
    BY <2>7, PaygdAssumption DEF CheckTimers
  <2> QED BY <1>1, <1>2, <2>1, <2>2, <2>5, <2>6, <2>8
          DEF ProviderInv, TypeOK, ServiceIsEnforced, InsecureOnlyAfterMisread
<1>4. ASSUME StartLegacy
      PROVE  ProviderInv' /\ level' >= level
  <2>1. timers' \in [Causes -> 0 .. TIMEOUT_POWEROFF_ON_ERROR \cup {NoTimer}]
    BY <1>4, NoTimersType DEF StartLegacy
  <2>2. /\ legacy' = TRUE /\ enforcing' = TRUE /\ efiOpen' = FALSE
        /\ promised' = {} /\ level' = level
    BY <1>4 DEF StartLegacy
  <2>3. /\ legacy' \in BOOLEAN /\ enforcing' \in BOOLEAN /\ efiOpen' \in BOOLEAN
        /\ promised' \subseteq Causes /\ legacy'
    BY <2>2
  <2>4. level >= level
    BY <1>1
  <2>5. level' \in Nat /\ level' >= level
    BY <1>1, <2>2, <2>4
  <2> QED BY <1>1, <1>2, <2>1, <2>3, <2>5
          DEF ProviderInv, TypeOK, ServiceIsEnforced, InsecureOnlyAfterMisread
<1>5. \/ \E efi \in EfiResults, seen \in ExistsResults, secure \in BOOLEAN,
           readable \in BOOLEAN, rtc \in RtcResults, daemonLevel \in DaemonLevels :
          StartInitramfs(efi, seen, secure, readable, rtc, daemonLevel)
      \/ StartLegacy
  BY Zenon DEF Start
<1>6. CASE \E efi \in EfiResults, seen \in ExistsResults, secure \in BOOLEAN,
             readable \in BOOLEAN, rtc \in RtcResults, daemonLevel \in DaemonLevels :
            StartInitramfs(efi, seen, secure, readable, rtc, daemonLevel)
  BY <1>3, <1>6, Zenon
<1> QED BY <1>4, <1>5, <1>6, Zenon

(* The end of the process takes its timers and its provider with it. *)
LEMMA ProcessEnds ==
  ASSUME ProviderInv, NEW status \in {"none", "success", "failure", "signal", "killed"},
         Ends(status), UNCHANGED <<power, bootVars, unpinged, nvram, observed>>
  PROVE  ProviderInv' /\ level' = level
<1>1. pc' = "exited" /\ exitStatus' = status /\ provider' = "none" /\ timeoutId' = FALSE
      /\ timers' = NoTimers
  BY DEF Ends
<1>2. UNCHANGED <<power, legacy, enforcing, efiOpen, activeEfivar, unpinged, active, level,
                  promised, refused, misread>>
  BY DEF bootVars, nvram, observed
<1>3. TypeOK' /\ level' = level
  BY <1>1, <1>2, NoTimersType DEF ProviderInv, TypeOK
<1>4. ServiceIsEnforced' /\ InsecureOnlyAfterMisread'
  BY <1>1 DEF ServiceIsEnforced, InsecureOnlyAfterMisread
<1> QED BY <1>3, <1>4 DEF ProviderInv

(* All other steps keep what was read at the start of the boot. *)
LEMMA BootInv ==
  ASSUME ProviderInv, [Next]_vars, ~Start
  PROVE  ProviderInv' /\ level' = level
<1> USE PaygdAssumption
<1> USE DEF ProviderInv, TypeOK, ServiceIsEnforced, InsecureOnlyAfterMisread, bootVars, nvram, observed
<1>0. /\ level \in Nat
      /\ TIMEOUT_POWEROFF_ON_ERROR \in 0 .. TIMEOUT_POWEROFF_ON_ERROR
      /\ "bus" \in Causes /\ "exit" \in Causes
  BY DEF Causes
<1>1. CASE SecureInit
  <2>0. /\ efiOpen \in BOOLEAN /\ active \in BOOLEAN /\ legacy \in BOOLEAN
        /\ activeEfivar' \in BOOLEAN
        /\ misread' = (efiOpen /\ active /\ ~activeEfivar')
    BY <1>1, Zenon DEF SecureInit, ReadsActive
  <2>5. misread' \in BOOLEAN /\ (efiOpen /\ active => activeEfivar' \/ misread')
    BY <2>0, Zenon
  <2>1. /\ pc = "secureInit" /\ power # "off"
        /\ UNCHANGED <<power, legacy, enforcing, efiOpen, active, level, promised, refused>>
        /\ pc' \in {"service", "waitBus", "exited"}
        /\ pc' = "service" => legacy
        /\ provider' \in {"none", "external"}
    BY <1>1 DEF SecureInit, Ends
  <2>2. /\ timers' \in [Causes -> 0 .. TIMEOUT_POWEROFF_ON_ERROR \cup {NoTimer}]
        /\ timeoutId' \in BOOLEAN
    <3>1. \/ UNCHANGED <<timers, timeoutId>>
          \/ /\ timers' = [timers EXCEPT !["bus"] = TIMEOUT_POWEROFF_ON_ERROR]
             /\ timeoutId' = TRUE
          \/ timers' = NoTimers /\ timeoutId' = FALSE
      BY <1>1 DEF SecureInit, Ends
    <3>2. CASE timers' = [timers EXCEPT !["bus"] = TIMEOUT_POWEROFF_ON_ERROR] /\ timeoutId' = TRUE
      BY <1>0, <3>2
    <3> QED BY <3>1, <3>2, NoTimersType
  <2>3. unpinged' \in 0 .. WATCHDOG_TIMEOUT \cup {NoTimer}
    BY <1>1 DEF SecureInit, Ends
  <2>4. exitStatus' \in {"none", "success", "failure", "signal", "killed"}
    BY <1>1 DEF SecureInit, Ends
  <2>6. /\ pc' \in {"secureInit", "waitBus", "service", "serviceEnded",
                    "exiting", "pinging", "exited"}
        /\ provider' \in {"none", "external", "manager"}
        /\ power' \in {"on", "stopping", "off"} /\ level' \in Nat /\ promised' \subseteq Causes
    BY <2>1
  <2>7. /\ legacy' \in BOOLEAN /\ enforcing' \in BOOLEAN /\ efiOpen' \in BOOLEAN
        /\ active' \in BOOLEAN /\ refused' \in BOOLEAN /\ level' = level
    BY <2>1
  <2>t. TypeOK' /\ level' = level
    BY <2>0, <2>2, <2>3, <2>4, <2>5, <2>6, <2>7, Zenon DEF TypeOK
  <2>s. ServiceIsEnforced'
    BY <2>1, <2>2, <2>3, <2>4, <2>5
  <2>p. InsecureOnlyAfterMisread'
    BY <2>1, <2>2, <2>3, <2>4, <2>5
  <2> QED BY <2>t, <2>s, <2>p
<1>2. CASE BusConnected
  <2>1. timers' \in [Causes -> 0 .. TIMEOUT_POWEROFF_ON_ERROR \cup {NoTimer}]
    BY <1>2 DEF BusConnected, TimersAfterWait
  <2>2. pc' \in {"service", "serviceEnded"} /\ timeoutId' \in BOOLEAN
    BY <1>2 DEF BusConnected
  <2>3. UNCHANGED <<power, exitStatus, bootVars, provider, unpinged, nvram, observed>>
    BY <1>2 DEF BusConnected
  <2>t. TypeOK' /\ level' = level
    BY <2>1, <2>2, <2>3
  <2>s. ServiceIsEnforced'
    BY <1>2, <2>1 DEF BusConnected
  <2>p. InsecureOnlyAfterMisread'
    BY <1>2, <2>1 DEF BusConnected
  <2> QED BY <2>t, <2>s, <2>p
<1>3. CASE ServiceStartup
  BY <1>3 DEF ServiceStartup
<1>4. CASE ServiceNotNeeded
  BY <1>4 DEF ServiceNotNeeded
<1>5. CASE Unlocked
  <2>1. active' \in BOOLEAN
    BY <1>5 DEF Unlocked
  <2>t. TypeOK' /\ level' = level
    BY <1>5, <2>1 DEF Unlocked
  <2>s. ServiceIsEnforced'
    BY <1>5, <2>1 DEF Unlocked
  <2>p. InsecureOnlyAfterMisread'
    BY <1>5, <2>1 DEF Unlocked
  <2> QED BY <2>t, <2>s, <2>p
<1>6. ASSUME NEW error \in ServiceErrors, ServiceFailed(error)
      PROVE  ProviderInv' /\ level' = level
  <2>1. timers' \in [Causes -> 0 .. TIMEOUT_POWEROFF_ON_ERROR \cup {NoTimer}]
    BY <1>0, <1>6 DEF ServiceFailed
  <2>2. promised' \subseteq Causes
    BY <1>0, <1>6 DEF ServiceFailed
  <2> QED BY <1>6, <2>1, <2>2 DEF ServiceFailed
<1>7. CASE ServiceEnded
  <2>1. /\ pc = "serviceEnded" /\ pc' \in {"pinging", "exited"}
        /\ provider' \in {provider, "none"}
        /\ exitStatus' \in {exitStatus, "success"}
        /\ timeoutId' \in BOOLEAN
    BY <1>7 DEF ServiceEnded, Ends
  <2>2. timers' \in {timers, NoTimers}
    BY <1>7 DEF ServiceEnded, Ends
  <2>3. UNCHANGED <<power, bootVars, unpinged, nvram, observed>>
    BY <1>7 DEF ServiceEnded
  <2>t. TypeOK' /\ level' = level
    BY <2>1, <2>2, <2>3, NoTimersType
  <2>s. ServiceIsEnforced'
    BY <2>1, <2>2, <2>3, NoTimersType
  <2>p. InsecureOnlyAfterMisread'
    BY <2>1, <2>2, <2>3, NoTimersType
  <2> QED BY <2>t, <2>s, <2>p
<1>8. ASSUME NEW cause \in Causes, TimerFires(cause)
      PROVE  ProviderInv' /\ level' = level
  <2>1. timers' \in [Causes -> 0 .. TIMEOUT_POWEROFF_ON_ERROR \cup {NoTimer}]
    BY <1>8 DEF TimerFires
  <2>2. timeoutId' \in BOOLEAN
    BY <1>8, Zenon DEF TimerFires
  <2>3. /\ power' \in {"on", "stopping", "off"} /\ (power' # "off" <=> power # "off")
        /\ refused' \in BOOLEAN
    BY <1>8 DEF TimerFires, SystemPowerOff
  <2> QED BY <1>8, <2>1, <2>2, <2>3 DEF TimerFires
<1>9. CASE LeavesLoop
  <2>1. exitStatus \in {"none", "success", "failure", "signal", "killed"}
    OBVIOUS
  <2> QED BY <1>9, <2>1, ProcessEnds DEF LeavesLoop
<1>10. CASE Ping
  BY <1>10 DEF Ping
<1>11. CASE Tick
  <2>1. ASSUME NEW minutes \in 0 .. TIMEOUT_POWEROFF_ON_ERROR \cup {NoTimer}
        PROVE  Passed(minutes) \in 0 .. TIMEOUT_POWEROFF_ON_ERROR \cup {NoTimer}
    BY DEF Passed
  <2>2. timers' \in [Causes -> 0 .. TIMEOUT_POWEROFF_ON_ERROR \cup {NoTimer}]
    BY <1>11, <2>1 DEF Tick
  <2>3. unpinged' \in 0 .. WATCHDOG_TIMEOUT \cup {NoTimer}
    BY <1>11 DEF Tick
  <2> QED BY <1>11, <2>2, <2>3 DEF Tick
<1>12. CASE Crash
  <2>1. \E status \in {"killed", "signal"} : Ends(status)
    BY <1>12 DEF Crash
  <2> QED BY <1>12, <2>1, ProcessEnds DEF Crash
<1>13. CASE PowerDown
  BY <1>13 DEF PowerDown
<1>14. CASE UNCHANGED vars
  BY <1>14 DEF vars
<1> QED BY <1>1, <1>2, <1>3, <1>4, <1>5, <1>6, <1>7, <1>8, <1>9, <1>10, <1>11, <1>12, <1>13, <1>14
        DEF Next, Service

LEMMA NextProviderInv == ProviderInv /\ [Next]_vars => ProviderInv' /\ level' >= level
<1> SUFFICES ASSUME ProviderInv, [Next]_vars
             PROVE  ProviderInv' /\ level' >= level
  OBVIOUS
<1>1. level \in Nat
  BY DEF ProviderInv, TypeOK
<1> QED BY <1>1, StartInv, BootInv

THEOREM PaygdTypeCorrect == Spec => []TypeOK
<1>1. ProviderInv => TypeOK
  BY DEF ProviderInv
<1> QED BY <1>1, InitProviderInv, NextProviderInv, PTL DEF Spec

(* Outside of the backward compatibility mode the insecure manager is only *)
(* used when a read of EOSPAYG_active has failed in the service of a boot  *)
(* that main() has found active.                                           *)
THEOREM ManagerOnlyAfterMisread == Spec => []InsecureOnlyAfterMisread
<1>1. ProviderInv => InsecureOnlyAfterMisread
  BY DEF ProviderInv
<1> QED BY <1>1, InitProviderInv, NextProviderInv, PTL DEF Spec

(* No boot, whichever daemon runs and whatever fails, lowers the level.    *)
THEOREM LevelIsMonotonic == Spec => SecurityLevelNeverFalls
<1>1. ProviderInv /\ [Next]_vars => [level' >= level]_vars
  BY NextProviderInv
<1>2. Spec => [][level' >= level]_vars
  BY <1>1, InitProviderInv, NextProviderInv, PTL DEF Spec
<1> QED BY <1>2 DEF SecurityLevelNeverFalls
=============================================================================
