----------------------------- MODULE EpgService -----------------------------
(***************************************************************************)
(* EpgService (libeos-payg/service.c): the choice of the provider, before  *)
(* the root pivot and, if none was found, again at the startup; the        *)
(* fallback to EpgManager; the detection of clock jumps, which starts with *)
(* the provider; and the end of the service.                               *)
(*                                                                         *)
(* It composes the loader of plugins with the detection of clock jumps:    *)
(* both run in one main loop, which nothing interrupts while a callback    *)
(* reads the clocks.                                                       *)
(***************************************************************************)
EXTENDS ProviderLoader, ClockJump

CONSTANTS
  EpgManager,       \* the provider built in
  ConfigResults,    \* subset of {"ok", "err"}: whether the configuration can be read
  RegisterResults   \* subset of {"ok", "err"}: whether the D-Bus object can be registered

ASSUME EpgServiceAssumption ==
  /\ EpgManager \notin Providers \cup {NoProvider}
  /\ ConfigResults \subseteq {"ok", "err"}
  /\ RegisterResults \subseteq {"ok", "err"}

VARIABLES
  phase,            \* where main() and the service are
  provider,
  activeEfivar,     \* eospayg_active_efivar
  managerEnabled,   \* the property "enabled" of the EpgManager
  holding,
  holds             \* observed: gss_service_hold() less gss_service_release()

serviceVars == <<phase, provider, activeEfivar, managerEnabled, holding, holds>>
allVars == <<serviceVars, loaderVars, jumpVars>>

ServiceInit ==
  /\ LoaderInit
  /\ InitClocks
  /\ phase = "secureInit"
  /\ provider = NoProvider
  /\ activeEfivar \in BOOLEAN
  /\ managerEnabled = FALSE
  /\ holding = FALSE
  /\ holds = 0

IsEnabled(p) == IF p = EpgManager THEN managerEnabled ELSE p \in enabled

Loading == phase \in {"secureLoading", "startupLoading"}
-----------------------------------------------------------------------------
(* epg_service_secure_init_sync(): no cancellable is given.                *)
SecureInit ==
  /\ phase = "secureInit"
  /\ phase' = "secureLoading"
  /\ \E plugins \in SUBSET Providers : LoadAsync(plugins)
  /\ UNCHANGED <<provider, activeEfivar, managerEnabled, holding, holds, jumpVars>>

(* epg_service_set_provider() *)
SetProvider(p) ==
  /\ provider' = p
  /\ StartDetection

(* An error of the load is logged. *)
SecureInitReturns ==
  /\ phase = "secureLoading" /\ loader = "returned"
  /\ phase' = "secured"
  /\ IF result = NoProvider
     THEN UNCHANGED <<provider, jumpVars>>
     ELSE SetProvider(result)
  /\ UNCHANGED <<activeEfivar, managerEnabled, holding, holds, loaderVars>>

(* epg_service_startup_async() *)
StartupAsync ==
  /\ phase = "secured" /\ AtLoop
  /\ IF provider # NoProvider
     THEN /\ phase' = "completing"
          /\ UNCHANGED loaderVars
     ELSE /\ phase' = "startupLoading"
          /\ \E plugins \in SUBSET Providers : LoadAsync(plugins)
  /\ UNCHANGED <<provider, activeEfivar, managerEnabled, holding, holds, jumpVars>>

(* It would not be safe to fall back to the unsecure EpgManager where the  *)
(* EFI variable says that PAYG is active.                                  *)
MayFallBack == ~activeEfivar

(* provider_get_first_enabled_cb() *)
ProviderGetFirstEnabledCb ==
  /\ phase = "startupLoading" /\ loader = "returned" /\ AtLoop
  /\ \/ /\ result # NoProvider
        /\ SetProvider(result)
        /\ phase' = "completing"
     \/ /\ result = NoProvider
        /\ \/ ~MayFallBack /\ phase' = "failed"
           \/ MayFallBack /\ "err" \in ConfigResults /\ phase' = "failed"
           \/ MayFallBack /\ "ok" \in ConfigResults /\ phase' = "managerInit"
        /\ UNCHANGED <<provider, jumpVars>>
  /\ UNCHANGED <<activeEfivar, managerEnabled, holding, holds, loaderVars>>

(* manager_new_cb(): a task that was cancelled has failed. *)
ManagerNewCb ==
  /\ phase = "managerInit" /\ AtLoop
  /\ \/ /\ phase' = "failed"
        /\ UNCHANGED <<provider, managerEnabled, jumpVars>>
     \/ /\ ~cancelled
        /\ phase' = "notNeeded"
        /\ UNCHANGED <<provider, managerEnabled, jumpVars>>
     \/ /\ ~cancelled
        /\ managerEnabled' = TRUE
        /\ SetProvider(EpgManager)
        /\ phase' = "completing"
  /\ UNCHANGED <<activeEfivar, holding, holds, loaderVars>>

(* A bug: each notification takes a hold. *)
HoldsPerNotification(isEnabled) ==
  IF isEnabled THEN holds + 1 ELSE IF holding THEN holds - 1 ELSE holds

HoldsAfter(isEnabled) ==
  IF isEnabled /\ ~holding THEN holds + 1
  ELSE IF ~isEnabled /\ holding THEN holds - 1
  ELSE holds

(* provider_notify_enabled_cb() *)
NotifyEnabledCb(isEnabled) ==
  /\ holds' = HoldsAfter(isEnabled)
  /\ holding' = isEnabled

(* epg_service_startup_complete(), in the same call as set_provider().     *)
(* When the registration fails the signals are connected all the same.     *)
StartupComplete ==
  /\ phase = "completing" /\ AtLoop
  /\ \E registered \in RegisterResults :
       phase' = IF registered = "ok" /\ ~cancelled THEN "running" ELSE "failed"
  /\ NotifyEnabledCb(IsEnabled(provider))
  /\ UNCHANGED <<provider, activeEfivar, managerEnabled, loaderVars, jumpVars>>

(* The signal handlers are connected until the service is disposed of.     *)
Connected == provider # NoProvider /\ phase \in {"running", "failed", "stopping"}

(* The provider is enabled or disabled, or notifies without a change.      *)
EnabledNotified ==
  /\ AtLoop
  /\ phase # "completing"
  /\ \/ \E p \in Providers :
          /\ EnabledChanges(p)
          /\ IF Connected /\ p = provider
             THEN NotifyEnabledCb(p \in enabled')
             ELSE UNCHANGED <<holding, holds>>
     \/ /\ Connected
        /\ NotifyEnabledCb(IsEnabled(provider))
        /\ UNCHANGED loaderVars
  /\ UNCHANGED <<phase, provider, activeEfivar, managerEnabled, jumpVars>>

(* GssService cancels the startup, for instance at a signal. *)
CancelStartup ==
  /\ phase \in {"startupLoading", "managerInit"} /\ AtLoop
  /\ cancelled' = TRUE
  /\ UNCHANGED <<loader, instances, enabled, loaded, loadTask, shutdownTask, chosen, result,
                 passedOver, serviceVars, jumpVars>>

LoaderStep ==
  /\ AtLoop
  /\ LoaderCallbacks
  /\ UNCHANGED <<serviceVars, jumpVars>>

(* epg_service_shutdown(): the main loop runs on until the provider's      *)
(* state is saved.  Its error is logged.                                   *)
Shutdown ==
  /\ phase \in {"running", "failed", "notNeeded"} /\ AtLoop
  /\ IF provider \in Providers
     THEN instances' = [instances EXCEPT ![provider] = "saving"]
     ELSE UNCHANGED instances
  /\ phase' = IF provider = NoProvider THEN "stopped" ELSE "stopping"
  /\ UNCHANGED <<loader, enabled, loaded, loadTask, shutdownTask, chosen, result, cancelled,
                 passedOver, provider, activeEfivar, managerEnabled, holding, holds, jumpVars>>

ShutdownReturns ==
  /\ phase = "stopping" /\ AtLoop
  /\ phase' = "stopped"
  /\ IF provider \in Providers
     THEN instances' = [instances EXCEPT ![provider] = "stopped"]
     ELSE UNCHANGED instances
  /\ UNCHANGED <<loader, enabled, loaded, loadTask, shutdownTask, chosen, result, cancelled,
                 passedOver, provider, activeEfivar, managerEnabled, holding, holds, jumpVars>>

(* The clocks, and what reads them while main() is in a main loop. *)
InMain(action) == phase # "stopped" /\ action /\ UNCHANGED <<serviceVars, loaderVars>>

SourceStep(action) == phase # "completing" /\ InMain(action)

ClockStep == InMain(Clocks) \/ InMain(CallbackSteps) \/ SourceStep(Sources)

ServiceCallbacks ==
  \/ SecureInit
  \/ SecureInitReturns
  \/ StartupAsync
  \/ ProviderGetFirstEnabledCb
  \/ ManagerNewCb
  \/ StartupComplete
  \/ ShutdownReturns

ServiceNext ==
  \/ ServiceCallbacks
  \/ EnabledNotified
  \/ CancelStartup
  \/ LoaderStep
  \/ Shutdown
  \/ ClockStep

ServiceSpec == ServiceInit /\ [][ServiceNext]_allVars

(* Each plugin ends its initialisation and its shutdown, the manager is    *)
(* loaded, and the main loop dispatches what is ready, although the timers *)
(* of the clocks come in between.  Nobody need ever stop the service.      *)
ServiceFairness ==
  /\ SF_allVars(ServiceCallbacks)
  /\ SF_allVars(LoaderStep)
  /\ WF_allVars(InMain(CallbackSteps))
  /\ WF_allVars(SourceStep(Dispatch))
  /\ WF_allVars(SourceStep(HwclockUpdate))
  /\ WF_allVars(SourceStep(SourceHwclockUpdate))

ServiceFairSpec == ServiceSpec /\ ServiceFairness
-----------------------------------------------------------------------------
ServiceTypeOK ==
  /\ LoaderTypeOK
  /\ JumpTypeOK
  /\ phase \in {"secureInit", "secureLoading", "secured", "startupLoading", "managerInit",
                "completing", "running", "failed", "notNeeded", "stopping", "stopped"}
  /\ provider \in Providers \cup {EpgManager, NoProvider}
  /\ activeEfivar \in BOOLEAN /\ managerEnabled \in BOOLEAN
  /\ holding \in BOOLEAN
  /\ holds \in 0 .. 1

(* The provider in use is not among those that the loader shuts down, and  *)
(* of all plugins that were initialised, at either load, only that one     *)
(* stays alive: each other has been shut down, or released by a load that  *)
(* was cancelled.                                                          *)
OneProviderRuns ==
  /\ provider \in Providers /\ phase \notin {"stopping", "stopped"} =>
       instances[provider] = "running"
  /\ ~Loading =>
       \A p \in Providers \ {provider} :
         instances[p] \in {"absent", "stopped"}
           \cup IF cancelled THEN {"dropped"} ELSE {}

(* The insecure EpgManager is the last resort: it is used when PAYG is not *)
(* known to be active and when each plugin has ended its initialisation    *)
(* and either failed or was found disabled, however the results of the     *)
(* others came in.                                                         *)
ManagerIsLastResort ==
  provider = EpgManager =>
    /\ ~activeEfivar
    /\ passedOver = {}
    /\ \A p \in Providers : instances[p] \in {"absent", "stopped"}

(* A startup ends, with the provider registered or with an error, whichever *)
(* plugins fail to start or to stop, and however many there are.           *)
StartupEnds == <>(phase \in {"running", "failed", "notNeeded", "stopping", "stopped"})
=============================================================================
