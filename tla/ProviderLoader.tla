--------------------------- MODULE ProviderLoader ---------------------------
(***************************************************************************)
(* The loader of EpgProvider plugins (libeos-payg/provider-loader.c):      *)
(* epg_provider_loader_get_first_enabled_async() initialises all plugins   *)
(* in parallel, keeps the first one that is enabled, and shuts the others  *)
(* down, in parallel again, before it returns.                             *)
(***************************************************************************)
EXTENDS MultiTask, Sequences, FiniteSets

CONSTANTS
  Providers,       \* the plugins in the module directory
  NoProvider,
  InitResults,     \* subset of {"ok", "err"}: how the init of a plugin may end
  ShutdownResults  \* subset of {"ok", "err"}: how its shutdown may end

ASSUME ProviderLoaderAssumption ==
  /\ IsFiniteSet(Providers)
  /\ NoProvider \notin Providers
  /\ InitResults \subseteq {"ok", "err"}
  /\ ShutdownResults \subseteq {"ok", "err"}

VARIABLES
  loader,          \* where the loader is
  instances,       \* [Providers -> the state of the object made from the plugin]
  enabled,         \* those whose property "enabled" is set
  loaded,          \* the array of initialised providers
  loadTask,        \* the task of epg_provider_loader_load_async()
  shutdownTask,    \* the task of shutdown_providers_async()
  chosen,          \* the task data: the provider to return
  result,          \* what get_first_enabled_finish() returned
  cancelled,       \* the caller's GCancellable
  passedOver       \* observed: the enabled providers that were not chosen

loaderVars == <<loader, instances, enabled, loaded, loadTask, shutdownTask,
                chosen, result, cancelled, passedOver>>

InstancesIn(state) == {p \in Providers : instances[p] = state}

LoaderInit ==
  /\ loader = "idle"
  /\ instances = [p \in Providers |-> "absent"]
  /\ enabled = {}
  /\ loaded = <<>>
  /\ loadTask = Attach(0)
  /\ shutdownTask = Attach(0)
  /\ chosen = NoProvider
  /\ result = NoProvider
  /\ cancelled = FALSE
  /\ passedOver = {}

(* A bug: the caller's own sub-operation is returned but not counted. *)
NewLoadTaskOfPlugins(count) == ReturnBoolean(Attach(count))

(* The task counts each plugin that can be initialised and the caller.     *)
NewLoadTask(count) == ReturnBoolean(Attach(count + 1))

(* epg_provider_loader_load_async(): plugins that cannot be loaded, or     *)
(* that are no provider, are left out.                                     *)
LoadAsync(plugins) ==
  /\ loader' = "loading"
  /\ instances' = [p \in Providers |-> IF p \in plugins THEN "initing" ELSE "absent"]
  /\ enabled' = {}
  /\ loaded' = <<>>
  /\ loadTask' = NewLoadTask(Cardinality(plugins))
  /\ chosen' = NoProvider
  /\ result' = NoProvider
  /\ passedOver' = {}
  /\ UNCHANGED <<shutdownTask, cancelled>>

(* A bug: a plugin that fails fails the load. *)
MaybeReturnOrFail(initResult) ==
  IF initResult = "ok" THEN ReturnBoolean(loadTask) ELSE ReturnError(loadTask)

(* maybe_return(): the load never fails. *)
MaybeReturn(initResult) == ReturnBoolean(loadTask)

(* provider_init_cb() *)
ProviderInitCb(p, initResult, isEnabled) ==
  /\ instances[p] = "initing"
  /\ loadTask' = MaybeReturn(initResult)
  /\ IF initResult = "ok"
     THEN /\ instances' = [instances EXCEPT ![p] = "running"]
          /\ loaded' = Append(loaded, p)
          /\ enabled' = IF isEnabled THEN enabled \cup {p} ELSE enabled
     ELSE /\ instances' = [instances EXCEPT ![p] = "absent"]
          /\ UNCHANGED <<loaded, enabled>>
  /\ UNCHANGED <<loader, shutdownTask, chosen, result, cancelled, passedOver>>

(* notify::enabled of a plugin. *)
EnabledChanges(p) ==
  /\ instances[p] = "running"
  /\ enabled' = IF p \in enabled THEN enabled \ {p} ELSE enabled \cup {p}
  /\ UNCHANGED <<loader, instances, loaded, loadTask, shutdownTask, chosen, result,
                 cancelled, passedOver>>

(* The providers of a load that is cancelled, or fails, are released.      *)
Dropped(providers) ==
  [p \in Providers |-> IF p \in providers THEN "dropped" ELSE instances[p]]

LoadFails ==
  /\ loader' = "returned"
  /\ instances' = Dropped(InstancesIn("running"))
  /\ result' = NoProvider
  /\ loaded' = <<>>
  /\ UNCHANGED <<enabled, loadTask, shutdownTask, chosen, cancelled, passedOver>>

EnabledIndices == {i \in 1 .. Len(loaded) : loaded[i] \in enabled}

FirstEnabled ==
  IF EnabledIndices = {} THEN NoProvider
  ELSE loaded[CHOOSE i \in EnabledIndices : \A j \in EnabledIndices : i <= j]

OthersLoaded(keep) == {loaded[i] : i \in 1 .. Len(loaded)} \ {keep}

(* get_first_enabled_load_cb() and shutdown_providers_async() *)
GetFirstEnabledLoadCb ==
  /\ loader = "loading" /\ HasReturned(loadTask)
  /\ IF cancelled \/ loadTask.hadError THEN LoadFails
     ELSE LET others == OthersLoaded(FirstEnabled)
          IN  /\ loader' = "stopping"
              /\ chosen' = FirstEnabled
              /\ passedOver' = enabled \ {FirstEnabled}
              /\ instances' = [p \in Providers |->
                                 IF p \in others THEN "stopping" ELSE instances[p]]
              /\ shutdownTask' = ReturnBoolean(Attach(Cardinality(others) + 1))
              /\ UNCHANGED <<enabled, loaded, loadTask, result, cancelled>>

(* A bug: a provider that cannot be shut down fails the task. *)
StoppedOrFailed(shutdownResult) ==
  IF shutdownResult = "ok" THEN ReturnBoolean(shutdownTask) ELSE ReturnError(shutdownTask)

(* An error of one provider is logged. *)
StoppedOne(shutdownResult) == ReturnBoolean(shutdownTask)

(* shutdown_one_cb() *)
ShutdownOneCb(p, shutdownResult) ==
  /\ loader # "idle"
  /\ instances[p] = "stopping"
  /\ instances' = [instances EXCEPT ![p] = "stopped"]
  /\ enabled' = enabled \ {p}
  /\ shutdownTask' = StoppedOne(shutdownResult)
  /\ UNCHANGED <<loader, loaded, loadTask, chosen, result, cancelled, passedOver>>

(* get_first_enabled_shutdown_cb().  The array, the tasks and the loader    *)
(* are released.                                                           *)
GetFirstEnabledShutdownCb ==
  /\ loader = "stopping" /\ HasReturned(shutdownTask)
  /\ loader' = "returned"
  /\ loaded' = <<>>
  /\ chosen' = NoProvider
  /\ IF cancelled
     THEN /\ result' = NoProvider
          /\ instances' = Dropped({chosen})
     ELSE /\ result' = chosen
          /\ UNCHANGED instances
  /\ UNCHANGED <<enabled, loadTask, shutdownTask, cancelled, passedOver>>

LoaderCallbacks ==
  \/ \E p \in Providers, initResult \in InitResults, isEnabled \in BOOLEAN :
       ProviderInitCb(p, initResult, isEnabled)
  \/ GetFirstEnabledLoadCb
  \/ \E p \in Providers, shutdownResult \in ShutdownResults :
       ShutdownOneCb(p, shutdownResult)
  \/ GetFirstEnabledShutdownCb
-----------------------------------------------------------------------------
LoaderTypeOK ==
  /\ loader \in {"idle", "loading", "stopping", "returned"}
  /\ instances \in [Providers -> {"absent", "initing", "running", "stopping", "saving",
                                  "stopped", "dropped"}]
  /\ enabled \subseteq Providers
  /\ loaded \in Seq(Providers)
  /\ loadTask \in MultiTasks /\ shutdownTask \in MultiTasks
  /\ chosen \in Providers \cup {NoProvider}
  /\ result \in Providers \cup {NoProvider}
  /\ cancelled \in BOOLEAN
  /\ passedOver \subseteq Providers
=============================================================================
