# A formal model of eos-payg

eos-payg enforces pay-as-you-go on a computer: `eos-paygd` keeps the credit that
was paid for, verifies the codes that extend it, and powers the computer off
when it has run out or when it can no longer be enforced. These TLA+ modules
model the daemon: how it keeps credit, saves it and loads it again, limits the
codes that may be tried, ends a computer's use, and fails.

Paths below are relative to `src/`; `manager.c` and its neighbours are in
`libeos-payg/`, `main.c` in `eos-paygd/`.

## 1. Inventory

All of the daemon runs in one thread with one GLib main loop. A handler, a
D-Bus method or a callback is never interrupted by another. What is concurrent:
GIO's thread pool, which carries out file operations; the kernel's clocks; the
bus, systemd and the watchdog; and *nested* main loops
(`epg_service_secure_init_sync()`, `epg_service_shutdown()`, the end of
`main()`), in which callbacks run while their caller is half way through.

| Component | State | Operations | Talks to | What makes it correct |
|---|---|---|---|---|
| **EpgManager** (`manager.c`) | expiry time (seconds of `CLOCK_BOOTTIME`), expiry timer, used codes, history of attempts, count of pending saves, parked shutdown; files clock-time, expiry-seconds, used-codes, expiry-time (deprecated), key, account-id | init (parallel loads, deletions, a save), add_code, clear_code, wallclock_time_changed, timer callback, save_state, shutdown | GIO (files), EpgClock (time, timer), Codes (verify), its EpgManagerService (signals) | credit only grows by unused codes and survives restarts; saves are counted; shutdown returns and has saved what no other save could overwrite; the end of credit is noticed |
| **Multi-operation tasks** (`multi-task.c`) | counter and error flag in a GTask | attach, increment, return boolean, pointer or error | EpgManager, ProviderLoader | returns once: with the first error, or TRUE after the last operation |
| **Rate limit** (`manager.c`) | queue of the last 10 attempts | check, push, clear, end time | add_code | at most 10 wrong codes are looked at in 30 minutes; the end time shown is that of the limit |
| **EpgProvider** (`provider.c`) | expiry time, enabled, signal `expired` | the interface of all backends | implemented by EpgManager and by plugins | what the service relies on of any provider |
| **EpgManagerService** (`manager-service.c`) | power-off timer ID | callbacks of `expired` and `notify::expiry-time`; D-Bus methods | provider, bus, `payg_system_poweroff()` | a computer without credit is powered off, one with credit is not |
| **EpgService** (`service.c`) | provider, reference values of two clocks | secure init before the root pivot, startup, clock jump callback, unlock, shutdown | ProviderLoader, provider, EFI, hwclock | the insecure manager is not used where PAYG is known to be active; jumps of the clock are charged |
| **eos-paygd** (`main.c`, `util.c`, the unit) | enforcing or not, power-off timers, watchdog, exit status; NVRAM variables active and securitylevel | start checks, wait for the bus and pivot, service, exit | EpgService, systemd, watchdog, EFI, hwclock | an enforced computer does not run without the daemon; the security level does not fall |
| **ProviderLoader** (`provider-loader.c`) | plugins, providers being initialised | load, first enabled provider | libpeas, providers | the enabled provider is kept, all others are shut down |
| **Clock sources** (`real-clock.c`, `boottime-source.c`, `clock-jump-source.c`) | a timerfd | create, dispatch | kernel | a timer of the clock that includes suspension; every jump is seen |
| **Hardware clock** (`hwclock.c`) | queued flag, whether the RTC is open | init check, queue update, update | RTC | the RTC follows the system clock |
| **EFI variables** (`efi.c`) | the NVRAM, or an array for tests; a file descriptor; whether the root was pivoted | init, pivot, read, write, overwrite, delete, exists, clear | efivarfs | the results of reads, writes and deletes are true; a failure leaves the old value; after the pivot no value is replaced |
| **Codes** (`libeos-payg-codes/codes.c`) | none | calculate, format, parse | add_code | exactly the codes that were issued are right, once |
| Clients and tools (`eos-payg-ctl`, `eos-payg-generate`, `eos-payg-csv`), provisioning, dracut, packaging, fake clock, error domains, translations | none shared | | | not modelled: one call, one print, or no behaviour |

Hard behaviours, each listed with its line under `hazards` in `PROJECT.json`:
saves that overlap; failures of one of several parallel operations; a shutdown
that meets a save; a load that starts saves and deletions of its own; crashes
between files; timers whose intervals do not match the time they wait for;
unsigned arithmetic near boot; `expired` emitted before anyone listens; stale
source IDs; promised power-offs lost with the main loop; and the process dying
anywhere.

## 2. Plan

Ordered by importance. Done:

1. `MultiTask`, `RateLimit`: operators the manager is built from.
2. `EpgManager`: the running manager with its saves and its shutdown; proofs.
3. `RateLimiter`: the rate limit for a long time.
4. `Provider`: what any provider promises; `EpgManager` shown, and proved, to implement it.
5. `EpgManagerLife`: loading, restarts, crashes around `EpgManager`; proofs of what
   a load counts, and of what restarts keep.
6. `ManagerService`: the service of any `Provider`; proofs.
7. `Paygd`: boots of the daemon; proofs of its invariants.
8. `Hwclock`, `ClockJump`: the detection of clock jumps with truncated seconds,
   and the hardware clock that follows; proofs.
9. `ProviderLoader`, and `EpgService` which composes it with `ClockJump`: the choice
   of the provider from both loads to the shutdown; proofs.
10. `Codes`, and `CodeEntry` which composes it with `RateLimiter`: strings as the user
    enters them; proofs for every radix, width, digest, limit and period.
11. `Nvram`, what is promised of EFI variables, and `Efi`, shown and proved to
    implement it.

Next:

12. `ClockJump` composed with `EpgManager`, so that the credit is charged what the
    truncated clocks say instead of exact jumps. `ErrorsDoNotAdd` bounds the
    difference: less than two seconds in all.

## 3. The modules and the code

### MultiTask
A task is `[pending, hadError]`. `ReturnBoolean` and `ReturnError` are the two
return functions; `HasReturned` is when the caller's callback is scheduled. The
return of a pointer counts as that of a boolean.

### RateLimit and RateLimiter
`RateLimit` has the queue (`PushAttempt`), the count of recent attempts
(`IsRateLimited`) with the window's start computed modulo 2^w as in C
(`PeriodStart`), and the end time. `RateLimiter` runs them alone, with actions
for an attempt refused unseen, a wrong code, and a right code that clears the
history. `checked` is an observer: when the last wrong codes were looked at.

### EpgManager
One action per handler: `AcceptCode` and `RejectCode` (`epg_manager_add_code()`
on its success path and on all of its error paths, which change the history
only), `ClearCode`, `WallclockTimeChanged`, `CheckExpired` (the timer's callback),
`ShutdownAsync`; the thread pool ends operations with `EndFileOperation` and the
main loop runs `FileSaved`, which includes the return of the save and, in it,
`internal_save_state_cb()` or `shutdown_save_state_cb()`. `Tick` and `ClockJump`
are the environment.

- A save (`saves[s]`) is the snapshot taken in `epg_manager_save_state_async()`,
  the state of its three file operations and its `MultiTask`. A save that has
  returned at its first error stays until its other operations are called back.
- The clocks advance between handlers, never inside one. In `SetExpiryTime` the
  base may be in the future while the timer starts at the present, as in the code.
- `timer` is a periodic timerfd: `Rearmed` is the next multiple of its interval.
  An interval of 0 is a disarmed timer (`NoTimer`).
- Abstractions: a code is a model value with a span; the files' bytes are their
  values; property notifications carry no data and are left out. A jump of the
  wall clock is reported exactly (`jumpSecs`); the service's truncation is in
  `ClockJump`.
- `signalled` is an observer: `expired` was emitted for this expiry time. So are
  `rivals`, the snapshots of the last save and of those it overlapped, that is, what
  may end up in the files (a save that starts while any other still has file
  operations under way joins them), and `savedOffset`, how far the wall clock was
  ahead of `CLOCK_BOOTTIME` at the last snapshot.

### EpgManagerLife
Wraps `EpgManager` with the phases off, loading, running, ended. `Start` is
`epg_manager_init_async()`; `EndRead` and the five `...Loaded` actions are the
thread pool and `file_load_cb()` for each file; `EndDelete` and `FileDeleted` are
the deletions; `LifeSavingIo` adds to a save's return its share of the load.
`Exit` and `Crash` keep the files and the clocks and forget the rest: file
operations in flight are lost. `CLOCK_BOOTTIME` starts again, the wall clock goes
on. `accepted`, `paid`, `due` and `clean` are observers; `clean` says that the last life
ended with a successful shutdown whose last save had no rival with other contents,
and that the wall clock was not set since.

### Provider
The interface with as much freedom as its documentation and the code's failure
paths leave: `ConsumeCredit` may shorten credit by any amount, `AddCode` may give
less than the span (a provider without a timer), and `expired` may be emitted only
when the time is over. It need not be emitted when the credit is cleared, although
its documentation says so: that promise is the false `ExhaustedIsSignalled` (`EpgManager_clear.cfg`). `EpgManager!Interface` is the refinement mapping.

### ManagerService
Extends `Provider`: every step of the provider runs the service's callbacks in
the same step (`Callbacks`), since GObject signals are synchronous. `Connect` is
the construction of the service for a provider that already runs. Time passes
for both clocks (`Tick`) or, suspended, for `CLOCK_BOOTTIME` only
(`SuspendedTick`). `shutdownTimer = "fired"` is the stale ID of a source that has
removed itself.

### Paygd
Boots, one after the other; the NVRAM survives. `payg_get_eospayg_active_set()`
(`ReadsActive`) is called twice, by `main()` in `Start` and by the service in
`SecureInit`; each call may fail by itself and then says that the variable is not
set, as it does when efivars was not opened (`efiOpen`). `misread` observes that
the second one did. `Start` is `main()` up to the
service's secure init, `SecureInit` up to the wait for the bus, `BusConnected`
the end of the wait, then the service (`ServiceStartup`, `Unlocked`,
`ServiceFailed`, ...), the end of `main()` (`ServiceEnded`, `LeavesLoop`), and what
happens to the process and the power: `TimerFires`, `Ping`, `Crash`,
`PowerDown`. A process that ends takes its timers with it (`Ends`). The debug
flags of `EOSPAYG_debug` are taken to be unset and security levels to be at most
127. The load of external providers in `SecureInit` is taken to finish, which
`EpgService` shows (`StartupEnds`). That a
provider which becomes disabled releases the service (`service.c:540-555`) has no
effect that is modelled: the service never times out (`service.c:623`).

### Hwclock and ClockJump
`ClockJump` extends `Hwclock`: one main loop. The wall clock is `boottime + offset`,
in ticks of which `UNIT` make a second, and `Secs` cuts a reading to seconds as
`get_clock_seconds()` does. `StartDetection`, `StartReadsBoottime` and `NewSource` are
`_init_clock_jump_detection()`; `Dispatch`, `JumpReadsRealtime` and `JumpReadsBoottime`
are the dispatch of the timerfd and `clock_jump_cb()` (a source that does not find its timerfd cancelled
removes itself); `HwclockUpdate` and
`HwclockWrite` are `payg_hwclock_update()`. Between the steps of one callback only
the kernel acts (`Clocks`): time passes, the clock is set, the computer is
suspended. The kernel makes the timerfd ready at each of the latter two. The RTC
is its difference to `CLOCK_BOOTTIME`, as the wall clock is, so that time alone
does not change it. What is written to it is the absolute time that `time()` has
returned, cut to seconds and old by what has passed since (`rtcLag`). `seen` and
`first` observe what the clocks were really apart when the last and the first
comparison read the wall clock, `skew` and `firstSkew` what passed until they read
the other clock; `reported` and `missed` are observers, too. The
time before the detection (the load of the credit) is outside the model.

### ProviderLoader and EpgService
`ProviderLoader` has one state per plugin (`instances`), the array of initialised
providers in the order of their callbacks (`loaded`) and two tasks of `MultiTask`.
`LoadAsync` takes any set of plugins, since libpeas and their type decide which
can be initialised. `GetFirstEnabledLoadCb` includes the start of all shutdowns.
`EpgService` calls it twice, before the pivot without a cancellable
(`SecureInit`), and at the startup; then `ProviderGetFirstEnabledCb`,
`ManagerNewCb` and `StartupComplete` are the callbacks of `service.c`. The phase
`completing` lies within one call: `epg_service_startup_complete()` follows
`epg_service_set_provider()` at once, and only the clocks may act in between.
`holds` counts `gss_service_hold()`. EpgManager's own load is a choice here, and
`EpgManagerLife` elsewhere.

### Codes and CodeEntry
`Codes` writes the fields of a code with their number of values, so that shifts
are products and masks remainders, and strings as sequences of digits. The HMAC
is an arbitrary function `Hmac`. What C computes in loops over the digits are
recursive functions (`Power`, `FormatCode`, `Value`). The sort of the list of used
codes is any rearrangement in order (`Sorted`). `CodeEntry` is `epg_manager_add_code()` from the
string to the list of used codes, around the actions of `RateLimiter`. A manager
that is enabled and not shut down is assumed; `EpgManager` has the rest.
`accepted` and `announced` are observers.

### Nvram and Efi
`Efi` splits each call into its system calls (`pc`): clear_immutable, openat, write
or unlink, each of which may fail; `Reboot` is a power failure at any of them. The
kernel's view (`files`, `immutable`) differs from the firmware's (`nvram`) by files
without content. The storage for tests is the array `fake_vars`. `known` is an
observer: the contents a variable may have, as far as the results of all calls
tell. `Nvram` is the abstract store; `Efi!NvramOfEfi` is the refinement mapping, with
the pivot only for efivarfs, since the storage for tests ignores it.
`efivarfs_write()` opens with `O_CREAT`, so each file that this process creates is
immutable at once, as in the kernel. `eospayg_efi_var_exists()` changes nothing, so
`VarExists` is the set of answers that it may give: any error of `faccessat()` and
an efivars that was not opened make it FALSE, and the storage for tests, which
compares the short name with full ones, never finds anything. `known` learns
nothing from them. `eospayg_efi_init()` may be repeated.

## 4. The runs

| Run | Shows | Bounds, and why they are enough |
|---|---|---|
| `shutdown` | counted saves, no lost shutdown, shutdown returns | two saves in flight, every operation may fail, a jump is reported before the shutdown or while it waits, and starts another save. A third save only adds more of the same interleavings, and the theorems hold for any number. The boot clock stands still and there is neither credit nor a code, since neither time nor what is saved matters to the counts: the saves are those of a cleared code and of the jump |
| `overlap` | what overlapping saves leave of the used codes and the credit; `EpgManager` implements `Provider` | two saves in flight, a code, clearing, timers that fail, one second, and a jump of the wall clock before or during the shutdown. Operations do not fail here; the theorems `UsedCodesAreSaved` and `CreditIsSaved` include failures, and any number of saves |
| `credit` | credit only from codes, its end noticed and signalled | a finite and an infinite code and a wrong one, credit 1 or 3, timer intervals of at most 2 so that long credit takes several, seven seconds, so that codes are added to credit that is left and the late ticks of the timer fall within the bound; one save at a time, since saves change no credit |
| `limit` | only issued, unused codes are right; used ones stay sorted; limit kept, end time exact | codes of four bits in base 3 with two holes among four periods: every string of the right length, one shorter, one longer, and a character that is no digit. Limit 3, period 4, from the second second after boot to the twelfth. For the real limit see the theorems |
| `load` | exact count of the load's operations, a manager runs only when all is loaded, recovery | every combination of corrupt, empty and good files, and the deprecated file; the wall clock jumps |
| `lives` | credit survives restarts, never made of nothing | one code, one crash, with and without a key, a jump of the wall clock, any number of starts; one save at a time (the theorem `CreditIsKept` has any number) |
| `poweroff` | the power-off timer follows the credit | a finite and an infinite code, a timeout of 2, six seconds: credit runs out, is renewed and runs out again; one second suspended |
| `boots` | no boot without the daemon, the insecure provider only after a misread, level never falls, promised power-offs of enforced boots | all combinations of failing checks, two reads of EOSPAYG_active that fail independently, two daemon levels, any number of boots |
| `jumps` | errors of the comparisons do not add up, no jump is lost, the RTC follows | two ticks a second, two jumps or suspends (forward by half a second, back by one and a half), two seconds, one failed write of the RTC, a source that removes itself: every jump, suspend and tick may fall between any two readings. The theorems hold for any number |
| `service` | one provider runs and EpgManager is the last resort; the startup ends; holds are balanced | three plugins, both loads, each may fail to start and to stop and change its mind; one jump, no time passes: time alone does not matter to the loads |
| `efi` | the results of reads, writes and deletes are true; `Efi` implements `Nvram` | three variables, two contents, an array of two entries so that it overflows and becomes sparse; any number of calls and boots |

One run shows where the code differs from what its documentation says; the
finding in `PROJECT.json` describes it:

| Run | Says | Counterexample |
|---|---|---|
| `twice` | a used code is refused | the save made by a load deletes used-codes before it is read |

Further statements of the documentation, tests and comments that the code does
not keep. Each has a configuration that ends in a counterexample
(`tlc -config X.cfg M`). The first four matter most:

| Configuration, module | Property | Statement, and the counterexample |
|---|---|---|
| `EpgManager_newest`, MCEpgManager | ShutdownSavesNewest | `tests/manager.c:599-600`, a code added, the manager torn down and loaded again "restores the same expiry time": each save starts three file operations of its own and nothing orders those of two saves in flight (`manager.c:1540`); when the older rename lands last, the shutdown reports success and the new credit is lost; the code that was used may be forgotten in the same way |
| `Paygd_misread`, Paygd | NoInsecureProvider | `service.c:409-413`, it would not be safe to fall back to EpgManager: the second read of EOSPAYG_active fails, and it is used on an enforced boot |
| `EpgManager_late`, MCEpgManager | ExpiredOnTime | `provider.c:209`, "Emitted when the expiry-time is reached": a code added while credit is left passes the old expiry time as the present (`manager.c:897-898`), so the timer has the code's span as its interval but starts now; 30 days added to 10 are looked at after 30 and 60 days, not after 40 |
| `RateLimiter_early`, RateLimiter | LimitFromBoot | `manager.c:113`, "10 attempts every 30 minutes": in the first 30 minutes after boot `now_secs - RATE_LIMITING_TIME_PERIOD_SECS` wraps around (`manager.c:622`) and no attempt counts |
| `RateLimiter_retry`, RateLimiter | RetryAtEndTime | `provider.c:74-76`, at rate-limit-end-time a new call is not refused, and `manager.c:638`, "when the user will first be able to try again": an attempt that is exactly one period old still counts (`>=` in `manager.c:622`), and the call is refused; `tests/manager.c:985` calls one second later. `EndTimeIsExact` says what the code does: the end time is the last refused second |
| `EpgManager_clear`, MCEpgManager | ExhaustedIsSignalled | `provider.c:293-294`, clearing the code will "cause expired to be emitted instantly": it is not emitted at all. A timer of interval 0 does not help, it is disarmed, although `boottime-source.c:97-98` says that it is ready at once |
| `EpgManager_early`, MCEpgManager | ShutdownWaitsForWrites | `manager.c:1671`, "If any saves are in flight, wait for those to finish": a save that failed has returned while its other files are still written |
| `EpgManagerLife_free`, MCEpgManagerLife | NoFreeCredit | `manager.c:1416-1417`, "Consume the appropriate credit": after a crash between the two files, time is not paid for |
| `ManagerService_clear`, MCManagerService | OnlyCreditCancels | `manager-service.c:888-890`, the power-off is cancelled if the expiry time was extended: also if the code of an expired computer is cleared, which sets the expiry time to 0 |
| `ManagerService_cancelled`, MCManagerService | CancelledIsTrue | `manager-service.c:909`, -1 means "shutdown cancelled": it is announced after the power-off was requested |
| `Paygd_efi`, Paygd | PromisedPowerOff | `main.c:335`, "shutting down in %d minutes": the boot is then not enforced, and the process exits with its timers |
| `Paygd_systemctl`, Paygd | PromisedPowerOff | `main.c:640`, "timeout_id will be cleared by payg_system_poweroff": not after an error, and the loop pings the watchdog for ever |
| `Efi_exists`, MCEfi | ExistsIsTrue | `efi.c:442`, "%TRUE if variable exists": not in the storage for tests, nor after an error of `faccessat()` |
| `CodeEntry_announced`, MCCodeEntry | LimitIsAnnounced | `manager.c:642-643` notifies of rate-limit-end-time only at a refused call: the wrong code that completes the limit changes it silently |

`CHECK_DEADLOCK FALSE` is set where the bounded clock stops or where the system
may rightly do nothing more.

## 5. Fairness

- `EpgManager`, `EpgManagerLife`: as long as file operations are under way or their
  callbacks are ready, GIO ends one, with success or failure, or the main loop
  dispatches one, whichever it is. There are finitely many, so all end. Nothing is assumed
  of users, jumps or crashes, nor of the expiry timer once the shutdown has
  returned: the process may end then. `EpgManagerLife` also assumes that a process which
  has ended exits and that the computer is turned on again.
- `ManagerService`: the clock runs and a timer that is ready is dispatched; its
  priority is high. Suspension is bounded by `MaxSuspended`.
- `Paygd`: time passes; the process runs up to the wait for the bus; the main loop
  dispatches its timers; systemd and the watchdog cut the power once they have
  decided to. Neither that the bus appears nor that the service ends is assumed.
- `ClockJump`: the main loop finishes the callback it is in, and dispatches the
  timerfd, the idle source of the RTC and its timer. Jumps are bounded, and the
  timerfd's readiness ends with them, so the idle source gets its turn.
- `EpgService`: as `ClockJump`; a plugin that was asked to start or to stop answers,
  with success or failure, and EpgManager is loaded. These answers arrive in
  the main loop while the timers of the clocks come in between, again and
  again: hence strong fairness of `ServiceCallbacks` and `LoaderStep`, which GLib's
  main context gives sources of equal priority. Nothing is assumed of
  notifications, cancellation or shutdown.
- A bounded clock stops. The properties that need time say so
  (`ExpiresWithinBound`, `EnoughTime`).

## 6. Proofs

`tlapm` checks every theorem for all values of the constants that satisfy the
named assumptions of the modules: any set of codes, any number of save slots,
any limit, period and width of integers. Three theorems need more than these
assumptions: `CreditAlwaysWatched`, `CreditIsKept` and `CreditIsPaidFor` have
hypotheses in their statements, which are explained below.

**EpgManagerProofs.** `PendingCountsSaves` is not inductive: whether a callback
takes the counter down depends on whether that save has returned before, and so
on its task's counter. `ShutdownInv` therefore adds `TasksCountFiles` (each
save's task counts the files whose callback has not run, `FilesLeft`), the types,
`ShutdownNotLost`, and `OneShutdownSave` (there is at most one last save). Neither
part stands alone: `pending` and the tasks' counters are natural numbers only as
long as the counts are exact, so the types rest on them too. From it follow
`TypeCorrect`, `PendingIsExact` and `ShutdownIsNotLost`. `CreditComesFromCodes` is an
action property, proved step by step from the types.

`UsedCodesAreSaved` and `CreditIsSaved` are about what a shutdown that succeeded has
left on the disk, for any number of saves that overlap and fail in any order, and
for a wall clock that is set at any time. Nothing orders the writes of overlapping
saves, so what can be said has two parts. `RivalsInv` says what may be in the files:
a file that a save has written holds the snapshot of a save that overlapped it
(`rivals`), since only those could write it afterwards. `LastSaveInv` says that the
newest of these snapshots has the present codes and that the present credit can
be deduced from it, with the wall clock as far ahead as it then was: time that
passes while files are written is consumed again by the load. Where the last save
could not be overwritten with other contents (`SavedAlone`), the two together say
that the next start finds the final state; where it could, it may not (`EpgManager_newest.cfg`).

**EpgManagerRefinement.** `ManagerImplementsProvider`: each action of `EpgManager`
maps to one of `Provider` or to a stutter. The step of `CheckExpired` needs that
the signal is true when it is set (`SignalIsTrue`, theorem `ExpiredIsTrue`), since
a new expiry time resets it.

`CreditAlwaysWatched` and `WatchIsKept` are about the timer: as long as `expired` was
not emitted, it looks at the credit at most one interval after the expiry time
(`TimerWatches`). `WatchIsKept` assumes nothing and names every way in which a step
of the manager stops watching an expiry time without having signalled it: the
code is cleared, the credit becomes infinite, a jump consumes it to the present
(the timer of interval 0), or a code was accepted for which no timer could be
created. `CreditAlwaysWatched` says what that leaves: where timers can be created,
credit that is not over yet is always watched. The invariant `WatchInv` names the one
other state, an expiry time set to the present or before, whose timer is
disarmed (`SetToThePast`).

**EpgManagerLifeProofs.** `LifeInv` carries `ShutdownInv` over the lives
(`ManagerInEveryLife`): a life that ends leaves nothing of it, and a save of the
load is a save like others. `LoadInv` adds the load: `CountInv` states the count of
operations in every phase and after failures too, whereas the property is only
about loads without one; `LoadOrder` is the order of `file_load_cb()` (clock-time
before one of the expiry files, a deletion after its read), without which the
read that clock-time starts could be counted already. `LoadSaveUnderWay` says that
the save which the load waits for has not returned. `LifeTypeCorrect`,
`LoadCountIsExact` and `RunsLoaded` follow.

`CreditIsPaidFor` bounds the credit by what was paid wherever it is: in memory, in
the snapshots, on the disk and in the reads under way (`PaidInv`). It assumes a
computer delivered without credit and without a time in the expiry-time file,
since credit on the first disk was paid to nobody.

`CreditIsKept`: a shutdown that succeeded, any time without power and the next load
keep the credit, if the last save could not be overwritten with other contents and
the wall clock was not set since it (`clean`), whatever overlapped, jumped, crashed
or failed before. `RestartInv` follows it through the load: until
expiry-seconds is called back, what the disk says is `due` (`SavedDue`), and so is
what was read of it (`LoadingDue`). `BeforeRunning` says that nothing is saved,
deleted or shut down that could change the files meanwhile. It assumes timers that
can be created, since otherwise the load cuts the credit short; no more credit
than `BOGUS_CREDIT_LOWER_LIMIT_SECS`, above which a load may take it to be bogus and
reset it (`CreditIsPlausible`); and that such credit does not reach `G_MAXUINT64`.

That no code is accepted twice is not proved: it is false (run `twice`).

**CodeEntryProofs.** `VerifiedIsIssued`: the strings that the parser and the
verification let through are those that were issued. The digits of a string are
recursive functions; what they compute for every length is shown with the least
number principle (`NatSets`, from the well-foundedness of the natural numbers)
applied to the set of lengths for which it holds. `EInv` is about the list of used
codes: it is in strict order, and its entries are the codes that were accepted.
From it follow `RightCodes`, `UsedCodesSorted` and `EntryTypeCorrect`. Each step
is one of `RateLimiter` (`EntryIsRateLimited`), so that the theorems about the
limit hold of strings (`EnteredCodesAreLimited`). `LimitHolds` and `EndTimeHolds`
hold whenever the manager is started. They speak of the times at which the
computer has been on for longer than the period, and count the attempts from
before; earlier than that there is no limit (`RateLimiter_early.cfg`). The invariant: the
history is sorted, nothing in it is in the future, and the attempts looked at are
dominated, entry by entry, by the history that also holds the refused ones.

**ManagerServiceProofs.** `ServiceInv` joins the two safety properties with the types,
`ExpiredIsExhausted` (a signalled expiry time is over) and `QuietUntilConnected`
(nothing is timed before the service exists); each step of an
arbitrary provider, with the callbacks in it, preserves it.

`ServiceTypeCorrect` follows from it as well.

**EpgServiceProofs.** Of `ClockJump`, `ErrorsStayBounded`: the sum of the reported
deltas telescopes, since each comparison starts from the readings the last one
ended with. The invariant `IInv` joins the types with `DifferencesAreClose`, the
difference of the seconds last read is less than a second off that of the clocks at
the first of the two readings, but for what passed until the second; less what was
`reported` it is as close to the difference at the start; a property of the sum
alone would not survive the next comparison. `JumpsAreNotLost`
is in it through `JumpIsKnown`: while the timerfd is armed and no callback is
between its two readings, a jump that was not compared has made the timerfd ready,
or fell between the readings and its arming (`missed`). `SourceInLoop` says that
the timerfd exists only while the main loop runs and is armed in its callback.

Of `EpgService`, `OneProviderIsLeft`, `ManagerOnlyAsLastResort` and
`ServiceIsTypeCorrect`. That the loader returns only when all others are shut down
rests on its two counters, so the invariant `ChoiceInv` says that each task counts
the plugins that have not answered (`LoadCountsPlugins`, `ShutdownCountsOthers`),
what the loader leaves when it returns (`LoaderReturns`), and that it works only in
the two phases that load, which have no provider yet (`PhaseInv`). That the choice
is one of the loaded plugins needs that a set of indices has a least element
(`SmallestIndex`, from the well-foundedness of the natural numbers). The clocks
come in through `TypeStep`: each step of the service is one of the detection's or
leaves the clocks alone.

**EfiProofs.** `StoreIsReported` is about reads, writes and deletes; what
`eospayg_efi_var_exists()` answers is in no proof (`Efi_exists.cfg`). The inductive invariant joins the types with the observer: the
store has a content that is known, the kernel's file of a variable that has a
content is the firmware's, and no name has two entries in the storage for
tests, without which a delete would bring an older value back.
`EfiImplementsNvram` needs in addition that a call which may overwrite was made
before the pivot (calls are synchronous, so the pivot waits for them), and that
a write without that permission opened a file that was not there: it is still
without a content when it is written.

**PaygdProofs.** `PaygdTypeCorrect`, `ManagerOnlyAfterMisread` (while the provider is
the manager, the boot is legacy, or `main()` has found EOSPAYG_active and the service
has not) and `LevelIsMonotonic`. The invariant adds `ServiceIsEnforced` to the types
and the property: only an enforced boot runs the service, and an enforced boot
from the initramfs has found EOSPAYG_active, which stays set.
The proof follows the order of the code: the start of a boot, then the steps
that keep what was read there.

Every invariant and every action property or refinement of the passing runs is
stated by a theorem, but for `ExpiryIsNoticed`, which holds of the run `credit` and
not where a jump consumes all credit or a timer fails; `CreditAlwaysWatched` and
`WatchIsKept` say what holds in general. Model-checked only:

- the liveness properties, which this prover does not reach: `EventuallyExpires`,
  `ShutdownReturns`, `Recovers`, `PoweredOffWithoutCredit`, `NoBootWithoutDaemon`,
  `EnforcedPowerOff`, `RtcFollows` and `StartupEnds`; and
- the counterexamples of section 4.

## 7. Not modelled

Of EFI variables, the listing (`eospayg_efi_list_rewind()` and `_next()`), a cursor
that no other call looks at. Of EpgManagerService, the registration on the bus
and the conversion of properties. Of eos-paygd, the flags of EOSPAYG_debug, the
boot partition and the LSM. Of a provider's life, what a plugin does on its own:
`Provider` has its promises. Left out for good: the tools and clients, which hold no
state of the daemon; provisioning and build; D-Bus registration and the
conversion of arguments and errors; logging; the paths into the LSM and the boot
partition, which change nothing that is modelled; `fake-clock.c`, which stands
in for the real clock in tests.
