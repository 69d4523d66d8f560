------------------------------ MODULE EpgManager ------------------------------
(***************************************************************************)
(* EpgManager (libeos-payg/manager.c) once its state has been loaded: the  *)
(* handlers that change the credit, the asynchronous saves they start, the *)
(* thread pool that carries out the file operations of the saves, the      *)
(* expiry timer, and shutdown.                                             *)
(*                                                                         *)
(* The daemon has one main loop, so a handler or a callback is one step.   *)
(* Between the steps of the main loop the thread pool finishes file        *)
(* operations in any order, and the clocks move.                           *)
(***************************************************************************)
EXTENDS MultiTask, RateLimit

CONSTANTS
  Codes,          \* the (counter, period) pairs signed with this computer's key
  InvalidCodes,   \* inputs that do not parse or verify
  Span,           \* [Codes -> seconds of credit], G_MAXUINT64 if infinite
  MAX_INTERVAL,   \* G_MAXUINT / MSEC_PER_SEC, the longest timer of the clock
  IoResults,      \* subset of {"ok", "err"}: how a file operation may end
  TimerResults,   \* subset of {"ok", "err"}: whether a timer can be created
  JumpDeltas,     \* by how much the wall clock may be set forward or back
  StartTimes,     \* values of CLOCK_BOOTTIME when the manager starts
  StartCredits,   \* seconds of credit it starts with
  SaveSlots,      \* bound: identifies the saves with outstanding operations
  NoSave,         \* the contents of a slot without a save
  NoFile, Empty, Corrupt, \* a state file that holds no value
  MaxBoottime,    \* bound on CLOCK_BOOTTIME
  MaxWallclock    \* bound on CLOCK_REALTIME

ASSUME EpgManagerAssumption ==
  /\ Codes \cap InvalidCodes = {}
  /\ Span \in [Codes -> 1 .. G_MAXUINT64]
  /\ MAX_INTERVAL \in Nat \ {0}
  /\ IoResults \subseteq {"ok", "err"}
  /\ TimerResults \subseteq {"ok", "err"}
  /\ JumpDeltas \subseteq Int \ {0}
  /\ StartTimes \subseteq Nat
  /\ StartCredits \subseteq Nat
  /\ MaxBoottime \in Nat /\ MaxBoottime <= G_MAXUINT64
  /\ MaxWallclock \in Nat
  /\ \A t \in StartTimes : t <= MaxBoottime /\ t <= MaxWallclock
  /\ \A t \in StartTimes, c \in StartCredits : t + c <= G_MAXUINT64
  /\ IsFiniteSet(SaveSlots)

VARIABLES
  nowSecs,        \* CLOCK_BOOTTIME
  wallSecs,       \* CLOCK_REALTIME
  jumpSecs,       \* the part of the wall clock's jumps not yet reported
  enabled,
  expiryTime,     \* expiry_time_secs
  timer,          \* the expiry GSource
  usedCodes,      \* how often used_codes holds each code
  history,        \* rate_limiting_history
  cancelled,      \* the manager's GCancellable
  pending,        \* pending_internal_save_state_calls
  pendingShutdown,\* pending_shutdown is set
  shutdownResult, \* what the shutdown's callback was given
  saves,          \* the saves whose operations are not all called back
  rivals,         \* observed: what the last save and those it overlapped write
  savedOffset,    \* observed: how far the wall clock was ahead at its snapshot
  disk,           \* the state files
  signalled       \* observed: "expired" was emitted for this expiry time

clockVars == <<nowSecs, wallSecs, jumpSecs>>
creditVars == <<enabled, expiryTime, timer, usedCodes, history, signalled>>
saveVars == <<pending, saves, rivals, savedOffset>>
shutdownVars == <<cancelled, pendingShutdown, shutdownResult>>
vars == <<clockVars, creditVars, saveVars, shutdownVars, disk>>

-----------------------------------------------------------------------------
(* The state files, and what a save writes to them.  A used-codes file     *)
(* without codes stands for the deleted file.                              *)

Files == {"clockTime", "expirySeconds", "usedCodes"}

CodeCounts == [Codes -> Nat]

Contents == [clockTime : Nat, expirySeconds : Nat, usedCodes : CodeCounts]

Valueless == {NoFile, Empty, Corrupt}

DiskContents == [clockTime : Nat \cup Valueless,
                 expirySeconds : Nat \cup Valueless,
                 usedCodes : CodeCounts \cup Valueless]

(* An operation is handed to the thread pool ("io"), has ended there ("ok",
   "err"), and has had its callback run by the main loop ("done"). *)
OpStates == {"io", "ok", "err", "done"}

Saves == [kind : {"internal", "shutdown"}, data : Contents,
          op : [Files -> OpStates], task : MultiTasks]

ASSUME NoSaveAssumption == NoSave \notin Saves

IsSave(s) == saves[s] # NoSave

FreeSlots == {s \in SaveSlots : ~IsSave(s)}

CreditAt(now, expiry) == IF now > expiry THEN 0 ELSE expiry - now

(* A bug: the expiry time is saved in place of the credit. *)
SnapshotOfExpiry(wall, now, expiry, codes) ==
  [clockTime |-> wall, expirySeconds |-> expiry, usedCodes |-> codes]

Snapshot(wall, now, expiry, codes) ==
  [clockTime |-> wall, expirySeconds |-> CreditAt(now, expiry),
   usedCodes |-> codes]

(* A bug: the caller's own sub-operation is not counted. *)
NewSaveWithThree(kind, data) ==
  [kind |-> kind, data |-> data, op |-> [f \in Files |-> "io"],
   task |-> ReturnBoolean(Attach(3))]

(* Four sub-operations are attached and the caller's own one returns at    *)
(* the end of epg_manager_save_state_async(): three are left, one a file.  *)
NewSave(kind, data) ==
  [kind |-> kind, data |-> data, op |-> [f \in Files |-> "io"],
   task |-> ReturnBoolean(Attach(4))]

(* epg_manager_save_state_async() in the handler's final state, with       *)
(* internal_save_state_cb() or shutdown_save_state_cb() as the callback.   *)
(* Nothing keeps it from starting while the files of another save, even of *)
(* one that has already failed, are still written: the observers tell      *)
(* which contents may then end up on the disk.                             *)
SaveState(kind, data) ==
  /\ \E s \in FreeSlots : saves' = [saves EXCEPT ![s] = NewSave(kind, data)]
  /\ rivals' = {data} \cup (IF FreeSlots = SaveSlots /\ shutdownResult = "none"
                            THEN {} ELSE rivals)
  /\ savedOffset' = wallSecs - nowSecs

(* A bug: the save is not counted. *)
UncountedSave(data) == SaveState("internal", data) /\ UNCHANGED pending

InternalSave(data) ==
  /\ SaveState("internal", data)
  /\ pending' = pending + 1

-----------------------------------------------------------------------------
(* The expiry time and its timer.                                          *)

(* A timerfd of interval 0 is disarmed: it never becomes ready. *)
NoTimer == [interval |-> 0, next |-> 0]

Timers == [interval : Nat, next : Nat]

AddClamped(a, b) == IF a + b > G_MAXUINT64 THEN G_MAXUINT64 ELSE a + b

TimerInterval(secs) == IF secs > MAX_INTERVAL THEN MAX_INTERVAL ELSE secs

NewTimer(secs) ==
  IF secs = 0
  THEN NoTimer
  ELSE [interval |-> TimerInterval(secs), next |-> nowSecs + TimerInterval(secs)]

(* set_expiry_time(): base is its parameter now_secs, which is the expiry  *)
(* time when credit is left; the timer is always started at the real time. *)
(* Without a timer the expiry time becomes base, and check_expired_cb()    *)
(* runs at once.                                                           *)
SetExpiryTime(base, span) ==
  LET end == AddClamped(base, span)
  IN  \/ /\ "ok" \in TimerResults \/ end = G_MAXUINT64
         /\ expiryTime' = end
         /\ timer' = IF end = G_MAXUINT64 THEN NoTimer ELSE NewTimer(end - base)
         /\ signalled' = (signalled /\ end = expiryTime)
      \/ /\ "err" \in TimerResults /\ end # G_MAXUINT64
         /\ expiryTime' = base
         /\ timer' = NoTimer
         /\ signalled' = \/ signalled /\ base = expiryTime
                         \/ enabled /\ base <= nowSecs

TimerIsReady == timer.interval > 0 /\ timer.next <= nowSecs

(* A bug: the timer fires once. *)
OneShot == NoTimer

(* The next multiple of the interval: the kernel's timer is periodic. *)
Rearmed ==
  [timer EXCEPT !.next =
     @ + timer.interval * ((nowSecs - @) \div timer.interval + 1)]

-----------------------------------------------------------------------------
Init ==
  /\ nowSecs \in StartTimes
  /\ wallSecs = nowSecs
  /\ jumpSecs = 0
  /\ enabled \in BOOLEAN
  /\ \E credit \in StartCredits :
       /\ expiryTime = nowSecs + credit
       /\ timer = IF expiryTime = G_MAXUINT64 THEN NoTimer ELSE NewTimer(credit)
  /\ usedCodes = [c \in Codes |-> 0]
  /\ history = ClearedHistory
  /\ cancelled = FALSE
  /\ pending = 0
  /\ pendingShutdown = FALSE
  /\ shutdownResult = "none"
  /\ saves = [s \in SaveSlots |-> NoSave]
  /\ rivals = {}
  /\ savedOffset = 0
  /\ disk = Snapshot(wallSecs, nowSecs, expiryTime, usedCodes)
  /\ signalled = FALSE

(* Both clocks run. *)
Tick ==
  /\ nowSecs < MaxBoottime /\ wallSecs < MaxWallclock
  /\ nowSecs' = nowSecs + 1
  /\ wallSecs' = wallSecs + 1
  /\ UNCHANGED <<jumpSecs, creditVars, saveVars, shutdownVars, disk>>

(* The user or NTP sets the wall clock. *)
ClockJump(delta) ==
  /\ wallSecs + delta \in 0 .. MaxWallclock
  /\ wallSecs' = wallSecs + delta
  /\ jumpSecs' = jumpSecs + delta
  /\ UNCHANGED <<nowSecs, creditVars, saveVars, shutdownVars, disk>>

(* A bug: the check for used codes is lost. *)
AnyCodeIsUnused(code) == TRUE

(* check_is_counter_unused() *)
IsUnused(code) == usedCodes[code] = 0

(* The rate limit counts every attempt on an enabled manager, those made
   while the limit is in force and those during a shutdown included.  The
   service takes no calls once the shutdown has returned. *)
RejectCode(code) ==
  /\ enabled /\ shutdownResult = "none"
  /\ \/ IsRateLimited(history, nowSecs)
     \/ cancelled
     \/ code \in InvalidCodes
     \/ code \in Codes /\ ~IsUnused(code)
  /\ history' = PushAttempt(history, nowSecs)
  /\ UNCHANGED <<clockVars, enabled, expiryTime, timer, usedCodes, signalled,
                 saveVars, shutdownVars, disk>>

AcceptCode(code) ==
  /\ enabled /\ ~cancelled
  /\ ~IsRateLimited(history, nowSecs)
  /\ IsUnused(code)
  /\ usedCodes' = [usedCodes EXCEPT ![code] = @ + 1]
  /\ SetExpiryTime(IF nowSecs < expiryTime THEN expiryTime ELSE nowSecs, Span[code])
  /\ history' = ClearedHistory
  /\ InternalSave(Snapshot(wallSecs, nowSecs, expiryTime', usedCodes'))
  /\ UNCHANGED <<clockVars, enabled, shutdownVars, disk>>

ClearCode ==
  /\ enabled /\ ~cancelled
  /\ expiryTime' = 0
  /\ timer' = NoTimer
  /\ signalled' = (signalled /\ expiryTime = 0)
  /\ InternalSave(Snapshot(wallSecs, nowSecs, 0, usedCodes))
  /\ UNCHANGED <<clockVars, enabled, usedCodes, history, shutdownVars, disk>>

(* clock_jump_cb() of the service: a jump is reported in a later iteration
   of the main loop, together with those that came after it.  The source
   outlives the shutdown, as main() goes on to iterate the main loop. *)
WallclockTimeChanged ==
  /\ jumpSecs # 0
  /\ jumpSecs' = 0
  /\ IF jumpSecs > 0 /\ nowSecs < expiryTime
     THEN LET credit == expiryTime - nowSecs
          IN  SetExpiryTime(nowSecs, IF jumpSecs > credit THEN 0 ELSE credit - jumpSecs)
     ELSE UNCHANGED <<expiryTime, timer, signalled>>
  /\ InternalSave(Snapshot(wallSecs, nowSecs, expiryTime', usedCodes))
  /\ UNCHANGED <<nowSecs, wallSecs, enabled, usedCodes, history, shutdownVars, disk>>

(* check_expired_cb(): the source removes itself once it has nothing more
   to wait for.  It too outlives the shutdown. *)
CheckExpired ==
  /\ TimerIsReady
  /\ timer' = IF enabled /\ expiryTime > nowSecs THEN Rearmed ELSE NoTimer
  /\ signalled' = (signalled \/ (enabled /\ expiryTime <= nowSecs))
  /\ UNCHANGED <<clockVars, enabled, expiryTime, usedCodes, history, saveVars,
                 shutdownVars, disk>>

-----------------------------------------------------------------------------
(* epg_manager_shutdown_async(): wait for the internal saves in flight, or
   make a last one. *)
ShutdownAsync ==
  /\ ~cancelled
  /\ cancelled' = TRUE
  /\ \/ /\ pending = 0
        /\ SaveState("shutdown", Snapshot(wallSecs, nowSecs, expiryTime, usedCodes))
        /\ UNCHANGED pendingShutdown
     \/ /\ pending > 0
        /\ pendingShutdown' = TRUE
        /\ UNCHANGED <<saves, rivals, savedOffset>>
  /\ UNCHANGED <<clockVars, creditVars, pending, shutdownResult, disk>>

(* The thread pool ends an operation.  g_file_replace() writes a temporary
   file and renames it, so a failure leaves the old contents. *)
EndFileOperation(s, f, result) ==
  /\ IsSave(s) /\ saves[s].op[f] = "io"
  /\ saves' = [saves EXCEPT ![s].op[f] = result]
  /\ disk' = IF result = "ok" THEN [disk EXCEPT ![f] = saves[s].data[f]] ELSE disk
  /\ UNCHANGED <<clockVars, creditVars, pending, rivals, savedOffset, shutdownVars>>

TaskAfter(s, f) ==
  IF saves[s].op[f] = "ok" THEN ReturnBoolean(saves[s].task)
                           ELSE ReturnError(saves[s].task)

(* A bug: every failed file returns the save again. *)
ReturnsOnEveryError(s, f) == HasReturned(TaskAfter(s, f))

(* The save returns in this very callback. *)
ReturnsNow(s, f) ==
  ~HasReturned(saves[s].task) /\ HasReturned(TaskAfter(s, f))

(* A bug: the result of the last save is dropped. *)
AlwaysOk(s, f) == "ok"

SaveResult(s, f) == IF TaskAfter(s, f).hadError THEN "err" ELSE "ok"

(* A bug: the counter is tested before this save is taken off it. *)
InternalSaveReturnsEarly(result) ==
  /\ pending' = pending - 1
  /\ IF pending = 0 /\ pendingShutdown
     THEN pendingShutdown' = FALSE /\ shutdownResult' = result
     ELSE UNCHANGED <<pendingShutdown, shutdownResult>>

(* internal_save_state_cb() *)
InternalSaveReturns(result) ==
  /\ pending' = pending - 1
  /\ IF pending' = 0 /\ pendingShutdown
     THEN pendingShutdown' = FALSE /\ shutdownResult' = result
     ELSE UNCHANGED <<pendingShutdown, shutdownResult>>

(* shutdown_save_state_cb() *)
ShutdownSaveReturns(result) ==
  /\ shutdownResult' = result
  /\ UNCHANGED <<pending, pendingShutdown>>

(* file_replace_cb() and file_save_delete_cb() *)
FileSaved(s, f) ==
  /\ IsSave(s) /\ saves[s].op[f] \in {"ok", "err"}
  /\ LET save == [saves[s] EXCEPT !.op[f] = "done", !.task = TaskAfter(s, f)]
         over == \A g \in Files : save.op[g] = "done"
     IN  saves' = [saves EXCEPT ![s] = IF over THEN NoSave ELSE save]
  /\ IF ReturnsNow(s, f)
     THEN IF saves[s].kind = "internal"
          THEN InternalSaveReturns(SaveResult(s, f))
          ELSE ShutdownSaveReturns(SaveResult(s, f))
     ELSE UNCHANGED <<pending, pendingShutdown, shutdownResult>>
  /\ UNCHANGED <<clockVars, creditVars, rivals, savedOffset, cancelled, disk>>

-----------------------------------------------------------------------------
Environment ==
  \/ Tick
  \/ \E delta \in JumpDeltas : ClockJump(delta)

Handlers ==
  \/ \E code \in Codes \cup InvalidCodes : RejectCode(code)
  \/ \E code \in Codes : AcceptCode(code)
  \/ ClearCode
  \/ WallclockTimeChanged
  \/ CheckExpired
  \/ ShutdownAsync

SavingIo ==
  \E s \in SaveSlots, f \in Files :
    \/ \E result \in IoResults : EndFileOperation(s, f, result)
    \/ FileSaved(s, f)

Next == Environment \/ Handlers \/ SavingIo

Spec == Init /\ [][Next]_vars

(* As long as file operations are under way or their callbacks are ready,
   the thread pool or the main loop goes on with one of them, whichever it
   is.  The main loop dispatches the ready timer until the shutdown has
   returned: the process may end then. *)
Fairness ==
  /\ WF_vars(SavingIo)
  /\ WF_vars(shutdownResult = "none" /\ CheckExpired)
  /\ WF_vars(Tick)

FairSpec == Spec /\ Fairness
-----------------------------------------------------------------------------
TypeOK ==
  /\ nowSecs \in 0 .. MaxBoottime
  /\ wallSecs \in 0 .. MaxWallclock
  /\ jumpSecs \in Int
  /\ enabled \in BOOLEAN
  /\ expiryTime \in 0 .. G_MAXUINT64
  /\ timer \in Timers
  /\ usedCodes \in CodeCounts
  /\ history \in Histories
  /\ cancelled \in BOOLEAN
  /\ pending \in Nat
  /\ pendingShutdown \in BOOLEAN
  /\ shutdownResult \in {"none", "ok", "err"}
  /\ saves \in [SaveSlots -> Saves \cup {NoSave}]
  /\ rivals \in SUBSET Contents
  /\ savedOffset \in Int
  /\ disk \in DiskContents
  /\ signalled \in BOOLEAN

(* The internal saves whose caller has not been told of the result. *)
UnreturnedSaves(kind) ==
  {s \in SaveSlots : IsSave(s) /\ saves[s].kind = kind /\ ~HasReturned(saves[s].task)}

(* The counter that decides when shutdown may go on is the number of       *)
(* internal saves that have not returned: it neither misses a save that is *)
(* still writing nor counts one twice when several of its files fail.      *)
PendingCountsSaves == pending = Cardinality(UnreturnedSaves("internal"))

(* A shutdown that has been asked for is not lost: until its callback has  *)
(* run, either it waits for an internal save that will call it, or its own *)
(* last save is under way, and never both.                                 *)
ShutdownNotLost ==
  /\ pendingShutdown => UnreturnedSaves("internal") # {}
  /\ cancelled <=> \/ pendingShutdown
                   \/ UnreturnedSaves("shutdown") # {}
                   \/ shutdownResult # "none"
  /\ shutdownResult # "none" =>
       ~pendingShutdown /\ UnreturnedSaves("shutdown") = {}
  /\ pendingShutdown => UnreturnedSaves("shutdown") = {}

(* No other save could overwrite the files of the last one with different  *)
(* contents.                                                               *)
SavedAlone == \A r, q \in rivals : r = q

(* When shutdown has reported success, the used codes on disk are those    *)
(* that one of the overlapping saves was started with, whichever of them   *)
(* failed and whichever wrote last; and they are the accepted ones, which  *)
(* the next start refuses, if the last save could not be overwritten.      *)
ShutdownSavesUsedCodes ==
  shutdownResult = "ok" =>
    \E r \in rivals :
      /\ disk.usedCodes = r.usedCodes
      /\ SavedAlone => r.usedCodes = usedCodes

(* The credit that a start of the computer at some time of the wall clock  *)
(* would deduce from the files.                                            *)
RestoredCredit(wall) ==
  LET elapsed == wall - disk.clockTime
  IN  IF elapsed < 0 THEN disk.expirySeconds
      ELSE IF elapsed > disk.expirySeconds THEN 0 ELSE disk.expirySeconds - elapsed

(* When shutdown has reported success, both files of the credit were       *)
(* written by overlapping saves; and if the last save could not be         *)
(* overwritten, a restart would give back the credit the manager had, no   *)
(* more and no less, but for what the wall clock was set since.            *)
ShutdownSavesCredit ==
  shutdownResult = "ok" =>
    /\ \E r \in rivals : disk.clockTime = r.clockTime
    /\ \E r \in rivals : disk.expirySeconds = r.expirySeconds
    /\ SavedAlone =>
         RestoredCredit(nowSecs + savedOffset) = CreditAt(nowSecs, expiryTime)

(* "Tearing down the EpgManager, and loading it up again restores the same  *)
(* expiry time" (tests/manager.c:599-600).  This is false: nothing orders  *)
(* the file operations of two saves, and those of the older one may be     *)
(* done last, although all of them succeed.                                *)
ShutdownSavesNewest ==
  shutdownResult = "ok" =>
    RestoredCredit(nowSecs + savedOffset) = CreditAt(nowSecs, expiryTime)

(* Shutdown waits until no save that was in flight writes files any more. *)
ShutdownWaitsForWrites ==
  shutdownResult # "none" =>
    \A s \in SaveSlots, f \in Files :
      IsSave(s) /\ saves[s].kind = "internal" => saves[s].op[f] # "io"

(* Credit that runs out is noticed: as long as "expired" was not emitted,  *)
(* the timer will look again, at most one of its intervals after the       *)
(* expiry time.                                                            *)
ExpiryIsNoticed ==
  enabled /\ expiryTime \in 1 .. G_MAXUINT64 - 1 /\ ~signalled =>
    timer.interval > 0 /\ timer.next <= expiryTime + timer.interval

(* "expired" is emitted when the expiry time is reached: once it has       *)
(* passed, the signal was emitted or the timer that emits it is ready.     *)
ExpiredOnTime ==
  enabled /\ expiryTime \in 1 .. nowSecs =>
    signalled \/ TimerIsReady

(* The computer that runs out of credit is told so, as far as the bounded  *)
(* clock goes, unless the credit is cleared or the manager shut down.      *)
ExpiresWithinBound ==
  enabled /\ nowSecs < expiryTime /\ expiryTime + timer.interval <= MaxBoottime

EventuallyExpires ==
  ExpiresWithinBound
    ~> \/ signalled \/ cancelled
       \/ expiryTime = 0 \/ expiryTime + timer.interval > MaxBoottime

(* "cause #EpgProvider::expired to be emitted instantly", "must also emit   *)
(* this signal on startup if there is no credit remaining": a manager      *)
(* without credit signals it, unless a code comes first.                   *)
ExhaustedIsSignalled ==
  enabled /\ expiryTime <= nowSecs
    ~> signalled \/ cancelled \/ nowSecs < expiryTime

CreditFromCode ==
  expiryTime' > expiryTime =>
    \E c \in Codes :
      /\ usedCodes[c] = 0 /\ usedCodes'[c] = 1
      /\ expiryTime' <= Span[c] + (IF nowSecs > expiryTime THEN nowSecs ELSE expiryTime)

(* Credit only grows by a code that was not used before, by its span. *)
CreditOnlyFromCodes == [][CreditFromCode]_vars

(* The callback of a shutdown runs. *)
ShutdownReturns == cancelled ~> shutdownResult # "none"

(* The manager as its service sees it. *)
Interface == INSTANCE Provider WITH
  used <- {c \in Codes : usedCodes[c] > 0},
  expired <- signalled,
  state <- IF ~cancelled THEN "running"
           ELSE IF shutdownResult = "none" THEN "stopping" ELSE "stopped"

(* The manager keeps what a provider promises to the service: however its  *)
(* handlers, the saves and the timer interleave, each is one of the steps  *)
(* that the service is prepared for.                                       *)
ImplementsProvider == Interface!ProviderSpec
=============================================================================
