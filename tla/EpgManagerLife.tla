--------------------------- MODULE EpgManagerLife ---------------------------
(***************************************************************************)
(* The lives of EpgManager (libeos-payg/manager.c): each start of the      *)
(* computer loads the state files that the last one left, in parallel and  *)
(* in any order, runs the manager of module EpgManager, and ends with a    *)
(* shutdown, with a failure to load, or with a crash.  Loading itself may  *)
(* start a save, and deletes files that are corrupt or no longer used.     *)
(***************************************************************************)
EXTENDS EpgManager

CONSTANTS
  BOGUS_CREDIT_LOWER_LIMIT_SECS,
  BOGUS_CREDIT_UPPER_LIMIT_SECS,
  BOGUS_CREDIT_RESET_SECS,  \* 31 days
  InitialDisks,      \* contents of the state files before the first start
  InitialExpiryTimes,\* contents of the deprecated expiry-time file
  Keys,              \* whether the key file exists
  Unreadable,        \* the result of a failed read
  NoRead,            \* no result yet
  KeyBytes,          \* contents of the key and the account-id files
  Settings,          \* whether the configuration enables the manager
  MaxCrashes,        \* bound on the crashes
  MaxAcceptances     \* bound: how often a code may be accepted

ASSUME EpgManagerLifeAssumption ==
  /\ BOGUS_CREDIT_RESET_SECS \in Nat
  /\ BOGUS_CREDIT_LOWER_LIMIT_SECS \in Nat /\ BOGUS_CREDIT_UPPER_LIMIT_SECS \in Nat
  /\ BOGUS_CREDIT_RESET_SECS < BOGUS_CREDIT_LOWER_LIMIT_SECS
  /\ BOGUS_CREDIT_LOWER_LIMIT_SECS < BOGUS_CREDIT_UPPER_LIMIT_SECS
  /\ Keys \subseteq BOOLEAN /\ Settings \subseteq BOOLEAN
  /\ MaxCrashes \in Nat /\ MaxAcceptances \in Nat
  /\ NoSave \notin SaveSlots
  /\ InitialDisks \subseteq DiskContents
  /\ InitialExpiryTimes \subseteq Nat \cup Valueless

(* A file without a value is told from one that holds a number or codes. *)
ASSUME StateFileAssumption ==
  \A content \in Valueless : content \notin Nat /\ content \notin CodeCounts

VARIABLES
  phase,        \* "off", "loading", "running", or "ended" before the exit
  hasKey,
  legacyExpiry, \* the expiry-time file of old versions
  reads,        \* the file loads of epg_manager_init_async()
  deletes,      \* the deletions started by file_load_cb()
  initTask,     \* the GTask of epg_manager_init_async()
  invalidData,  \* its task data: an error to return after a deletion
  lastSaveTime, \* last_save_time_secs
  initSave,     \* the slot of the save that initTask waits for
  accepted,     \* observed: how often each code was accepted
  paid,         \* observed: the seconds of credit of the accepted codes
  due,          \* observed: the most credit there was, less the time since
  clean,        \* observed: the last life ended with a successful shutdown, its
                \*   last save could not be overwritten, and the wall clock was
                \*   not set since
  crashes

loadVars == <<reads, deletes, initTask, invalidData, lastSaveTime, initSave>>
observed == <<accepted, paid, due, clean, crashes>>
lifeVars == <<phase, hasKey, legacyExpiry, loadVars, observed>>
allVars == <<vars, lifeVars>>
-----------------------------------------------------------------------------
LoadFiles == {"clockTime", "expirySeconds", "expiryTime", "usedCodes", "key", "accountId"}

(* The other two are loaded once clock-time is known to be there or not. *)
FirstFiles == {"clockTime", "usedCodes", "key", "accountId"}

StateFiles == Files \cup {"expiryTime"}

FileContents(f) ==
  CASE f \in Files       -> disk[f]
    [] f = "expiryTime"  -> legacyExpiry
    [] f = "key"         -> IF hasKey THEN KeyBytes ELSE NoFile
    [] f = "accountId"   -> KeyBytes

NotRead == [step |-> "none", data |-> NoRead]
Reading == [step |-> "io", data |-> NoRead]
WasRead == [step |-> "called", data |-> NoRead]

NoTask == Attach(0)

(* A bug: the caller's own sub-operation is not counted. *)
InitTaskOfFour == ReturnBoolean(Attach(4))

(* epg_manager_init_async(): five sub-operations, its own one returned. *)
NewInitTask == ReturnBoolean(Attach(5))

FirstReads == [f \in LoadFiles |-> IF f \in FirstFiles THEN Reading ELSE NotRead]

NoReads == [f \in LoadFiles |-> NotRead]

NoDeletes == [f \in StateFiles |-> "none"]

NoCodes == [c \in Codes |-> 0]

(* A bug: the time the computer was off is not consumed. *)
CreditAsSaved(saveTime, saveCredit) == saveCredit

(* A bug: the credit is reset when it is below the limit. *)
ResetBelowLimit(saveTime, saveCredit) ==
  IF saveCredit < BOGUS_CREDIT_LOWER_LIMIT_SECS THEN BOGUS_CREDIT_RESET_SECS ELSE saveCredit

(* The credit left of what was saved, as file_load_cb() deduces it.  Time  *)
(* that went backwards is taken to have stood still.                       *)
LoadedCredit(saveTime, saveCredit) ==
  LET unaccounted == wallSecs - saveTime
      credit == saveCredit - unaccounted
  IN  IF saveTime > wallSecs THEN saveCredit
      ELSE IF unaccounted > saveCredit THEN 0
      ELSE IF /\ BOGUS_CREDIT_LOWER_LIMIT_SECS < credit
              /\ credit < BOGUS_CREDIT_UPPER_LIMIT_SECS
           THEN BOGUS_CREDIT_RESET_SECS ELSE credit

Less(credit, secs) == IF secs > credit THEN 0 ELSE credit - secs

Larger(a, b) == IF a > b THEN a ELSE b

-----------------------------------------------------------------------------
(* What is left when the process is gone: the clocks and the files. *)
Stopped ==
  /\ enabled' = TRUE
  /\ expiryTime' = 0
  /\ timer' = NoTimer
  /\ usedCodes' = NoCodes
  /\ history' = ClearedHistory
  /\ cancelled' = FALSE
  /\ pending' = 0
  /\ pendingShutdown' = FALSE
  /\ shutdownResult' = "none"
  /\ saves' = [s \in SaveSlots |-> NoSave]
  /\ rivals' = {}
  /\ savedOffset' = 0
  /\ signalled' = FALSE
  /\ jumpSecs' = 0
  /\ reads' = NoReads
  /\ deletes' = NoDeletes
  /\ initTask' = NoTask
  /\ invalidData' = FALSE
  /\ lastSaveTime' = NoFile
  /\ initSave' = NoSave

LifeInit ==
  /\ nowSecs \in StartTimes
  /\ wallSecs = nowSecs
  /\ jumpSecs = 0
  /\ enabled = TRUE
  /\ expiryTime = 0
  /\ timer = NoTimer
  /\ usedCodes = NoCodes
  /\ history = ClearedHistory
  /\ cancelled = FALSE
  /\ pending = 0
  /\ pendingShutdown = FALSE
  /\ shutdownResult = "none"
  /\ saves = [s \in SaveSlots |-> NoSave]
  /\ rivals = {}
  /\ savedOffset = 0
  /\ signalled = FALSE
  /\ disk \in InitialDisks
  /\ legacyExpiry \in InitialExpiryTimes
  /\ hasKey \in Keys
  /\ phase = "off"
  /\ reads = NoReads
  /\ deletes = NoDeletes
  /\ initTask = NoTask
  /\ invalidData = FALSE
  /\ lastSaveTime = NoFile
  /\ initSave = NoSave
  /\ accepted = NoCodes
  /\ paid = 0
  /\ due = 0
  /\ clean = FALSE
  /\ crashes = 0

(* epg_manager_init_async() on the next boot. *)
Start ==
  /\ phase = "off"
  /\ phase' = "loading"
  /\ nowSecs' \in StartTimes
  /\ enabled' \in Settings
  /\ reads' = FirstReads
  /\ initTask' = NewInitTask
  /\ UNCHANGED <<wallSecs, jumpSecs, expiryTime, timer, usedCodes, history, signalled,
                 saveVars, shutdownVars, disk, hasKey, legacyExpiry, deletes, invalidData,
                 lastSaveTime, initSave, observed>>

(* The credit runs out by the clock in every phase. *)
LifeTick ==
  /\ due' = Less(due, 1)
  /\ \/ phase # "off" /\ Tick
     \/ /\ phase = "off"
        /\ wallSecs < MaxWallclock
        /\ wallSecs' = wallSecs + 1
        /\ UNCHANGED <<nowSecs, jumpSecs, creditVars, saveVars, shutdownVars, disk>>
  /\ UNCHANGED <<phase, hasKey, legacyExpiry, loadVars, accepted, paid, clean, crashes>>

(* The jumps of a computer whose manager is not running are not reported:  *)
(* the service compares the clocks from then on.                           *)
LifeClockJump(delta) ==
  /\ wallSecs + delta \in 0 .. MaxWallclock
  /\ wallSecs' = wallSecs + delta
  /\ jumpSecs' = IF phase = "running" THEN jumpSecs + delta ELSE 0
  /\ clean' = (clean /\ phase = "running")
  /\ UNCHANGED <<nowSecs, creditVars, saveVars, shutdownVars, disk, phase, hasKey,
                 legacyExpiry, loadVars, accepted, paid, due, crashes>>
-----------------------------------------------------------------------------
(* Loading. *)

EndRead(f, result) ==
  /\ reads[f].step = "io"
  /\ reads' = [reads EXCEPT ![f] =
       [step |-> "ended", data |-> IF result = "ok" THEN FileContents(f) ELSE Unreadable]]
  /\ UNCHANGED <<vars, phase, hasKey, legacyExpiry, deletes, initTask, invalidData,
                 lastSaveTime, initSave, observed>>

(* file_load_cb() on a task that has already failed, or with an error of
   its own. *)
LoadRefused(f) ==
  /\ reads[f].step = "ended"
  /\ initTask.hadError \/ reads[f].data = Unreadable
  /\ reads' = [reads EXCEPT ![f] = WasRead]
  /\ initTask' = ReturnError(initTask)
  /\ UNCHANGED <<vars, phase, hasKey, legacyExpiry, deletes, invalidData,
                 lastSaveTime, initSave, observed>>

Loaded(f) ==
  reads[f].step = "ended" /\ ~initTask.hadError /\ reads[f].data # Unreadable

(* Clock-time also starts the load of one of the expiry files. *)
ReadsAfter(f) ==
  LET called == [reads EXCEPT ![f] = WasRead]
  IN  IF f # "clockTime" THEN called
      ELSE IF reads[f].data = NoFile
           THEN [called EXCEPT !["expiryTime"] = Reading]
           ELSE [called EXCEPT !["expirySeconds"] = Reading]

(* A bug: the load of the other file is not counted. *)
StartsNoRead(f) == FALSE

StartsRead(f) == f = "clockTime"

(* A bug: the error is returned without the deletion. *)
KeepsCorrupt(f) == [deletes EXCEPT ![f] = "err"]

Deleting(f) == [deletes EXCEPT ![f] = "io"]

(* A state file of the wrong length is deleted, "so that we don't error next
   time we start"; the sub-operation of the load itself is not returned. *)
CorruptLoaded(f) ==
  /\ Loaded(f) /\ reads[f].data = Corrupt
  /\ reads' = ReadsAfter(f)
  /\ deletes' = Deleting(f)
  /\ initTask' = IF StartsRead(f) THEN Increment(Increment(initTask))
                                  ELSE Increment(initTask)
  /\ invalidData' = TRUE
  /\ UNCHANGED <<vars, phase, hasKey, legacyExpiry, lastSaveTime, initSave, observed>>

ClockTimeLoaded ==
  /\ Loaded("clockTime") /\ reads["clockTime"].data # Corrupt
  /\ reads' = ReadsAfter("clockTime")
  /\ lastSaveTime' = IF reads["clockTime"].data \in Valueless
                     THEN lastSaveTime ELSE reads["clockTime"].data
  /\ initTask' = ReturnBoolean(Increment(initTask))
  /\ UNCHANGED <<vars, phase, hasKey, legacyExpiry, deletes, invalidData, initSave, observed>>

(* set_expiry_time() with the task of the load: a save of the state that   *)
(* has been loaded so far, which the task waits for.                       *)
SetLoadedExpiry(span, task) ==
  /\ SetExpiryTime(nowSecs, span)
  /\ IF expiryTime' # expiryTime /\ enabled
     THEN /\ InternalSave(Snapshot(wallSecs, nowSecs, expiryTime', usedCodes))
          /\ initSave' \in {s \in FreeSlots : saves'[s] # NoSave}
          /\ initTask' = ReturnBoolean(Increment(task))
     ELSE /\ initTask' = ReturnBoolean(task)
          /\ UNCHANGED <<saveVars, initSave>>

(* The deprecated file holds a time of the wall clock; once migrated it is
   deleted. *)
ExpiryTimeLoaded ==
  /\ Loaded("expiryTime") /\ reads["expiryTime"].data # Corrupt
  /\ reads' = ReadsAfter("expiryTime")
  /\ IF reads["expiryTime"].data \in Valueless
     THEN SetLoadedExpiry(0, initTask) /\ UNCHANGED deletes
     ELSE /\ SetLoadedExpiry(Less(reads["expiryTime"].data, wallSecs), Increment(initTask))
          /\ deletes' = Deleting("expiryTime")
  /\ UNCHANGED <<clockVars, enabled, usedCodes, history, shutdownVars, disk, phase, hasKey,
                 legacyExpiry, invalidData, lastSaveTime, observed>>

(* The credit is deduced from both files, of which clock-time is always the
   first: an empty clock-time leaves the expiry time unset. *)
ExpirySecondsLoaded ==
  /\ Loaded("expirySeconds") /\ reads["expirySeconds"].data # Corrupt
  /\ reads' = ReadsAfter("expirySeconds")
  /\ IF reads["expirySeconds"].data \in Valueless
     THEN SetLoadedExpiry(0, initTask)
     ELSE IF lastSaveTime # NoFile
     THEN SetLoadedExpiry(LoadedCredit(lastSaveTime, reads["expirySeconds"].data), initTask)
     ELSE /\ initTask' = ReturnBoolean(initTask)
          /\ UNCHANGED <<expiryTime, timer, signalled, saveVars, initSave>>
  /\ UNCHANGED <<clockVars, enabled, usedCodes, history, shutdownVars, disk, phase, hasKey,
                 legacyExpiry, deletes, invalidData, lastSaveTime, observed>>

UsedCodesLoaded ==
  /\ Loaded("usedCodes") /\ reads["usedCodes"].data # Corrupt
  /\ reads' = ReadsAfter("usedCodes")
  /\ usedCodes' = IF reads["usedCodes"].data \in Valueless
                  THEN NoCodes ELSE reads["usedCodes"].data
  /\ initTask' = ReturnBoolean(initTask)
  /\ UNCHANGED <<clockVars, enabled, expiryTime, timer, history, signalled, saveVars,
                 shutdownVars, disk, phase, hasKey, legacyExpiry, deletes, invalidData,
                 lastSaveTime, initSave, observed>>

(* Without a key the manager is disabled; the account ID is only kept. *)
KeyOrAccountLoaded(f) ==
  /\ f \in {"key", "accountId"} /\ Loaded(f)
  /\ reads' = ReadsAfter(f)
  /\ enabled' = (enabled /\ ~(f = "key" /\ reads[f].data = NoFile))
  /\ initTask' = ReturnBoolean(initTask)
  /\ UNCHANGED <<clockVars, expiryTime, timer, usedCodes, history, signalled, saveVars,
                 shutdownVars, disk, phase, hasKey, legacyExpiry, deletes, invalidData,
                 lastSaveTime, initSave, observed>>

EndDelete(f, result) ==
  /\ deletes[f] = "io"
  /\ deletes' = [deletes EXCEPT ![f] = result]
  /\ IF result = "ok" /\ f \in Files THEN disk' = [disk EXCEPT ![f] = NoFile]
                                     ELSE UNCHANGED disk
  /\ IF result = "ok" /\ f = "expiryTime" THEN legacyExpiry' = NoFile
                                          ELSE UNCHANGED legacyExpiry
  /\ UNCHANGED <<clockVars, creditVars, saveVars, shutdownVars, phase, hasKey, reads,
                 initTask, invalidData, lastSaveTime, initSave, observed>>

(* file_load_delete_cb() *)
FileDeleted(f) ==
  /\ deletes[f] \in {"ok", "err"}
  /\ deletes' = [deletes EXCEPT ![f] = "done"]
  /\ initTask' = IF invalidData \/ deletes[f] = "err" THEN ReturnError(initTask)
                                                     ELSE ReturnBoolean(initTask)
  /\ UNCHANGED <<vars, phase, hasKey, legacyExpiry, reads, invalidData, lastSaveTime,
                 initSave, observed>>

(* The thread pool and the callbacks of the saves.  internal_save_state_cb()
   also returns its share of the load. *)
LifeSavingIo ==
  \E s \in SaveSlots, f \in Files :
    \/ /\ \E result \in IoResults : EndFileOperation(s, f, result)
       /\ UNCHANGED lifeVars
    \/ /\ FileSaved(s, f)
       /\ IF s = initSave /\ ReturnsNow(s, f)
          THEN /\ initSave' = NoSave
               /\ initTask' = IF SaveResult(s, f) = "ok" THEN ReturnBoolean(initTask)
                                                         ELSE ReturnError(initTask)
          ELSE UNCHANGED <<initSave, initTask>>
       /\ UNCHANGED <<phase, hasKey, legacyExpiry, reads, deletes, invalidData,
                      lastSaveTime, observed>>

(* The caller of epg_manager_init_async() is told.  A service without an
   enabled provider exits. *)
InitFinish ==
  /\ phase = "loading" /\ HasReturned(initTask)
  /\ phase' = IF enabled /\ ~initTask.hadError THEN "running" ELSE "ended"
  /\ due' = IF phase' = "running" THEN CreditAt(nowSecs, expiryTime) ELSE due
  /\ UNCHANGED <<vars, hasKey, legacyExpiry, loadVars, accepted, paid, clean, crashes>>
-----------------------------------------------------------------------------
LifeHandlers ==
  /\ phase = "running"
  /\ \/ \E code \in Codes :
          /\ accepted[code] < MaxAcceptances
          /\ AcceptCode(code)
          /\ accepted' = [accepted EXCEPT ![code] = @ + 1]
          /\ paid' = paid + Span[code]
     \/ /\ \/ \E code \in Codes \cup InvalidCodes : RejectCode(code)
           \/ ClearCode
           \/ WallclockTimeChanged
           \/ ShutdownAsync
        /\ UNCHANGED <<accepted, paid>>
  /\ due' = Larger(due, CreditAt(nowSecs, expiryTime'))
  /\ UNCHANGED <<phase, hasKey, legacyExpiry, loadVars, clean, crashes>>

(* The timer is started by the load and may be ready before its end. *)
LifeCheckExpired == CheckExpired /\ UNCHANGED lifeVars

Loading ==
  \/ \E f \in LoadFiles : \/ \E result \in IoResults : EndRead(f, result)
                          \/ LoadRefused(f)
                          \/ KeyOrAccountLoaded(f)
  \/ \E f \in StateFiles : \/ CorruptLoaded(f)
                           \/ \E result \in IoResults : EndDelete(f, result)
                           \/ FileDeleted(f)
  \/ ClockTimeLoaded
  \/ ExpiryTimeLoaded
  \/ ExpirySecondsLoaded
  \/ UsedCodesLoaded
  \/ InitFinish

(* The process ends, with the operations that are still running. *)
Exit ==
  /\ phase = "ended" \/ shutdownResult # "none"
  /\ phase' = "off"
  /\ clean' = /\ shutdownResult = "ok" /\ SavedAlone
              /\ wallSecs - nowSecs = savedOffset
  /\ due' = IF clean' THEN CreditAt(nowSecs, expiryTime) ELSE due
  /\ Stopped
  /\ UNCHANGED <<nowSecs, wallSecs, disk, hasKey, legacyExpiry, accepted, paid, crashes>>

Crash ==
  /\ phase # "off" /\ crashes < MaxCrashes
  /\ crashes' = crashes + 1
  /\ phase' = "off"
  /\ clean' = FALSE
  /\ Stopped
  /\ UNCHANGED <<nowSecs, wallSecs, disk, hasKey, legacyExpiry, accepted, paid, due>>

LifeNext ==
  \/ Start
  \/ LifeTick
  \/ \E delta \in JumpDeltas : LifeClockJump(delta)
  \/ Loading
  \/ LifeHandlers
  \/ LifeCheckExpired
  \/ LifeSavingIo
  \/ Exit
  \/ Crash

LifeSpec == LifeInit /\ [][LifeNext]_allVars

(* The thread pool ends what it was given, the main loop dispatches every  *)
(* ready callback, a process that has ended exits and the computer is      *)
(* turned on again.                                                        *)
LifeFairness ==
  /\ WF_allVars(Start)
  /\ WF_allVars(Exit)
  /\ WF_allVars(InitFinish)
  /\ WF_allVars(Loading)
  /\ WF_allVars(LifeSavingIo)

LifeFairSpec == LifeSpec /\ LifeFairness
-----------------------------------------------------------------------------
FileValues(f) ==
  CASE f = "usedCodes"          -> CodeCounts \cup Valueless
    [] f \in {"key", "accountId"} -> {KeyBytes, NoFile}
    [] OTHER                    -> Nat \cup Valueless

ReadStates(f) ==
  [step : {"none", "io", "called"}, data : {NoRead}]
    \cup [step : {"ended"}, data : FileValues(f) \cup {Unreadable}]

LifeTypeOK ==
  /\ phase \in {"off", "loading", "running", "ended"}
  /\ hasKey \in BOOLEAN
  /\ legacyExpiry \in Nat \cup Valueless
  /\ DOMAIN reads = LoadFiles /\ \A f \in LoadFiles : reads[f] \in ReadStates(f)
  /\ deletes \in [StateFiles -> {"none", "io", "ok", "err", "done"}]
  /\ initTask \in MultiTasks
  /\ invalidData \in BOOLEAN
  /\ lastSaveTime \in Nat \cup {NoFile}
  /\ initSave \in SaveSlots \cup {NoSave}
  /\ accepted \in CodeCounts
  /\ paid \in Nat
  /\ due \in Nat
  /\ clean \in BOOLEAN
  /\ crashes \in 0 .. MaxCrashes

(* What epg_manager_init_async() waits for. *)
LoadOperations ==
  [loads   |-> {f \in LoadFiles : reads[f].step \in {"io", "ended"}},
   deletes |-> {f \in StateFiles : deletes[f] \in {"io", "ok", "err"}},
   saves   |-> {initSave} \ {NoSave}]

Outstanding ==
  Cardinality(LoadOperations.loads) + Cardinality(LoadOperations.deletes)
    + Cardinality(LoadOperations.saves)

(* The load counts its operations exactly until it finds an error: it      *)
(* cannot report success while a file is being read, deleted or saved, and *)
(* no callback takes the counter below zero.  A corrupt file's load is     *)
(* counted on behalf of the error that will be returned.                   *)
LoadCountsOperations ==
  phase = "loading" /\ ~initTask.hadError =>
    IF invalidData THEN initTask.pending > Outstanding
                   ELSE initTask.pending = Outstanding

(* A manager runs only once all of its state was loaded, from exactly one  *)
(* of the expiry files, and nothing of the load is left that could change  *)
(* or overwrite its state later.                                           *)
RunsFullyLoaded ==
  phase = "running" =>
    /\ Outstanding = 0
    /\ \A f \in FirstFiles : reads[f].step = "called"
    /\ \E f \in {"expiryTime", "expirySeconds"} : reads[f].step = "called"

(* A successful shutdown, the time the computer is off and the next load   *)
(* together neither give away credit nor lose any: the credit that is left *)
(* is that of the last life less the time that has passed.                 *)
CreditSurvivesRestart ==
  phase = "loading" /\ HasReturned(initTask) /\ ~initTask.hadError /\ enabled /\ clean =>
    CreditAt(nowSecs, expiryTime) = due

(* No sequence of starts, failures and crashes makes credit out of nothing. *)
CreditWithinPaid ==
  phase = "running" => CreditAt(nowSecs, expiryTime) <= paid

(* A load never finds more credit than there has been at any time before,  *)
(* less the time that has passed since: time that the computer was off is  *)
(* paid for.                                                               *)
NoFreeCredit ==
  phase = "loading" /\ HasReturned(initTask) /\ ~initTask.hadError /\ enabled =>
    CreditAt(nowSecs, expiryTime) <= due

(* A code that "has not been used already" is accepted, and only once. *)
NoCodeAcceptedTwice == \A c \in Codes : accepted[c] <= 1

(* A computer whose state files are corrupt starts in the end. *)
Recovers == []<>(phase = "running")
=============================================================================
