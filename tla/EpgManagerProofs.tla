--------------------------- MODULE EpgManagerProofs ---------------------------
(***************************************************************************)
(* Theorems about EpgManager for every set of codes, every bound on the    *)
(* saves in flight and every outcome of the file operations.               *)
(***************************************************************************)
EXTENDS EpgManager, FiniteSetTheorems, TLAPS

(* The sub-operations that a save's task waits for are its files whose     *)
(* callbacks have not run, counted file by file.                           *)
FilesLeft(save) ==
    (IF save.op["clockTime"] = "done" THEN 0 ELSE 1)
  + (IF save.op["expirySeconds"] = "done" THEN 0 ELSE 1)
  + (IF save.op["usedCodes"] = "done" THEN 0 ELSE 1)

TasksCountFiles ==
  \A s \in SaveSlots : IsSave(s) =>
    /\ saves[s].task.pending = FilesLeft(saves[s])
    /\ saves[s].task.pending > 0

(* There is one shutdown, so there is one save made by it. *)
OneShutdownSave ==
  /\ \A s \in SaveSlots : IsSave(s) /\ saves[s].kind = "shutdown" => cancelled
  /\ \A s, t \in SaveSlots :
       /\ IsSave(s) /\ saves[s].kind = "shutdown"
       /\ IsSave(t) /\ saves[t].kind = "shutdown"
       => s = t

TypeInv == TypeOK /\ TasksCountFiles

ShutdownInv ==
  TypeInv /\ PendingCountsSaves /\ OneShutdownSave /\ ShutdownNotLost

-----------------------------------------------------------------------------
(* Starting a save. *)

LEMMA NewSaveType ==
  ASSUME NEW kind \in {"internal", "shutdown"}, NEW data \in Contents
  PROVE  /\ NewSave(kind, data) \in Saves
         /\ NewSave(kind, data) # NoSave
         /\ NewSave(kind, data).task.pending = 3
         /\ ~NewSave(kind, data).task.hadError
         /\ NewSave(kind, data).kind = kind
         /\ FilesLeft(NewSave(kind, data)) = 3
<1>1. ReturnBoolean(Attach(4)) = [pending |-> 3, hadError |-> FALSE]
  BY DEF ReturnBoolean, Attach
<1>2. ReturnBoolean(Attach(4)) \in MultiTasks
  BY DEF ReturnBoolean, Attach, MultiTasks
<1>3. [f \in Files |-> "io"] \in [Files -> OpStates]
  BY DEF OpStates
<1>4. NewSave(kind, data) \in Saves
  BY <1>2, <1>3 DEF NewSave, Saves
<1>5. FilesLeft(NewSave(kind, data)) = 3
  BY DEF FilesLeft, NewSave, Files
<1> QED
  BY <1>1, <1>4, <1>5, NoSaveAssumption DEF NewSave

LEMMA SaveStateType ==
  ASSUME TypeInv, NEW kind \in {"internal", "shutdown"}, NEW data \in Contents,
         SaveState(kind, data)
  PROVE  /\ saves' \in [SaveSlots -> Saves \cup {NoSave}]
         /\ rivals' \in SUBSET Contents /\ savedOffset' \in Int
         /\ TasksCountFiles'
<1>1. PICK s \in FreeSlots : saves' = [saves EXCEPT ![s] = NewSave(kind, data)]
  BY DEF SaveState
<1>2. s \in SaveSlots
  BY DEF FreeSlots
<1>3. saves' \in [SaveSlots -> Saves \cup {NoSave}]
  BY <1>1, NewSaveType DEF TypeInv, TypeOK
<1>4. ASSUME NEW t \in SaveSlots, saves'[t] # NoSave
      PROVE  /\ saves'[t].task.pending = FilesLeft(saves'[t])
             /\ saves'[t].task.pending > 0
  <2>1. CASE t = s
    BY <1>1, <1>2, <2>1, NewSaveType DEF TypeInv, TypeOK
  <2>2. CASE t # s
    BY <1>1, <1>4, <2>2 DEF TypeInv, TypeOK, TasksCountFiles, IsSave, FilesLeft
  <2> QED BY <2>1, <2>2
<1>5. TasksCountFiles'
  BY <1>4 DEF TasksCountFiles, IsSave, FilesLeft
<1>6. rivals' \in SUBSET Contents /\ savedOffset' \in Int
  BY EpgManagerAssumption DEF SaveState, TypeInv, TypeOK
<1> QED BY <1>3, <1>5, <1>6

LEMMA SnapshotType ==
  ASSUME NEW wall \in Nat, NEW now \in Nat, NEW expiry \in Nat, NEW codes \in CodeCounts
  PROVE  Snapshot(wall, now, expiry, codes) \in Contents
BY DEF Snapshot, Contents, CreditAt

-----------------------------------------------------------------------------
(* The expiry time and its timer. *)

LEMMA NewTimerType ==
  ASSUME TypeOK, NEW secs \in Nat
  PROVE  NewTimer(secs) \in Timers
BY EpgManagerAssumption DEF TypeOK, NewTimer, NoTimer, Timers, TimerInterval

LEMMA NoTimerType == NoTimer \in Timers
BY DEF NoTimer, Timers

LEMMA SetExpiryTimeType ==
  ASSUME TypeOK, NEW base \in 0 .. G_MAXUINT64, NEW span \in Nat,
         SetExpiryTime(base, span)
  PROVE  /\ expiryTime' \in 0 .. G_MAXUINT64
         /\ timer' \in Timers
         /\ signalled' \in BOOLEAN
<1> DEFINE end == AddClamped(base, span)
<1>1. end \in 0 .. G_MAXUINT64 /\ end - base \in Nat
  BY RateLimitAssumption DEF AddClamped
<1>2. NewTimer(end - base) \in Timers
  BY <1>1, NewTimerType
<1> HIDE DEF end
<1>3. CASE /\ expiryTime' = end
           /\ timer' = IF end = G_MAXUINT64 THEN NoTimer ELSE NewTimer(end - base)
           /\ signalled' = (signalled /\ end = expiryTime)
  BY <1>1, <1>2, <1>3, NoTimerType
<1>4. CASE /\ expiryTime' = base
           /\ timer' = NoTimer
           /\ signalled' = \/ signalled /\ base = expiryTime
                           \/ enabled /\ base <= nowSecs
  BY <1>4, NoTimerType
<1> QED
  BY <1>3, <1>4 DEF SetExpiryTime, end

LEMMA RearmedType ==
  ASSUME TypeOK, TimerIsReady
  PROVE  Rearmed \in Timers
<1>1. timer.interval \in Nat \ {0} /\ timer.next \in Nat /\ nowSecs - timer.next \in Nat
  BY DEF TypeOK, Timers, TimerIsReady
<1>2. (nowSecs - timer.next) \div timer.interval \in Nat
  BY <1>1
<1>3. \A a, b \in Nat : a * (b + 1) \in Nat
  OBVIOUS
<1>4. timer.next + timer.interval * ((nowSecs - timer.next) \div timer.interval + 1) \in Nat
  BY <1>1, <1>2, <1>3
<1> QED
  BY <1>1, <1>4 DEF Rearmed, TypeOK, Timers

LEMMA PushAttemptType ==
  ASSUME TypeOK
  PROVE  PushAttempt(history, nowSecs) \in Histories
BY RateLimitAssumption, EpgManagerAssumption DEF TypeOK, PushAttempt, Histories, Attempts

LEMMA ClearedHistoryType == ClearedHistory \in Histories
BY RateLimitAssumption DEF ClearedHistory, Histories

-----------------------------------------------------------------------------
(* Type correctness, with the count that each save's task keeps. *)

LEMMA InitTypeInv == Init => TypeInv
<1> SUFFICES ASSUME Init PROVE TypeInv
  OBVIOUS
<1> USE EpgManagerAssumption, RateLimitAssumption
<1>1. nowSecs \in 0 .. MaxBoottime /\ nowSecs \in 0 .. MaxWallclock /\ nowSecs \in Nat
  BY DEF Init
<1>2. PICK credit \in StartCredits :
        /\ expiryTime = nowSecs + credit
        /\ timer = IF expiryTime = G_MAXUINT64 THEN NoTimer ELSE NewTimer(credit)
  BY DEF Init
<1>3. expiryTime \in 0 .. G_MAXUINT64 /\ credit \in Nat
  BY <1>1, <1>2 DEF Init
<1>4. timer \in Timers
  BY <1>1, <1>2, <1>3 DEF NewTimer, NoTimer, Timers, TimerInterval
<1>5. usedCodes \in CodeCounts
  BY DEF Init, CodeCounts
<1>6. disk \in DiskContents
  <2>1. disk \in Contents
    BY <1>1, <1>3, <1>5, SnapshotType DEF Init
  <2> QED BY <2>1 DEF Contents, DiskContents
<1>7. history \in Histories
  BY ClearedHistoryType DEF Init
<1>8. saves \in [SaveSlots -> Saves \cup {NoSave}]
  BY DEF Init
<1>9. TypeOK
  <2>1. /\ jumpSecs \in Int /\ pending \in Nat /\ wallSecs \in 0 .. MaxWallclock
        /\ rivals \in SUBSET Contents /\ savedOffset \in Int
        /\ shutdownResult \in {"none", "ok", "err"}
    BY <1>1 DEF Init
  <2>2. /\ enabled \in BOOLEAN /\ cancelled \in BOOLEAN
        /\ pendingShutdown \in BOOLEAN /\ signalled \in BOOLEAN
    BY Zenon DEF Init
  <2> QED BY <1>1, <1>3, <1>4, <1>5, <1>6, <1>7, <1>8, <2>1, <2>2 DEF TypeOK
<1>10. TasksCountFiles
  BY DEF Init, TasksCountFiles, IsSave
<1> QED
  BY <1>9, <1>10 DEF TypeInv

(* What the step of a handler that starts an internal save leaves to show. *)
LEMMA InternalSaveType ==
  ASSUME TypeInv, NEW data \in Contents, InternalSave(data)
  PROVE  /\ saves' \in [SaveSlots -> Saves \cup {NoSave}]
         /\ pending' \in Nat
         /\ rivals' \in SUBSET Contents /\ savedOffset' \in Int
         /\ TasksCountFiles'
BY SaveStateType DEF InternalSave, TypeInv, TypeOK

LEMMA TasksUnchanged ==
  TasksCountFiles /\ UNCHANGED saves => TasksCountFiles'
BY DEF TasksCountFiles, IsSave, FilesLeft

LEMMA EnvironmentTypeInv == TypeInv /\ Environment => TypeInv'
<1> SUFFICES ASSUME TypeInv, Environment PROVE TypeInv'
  OBVIOUS
<1> USE EpgManagerAssumption DEF TypeInv
<1>1. CASE Tick
  <2>1. TypeOK'
    BY <1>1 DEF Tick, TypeOK, creditVars, saveVars, shutdownVars
  <2> QED BY <1>1, <2>1, TasksUnchanged DEF Tick, saveVars
<1>2. ASSUME NEW delta \in JumpDeltas, ClockJump(delta)
      PROVE  TypeInv'
  <2>1. TypeOK'
    BY <1>2 DEF ClockJump, TypeOK, creditVars, saveVars, shutdownVars
  <2> QED BY <1>2, <2>1, TasksUnchanged DEF ClockJump, saveVars
<1> QED BY <1>1, <1>2 DEF Environment

LEMMA HandlersTypeInv == TypeInv /\ Handlers => TypeInv'
<1> SUFFICES ASSUME TypeInv, Handlers PROVE TypeInv'
  OBVIOUS
<1>0. TypeOK /\ TasksCountFiles
  BY DEF TypeInv
<1>n. nowSecs \in Nat /\ wallSecs \in Nat /\ nowSecs \in 0 .. G_MAXUINT64
  BY <1>0, EpgManagerAssumption, RateLimitAssumption DEF TypeOK
<1>1. ASSUME NEW code \in Codes \cup InvalidCodes, RejectCode(code)
      PROVE  TypeInv'
  <2>1. history' \in Histories
    BY <1>0, <1>1, PushAttemptType DEF RejectCode
  <2>2. TypeOK'
    BY <1>0, <1>1, <2>1 DEF RejectCode, TypeOK, clockVars, saveVars, shutdownVars
  <2> QED BY <1>0, <1>1, <2>2, TasksUnchanged DEF RejectCode, saveVars, TypeInv
<1>2. ASSUME NEW code \in Codes, AcceptCode(code)
      PROVE  TypeInv'
  <2>1. usedCodes' \in CodeCounts
    BY <1>0, <1>2 DEF AcceptCode, TypeOK, CodeCounts
  <2>2. Span[code] \in Nat
    BY EpgManagerAssumption, RateLimitAssumption
  <2>3. (IF nowSecs < expiryTime THEN expiryTime ELSE nowSecs) \in 0 .. G_MAXUINT64
    BY <1>0, <1>n DEF TypeOK
  <2>4. /\ expiryTime' \in 0 .. G_MAXUINT64
        /\ timer' \in Timers
        /\ signalled' \in BOOLEAN
    BY <1>0, <1>2, <2>2, <2>3, SetExpiryTimeType DEF AcceptCode
  <2>5. Snapshot(wallSecs, nowSecs, expiryTime', usedCodes') \in Contents
    BY <1>n, <2>1, <2>4, RateLimitAssumption, SnapshotType
  <2>6. /\ saves' \in [SaveSlots -> Saves \cup {NoSave}]
        /\ pending' \in Nat
        /\ rivals' \in SUBSET Contents /\ savedOffset' \in Int
        /\ TasksCountFiles'
    BY <1>2, <2>5, InternalSaveType DEF AcceptCode
  <2>7. history' \in Histories
    BY <1>2, ClearedHistoryType DEF AcceptCode
  <2>8. TypeOK'
    BY <1>0, <1>2, <2>1, <2>4, <2>6, <2>7 DEF AcceptCode, TypeOK, clockVars, shutdownVars
  <2> QED BY <2>6, <2>8 DEF TypeInv
<1>3. CASE ClearCode
  <2>1. Snapshot(wallSecs, nowSecs, 0, usedCodes) \in Contents
    BY <1>0, <1>n, SnapshotType DEF TypeOK
  <2>2. /\ saves' \in [SaveSlots -> Saves \cup {NoSave}]
        /\ pending' \in Nat
        /\ rivals' \in SUBSET Contents /\ savedOffset' \in Int
        /\ TasksCountFiles'
    BY <1>3, <2>1, InternalSaveType DEF ClearCode
  <2>3. TypeOK'
    BY <1>0, <1>3, <2>2, NoTimerType, RateLimitAssumption
    DEF ClearCode, TypeOK, clockVars, shutdownVars
  <2> QED BY <2>2, <2>3 DEF TypeInv
<1>4. CASE WallclockTimeChanged
  <2>1. /\ expiryTime' \in 0 .. G_MAXUINT64
        /\ timer' \in Timers
        /\ signalled' \in BOOLEAN
    <3>1. CASE jumpSecs > 0 /\ nowSecs < expiryTime
      <4> DEFINE credit == expiryTime - nowSecs
                 span == IF jumpSecs > credit THEN 0 ELSE credit - jumpSecs
      <4>1. span \in Nat
        BY <1>0, <1>n, <3>1 DEF TypeOK
      <4>2. SetExpiryTime(nowSecs, span)
        BY <1>4, <3>1 DEF WallclockTimeChanged
      <4> HIDE DEF span
      <4> QED BY <1>0, <1>n, <4>1, <4>2, SetExpiryTimeType
    <3>2. CASE ~(jumpSecs > 0 /\ nowSecs < expiryTime)
      BY <1>0, <1>4, <3>2 DEF WallclockTimeChanged, TypeOK
    <3> QED BY <3>1, <3>2
  <2>2. Snapshot(wallSecs, nowSecs, expiryTime', usedCodes) \in Contents
    BY <1>0, <1>n, <2>1, RateLimitAssumption, SnapshotType DEF TypeOK
  <2>3. /\ saves' \in [SaveSlots -> Saves \cup {NoSave}]
        /\ pending' \in Nat
        /\ rivals' \in SUBSET Contents /\ savedOffset' \in Int
        /\ TasksCountFiles'
    BY <1>4, <2>2, InternalSaveType DEF WallclockTimeChanged
  <2>4. TypeOK'
    BY <1>0, <1>4, <2>1, <2>3 DEF WallclockTimeChanged, TypeOK, shutdownVars
  <2> QED BY <2>3, <2>4 DEF TypeInv
<1>5. CASE CheckExpired
  <2>1. timer' \in Timers
    BY <1>0, <1>5, RearmedType, NoTimerType DEF CheckExpired
  <2>2. TypeOK'
    BY <1>0, <1>5, <2>1 DEF CheckExpired, TypeOK, clockVars, saveVars, shutdownVars
  <2> QED BY <1>0, <1>5, <2>2, TasksUnchanged DEF CheckExpired, saveVars, TypeInv
<1>6. CASE ShutdownAsync
  <2>1. CASE SaveState("shutdown", Snapshot(wallSecs, nowSecs, expiryTime, usedCodes))
    <3>1. Snapshot(wallSecs, nowSecs, expiryTime, usedCodes) \in Contents
      BY <1>0, <1>n, SnapshotType DEF TypeOK
    <3>2. /\ saves' \in [SaveSlots -> Saves \cup {NoSave}] /\ TasksCountFiles'
          /\ rivals' \in SUBSET Contents /\ savedOffset' \in Int
      BY <2>1, <3>1, SaveStateType
    <3>3. TypeOK'
      BY <1>0, <1>6, <3>2 DEF ShutdownAsync, TypeOK, clockVars, creditVars
    <3> QED BY <3>2, <3>3 DEF TypeInv
  <2>2. CASE UNCHANGED <<saves, rivals, savedOffset>>
    <3>1. TypeOK'
      BY <1>0, <1>6, <2>2 DEF ShutdownAsync, TypeOK, clockVars, creditVars
    <3> QED BY <1>0, <2>2, <3>1, TasksUnchanged DEF TypeInv
  <2> QED BY <1>6, <2>1, <2>2 DEF ShutdownAsync
<1> QED
  BY <1>1, <1>2, <1>3, <1>4, <1>5, <1>6 DEF Handlers

LEMMA TaskAfterType ==
  ASSUME TypeInv, NEW s \in SaveSlots, NEW f \in Files, IsSave(s)
  PROVE  /\ TaskAfter(s, f) \in MultiTasks
         /\ TaskAfter(s, f).pending = saves[s].task.pending - 1
         /\ saves[s].op[f] = "ok" => TaskAfter(s, f).hadError = saves[s].task.hadError
         /\ saves[s].op[f] # "ok" => TaskAfter(s, f).hadError
<1>1. saves[s] \in Saves
  BY DEF TypeInv, TypeOK, IsSave
<1>2. saves[s].task \in MultiTasks /\ saves[s].task.pending > 0
  BY <1>1 DEF Saves, TypeInv, TasksCountFiles
<1>3. CASE saves[s].op[f] = "ok"
  BY <1>2, <1>3 DEF TaskAfter, ReturnBoolean, MultiTasks
<1>4. CASE saves[s].op[f] # "ok"
  <2>1. TaskAfter(s, f) = [pending |-> saves[s].task.pending - 1, hadError |-> TRUE]
    BY <1>4 DEF TaskAfter, ReturnError
  <2>2. saves[s].task.pending - 1 \in Nat
    BY <1>2 DEF MultiTasks
  <2>3. TaskAfter(s, f) \in MultiTasks /\ TaskAfter(s, f).pending = saves[s].task.pending - 1
    BY <2>1, <2>2 DEF MultiTasks
  <2>4. TaskAfter(s, f).hadError
    BY <2>1
  <2> QED BY <1>4, <2>3, <2>4
<1> QED BY <1>3, <1>4

(* The step of FileSaved() on the save that it is about. *)
LEMMA FileSavedSave ==
  ASSUME TypeInv, NEW s \in SaveSlots, NEW f \in Files,
         IsSave(s), saves[s].op[f] # "done"
  PROVE  LET save == [saves[s] EXCEPT !.op[f] = "done", !.task = TaskAfter(s, f)]
         IN  /\ save \in Saves
             /\ save.kind = saves[s].kind
             /\ save.task = TaskAfter(s, f)
             /\ save.task.pending = FilesLeft(save)
             /\ (\A g \in Files : save.op[g] = "done") <=> save.task.pending = 0
<1> DEFINE save == [saves[s] EXCEPT !.op[f] = "done", !.task = TaskAfter(s, f)]
<1>1. saves[s] \in Saves
  BY DEF TypeInv, TypeOK, IsSave
<1>2. TaskAfter(s, f) \in MultiTasks
  BY TaskAfterType
<1>3. /\ save.kind = saves[s].kind /\ save.data = saves[s].data
      /\ save.task = TaskAfter(s, f)
      /\ save.op = [saves[s].op EXCEPT ![f] = "done"]
  BY <1>1 DEF Saves
<1>4. save \in Saves
  BY <1>1, <1>2 DEF Saves, OpStates
<1>5. save.task.pending = FilesLeft(save)
  <2>1. FilesLeft(save) = FilesLeft(saves[s]) - 1
    BY <1>1, <1>3 DEF FilesLeft, Saves, Files
  <2>2. saves[s].task.pending = FilesLeft(saves[s])
    BY DEF TypeInv, TasksCountFiles
  <2> QED BY <1>3, <2>1, <2>2, TaskAfterType
<1>6. (\A g \in Files : save.op[g] = "done") <=> FilesLeft(save) = 0
  BY DEF FilesLeft, Files
<1> QED BY <1>3, <1>4, <1>5, <1>6

LEMMA UnreturnedFinite ==
  ASSUME NEW kind
  PROVE  IsFiniteSet(UnreturnedSaves(kind))
BY EpgManagerAssumption, FS_Subset DEF UnreturnedSaves

LEMMA SavingIoTypeInv == TypeInv /\ PendingCountsSaves /\ SavingIo => TypeInv'
<1> SUFFICES ASSUME TypeInv, PendingCountsSaves, NEW s \in SaveSlots, NEW f \in Files,
                    \/ \E result \in IoResults : EndFileOperation(s, f, result)
                    \/ FileSaved(s, f)
             PROVE  TypeInv'
  BY DEF SavingIo
<1>0. TypeOK /\ TasksCountFiles
  BY DEF TypeInv
<1>1. ASSUME NEW result \in IoResults, EndFileOperation(s, f, result)
      PROVE  TypeInv'
  <2>1. /\ saves[s] \in Saves /\ saves[s] # NoSave /\ saves[s].op[f] = "io"
        /\ saves' = [saves EXCEPT ![s].op[f] = result]
    BY <1>0, <1>1 DEF EndFileOperation, TypeOK, IsSave
  <2>2. result \in {"ok", "err"}
    BY EpgManagerAssumption
  <2> DEFINE save == [saves[s] EXCEPT !.op[f] = result]
  <2>3. save \in Saves /\ save.op = [saves[s].op EXCEPT ![f] = result] /\ save.task = saves[s].task
    BY <2>1, <2>2 DEF Saves, OpStates
  <2>4. saves' = [saves EXCEPT ![s] = save]
    BY <2>1
  <2>5. FilesLeft(save) = FilesLeft(saves[s])
    BY <2>1, <2>2, <2>3 DEF FilesLeft, Saves, Files
  <2> HIDE DEF save
  <2>6. saves' \in [SaveSlots -> Saves \cup {NoSave}]
    BY <1>0, <2>3, <2>4 DEF TypeOK
  <2>7. disk' \in DiskContents
    <3>1. saves[s].data \in Contents
      BY <2>1 DEF Saves
    <3>2. [disk EXCEPT ![f] = saves[s].data[f]] \in DiskContents
      BY <1>0, <3>1 DEF TypeOK, DiskContents, Contents, Files
    <3> QED BY <1>0, <1>1, <3>2 DEF EndFileOperation, TypeOK
  <2>8. TasksCountFiles'
    <3> SUFFICES ASSUME NEW t \in SaveSlots, saves'[t] # NoSave
                 PROVE  /\ saves'[t].task.pending = FilesLeft(saves'[t])
                        /\ saves'[t].task.pending > 0
      BY DEF TasksCountFiles, IsSave, FilesLeft
    <3>1. CASE t = s
      BY <1>0, <2>1, <2>3, <2>4, <2>5, <3>1 DEF TypeOK, TasksCountFiles, IsSave
    <3>2. CASE t # s
      BY <1>0, <2>4, <3>2 DEF TypeOK, TasksCountFiles, IsSave, FilesLeft
    <3> QED BY <3>1, <3>2
  <2>9. TypeOK'
    BY <1>0, <1>1, <2>6, <2>7 DEF EndFileOperation, TypeOK, clockVars, creditVars, shutdownVars
  <2> QED BY <2>8, <2>9 DEF TypeInv
<1>2. CASE FileSaved(s, f)
  <2> DEFINE save == [saves[s] EXCEPT !.op[f] = "done", !.task = TaskAfter(s, f)]
             over == \A g \in Files : save.op[g] = "done"
  <2>1. /\ IsSave(s) /\ saves[s].op[f] \in {"ok", "err"}
        /\ saves' = [saves EXCEPT ![s] = IF over THEN NoSave ELSE save]
    BY <1>2 DEF FileSaved
  <2>2. /\ save \in Saves /\ save.task.pending = FilesLeft(save)
        /\ over <=> save.task.pending = 0
    BY <2>1, FileSavedSave
  <2> HIDE DEF save, over
  <2>3. saves' \in [SaveSlots -> Saves \cup {NoSave}]
    BY <1>0, <2>1, <2>2 DEF TypeOK
  <2>4. TasksCountFiles'
    <3> SUFFICES ASSUME NEW t \in SaveSlots, saves'[t] # NoSave
                 PROVE  /\ saves'[t].task.pending = FilesLeft(saves'[t])
                        /\ saves'[t].task.pending > 0
      BY DEF TasksCountFiles, IsSave, FilesLeft
    <3>1. CASE t = s
      <4>1. saves'[t] = save /\ ~over
        BY <1>0, <2>1, <3>1 DEF TypeOK
      <4>2. save.task.pending \in Nat
        BY <2>2 DEF Saves, MultiTasks
      <4> QED BY <2>2, <4>1, <4>2
    <3>2. CASE t # s
      BY <1>0, <2>1, <3>2 DEF TypeOK, TasksCountFiles, IsSave, FilesLeft
    <3> QED BY <3>1, <3>2
  <2>5. /\ pending' \in Nat
        /\ pendingShutdown' \in BOOLEAN
        /\ shutdownResult' \in {"none", "ok", "err"}
    <3>1. ReturnsNow(s, f) /\ saves[s].kind = "internal" => pending > 0
      <4>1. ReturnsNow(s, f) /\ saves[s].kind = "internal" => s \in UnreturnedSaves("internal")
        BY <2>1 DEF ReturnsNow, UnreturnedSaves
      <4> QED BY <1>0, <4>1, UnreturnedFinite, FS_EmptySet DEF PendingCountsSaves, TypeOK
    <3>2. SaveResult(s, f) \in {"ok", "err"}
      BY DEF SaveResult
    <3>3. CASE ReturnsNow(s, f) /\ saves[s].kind = "internal"
      <4>1. InternalSaveReturns(SaveResult(s, f))
        BY <1>2, <3>3 DEF FileSaved
      <4>2. pending' \in Nat
        BY <1>0, <3>1, <3>3, <4>1 DEF InternalSaveReturns, TypeOK
      <4>3. CASE pending' = 0 /\ pendingShutdown
        BY <3>2, <4>1, <4>2, <4>3 DEF InternalSaveReturns
      <4>4. CASE ~(pending' = 0 /\ pendingShutdown)
        BY <1>0, <4>1, <4>2, <4>4 DEF InternalSaveReturns, TypeOK
      <4> QED BY <4>3, <4>4
    <3>4. CASE ReturnsNow(s, f) /\ saves[s].kind # "internal"
      BY <1>0, <1>2, <3>2, <3>4 DEF FileSaved, ShutdownSaveReturns, TypeOK
    <3>5. CASE ~ReturnsNow(s, f)
      BY <1>0, <1>2, <3>5 DEF FileSaved, TypeOK
    <3> QED BY <3>3, <3>4, <3>5
  <2>6. TypeOK'
    BY <1>0, <1>2, <2>3, <2>5 DEF FileSaved, TypeOK, clockVars, creditVars
  <2> QED BY <2>4, <2>6 DEF TypeInv
<1> QED BY <1>1, <1>2

(* The type invariant carries over every step, provided the counter of     *)
(* internal saves is right: it is decremented without a test.              *)
LEMMA NextTypeInv == TypeInv /\ PendingCountsSaves /\ [Next]_vars => TypeInv'
<1>1. TypeInv /\ UNCHANGED vars => TypeInv'
  <2> SUFFICES ASSUME TypeInv, UNCHANGED vars PROVE TypeInv'
    OBVIOUS
  <2>1. TypeOK'
    BY DEF TypeInv, TypeOK, vars, clockVars, creditVars, saveVars, shutdownVars
  <2> QED BY <2>1, TasksUnchanged DEF TypeInv, vars, saveVars
<1> QED BY <1>1, EnvironmentTypeInv, HandlersTypeInv, SavingIoTypeInv DEF Next

-----------------------------------------------------------------------------
(* How steps change the set of the saves that have not returned. *)

LEMMA SaveStateUnreturned ==
  ASSUME TypeInv, NEW kind \in {"internal", "shutdown"}, NEW data \in Contents,
         SaveState(kind, data)
  PROVE  \E s \in SaveSlots :
           /\ ~IsSave(s)
           /\ IsSave(s)' /\ saves'[s].kind = kind
           /\ \A t \in SaveSlots \ {s} : saves'[t] = saves[t]
           /\ s \notin UnreturnedSaves(kind)
           /\ UnreturnedSaves(kind)' = UnreturnedSaves(kind) \cup {s}
           /\ \A other \in {"internal", "shutdown"} \ {kind} :
                UnreturnedSaves(other)' = UnreturnedSaves(other)
<1>1. PICK s \in FreeSlots : saves' = [saves EXCEPT ![s] = NewSave(kind, data)]
  BY DEF SaveState
<1>2. s \in SaveSlots /\ ~IsSave(s)
  BY DEF FreeSlots
<1>3. saves'[s] = NewSave(kind, data) /\ \A t \in SaveSlots \ {s} : saves'[t] = saves[t]
  BY <1>1, <1>2 DEF TypeInv, TypeOK
<1>4. IsSave(s)' /\ saves'[s].kind = kind /\ ~HasReturned(saves'[s].task)
  BY <1>3, NewSaveType DEF IsSave, HasReturned
<1>5. s \notin UnreturnedSaves(kind)
  BY <1>2 DEF UnreturnedSaves
<1>6. UnreturnedSaves(kind)' = UnreturnedSaves(kind) \cup {s}
  BY <1>2, <1>3, <1>4 DEF UnreturnedSaves, IsSave, HasReturned
<1>7. ASSUME NEW other \in {"internal", "shutdown"} \ {kind}
      PROVE  UnreturnedSaves(other)' = UnreturnedSaves(other)
  BY <1>2, <1>3, <1>4 DEF UnreturnedSaves, IsSave, HasReturned
<1> QED BY <1>2, <1>3, <1>4, <1>5, <1>6, <1>7

(* A step that changes neither a task nor a kind of a save. *)
LEMMA SameTasksInv ==
  ASSUME ShutdownInv, UNCHANGED <<pending, shutdownVars>>,
         \A s \in SaveSlots :
           /\ saves'[s] # NoSave <=> IsSave(s)
           /\ IsSave(s) => /\ saves'[s].kind = saves[s].kind
                           /\ saves'[s].task = saves[s].task
  PROVE  PendingCountsSaves' /\ OneShutdownSave' /\ ShutdownNotLost'
<1>1. \A kind : UnreturnedSaves(kind)' = UnreturnedSaves(kind)
  BY DEF UnreturnedSaves, IsSave, HasReturned
<1>2. PendingCountsSaves'
  BY <1>1 DEF ShutdownInv, PendingCountsSaves
<1>3. OneShutdownSave'
  BY DEF ShutdownInv, OneShutdownSave, IsSave, shutdownVars
<1>4. ShutdownNotLost'
  BY <1>1 DEF ShutdownInv, ShutdownNotLost, shutdownVars
<1> QED BY <1>2, <1>3, <1>4

(* The end of a file operation concerns no task. *)
LEMMA EndFileOperationTasks ==
  ASSUME TypeInv, NEW s \in SaveSlots, NEW f \in Files, NEW result \in IoResults,
         EndFileOperation(s, f, result)
  PROVE  \A t \in SaveSlots :
           /\ saves'[t] # NoSave <=> IsSave(t)
           /\ IsSave(t) => /\ saves'[t].kind = saves[t].kind
                           /\ saves'[t].task = saves[t].task
<1>1. /\ saves[s] \in Saves /\ IsSave(s) /\ saves[s] # NoSave
      /\ saves' = [saves EXCEPT ![s].op[f] = result]
  BY DEF EndFileOperation, TypeInv, TypeOK, IsSave
<1> DEFINE save == [saves[s] EXCEPT !.op[f] = result]
<1>2. save.kind = saves[s].kind /\ save.task = saves[s].task
  BY <1>1 DEF Saves
<1>3. saves' = [saves EXCEPT ![s] = save]
  BY <1>1
<1>4. IsSave(s)'
  <2>1. result \in OpStates
    BY EpgManagerAssumption DEF OpStates
  <2>2. save \in Saves
    BY <1>1, <2>1 DEF Saves
  <2> HIDE DEF save
  <2>3. saves'[s] \in Saves
    BY <1>3, <2>2 DEF TypeInv, TypeOK
  <2> QED BY <2>3, NoSaveAssumption DEF IsSave
<1> HIDE DEF save
<1>5. ASSUME NEW t \in SaveSlots
      PROVE  /\ saves'[t] # NoSave <=> IsSave(t)
             /\ IsSave(t) => /\ saves'[t].kind = saves[t].kind
                             /\ saves'[t].task = saves[t].task
  <2>1. CASE t = s
    BY <1>1, <1>2, <1>3, <1>4, <2>1 DEF TypeInv, TypeOK, IsSave
  <2>2. CASE t # s
    BY <1>3, <2>2 DEF TypeInv, TypeOK, IsSave
  <2> QED BY <2>1, <2>2
<1> QED BY <1>5

LEMMA UnchangedSavesInv ==
  ASSUME ShutdownInv, UNCHANGED <<saves, pending, shutdownVars>>
  PROVE  PendingCountsSaves' /\ OneShutdownSave' /\ ShutdownNotLost'
BY SameTasksInv DEF IsSave

LEMMA InternalSaveInv ==
  ASSUME ShutdownInv, NEW data \in Contents, InternalSave(data), UNCHANGED shutdownVars
  PROVE  PendingCountsSaves' /\ OneShutdownSave' /\ ShutdownNotLost'
<1>1. PICK s \in SaveSlots :
        /\ IsSave(s)' /\ saves'[s].kind = "internal"
        /\ \A t \in SaveSlots \ {s} : saves'[t] = saves[t]
        /\ s \notin UnreturnedSaves("internal")
        /\ UnreturnedSaves("internal")' = UnreturnedSaves("internal") \cup {s}
        /\ UnreturnedSaves("shutdown")' = UnreturnedSaves("shutdown")
  BY SaveStateUnreturned DEF InternalSave, ShutdownInv
<1>2. PendingCountsSaves'
  <2>1. Cardinality(UnreturnedSaves("internal") \cup {s})
          = Cardinality(UnreturnedSaves("internal")) + 1
    BY <1>1, UnreturnedFinite, FS_AddElement
  <2> QED BY <1>1, <2>1 DEF InternalSave, ShutdownInv, PendingCountsSaves
<1>3. OneShutdownSave'
  BY <1>1 DEF ShutdownInv, OneShutdownSave, IsSave, shutdownVars
<1>4. ShutdownNotLost'
  BY <1>1 DEF ShutdownInv, ShutdownNotLost, shutdownVars
<1> QED BY <1>2, <1>3, <1>4

LEMMA ShutdownAsyncInv ==
  ASSUME ShutdownInv, ShutdownAsync
  PROVE  PendingCountsSaves' /\ OneShutdownSave' /\ ShutdownNotLost'
<1>0. /\ ~cancelled /\ ~pendingShutdown
      /\ UnreturnedSaves("shutdown") = {} /\ shutdownResult = "none"
  BY DEF ShutdownAsync, ShutdownInv, ShutdownNotLost
<1>1. cancelled' /\ UNCHANGED <<pending, shutdownResult>>
  BY DEF ShutdownAsync
<1>2. CASE /\ SaveState("shutdown", Snapshot(wallSecs, nowSecs, expiryTime, usedCodes))
           /\ UNCHANGED pendingShutdown
  <2>1. Snapshot(wallSecs, nowSecs, expiryTime, usedCodes) \in Contents
    BY EpgManagerAssumption, RateLimitAssumption, SnapshotType
    DEF ShutdownInv, TypeInv, TypeOK
  <2>2. PICK s \in SaveSlots :
          /\ IsSave(s)' /\ saves'[s].kind = "shutdown"
          /\ \A t \in SaveSlots \ {s} : saves'[t] = saves[t]
          /\ UnreturnedSaves("shutdown")' = UnreturnedSaves("shutdown") \cup {s}
          /\ UnreturnedSaves("internal")' = UnreturnedSaves("internal")
    BY <1>2, <2>1, SaveStateUnreturned DEF ShutdownInv
  <2>3. PendingCountsSaves'
    BY <1>1, <2>2 DEF ShutdownInv, PendingCountsSaves
  <2>4. OneShutdownSave'
    BY <1>0, <1>1, <2>2 DEF ShutdownInv, OneShutdownSave, IsSave
  <2>5. ShutdownNotLost'
    BY <1>0, <1>1, <1>2, <2>2 DEF ShutdownNotLost
  <2> QED BY <2>3, <2>4, <2>5
<1>3. CASE pending > 0 /\ pendingShutdown' = TRUE /\ UNCHANGED saves
  <2>1. \A kind : UnreturnedSaves(kind)' = UnreturnedSaves(kind)
    BY <1>3 DEF UnreturnedSaves, IsSave, HasReturned
  <2>2. UnreturnedSaves("internal") # {}
    BY <1>3, FS_EmptySet DEF ShutdownInv, PendingCountsSaves
  <2>3. PendingCountsSaves'
    BY <1>1, <2>1 DEF ShutdownInv, PendingCountsSaves
  <2>4. OneShutdownSave'
    BY <1>1, <1>3 DEF ShutdownInv, OneShutdownSave, IsSave
  <2>5. ShutdownNotLost'
    BY <1>0, <1>1, <1>3, <2>1, <2>2 DEF ShutdownNotLost
  <2> QED BY <2>3, <2>4, <2>5
<1> QED BY <1>2, <1>3 DEF ShutdownAsync

(* A callback of a file operation: only the save it belongs to may return. *)
LEMMA FileSavedUnreturned ==
  ASSUME TypeInv, NEW s \in SaveSlots, NEW f \in Files, FileSaved(s, f)
  PROVE  /\ \A t \in SaveSlots \ {s} : saves'[t] = saves[t]
         /\ IsSave(s)' => saves'[s].kind = saves[s].kind
         /\ \A kind \in {"internal", "shutdown"} :
              UnreturnedSaves(kind)' =
                IF ReturnsNow(s, f) /\ saves[s].kind = kind
                THEN UnreturnedSaves(kind) \ {s}
                ELSE UnreturnedSaves(kind)
         /\ ReturnsNow(s, f) => s \in UnreturnedSaves(saves[s].kind)
<1> DEFINE save == [saves[s] EXCEPT !.op[f] = "done", !.task = TaskAfter(s, f)]
           over == \A g \in Files : save.op[g] = "done"
<1>1. /\ IsSave(s) /\ saves[s].op[f] \in {"ok", "err"}
      /\ saves' = [saves EXCEPT ![s] = IF over THEN NoSave ELSE save]
  BY DEF FileSaved
<1>2. /\ save \in Saves /\ save.kind = saves[s].kind /\ save.task = TaskAfter(s, f)
      /\ over <=> save.task.pending = 0
  BY <1>1, FileSavedSave
<1> HIDE DEF save, over
<1>3. \A t \in SaveSlots \ {s} : saves'[t] = saves[t]
  BY <1>1 DEF TypeInv, TypeOK
<1>4. saves'[s] = IF over THEN NoSave ELSE save
  BY <1>1 DEF TypeInv, TypeOK
<1>5. IsSave(s)' => saves'[s].kind = saves[s].kind
  BY <1>2, <1>4 DEF IsSave
<1>6. saves[s].task.pending > 0
  BY <1>1 DEF TypeInv, TasksCountFiles
<1>7. saves[s].task.hadError => TaskAfter(s, f).hadError
  BY <1>1, TaskAfterType
<1>8. HasReturned(saves[s].task) => HasReturned(TaskAfter(s, f))
  BY <1>6, <1>7 DEF HasReturned
<1>9. (IsSave(s)' /\ ~HasReturned(saves'[s].task)) <=> ~HasReturned(TaskAfter(s, f))
  <2>1. over => HasReturned(TaskAfter(s, f))
    BY <1>2 DEF HasReturned
  <2>2. ~over => saves'[s] = save /\ IsSave(s)'
    BY <1>2, <1>4, NoSaveAssumption DEF IsSave
  <2>3. over => ~IsSave(s)'
    BY <1>4 DEF IsSave
  <2> QED BY <1>2, <2>1, <2>2, <2>3
<1>10. ReturnsNow(s, f) => s \in UnreturnedSaves(saves[s].kind)
  BY <1>1 DEF ReturnsNow, UnreturnedSaves
<1>11. ASSUME NEW kind \in {"internal", "shutdown"}
       PROVE  UnreturnedSaves(kind)' =
                IF ReturnsNow(s, f) /\ saves[s].kind = kind
                THEN UnreturnedSaves(kind) \ {s}
                ELSE UnreturnedSaves(kind)
  <2>1. ASSUME NEW t \in SaveSlots \ {s}
        PROVE  t \in UnreturnedSaves(kind)' <=> t \in UnreturnedSaves(kind)
    BY <1>3 DEF UnreturnedSaves, IsSave, HasReturned
  <2>2. s \in UnreturnedSaves(kind)'
          <=> saves[s].kind = kind /\ ~HasReturned(TaskAfter(s, f))
    <3>1. s \in UnreturnedSaves(kind)'
            <=> IsSave(s)' /\ saves'[s].kind = kind /\ ~HasReturned(saves'[s].task)
      BY DEF UnreturnedSaves, IsSave, HasReturned
    <3> QED BY <1>5, <1>9, <3>1
  <2>3. s \in UnreturnedSaves(kind) <=> saves[s].kind = kind /\ ~HasReturned(saves[s].task)
    BY <1>1 DEF UnreturnedSaves
  <2>4. /\ s \in UnreturnedSaves(kind)' => s \in UnreturnedSaves(kind)
        /\ (s \in UnreturnedSaves(kind) /\ s \notin UnreturnedSaves(kind)')
             <=> (ReturnsNow(s, f) /\ saves[s].kind = kind)
    BY <1>8, <2>2, <2>3 DEF ReturnsNow
  <2>5. UnreturnedSaves(kind) \subseteq SaveSlots /\ UnreturnedSaves(kind)' \subseteq SaveSlots
    BY DEF UnreturnedSaves
  <2> HIDE DEF UnreturnedSaves
  <2> QED BY <2>1, <2>4, <2>5
<1> QED BY <1>3, <1>5, <1>10, <1>11

LEMMA FileSavedInv ==
  ASSUME ShutdownInv, NEW s \in SaveSlots, NEW f \in Files, FileSaved(s, f)
  PROVE  PendingCountsSaves' /\ OneShutdownSave' /\ ShutdownNotLost'
<1> DEFINE Internal == UnreturnedSaves("internal")
           Shutdown == UnreturnedSaves("shutdown")
<1>1. /\ \A t \in SaveSlots \ {s} : saves'[t] = saves[t]
      /\ IsSave(s)' => saves'[s].kind = saves[s].kind
      /\ Internal' = IF ReturnsNow(s, f) /\ saves[s].kind = "internal"
                     THEN Internal \ {s} ELSE Internal
      /\ Shutdown' = IF ReturnsNow(s, f) /\ saves[s].kind = "shutdown"
                     THEN Shutdown \ {s} ELSE Shutdown
      /\ ReturnsNow(s, f) => s \in UnreturnedSaves(saves[s].kind)
  BY FileSavedUnreturned DEF ShutdownInv
<1>2. IsSave(s) /\ UNCHANGED cancelled /\ SaveResult(s, f) \in {"ok", "err"}
  BY DEF FileSaved, SaveResult
<1>3. saves[s].kind \in {"internal", "shutdown"}
  BY <1>2 DEF ShutdownInv, TypeInv, TypeOK, IsSave, Saves
<1>4. OneShutdownSave'
  BY <1>1, <1>2 DEF ShutdownInv, OneShutdownSave, IsSave
<1>5. pending = Cardinality(Internal) /\ pending \in Nat
  BY DEF ShutdownInv, PendingCountsSaves, TypeInv, TypeOK
<1>6. CASE ReturnsNow(s, f) /\ saves[s].kind = "internal"
  <2>1. s \in Internal /\ Internal' = Internal \ {s} /\ Shutdown' = Shutdown
    BY <1>1, <1>6
  <2>2. Cardinality(Internal') = Cardinality(Internal) - 1
    BY <2>1, UnreturnedFinite, FS_RemoveElement
  <2>3. InternalSaveReturns(SaveResult(s, f))
    BY <1>6 DEF FileSaved
  <2>4. pending' = Cardinality(Internal')
    BY <1>5, <2>2, <2>3 DEF InternalSaveReturns
  <2>5. PendingCountsSaves'
    BY <2>4 DEF PendingCountsSaves
  <2>6. ShutdownNotLost'
    <3>1. CASE pending' = 0 /\ pendingShutdown
      BY <1>2, <2>1, <2>3, <3>1 DEF InternalSaveReturns, ShutdownInv, ShutdownNotLost
    <3>2. CASE ~(pending' = 0 /\ pendingShutdown)
      <4>1. pendingShutdown => Internal' # {}
        BY <2>4, <3>2, FS_EmptySet
      <4>2. UNCHANGED <<pendingShutdown, shutdownResult>>
        BY <2>3, <3>2 DEF InternalSaveReturns
      <4> QED BY <1>2, <2>1, <4>1, <4>2 DEF ShutdownInv, ShutdownNotLost
    <3> QED BY <3>1, <3>2
  <2> QED BY <1>4, <2>5, <2>6
<1>7. CASE ReturnsNow(s, f) /\ saves[s].kind = "shutdown"
  <2>1. s \in Shutdown /\ Internal' = Internal /\ Shutdown' = Shutdown \ {s}
    BY <1>1, <1>7
  <2>2. shutdownResult' = SaveResult(s, f) /\ UNCHANGED <<pending, pendingShutdown>>
    BY <1>7 DEF FileSaved, ShutdownSaveReturns
  <2>3. cancelled
    BY <1>2, <1>7 DEF ShutdownInv, OneShutdownSave
  <2>4. Shutdown' = {}
    BY <1>2, <1>7, <2>1 DEF ShutdownInv, OneShutdownSave, UnreturnedSaves
  <2>5. ~pendingShutdown
    BY <2>1 DEF ShutdownInv, ShutdownNotLost
  <2>6. PendingCountsSaves'
    BY <1>5, <2>1, <2>2 DEF PendingCountsSaves
  <2>7. ShutdownNotLost'
    BY <1>2, <2>1, <2>2, <2>3, <2>4, <2>5 DEF ShutdownNotLost
  <2> QED BY <1>4, <2>6, <2>7
<1>8. CASE ~ReturnsNow(s, f)
  <2>1. Internal' = Internal /\ Shutdown' = Shutdown
    BY <1>1, <1>8
  <2>2. UNCHANGED <<pending, pendingShutdown, shutdownResult>>
    BY <1>8 DEF FileSaved
  <2>3. PendingCountsSaves'
    BY <1>5, <2>1, <2>2 DEF PendingCountsSaves
  <2>4. ShutdownNotLost'
    BY <1>2, <2>1, <2>2 DEF ShutdownInv, ShutdownNotLost
  <2> QED BY <1>4, <2>3, <2>4
<1> QED BY <1>3, <1>6, <1>7, <1>8

-----------------------------------------------------------------------------
LEMMA InitShutdownInv == Init => ShutdownInv
<1> SUFFICES ASSUME Init PROVE ShutdownInv
  OBVIOUS
<1>1. \A kind : UnreturnedSaves(kind) = {}
  BY DEF Init, UnreturnedSaves, IsSave
<1>2. PendingCountsSaves
  BY <1>1, FS_EmptySet DEF Init, PendingCountsSaves
<1>3. OneShutdownSave
  BY DEF Init, OneShutdownSave, IsSave
<1>4. ShutdownNotLost
  BY <1>1 DEF Init, ShutdownNotLost
<1> QED BY <1>2, <1>3, <1>4, InitTypeInv DEF ShutdownInv

LEMMA NextShutdownInv == ShutdownInv /\ [Next]_vars => ShutdownInv'
<1> SUFFICES ASSUME ShutdownInv, [Next]_vars PROVE ShutdownInv'
  OBVIOUS
<1>0. TypeInv /\ TypeInv'
  BY NextTypeInv DEF ShutdownInv
<1> DEFINE Rest == PendingCountsSaves' /\ OneShutdownSave' /\ ShutdownNotLost'
<1> SUFFICES Rest
  BY <1>0 DEF ShutdownInv
<1>1. CASE Environment \/ UNCHANGED vars
  BY <1>1, UnchangedSavesInv
  DEF Environment, Tick, ClockJump, vars, saveVars
<1>2. ASSUME NEW code \in Codes \cup InvalidCodes, RejectCode(code)
      PROVE  Rest
  BY <1>2, UnchangedSavesInv DEF RejectCode, saveVars
<1>n. /\ nowSecs \in Nat /\ wallSecs \in Nat /\ usedCodes \in CodeCounts
      /\ expiryTime' \in Nat /\ usedCodes' \in CodeCounts
  BY <1>0, EpgManagerAssumption, RateLimitAssumption DEF TypeInv, TypeOK
<1>3. ASSUME NEW code \in Codes, AcceptCode(code)
      PROVE  Rest
  <2>1. Snapshot(wallSecs, nowSecs, expiryTime', usedCodes') \in Contents
    BY <1>n, SnapshotType
  <2> QED BY <1>3, <2>1, InternalSaveInv DEF AcceptCode
<1>4. CASE ClearCode
  <2>1. Snapshot(wallSecs, nowSecs, 0, usedCodes) \in Contents
    BY <1>n, SnapshotType
  <2> QED BY <1>4, <2>1, InternalSaveInv DEF ClearCode
<1>5. CASE WallclockTimeChanged
  <2>1. Snapshot(wallSecs, nowSecs, expiryTime', usedCodes) \in Contents
    BY <1>n, SnapshotType
  <2> QED BY <1>5, <2>1, InternalSaveInv DEF WallclockTimeChanged
<1>6. CASE CheckExpired
  BY <1>6, UnchangedSavesInv DEF CheckExpired, saveVars
<1>7. CASE ShutdownAsync
  BY <1>7, ShutdownAsyncInv
<1>8. ASSUME NEW s \in SaveSlots, NEW f \in Files, NEW result \in IoResults,
             EndFileOperation(s, f, result)
      PROVE  Rest
  BY <1>0, <1>8, EndFileOperationTasks, SameTasksInv DEF EndFileOperation
<1>9. ASSUME NEW s \in SaveSlots, NEW f \in Files, FileSaved(s, f)
      PROVE  Rest
  BY <1>9, FileSavedInv
<1> QED
  BY <1>1, <1>2, <1>3, <1>4, <1>5, <1>6, <1>7, <1>8, <1>9 DEF Next, Handlers, SavingIo

(* Always: no save is lost from the count that shutdown waits for, and a   *)
(* shutdown that was asked for is being waited for or has been answered.   *)
THEOREM ShutdownInvariant == Spec => []ShutdownInv
BY InitShutdownInv, NextShutdownInv, PTL DEF Spec

(* The variables keep their types, whatever the codes, the bound on the    *)
(* saves in flight and the outcomes of the file operations.                *)
THEOREM TypeCorrect == Spec => []TypeOK
<1>1. ShutdownInv => TypeOK
  BY DEF ShutdownInv, TypeInv
<1> QED BY <1>1, ShutdownInvariant, PTL

(* pending_internal_save_state_calls counts the saves that have not        *)
(* returned, however many are in flight and whichever files fail.          *)
THEOREM PendingIsExact == Spec => []PendingCountsSaves
<1>1. ShutdownInv => PendingCountsSaves
  BY DEF ShutdownInv
<1> QED BY <1>1, ShutdownInvariant, PTL

(* A pending epg_manager_shutdown_async() always has something under way   *)
(* that will return it, and is returned at most once.                      *)
THEOREM ShutdownIsNotLost == Spec => []ShutdownNotLost
<1>1. ShutdownInv => ShutdownNotLost
  BY DEF ShutdownInv
<1> QED BY <1>1, ShutdownInvariant, PTL

-----------------------------------------------------------------------------
(* Who may change the credit. *)

LEMMA SetExpiryTimeBound ==
  ASSUME TypeOK, NEW base \in Nat, NEW span \in Nat, SetExpiryTime(base, span)
  PROVE  expiryTime' <= base + span
<1>1. expiryTime' = AddClamped(base, span) \/ expiryTime' = base
  BY Zenon DEF SetExpiryTime
<1> QED BY <1>1, RateLimitAssumption DEF AddClamped

LEMMA CreditStep ==
  ASSUME TypeOK, [Next]_vars
  PROVE  CreditFromCode
<1> SUFFICES ASSUME expiryTime' > expiryTime
             PROVE  \E c \in Codes :
                      /\ usedCodes[c] = 0 /\ usedCodes'[c] = 1
                      /\ expiryTime' <=
                           Span[c] + (IF nowSecs > expiryTime THEN nowSecs ELSE expiryTime)
  BY DEF CreditFromCode
<1>n. nowSecs \in Nat /\ expiryTime \in Nat /\ jumpSecs \in Int
  BY EpgManagerAssumption, RateLimitAssumption DEF TypeOK
<1>u. UNCHANGED expiryTime => FALSE
  BY <1>n
<1>1. CASE UNCHANGED vars \/ Environment
  BY <1>1, <1>u DEF vars, creditVars, Environment, Tick, ClockJump
<1>2. CASE \E code \in Codes \cup InvalidCodes : RejectCode(code)
  BY <1>2, <1>u DEF RejectCode
<1>3. ASSUME NEW code \in Codes, AcceptCode(code)
      PROVE  /\ usedCodes[code] = 0 /\ usedCodes'[code] = 1
             /\ expiryTime' <=
                  Span[code] + (IF nowSecs > expiryTime THEN nowSecs ELSE expiryTime)
  <2> DEFINE base == IF nowSecs < expiryTime THEN expiryTime ELSE nowSecs
  <2>1. usedCodes[code] = 0 /\ usedCodes'[code] = 1
    BY <1>3 DEF AcceptCode, IsUnused, TypeOK, CodeCounts
  <2>2. Span[code] \in Nat /\ base \in Nat
    BY <1>n, EpgManagerAssumption, RateLimitAssumption
  <2>3. SetExpiryTime(base, Span[code])
    BY <1>3 DEF AcceptCode
  <2>4. expiryTime' <= base + Span[code]
    BY <2>2, <2>3, SetExpiryTimeBound
  <2>5. base + Span[code] =
          Span[code] + (IF nowSecs > expiryTime THEN nowSecs ELSE expiryTime)
    BY <1>n, <2>2
  <2> QED BY <2>1, <2>4, <2>5
<1>4. CASE ClearCode
  BY <1>4, <1>n DEF ClearCode
<1>5. CASE WallclockTimeChanged
  <2>1. CASE jumpSecs > 0 /\ nowSecs < expiryTime
    <3> DEFINE span == IF jumpSecs > expiryTime - nowSecs
                       THEN 0 ELSE expiryTime - nowSecs - jumpSecs
    <3>1. span \in Nat /\ nowSecs + span < expiryTime
      BY <1>n, <2>1
    <3>2. SetExpiryTime(nowSecs, span)
      BY <1>5, <2>1 DEF WallclockTimeChanged
    <3>3. expiryTime' <= nowSecs + span
      BY <1>n, <3>1, <3>2, SetExpiryTimeBound
    <3>4. expiryTime' \in Nat
      <4>1. expiryTime' = AddClamped(nowSecs, span) \/ expiryTime' = nowSecs
        BY <3>2, Zenon DEF SetExpiryTime
      <4> QED BY <1>n, <3>1, <4>1, RateLimitAssumption DEF AddClamped
    <3> QED BY <1>n, <3>1, <3>3, <3>4
  <2>2. CASE ~(jumpSecs > 0 /\ nowSecs < expiryTime)
    BY <1>5, <1>u, <2>2 DEF WallclockTimeChanged
  <2> QED BY <2>1, <2>2
<1>6. CASE CheckExpired \/ ShutdownAsync
  BY <1>6, <1>u DEF CheckExpired, ShutdownAsync, creditVars
<1>7. CASE SavingIo
  BY <1>7, <1>u DEF SavingIo, EndFileOperation, FileSaved, creditVars
<1> QED
  BY <1>1, <1>2, <1>3, <1>4, <1>5, <1>6, <1>7 DEF Next, Handlers

(* Only a code that was never used before extends the credit, by no more   *)
(* than its span; jumps of the wall clock, cleared credit, failed timers   *)
(* and saves never do.                                                     *)
THEOREM CreditComesFromCodes == Spec => CreditOnlyFromCodes
<1>1. TypeOK /\ [Next]_vars => [CreditFromCode]_vars
  BY CreditStep
<1>2. Spec => [][CreditFromCode]_vars
  BY <1>1, TypeCorrect, PTL DEF Spec
<1> QED BY <1>2 DEF CreditOnlyFromCodes

-----------------------------------------------------------------------------
(* What a shutdown leaves in the state files.                              *)

SnapshotNow == Snapshot(wallSecs, nowSecs, expiryTime, usedCodes)

KeepsState == UNCHANGED <<expiryTime, usedCodes>>
KeepsClocks == UNCHANGED <<nowSecs, wallSecs>>
KeepsResults == UNCHANGED <<disk, shutdownResult>>
KeepsRivals == UNCHANGED <<rivals, savedOffset>>

(* The steps as the state files see them: a save is started with the state *)
(* that the step leaves behind.                                            *)
LEMMA SavingSteps ==
  ASSUME [Next]_vars
  PROVE  \/ /\ UNCHANGED saves /\ KeepsState /\ KeepsResults /\ KeepsRivals
            /\ nowSecs' \in {nowSecs, nowSecs + 1}
         \/ /\ \E kind \in {"internal", "shutdown"} : SaveState(kind, SnapshotNow')
            /\ KeepsClocks /\ KeepsResults
         \/ /\ \E s \in SaveSlots, f \in Files :
                 \/ \E result \in IoResults : EndFileOperation(s, f, result)
                 \/ FileSaved(s, f)
            /\ KeepsState /\ KeepsClocks /\ KeepsRivals
<1> USE DEF KeepsState, KeepsClocks, KeepsResults, KeepsRivals
<1>1. CASE UNCHANGED vars \/ Environment \/ CheckExpired
           \/ \E code \in Codes \cup InvalidCodes : RejectCode(code)
  BY <1>1 DEF vars, Environment, Tick, ClockJump, CheckExpired, RejectCode, clockVars,
              creditVars, saveVars, shutdownVars
<1>2. CASE \E code \in Codes : AcceptCode(code)
  BY <1>2 DEF AcceptCode, InternalSave, SnapshotNow, Snapshot, CreditAt, clockVars, shutdownVars
<1>3. CASE ClearCode
  BY <1>3 DEF ClearCode, InternalSave, SnapshotNow, Snapshot, CreditAt, clockVars, shutdownVars
<1>4. CASE WallclockTimeChanged
  BY <1>4 DEF WallclockTimeChanged, InternalSave, SnapshotNow, Snapshot, CreditAt, shutdownVars
<1>5. CASE ShutdownAsync
  BY <1>5 DEF ShutdownAsync, SnapshotNow, Snapshot, CreditAt, clockVars, creditVars
<1>6. CASE SavingIo
  BY <1>6 DEF SavingIo, EndFileOperation, FileSaved, clockVars, creditVars
<1> QED BY <1>1, <1>2, <1>3, <1>4, <1>5, <1>6 DEF Next, Handlers

(* A file that a save has written may since have been overwritten, but     *)
(* only by a save that it overlapped.                                      *)
WritesOf(f) == {r[f] : r \in rivals}

SaveIsRival(s) ==
  /\ saves[s].data \in rivals
  /\ \A f \in Files :
       \/ saves[s].op[f] = "ok"
       \/ saves[s].op[f] = "done" /\ ~saves[s].task.hadError
       => disk[f] \in WritesOf(f)

RivalsInv ==
  /\ \A s \in SaveSlots : IsSave(s) => SaveIsRival(s)
  /\ shutdownResult = "ok" => \A f \in Files : disk[f] \in WritesOf(f)

(* A save that starts alone has written nothing; one that does not starts  *)
(* as another rival.                                                       *)
LEMMA StartedSave ==
  ASSUME TypeInv, TypeInv', RivalsInv, NEW kind \in {"internal", "shutdown"},
         NEW data \in Contents, SaveState(kind, data), KeepsResults
  PROVE  RivalsInv' /\ data \in rivals'
<1>1. PICK s \in FreeSlots : saves' = [saves EXCEPT ![s] = NewSave(kind, data)]
  BY DEF SaveState
<1>2. /\ s \in SaveSlots /\ ~IsSave(s) /\ saves'[s] = NewSave(kind, data)
      /\ \A t \in SaveSlots \ {s} : saves'[t] = saves[t]
  BY <1>1 DEF FreeSlots, TypeInv, TypeOK
<1>3. saves'[s].data = data /\ \A f \in Files : saves'[s].op[f] = "io"
  BY <1>2 DEF NewSave
<1>4. data \in rivals'
  BY DEF SaveState
<1>5. SaveIsRival(s)'
  BY <1>3, <1>4 DEF SaveIsRival
<1>6. CASE FreeSlots = SaveSlots /\ shutdownResult = "none"
  <2>1. \A t \in SaveSlots : IsSave(t)' => t = s
    BY <1>2, <1>6 DEF FreeSlots, IsSave
  <2> QED BY <1>4, <1>5, <1>6, <2>1 DEF RivalsInv, KeepsResults
<1>7. CASE ~(FreeSlots = SaveSlots /\ shutdownResult = "none")
  <2>1. rivals \subseteq rivals'
    BY <1>7 DEF SaveState
  <2>2. \A f \in Files : WritesOf(f) \subseteq WritesOf(f)'
    BY <2>1 DEF WritesOf
  <2>3. \A t \in SaveSlots \ {s} : IsSave(t)' => SaveIsRival(t)'
    BY <1>2, <2>1, <2>2 DEF RivalsInv, SaveIsRival, IsSave, KeepsResults
  <2>4. shutdownResult' = "ok" => \A f \in Files : disk'[f] \in WritesOf(f)'
    BY <2>2 DEF RivalsInv, KeepsResults
  <2> QED BY <1>4, <1>5, <2>3, <2>4 DEF RivalsInv
<1> QED BY <1>6, <1>7

(* A file operation that ends well has written its file. *)
LEMMA EndedOperation ==
  ASSUME TypeInv, RivalsInv, NEW s \in SaveSlots, NEW f \in Files,
         NEW result \in IoResults, EndFileOperation(s, f, result), KeepsRivals
  PROVE  RivalsInv'
<1>1. /\ saves[s] \in Saves /\ IsSave(s)
      /\ saves' = [saves EXCEPT ![s].op[f] = result]
      /\ disk' = IF result = "ok" THEN [disk EXCEPT ![f] = saves[s].data[f]] ELSE disk
      /\ UNCHANGED shutdownResult
  BY DEF EndFileOperation, TypeInv, TypeOK, IsSave, shutdownVars
<1>2. result \in {"ok", "err"}
  BY EpgManagerAssumption
<1> DEFINE save == [saves[s] EXCEPT !.op[f] = result]
<1>3. /\ save.op = [saves[s].op EXCEPT ![f] = result] /\ save.task = saves[s].task
      /\ save.data = saves[s].data /\ saves[s].op \in [Files -> OpStates]
      /\ saves' = [saves EXCEPT ![s] = save]
  BY <1>1 DEF Saves
<1> HIDE DEF save
<1>4. saves'[s] = save /\ \A t \in SaveSlots \ {s} : saves'[t] = saves[t]
  BY <1>3 DEF TypeInv, TypeOK
<1>5. DOMAIN disk = Files
  BY DEF TypeInv, TypeOK, DiskContents, Files
<1>6. saves[s].data \in rivals
  BY <1>1 DEF RivalsInv, SaveIsRival
<1>7. \A g \in Files : WritesOf(g)' = WritesOf(g)
  BY DEF WritesOf, KeepsRivals
<1>8. result = "ok" => disk'[f] \in WritesOf(f)
  <2>1. result = "ok" => disk'[f] = saves[s].data[f]
    BY <1>1, <1>5
  <2> QED BY <1>6, <2>1 DEF WritesOf
<1>9. \A g \in Files : disk'[g] = disk[g] \/ (g = f /\ result = "ok")
  BY <1>1, <1>5
<1>10. \A g \in Files : disk[g] \in WritesOf(g) => disk'[g] \in WritesOf(g)
  BY <1>8, <1>9
<1>11. SaveIsRival(s)'
  <2>1. ASSUME NEW g \in Files, \/ saves'[s].op[g] = "ok"
                                \/ saves'[s].op[g] = "done" /\ ~saves'[s].task.hadError
        PROVE  disk'[g] \in WritesOf(g)
    <3>1. CASE g = f
      <4>1. saves'[s].op[g] = result
        BY <1>3, <1>4, <3>1
      <4> QED BY <1>2, <1>8, <2>1, <3>1, <4>1
    <3>2. CASE g # f
      <4>1. saves'[s].op[g] = saves[s].op[g] /\ saves'[s].task = saves[s].task
        BY <1>3, <1>4, <3>2
      <4> QED BY <1>1, <1>10, <2>1, <4>1 DEF RivalsInv, SaveIsRival
    <3> QED BY <3>1, <3>2
  <2>2. saves'[s].data \in rivals'
    BY <1>3, <1>4, <1>6 DEF KeepsRivals
  <2> QED BY <1>7, <2>1, <2>2 DEF SaveIsRival
<1>12. \A t \in SaveSlots \ {s} : IsSave(t)' => SaveIsRival(t)'
  BY <1>4, <1>7, <1>10 DEF RivalsInv, SaveIsRival, IsSave, KeepsRivals
<1>13. shutdownResult' = "ok" => \A g \in Files : disk'[g] \in WritesOf(g)'
  BY <1>1, <1>7, <1>10 DEF RivalsInv
<1> QED BY <1>11, <1>12, <1>13 DEF RivalsInv

(* A save which returns success has written all of its files. *)
LEMMA CalledBack ==
  ASSUME TypeInv, RivalsInv, NEW s \in SaveSlots, NEW f \in Files,
         FileSaved(s, f), KeepsRivals
  PROVE  RivalsInv'
<1> DEFINE save == [saves[s] EXCEPT !.op[f] = "done", !.task = TaskAfter(s, f)]
           over == \A g \in Files : save.op[g] = "done"
<1>1. /\ IsSave(s) /\ saves[s].op[f] \in {"ok", "err"} /\ UNCHANGED disk
      /\ saves' = [saves EXCEPT ![s] = IF over THEN NoSave ELSE save]
  BY DEF FileSaved
<1>2. over <=> save.task.pending = 0
  BY <1>1, FileSavedSave
<1>3. /\ saves[s] \in Saves /\ save.task = TaskAfter(s, f) /\ save.data = saves[s].data
      /\ save.op = [saves[s].op EXCEPT ![f] = "done"]
  BY <1>1 DEF TypeInv, TypeOK, IsSave, Saves
<1>4. saves[s].op \in [Files -> OpStates] /\ saves[s].task \in MultiTasks
  BY <1>3 DEF Saves
<1>5. ASSUME ~TaskAfter(s, f).hadError
      PROVE  saves[s].op[f] = "ok" /\ ~saves[s].task.hadError
  BY <1>1, <1>5, TaskAfterType
<1>6. ASSUME NEW g \in Files, save.op[g] = "ok" \/ (save.op[g] = "done" /\ ~save.task.hadError)
      PROVE  disk[g] \in WritesOf(g)
  <2>1. CASE g = f
    <3>1. saves[s].op[g] = "ok"
      BY <1>3, <1>4, <1>5, <1>6, <2>1
    <3> QED BY <1>1, <3>1 DEF RivalsInv, SaveIsRival
  <2>2. CASE g # f
    <3>1. saves[s].op[g] = save.op[g]
      BY <1>3, <1>4, <2>2
    <3>2. save.op[g] = "done" => ~saves[s].task.hadError
      BY <1>3, <1>5, <1>6
    <3> QED BY <1>1, <1>6, <3>1, <3>2 DEF RivalsInv, SaveIsRival
  <2> QED BY <2>1, <2>2
<1>d. saves[s].data \in rivals
  BY <1>1 DEF RivalsInv, SaveIsRival
<1> HIDE DEF save, over
<1>7. saves'[s] = (IF over THEN NoSave ELSE save)
      /\ \A t \in SaveSlots \ {s} : saves'[t] = saves[t]
  BY <1>1 DEF TypeInv, TypeOK
<1>8. \A g \in Files : WritesOf(g)' = WritesOf(g)
  BY DEF WritesOf, KeepsRivals
<1>9. IsSave(s)' => SaveIsRival(s)'
  <2> SUFFICES ASSUME IsSave(s)' PROVE SaveIsRival(s)'
    OBVIOUS
  <2>1. saves'[s] = save
    BY <1>7 DEF IsSave
  <2>2. saves'[s].data \in rivals'
    BY <1>3, <1>d, <2>1 DEF KeepsRivals
  <2>3. ASSUME NEW g \in Files, \/ saves'[s].op[g] = "ok"
                                \/ saves'[s].op[g] = "done" /\ ~saves'[s].task.hadError
        PROVE  disk[g] \in WritesOf(g)
    BY <1>6, <2>1, <2>3
  <2> QED BY <1>1, <1>8, <2>2, <2>3 DEF SaveIsRival
<1>10. \A t \in SaveSlots \ {s} : IsSave(t)' => SaveIsRival(t)'
  BY <1>1, <1>7, <1>8 DEF RivalsInv, SaveIsRival, IsSave, KeepsRivals
<1>11. ASSUME shutdownResult' = "ok", NEW g \in Files
       PROVE  disk[g] \in WritesOf(g)
  <2>1. CASE shutdownResult' = shutdownResult
    BY <1>11, <2>1 DEF RivalsInv
  <2>2. CASE shutdownResult' # shutdownResult
    <3>1. ReturnsNow(s, f) /\ SaveResult(s, f) = "ok"
      BY <1>11, <2>2 DEF FileSaved, InternalSaveReturns, ShutdownSaveReturns
    <3>2. ~TaskAfter(s, f).hadError /\ TaskAfter(s, f).pending = 0
      BY <3>1 DEF SaveResult, ReturnsNow, HasReturned
    <3>3. over
      BY <1>2, <1>3, <3>2
    <3> QED BY <1>3, <1>6, <3>2, <3>3 DEF over
  <2> QED BY <2>1, <2>2
<1> QED BY <1>1, <1>8, <1>9, <1>10, <1>11 DEF RivalsInv

LEMMA RivalsStep == TypeInv /\ TypeInv' /\ RivalsInv /\ [Next]_vars => RivalsInv'
<1> SUFFICES ASSUME TypeInv, TypeInv', RivalsInv, [Next]_vars PROVE RivalsInv'
  OBVIOUS
<1>1. CASE UNCHANGED saves /\ KeepsResults /\ KeepsRivals
  BY <1>1 DEF RivalsInv, SaveIsRival, WritesOf, IsSave, KeepsResults, KeepsRivals
<1>2. ASSUME NEW kind \in {"internal", "shutdown"}, SaveState(kind, SnapshotNow'), KeepsResults
      PROVE  RivalsInv'
  <2>1. nowSecs' \in Nat /\ wallSecs' \in Nat /\ expiryTime' \in Nat /\ usedCodes' \in CodeCounts
    BY EpgManagerAssumption, RateLimitAssumption DEF TypeInv, TypeOK
  <2>2. SnapshotNow' \in Contents
    BY <2>1, SnapshotType DEF SnapshotNow
  <2> QED BY <1>2, <2>2, StartedSave
<1>3. ASSUME NEW s \in SaveSlots, NEW f \in Files, KeepsRivals,
             (\E result \in IoResults : EndFileOperation(s, f, result)) \/ FileSaved(s, f)
      PROVE  RivalsInv'
  BY <1>3, EndedOperation, CalledBack
<1> QED BY <1>1, <1>2, <1>3, SavingSteps

THEOREM RivalsInvariant == Spec => []RivalsInv
<1>1. Init => RivalsInv
  BY DEF Init, RivalsInv, IsSave
<1>2. ShutdownInv => TypeInv
  BY DEF ShutdownInv
<1> QED BY <1>1, <1>2, RivalsStep, ShutdownInvariant, PTL DEF Spec

-----------------------------------------------------------------------------
(* The credit that a load deduces from some files is that of the manager.  *)
Deducible(files, wall, now, expiry) ==
  /\ files.clockTime \in Nat /\ files.expirySeconds \in Nat
  /\ files.clockTime <= wall
  /\ CreditAt(wall - files.clockTime, files.expirySeconds) = CreditAt(now, expiry)

(* At the time of a wall clock that was not set since the last snapshot. *)
DeducibleNow(files) == Deducible(files, nowSecs + savedOffset, nowSecs, expiryTime)

(* The last save is one of the rivals: nothing that is saved has changed   *)
(* since, but for the time.                                                *)
LastCodesInv == rivals # {} => \E r \in rivals : r.usedCodes = usedCodes

LastCreditInv == rivals # {} => \E r \in rivals : DeducibleNow(r)

LastSaveInv == LastCodesInv /\ LastCreditInv

(* Time consumes what is left on the disk as it consumes the credit. *)
LEMMA DeducibleLater ==
  ASSUME NEW files, NEW wall \in Int, NEW now \in Nat, NEW expiry \in Nat,
         Deducible(files, wall, now, expiry)
  PROVE  Deducible(files, wall + 1, now + 1, expiry)
BY DEF Deducible, CreditAt

LEMMA SnapshotDeducible ==
  ASSUME NEW wall \in Nat, NEW now \in Nat, NEW expiry \in Nat, NEW codes
  PROVE  Deducible(Snapshot(wall, now, expiry, codes), wall, now, expiry)
<1> DEFINE credit == CreditAt(now, expiry)
<1>1. credit \in Nat
  BY DEF CreditAt
<1>2. CreditAt(wall - wall, credit) = credit
  BY <1>1 DEF CreditAt
<1> HIDE DEF credit
<1> QED BY <1>1, <1>2 DEF Deducible, Snapshot, credit

LEMMA OffsetLater ==
  ASSUME NEW now \in Nat, NEW offset \in Int
  PROVE  (now + 1) + offset = (now + offset) + 1
OBVIOUS

LEMMA OffsetNow ==
  ASSUME NEW now \in Nat, NEW wall \in Nat
  PROVE  now + (wall - now) = wall
OBVIOUS

(* A step that saves nothing, and no more than lets time pass. *)
LEMMA LastCreditLater ==
  ASSUME TypeOK, LastCreditInv, UNCHANGED expiryTime, KeepsRivals,
         nowSecs' \in {nowSecs, nowSecs + 1}
  PROVE  LastCreditInv'
<1>n. nowSecs \in Nat /\ expiryTime \in Nat /\ savedOffset \in Int
  BY EpgManagerAssumption, RateLimitAssumption DEF TypeOK
<1>1. ASSUME NEW files, DeducibleNow(files)
      PROVE  Deducible(files, nowSecs' + savedOffset, nowSecs', expiryTime)
  <2>1. Deducible(files, (nowSecs + savedOffset) + 1, nowSecs + 1, expiryTime)
    BY <1>n, <1>1, DeducibleLater DEF DeducibleNow
  <2>2. (nowSecs + 1) + savedOffset = (nowSecs + savedOffset) + 1
    BY <1>n, OffsetLater
  <2> QED BY <1>1, <2>1, <2>2 DEF DeducibleNow
<1> QED BY <1>1 DEF LastCreditInv, DeducibleNow, KeepsRivals

(* A save is started with the state there is. *)
LEMMA LastSaveStarted ==
  ASSUME TypeInv', NEW kind \in {"internal", "shutdown"}, SaveState(kind, SnapshotNow'),
         KeepsClocks
  PROVE  LastSaveInv'
<1>n. /\ nowSecs' \in Nat /\ wallSecs' \in Nat /\ expiryTime' \in Nat
      /\ nowSecs' = nowSecs /\ wallSecs' = wallSecs
  BY EpgManagerAssumption, RateLimitAssumption DEF TypeInv, TypeOK, KeepsClocks
<1>1. SnapshotNow' \in rivals' /\ savedOffset' = wallSecs - nowSecs
  BY DEF SaveState
<1>2. /\ SnapshotNow' = Snapshot(wallSecs', nowSecs', expiryTime', usedCodes')
      /\ SnapshotNow'.usedCodes = usedCodes'
  BY DEF SnapshotNow, Snapshot, CreditAt
<1>3. Deducible(SnapshotNow', wallSecs', nowSecs', expiryTime')
  BY <1>n, <1>2, SnapshotDeducible
<1>4. nowSecs' + savedOffset' = wallSecs'
  BY <1>n, <1>1, OffsetNow
<1> QED BY <1>1, <1>2, <1>3, <1>4 DEF LastSaveInv, LastCodesInv, LastCreditInv, DeducibleNow

LEMMA LastSaveStep == TypeInv /\ TypeInv' /\ LastSaveInv /\ [Next]_vars => LastSaveInv'
<1> SUFFICES ASSUME TypeInv, TypeInv', LastSaveInv, [Next]_vars PROVE LastSaveInv'
  OBVIOUS
<1>1. TypeOK
  BY DEF TypeInv
<1>2. ASSUME KeepsState, KeepsRivals, nowSecs' \in {nowSecs, nowSecs + 1}
      PROVE  LastSaveInv'
  <2>1. LastCreditInv'
    BY <1>1, <1>2, LastCreditLater DEF LastSaveInv, KeepsState
  <2>2. LastCodesInv'
    BY <1>2 DEF LastSaveInv, LastCodesInv, KeepsState, KeepsRivals
  <2> QED BY <2>1, <2>2 DEF LastSaveInv
<1> QED BY <1>2, SavingSteps, LastSaveStarted DEF KeepsClocks

THEOREM LastSaveInvariant == Spec => []LastSaveInv
<1>1. Init => LastSaveInv
  BY DEF Init, LastSaveInv, LastCodesInv, LastCreditInv
<1>2. ShutdownInv => TypeInv
  BY DEF ShutdownInv
<1> QED BY <1>1, <1>2, LastSaveStep, ShutdownInvariant, PTL DEF Spec

(* Without other contents to overwrite it, the last save is on the disk.   *)
LEMMA SavedAloneDisk ==
  ASSUME RivalsInv, LastSaveInv, shutdownResult = "ok"
  PROVE  /\ \A f \in Files : \E r \in rivals : disk[f] = r[f]
         /\ SavedAlone =>
              \E r \in rivals : /\ r.usedCodes = usedCodes /\ DeducibleNow(r)
                                /\ \A f \in Files : disk[f] = r[f]
<1>1. \A f \in Files : \E r \in rivals : disk[f] = r[f]
  BY DEF RivalsInv, WritesOf
<1>2. rivals # {}
  BY <1>1 DEF Files
<1>3. (\E r \in rivals : r.usedCodes = usedCodes) /\ (\E r \in rivals : DeducibleNow(r))
  BY <1>2 DEF LastSaveInv, LastCodesInv, LastCreditInv
<1>4. PICK r \in rivals : DeducibleNow(r)
  BY <1>3
<1>5. SavedAlone => r.usedCodes = usedCodes /\ \A f \in Files : disk[f] = r[f]
  BY <1>1, <1>3 DEF SavedAlone
<1> QED BY <1>1, <1>4, <1>5

(* A shutdown that reports success has left the codes of one of its        *)
(* overlapping saves on the disk, and all accepted ones if there was none  *)
(* to overwrite the last save with others, however the clocks are set,     *)
(* which file operations fail, how many saves overlap and whether it       *)
(* waited for a save or made one.                                          *)
THEOREM UsedCodesAreSaved == Spec => []ShutdownSavesUsedCodes
<1>1. RivalsInv /\ LastSaveInv => ShutdownSavesUsedCodes
  <2> SUFFICES ASSUME RivalsInv, LastSaveInv, shutdownResult = "ok"
               PROVE  \E r \in rivals : /\ disk.usedCodes = r.usedCodes
                                        /\ SavedAlone => r.usedCodes = usedCodes
    BY DEF ShutdownSavesUsedCodes
  <2>1. /\ \E r \in rivals : disk["usedCodes"] = r["usedCodes"]
        /\ SavedAlone => \E r \in rivals : /\ r.usedCodes = usedCodes
                                           /\ disk["usedCodes"] = r["usedCodes"]
    BY SavedAloneDisk DEF Files
  <2> QED BY <2>1
<1> QED BY <1>1, RivalsInvariant, LastSaveInvariant, PTL

(* A shutdown that reports success has left the credit of its overlapping  *)
(* saves on the disk; if there was none to overwrite the last save with    *)
(* other contents, a start of the computer would deduce the very credit    *)
(* the manager had, but for what the wall clock was set since, whichever   *)
(* saves and timers failed.                                                *)
THEOREM CreditIsSaved == Spec => []ShutdownSavesCredit
<1>1. TypeOK /\ RivalsInv /\ LastSaveInv => ShutdownSavesCredit
  <2> SUFFICES ASSUME TypeOK, RivalsInv, LastSaveInv, shutdownResult = "ok"
               PROVE  /\ \E r \in rivals : disk.clockTime = r.clockTime
                      /\ \E r \in rivals : disk.expirySeconds = r.expirySeconds
                      /\ SavedAlone => RestoredCredit(nowSecs + savedOffset)
                                         = CreditAt(nowSecs, expiryTime)
    BY DEF ShutdownSavesCredit
  <2>1. \A f \in Files : \E r \in rivals : disk[f] = r[f]
    BY SavedAloneDisk
  <2>2. ASSUME SavedAlone
        PROVE  RestoredCredit(nowSecs + savedOffset) = CreditAt(nowSecs, expiryTime)
    <3>1. PICK r \in rivals : DeducibleNow(r) /\ \A f \in Files : disk[f] = r[f]
      BY <2>2, SavedAloneDisk
    <3>2. disk.clockTime = r.clockTime /\ disk.expirySeconds = r.expirySeconds
      BY <3>1 DEF Files
    <3>3. nowSecs + savedOffset \in Int
      BY EpgManagerAssumption DEF TypeOK
    <3> DEFINE wall == nowSecs + savedOffset
    <3>4. Deducible(r, wall, nowSecs, expiryTime) /\ wall \in Int
      BY <3>1, <3>3 DEF DeducibleNow
    <3> HIDE DEF wall
    <3>5. RestoredCredit(wall) = CreditAt(nowSecs, expiryTime)
      BY <3>2, <3>4 DEF Deducible, RestoredCredit, CreditAt
    <3> QED BY <3>5 DEF wall
  <2> QED BY <2>1, <2>2 DEF Files
<1> QED BY <1>1, RivalsInvariant, LastSaveInvariant, TypeCorrect, PTL
=============================================================================
