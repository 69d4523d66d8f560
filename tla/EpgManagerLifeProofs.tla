------------------------- MODULE EpgManagerLifeProofs -------------------------
(***************************************************************************)
(* Theorems about EpgManagerLife, for any files, any failures of the file  *)
(* operations and of the timers, any codes and any number of crashes: how  *)
(* the load counts what it waits for, that the manager of each life keeps  *)
(* the invariants of EpgManager, that no life makes credit of nothing, and *)
(* that clean restarts keep the credit and the codes that were used.       *)
(***************************************************************************)
EXTENDS EpgManagerLife, EpgManagerProofs

ExpiryFiles == {"expiryTime", "expirySeconds"}

ReadsType ==
  /\ reads = [f \in LoadFiles |-> reads[f]]
  /\ \A f \in LoadFiles : reads[f] \in ReadStates(f)

LoadType ==
  /\ ReadsType
  /\ deletes \in [StateFiles -> {"none", "io", "ok", "err", "done"}]
  /\ initTask \in MultiTasks
  /\ invalidData \in BOOLEAN
  /\ lastSaveTime \in Nat \cup {NoFile}
  /\ initSave \in SaveSlots \cup {NoSave}
  /\ legacyExpiry \in Nat \cup Valueless

(* One of the expiry files is read, after clock-time; a file is deleted    *)
(* after it was read; and the load's save starts with the credit.          *)
LoadOrder ==
  /\ reads["clockTime"].step # "called" => \A f \in ExpiryFiles : reads[f].step = "none"
  /\ \E f \in ExpiryFiles : reads[f].step = "none"
  /\ reads["clockTime"].step = "called" /\ ~initTask.hadError =>
       \E f \in ExpiryFiles : reads[f].step # "none"
  /\ phase # "off" => \A f \in FirstFiles : reads[f].step # "none"
  /\ \A f \in StateFiles : deletes[f] # "none" => reads[f].step = "called"
  /\ initSave # NoSave => \E f \in ExpiryFiles : reads[f].step = "called"

NothingWhenOff ==
  phase = "off" =>
    /\ reads = NoReads /\ deletes = NoDeletes
    /\ initTask = NoTask /\ ~invalidData /\ initSave = NoSave

(* The task's counter, whatever has failed and in every phase. *)
CountInv ==
  IF invalidData THEN initTask.pending > Outstanding ELSE initTask.pending = Outstanding

RunningInv == phase = "running" => initTask = NoTask

LoadInv ==
  /\ LoadType
  /\ LoadOrder
  /\ NothingWhenOff
  /\ CountInv
  /\ RunningInv

(* The load waits for a save that has yet to return, so that it is told of *)
(* its result.                                                             *)
LoadSaveUnderWay == initSave # NoSave => initSave \in UnreturnedSaves("internal")

-----------------------------------------------------------------------------
(* What the load waits for, as three sets. *)

Loads == {f \in LoadFiles : reads[f].step \in {"io", "ended"}}
Deletions == {f \in StateFiles : deletes[f] \in {"io", "ok", "err"}}
LoadSaves == {initSave} \ {NoSave}

LEMMA OutstandingSets ==
  /\ Outstanding = Cardinality(Loads) + Cardinality(Deletions) + Cardinality(LoadSaves)
  /\ Outstanding' = Cardinality(Loads') + Cardinality(Deletions') + Cardinality(LoadSaves')
BY DEF Outstanding, LoadOperations, Loads, Deletions, LoadSaves

LEMMA FirstFilesCount == IsFiniteSet(FirstFiles) /\ Cardinality(FirstFiles) = 4
<1> DEFINE two == {"clockTime", "usedCodes"}
           three == {"clockTime", "usedCodes", "key"}
<1>1. IsFiniteSet({"clockTime"}) /\ Cardinality({"clockTime"}) = 1
  BY FS_Singleton
<1>2. two = {"clockTime"} \cup {"usedCodes"} /\ "usedCodes" \notin {"clockTime"}
  OBVIOUS
<1>3. IsFiniteSet(two) /\ Cardinality(two) = 2
  BY <1>1, <1>2, FS_AddElement
<1>4. three = two \cup {"key"} /\ "key" \notin two
  OBVIOUS
<1>5. FirstFiles = three \cup {"accountId"} /\ "accountId" \notin three
  BY DEF FirstFiles
<1> HIDE DEF two, three
<1>6. IsFiniteSet(three) /\ Cardinality(three) = 3
  BY <1>3, <1>4, FS_AddElement
<1> QED BY <1>5, <1>6, FS_AddElement

LEMMA FilesFinite == IsFiniteSet(LoadFiles) /\ IsFiniteSet(StateFiles)
<1>1. IsFiniteSet((FirstFiles \cup {"expiryTime"}) \cup {"expirySeconds"})
  BY FirstFilesCount, FS_AddElement
<1>2. LoadFiles = (FirstFiles \cup {"expiryTime"}) \cup {"expirySeconds"}
  BY DEF LoadFiles, FirstFiles
<1>3. StateFiles \subseteq LoadFiles
  BY DEF StateFiles, LoadFiles, Files
<1> QED BY <1>1, <1>2, <1>3, FS_Subset

LEMMA SetsFinite ==
  /\ IsFiniteSet(Loads) /\ IsFiniteSet(Deletions) /\ IsFiniteSet(LoadSaves)
  /\ Cardinality(Loads) \in Nat /\ Cardinality(Deletions) \in Nat
  /\ Cardinality(LoadSaves) \in Nat
<1>1. IsFiniteSet(Loads) /\ IsFiniteSet(Deletions)
  BY FilesFinite, FS_Subset DEF Loads, Deletions
<1>2. IsFiniteSet(LoadSaves)
  BY FS_Singleton, FS_Subset DEF LoadSaves
<1> QED BY <1>1, <1>2, FS_CardinalityType

LEMMA OutstandingType == Outstanding \in Nat
BY OutstandingSets, SetsFinite

-----------------------------------------------------------------------------
(* What the callbacks of the load leave to wait for. *)

(* A file was read, and its callback has run. *)
LEMMA ReadCalled ==
  ASSUME LoadType, NEW f \in LoadFiles, reads[f].step = "ended",
         reads' = [reads EXCEPT ![f] = WasRead]
  PROVE  /\ ReadsType'
         /\ reads'[f].step = "called" /\ \A g \in LoadFiles \ {f} : reads'[g] = reads[g]
         /\ f \in Loads
         /\ Cardinality(Loads') = Cardinality(Loads) - 1
<1>1. reads'[f] = WasRead /\ \A g \in LoadFiles \ {f} : reads'[g] = reads[g]
  BY DEF LoadType, ReadsType
<1>2. reads' = [g \in LoadFiles |-> reads'[g]]
  BY DEF LoadType, ReadsType
<1>3. WasRead \in ReadStates(f) /\ WasRead.step = "called"
  BY DEF WasRead, ReadStates
<1>4. ReadsType'
  BY <1>1, <1>2, <1>3 DEF LoadType, ReadsType, ReadStates, FileValues
<1>5. f \in Loads /\ Loads' = Loads \ {f}
  BY <1>1, <1>3 DEF Loads
<1>6. Cardinality(Loads \ {f}) = Cardinality(Loads) - 1
  BY <1>5, SetsFinite, FS_RemoveElement
<1> QED BY <1>1, <1>3, <1>4, <1>5, <1>6

(* The callback of clock-time replaces its read by that of an expiry file. *)
LEMMA ClockTimeCalled ==
  ASSUME LoadType, LoadOrder, reads["clockTime"].step = "ended",
         reads' = ReadsAfter("clockTime")
  PROVE  /\ ReadsType'
         /\ reads'["clockTime"].step = "called" /\ "clockTime" \in Loads
         /\ \E g \in ExpiryFiles :
              /\ reads'[g].step = "io"
              /\ \A h \in LoadFiles \ {"clockTime", g} : reads'[h] = reads[h]
         /\ Cardinality(Loads') = Cardinality(Loads)
<1>1. PICK g \in ExpiryFiles :
        reads' = [[reads EXCEPT !["clockTime"] = WasRead] EXCEPT ![g] = Reading]
  BY DEF ReadsAfter, ExpiryFiles
<1>2. g \in LoadFiles /\ "clockTime" \in LoadFiles /\ g # "clockTime"
  BY DEF ExpiryFiles, LoadFiles
<1>3. /\ reads'["clockTime"] = WasRead /\ reads'[g] = Reading
      /\ \A h \in LoadFiles \ {"clockTime", g} : reads'[h] = reads[h]
  BY <1>1, <1>2 DEF LoadType, ReadsType
<1>4. reads' = [h \in LoadFiles |-> reads'[h]]
  BY <1>1, <1>2 DEF LoadType, ReadsType
<1>5. /\ WasRead \in ReadStates("clockTime") /\ WasRead.step = "called"
      /\ Reading \in ReadStates(g) /\ Reading.step = "io"
  BY DEF WasRead, Reading, ReadStates
<1>6. ReadsType'
  BY <1>3, <1>4, <1>5 DEF LoadType, ReadsType, ReadStates, FileValues
<1>7. reads[g].step = "none"
  BY DEF LoadOrder
<1>8. "clockTime" \in Loads /\ g \notin Loads
  BY <1>2, <1>7 DEF Loads
<1>9. Loads' = (Loads \ {"clockTime"}) \cup {g}
  BY <1>2, <1>3, <1>5 DEF Loads
<1>10. /\ IsFiniteSet(Loads \ {"clockTime"})
       /\ Cardinality(Loads \ {"clockTime"}) = Cardinality(Loads) - 1
  BY <1>8, SetsFinite, FS_RemoveElement
<1>11. Cardinality(Loads') = Cardinality(Loads) - 1 + 1
  BY <1>8, <1>9, <1>10, FS_AddElement
<1> QED BY <1>3, <1>5, <1>6, <1>8, <1>11, SetsFinite

LEMMA DeletionStarts ==
  ASSUME LoadType, NEW f \in StateFiles, deletes[f] = "none", deletes' = Deleting(f)
  PROVE  /\ deletes' \in [StateFiles -> {"none", "io", "ok", "err", "done"}]
         /\ \A g \in StateFiles \ {f} : deletes'[g] = deletes[g]
         /\ Cardinality(Deletions') = Cardinality(Deletions) + 1
<1>1. /\ deletes' \in [StateFiles -> {"none", "io", "ok", "err", "done"}]
      /\ deletes'[f] = "io" /\ \A g \in StateFiles \ {f} : deletes'[g] = deletes[g]
  BY DEF LoadType, Deleting
<1>2. Deletions' = Deletions \cup {f} /\ f \notin Deletions
  BY <1>1 DEF Deletions
<1> QED BY <1>1, <1>2, SetsFinite, FS_AddElement

LEMMA DeletionCalled ==
  ASSUME LoadType, NEW f \in StateFiles, deletes[f] \in {"ok", "err"},
         deletes' = [deletes EXCEPT ![f] = "done"]
  PROVE  /\ deletes' \in [StateFiles -> {"none", "io", "ok", "err", "done"}]
         /\ \A g \in StateFiles \ {f} : deletes'[g] = deletes[g]
         /\ Cardinality(Deletions') = Cardinality(Deletions) - 1
         /\ Cardinality(Deletions) > 0
<1>1. /\ deletes' \in [StateFiles -> {"none", "io", "ok", "err", "done"}]
      /\ deletes'[f] = "done" /\ \A g \in StateFiles \ {f} : deletes'[g] = deletes[g]
  BY DEF LoadType
<1>2. Deletions' = Deletions \ {f} /\ f \in Deletions
  BY <1>1 DEF Deletions
<1>3. Cardinality(Deletions) > 0
  BY <1>2, SetsFinite, FS_EmptySet
<1> QED BY <1>1, <1>2, <1>3, SetsFinite, FS_RemoveElement

LEMMA LoadSavesCount ==
  /\ initSave = NoSave => Cardinality(LoadSaves) = 0
  /\ initSave # NoSave => Cardinality(LoadSaves) = 1
<1>1. initSave = NoSave => LoadSaves = {}
  BY DEF LoadSaves
<1>2. initSave # NoSave => LoadSaves = {initSave}
  BY DEF LoadSaves
<1> QED BY <1>1, <1>2, FS_EmptySet, FS_Singleton

-----------------------------------------------------------------------------
(* The counter of the load's task. *)

LEMMA TaskSteps ==
  ASSUME NEW task \in MultiTasks
  PROVE  /\ Increment(task) \in MultiTasks
         /\ Increment(task).pending = task.pending + 1
         /\ Increment(task).hadError = task.hadError
         /\ ReturnBoolean(task).pending = task.pending - 1
         /\ ReturnBoolean(task).hadError = task.hadError
         /\ ReturnError(task).pending = task.pending - 1
         /\ ReturnError(task).hadError
         /\ task.pending > 0 =>
              ReturnBoolean(task) \in MultiTasks /\ ReturnError(task) \in MultiTasks
BY DEF Increment, ReturnBoolean, ReturnError, MultiTasks

LEMMA CountCarries ==
  ASSUME LoadType, CountInv, NEW d \in Int, Outstanding' = Outstanding + d,
         initTask'.pending = initTask.pending + d, UNCHANGED invalidData
  PROVE  CountInv'
BY OutstandingType DEF CountInv, LoadType, MultiTasks

LEMMA PendingPositive ==
  ASSUME LoadType, CountInv, Outstanding > 0
  PROVE  initTask.pending > 0
BY OutstandingType DEF CountInv, LoadType, MultiTasks

(* Something to wait for is only there during a load. *)
LEMMA LoadActive ==
  ASSUME LoadInv, Outstanding > 0
  PROVE  phase \notin {"off", "running"}
<1>1. initTask.pending > 0
  BY PendingPositive DEF LoadInv
<1>2. NoTask.pending = 0
  BY DEF NoTask, Attach
<1> QED BY <1>1, <1>2 DEF LoadInv, NothingWhenOff, RunningInv

LEMMA LoadInvCarries ==
  ASSUME LoadInv, Outstanding > 0, UNCHANGED phase, LoadType', LoadOrder', CountInv'
  PROVE  LoadInv'
BY LoadActive DEF LoadInv, NothingWhenOff, RunningInv

-----------------------------------------------------------------------------
(* The order of the load. *)

(* A read moves on; what follows from clock-time being called only holds   *)
(* because its callback either reads an expiry file or fails.              *)
LEMMA OrderKept ==
  ASSUME LoadOrder, UNCHANGED phase, NEW f \in LoadFiles, reads[f].step \in {"io", "ended"},
         reads'[f].step \in {"ended", "called"},
         \A g \in LoadFiles \ {f} : reads'[g] = reads[g],
         initTask.hadError => initTask'.hadError,
         f = "clockTime" /\ reads'[f].step = "called" => initTask'.hadError,
         \A g \in StateFiles : deletes'[g] # "none" =>
           deletes[g] # "none" \/ (g = f /\ reads'[f].step = "called"),
         \/ initSave' \in {initSave, NoSave}
         \/ f \in ExpiryFiles /\ reads'[f].step = "called"
  PROVE  LoadOrder'
<1> DEFINE step(g) == reads[g].step
           next(g) == reads'[g].step
<1>0. /\ \A g \in LoadFiles \ {f} : next(g) = step(g)
      /\ step(f) \in {"io", "ended"} /\ next(f) \in {"ended", "called"}
      /\ ExpiryFiles \subseteq LoadFiles /\ FirstFiles \subseteq LoadFiles
      /\ StateFiles \subseteq LoadFiles /\ "clockTime" \in LoadFiles
      /\ "clockTime" \notin ExpiryFiles
  BY DEF ExpiryFiles, FirstFiles, StateFiles, Files, LoadFiles
<1>1. next("clockTime") # "called" => \A g \in ExpiryFiles : next(g) = "none"
  BY <1>0 DEF LoadOrder
<1>2. \E g \in ExpiryFiles : next(g) = "none"
  BY <1>0 DEF LoadOrder
<1>3. next("clockTime") = "called" /\ ~initTask'.hadError
        => \E g \in ExpiryFiles : next(g) # "none"
  BY <1>0 DEF LoadOrder
<1>4. phase' # "off" => \A g \in FirstFiles : next(g) # "none"
  BY <1>0 DEF LoadOrder
<1>5. \A g \in StateFiles : deletes'[g] # "none" => next(g) = "called"
  BY <1>0 DEF LoadOrder
<1>6. initSave' # NoSave => \E g \in ExpiryFiles : next(g) = "called"
  BY <1>0 DEF LoadOrder
<1> QED BY <1>1, <1>2, <1>3, <1>4, <1>5, <1>6 DEF LoadOrder

(* The same for a step that reads nothing. *)
LEMMA OrderUnchanged ==
  ASSUME LoadOrder, UNCHANGED <<phase, reads>>, initTask.hadError => initTask'.hadError,
         \A g \in StateFiles : deletes'[g] # "none" => deletes[g] # "none",
         initSave' \in {initSave, NoSave}
  PROVE  LoadOrder'
BY DEF LoadOrder

LEMMA ClockTimeOrder ==
  ASSUME LoadOrder, UNCHANGED <<phase, initSave>>, NEW g \in ExpiryFiles,
         reads["clockTime"].step = "ended", reads'["clockTime"].step = "called",
         reads'[g].step = "io",
         \A h \in LoadFiles \ {"clockTime", g} : reads'[h] = reads[h],
         \A h \in StateFiles : deletes'[h] # "none" => deletes[h] # "none" \/ h = "clockTime"
  PROVE  LoadOrder'
<1> DEFINE step(h) == reads[h].step
           next(h) == reads'[h].step
<1>0. /\ \A h \in LoadFiles \ {"clockTime", g} : next(h) = step(h)
      /\ step("clockTime") = "ended" /\ next("clockTime") = "called"
      /\ step(g) = "none" /\ next(g) = "io"
      /\ ExpiryFiles \subseteq LoadFiles /\ FirstFiles \subseteq LoadFiles
      /\ StateFiles \subseteq LoadFiles /\ "clockTime" \in LoadFiles
      /\ "clockTime" \notin ExpiryFiles
  BY DEF ExpiryFiles, FirstFiles, StateFiles, Files, LoadFiles, LoadOrder
<1>2. \E h \in ExpiryFiles : next(h) = "none"
  <2>1. PICK h \in ExpiryFiles : h # g
    BY DEF ExpiryFiles
  <2> QED BY <1>0, <2>1 DEF LoadOrder
<1>4. phase' # "off" => \A h \in FirstFiles : next(h) # "none"
  BY <1>0 DEF LoadOrder
<1>5. \A h \in StateFiles : deletes'[h] # "none" => next(h) = "called"
  BY <1>0 DEF LoadOrder
<1>6. initSave' # NoSave => \E h \in ExpiryFiles : next(h) = "called"
  BY <1>0 DEF LoadOrder
<1> QED BY <1>0, <1>2, <1>4, <1>5, <1>6 DEF LoadOrder

(* The expiry file is read once, so there is no save of the load before.   *)
LEMMA NoSaveYet ==
  ASSUME LoadOrder, NEW f \in ExpiryFiles, reads[f].step # "none", reads[f].step # "called"
  PROVE  initSave = NoSave
BY DEF LoadOrder, ExpiryFiles

-----------------------------------------------------------------------------
(* The steps of the load, one by one. *)

LEMMA EndReadLoadInv ==
  ASSUME LoadInv, TypeOK, hasKey \in BOOLEAN, NEW f \in LoadFiles, NEW result \in IoResults,
         EndRead(f, result)
  PROVE  LoadInv'
<1> DEFINE data == IF result = "ok" THEN FileContents(f) ELSE Unreadable
           ended == [step |-> "ended", data |-> data]
<1>0. LoadType /\ LoadOrder /\ CountInv
  BY DEF LoadInv
<1>1. /\ reads' = [reads EXCEPT ![f] = ended] /\ reads[f].step = "io"
      /\ UNCHANGED <<phase, deletes, initTask, invalidData, lastSaveTime, initSave, legacyExpiry>>
  BY DEF EndRead
<1>2. FileContents(f) \in FileValues(f)
  <2>1. CASE f \in Files
    BY <2>1 DEF FileContents, FileValues, Files, TypeOK, DiskContents
  <2>2. CASE f \notin Files
    BY <1>0, <2>2 DEF FileContents, FileValues, Files, LoadFiles, LoadType
  <2> QED BY <2>1, <2>2
<1>3. ended.step = "ended" /\ ended \in ReadStates(f)
  BY <1>2 DEF ReadStates
<1> HIDE DEF ended, data
<1>4. /\ reads'[f] = ended /\ \A g \in LoadFiles \ {f} : reads'[g] = reads[g]
      /\ reads' = [g \in LoadFiles |-> reads'[g]]
  BY <1>0, <1>1 DEF LoadType, ReadsType
<1>5. LoadType'
  <2>1. ReadsType'
    BY <1>0, <1>3, <1>4 DEF LoadType, ReadsType, ReadStates, FileValues
  <2> QED BY <1>0, <1>1, <2>1 DEF LoadType
<1>6. LoadOrder'
  BY <1>0, <1>1, <1>3, <1>4, OrderKept
<1>7. Loads' = Loads /\ f \in Loads /\ Deletions' = Deletions /\ LoadSaves' = LoadSaves
  BY <1>1, <1>3, <1>4 DEF Loads, Deletions, LoadSaves
<1>8. Outstanding' = Outstanding /\ Outstanding > 0
  <2>1. Cardinality(Loads) > 0
    BY <1>7, SetsFinite, FS_EmptySet
  <2> QED BY <1>7, <2>1, OutstandingSets, SetsFinite
<1>9. CountInv'
  BY <1>0, <1>1, <1>8, OutstandingType DEF CountInv
<1> QED BY <1>1, <1>5, <1>6, <1>8, <1>9, LoadInvCarries

(* The callback of a read is due, so that the load is not over. *)
LEMMA ReadOutstanding ==
  ASSUME NEW f \in LoadFiles, reads[f].step \in {"io", "ended"}
  PROVE  Cardinality(Loads) > 0 /\ Outstanding > 0
<1>1. f \in Loads
  BY DEF Loads
<1>2. Cardinality(Loads) > 0
  BY <1>1, SetsFinite, FS_EmptySet
<1> QED BY <1>2, OutstandingSets, SetsFinite

(* A read that is called back and returned, and starts nothing. *)
LEMMA ReturnedLoadInv ==
  ASSUME LoadInv, NEW f \in LoadFiles, reads[f].step = "ended",
         reads' = [reads EXCEPT ![f] = WasRead],
         \/ initTask' = ReturnError(initTask)
         \/ initTask' = ReturnBoolean(initTask) /\ f # "clockTime",
         UNCHANGED <<phase, deletes, invalidData, lastSaveTime, initSave, legacyExpiry>>
  PROVE  LoadInv'
<1>0. LoadType /\ LoadOrder /\ CountInv /\ initTask \in MultiTasks
  BY DEF LoadInv, LoadType
<1>1. /\ ReadsType'
      /\ reads'[f].step = "called" /\ \A g \in LoadFiles \ {f} : reads'[g] = reads[g]
      /\ Cardinality(Loads') = Cardinality(Loads) - 1
  BY <1>0, ReadCalled
<1>2. Outstanding > 0 /\ initTask.pending > 0
  BY <1>0, ReadOutstanding, PendingPositive
<1>3. /\ initTask' \in MultiTasks /\ initTask'.pending = initTask.pending - 1
      /\ initTask.hadError => initTask'.hadError
      /\ f = "clockTime" => initTask'.hadError
  BY <1>0, <1>2, TaskSteps
<1>4. LoadType'
  BY <1>0, <1>1, <1>3 DEF LoadType
<1>5. LoadOrder'
  BY <1>0, <1>1, <1>3, OrderKept
<1>6. Outstanding' = Outstanding + (-1)
  <2>1. Deletions' = Deletions /\ LoadSaves' = LoadSaves
    BY DEF Deletions, LoadSaves
  <2> QED BY <1>1, <2>1, OutstandingSets, SetsFinite
<1>7. CountInv'
  <2>1. initTask'.pending = initTask.pending + (-1)
    BY <1>0, <1>3 DEF MultiTasks
  <2> QED BY <1>0, <1>6, <2>1, CountCarries
<1> QED BY <1>2, <1>4, <1>5, <1>7, LoadInvCarries

LEMMA LoadRefusedLoadInv ==
  ASSUME LoadInv, NEW f \in LoadFiles, LoadRefused(f)
  PROVE  LoadInv'
BY ReturnedLoadInv DEF LoadRefused

LEMMA UsedCodesLoadInv == LoadInv /\ UsedCodesLoaded => LoadInv'
BY ReturnedLoadInv DEF UsedCodesLoaded, Loaded, ReadsAfter, LoadFiles

LEMMA KeyOrAccountLoadInv ==
  ASSUME LoadInv, NEW f \in LoadFiles, KeyOrAccountLoaded(f)
  PROVE  LoadInv'
<1>1. f \in {"key", "accountId"} /\ reads[f].step = "ended"
  BY DEF KeyOrAccountLoaded, Loaded
<1>2. reads' = [reads EXCEPT ![f] = WasRead]
  BY <1>1 DEF KeyOrAccountLoaded, ReadsAfter
<1> QED BY <1>1, <1>2, ReturnedLoadInv DEF KeyOrAccountLoaded

LEMMA ClockTimeLoadInv == LoadInv /\ ClockTimeLoaded => LoadInv'
<1> SUFFICES ASSUME LoadInv, ClockTimeLoaded PROVE LoadInv'
  OBVIOUS
<1>0. LoadType /\ LoadOrder /\ CountInv /\ initTask \in MultiTasks
  BY DEF LoadInv, LoadType
<1>1. /\ reads["clockTime"].step = "ended" /\ reads' = ReadsAfter("clockTime")
      /\ reads["clockTime"].data \notin {Corrupt, Unreadable}
      /\ initTask' = ReturnBoolean(Increment(initTask))
      /\ UNCHANGED <<phase, deletes, invalidData, initSave, legacyExpiry>>
      /\ "clockTime" \in LoadFiles
  BY DEF ClockTimeLoaded, Loaded, LoadFiles
<1>2. PICK g \in ExpiryFiles :
        /\ ReadsType' /\ reads'["clockTime"].step = "called" /\ reads'[g].step = "io"
        /\ \A h \in LoadFiles \ {"clockTime", g} : reads'[h] = reads[h]
        /\ Cardinality(Loads') = Cardinality(Loads)
  BY <1>0, <1>1, ClockTimeCalled
<1>3. Outstanding > 0
  BY <1>1, ReadOutstanding
<1>4. initTask' \in MultiTasks /\ initTask'.pending = initTask.pending
  <2>1. Increment(initTask) \in MultiTasks /\ Increment(initTask).pending = initTask.pending + 1
    BY <1>0, TaskSteps
  <2> QED BY <1>0, <1>1, <2>1, TaskSteps DEF MultiTasks
<1>5. lastSaveTime' \in Nat \cup {NoFile}
  <2>1. reads["clockTime"].data \in Nat \cup Valueless
    BY <1>0, <1>1 DEF LoadType, ReadsType, ReadStates, FileValues
  <2> QED BY <1>0, <2>1 DEF ClockTimeLoaded, LoadType
<1>6. LoadType'
  BY <1>0, <1>1, <1>2, <1>4, <1>5 DEF LoadType
<1>7. LoadOrder'
  BY <1>0, <1>1, <1>2, ClockTimeOrder
<1>8. Outstanding' = Outstanding
  <2>1. Deletions' = Deletions /\ LoadSaves' = LoadSaves
    BY <1>1 DEF Deletions, LoadSaves
  <2> QED BY <1>2, <2>1, OutstandingSets
<1>9. CountInv'
  BY <1>0, <1>1, <1>4, <1>8 DEF CountInv
<1> QED BY <1>1, <1>3, <1>6, <1>7, <1>9, LoadInvCarries

LEMMA CorruptLoadInv ==
  ASSUME LoadInv, NEW f \in StateFiles, CorruptLoaded(f)
  PROVE  LoadInv'
<1>0. LoadType /\ LoadOrder /\ CountInv /\ initTask \in MultiTasks
  BY DEF LoadInv, LoadType
<1>1. /\ reads[f].step = "ended" /\ reads' = ReadsAfter(f) /\ deletes' = Deleting(f)
      /\ invalidData' = TRUE /\ f \in LoadFiles
      /\ UNCHANGED <<phase, lastSaveTime, initSave, legacyExpiry>>
  BY DEF CorruptLoaded, Loaded, StateFiles, Files, LoadFiles
<1>2. deletes[f] = "none"
  BY <1>0, <1>1 DEF LoadOrder, LoadType
<1>3. /\ deletes' \in [StateFiles -> {"none", "io", "ok", "err", "done"}]
      /\ \A g \in StateFiles \ {f} : deletes'[g] = deletes[g]
      /\ Cardinality(Deletions') = Cardinality(Deletions) + 1
  BY <1>0, <1>1, <1>2, DeletionStarts
<1>4. Outstanding > 0
  BY <1>1, ReadOutstanding
<1>5. LoadSaves' = LoadSaves
  BY <1>1 DEF LoadSaves
<1>6. CountInv => initTask.pending >= Outstanding
  BY <1>0, OutstandingType DEF CountInv, MultiTasks
<1>7. CASE f = "clockTime"
  <2>1. initTask' = Increment(Increment(initTask))
    BY <1>7 DEF CorruptLoaded, StartsRead
  <2>2. initTask' \in MultiTasks /\ initTask'.pending = initTask.pending + 2
    <3>1. Increment(initTask) \in MultiTasks /\ Increment(initTask).pending = initTask.pending + 1
      BY <1>0, TaskSteps
    <3> QED BY <1>0, <2>1, <3>1, TaskSteps DEF MultiTasks
  <2>3. PICK g \in ExpiryFiles :
          /\ ReadsType' /\ reads'["clockTime"].step = "called" /\ reads'[g].step = "io"
          /\ \A h \in LoadFiles \ {"clockTime", g} : reads'[h] = reads[h]
          /\ Cardinality(Loads') = Cardinality(Loads)
    BY <1>0, <1>1, <1>7, ClockTimeCalled
  <2>4. LoadType'
    BY <1>0, <1>1, <1>3, <2>2, <2>3 DEF LoadType
  <2>5. LoadOrder'
    BY <1>0, <1>1, <1>3, <1>7, <2>3, ClockTimeOrder
  <2>6. Outstanding' = Outstanding + 1
    BY <1>3, <1>5, <2>3, OutstandingSets, SetsFinite
  <2>7. CountInv'
    BY <1>0, <1>1, <1>6, <2>2, <2>6, OutstandingType DEF CountInv, MultiTasks
  <2> QED BY <1>1, <1>4, <2>4, <2>5, <2>7, LoadInvCarries
<1>8. CASE f # "clockTime"
  <2>1. initTask' = Increment(initTask) /\ reads' = [reads EXCEPT ![f] = WasRead]
    BY <1>1, <1>8 DEF CorruptLoaded, StartsRead, ReadsAfter
  <2>2. /\ initTask' \in MultiTasks /\ initTask'.pending = initTask.pending + 1
        /\ initTask'.hadError = initTask.hadError
    BY <1>0, <2>1, TaskSteps
  <2>3. /\ ReadsType' /\ reads'[f].step = "called"
        /\ \A g \in LoadFiles \ {f} : reads'[g] = reads[g]
        /\ Cardinality(Loads') = Cardinality(Loads) - 1
    BY <1>0, <1>1, <2>1, ReadCalled
  <2>4. LoadType'
    BY <1>0, <1>1, <1>3, <2>2, <2>3 DEF LoadType
  <2>5. LoadOrder'
    BY <1>0, <1>1, <1>3, <1>8, <2>2, <2>3, OrderKept
  <2>6. Outstanding' = Outstanding
    BY <1>3, <1>5, <2>3, OutstandingSets, SetsFinite
  <2>7. CountInv'
    BY <1>0, <1>1, <1>6, <2>2, <2>6, OutstandingType DEF CountInv, MultiTasks
  <2> QED BY <1>1, <1>4, <2>4, <2>5, <2>7, LoadInvCarries
<1> QED BY <1>7, <1>8

(* set_expiry_time() in a load is one more to wait for, or none, and       *)
(* returns what its caller was.                                            *)
LEMMA SetLoadedExpiryTask ==
  ASSUME initSave = NoSave, NEW span, NEW task \in MultiTasks, task.pending > 0,
         SetLoadedExpiry(span, task)
  PROVE  /\ initSave' \in SaveSlots \cup {NoSave}
         /\ initTask' \in MultiTasks /\ initTask'.hadError = task.hadError
         /\ Cardinality(LoadSaves) = 0 /\ Cardinality(LoadSaves') \in {0, 1}
         /\ initTask'.pending = task.pending + Cardinality(LoadSaves') - 1
<1>1. Cardinality(LoadSaves) = 0
  BY LoadSavesCount
<1>2. /\ initSave' = NoSave => Cardinality(LoadSaves') = 0
      /\ initSave' # NoSave => Cardinality(LoadSaves') = 1
  <2>1. initSave' = NoSave => LoadSaves' = {}
    BY DEF LoadSaves
  <2>2. initSave' # NoSave => LoadSaves' = {initSave'}
    BY DEF LoadSaves
  <2> QED BY <2>1, <2>2, FS_EmptySet, FS_Singleton
<1>3. CASE initSave' \in SaveSlots /\ initTask' = ReturnBoolean(Increment(task))
  <2>1. Increment(task) \in MultiTasks /\ Increment(task).pending = task.pending + 1
        /\ Increment(task).hadError = task.hadError
    BY TaskSteps
  <2>2. initTask' \in MultiTasks /\ initTask'.pending = task.pending
        /\ initTask'.hadError = task.hadError
    BY <1>3, <2>1, TaskSteps DEF MultiTasks
  <2>3. initSave' # NoSave
    BY <1>3, EpgManagerLifeAssumption
  <2>4. initTask'.pending = task.pending + 1 - 1
    BY <2>2 DEF MultiTasks
  <2> QED BY <1>1, <1>2, <1>3, <2>2, <2>3, <2>4
<1>4. CASE initSave' = initSave /\ initTask' = ReturnBoolean(task)
  <2>1. initTask' \in MultiTasks /\ initTask'.pending = task.pending - 1
        /\ initTask'.hadError = task.hadError
    BY <1>4, TaskSteps
  <2>2. initTask'.pending = task.pending + 0 - 1
    BY <2>1 DEF MultiTasks
  <2> QED BY <1>1, <1>2, <1>4, <2>1, <2>2
<1> QED BY <1>3, <1>4 DEF SetLoadedExpiry, FreeSlots

(* The last callback of an expiry file: it may start a save, and a         *)
(* deletion which the task was told of before.                             *)
LEMMA ExpiryLoadInv ==
  ASSUME LoadInv, NEW f \in ExpiryFiles, reads[f].step = "ended",
         reads' = [reads EXCEPT ![f] = WasRead],
         NEW d \in {0, 1},
         \/ d = 0 /\ UNCHANGED deletes
         \/ d = 1 /\ f \in StateFiles /\ deletes' = Deleting(f),
         NEW task \in MultiTasks, task.pending = initTask.pending + d,
         task.hadError = initTask.hadError,
         \/ \E span \in Nat : SetLoadedExpiry(span, task)
         \/ initTask' = ReturnBoolean(task) /\ UNCHANGED initSave,
         UNCHANGED <<phase, invalidData, lastSaveTime, legacyExpiry>>
  PROVE  LoadInv'
<1>0. LoadType /\ LoadOrder /\ CountInv /\ initTask \in MultiTasks /\ f \in LoadFiles
  BY DEF LoadInv, LoadType, ExpiryFiles, LoadFiles
<1>1. /\ ReadsType'
      /\ reads'[f].step = "called" /\ \A g \in LoadFiles \ {f} : reads'[g] = reads[g]
      /\ Cardinality(Loads') = Cardinality(Loads) - 1
  BY <1>0, ReadCalled
<1>2. Outstanding > 0 /\ initTask.pending > 0
  BY <1>0, ReadOutstanding, PendingPositive
<1>3. /\ deletes' \in [StateFiles -> {"none", "io", "ok", "err", "done"}]
      /\ \A g \in StateFiles : deletes'[g] # "none" => deletes[g] # "none" \/ g = f
      /\ Cardinality(Deletions') = Cardinality(Deletions) + d
  <2>1. CASE d = 0 /\ UNCHANGED deletes
    <3>1. Deletions' = Deletions
      BY <2>1 DEF Deletions
    <3> QED BY <1>0, <2>1, <3>1, SetsFinite DEF LoadType
  <2>2. CASE d = 1 /\ f \in StateFiles /\ deletes' = Deleting(f)
    <3>1. deletes[f] = "none"
      BY <1>0, <2>2 DEF LoadOrder, LoadType
    <3> QED BY <1>0, <2>2, <3>1, DeletionStarts
  <2> QED BY <2>1, <2>2
<1>4. initSave = NoSave
  BY <1>0, NoSaveYet
<1>5. /\ initSave' \in SaveSlots \cup {NoSave}
      /\ initTask' \in MultiTasks /\ initTask'.hadError = task.hadError
      /\ Cardinality(LoadSaves) = 0 /\ Cardinality(LoadSaves') \in {0, 1}
      /\ initTask'.pending = task.pending + Cardinality(LoadSaves') - 1
  <2>0. task.pending > 0
    BY <1>0, <1>2 DEF MultiTasks
  <2>1. CASE \E span \in Nat : SetLoadedExpiry(span, task)
    BY <1>4, <2>0, <2>1, SetLoadedExpiryTask
  <2>2. CASE initTask' = ReturnBoolean(task) /\ UNCHANGED initSave
    <3>1. LoadSaves = {} /\ LoadSaves' = {}
      BY <1>4, <2>2 DEF LoadSaves
    <3>2. initTask' \in MultiTasks /\ initTask'.pending = task.pending - 1
          /\ initTask'.hadError = task.hadError
      BY <2>0, <2>2, TaskSteps
    <3>3. task.pending - 1 = task.pending + 0 - 1
      BY DEF MultiTasks
    <3> QED BY <1>4, <2>2, <3>1, <3>2, <3>3, FS_EmptySet
  <2> QED BY <2>1, <2>2
<1>6. LoadType'
  BY <1>0, <1>1, <1>3, <1>5 DEF LoadType
<1>7. LoadOrder'
  BY <1>0, <1>1, <1>3, <1>5, OrderKept DEF ExpiryFiles
<1>8. CountInv'
  <2> DEFINE n == d + Cardinality(LoadSaves') - 1
  <2>1. n \in Int
    BY <1>5
  <2>2. Outstanding' = Outstanding + n
    BY <1>1, <1>3, <1>5, OutstandingSets, SetsFinite
  <2>3. initTask'.pending = initTask.pending + n
    BY <1>0, <1>5 DEF MultiTasks
  <2> HIDE DEF n
  <2> QED BY <1>0, <2>1, <2>2, <2>3, CountCarries
<1> QED BY <1>2, <1>6, <1>7, <1>8, LoadInvCarries

LEMMA LoadedValue ==
  ASSUME LoadType, NEW f \in ExpiryFiles, Loaded(f), reads[f].data \notin Valueless
  PROVE  reads[f].data \in Nat
BY DEF LoadType, ReadsType, ReadStates, FileValues, ExpiryFiles, LoadFiles, Loaded

LEMMA LoadedCreditType ==
  ASSUME TypeOK, NEW saveTime \in Nat, NEW saveCredit \in Nat
  PROVE  LoadedCredit(saveTime, saveCredit) \in Nat
BY EpgManagerAssumption, EpgManagerLifeAssumption DEF TypeOK, LoadedCredit

LEMMA LessType ==
  ASSUME NEW credit \in Nat, NEW secs \in Nat
  PROVE  Less(credit, secs) \in Nat
BY DEF Less

LEMMA ExpiryTimeLoadInv == LoadInv /\ TypeOK /\ ExpiryTimeLoaded => LoadInv'
<1> SUFFICES ASSUME LoadInv, TypeOK, ExpiryTimeLoaded PROVE LoadInv'
  OBVIOUS
<1>0. /\ LoadType /\ initTask \in MultiTasks /\ wallSecs \in Nat
      /\ "expiryTime" \in ExpiryFiles /\ "expiryTime" \in StateFiles
  BY EpgManagerAssumption DEF LoadInv, LoadType, TypeOK, ExpiryFiles, StateFiles
<1>1. /\ Loaded("expiryTime") /\ reads["expiryTime"].step = "ended"
      /\ reads' = [reads EXCEPT !["expiryTime"] = WasRead]
      /\ UNCHANGED <<phase, invalidData, lastSaveTime, legacyExpiry>>
  BY DEF ExpiryTimeLoaded, Loaded, ReadsAfter
<1>2. CASE reads["expiryTime"].data \in Valueless
  <2>1. SetLoadedExpiry(0, initTask) /\ UNCHANGED deletes
    BY <1>2 DEF ExpiryTimeLoaded
  <2>2. initTask.pending = initTask.pending + 0
    BY <1>0 DEF MultiTasks
  <2> QED BY <1>0, <1>1, <2>1, <2>2, ExpiryLoadInv
<1>3. CASE reads["expiryTime"].data \notin Valueless
  <2>1. Less(reads["expiryTime"].data, wallSecs) \in Nat
    BY <1>0, <1>1, <1>3, LoadedValue, LessType
  <2>2. /\ SetLoadedExpiry(Less(reads["expiryTime"].data, wallSecs), Increment(initTask))
        /\ deletes' = Deleting("expiryTime")
    BY <1>3 DEF ExpiryTimeLoaded
  <2>3. /\ Increment(initTask) \in MultiTasks
        /\ Increment(initTask).pending = initTask.pending + 1
        /\ Increment(initTask).hadError = initTask.hadError
    BY <1>0, TaskSteps
  <2> QED BY <1>0, <1>1, <2>1, <2>2, <2>3, ExpiryLoadInv
<1> QED BY <1>2, <1>3

LEMMA ExpirySecondsLoadInv == LoadInv /\ TypeOK /\ ExpirySecondsLoaded => LoadInv'
<1> SUFFICES ASSUME LoadInv, TypeOK, ExpirySecondsLoaded PROVE LoadInv'
  OBVIOUS
<1>0. /\ LoadType /\ initTask \in MultiTasks /\ "expirySeconds" \in ExpiryFiles
      /\ initTask.pending = initTask.pending + 0
  BY DEF LoadInv, LoadType, ExpiryFiles, MultiTasks
<1>1. /\ Loaded("expirySeconds") /\ reads["expirySeconds"].step = "ended"
      /\ reads' = [reads EXCEPT !["expirySeconds"] = WasRead]
      /\ UNCHANGED <<phase, deletes, invalidData, lastSaveTime, legacyExpiry>>
  BY DEF ExpirySecondsLoaded, Loaded, ReadsAfter
<1>2. \/ \E span \in Nat : SetLoadedExpiry(span, initTask)
      \/ initTask' = ReturnBoolean(initTask) /\ UNCHANGED initSave
  <2>1. CASE reads["expirySeconds"].data \in Valueless
    BY <2>1 DEF ExpirySecondsLoaded
  <2>2. CASE reads["expirySeconds"].data \notin Valueless /\ lastSaveTime # NoFile
    <3>1. reads["expirySeconds"].data \in Nat /\ lastSaveTime \in Nat
      BY <1>0, <1>1, <2>2, LoadedValue DEF LoadType
    <3>2. LoadedCredit(lastSaveTime, reads["expirySeconds"].data) \in Nat
      BY <3>1, LoadedCreditType
    <3> QED BY <2>2, <3>2 DEF ExpirySecondsLoaded
  <2>3. CASE reads["expirySeconds"].data \notin Valueless /\ lastSaveTime = NoFile
    BY <2>3 DEF ExpirySecondsLoaded
  <2> QED BY <2>1, <2>2, <2>3
<1> QED BY <1>0, <1>1, <1>2, ExpiryLoadInv

LEMMA EndDeleteLoadInv ==
  ASSUME LoadInv, NEW f \in StateFiles, NEW result \in IoResults, EndDelete(f, result)
  PROVE  LoadInv'
<1>0. LoadType /\ LoadOrder /\ CountInv
  BY DEF LoadInv
<1>1. /\ deletes[f] = "io" /\ deletes' = [deletes EXCEPT ![f] = result]
      /\ UNCHANGED <<phase, reads, initTask, invalidData, lastSaveTime, initSave>>
      /\ result \in {"ok", "err"} /\ legacyExpiry' \in {legacyExpiry, NoFile}
  BY EpgManagerAssumption DEF EndDelete
<1>2. /\ deletes'[f] = result /\ \A g \in StateFiles \ {f} : deletes'[g] = deletes[g]
      /\ deletes' \in [StateFiles -> {"none", "io", "ok", "err", "done"}]
  BY <1>0, <1>1 DEF LoadType
<1>3. LoadType'
  BY <1>0, <1>1, <1>2 DEF LoadType, ReadsType, ReadStates, FileValues, Valueless
<1>4. LoadOrder'
  BY <1>0, <1>1, <1>2, OrderUnchanged
<1>5. Loads' = Loads /\ Deletions' = Deletions /\ LoadSaves' = LoadSaves /\ f \in Deletions
  BY <1>1, <1>2 DEF Loads, Deletions, LoadSaves
<1>6. Outstanding' = Outstanding /\ Outstanding > 0
  <2>1. Cardinality(Deletions) > 0
    BY <1>5, SetsFinite, FS_EmptySet
  <2> QED BY <1>5, <2>1, OutstandingSets, SetsFinite
<1>7. CountInv'
  BY <1>0, <1>1, <1>6 DEF CountInv
<1> QED BY <1>1, <1>3, <1>4, <1>6, <1>7, LoadInvCarries

LEMMA FileDeletedLoadInv ==
  ASSUME LoadInv, NEW f \in StateFiles, FileDeleted(f)
  PROVE  LoadInv'
<1>0. LoadType /\ LoadOrder /\ CountInv /\ initTask \in MultiTasks
  BY DEF LoadInv, LoadType
<1>1. /\ deletes[f] \in {"ok", "err"} /\ deletes' = [deletes EXCEPT ![f] = "done"]
      /\ initTask' \in {ReturnError(initTask), ReturnBoolean(initTask)}
      /\ UNCHANGED <<phase, legacyExpiry, reads, invalidData, lastSaveTime, initSave>>
  BY DEF FileDeleted
<1>2. /\ deletes' \in [StateFiles -> {"none", "io", "ok", "err", "done"}]
      /\ \A g \in StateFiles \ {f} : deletes'[g] = deletes[g]
      /\ Cardinality(Deletions') = Cardinality(Deletions) - 1
      /\ Cardinality(Deletions) > 0
  BY <1>0, <1>1, DeletionCalled
<1>3. Loads' = Loads /\ LoadSaves' = LoadSaves
  BY <1>1 DEF Loads, LoadSaves
<1>4. Outstanding' = Outstanding + (-1) /\ Outstanding > 0
  BY <1>2, <1>3, OutstandingSets, SetsFinite
<1>5. /\ initTask' \in MultiTasks /\ initTask'.pending = initTask.pending - 1
      /\ initTask.hadError => initTask'.hadError
  BY <1>0, <1>1, <1>4, PendingPositive, TaskSteps
<1>6. LoadType'
  BY <1>0, <1>1, <1>2, <1>5 DEF LoadType, ReadsType, ReadStates, FileValues
<1>7. LoadOrder'
  <2>1. \A g \in StateFiles : deletes'[g] # "none" => deletes[g] # "none"
    BY <1>1, <1>2
  <2> QED BY <1>0, <1>1, <1>5, <2>1, OrderUnchanged
<1>8. CountInv'
  <2>1. initTask'.pending = initTask.pending + (-1)
    BY <1>0, <1>5 DEF MultiTasks
  <2> QED BY <1>0, <1>1, <1>4, <2>1, CountCarries
<1> QED BY <1>1, <1>4, <1>6, <1>7, <1>8, LoadInvCarries

(* The callback of a save is that of the load's save, too. *)
LEMMA LifeSavingIoLoadInv == LoadInv /\ LifeSavingIo => LoadInv'
<1> SUFFICES ASSUME LoadInv, LifeSavingIo PROVE LoadInv'
  OBVIOUS
<1>0. LoadType /\ LoadOrder /\ CountInv /\ initTask \in MultiTasks
  BY DEF LoadInv, LoadType
<1>1. UNCHANGED <<phase, legacyExpiry, reads, deletes, invalidData, lastSaveTime>>
  BY DEF LifeSavingIo, lifeVars, loadVars
<1>2. Loads' = Loads /\ Deletions' = Deletions
  BY <1>1 DEF Loads, Deletions
<1>3. CASE UNCHANGED <<initSave, initTask>>
  <2>1. LoadSaves' = LoadSaves
    BY <1>3 DEF LoadSaves
  <2>2. Outstanding' = Outstanding
    BY <1>2, <2>1, OutstandingSets
  <2> QED
    BY <1>1, <1>3, <2>2
    DEF LoadInv, LoadType, ReadsType, ReadStates, FileValues, LoadOrder, NothingWhenOff, CountInv,
        RunningInv
<1>4. CASE /\ initSave \in SaveSlots /\ initSave' = NoSave
           /\ initTask' \in {ReturnBoolean(initTask), ReturnError(initTask)}
  <2>1. initSave # NoSave
    BY <1>4, EpgManagerLifeAssumption
  <2>2. Cardinality(LoadSaves) = 1 /\ LoadSaves' = {}
    BY <1>4, <2>1, LoadSavesCount DEF LoadSaves
  <2>3. Outstanding' = Outstanding + (-1) /\ Outstanding > 0
    BY <1>2, <2>2, OutstandingSets, SetsFinite, FS_EmptySet
  <2>4. /\ initTask' \in MultiTasks /\ initTask'.pending = initTask.pending - 1
        /\ initTask.hadError => initTask'.hadError
    BY <1>0, <1>4, <2>3, PendingPositive, TaskSteps
  <2>5. LoadType'
    BY <1>0, <1>1, <1>4, <2>4 DEF LoadType, ReadsType, ReadStates, FileValues
  <2>6. LoadOrder'
    BY <1>0, <1>1, <1>4, <2>4, OrderUnchanged
  <2>7. CountInv'
    <3>1. initTask'.pending = initTask.pending + (-1)
      BY <1>0, <2>4 DEF MultiTasks
    <3> QED BY <1>0, <1>1, <2>3, <3>1, CountCarries
  <2> QED BY <1>1, <2>3, <2>5, <2>6, <2>7, LoadInvCarries
<1> QED BY <1>3, <1>4 DEF LifeSavingIo, lifeVars, loadVars

LEMMA InitFinishLoadInv == LoadInv /\ InitFinish => LoadInv'
<1> SUFFICES ASSUME LoadInv, InitFinish PROVE LoadInv'
  OBVIOUS
<1>0. LoadType /\ LoadOrder /\ CountInv /\ initTask \in MultiTasks
  BY DEF LoadInv, LoadType
<1>1. /\ phase = "loading" /\ HasReturned(initTask) /\ UNCHANGED legacyExpiry
      /\ phase' \in {"running", "ended"}
      /\ phase' = "running" => ~initTask.hadError
      /\ UNCHANGED <<reads, deletes, initTask, invalidData, lastSaveTime, initSave>>
  BY DEF InitFinish, loadVars
<1>2. phase' = "running" => initTask' = NoTask
  BY <1>0, <1>1 DEF HasReturned, NoTask, Attach, MultiTasks
<1>3. Outstanding' = Outstanding
  BY <1>1 DEF Outstanding, LoadOperations
<1>4. LoadType' /\ LoadOrder'
  BY <1>0, <1>1 DEF LoadType, ReadsType, ReadStates, FileValues, LoadOrder
<1>5. CountInv'
  BY <1>0, <1>1, <1>3 DEF CountInv
<1> QED BY <1>1, <1>2, <1>4, <1>5 DEF LoadInv, NothingWhenOff, RunningInv

LEMMA NothingOutstanding ==
  /\ reads = NoReads /\ deletes = NoDeletes /\ initSave = NoSave => Outstanding = 0
  /\ reads' = NoReads /\ deletes' = NoDeletes /\ initSave' = NoSave => Outstanding' = 0
<1>1. reads = NoReads => Loads = {}
  BY DEF NoReads, NotRead, Loads
<1>2. deletes = NoDeletes => Deletions = {}
  BY DEF NoDeletes, Deletions
<1>3. initSave = NoSave => LoadSaves = {}
  BY DEF LoadSaves
<1>4. reads' = NoReads => Loads' = {}
  BY DEF NoReads, NotRead, Loads
<1>5. deletes' = NoDeletes => Deletions' = {}
  BY DEF NoDeletes, Deletions
<1>6. initSave' = NoSave => LoadSaves' = {}
  BY DEF LoadSaves
<1> QED BY <1>1, <1>2, <1>3, <1>4, <1>5, <1>6, OutstandingSets, FS_EmptySet

LEMMA StartLoadInv == LoadInv /\ Start => LoadInv'
<1> SUFFICES ASSUME LoadInv, Start PROVE LoadInv'
  OBVIOUS
<1>0. LoadType /\ LoadOrder
  BY DEF LoadInv
<1>1. /\ reads = NoReads /\ deletes = NoDeletes /\ ~invalidData /\ initSave = NoSave
      /\ phase' = "loading" /\ reads' = FirstReads /\ initTask' = NewInitTask
      /\ UNCHANGED <<deletes, invalidData, lastSaveTime, initSave, legacyExpiry>>
  BY DEF Start, LoadInv, NothingWhenOff
<1>2. NewInitTask = [pending |-> 4, hadError |-> FALSE]
  BY DEF NewInitTask, Attach, ReturnBoolean
<1>3. ReadsType'
  <2>1. \A f \in LoadFiles : reads'[f] \in ReadStates(f)
    BY <1>1 DEF FirstReads, Reading, NotRead, ReadStates
  <2>2. reads' = [f \in LoadFiles |-> reads'[f]]
    BY <1>1 DEF FirstReads
  <2> QED BY <2>1, <2>2 DEF ReadsType, ReadStates, FileValues
<1>4. LoadType'
  BY <1>0, <1>1, <1>2, <1>3 DEF LoadType, MultiTasks
<1>5. LoadOrder'
  BY <1>1 DEF LoadOrder, FirstReads, NoDeletes, Reading, NotRead, ExpiryFiles, FirstFiles,
              LoadFiles, StateFiles, Files
<1>6. Outstanding' = 4
  <2>1. Loads' = FirstFiles
    BY <1>1 DEF Loads, FirstReads, Reading, NotRead, FirstFiles, LoadFiles
  <2>2. Deletions' = {} /\ LoadSaves' = {}
    BY <1>1 DEF Deletions, NoDeletes, LoadSaves
  <2> QED BY <2>1, <2>2, OutstandingSets, FirstFilesCount, FS_EmptySet
<1>7. CountInv'
  BY <1>1, <1>2, <1>6 DEF CountInv
<1> QED BY <1>1, <1>4, <1>5, <1>7 DEF LoadInv, NothingWhenOff, RunningInv

LEMMA NothingLoaded ==
  ASSUME legacyExpiry' \in Nat \cup Valueless, phase' = "off", reads' = NoReads,
         deletes' = NoDeletes, initTask' = NoTask, invalidData' = FALSE,
         lastSaveTime' = NoFile, initSave' = NoSave
  PROVE  LoadInv'
<1>1. ReadsType'
  <2>1. \A f \in LoadFiles : reads'[f] \in ReadStates(f)
    BY DEF NoReads, NotRead, ReadStates
  <2>2. reads' = [f \in LoadFiles |-> reads'[f]]
    BY DEF NoReads
  <2> QED BY <2>1, <2>2 DEF ReadsType, ReadStates, FileValues
<1>2. NoTask = [pending |-> 0, hadError |-> FALSE]
  BY DEF NoTask, Attach
<1>3. LoadType'
  BY <1>1, <1>2 DEF LoadType, MultiTasks, NoDeletes, Valueless
<1>4. LoadOrder'
  BY DEF LoadOrder, NoReads, NoDeletes, NotRead, ExpiryFiles, LoadFiles, StateFiles, Files
<1>5. CountInv'
  BY <1>2, NothingOutstanding DEF CountInv
<1> QED BY <1>3, <1>4, <1>5 DEF LoadInv, NothingWhenOff, RunningInv

LEMMA StoppedLoadInv ==
  ASSUME LoadInv, Stopped, phase' = "off", UNCHANGED legacyExpiry
  PROVE  LoadInv'
<1>1. legacyExpiry' \in Nat \cup Valueless
  BY DEF LoadInv, LoadType
<1> QED BY <1>1, NothingLoaded DEF Stopped

LEMMA UnchangedLoadInv ==
  ASSUME LoadInv, UNCHANGED <<phase, legacyExpiry, loadVars>>
  PROVE  LoadInv'
<1>1. Outstanding' = Outstanding
  BY DEF Outstanding, LoadOperations, loadVars
<1> QED
  BY <1>1
  DEF LoadInv, LoadType, ReadsType, ReadStates, FileValues, LoadOrder, NothingWhenOff, CountInv,
      RunningInv, loadVars

LEMMA LoadInvStep ==
  ASSUME LoadInv, TypeOK, hasKey \in BOOLEAN, [LifeNext]_allVars
  PROVE  LoadInv'
<1>1. CASE UNCHANGED allVars \/ LifeTick \/ LifeHandlers \/ LifeCheckExpired
           \/ \E delta \in JumpDeltas : LifeClockJump(delta)
  BY <1>1, UnchangedLoadInv
  DEF allVars, lifeVars, LifeTick, LifeHandlers, LifeCheckExpired, LifeClockJump
<1>2. CASE Start
  BY <1>2, StartLoadInv
<1>3. CASE Loading
  BY <1>3, EndReadLoadInv, LoadRefusedLoadInv, KeyOrAccountLoadInv, CorruptLoadInv,
     EndDeleteLoadInv, FileDeletedLoadInv, ClockTimeLoadInv, ExpiryTimeLoadInv,
     ExpirySecondsLoadInv, UsedCodesLoadInv, InitFinishLoadInv
  DEF Loading
<1>4. CASE LifeSavingIo
  BY <1>4, LifeSavingIoLoadInv
<1>5. CASE Exit \/ Crash
  BY <1>5, StoppedLoadInv DEF Exit, Crash
<1> QED BY <1>1, <1>2, <1>3, <1>4, <1>5 DEF LifeNext

-----------------------------------------------------------------------------
(* The manager in every phase of a life. *)

LEMMA QuietStep ==
  ASSUME ShutdownInv, TypeOK', UNCHANGED <<saves, pending, shutdownVars>>
  PROVE  ShutdownInv'
BY UnchangedSavesInv, TasksUnchanged DEF ShutdownInv, TypeInv

LEMMA ManagerStep ==
  ASSUME ShutdownInv, \/ UNCHANGED vars
                      \/ Tick \/ SavingIo \/ CheckExpired
                      \/ ShutdownAsync \/ ClearCode \/ WallclockTimeChanged
                      \/ \E code \in Codes : AcceptCode(code)
                      \/ \E code \in Codes \cup InvalidCodes : RejectCode(code)
  PROVE  ShutdownInv'
BY NextShutdownInv DEF Next, Environment, Handlers

(* The process is gone, with its saves. *)
LEMMA StoppedManager ==
  ASSUME ShutdownInv, Stopped, UNCHANGED <<nowSecs, wallSecs, disk>>
  PROVE  ShutdownInv'
<1>0. TypeOK
  BY DEF ShutdownInv, TypeInv
<1>1. \A s \in SaveSlots : saves'[s] = NoSave
  BY DEF Stopped
<1>2. \A kind : UnreturnedSaves(kind)' = {}
  BY <1>1 DEF UnreturnedSaves, IsSave
<1>3. TypeOK'
  <2>1. NoCodes \in CodeCounts
    BY DEF NoCodes, CodeCounts
  <2>2. /\ enabled' \in BOOLEAN /\ cancelled' \in BOOLEAN
        /\ pendingShutdown' \in BOOLEAN /\ signalled' \in BOOLEAN
    BY Zenon DEF Stopped
  <2>3. saves' \in [SaveSlots -> Saves \cup {NoSave}]
    BY DEF Stopped
  <2> QED
    BY <1>0, <2>1, <2>2, <2>3, NoTimerType, ClearedHistoryType, RateLimitAssumption
    DEF Stopped, TypeOK
<1>4. TasksCountFiles'
  BY <1>1 DEF TasksCountFiles, IsSave
<1>5. PendingCountsSaves'
  BY <1>2, FS_EmptySet DEF Stopped, PendingCountsSaves
<1>6. OneShutdownSave'
  BY <1>1 DEF OneShutdownSave, IsSave
<1>7. ShutdownNotLost'
  BY <1>2 DEF Stopped, ShutdownNotLost
<1> QED BY <1>3, <1>4, <1>5, <1>6, <1>7 DEF ShutdownInv, TypeInv

(* set_expiry_time() in a load, and the save that it starts. *)
LEMMA SetLoadedExpiryManager ==
  ASSUME ShutdownInv, NEW span \in Nat, NEW task, SetLoadedExpiry(span, task),
         UNCHANGED <<clockVars, enabled, usedCodes, history, shutdownVars, disk>>
  PROVE  /\ ShutdownInv'
         /\ \/ UNCHANGED <<saves, initSave>>
            \/ initSave' \in UnreturnedSaves("internal")'
<1>0. /\ TypeInv /\ TypeOK /\ nowSecs \in 0 .. G_MAXUINT64 /\ nowSecs \in Nat
      /\ wallSecs \in Nat
  BY EpgManagerAssumption, RateLimitAssumption DEF ShutdownInv, TypeInv, TypeOK
<1>1. /\ expiryTime' \in 0 .. G_MAXUINT64 /\ timer' \in Timers
      /\ signalled' \in BOOLEAN
  BY <1>0, SetExpiryTimeType DEF SetLoadedExpiry
<1>2. CASE expiryTime' # expiryTime /\ enabled
  <2> DEFINE data == Snapshot(wallSecs, nowSecs, expiryTime', usedCodes)
  <2>1. data \in Contents
    BY <1>0, <1>1, RateLimitAssumption, SnapshotType DEF TypeOK
  <2> HIDE DEF data
  <2>3. InternalSave(data) /\ initSave' \in {s \in FreeSlots : saves'[s] # NoSave}
    BY <1>2 DEF SetLoadedExpiry, data
  <2>2. PICK s \in FreeSlots : saves' = [saves EXCEPT ![s] = NewSave("internal", data)]
    BY <2>3 DEF InternalSave, SaveState
  <2>s. initSave' = s
    BY <1>0, <2>2, <2>3 DEF FreeSlots, IsSave, TypeOK
  <2>4. /\ saves' \in [SaveSlots -> Saves \cup {NoSave}] /\ pending' \in Nat
        /\ rivals' \in SUBSET Contents /\ savedOffset' \in Int
        /\ TasksCountFiles'
    BY <1>0, <2>1, <2>3, InternalSaveType
  <2>5. TypeOK'
    BY <1>0, <1>1, <2>4 DEF TypeOK, clockVars, shutdownVars
  <2>6. PendingCountsSaves' /\ OneShutdownSave' /\ ShutdownNotLost'
    BY <2>1, <2>3, InternalSaveInv
  <2>7. initSave' \in UnreturnedSaves("internal")'
    <3>1. saves'[initSave'] = NewSave("internal", data) /\ initSave' \in SaveSlots
      BY <1>0, <2>2, <2>s DEF FreeSlots, TypeOK
    <3> QED BY <2>1, <3>1, NewSaveType DEF UnreturnedSaves, IsSave, HasReturned
  <2> QED BY <2>4, <2>5, <2>6, <2>7 DEF ShutdownInv, TypeInv
<1>3. CASE ~(expiryTime' # expiryTime /\ enabled)
  <2>1. UNCHANGED <<saves, initSave, pending, rivals, savedOffset>>
    BY <1>3 DEF SetLoadedExpiry, saveVars
  <2>2. TypeOK'
    BY <1>0, <1>1, <2>1 DEF TypeOK, clockVars, shutdownVars
  <2> QED BY <2>1, <2>2, QuietStep
<1> QED BY <1>2, <1>3

(* The callbacks of the expiry files, and the save that one of them starts. *)
LEMMA ExpiryManager ==
  ASSUME ShutdownInv, LoadType, ExpiryTimeLoaded \/ ExpirySecondsLoaded
  PROVE  /\ ShutdownInv'
         /\ \/ UNCHANGED <<saves, initSave>>
            \/ initSave' \in UnreturnedSaves("internal")'
<1>0. /\ TypeOK /\ wallSecs \in Nat
      /\ UNCHANGED <<clockVars, enabled, usedCodes, history, shutdownVars, disk>>
  BY EpgManagerAssumption
  DEF ShutdownInv, TypeInv, TypeOK, ExpiryTimeLoaded, ExpirySecondsLoaded
<1>1. ASSUME NEW span \in Nat, NEW task, SetLoadedExpiry(span, task)
      PROVE  /\ ShutdownInv'
             /\ \/ UNCHANGED <<saves, initSave>>
                \/ initSave' \in UnreturnedSaves("internal")'
  BY <1>0, <1>1, SetLoadedExpiryManager
<1>2. CASE ExpiryTimeLoaded
  <2> DEFINE data == reads["expiryTime"].data
  <2>1. CASE data \in Valueless
    BY <1>1, <1>2, <2>1 DEF ExpiryTimeLoaded
  <2>2. CASE data \notin Valueless
    <3>1. data \in Nat
      BY <1>2, <2>2, LoadedValue DEF ExpiryTimeLoaded, ExpiryFiles
    <3>2. Less(data, wallSecs) \in Nat
      BY <1>0, <3>1, LessType
    <3>3. SetLoadedExpiry(Less(data, wallSecs), Increment(initTask))
      BY <1>2, <2>2 DEF ExpiryTimeLoaded
    <3> QED BY <1>1, <3>2, <3>3
  <2> QED BY <2>1, <2>2
<1>3. CASE ExpirySecondsLoaded
  <2> DEFINE data == reads["expirySeconds"].data
  <2>1. CASE data \in Valueless
    BY <1>1, <1>3, <2>1 DEF ExpirySecondsLoaded
  <2>2. CASE data \notin Valueless /\ lastSaveTime # NoFile
    <3>1. data \in Nat /\ lastSaveTime \in Nat
      BY <1>3, <2>2, LoadedValue DEF LoadType, ExpirySecondsLoaded, ExpiryFiles
    <3>2. LoadedCredit(lastSaveTime, data) \in Nat
      BY <1>0, <3>1, LoadedCreditType
    <3> QED BY <1>1, <1>3, <2>2, <3>2 DEF ExpirySecondsLoaded
  <2>3. CASE data \notin Valueless /\ lastSaveTime = NoFile
    <3>1. UNCHANGED <<expiryTime, timer, signalled, saves, initSave, pending, rivals, savedOffset>>
      BY <1>3, <2>3 DEF ExpirySecondsLoaded, saveVars
    <3>2. TypeOK'
      BY <1>0, <3>1 DEF TypeOK, clockVars, shutdownVars
    <3> QED BY <1>0, <3>1, <3>2, QuietStep
  <2> QED BY <2>1, <2>2, <2>3
<1> QED BY <1>2, <1>3

LEMMA LifeManagerStep ==
  ASSUME ShutdownInv, LoadInv, [LifeNext]_allVars
  PROVE  ShutdownInv'
<1>0. TypeOK /\ LoadType
  BY DEF ShutdownInv, TypeInv, LoadInv
<1>1. CASE UNCHANGED allVars \/ LifeHandlers \/ LifeCheckExpired \/ LifeSavingIo
  <2>1. \/ UNCHANGED vars \/ SavingIo \/ CheckExpired
        \/ ShutdownAsync \/ ClearCode \/ WallclockTimeChanged
        \/ \E code \in Codes : AcceptCode(code)
        \/ \E code \in Codes \cup InvalidCodes : RejectCode(code)
    BY <1>1 DEF allVars, LifeHandlers, LifeCheckExpired, LifeSavingIo, SavingIo
  <2> QED BY <2>1, ManagerStep
<1>2. CASE LifeTick
  <2>1. CASE Tick
    BY <2>1, ManagerStep
  <2>2. CASE /\ wallSecs < MaxWallclock /\ wallSecs' = wallSecs + 1
             /\ UNCHANGED <<nowSecs, jumpSecs, creditVars, saveVars, shutdownVars, disk>>
    <3>1. TypeOK'
      BY <1>0, <2>2, EpgManagerAssumption DEF TypeOK, creditVars, saveVars, shutdownVars
    <3> QED BY <2>2, <3>1, QuietStep DEF saveVars
  <2> QED BY <1>2, <2>1, <2>2 DEF LifeTick
<1>3. ASSUME NEW delta \in JumpDeltas, LifeClockJump(delta) PROVE ShutdownInv'
  <2>1. TypeOK'
    BY <1>0, <1>3, EpgManagerAssumption
    DEF LifeClockJump, TypeOK, creditVars, saveVars, shutdownVars
  <2> QED BY <1>3, <2>1, QuietStep DEF LifeClockJump, saveVars
<1>4. CASE Start
  <2>1. TypeOK'
    BY <1>0, <1>4, EpgManagerAssumption, EpgManagerLifeAssumption
    DEF Start, TypeOK, saveVars, shutdownVars
  <2> QED BY <1>4, <2>1, QuietStep DEF Start, saveVars
<1>5. CASE Exit \/ Crash
  BY <1>5, StoppedManager DEF Exit, Crash
<1>6. CASE Loading
  <2>1. ASSUME NEW f \in LoadFiles,
               (\E result \in IoResults : EndRead(f, result)) \/ LoadRefused(f)
        PROVE  ShutdownInv'
    BY <2>1, ManagerStep DEF EndRead, LoadRefused
  <2>2. ASSUME NEW f \in StateFiles, CorruptLoaded(f) \/ FileDeleted(f) PROVE ShutdownInv'
    BY <2>2, ManagerStep DEF CorruptLoaded, FileDeleted
  <2>3. CASE ClockTimeLoaded \/ InitFinish
    BY <2>3, ManagerStep DEF ClockTimeLoaded, InitFinish
  <2>4. ASSUME NEW f \in LoadFiles, KeyOrAccountLoaded(f) PROVE ShutdownInv'
    <3>1. enabled' \in BOOLEAN
      BY <2>4, Zenon DEF KeyOrAccountLoaded
    <3>2. UNCHANGED <<clockVars, expiryTime, timer, usedCodes, history, signalled, saveVars,
                      shutdownVars, disk>>
      BY <2>4 DEF KeyOrAccountLoaded
    <3>3. TypeOK'
      BY <1>0, <3>1, <3>2 DEF TypeOK, clockVars, saveVars, shutdownVars
    <3> QED BY <3>2, <3>3, QuietStep DEF saveVars
  <2>5. CASE UsedCodesLoaded
    <3>1. usedCodes' \in CodeCounts
      <4>1. NoCodes \in CodeCounts
        BY DEF NoCodes, CodeCounts
      <4>2. reads["usedCodes"].data \in CodeCounts \cup Valueless
        BY <1>0, <2>5 DEF UsedCodesLoaded, Loaded, LoadType, ReadsType, ReadStates, FileValues,
                          LoadFiles
      <4> QED BY <2>5, <4>1, <4>2 DEF UsedCodesLoaded
    <3>2. TypeOK'
      BY <1>0, <2>5, <3>1 DEF UsedCodesLoaded, TypeOK, clockVars, saveVars, shutdownVars
    <3> QED BY <2>5, <3>2, QuietStep DEF UsedCodesLoaded, saveVars
  <2>6. ASSUME NEW f \in StateFiles, NEW result \in IoResults, EndDelete(f, result)
        PROVE  ShutdownInv'
    <3>1. disk' \in DiskContents
      BY <1>0, <2>6 DEF EndDelete, TypeOK, DiskContents, Files, Valueless
    <3>2. TypeOK'
      BY <1>0, <2>6, <3>1
      DEF EndDelete, TypeOK, clockVars, creditVars, saveVars, shutdownVars
    <3> QED BY <2>6, <3>2, QuietStep DEF EndDelete, saveVars
  <2>7. CASE ExpiryTimeLoaded \/ ExpirySecondsLoaded
    BY <1>0, <2>7, ExpiryManager
  <2> QED BY <1>6, <2>1, <2>2, <2>3, <2>4, <2>5, <2>6, <2>7 DEF Loading
<1> QED BY <1>1, <1>2, <1>3, <1>4, <1>5, <1>6 DEF LifeNext

(* While a manager runs, there is nothing left of its load. *)
LEMMA RunningLoaded ==
  ASSUME LoadInv, phase = "running"
  PROVE  /\ Outstanding = 0 /\ initSave = NoSave
         /\ \A f \in FirstFiles : reads[f].step = "called"
         /\ \E f \in ExpiryFiles : reads[f].step = "called"
<1>0. LoadType /\ LoadOrder /\ CountInv
  BY DEF LoadInv
<1>1. initTask.pending = 0 /\ ~initTask.hadError
  BY DEF LoadInv, RunningInv, NoTask, Attach
<1>2. Outstanding = 0
  BY <1>0, <1>1, OutstandingType DEF CountInv
<1>3. initSave = NoSave
  BY <1>2, LoadSavesCount, OutstandingSets, SetsFinite
<1>4. \A f \in LoadFiles : reads[f].step \in {"none", "called"}
  <2> SUFFICES ASSUME NEW f \in LoadFiles, reads[f].step \in {"io", "ended"} PROVE FALSE
    BY <1>0 DEF LoadType, ReadsType, ReadStates
  <2> QED BY <1>2, ReadOutstanding
<1>5. \A f \in FirstFiles : reads[f].step = "called"
  BY <1>0, <1>4 DEF LoadOrder, FirstFiles, LoadFiles
<1>6. \E f \in ExpiryFiles : reads[f].step = "called"
  BY <1>0, <1>1, <1>4, <1>5 DEF LoadOrder, FirstFiles, ExpiryFiles, LoadFiles
<1> QED BY <1>2, <1>3, <1>5, <1>6

LEMMA SavesUnchanged ==
  ASSUME LoadSaveUnderWay, UNCHANGED <<saves, initSave>>
  PROVE  LoadSaveUnderWay'
BY DEF LoadSaveUnderWay, UnreturnedSaves, IsSave, HasReturned

LEMMA LoadSaveStep ==
  ASSUME ShutdownInv, LoadInv, LoadInv', LoadSaveUnderWay, [LifeNext]_allVars
  PROVE  LoadSaveUnderWay'
<1>0. TypeInv /\ TypeOK /\ LoadType
  BY DEF ShutdownInv, TypeInv, LoadInv
<1>1. CASE UNCHANGED allVars \/ Start \/ LifeTick \/ LifeCheckExpired
           \/ \E delta \in JumpDeltas : LifeClockJump(delta)
  BY <1>1, SavesUnchanged
  DEF allVars, vars, lifeVars, loadVars, saveVars, Start, LifeTick, Tick, LifeCheckExpired,
      CheckExpired, LifeClockJump
<1>2. CASE LifeHandlers
  BY <1>2, RunningLoaded DEF LifeHandlers, loadVars, LoadSaveUnderWay
<1>3. CASE Exit \/ Crash
  BY <1>3 DEF Exit, Crash, Stopped, LoadSaveUnderWay
<1>4. CASE LifeSavingIo
  <2> SUFFICES ASSUME initSave' # NoSave PROVE initSave' \in UnreturnedSaves("internal")'
    BY DEF LoadSaveUnderWay
  <2>1. UNCHANGED initSave /\ initSave \in UnreturnedSaves("internal")
    BY <1>4 DEF LifeSavingIo, lifeVars, loadVars, LoadSaveUnderWay
  <2>2. ASSUME NEW s \in SaveSlots, NEW f \in Files, NEW result \in IoResults,
               EndFileOperation(s, f, result)
        PROVE  initSave \in UnreturnedSaves("internal")'
    BY <1>0, <2>1, <2>2, EndFileOperationTasks DEF UnreturnedSaves, IsSave, HasReturned
  <2>3. ASSUME NEW s \in SaveSlots, NEW f \in Files, FileSaved(s, f),
               ~(s = initSave /\ ReturnsNow(s, f))
        PROVE  initSave \in UnreturnedSaves("internal")'
    BY <1>0, <2>1, <2>3, FileSavedUnreturned
  <2>4. \E s \in SaveSlots, f \in Files :
          \/ \E result \in IoResults : EndFileOperation(s, f, result)
          \/ FileSaved(s, f) /\ ~(s = initSave /\ ReturnsNow(s, f))
    BY <1>4 DEF LifeSavingIo
  <2> QED BY <2>1, <2>2, <2>3, <2>4
<1>5. CASE Loading
  <2>1. CASE ExpiryTimeLoaded \/ ExpirySecondsLoaded
    BY <1>0, <2>1, ExpiryManager, SavesUnchanged DEF LoadSaveUnderWay
  <2>2. UNCHANGED <<saves, initSave>> \/ ExpiryTimeLoaded \/ ExpirySecondsLoaded
    BY <1>5
    DEF Loading, EndRead, LoadRefused, KeyOrAccountLoaded, CorruptLoaded, EndDelete, FileDeleted,
        ClockTimeLoaded, UsedCodesLoaded, InitFinish, vars, saveVars, loadVars
  <2> QED BY <2>1, <2>2, SavesUnchanged
<1> QED BY <1>1, <1>2, <1>3, <1>4, <1>5 DEF LifeNext

-----------------------------------------------------------------------------
(* The variables that only observe. *)

ObservedType ==
  /\ hasKey \in BOOLEAN
  /\ accepted \in CodeCounts
  /\ paid \in Nat
  /\ due \in Nat
  /\ clean \in BOOLEAN
  /\ crashes \in 0 .. MaxCrashes
  /\ phase \in {"off", "loading", "running", "ended"}

LEMMA ObservedStep ==
  ASSUME ObservedType, TypeOK, TypeOK', [LifeNext]_allVars
  PROVE  ObservedType'
<1>c. ASSUME NEW now \in Nat, NEW expiry \in Nat PROVE CreditAt(now, expiry) \in Nat
  BY DEF CreditAt
<1>n. nowSecs \in Nat /\ expiryTime \in Nat /\ nowSecs' \in Nat /\ expiryTime' \in Nat
  BY EpgManagerAssumption, RateLimitAssumption DEF TypeOK
<1>d. CreditAt(nowSecs, expiryTime) \in Nat /\ CreditAt(nowSecs, expiryTime') \in Nat
  BY <1>c, <1>n
<1>1. CASE UNCHANGED allVars \/ Start \/ LifeCheckExpired \/ LifeSavingIo
  BY <1>1 DEF allVars, lifeVars, observed, Start, LifeCheckExpired, LifeSavingIo, ObservedType
<1>2. CASE LifeTick
  BY <1>2 DEF LifeTick, Less, ObservedType
<1>3. ASSUME NEW delta \in JumpDeltas, LifeClockJump(delta) PROVE ObservedType'
  <2>1. clean' \in BOOLEAN
    BY <1>3, Zenon DEF LifeClockJump
  <2> QED BY <1>3, <2>1 DEF LifeClockJump, ObservedType
<1>4. CASE Loading
  <2>1. UNCHANGED <<hasKey, observed, phase>> \/ InitFinish
    BY <1>4
    DEF Loading, EndRead, LoadRefused, KeyOrAccountLoaded, CorruptLoaded, EndDelete, FileDeleted,
        ClockTimeLoaded, UsedCodesLoaded, ExpiryTimeLoaded, ExpirySecondsLoaded
  <2>2. CASE UNCHANGED <<hasKey, observed, phase>>
    BY <2>2 DEF ObservedType, observed
  <2>3. CASE InitFinish
    <3>1. due' \in Nat /\ phase' \in {"running", "ended"}
      BY <1>d, <2>3 DEF InitFinish, ObservedType
    <3> QED BY <2>3, <3>1 DEF InitFinish, ObservedType
  <2> QED BY <2>1, <2>2, <2>3
<1>5. CASE LifeHandlers
  <2>1. due' \in Nat
    BY <1>d, <1>5 DEF LifeHandlers, Larger, ObservedType
  <2>2. accepted' \in CodeCounts
    BY <1>5 DEF LifeHandlers, ObservedType, CodeCounts
  <2>3. paid' \in Nat
    BY <1>5, RateLimitAssumption, EpgManagerAssumption DEF LifeHandlers, ObservedType
  <2> QED BY <1>5, <2>1, <2>2, <2>3 DEF LifeHandlers, ObservedType
<1>6. CASE Exit
  <2>1. clean' \in BOOLEAN
    BY <1>6, Zenon DEF Exit
  <2>2. due' \in Nat
    BY <1>d, <1>6 DEF Exit, ObservedType
  <2> QED BY <1>6, <2>1, <2>2 DEF Exit, ObservedType
<1>7. CASE Crash
  <2>1. crashes' \in 0 .. MaxCrashes
    BY <1>7, EpgManagerLifeAssumption DEF Crash, ObservedType
  <2>2. clean' \in BOOLEAN
    BY <1>7, Zenon DEF Crash
  <2> QED BY <1>7, <2>1, <2>2 DEF Crash, ObservedType
<1> QED BY <1>1, <1>2, <1>3, <1>4, <1>5, <1>6, <1>7 DEF LifeNext

-----------------------------------------------------------------------------
LifeInv == ShutdownInv /\ LoadInv /\ LoadSaveUnderWay /\ ObservedType

LEMMA InitLifeInv == LifeInit => LifeInv
<1> SUFFICES ASSUME LifeInit PROVE LifeInv
  OBVIOUS
<1>1. ShutdownInv
  <2>1. \A s \in SaveSlots : saves[s] = NoSave
    BY DEF LifeInit
  <2>2. \A kind : UnreturnedSaves(kind) = {}
    BY <2>1 DEF UnreturnedSaves, IsSave
  <2>3. TypeOK
    <3>1. NoCodes \in CodeCounts
      BY DEF NoCodes, CodeCounts
    <3>2. /\ enabled \in BOOLEAN /\ cancelled \in BOOLEAN
          /\ pendingShutdown \in BOOLEAN /\ signalled \in BOOLEAN
      BY Zenon DEF LifeInit
    <3>3. nowSecs \in 0 .. MaxBoottime /\ wallSecs \in 0 .. MaxWallclock
      BY EpgManagerAssumption DEF LifeInit
    <3>4. disk \in DiskContents
      BY EpgManagerLifeAssumption DEF LifeInit
    <3>5. saves \in [SaveSlots -> Saves \cup {NoSave}]
      BY DEF LifeInit
    <3> QED
      BY <3>1, <3>2, <3>3, <3>4, <3>5, NoTimerType, ClearedHistoryType, RateLimitAssumption
      DEF LifeInit, TypeOK
  <2>4. TasksCountFiles
    BY <2>1 DEF TasksCountFiles, IsSave
  <2>5. PendingCountsSaves
    BY <2>2, FS_EmptySet DEF LifeInit, PendingCountsSaves
  <2>6. OneShutdownSave
    BY <2>1 DEF OneShutdownSave, IsSave
  <2>7. ShutdownNotLost
    BY <2>2 DEF LifeInit, ShutdownNotLost
  <2> QED BY <2>3, <2>4, <2>5, <2>6, <2>7 DEF ShutdownInv, TypeInv
<1>2. LoadInv
  <2>1. \A f \in LoadFiles : NotRead \in ReadStates(f)
    BY DEF NotRead, ReadStates
  <2>2. ReadsType
    BY <2>1 DEF LifeInit, ReadsType, NoReads
  <2>3. NoTask = [pending |-> 0, hadError |-> FALSE]
    BY DEF NoTask, Attach
  <2>4. LoadType
    BY <2>2, <2>3, EpgManagerLifeAssumption
    DEF LifeInit, LoadType, MultiTasks, NoDeletes
  <2>5. LoadOrder
    BY DEF LifeInit, LoadOrder, NoReads, NoDeletes, NotRead, ExpiryFiles, LoadFiles, StateFiles,
           Files
  <2>6. CountInv
    BY <2>3, NothingOutstanding DEF LifeInit, CountInv
  <2> QED BY <2>4, <2>5, <2>6 DEF LifeInit, LoadInv, NothingWhenOff, RunningInv
<1>3. LoadSaveUnderWay
  BY DEF LifeInit, LoadSaveUnderWay
<1>4. ObservedType
  <2>1. hasKey \in BOOLEAN /\ crashes \in 0 .. MaxCrashes
    BY EpgManagerLifeAssumption DEF LifeInit
  <2>2. clean \in BOOLEAN
    BY Zenon DEF LifeInit
  <2> QED BY <2>1, <2>2 DEF LifeInit, ObservedType, NoCodes, CodeCounts
<1> QED BY <1>1, <1>2, <1>3, <1>4 DEF LifeInv

LEMMA NextLifeInv == LifeInv /\ [LifeNext]_allVars => LifeInv'
<1> SUFFICES ASSUME LifeInv, [LifeNext]_allVars PROVE LifeInv'
  OBVIOUS
<1>1. ShutdownInv /\ LoadInv /\ LoadSaveUnderWay /\ ObservedType
  BY DEF LifeInv
<1>2. TypeOK /\ hasKey \in BOOLEAN
  BY <1>1 DEF ShutdownInv, TypeInv, ObservedType
<1>3. ShutdownInv' /\ LoadInv'
  BY <1>1, <1>2, LifeManagerStep, LoadInvStep
<1>4. LoadSaveUnderWay'
  BY <1>1, <1>3, LoadSaveStep
<1>5. ObservedType'
  BY <1>1, <1>2, <1>3, ObservedStep DEF ShutdownInv, TypeInv
<1> QED BY <1>3, <1>4, <1>5 DEF LifeInv

(* All of the load's bookkeeping, in every life of the manager. *)
THEOREM LifeInvariant == LifeSpec => []LifeInv
BY InitLifeInv, NextLifeInv, PTL DEF LifeSpec

(* The variables of the load keep their types: no callback takes the       *)
(* counter of epg_manager_init_async()'s task below zero.                  *)
THEOREM LifeTypeCorrect == LifeSpec => []LifeTypeOK
<1>1. LifeInv => LifeTypeOK
  <2> SUFFICES ASSUME LifeInv PROVE LifeTypeOK
    OBVIOUS
  <2>1. LoadType /\ ObservedType
    BY DEF LifeInv, LoadInv
  <2>2. DOMAIN reads = LoadFiles
    BY <2>1 DEF LoadType, ReadsType
  <2> QED BY <2>1, <2>2 DEF LoadType, ReadsType, ObservedType, LifeTypeOK
<1> QED BY <1>1, LifeInvariant, PTL

(* A load that has not failed waits for exactly the reads, deletions and   *)
(* saves that it has started: it neither reports success early nor hangs.  *)
THEOREM LoadCountIsExact == LifeSpec => []LoadCountsOperations
<1>1. LifeInv => LoadCountsOperations
  BY DEF LifeInv, LoadInv, CountInv, LoadCountsOperations
<1> QED BY <1>1, LifeInvariant, PTL

(* A manager that runs has loaded all of its state, and no callback of the *)
(* load is left which could still change it or fail.                       *)
THEOREM RunsLoaded == LifeSpec => []RunsFullyLoaded
<1>1. LifeInv => RunsFullyLoaded
  BY RunningLoaded DEF LifeInv, RunsFullyLoaded, ExpiryFiles
<1> QED BY <1>1, LifeInvariant, PTL

(* The save that a load waits for is under way, so that it is waited for   *)
(* no longer than its callback takes to run.                               *)
THEOREM LoadSaveIsUnderWay == LifeSpec => []LoadSaveUnderWay
<1>1. LifeInv => LoadSaveUnderWay
  BY DEF LifeInv
<1> QED BY <1>1, LifeInvariant, PTL

(* What was shown of a manager that starts with its state holds in every   *)
(* life, those included that end in a crash or start from corrupt files.   *)
THEOREM ManagerInEveryLife ==
  LifeSpec => [](TypeOK /\ PendingCountsSaves /\ ShutdownNotLost)
<1>1. LifeInv => TypeOK /\ PendingCountsSaves /\ ShutdownNotLost
  BY DEF LifeInv, ShutdownInv, TypeInv
<1> QED BY <1>1, LifeInvariant, PTL

-----------------------------------------------------------------------------
(* The credit, and all that a load could make credit of, over the lives. *)

(* The expiry file holds no more than was paid for. *)
PaidFile(data) == data \in Valueless \cup {Unreadable} \/ data <= paid

PaidInv ==
  /\ CreditAt(nowSecs, expiryTime) <= paid
  /\ phase = "off" => expiryTime = 0
  /\ \A s \in SaveSlots : IsSave(s) => saves[s].data.expirySeconds <= paid
  /\ PaidFile(disk.expirySeconds)
  /\ reads["expirySeconds"].step = "ended" => PaidFile(reads["expirySeconds"].data)
  /\ legacyExpiry \in Valueless
  /\ reads["expiryTime"].step = "ended" =>
       reads["expiryTime"].data \in Valueless \cup {Unreadable}

Credit == CreditAt(nowSecs, expiryTime)

LEMMA CreditBound ==
  ASSUME NEW now \in Nat, NEW expiry \in Nat, NEW most \in Nat
  PROVE  CreditAt(now, expiry) <= most <=> expiry <= now + most
BY DEF CreditAt

LEMMA NoCredit ==
  ASSUME NEW now \in Nat
  PROVE  CreditAt(now, 0) = 0
BY DEF CreditAt

(* The bound of a credit at a later time, and when more was paid. *)
LEMMA LaterBound ==
  ASSUME NEW now \in Nat, NEW expiry \in Nat, NEW most \in Nat, expiry <= now + most,
         NEW later \in Nat, now <= later, NEW more \in Nat
  PROVE  expiry <= later + (most + more)
OBVIOUS

(* A code extends the credit that is left. *)
LEMMA ExtendedBound ==
  ASSUME NEW now \in Nat, NEW expiry \in Nat, NEW most \in Nat, expiry <= now + most,
         NEW span \in Nat, NEW next \in Nat,
         next <= span + (IF now > expiry THEN now ELSE expiry)
  PROVE  next <= now + (most + span)
OBVIOUS

LEMMA CreditSecs ==
  ASSUME TypeOK
  PROVE  nowSecs \in Nat /\ expiryTime \in Nat /\ wallSecs \in Nat
BY EpgManagerAssumption, RateLimitAssumption DEF TypeOK

LEMMA LoadedCreditBound ==
  ASSUME TypeOK, NEW saveTime \in Nat, NEW saveCredit \in Nat
  PROVE  LoadedCredit(saveTime, saveCredit) <= saveCredit
<1>1. wallSecs \in Nat
  BY CreditSecs
<1> QED BY <1>1, EpgManagerLifeAssumption DEF LoadedCredit

(* What was paid only grows, by the spans of the accepted codes. *)
LEMMA PaidSteps ==
  ASSUME ObservedType, [LifeNext]_allVars
  PROVE  \/ paid' = paid
         \/ \E code \in Codes : AcceptCode(code) /\ paid' = paid + Span[code]
<1>1. CASE UNCHANGED allVars \/ Start \/ LifeTick \/ LifeCheckExpired \/ LifeSavingIo
           \/ \E delta \in JumpDeltas : LifeClockJump(delta)
  BY <1>1
  DEF allVars, lifeVars, observed, Start, LifeTick, LifeCheckExpired, LifeSavingIo,
      LifeClockJump, ObservedType
<1>2. CASE Loading
  BY <1>2
  DEF Loading, EndRead, LoadRefused, KeyOrAccountLoaded, CorruptLoaded, EndDelete, FileDeleted,
      ClockTimeLoaded, UsedCodesLoaded, ExpiryTimeLoaded, ExpirySecondsLoaded, InitFinish,
      observed, ObservedType
<1>3. CASE LifeHandlers
  BY <1>3 DEF LifeHandlers, ObservedType
<1>4. CASE Exit \/ Crash
  BY <1>4 DEF Exit, Crash, ObservedType
<1> QED BY <1>1, <1>2, <1>3, <1>4 DEF LifeNext

(* The credit that a load sets is no more than the file held. *)
LEMMA LoadedExpiry ==
  ASSUME TypeOK, LoadType, PaidInv, paid \in Nat, ExpiryTimeLoaded \/ ExpirySecondsLoaded
  PROVE  expiryTime' = expiryTime \/ expiryTime' <= nowSecs + paid
<1>n. nowSecs \in Nat /\ wallSecs \in Nat
  BY CreditSecs
<1>1. ASSUME NEW span \in Nat, span <= paid, NEW task, SetLoadedExpiry(span, task)
      PROVE  expiryTime' <= nowSecs + paid
  <2>1. expiryTime' <= nowSecs + span
    BY <1>n, <1>1, SetExpiryTimeBound DEF SetLoadedExpiry
  <2>2. expiryTime' = AddClamped(nowSecs, span) \/ expiryTime' = nowSecs
    BY <1>1, Zenon DEF SetLoadedExpiry, SetExpiryTime
  <2>3. expiryTime' \in Nat
    BY <1>n, <1>1, <2>2, RateLimitAssumption DEF AddClamped
  <2> QED BY <1>n, <1>1, <2>1, <2>3
<1>2. CASE ExpiryTimeLoaded
  <2>1. reads["expiryTime"].data \in Valueless
    BY <1>2 DEF ExpiryTimeLoaded, Loaded, PaidInv
  <2>2. SetLoadedExpiry(0, initTask)
    BY <1>2, <2>1 DEF ExpiryTimeLoaded
  <2> QED BY <1>1, <2>2
<1>3. CASE ExpirySecondsLoaded
  <2> DEFINE data == reads["expirySeconds"].data
  <2>1. CASE data \in Valueless
    BY <1>1, <1>3, <2>1 DEF ExpirySecondsLoaded
  <2>2. CASE data \notin Valueless /\ lastSaveTime # NoFile
    <3>1. data \in Nat /\ lastSaveTime \in Nat
      BY <1>3, <2>2, LoadedValue DEF LoadType, ExpirySecondsLoaded, ExpiryFiles
    <3>2. data <= paid
      BY <1>3, <2>2 DEF ExpirySecondsLoaded, Loaded, PaidInv, PaidFile
    <3> DEFINE credit == LoadedCredit(lastSaveTime, data)
    <3>3. SetLoadedExpiry(credit, initTask)
      BY <1>3, <2>2 DEF ExpirySecondsLoaded
    <3>4. credit \in Nat /\ credit <= data
      BY <3>1, LoadedCreditType, LoadedCreditBound
    <3> HIDE DEF credit
    <3>5. credit <= paid
      BY <3>1, <3>2, <3>4
    <3> QED BY <1>1, <3>3, <3>4, <3>5
  <2>3. CASE data \notin Valueless /\ lastSaveTime = NoFile
    BY <1>3, <2>3 DEF ExpirySecondsLoaded
  <2> QED BY <2>1, <2>2, <2>3
<1> QED BY <1>2, <1>3

LEMMA CreditPaid ==
  ASSUME LifeInv, LifeInv', PaidInv, [LifeNext]_allVars
  PROVE  /\ Credit' <= paid' /\ (phase' = "off" => expiryTime' = 0)
         /\ paid <= paid'
<1>0. TypeOK /\ TypeOK' /\ LoadInv /\ LoadType /\ ObservedType
  BY DEF LifeInv, ShutdownInv, TypeInv, LoadInv
<1>n. nowSecs \in Nat /\ expiryTime \in Nat /\ nowSecs' \in Nat /\ expiryTime' \in Nat
  BY <1>0, EpgManagerAssumption, RateLimitAssumption DEF TypeOK
<1>p. paid \in Nat /\ expiryTime <= nowSecs + paid
  BY <1>0, <1>n, CreditBound DEF ObservedType, PaidInv
<1>g. PICK more \in Nat :
        /\ paid' = paid + more
        /\ more # 0 => \E code \in Codes : AcceptCode(code) /\ more = Span[code]
  <2>1. CASE paid' = paid
    BY <1>p, <2>1
  <2>2. CASE \E code \in Codes : AcceptCode(code) /\ paid' = paid + Span[code]
    BY <2>2, EpgManagerAssumption, RateLimitAssumption
  <2> QED BY <1>0, <2>1, <2>2, PaidSteps
<1>h. paid' \in Nat /\ paid <= paid'
  BY <1>p, <1>g
<1>1. ASSUME nowSecs <= nowSecs', expiryTime' = expiryTime \/ expiryTime' <= nowSecs + paid
      PROVE  Credit' <= paid'
  <2>1. expiryTime' <= nowSecs' + (paid + more)
    BY <1>n, <1>p, <1>1, LaterBound
  <2> QED BY <1>n, <1>g, <1>h, <2>1, CreditBound DEF Credit
<1>2. ASSUME expiryTime' = 0 PROVE Credit' <= paid'
  BY <1>n, <1>h, <1>2, NoCredit DEF Credit
<1>3. CASE UNCHANGED allVars \/ LifeTick \/ LifeCheckExpired \/ LifeSavingIo
           \/ \E delta \in JumpDeltas : LifeClockJump(delta)
  <2>1. nowSecs' \in {nowSecs, nowSecs + 1} /\ UNCHANGED <<expiryTime, phase>>
    BY <1>3
    DEF allVars, vars, lifeVars, clockVars, creditVars, LifeTick, Tick, LifeCheckExpired,
        CheckExpired, LifeSavingIo, EndFileOperation, FileSaved, LifeClockJump
  <2> QED BY <1>1, <1>n, <1>h, <2>1 DEF PaidInv
<1>4. CASE Start \/ Exit \/ Crash
  <2>1. expiryTime' = 0
    BY <1>4 DEF Start, Exit, Crash, Stopped, PaidInv
  <2> QED BY <1>2, <1>h, <2>1
<1>5. CASE Loading
  <2>1. CASE ExpiryTimeLoaded \/ ExpirySecondsLoaded
    <3>1. expiryTime' = expiryTime \/ expiryTime' <= nowSecs + paid
      BY <1>0, <1>p, <2>1, LoadedExpiry
    <3>2. UNCHANGED <<nowSecs, phase>>
      BY <2>1 DEF ExpiryTimeLoaded, ExpirySecondsLoaded, clockVars
    <3>3. phase # "off"
      <4>1. \E f \in LoadFiles : reads[f].step = "ended"
        BY <2>1 DEF ExpiryTimeLoaded, ExpirySecondsLoaded, Loaded, LoadFiles
      <4> QED BY <1>0, <4>1, ReadOutstanding, LoadActive
    <3> QED BY <1>1, <1>n, <1>h, <3>1, <3>2, <3>3
  <2>2. CASE UNCHANGED <<nowSecs, expiryTime, phase>> \/ InitFinish
    <3>1. UNCHANGED <<nowSecs, expiryTime>> /\ (phase' = "off" => phase = "off")
      BY <2>2 DEF InitFinish, vars, clockVars, creditVars
    <3> QED BY <1>1, <1>n, <1>h, <3>1 DEF PaidInv
  <2>3. \/ UNCHANGED <<nowSecs, expiryTime, phase>> \/ InitFinish
        \/ ExpiryTimeLoaded \/ ExpirySecondsLoaded
    BY <1>5
    DEF Loading, EndRead, LoadRefused, KeyOrAccountLoaded, CorruptLoaded, EndDelete, FileDeleted,
        ClockTimeLoaded, UsedCodesLoaded, vars, clockVars, creditVars
  <2> QED BY <2>1, <2>2, <2>3
<1>6. CASE LifeHandlers
  <2>0. phase' = "running" /\ UNCHANGED nowSecs
    BY <1>6
    DEF LifeHandlers, AcceptCode, RejectCode, ClearCode, WallclockTimeChanged, ShutdownAsync,
        clockVars
  <2>1. [Next]_vars
    BY <1>6 DEF LifeHandlers, Next, Handlers
  <2>2. CASE expiryTime' <= expiryTime
    <3>1. expiryTime' <= nowSecs + paid
      BY <1>n, <1>p, <2>2
    <3> QED BY <1>1, <1>n, <1>h, <2>0, <3>1
  <2>3. CASE expiryTime' > expiryTime
    <3>1. PICK c \in Codes :
            /\ usedCodes[c] = 0 /\ usedCodes'[c] = 1
            /\ expiryTime' <= Span[c] + (IF nowSecs > expiryTime THEN nowSecs ELSE expiryTime)
      BY <1>0, <2>1, <2>3, CreditStep DEF CreditFromCode
    <3>2. PICK code \in Codes : AcceptCode(code) /\ paid' = paid + Span[code]
      BY <1>6, <3>1
      DEF LifeHandlers, RejectCode, ClearCode, WallclockTimeChanged, ShutdownAsync, creditVars
    <3>3. c = code
      BY <1>0, <3>1, <3>2 DEF AcceptCode, TypeOK, CodeCounts
    <3>4. Span[code] \in Nat
      BY EpgManagerAssumption, RateLimitAssumption
    <3>5. expiryTime' <= nowSecs + (paid + Span[code])
      BY <1>n, <1>p, <3>1, <3>3, <3>4, ExtendedBound
    <3> QED BY <1>n, <1>h, <2>0, <3>2, <3>5, CreditBound DEF Credit
  <2> QED BY <1>n, <2>2, <2>3
<1> QED BY <1>3, <1>4, <1>5, <1>6 DEF LifeNext

(* Every save writes the credit that its handler left. *)
LEMMA SavedCredit ==
  ASSUME LifeInv, [LifeNext]_allVars, NEW s \in SaveSlots, IsSave(s)'
  PROVE  \/ IsSave(s) /\ saves'[s].data = saves[s].data
         \/ saves'[s].data.expirySeconds = Credit'
<1>0. TypeInv /\ TypeOK
  BY DEF LifeInv, ShutdownInv, TypeInv
<1>1. ASSUME UNCHANGED saves PROVE IsSave(s) /\ saves'[s].data = saves[s].data
  BY <1>1 DEF IsSave
<1>2. ASSUME NEW kind, NEW wall, NEW codes, NEW t \in FreeSlots,
             saves' = [saves EXCEPT ![t] =
               NewSave(kind, Snapshot(wall, nowSecs', expiryTime', codes))]
      PROVE  \/ IsSave(s) /\ saves'[s].data = saves[s].data
             \/ saves'[s].data.expirySeconds = Credit'
  <2>1. CASE s = t
    <3>1. saves'[s] = NewSave(kind, Snapshot(wall, nowSecs', expiryTime', codes))
      BY <1>0, <1>2, <2>1 DEF TypeOK
    <3> QED BY <3>1 DEF NewSave, Snapshot, Credit, CreditAt
  <2>2. CASE s # t
    BY <1>0, <1>2, <2>2 DEF TypeOK, IsSave
  <2> QED BY <2>1, <2>2
<1>3. CASE UNCHANGED allVars \/ Start \/ LifeTick \/ LifeCheckExpired
           \/ \E delta \in JumpDeltas : LifeClockJump(delta)
  BY <1>1, <1>3
  DEF allVars, vars, lifeVars, saveVars, Start, LifeTick, Tick, LifeCheckExpired, CheckExpired,
      LifeClockJump
<1>4. CASE Exit \/ Crash
  BY <1>4 DEF Exit, Crash, Stopped, IsSave
<1>e. ASSUME NEW t \in SaveSlots, NEW f \in Files,
             \/ \E result \in IoResults : EndFileOperation(t, f, result)
             \/ FileSaved(t, f)
      PROVE  IsSave(s) /\ saves'[s].data = saves[s].data
  <2>1. CASE \E result \in IoResults : EndFileOperation(t, f, result)
    BY <1>0, <2>1 DEF EndFileOperation, TypeOK, IsSave, Saves
  <2>2. CASE FileSaved(t, f)
    BY <1>0, <2>2 DEF FileSaved, TypeOK, IsSave, Saves
  <2> QED BY <1>e, <2>1, <2>2
<1>5. CASE LifeSavingIo
  BY <1>5, <1>e DEF LifeSavingIo
<1>6. CASE LifeHandlers
  <2>1. [Next]_vars
    BY <1>6 DEF LifeHandlers, Next, Handlers
  <2>2. ASSUME NEW kind, SaveState(kind, SnapshotNow')
        PROVE  \/ IsSave(s) /\ saves'[s].data = saves[s].data
               \/ saves'[s].data.expirySeconds = Credit'
    BY <1>2, <2>2 DEF SaveState, SnapshotNow
  <2> QED BY <1>1, <1>e, <2>1, <2>2, SavingSteps
<1>7. CASE Loading
  <2>1. CASE ExpiryTimeLoaded \/ ExpirySecondsLoaded
    <3>1. UNCHANGED nowSecs
      BY <2>1 DEF ExpiryTimeLoaded, ExpirySecondsLoaded, clockVars
    <3>2. ASSUME NEW span, NEW task, SetLoadedExpiry(span, task)
          PROVE  \/ UNCHANGED saves
                 \/ \E t \in FreeSlots : saves' = [saves EXCEPT ![t] = NewSave("internal",
                      Snapshot(wallSecs, nowSecs', expiryTime', usedCodes))]
      BY <3>1, <3>2, Zenon DEF SetLoadedExpiry, InternalSave, SaveState, saveVars
    <3>3. UNCHANGED saves \/ \E span, task : SetLoadedExpiry(span, task)
      BY <2>1 DEF ExpiryTimeLoaded, ExpirySecondsLoaded, saveVars
    <3> QED BY <1>1, <1>2, <3>2, <3>3
  <2>2. UNCHANGED saves \/ ExpiryTimeLoaded \/ ExpirySecondsLoaded
    BY <1>7
    DEF Loading, EndRead, LoadRefused, KeyOrAccountLoaded, CorruptLoaded, EndDelete, FileDeleted,
        ClockTimeLoaded, UsedCodesLoaded, InitFinish, vars, saveVars
  <2> QED BY <1>1, <2>1, <2>2
<1> QED BY <1>3, <1>4, <1>5, <1>6, <1>7 DEF LifeNext

(* The file operations, and the reads, of the credit. *)
LEMMA PaidFileLater ==
  ASSUME paid \in Nat, paid' \in Nat, paid <= paid',
         NEW data \in Nat \cup Valueless \cup {Unreadable}, PaidFile(data)
  PROVE  PaidFile(data)'
BY DEF PaidFile

LEMMA PaidFiles ==
  ASSUME LifeInv, LifeInv', PaidInv, paid <= paid', [LifeNext]_allVars
  PROVE  /\ PaidFile(disk.expirySeconds)'
         /\ legacyExpiry' \in Valueless
<1>0. /\ TypeOK /\ LoadType /\ paid \in Nat /\ paid' \in Nat
      /\ disk.expirySeconds \in Nat \cup Valueless
  BY DEF LifeInv, ShutdownInv, TypeInv, LoadInv, ObservedType, TypeOK, DiskContents
<1>1. legacyExpiry' \in {legacyExpiry, NoFile}
  <2>1. CASE Loading
    BY <2>1
    DEF Loading, EndRead, LoadRefused, KeyOrAccountLoaded, CorruptLoaded, EndDelete, FileDeleted,
        ClockTimeLoaded, UsedCodesLoaded, ExpiryTimeLoaded, ExpirySecondsLoaded, InitFinish
  <2>2. CASE ~Loading
    BY <2>2
    DEF LifeNext, allVars, lifeVars, Start, LifeTick, LifeClockJump, LifeHandlers,
        LifeCheckExpired, LifeSavingIo, Exit, Crash
  <2> QED BY <2>1, <2>2
<1>2. \/ disk'.expirySeconds \in {disk.expirySeconds, NoFile}
      \/ \E s \in SaveSlots : IsSave(s) /\ disk'.expirySeconds = saves[s].data.expirySeconds
  <2>1. ASSUME NEW s \in SaveSlots, NEW f \in Files, NEW result \in IoResults,
               EndFileOperation(s, f, result)
        PROVE  \/ disk'.expirySeconds = disk.expirySeconds
               \/ IsSave(s) /\ disk'.expirySeconds = saves[s].data.expirySeconds
    BY <1>0, <2>1 DEF EndFileOperation, TypeOK, DiskContents, Files
  <2>2. ASSUME NEW f \in StateFiles, NEW result \in IoResults, EndDelete(f, result)
        PROVE  disk'.expirySeconds \in {disk.expirySeconds, NoFile}
    BY <1>0, <2>2 DEF EndDelete, TypeOK, DiskContents, Files
  <2>3. \/ UNCHANGED disk
        \/ \E s \in SaveSlots, f \in Files, result \in IoResults : EndFileOperation(s, f, result)
        \/ \E f \in StateFiles, result \in IoResults : EndDelete(f, result)
    <3>1. CASE Loading
      BY <3>1
      DEF Loading, EndRead, LoadRefused, KeyOrAccountLoaded, CorruptLoaded, FileDeleted,
          ClockTimeLoaded, UsedCodesLoaded, ExpiryTimeLoaded, ExpirySecondsLoaded, InitFinish,
          vars
    <3>2. CASE LifeHandlers
      BY <3>2
      DEF LifeHandlers, AcceptCode, RejectCode, ClearCode, WallclockTimeChanged, ShutdownAsync
    <3>3. CASE ~Loading /\ ~LifeHandlers
      BY <3>3
      DEF LifeNext, allVars, vars, Start, LifeTick, Tick, LifeClockJump, LifeCheckExpired,
          CheckExpired, LifeSavingIo, FileSaved, Exit, Crash
    <3> QED BY <3>1, <3>2, <3>3
  <2> QED BY <2>1, <2>2, <2>3
<1>3. PaidFile(disk.expirySeconds)'
  <2>1. PaidFile(disk.expirySeconds) /\ PaidFile(NoFile)
    BY DEF PaidInv, PaidFile, Valueless
  <2>2. \A s \in SaveSlots : IsSave(s) =>
          saves[s].data.expirySeconds \in Nat /\ PaidFile(saves[s].data.expirySeconds)
    BY <1>0 DEF PaidInv, PaidFile, TypeOK, IsSave, Saves, Contents
  <2>3. /\ disk'.expirySeconds \in Nat \cup Valueless \cup {Unreadable}
        /\ PaidFile(disk'.expirySeconds)
    BY <1>0, <1>2, <2>1, <2>2 DEF Valueless
  <2> QED BY <1>0, <2>3, PaidFileLater DEF PaidFile
<1> QED BY <1>1, <1>3 DEF PaidInv, Valueless

LEMMA PaidReads ==
  ASSUME LifeInv, LifeInv', PaidInv, paid <= paid', [LifeNext]_allVars
  PROVE  /\ reads'["expirySeconds"].step = "ended" => PaidFile(reads["expirySeconds"].data)'
         /\ reads'["expiryTime"].step = "ended" =>
              reads'["expiryTime"].data \in Valueless \cup {Unreadable}
<1>0. /\ TypeOK /\ LoadType /\ paid \in Nat /\ paid' \in Nat
      /\ disk.expirySeconds \in Nat \cup Valueless
  BY DEF LifeInv, ShutdownInv, TypeInv, LoadInv, ObservedType, TypeOK, DiskContents
<1>1. ASSUME NEW f \in ExpiryFiles, reads'[f].step = "ended"
      PROVE  \/ reads'[f] = reads[f]
             \/ reads'[f].data \in {FileContents(f), Unreadable}
  <2>1. CASE \E g \in LoadFiles, result \in IoResults : EndRead(g, result)
    BY <1>0, <1>1, <2>1 DEF EndRead, LoadType, ReadsType, ExpiryFiles, LoadFiles
  <2>2. ASSUME NEW g \in LoadFiles,
               reads' = [reads EXCEPT ![g] = WasRead] \/ reads' = ReadsAfter(g)
        PROVE  reads'[f] = reads[f]
    BY <1>0, <1>1, <2>2
    DEF ReadsAfter, WasRead, Reading, LoadType, ReadsType, ExpiryFiles, LoadFiles
  <2>3. CASE reads' = NoReads \/ reads' = FirstReads
    BY <1>1, <2>3
    DEF NoReads, FirstReads, NotRead, Reading, ExpiryFiles, LoadFiles, FirstFiles
  <2>4. \/ UNCHANGED reads \/ reads' = NoReads \/ reads' = FirstReads
        \/ \E g \in LoadFiles, result \in IoResults : EndRead(g, result)
        \/ \E g \in LoadFiles : reads' = [reads EXCEPT ![g] = WasRead] \/ reads' = ReadsAfter(g)
    <3>1. CASE Loading
      BY <3>1
      DEF Loading, LoadRefused, KeyOrAccountLoaded, CorruptLoaded, EndDelete, FileDeleted,
          ClockTimeLoaded, UsedCodesLoaded, ExpiryTimeLoaded, ExpirySecondsLoaded, InitFinish,
          loadVars, LoadFiles, StateFiles, Files
    <3>2. CASE ~Loading
      BY <3>2
      DEF LifeNext, allVars, lifeVars, loadVars, Start, LifeTick, LifeClockJump, LifeHandlers,
          LifeCheckExpired, LifeSavingIo, Exit, Crash, Stopped
    <3> QED BY <3>1, <3>2
  <2> QED BY <2>1, <2>2, <2>3, <2>4
<1>2. ASSUME reads'["expirySeconds"].step = "ended" PROVE PaidFile(reads["expirySeconds"].data)'
  <2> DEFINE data == reads'["expirySeconds"].data
  <2>1. CASE reads'["expirySeconds"] = reads["expirySeconds"]
    <3>1. PaidFile(data)
      BY <1>2, <2>1 DEF PaidInv
    <3>2. data \in Nat \cup Valueless \cup {Unreadable}
      BY <1>0, <1>2, <2>1
      DEF LoadType, ReadsType, ReadStates, FileValues, LoadFiles
    <3> QED BY <1>0, <3>1, <3>2, PaidFileLater DEF PaidFile
  <2>2. CASE data \in {FileContents("expirySeconds"), Unreadable}
    <3>1. FileContents("expirySeconds") = disk.expirySeconds
      BY DEF FileContents, Files
    <3>2. PaidFile(data) /\ data \in Nat \cup Valueless \cup {Unreadable}
      BY <1>0, <2>2, <3>1 DEF PaidInv, PaidFile
    <3> QED BY <1>0, <3>2, PaidFileLater DEF PaidFile
  <2> QED BY <1>1, <1>2, <2>1, <2>2 DEF ExpiryFiles
<1>3. FileContents("expiryTime") = legacyExpiry
  BY DEF FileContents, Files
<1>4. ASSUME reads'["expiryTime"].step = "ended"
      PROVE  reads'["expiryTime"].data \in Valueless \cup {Unreadable}
  BY <1>1, <1>3, <1>4 DEF PaidInv, ExpiryFiles
<1> QED BY <1>2, <1>4

LEMMA NextPaidInv == LifeInv /\ LifeInv' /\ PaidInv /\ [LifeNext]_allVars => PaidInv'
<1> SUFFICES ASSUME LifeInv, LifeInv', PaidInv, [LifeNext]_allVars PROVE PaidInv'
  OBVIOUS
<1>0. TypeOK /\ paid \in Nat /\ paid' \in Nat
  BY DEF LifeInv, ShutdownInv, TypeInv, ObservedType
<1>1. Credit' <= paid' /\ (phase' = "off" => expiryTime' = 0) /\ paid <= paid'
  BY CreditPaid
<1>2. ASSUME NEW s \in SaveSlots, IsSave(s)' PROVE saves'[s].data.expirySeconds <= paid'
  <2>1. CASE IsSave(s) /\ saves'[s].data = saves[s].data
    <3>1. saves[s].data.expirySeconds \in Nat /\ saves[s].data.expirySeconds <= paid
      BY <1>0, <2>1 DEF PaidInv, TypeOK, IsSave, Saves, Contents
    <3> QED BY <1>0, <1>1, <2>1, <3>1
  <2>2. CASE saves'[s].data.expirySeconds = Credit'
    BY <1>1, <2>2
  <2> QED BY <1>2, <2>1, <2>2, SavedCredit
<1>3. PaidFile(disk.expirySeconds)' /\ legacyExpiry' \in Valueless
  BY <1>1, PaidFiles
<1>4. /\ reads'["expirySeconds"].step = "ended" => PaidFile(reads["expirySeconds"].data)'
      /\ reads'["expiryTime"].step = "ended" =>
           reads'["expiryTime"].data \in Valueless \cup {Unreadable}
  BY <1>1, PaidReads
<1> QED BY <1>1, <1>2, <1>3, <1>4 DEF PaidInv, Credit

(* A computer that starts without credit never has more than the accepted  *)
(* codes paid for, whatever files it finds corrupt, whichever reads, saves *)
(* and timers fail, however the wall clock is set, and wherever it crashes.*)
THEOREM CreditIsPaidFor ==
  ASSUME \A contents \in InitialDisks : contents.expirySeconds \in Valueless \cup {0},
         InitialExpiryTimes \subseteq Valueless
  PROVE  LifeSpec => []CreditWithinPaid
<1>1. LifeInit => PaidInv
  <2> SUFFICES ASSUME LifeInit PROVE PaidInv
    OBVIOUS
  <2>1. CreditAt(nowSecs, expiryTime) = 0
    BY NoCredit, EpgManagerAssumption DEF LifeInit
  <2>2. PaidFile(disk.expirySeconds)
    BY DEF LifeInit, PaidFile
  <2> QED BY <2>1, <2>2 DEF LifeInit, PaidInv, IsSave, NoReads, NotRead, LoadFiles
<1>2. PaidInv => CreditWithinPaid
  BY DEF PaidInv, CreditWithinPaid
<1> QED BY <1>1, <1>2, LifeInvariant, NextPaidInv, PTL DEF LifeSpec

-----------------------------------------------------------------------------
(* The credit over a shutdown, a time without power and the next load.     *)

(* Before it runs, a manager is not shut down; it saves nothing until the  *)
(* credit is loaded, and deletes a file that it saves only if it is        *)
(* corrupt.                                                                *)
BeforeRunning ==
  /\ phase # "running" => ~cancelled
  /\ ~invalidData => \A f \in Files : deletes[f] = "none"
  /\ (\A f \in ExpiryFiles : reads[f].step # "called") =>
       rivals = {} /\ \A s \in SaveSlots : ~IsSave(s)

LifeCreditInv == invalidData \/ (RivalsInv /\ LastCreditInv)

(* The files of a clean shutdown hold what is due, as time consumes it. *)
SavedDue ==
  /\ disk.clockTime \in Nat /\ disk.expirySeconds \in Nat
  /\ disk.clockTime <= wallSecs
  /\ CreditAt(wallSecs - disk.clockTime, disk.expirySeconds) = due

(* They stay so while they are read, and so does what was read. *)
LoadingDue ==
  /\ SavedDue
  /\ reads["clockTime"].step = "ended" =>
       reads["clockTime"].data \in {disk.clockTime, Unreadable}
  /\ reads["clockTime"].step = "called" => lastSaveTime = disk.clockTime
  /\ reads["expirySeconds"].step = "ended" =>
       reads["expirySeconds"].data \in {disk.expirySeconds, Unreadable}

DueWhenLoading ==
  /\ reads["expiryTime"].step = "none"
  /\ IF reads["expirySeconds"].step = "called" THEN Credit = due ELSE LoadingDue

RestartInv ==
  clean /\ ~invalidData /\ ~initTask.hadError /\ phase \in {"off", "loading"} =>
    /\ due <= BOGUS_CREDIT_LOWER_LIMIT_SECS
    /\ phase = "off" => SavedDue
    /\ phase = "loading" => DueWhenLoading

(* No more credit than a load takes to be the user's. *)
CreditIsPlausible == CreditAt(nowSecs, expiryTime) <= BOGUS_CREDIT_LOWER_LIMIT_SECS

-----------------------------------------------------------------------------
LEMMA NoSavesBefore ==
  ASSUME LoadInv, BeforeRunning,
         phase = "off" \/ \E f \in ExpiryFiles : reads[f].step \in {"io", "ended"}
  PROVE  rivals = {} /\ \A s \in SaveSlots : ~IsSave(s)
<1>1. CASE phase = "off"
  <2>1. \A f \in ExpiryFiles : reads[f].step = "none"
    BY <1>1 DEF LoadInv, NothingWhenOff, NoReads, NotRead, ExpiryFiles, LoadFiles
  <2> QED BY <2>1 DEF BeforeRunning
<1>2. CASE \E f \in ExpiryFiles : reads[f].step \in {"io", "ended"}
  <2>1. \A f \in ExpiryFiles : reads[f].step # "called"
    BY <1>2 DEF LoadInv, LoadOrder, ExpiryFiles
  <2> QED BY <2>1 DEF BeforeRunning
<1> QED BY <1>1, <1>2

(* The steps of the load, as its reads see them. *)
LEMMA LoadingReads ==
  ASSUME Loading
  PROVE  \/ UNCHANGED reads
         \/ \E f \in LoadFiles, result \in IoResults : EndRead(f, result)
         \/ /\ \E f \in LoadFiles : reads[f].step = "ended"
                  /\ \/ reads' = [reads EXCEPT ![f] = WasRead]
                     \/ reads' = ReadsAfter(f)
BY DEF Loading, LoadRefused, KeyOrAccountLoaded, Loaded, CorruptLoaded, EndDelete, FileDeleted,
       ClockTimeLoaded, UsedCodesLoaded, ExpiryTimeLoaded, ExpirySecondsLoaded, InitFinish,
       loadVars, LoadFiles, StateFiles, Files

LEMMA CalledStays ==
  ASSUME LoadInv, Loading, NEW g \in LoadFiles, reads[g].step = "called"
  PROVE  reads'[g].step = "called"
<1>0. reads = [f \in LoadFiles |-> reads[f]] /\ LoadOrder
  BY DEF LoadInv, LoadType, ReadsType
<1>1. ASSUME NEW f \in LoadFiles, NEW result \in IoResults, EndRead(f, result)
      PROVE  reads'[g].step = "called"
  BY <1>0, <1>1 DEF EndRead
<1>2. ASSUME NEW f \in LoadFiles, reads[f].step = "ended",
             reads' = [reads EXCEPT ![f] = WasRead] \/ reads' = ReadsAfter(f)
      PROVE  reads'[g].step = "called"
  <2>1. f = "clockTime" => g \notin ExpiryFiles
    BY <1>0, <1>2 DEF LoadOrder
  <2> QED BY <1>0, <1>2, <2>1 DEF ReadsAfter, WasRead, ExpiryFiles
<1> QED BY <1>1, <1>2, LoadingReads

LEMMA BeforeRunningStep ==
  ASSUME LifeInv, LifeInv', BeforeRunning, [LifeNext]_allVars
  PROVE  BeforeRunning'
<1>0. TypeOK /\ LoadInv /\ LoadType /\ LoadOrder /\ LoadInv'
  BY DEF LifeInv, ShutdownInv, TypeInv, LoadInv
<1>1. CASE Exit \/ Crash
  BY <1>1, Zenon DEF Exit, Crash, Stopped, BeforeRunning, IsSave, NoDeletes, StateFiles
<1>2. CASE Start
  <2>1. rivals = {} /\ \A s \in SaveSlots : ~IsSave(s)
    BY <1>0, <1>2, NoSavesBefore DEF Start
  <2> QED BY <1>2, <2>1 DEF Start, BeforeRunning, saveVars, shutdownVars, IsSave
<1>3. CASE LifeHandlers
  <2>1. \E f \in ExpiryFiles : reads'[f].step = "called"
    BY <1>0, <1>3, RunningLoaded DEF LifeHandlers, loadVars
  <2> QED BY <1>3, <2>1 DEF LifeHandlers, loadVars, BeforeRunning
<1>4. CASE UNCHANGED allVars \/ LifeTick \/ LifeCheckExpired
           \/ \E delta \in JumpDeltas : LifeClockJump(delta)
  <2>1. UNCHANGED <<phase, cancelled, invalidData, deletes, reads, saves, rivals>>
    BY <1>4
    DEF allVars, vars, lifeVars, loadVars, saveVars, shutdownVars, LifeTick, Tick,
        LifeCheckExpired, CheckExpired, LifeClockJump
  <2> QED BY <2>1 DEF BeforeRunning, IsSave
<1>5. CASE LifeSavingIo
  <2>1. UNCHANGED <<phase, cancelled, invalidData, deletes, reads>>
    BY <1>5
    DEF LifeSavingIo, lifeVars, loadVars, EndFileOperation, FileSaved, shutdownVars
  <2>2. \E s \in SaveSlots : IsSave(s)
    BY <1>5 DEF LifeSavingIo, EndFileOperation, FileSaved
  <2> QED BY <2>1, <2>2 DEF BeforeRunning
<1>6. CASE Loading
  <2>1. UNCHANGED cancelled /\ (phase' # "running" => phase # "running")
    BY <1>6
    DEF Loading, EndRead, LoadRefused, KeyOrAccountLoaded, CorruptLoaded, EndDelete, FileDeleted,
        ClockTimeLoaded, UsedCodesLoaded, ExpiryTimeLoaded, ExpirySecondsLoaded, InitFinish,
        vars, shutdownVars
  <2>2. ASSUME ~invalidData', NEW f \in Files PROVE deletes'[f] = "none"
    <3>1. UNCHANGED invalidData
      BY <1>6, <2>2
      DEF Loading, EndRead, LoadRefused, KeyOrAccountLoaded, CorruptLoaded, EndDelete,
          FileDeleted, ClockTimeLoaded, UsedCodesLoaded, ExpiryTimeLoaded, ExpirySecondsLoaded,
          InitFinish, loadVars
    <3>2. deletes[f] = "none" /\ f # "expiryTime" /\ f \in StateFiles
      BY <2>2, <3>1 DEF BeforeRunning, Files, StateFiles
    <3>3. CASE UNCHANGED deletes \/ deletes' = Deleting("expiryTime")
      BY <1>0, <3>2, <3>3 DEF Deleting, LoadType
    <3>4. ASSUME NEW g \in StateFiles,
                 (\E result \in IoResults : EndDelete(g, result)) \/ FileDeleted(g)
          PROVE  deletes'[f] = "none"
      BY <1>0, <3>2, <3>4 DEF EndDelete, FileDeleted, LoadType
    <3> QED
      BY <1>6, <2>2, <3>3, <3>4
      DEF Loading, EndRead, LoadRefused, KeyOrAccountLoaded, CorruptLoaded, ClockTimeLoaded,
          UsedCodesLoaded, ExpiryTimeLoaded, ExpirySecondsLoaded, InitFinish, loadVars
  <2>3. ASSUME \A f \in ExpiryFiles : reads'[f].step # "called"
        PROVE  rivals' = {} /\ \A s \in SaveSlots : ~IsSave(s)'
    <3>1. \A f \in ExpiryFiles : reads[f].step # "called"
      BY <1>0, <1>6, <2>3, CalledStays DEF ExpiryFiles, LoadFiles
    <3>2. ~ExpiryTimeLoaded /\ ~ExpirySecondsLoaded
      BY <1>0, <2>3 DEF ExpiryTimeLoaded, ExpirySecondsLoaded, ReadsAfter, WasRead, LoadType,
         ReadsType, ExpiryFiles, LoadFiles
    <3>3. UNCHANGED <<saves, rivals>>
      BY <1>6, <3>2
      DEF Loading, EndRead, LoadRefused, KeyOrAccountLoaded, CorruptLoaded, EndDelete,
          FileDeleted, ClockTimeLoaded, UsedCodesLoaded, InitFinish, vars, saveVars
    <3> QED BY <3>1, <3>3 DEF BeforeRunning, IsSave
  <2> QED BY <2>1, <2>2, <2>3 DEF BeforeRunning
<1> QED BY <1>1, <1>2, <1>3, <1>4, <1>5, <1>6 DEF LifeNext

-----------------------------------------------------------------------------
(* The saves of all lives write what the credit can be deduced from. *)

LEMMA WritesKept ==
  ASSUME RivalsInv, LastCreditInv,
         UNCHANGED <<nowSecs, expiryTime, saves, rivals, savedOffset, disk, shutdownResult>>
  PROVE  RivalsInv' /\ LastCreditInv'
BY DEF RivalsInv, SaveIsRival, WritesOf, IsSave, LastCreditInv, DeducibleNow

LEMMA NothingSaved ==
  ASSUME shutdownResult' = "none", rivals' = {}, \A s \in SaveSlots : ~IsSave(s)'
  PROVE  RivalsInv' /\ LastCreditInv'
BY DEF RivalsInv, LastCreditInv

LEMMA LastCreditStep ==
  ASSUME TypeInv, TypeInv', LastCreditInv, [Next]_vars
  PROVE  LastCreditInv'
<1>1. TypeOK
  BY DEF TypeInv
<1>2. LastSaveInv' => LastCreditInv'
  BY DEF LastSaveInv
<1> QED BY <1>1, <1>2, SavingSteps, LastCreditLater, LastSaveStarted DEF KeepsClocks, KeepsState

(* The credit is loaded while nothing is saved, and then saved as it is. *)
LEMMA LoadedSave ==
  ASSUME LifeInv, BeforeRunning, ExpiryTimeLoaded \/ ExpirySecondsLoaded
  PROVE  /\ rivals = {} /\ \A s \in SaveSlots : ~IsSave(s)
         /\ shutdownResult' = "none" /\ UNCHANGED <<wallSecs, nowSecs, disk, shutdownResult>>
         /\ UNCHANGED <<saves, rivals>> \/ SaveState("internal", SnapshotNow')
<1>0. LoadInv
  BY DEF LifeInv
<1>1. PICK f \in ExpiryFiles : f \in LoadFiles /\ reads[f].step = "ended"
  BY DEF ExpiryTimeLoaded, ExpirySecondsLoaded, Loaded, ExpiryFiles, LoadFiles
<1>2. rivals = {} /\ \A s \in SaveSlots : ~IsSave(s)
  BY <1>0, <1>1, NoSavesBefore
<1>3. /\ shutdownResult' = "none"
      /\ UNCHANGED <<wallSecs, nowSecs, usedCodes, disk, shutdownResult>>
  <2>1. phase # "running"
    BY <1>0, <1>1, ReadOutstanding, LoadActive
  <2>2. shutdownResult = "none"
    BY <2>1 DEF BeforeRunning, LifeInv, ShutdownInv, ShutdownNotLost
  <2> QED BY <2>2 DEF ExpiryTimeLoaded, ExpirySecondsLoaded, clockVars, shutdownVars
<1>4. ASSUME NEW span, NEW task, SetLoadedExpiry(span, task)
      PROVE  UNCHANGED <<saves, rivals>> \/ SaveState("internal", SnapshotNow')
  <2>1. SnapshotNow' = Snapshot(wallSecs, nowSecs, expiryTime', usedCodes)
    BY <1>3 DEF SnapshotNow, Snapshot, CreditAt
  <2> QED BY <1>4, <2>1, Zenon DEF SetLoadedExpiry, InternalSave, saveVars
<1>5. UNCHANGED <<saves, rivals>> \/ \E span, task : SetLoadedExpiry(span, task)
  BY DEF ExpiryTimeLoaded, ExpirySecondsLoaded, saveVars
<1> QED BY <1>2, <1>3, <1>4, <1>5

LEMMA LoadedCreditInv ==
  ASSUME LifeInv, LifeInv', BeforeRunning, RivalsInv, ExpiryTimeLoaded \/ ExpirySecondsLoaded
  PROVE  RivalsInv' /\ LastCreditInv'
<1>0. TypeInv /\ TypeInv' /\ TypeOK'
  BY DEF LifeInv, ShutdownInv, TypeInv
<1>1. /\ rivals = {} /\ \A s \in SaveSlots : ~IsSave(s)
      /\ shutdownResult' = "none" /\ UNCHANGED <<wallSecs, nowSecs, disk, shutdownResult>>
      /\ UNCHANGED <<saves, rivals>> \/ SaveState("internal", SnapshotNow')
  BY LoadedSave
<1>2. CASE UNCHANGED <<saves, rivals>>
  BY <1>1, <1>2, NothingSaved DEF IsSave
<1>3. CASE SaveState("internal", SnapshotNow')
  <2>1. nowSecs' \in Nat /\ wallSecs' \in Nat /\ expiryTime' \in Nat /\ usedCodes' \in CodeCounts
    BY <1>0, EpgManagerAssumption, RateLimitAssumption DEF TypeOK
  <2>2. SnapshotNow' \in Contents
    BY <2>1, SnapshotType DEF SnapshotNow
  <2>3. RivalsInv'
    BY <1>0, <1>1, <1>3, <2>2, StartedSave DEF KeepsResults
  <2>4. LastCreditInv'
    BY <1>0, <1>1, <1>3, LastSaveStarted DEF KeepsClocks, LastSaveInv
  <2> QED BY <2>3, <2>4
<1> QED BY <1>1, <1>2, <1>3

LEMMA LifeCreditStep ==
  ASSUME LifeInv, LifeInv', BeforeRunning, LifeCreditInv, [LifeNext]_allVars
  PROVE  LifeCreditInv'
<1>0. TypeOK /\ TypeInv /\ TypeInv' /\ ShutdownInv /\ ShutdownInv' /\ LoadInv
  BY DEF LifeInv, ShutdownInv, TypeInv
<1>1. ASSUME RivalsInv, LastCreditInv, [Next]_vars PROVE RivalsInv' /\ LastCreditInv'
  BY <1>0, <1>1, RivalsStep, LastCreditStep
<1>2. CASE UNCHANGED allVars \/ LifeHandlers \/ LifeCheckExpired \/ LifeSavingIo
  <2>1. [Next]_vars /\ UNCHANGED invalidData
    BY <1>2
    DEF allVars, lifeVars, loadVars, LifeHandlers, LifeCheckExpired, LifeSavingIo, Next,
        Handlers, SavingIo
  <2> QED BY <1>1, <2>1 DEF LifeCreditInv
<1>3. CASE LifeTick /\ phase # "off"
  <2>1. [Next]_vars /\ UNCHANGED invalidData
    BY <1>3 DEF LifeTick, Tick, Next, Environment, loadVars
  <2> QED BY <1>1, <2>1 DEF LifeCreditInv
<1>4. CASE Start \/ (LifeTick /\ phase = "off")
  <2>1. phase = "off" /\ UNCHANGED <<shutdownResult, saves, rivals>>
    BY <1>4 DEF Start, LifeTick, Tick, saveVars, shutdownVars
  <2>2. shutdownResult = "none" /\ rivals = {} /\ \A s \in SaveSlots : ~IsSave(s)
    BY <1>0, <2>1, NoSavesBefore DEF BeforeRunning, ShutdownInv, ShutdownNotLost
  <2> QED BY <2>1, <2>2, NothingSaved DEF LifeCreditInv, IsSave
<1>5. CASE Exit \/ Crash
  BY <1>5, NothingSaved, Zenon DEF Exit, Crash, Stopped, LifeCreditInv, IsSave
<1>6. ASSUME NEW delta \in JumpDeltas, LifeClockJump(delta) PROVE LifeCreditInv'
  BY <1>6, WritesKept DEF LifeClockJump, creditVars, saveVars, shutdownVars, loadVars, LifeCreditInv
<1>7. CASE Loading
  <2>1. CASE ExpiryTimeLoaded \/ ExpirySecondsLoaded
    <3>1. UNCHANGED invalidData
      BY <2>1 DEF ExpiryTimeLoaded, ExpirySecondsLoaded
    <3> QED BY <2>1, <3>1, LoadedCreditInv DEF LifeCreditInv
  <2>2. ASSUME ~ExpiryTimeLoaded, ~ExpirySecondsLoaded, ~invalidData'
        PROVE  LifeCreditInv'
    <3>1. UNCHANGED <<nowSecs, expiryTime, saves, rivals, savedOffset, shutdownResult, invalidData>>
      BY <1>7, <2>2
      DEF Loading, EndRead, LoadRefused, KeyOrAccountLoaded, CorruptLoaded, EndDelete,
          FileDeleted, ClockTimeLoaded, UsedCodesLoaded, InitFinish, vars, clockVars, creditVars,
          saveVars, shutdownVars, loadVars
    <3>2. ASSUME NEW f \in StateFiles, NEW result \in IoResults, EndDelete(f, result)
          PROVE  UNCHANGED disk
      BY <2>2, <3>1, <3>2 DEF EndDelete, BeforeRunning
    <3>3. UNCHANGED disk
      BY <1>7, <2>2, <3>2
      DEF Loading, EndRead, LoadRefused, KeyOrAccountLoaded, CorruptLoaded, FileDeleted,
          ClockTimeLoaded, UsedCodesLoaded, InitFinish, vars
    <3> QED BY <2>2, <3>1, <3>3, WritesKept DEF LifeCreditInv
  <2> QED BY <2>1, <2>2 DEF LifeCreditInv
<1> QED BY <1>2, <1>3, <1>4, <1>5, <1>6, <1>7 DEF LifeNext

-----------------------------------------------------------------------------
(* A load gives back what is due. *)

LEMMA DueLater ==
  ASSUME NEW now \in Nat, NEW expiry \in Nat
  PROVE  CreditAt(now + 1, expiry) = Less(CreditAt(now, expiry), 1)
BY DEF CreditAt, Less

LEMMA SavedLater ==
  ASSUME NEW wall \in Nat, NEW saveTime \in Nat, NEW saveCredit \in Nat, saveTime <= wall
  PROVE  /\ saveTime <= wall + 1
         /\ CreditAt((wall + 1) - saveTime, saveCredit) =
              Less(CreditAt(wall - saveTime, saveCredit), 1)
BY DEF CreditAt, Less

LEMMA LessSecond ==
  ASSUME NEW credit \in Nat, NEW most \in Nat, credit <= most
  PROVE  Less(credit, 1) <= most
BY DEF Less

(* Once due cannot be taken for a bogus credit, it is what is loaded. *)
LEMMA LoadedIsDue ==
  ASSUME TypeOK, SavedDue, due <= BOGUS_CREDIT_LOWER_LIMIT_SECS
  PROVE  LoadedCredit(disk.clockTime, disk.expirySeconds) = due
<1>1. wallSecs \in Nat
  BY CreditSecs
<1> QED BY <1>1, EpgManagerLifeAssumption DEF SavedDue, LoadedCredit, CreditAt

LEMMA SetDue ==
  ASSUME "err" \notin TimerResults,
         MaxBoottime + BOGUS_CREDIT_LOWER_LIMIT_SECS <= G_MAXUINT64,
         TypeOK, due \in Nat, due <= BOGUS_CREDIT_LOWER_LIMIT_SECS,
         NEW task, SetLoadedExpiry(due, task), UNCHANGED nowSecs
  PROVE  Credit' = due
<1>1. nowSecs \in Nat /\ nowSecs <= MaxBoottime
  BY EpgManagerAssumption DEF TypeOK
<1>2. expiryTime' = AddClamped(nowSecs, due)
  BY Zenon DEF SetLoadedExpiry, SetExpiryTime
<1>3. AddClamped(nowSecs, due) = nowSecs + due
  BY <1>1, EpgManagerAssumption, EpgManagerLifeAssumption, RateLimitAssumption DEF AddClamped
<1>4. CreditAt(nowSecs, nowSecs + due) = due
  BY <1>1 DEF CreditAt
<1> QED BY <1>2, <1>3, <1>4 DEF Credit

(* The step that sets the credit. *)
LEMMA SecondsLoadedDue ==
  ASSUME "err" \notin TimerResults,
         MaxBoottime + BOGUS_CREDIT_LOWER_LIMIT_SECS <= G_MAXUINT64,
         LifeInv, DueWhenLoading, due <= BOGUS_CREDIT_LOWER_LIMIT_SECS, ExpirySecondsLoaded
  PROVE  DueWhenLoading'
<1>0. /\ TypeOK /\ LoadType /\ LoadOrder /\ due \in Nat
      /\ reads = [f \in LoadFiles |-> reads[f]]
  BY DEF LifeInv, ShutdownInv, TypeInv, LoadInv, LoadType, ReadsType, ObservedType
<1>1. /\ reads["expirySeconds"].step = "ended" /\ reads["expirySeconds"].data # Unreadable
      /\ reads' = [reads EXCEPT !["expirySeconds"] = WasRead]
      /\ UNCHANGED <<nowSecs, due>>
  BY DEF ExpirySecondsLoaded, Loaded, ReadsAfter, clockVars, observed
<1>2. LoadingDue /\ reads["expirySeconds"].data = disk.expirySeconds
  BY <1>1 DEF DueWhenLoading, LoadingDue
<1>3. lastSaveTime = disk.clockTime
  <2>1. reads["clockTime"].step = "called"
    BY <1>0, <1>1 DEF LoadOrder, ExpiryFiles
  <2> QED BY <1>2, <2>1 DEF LoadingDue
<1>4. disk.clockTime \in Nat /\ disk.expirySeconds \in Nat
  BY <1>2 DEF LoadingDue, SavedDue
<1>5. disk.expirySeconds \notin Valueless /\ disk.clockTime # NoFile
  BY <1>4, StateFileAssumption DEF Valueless
<1>6. LoadedCredit(disk.clockTime, disk.expirySeconds) = due
  BY <1>0, <1>2, LoadedIsDue DEF LoadingDue
<1>7. SetLoadedExpiry(due, initTask)
  BY <1>2, <1>3, <1>5, <1>6 DEF ExpirySecondsLoaded
<1>8. Credit' = due'
  BY <1>0, <1>1, <1>7, SetDue
<1> QED BY <1>0, <1>1, <1>8 DEF DueWhenLoading, WasRead, LoadFiles

(* A load that goes on has not failed before. *)
LEMMA NoErrorBefore ==
  ASSUME [LifeNext]_allVars, Loading \/ LifeSavingIo
  PROVE  /\ initTask.hadError => initTask'.hadError
         /\ invalidData => invalidData'
         /\ UNCHANGED <<wallSecs, nowSecs, clean>>
         /\ ~InitFinish => UNCHANGED <<phase, due>>
         /\ InitFinish => phase' \notin {"off", "loading"}
<1> USE DEF ReturnBoolean, ReturnError, Increment
<1>1. CASE LifeSavingIo
  <2>1. UNCHANGED <<phase, due, clean, invalidData, wallSecs, nowSecs>>
    BY <1>1
    DEF LifeSavingIo, EndFileOperation, FileSaved, lifeVars, loadVars, observed, clockVars
  <2>2. \/ UNCHANGED initTask \/ initTask' = ReturnBoolean(initTask)
        \/ initTask' = ReturnError(initTask)
    BY <1>1 DEF LifeSavingIo, lifeVars, loadVars
  <2> QED BY <2>1, <2>2 DEF InitFinish
<1>2. CASE Loading
  <2>1. CASE InitFinish
    BY <2>1 DEF InitFinish, vars, clockVars, loadVars
  <2>2. CASE ~InitFinish
    <3>1. /\ UNCHANGED <<phase, due, clean, wallSecs, nowSecs>>
          /\ UNCHANGED invalidData \/ invalidData' = TRUE
      BY <1>2, <2>2
      DEF Loading, EndRead, LoadRefused, KeyOrAccountLoaded, CorruptLoaded, EndDelete,
          FileDeleted, ClockTimeLoaded, UsedCodesLoaded, ExpiryTimeLoaded, ExpirySecondsLoaded,
          vars, clockVars, observed
    <3>2. initTask.hadError => initTask'.hadError
      <4>1. CASE ExpiryTimeLoaded \/ ExpirySecondsLoaded
        BY <4>1 DEF ExpiryTimeLoaded, ExpirySecondsLoaded, Loaded
      <4>2. CASE ~ExpiryTimeLoaded /\ ~ExpirySecondsLoaded
        BY <1>2, <2>2, <4>2
        DEF Loading, EndRead, LoadRefused, KeyOrAccountLoaded, CorruptLoaded, EndDelete,
            FileDeleted, ClockTimeLoaded, UsedCodesLoaded
      <4> QED BY <4>1, <4>2
    <3>3. invalidData => invalidData'
      BY <3>1, Zenon
    <3> QED BY <2>2, <3>1, <3>2, <3>3
  <2> QED BY <2>1, <2>2
<1> QED BY <1>1, <1>2

LEMMA LoadingDueStep ==
  ASSUME "err" \notin TimerResults,
         MaxBoottime + BOGUS_CREDIT_LOWER_LIMIT_SECS <= G_MAXUINT64,
         LifeInv, LifeInv', BeforeRunning, phase = "loading", DueWhenLoading,
         due <= BOGUS_CREDIT_LOWER_LIMIT_SECS, Loading, ~InitFinish,
         ~invalidData', ~initTask'.hadError
  PROVE  DueWhenLoading'
<1>0. /\ TypeOK /\ LoadType /\ LoadOrder /\ reads = [f \in LoadFiles |-> reads[f]]
  BY DEF LifeInv, ShutdownInv, TypeInv, LoadInv, LoadType, ReadsType
<1>1. CASE ExpirySecondsLoaded
  BY <1>1, SecondsLoadedDue
<1>2. ~ExpiryTimeLoaded
  BY DEF ExpiryTimeLoaded, Loaded, DueWhenLoading
<1>3. CASE ClockTimeLoaded
  <2>1. /\ reads["clockTime"].step = "ended" /\ reads["clockTime"].data # Unreadable
        /\ reads' = ReadsAfter("clockTime")
        /\ UNCHANGED <<wallSecs, disk, due>>
        /\ lastSaveTime' = IF reads["clockTime"].data \in Valueless
                           THEN lastSaveTime ELSE reads["clockTime"].data
    BY <1>3 DEF ClockTimeLoaded, Loaded, vars, clockVars, observed
  <2>2. reads["expirySeconds"].step # "called"
    BY <1>0, <2>1 DEF LoadOrder, ExpiryFiles
  <2>3. SavedDue /\ reads["clockTime"].data = disk.clockTime
    BY <2>1, <2>2 DEF DueWhenLoading, LoadingDue
  <2>4. disk.clockTime \notin Valueless /\ disk.clockTime # NoFile
    BY <2>3, StateFileAssumption DEF SavedDue, Valueless
  <2>5. /\ reads'["clockTime"].step = "called" /\ reads'["expirySeconds"].step = "io"
        /\ reads'["expiryTime"] = reads["expiryTime"]
    BY <1>0, <2>1, <2>3, <2>4 DEF ReadsAfter, WasRead, Reading, LoadFiles
  <2>6. SavedDue'
    BY <2>1, <2>3 DEF SavedDue
  <2>7. LoadingDue'
    BY <2>1, <2>3, <2>4, <2>5, <2>6 DEF LoadingDue
  <2> QED BY <2>5, <2>7 DEF DueWhenLoading
<1>4. ASSUME NEW f \in LoadFiles, NEW result \in IoResults, EndRead(f, result)
      PROVE  DueWhenLoading'
  <2>1. /\ UNCHANGED <<nowSecs, wallSecs, expiryTime, disk, due, lastSaveTime>>
        /\ reads[f].step = "io"
        /\ reads' = [reads EXCEPT ![f] = [step |-> "ended",
             data |-> IF result = "ok" THEN FileContents(f) ELSE Unreadable]]
    BY <1>4 DEF EndRead, vars, clockVars, creditVars, observed
  <2>2. /\ FileContents("clockTime") = disk.clockTime
        /\ FileContents("expirySeconds") = disk.expirySeconds
    BY DEF FileContents, Files
  <2>3. reads'[f].step = "ended" /\ \A g \in LoadFiles \ {f} : reads'[g] = reads[g]
    BY <1>0, <2>1
  <2>4. /\ f = "clockTime" => reads'[f].data \in {disk.clockTime, Unreadable}
        /\ f = "expirySeconds" => reads'[f].data \in {disk.expirySeconds, Unreadable}
    BY <1>0, <2>1, <2>2
  <2>5. f # "expiryTime"
    BY <2>1 DEF DueWhenLoading
  <2>6. SavedDue => SavedDue'
    BY <2>1 DEF SavedDue
  <2>7. Credit' = Credit
    BY <2>1 DEF Credit
  <2>8. LoadingDue => LoadingDue'
    BY <2>1, <2>3, <2>4, <2>6 DEF LoadingDue, LoadFiles
  <2> QED BY <2>1, <2>3, <2>5, <2>7, <2>8 DEF DueWhenLoading, LoadFiles
<1>5. ASSUME UNCHANGED <<nowSecs, wallSecs, expiryTime, disk, due, lastSaveTime>>,
             UNCHANGED <<reads["clockTime"], reads["expirySeconds"], reads["expiryTime"]>>
      PROVE  DueWhenLoading'
  BY <1>5 DEF DueWhenLoading, LoadingDue, SavedDue, Credit, CreditAt
<1>6. CASE UsedCodesLoaded \/ \E f \in LoadFiles : KeyOrAccountLoaded(f)
  <2>1. UNCHANGED <<nowSecs, wallSecs, expiryTime, disk, due, lastSaveTime>>
    BY <1>6 DEF UsedCodesLoaded, KeyOrAccountLoaded, clockVars, observed
  <2>2. PICK f \in LoadFiles \ {"clockTime", "expirySeconds", "expiryTime"} :
          reads' = [reads EXCEPT ![f] = WasRead]
    BY <1>6 DEF UsedCodesLoaded, KeyOrAccountLoaded, ReadsAfter, LoadFiles
  <2> QED BY <1>0, <1>5, <2>1, <2>2 DEF LoadFiles
<1>7. ASSUME NEW f \in StateFiles,
             (\E result \in IoResults : EndDelete(f, result)) \/ FileDeleted(f)
      PROVE  DueWhenLoading'
  <2>1. UNCHANGED <<nowSecs, wallSecs, expiryTime, due, lastSaveTime, reads, invalidData>>
    BY <1>7 DEF EndDelete, FileDeleted, vars, clockVars, creditVars, observed
  <2>2. UNCHANGED disk
    BY <1>7, <2>1 DEF EndDelete, FileDeleted, vars, BeforeRunning
  <2> QED BY <1>5, <2>1, <2>2
<1>8. (\A f \in LoadFiles : ~LoadRefused(f)) /\ (\A f \in StateFiles : ~CorruptLoaded(f))
  BY DEF LoadRefused, CorruptLoaded, ReturnError
<1> QED BY <1>1, <1>2, <1>3, <1>4, <1>6, <1>7, <1>8 DEF Loading

(* A manager that was shut down was running, with all of its state. *)
LEMMA ShutdownRan ==
  ASSUME LifeInv, BeforeRunning, LifeCreditInv, shutdownResult = "ok", SavedAlone
  PROVE  DeducibleNow(disk)
<1>0. LoadInv /\ ShutdownInv
  BY DEF LifeInv
<1>1. phase = "running"
  BY <1>0 DEF BeforeRunning, ShutdownInv, ShutdownNotLost
<1>2. Outstanding = 0 /\ initTask.pending = 0
  BY <1>0, <1>1, RunningLoaded DEF LoadInv, RunningInv, NoTask, Attach
<1>3. ~invalidData
  BY <1>0, <1>2 DEF LoadInv, CountInv
<1>4. RivalsInv /\ LastCreditInv
  BY <1>3 DEF LifeCreditInv
<1>5. \A f \in Files : \E r \in rivals : disk[f] = r[f]
  BY <1>4 DEF RivalsInv, WritesOf
<1>6. PICK r \in rivals : DeducibleNow(r)
  BY <1>4, <1>5 DEF LastCreditInv, Files
<1>7. disk.clockTime = r.clockTime /\ disk.expirySeconds = r.expirySeconds
  BY <1>5 DEF SavedAlone, Files
<1> QED BY <1>6, <1>7 DEF DeducibleNow, Deducible

LEMMA RestartStep ==
  ASSUME "err" \notin TimerResults,
         MaxBoottime + BOGUS_CREDIT_LOWER_LIMIT_SECS <= G_MAXUINT64, CreditIsPlausible,
         LifeInv, LifeInv', BeforeRunning, LifeCreditInv, RestartInv, [LifeNext]_allVars
  PROVE  RestartInv'
<1>0. /\ TypeOK /\ LoadInv /\ due \in Nat
      /\ nowSecs \in Nat /\ expiryTime \in Nat /\ wallSecs \in Nat
  BY CreditSecs DEF LifeInv, ShutdownInv, TypeInv, ObservedType
<1> SUFFICES ASSUME clean', ~invalidData', ~initTask'.hadError, phase' \in {"off", "loading"}
             PROVE  /\ due' <= BOGUS_CREDIT_LOWER_LIMIT_SECS
                    /\ phase' = "off" => SavedDue'
                    /\ phase' = "loading" => DueWhenLoading'
  BY DEF RestartInv
<1>1. CASE Exit
  <2>1. /\ shutdownResult = "ok" /\ SavedAlone /\ wallSecs - nowSecs = savedOffset
        /\ UNCHANGED <<nowSecs, wallSecs, disk>> /\ phase' = "off"
        /\ due' = CreditAt(nowSecs, expiryTime)
    BY <1>1, Zenon DEF Exit
  <2>2. DeducibleNow(disk)
    BY <2>1, ShutdownRan
  <2>3. nowSecs + savedOffset = wallSecs
    BY <1>0, <2>1, OffsetNow
  <2> QED BY <2>1, <2>2, <2>3 DEF CreditIsPlausible, SavedDue, DeducibleNow, Deducible
<1>2. CASE Start
  <2>1. clean /\ phase = "off" /\ ~invalidData /\ ~initTask.hadError
    BY <1>0, <1>2 DEF Start, observed, LoadInv, NothingWhenOff, NoTask, Attach
  <2>2. due <= BOGUS_CREDIT_LOWER_LIMIT_SECS /\ SavedDue
    BY <2>1 DEF RestartInv
  <2>3. phase' = "loading" /\ UNCHANGED <<wallSecs, disk, due>> /\ reads' = FirstReads
    BY <1>2 DEF Start, observed
  <2>4. /\ reads'["clockTime"].step = "io" /\ reads'["expirySeconds"].step = "none"
        /\ reads'["expiryTime"].step = "none"
    BY <2>3 DEF FirstReads, Reading, NotRead, LoadFiles, FirstFiles
  <2>5. SavedDue'
    BY <2>2, <2>3 DEF SavedDue
  <2> QED BY <2>2, <2>3, <2>4, <2>5 DEF DueWhenLoading, LoadingDue
<1>3. CASE LifeTick
  <2>1. /\ clean /\ ~invalidData /\ ~initTask.hadError /\ UNCHANGED <<phase, loadVars>>
        /\ due' = Less(due, 1) /\ wallSecs' = wallSecs + 1 /\ UNCHANGED <<disk, expiryTime>>
        /\ phase # "off" => nowSecs' = nowSecs + 1
    BY <1>3 DEF LifeTick, Tick, loadVars, creditVars
  <2>2. /\ due <= BOGUS_CREDIT_LOWER_LIMIT_SECS
        /\ phase = "off" => SavedDue
        /\ phase = "loading" => DueWhenLoading
    BY <2>1 DEF RestartInv
  <2>3. due' <= BOGUS_CREDIT_LOWER_LIMIT_SECS
    BY <1>0, <2>1, <2>2, LessSecond, EpgManagerLifeAssumption
  <2>4. SavedDue => SavedDue'
    <3> SUFFICES ASSUME SavedDue PROVE SavedDue'
      OBVIOUS
    <3>1. /\ disk.clockTime \in Nat /\ disk.expirySeconds \in Nat /\ disk.clockTime <= wallSecs
          /\ CreditAt(wallSecs - disk.clockTime, disk.expirySeconds) = due
      BY DEF SavedDue
    <3>2. /\ disk.clockTime <= wallSecs + 1
          /\ CreditAt((wallSecs + 1) - disk.clockTime, disk.expirySeconds) = Less(due, 1)
      BY <1>0, <3>1, SavedLater
    <3> QED BY <2>1, <3>1, <3>2, Zenon DEF SavedDue
  <2>5. phase # "off" /\ Credit = due => Credit' = due'
    BY <1>0, <2>1, DueLater DEF Credit
  <2>6. LoadingDue => LoadingDue'
    BY <2>1, <2>4 DEF LoadingDue, loadVars
  <2> QED BY <2>1, <2>2, <2>3, <2>4, <2>5, <2>6 DEF DueWhenLoading, loadVars
<1>4. CASE UNCHANGED allVars \/ LifeCheckExpired
  <2>1. UNCHANGED <<nowSecs, wallSecs, disk, expiryTime, phase, loadVars, due, clean>>
    BY <1>4
    DEF allVars, vars, lifeVars, observed, LifeCheckExpired, CheckExpired, clockVars, creditVars
  <2>2. SavedDue => SavedDue'
    BY <2>1 DEF SavedDue
  <2>3. LoadingDue => LoadingDue'
    BY <2>1, <2>2 DEF LoadingDue, loadVars
  <2>4. Credit' = Credit
    BY <2>1 DEF Credit
  <2>5. DueWhenLoading => DueWhenLoading'
    BY <2>1, <2>3, <2>4 DEF DueWhenLoading, loadVars
  <2> QED BY <2>1, <2>2, <2>5 DEF RestartInv, loadVars
<1>5. CASE Loading \/ LifeSavingIo
  <2>1. ~InitFinish
    BY <1>5, NoErrorBefore
  <2>2. clean /\ ~invalidData /\ ~initTask.hadError /\ UNCHANGED <<phase, due, nowSecs>>
    BY <1>5, <2>1, NoErrorBefore
  <2>3. /\ due <= BOGUS_CREDIT_LOWER_LIMIT_SECS
        /\ phase = "off" => SavedDue
        /\ phase = "loading" => DueWhenLoading
    BY <2>2 DEF RestartInv
  <2>4. CASE LifeSavingIo
    <3>1. /\ \E s \in SaveSlots : IsSave(s)
          /\ UNCHANGED <<expiryTime, reads>>
      BY <2>4
      DEF LifeSavingIo, EndFileOperation, FileSaved, lifeVars, loadVars, creditVars
    <3>2. phase = "loading" /\ reads["expirySeconds"].step = "called"
      <4>1. phase = "loading"
        BY <1>0, <2>2, <3>1, NoSavesBefore
      <4>2. reads["expiryTime"].step = "none"
        BY <2>3, <4>1 DEF DueWhenLoading
      <4> QED BY <3>1, <4>1, <4>2 DEF BeforeRunning, ExpiryFiles
    <3>3. Credit' = Credit
      BY <2>2, <3>1 DEF Credit
    <3> QED BY <2>2, <2>3, <3>1, <3>2, <3>3 DEF DueWhenLoading
  <2>5. CASE Loading
    <3>1. phase = "loading"
      <4>1. CASE phase = "off"
        <5>1. /\ \A f \in LoadFiles : reads[f].step = "none"
              /\ \A f \in StateFiles : deletes[f] = "none"
          BY <1>0, <4>1 DEF LoadInv, NothingWhenOff, NoReads, NotRead, NoDeletes
        <5> QED
          BY <2>1, <2>5, <5>1
          DEF Loading, EndRead, LoadRefused, KeyOrAccountLoaded, Loaded, CorruptLoaded, EndDelete,
              FileDeleted, ClockTimeLoaded, UsedCodesLoaded, ExpiryTimeLoaded,
              ExpirySecondsLoaded, LoadFiles, StateFiles, Files
      <4> QED BY <2>2, <4>1
    <3> QED BY <2>1, <2>2, <2>3, <2>5, <3>1, LoadingDueStep
  <2> QED BY <1>5, <2>4, <2>5
<1>6. ~LifeHandlers /\ ~Crash /\ \A delta \in JumpDeltas : ~LifeClockJump(delta)
  BY DEF LifeHandlers, Crash, LifeClockJump
<1> QED BY <1>1, <1>2, <1>3, <1>4, <1>5, <1>6 DEF LifeNext

(* A load that has succeeded has read the credit. *)
LEMMA LoadedInTheEnd ==
  ASSUME LifeInv, RestartInv, phase = "loading", HasReturned(initTask), ~initTask.hadError,
         clean
  PROVE  Credit = due
<1>0. LoadInv /\ LoadType /\ LoadOrder /\ CountInv
  BY DEF LifeInv, LoadInv
<1>1. Outstanding = 0 /\ ~invalidData
  BY <1>0, OutstandingType DEF HasReturned, CountInv
<1>2. DueWhenLoading
  BY <1>1 DEF RestartInv
<1>3. \A f \in LoadFiles : reads[f].step \in {"none", "called"}
  <2> SUFFICES ASSUME NEW f \in LoadFiles, reads[f].step \in {"io", "ended"} PROVE FALSE
    BY <1>0 DEF LoadType, ReadsType, ReadStates
  <2> QED BY <1>1, ReadOutstanding
<1>4. reads["clockTime"].step = "called"
  BY <1>0, <1>3 DEF LoadOrder, FirstFiles, LoadFiles
<1>5. \E f \in ExpiryFiles : reads[f].step = "called"
  BY <1>0, <1>3, <1>4 DEF LoadOrder, ExpiryFiles, LoadFiles
<1> QED BY <1>2, <1>5 DEF DueWhenLoading, ExpiryFiles

(* A successful shutdown, any time that the computer is off and the next   *)
(* load give back exactly the credit that was left, less the time that has *)
(* passed, in whatever order the files are read, however the wall clock    *)
(* was set before the last save, whichever saves overlapped before and     *)
(* whatever crashes and failed loads came first.  What is assumed is that  *)
(* no timer fails and that the credit is not one that a load may take to   *)
(* be bogus.                                                               *)
THEOREM CreditIsKept ==
  ASSUME "err" \notin TimerResults,
         MaxBoottime + BOGUS_CREDIT_LOWER_LIMIT_SECS <= G_MAXUINT64
  PROVE  LifeSpec /\ []CreditIsPlausible => []CreditSurvivesRestart
<1> DEFINE Inv == BeforeRunning /\ LifeCreditInv /\ RestartInv
<1>1. LifeInit => Inv
  <2> SUFFICES ASSUME LifeInit PROVE Inv
    OBVIOUS
  <2>1. BeforeRunning
    BY Zenon DEF LifeInit, BeforeRunning, IsSave, NoDeletes, StateFiles
  <2>2. LifeCreditInv
    BY DEF LifeInit, LifeCreditInv, RivalsInv, LastCreditInv, IsSave
  <2>3. RestartInv
    BY Zenon DEF LifeInit, RestartInv
  <2> QED BY <2>1, <2>2, <2>3
<1>2. LifeInv /\ LifeInv' /\ CreditIsPlausible /\ Inv /\ [LifeNext]_allVars => Inv'
  BY BeforeRunningStep, LifeCreditStep, RestartStep
<1>3. LifeInv /\ Inv => CreditSurvivesRestart
  BY LoadedInTheEnd DEF CreditSurvivesRestart, Credit
<1> QED BY <1>1, <1>2, <1>3, LifeInvariant, PTL DEF LifeSpec
=============================================================================
