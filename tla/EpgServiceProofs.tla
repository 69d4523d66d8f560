-------------------------- MODULE EpgServiceProofs --------------------------
(***************************************************************************)
(* Theorems about EpgService: the detection of clock jumps that it         *)
(* composes, and the choice of the provider for any set of plugins,        *)
(* whichever of them fail to start or to stop, and in whatever order they  *)
(* answer.                                                                 *)
(***************************************************************************)
EXTENDS EpgService, FiniteSetTheorems, WellFoundedInduction, TLAPS

(***************************************************************************)
(* The detection of clock jumps, for any number of ticks in a second, any  *)
(* jumps and any delays between the readings of the clocks.                *)
(***************************************************************************)
Started == step \notin {"off", "startBoot"}

(* The timerfd exists only while the main loop runs. *)
SourceInLoop ==
  /\ source # "none" => step \in {"loop", "jumpReal", "jumpBoot", "rtc"}
  /\ step \in {"jumpReal", "jumpBoot"} => source = "armed"
  /\ ready => source = "armed"

(* The difference of the seconds that were last read is less than a second *)
(* off that of the clocks less the time between their readings, and so it  *)
(* was at the start, from which the deltas were added up.                  *)
DifferencesAreClose ==
  /\ step = "startBoot" => realV0 = Secs(readReal) /\ reported = 0
  /\ step = "off" => reported = 0
  /\ Started =>
       /\ -UNIT < (realV0 - bootV0) * UNIT - (seen - skew)
       /\ (realV0 - bootV0) * UNIT - (seen - skew) < UNIT
       /\ -UNIT < (realV0 - bootV0 - reported) * UNIT - (first - firstSkew)
       /\ (realV0 - bootV0 - reported) * UNIT - (first - firstSkew) < UNIT

JumpIsKnown ==
  source = "armed" /\ step # "jumpReal" /\ Unwatched => ready \/ missed

IInv ==
  /\ JumpTypeOK
  /\ SourceInLoop
  /\ DifferencesAreClose
  /\ JumpIsKnown
-----------------------------------------------------------------------------
LEMMA UnitType == UNIT \in Nat /\ UNIT > 0 /\ -UNIT \in Int
BY HwclockAssumption

(* What is cut off when ticks are made seconds. *)
LEMMA SecsBound ==
  ASSUME NEW t \in Int
  PROVE  Secs(t) \in Int /\ Secs(t) * UNIT <= t /\ t < Secs(t) * UNIT + UNIT
BY UnitType, SMT DEF Secs

(* The seconds of two clocks that are read are apart as the clocks are, to *)
(* less than a second.                                                     *)
LEMMA SecsApart ==
  ASSUME NEW real \in Int, NEW boot \in Int
  PROVE  /\ -UNIT < (Secs(real) - Secs(boot)) * UNIT - (real - boot)
         /\ (Secs(real) - Secs(boot)) * UNIT - (real - boot) < UNIT
<1>1. /\ Secs(real) \in Int /\ Secs(real) * UNIT <= real /\ real < Secs(real) * UNIT + UNIT
      /\ Secs(boot) \in Int /\ Secs(boot) * UNIT <= boot /\ boot < Secs(boot) * UNIT + UNIT
  BY SecsBound
<1> DEFINE a == Secs(real)
           b == Secs(boot)
<1> HIDE DEF a, b
<1>2. a \in Int /\ b \in Int /\ a * UNIT \in Int /\ b * UNIT \in Int
  BY <1>1, UnitType DEF a, b
<1>3. (a - b) * UNIT = a * UNIT - b * UNIT
  BY <1>2, UnitType, SMT
<1>4. a * UNIT <= real /\ real < a * UNIT + UNIT /\ b * UNIT <= boot /\ boot < b * UNIT + UNIT
  BY <1>1 DEF a, b
<1>5. /\ -UNIT < (a * UNIT - b * UNIT) - (real - boot)
      /\ (a * UNIT - b * UNIT) - (real - boot) < UNIT
  BY <1>2, <1>4, UnitType, SMT
<1> QED BY <1>3, <1>5 DEF a, b

LEMMA InitIInv == InitClocks => IInv
<1> SUFFICES ASSUME InitClocks
             PROVE  IInv
  OBVIOUS
<1>1. JumpTypeOK
  <2>1. PICK opened \in BOOLEAN, readable \in BOOLEAN : HwclockInit(opened, readable, rtc, offset)
    BY DEF InitClocks
  <2>2. /\ rtcFd \in BOOLEAN /\ queued = FALSE /\ idleUpdates = FALSE
        /\ nowTm = 0 /\ nowAt = 0 /\ rtcLag = 0 /\ failures = 0
    BY <2>1 DEF HwclockInit
  <2>3. periodic \in BOOLEAN
    BY <2>1, Zenon DEF HwclockInit
  <2>4. offset \in Int /\ rtc \in Int /\ offset >= 0
    BY ClockJumpAssumption DEF InitClocks
  <2>5. boottime = 0 /\ boottime \in 0 .. MaxBoottime /\ jumps \in 0 .. MaxJumps
        /\ failures \in 0 .. MaxFailures
    BY <2>2, ClockJumpAssumption, HwclockAssumption DEF InitClocks
  <2>6. {realV0, bootV0, readReal, readAt, reported, seen, skew, first, firstSkew} \subseteq Int
    BY DEF InitClocks
  <2>7. boottime + offset >= 0
    BY <2>4, <2>5
  <2>8. {nowTm, nowAt, rtc, rtcLag} \subseteq Int /\ failures \in 0 .. MaxFailures
    BY <2>2, <2>4, <2>5
  <2>9. step = "off" /\ source = "none" /\ ready = FALSE /\ missed = FALSE
    BY DEF InitClocks
  <2> QED BY <2>2, <2>3, <2>4, <2>5, <2>6, <2>7, <2>8, <2>9 DEF JumpTypeOK
<1>2. SourceInLoop /\ DifferencesAreClose /\ JumpIsKnown
  BY DEF InitClocks, SourceInLoop, DifferencesAreClose, JumpIsKnown, Started
<1> QED BY <1>1, <1>2 DEF IInv

LEMMA TypeStep ==
  ASSUME JumpTypeOK, [JumpNext]_jumpVars
  PROVE  JumpTypeOK'
<1> USE ClockJumpAssumption, HwclockAssumption
<1> USE DEF JumpTypeOK, clockVars, detectionVars, observedVars, hwclockVars, jumpVars
<1>0. /\ boottime \in Int /\ offset \in Int
      /\ Secs(boottime) \in Int /\ Secs(boottime + offset) \in Int /\ Secs(readReal) \in Int
  BY SecsBound
<1>1. ASSUME TimePasses
      PROVE  JumpTypeOK'
  BY <1>1 DEF TimePasses
<1>2. ASSUME NEW delta \in Jumps, ClockSet(delta)
      PROVE  JumpTypeOK'
  BY <1>2 DEF ClockSet, Cancelled
<1>3. ASSUME NEW ticks \in SuspendTicks, Resume(ticks)
      PROVE  JumpTypeOK'
  BY <1>3 DEF Resume, Cancelled
<1>4. ASSUME StartDetection
      PROVE  JumpTypeOK'
  BY <1>0, <1>4 DEF StartDetection
<1>5. ASSUME StartReadsBoottime
      PROVE  JumpTypeOK'
  BY <1>0, <1>5 DEF StartReadsBoottime
<1>6. ASSUME NewSource
      PROVE  JumpTypeOK'
  BY <1>6 DEF NewSource, Unwatched
<1>7. ASSUME Dispatch
      PROVE  JumpTypeOK'
  BY <1>7 DEF Dispatch
<1>8. ASSUME JumpReadsRealtime
      PROVE  JumpTypeOK'
  <2>1. readReal' \in Int /\ readAt' \in Int
    BY <1>0, <1>8 DEF JumpReadsRealtime
  <2> QED BY <1>8, <2>1 DEF JumpReadsRealtime
<1>9. ASSUME JumpReadsBoottime
      PROVE  JumpTypeOK'
  BY <1>0, <1>9 DEF JumpReadsBoottime, ClockJumpDelta, NextV0, QueuesAfter, QueueUpdate,
                    ReadyAfterCallback
<1>10. ASSUME HwclockUpdate
       PROVE  JumpTypeOK'
  BY <1>0, <1>10 DEF HwclockUpdate, ReadsNow
<1>11. ASSUME HwclockWrite
       PROVE  JumpTypeOK'
  <2>1. rtc' \in Int /\ rtcLag' \in Int /\ failures' \in 0 .. MaxFailures
    <3>1. nowTm * UNIT - boottime \in Int /\ boottime - nowAt \in Int
      BY <1>0
    <3> QED BY <1>11, <3>1 DEF HwclockWrite, WritesRtc
  <2> QED BY <1>11, <2>1 DEF HwclockWrite, WritesRtc
<1>12. ASSUME SourceHwclockUpdate
       PROVE  JumpTypeOK'
  BY <1>12 DEF SourceHwclockUpdate, PeriodicUpdate, QueueUpdate
<1>13. ASSUME UNCHANGED jumpVars
       PROVE  JumpTypeOK'
  BY <1>13
<1> QED BY <1>1, <1>2, <1>3, <1>4, <1>5, <1>6, <1>7, <1>8, <1>9, <1>10, <1>11, <1>12, <1>13
        DEF JumpNext, Clocks, CallbackSteps, Sources

LEMMA WatchStep ==
  ASSUME IInv, [JumpNext]_jumpVars
  PROVE  SourceInLoop' /\ JumpIsKnown'
<1> USE DEF SourceInLoop, JumpIsKnown, Unwatched, IInv, JumpTypeOK,
            clockVars, detectionVars, observedVars, hwclockVars, jumpVars
<1>1. CASE TimePasses
  BY <1>1 DEF TimePasses
<1>2. ASSUME NEW delta \in Jumps, ClockSet(delta)
      PROVE  SourceInLoop' /\ JumpIsKnown'
  BY <1>2 DEF ClockSet, Cancelled
<1>3. ASSUME NEW ticks \in SuspendTicks, Resume(ticks)
      PROVE  SourceInLoop' /\ JumpIsKnown'
  BY <1>3 DEF Resume, Cancelled
<1>4. CASE StartDetection
  BY <1>4 DEF StartDetection
<1>5. CASE StartReadsBoottime
  BY <1>5 DEF StartReadsBoottime
<1>6. CASE NewSource
  BY <1>6 DEF NewSource
<1>7. CASE Dispatch
  BY <1>7 DEF Dispatch
<1>8. CASE JumpReadsRealtime
  <2>1. readReal' - readAt' = offset'
    BY <1>8 DEF JumpReadsRealtime
  <2> QED BY <1>8, <2>1 DEF JumpReadsRealtime
<1>9. CASE JumpReadsBoottime
  BY <1>9 DEF JumpReadsBoottime, ReadyAfterCallback
<1>10. CASE HwclockUpdate
  BY <1>10 DEF HwclockUpdate
<1>11. CASE HwclockWrite
  BY <1>11 DEF HwclockWrite
<1>12. CASE SourceHwclockUpdate
  BY <1>12 DEF SourceHwclockUpdate
<1>13. CASE UNCHANGED jumpVars
  BY <1>13
<1> QED BY <1>1, <1>2, <1>3, <1>4, <1>5, <1>6, <1>7, <1>8, <1>9, <1>10, <1>11, <1>12, <1>13
        DEF JumpNext, Clocks, CallbackSteps, Sources

LEMMA DifferencesStep ==
  ASSUME IInv, [JumpNext]_jumpVars
  PROVE  DifferencesAreClose'
<1>0. /\ {boottime, offset, realV0, bootV0, readReal, readAt} \subseteq Int
      /\ {reported, seen, skew, first, firstSkew} \subseteq Int
      /\ DifferencesAreClose /\ SourceInLoop
  BY ClockJumpAssumption DEF IInv, JumpTypeOK
<1>1. CASE /\ UNCHANGED <<realV0, bootV0, reported, seen, skew, first, firstSkew, readReal>>
           /\ step' = step \/ (Started /\ Started')
  BY <1>0, <1>1 DEF DifferencesAreClose, Started
<1>2. CASE StartDetection
  BY <1>0, <1>2 DEF StartDetection, DifferencesAreClose, Started, observedVars
<1>3. CASE StartReadsBoottime
  <2>1. /\ step = "startBoot" /\ step' = "newSource" /\ realV0' = realV0 /\ reported' = reported
        /\ bootV0' = Secs(boottime)
        /\ seen' - skew' = readReal - boottime /\ first' - firstSkew' = readReal - boottime
    BY <1>0, <1>3 DEF StartReadsBoottime
  <2>2. realV0 = Secs(readReal) /\ reported = 0
    BY <1>0, <2>1 DEF DifferencesAreClose
  <2>3. /\ -UNIT < (Secs(readReal) - Secs(boottime)) * UNIT - (readReal - boottime)
        /\ (Secs(readReal) - Secs(boottime)) * UNIT - (readReal - boottime) < UNIT
        /\ Secs(readReal) \in Int /\ Secs(boottime) \in Int
    BY <1>0, SecsApart, SecsBound
  <2>4. realV0' - bootV0' - reported' = Secs(readReal) - Secs(boottime)
    BY <2>1, <2>2, <2>3
  <2> QED BY <2>1, <2>2, <2>3, <2>4 DEF DifferencesAreClose, Started
<1>4. CASE JumpReadsRealtime
  BY <1>0, <1>4 DEF JumpReadsRealtime, DifferencesAreClose, Started
<1>5. CASE JumpReadsBoottime
  <2> DEFINE realV1 == Secs(readReal)
             bootV1 == Secs(boottime)
  <2>1. /\ step = "jumpBoot" /\ step' = "loop" /\ first' = first /\ firstSkew' = firstSkew
        /\ realV0' = realV1 /\ bootV0' = bootV1 /\ seen' - skew' = readReal - boottime
        /\ reported' = reported + ((realV1 - realV0) - (bootV1 - bootV0))
    BY <1>0, <1>5 DEF JumpReadsBoottime, NextV0, ClockJumpDelta
  <2>2. /\ -UNIT < (realV1 - bootV1) * UNIT - (readReal - boottime)
        /\ (realV1 - bootV1) * UNIT - (readReal - boottime) < UNIT
        /\ realV1 \in Int /\ bootV1 \in Int
    BY <1>0, SecsApart, SecsBound
  <2> HIDE DEF realV1, bootV1
  <2>3. realV0' - bootV0' - reported' = realV0 - bootV0 - reported
    BY <1>0, <2>1, <2>2
  <2>4. /\ -UNIT < (realV0 - bootV0 - reported) * UNIT - (first - firstSkew)
        /\ (realV0 - bootV0 - reported) * UNIT - (first - firstSkew) < UNIT
    BY <1>0, <2>1 DEF DifferencesAreClose, Started
  <2> QED BY <2>1, <2>2, <2>3, <2>4 DEF DifferencesAreClose, Started
<1>6. CASE TimePasses \/ (\E delta \in Jumps : ClockSet(delta))
           \/ (\E ticks \in SuspendTicks : Resume(ticks))
  BY <1>1, <1>6 DEF TimePasses, ClockSet, Resume, detectionVars, observedVars
<1>7. CASE NewSource \/ Dispatch
  BY <1>1, <1>7 DEF NewSource, Dispatch, observedVars, Started
<1>8. CASE HwclockUpdate \/ HwclockWrite \/ SourceHwclockUpdate
  BY <1>1, <1>8 DEF HwclockUpdate, HwclockWrite, SourceHwclockUpdate, observedVars,
                    detectionVars, Started
<1>9. CASE UNCHANGED jumpVars
  BY <1>1, <1>9 DEF jumpVars, detectionVars, observedVars
<1> QED BY <1>2, <1>3, <1>4, <1>5, <1>6, <1>7, <1>8, <1>9
        DEF JumpNext, Clocks, CallbackSteps, Sources

LEMMA NextIInv == IInv /\ [JumpNext]_jumpVars => IInv'
BY TypeStep, WatchStep, DifferencesStep DEF IInv

THEOREM JumpTypeCorrect == JumpSpec => []JumpTypeOK
<1>1. IInv => JumpTypeOK
  BY DEF IInv
<1> QED BY <1>1, InitIInv, NextIInv, PTL DEF JumpSpec

(* However many ticks a second has, and however long a computer is         *)
(* suspended between the two readings of a comparison, the provider's sum  *)
(* of deltas is off by the two delays of the last and of the first         *)
(* comparison and by less than two seconds: each comparison is off by its  *)
(* own delay and less than one second, and the sum of the deltas is the    *)
(* difference of the last and the first.                                   *)
THEOREM ErrorsStayBounded == JumpSpec => []ErrorsDoNotAdd
<1>1. IInv => ErrorsDoNotAdd
  <2> DEFINE d == realV0 - bootV0
             now == seen - skew
             start == first - firstSkew
             error == reported * UNIT - (seen - first)
             delay == firstSkew - skew
  <2> SUFFICES ASSUME IInv, source # "none"
               PROVE  delay - 2 * UNIT < error /\ error < delay + 2 * UNIT
    BY DEF ErrorsDoNotAdd
  <2>0. /\ realV0 \in Int /\ bootV0 \in Int /\ reported \in Int
        /\ seen \in Int /\ first \in Int /\ skew \in Int /\ firstSkew \in Int
    BY DEF IInv, JumpTypeOK
  <2>1. /\ -UNIT < d * UNIT - now /\ d * UNIT - now < UNIT
        /\ -UNIT < (d - reported) * UNIT - start /\ (d - reported) * UNIT - start < UNIT
    BY DEF IInv, SourceInLoop, DifferencesAreClose, Started
  <2>2. d \in Int /\ now \in Int /\ start \in Int
    BY <2>0
  <2>3. error - delay = reported * UNIT - (now - start) /\ error \in Int /\ delay \in Int
    BY <2>0, UnitType
  <2> HIDE DEF d, now, start, error, delay
  <2>4. (d - reported) * UNIT = d * UNIT - reported * UNIT
    BY <2>0, <2>2, UnitType, SMT
  <2>5. d * UNIT \in Int /\ reported * UNIT \in Int
    BY <2>0, <2>2, UnitType
  <2>6. -2 * UNIT < error - delay /\ error - delay < 2 * UNIT
    BY <2>1, <2>2, <2>3, <2>4, <2>5, UnitType, SMT
  <2> QED BY <2>3, <2>6, UnitType, SMT
<1> QED BY <1>1, InitIInv, NextIInv, PTL DEF JumpSpec

(* A jump in whatever step of the main loop leaves the timerfd ready, or   *)
(* is in the reading that is under way.                                    *)
THEOREM JumpsAreNotLost == JumpSpec => []NoJumpIsLost
<1>1. IInv => NoJumpIsLost
  BY DEF IInv, JumpIsKnown, NoJumpIsLost
<1> QED BY <1>1, InitIInv, NextIInv, PTL DEF JumpSpec

-----------------------------------------------------------------------------
(***************************************************************************)
(* The choice of the provider.                                             *)
(***************************************************************************)

AllLoaded == {loaded[i] : i \in 1 .. Len(loaded)}

(* What is left of a plugin that was not chosen. *)
NotInUse == {"absent", "stopped"} \cup IF cancelled THEN {"dropped"} ELSE {}

(* Each task counts the plugins that have not answered, so that it returns *)
(* when they all have.                                                     *)
LoadCountsPlugins ==
  loader = "loading" =>
    /\ loadTask = [pending |-> Cardinality(InstancesIn("initing")), hadError |-> FALSE]
    /\ \A p \in Providers : instances[p] \in {"absent", "initing", "running"}
    /\ InstancesIn("running") = AllLoaded
    /\ enabled \subseteq AllLoaded

ShutdownCountsOthers ==
  loader = "stopping" =>
    /\ shutdownTask = [pending |-> Cardinality(InstancesIn("stopping")), hadError |-> FALSE]
    /\ \A p \in Providers :
         instances[p] \in IF p = chosen THEN {"running"} ELSE {"absent", "stopping", "stopped"}
    /\ chosen = NoProvider => passedOver = {}

LoaderReturns ==
  /\ loader \in {"idle", "returned"} =>
       \A p \in Providers : instances[p] \notin {"initing", "stopping"}
  /\ loader = "returned" /\ Loading =>
       /\ \A p \in Providers : instances[p] \in IF p = result THEN {"running"} ELSE NotInUse
       /\ result = NoProvider => cancelled \/ passedOver = {}

(* The loader works for the two phases that load, and these, like all      *)
(* before the choice, have no provider.                                    *)
PhaseInv ==
  /\ phase = "secureInit" => loader = "idle" /\ \A p \in Providers : instances[p] = "absent"
  /\ Loading => loader # "idle"
  /\ phase # "secureInit" /\ ~Loading => loader = "returned"
  /\ phase = "secureInit" \/ Loading \/ phase = "managerInit" => provider = NoProvider
  /\ phase = "managerInit" => ~activeEfivar /\ (cancelled \/ passedOver = {})
  /\ holds = IF holding THEN 1 ELSE 0

ChoiceInv ==
  /\ LoaderTypeOK
  /\ LoadCountsPlugins
  /\ ShutdownCountsOthers
  /\ LoaderReturns
  /\ PhaseInv
  /\ OneProviderRuns
  /\ ManagerIsLastResort

ServiceInv == ServiceTypeOK /\ ChoiceInv
-----------------------------------------------------------------------------
(* The first enabled provider is one that was loaded. *)
LEMMA SmallestIndex ==
  ASSUME NEW S, S \subseteq Nat, S # {}
  PROVE  \E i \in S : \A j \in S : i <= j
<1>1. PICK i \in S : \A j \in S : ~(<<j, i>> \in OpToRel(<, Nat))
  BY NatLessThanWellFounded, WFMin
<1>2. \A j \in S : <<j, i>> \in OpToRel(<, Nat) <=> j < i
  BY <1>1 DEF OpToRel
<1>3. \A j \in S : ~(j < i)
  BY <1>1, <1>2, Zenon
<1> QED BY <1>3

LEMMA FirstEnabledType ==
  ASSUME LoaderTypeOK
  PROVE  /\ AllLoaded \subseteq Providers
         /\ FirstEnabled \in AllLoaded \cup {NoProvider}
         /\ FirstEnabled = NoProvider => AllLoaded \cap enabled = {}
<1>1. loaded \in Seq(Providers)
  BY DEF LoaderTypeOK
<1>2. AllLoaded \subseteq Providers
  BY <1>1 DEF AllLoaded
<1>3. CASE EnabledIndices = {}
  BY <1>2, <1>3 DEF FirstEnabled, EnabledIndices, AllLoaded
<1>4. CASE EnabledIndices # {}
  <2>1. EnabledIndices \subseteq Nat /\ EnabledIndices \subseteq 1 .. Len(loaded)
    BY <1>1 DEF EnabledIndices
  <2>2. \E i \in EnabledIndices : \A j \in EnabledIndices : i <= j
    BY <1>4, <2>1, SmallestIndex
  <2> DEFINE first_i == CHOOSE i \in EnabledIndices : \A j \in EnabledIndices : i <= j
  <2>3. first_i \in EnabledIndices
    BY <2>2
  <2>4. FirstEnabled = loaded[first_i]
    BY <1>4 DEF FirstEnabled
  <2> HIDE DEF first_i
  <2>5. FirstEnabled \in AllLoaded
    BY <2>1, <2>3, <2>4 DEF AllLoaded
  <2> QED BY <1>2, <2>5, ProviderLoaderAssumption
<1> QED BY <1>2, <1>3, <1>4

LEMMA InstancesAreFinite ==
  ASSUME NEW state
  PROVE  /\ IsFiniteSet(InstancesIn(state))
         /\ Cardinality(InstancesIn(state)) \in Nat
         /\ Cardinality(InstancesIn(state)) = 0 => InstancesIn(state) = {}
<1>1. InstancesIn(state) \in SUBSET Providers
  BY DEF InstancesIn
<1> QED BY <1>1, ProviderLoaderAssumption, FS_Subset, FS_CardinalityType, FS_EmptySet

(* A plugin that answers is one less to wait for. *)
LEMMA OneAnswers ==
  ASSUME NEW state, NEW next, next # state, NEW p \in Providers,
         instances \in [Providers -> {"absent", "initing", "running", "stopping", "saving",
                                      "stopped", "dropped"}],
         instances[p] = state,
         instances' = [instances EXCEPT ![p] = next]
  PROVE  /\ Cardinality(InstancesIn(state)) \in Nat \ {0}
         /\ Cardinality(InstancesIn(state)') = Cardinality(InstancesIn(state)) - 1
<1>1. InstancesIn(state)' = InstancesIn(state) \ {p} /\ p \in InstancesIn(state)
  BY DEF InstancesIn
<1>2. /\ IsFiniteSet(InstancesIn(state)) /\ Cardinality(InstancesIn(state)) \in Nat
      /\ Cardinality(InstancesIn(state)) # 0
  BY <1>1, InstancesAreFinite
<1>3. Cardinality(InstancesIn(state) \ {p}) = Cardinality(InstancesIn(state)) - 1
  BY <1>1, <1>2, FS_RemoveElement
<1> QED BY <1>1, <1>2, <1>3

(* The tasks as they start. *)
LEMMA NewTask ==
  ASSUME NEW n \in Nat
  PROVE  ReturnBoolean(Attach(n + 1)) = [pending |-> n, hadError |-> FALSE]
BY DEF ReturnBoolean, Attach

LEMMA InitServiceInv == ServiceInit => ServiceInv
<1> SUFFICES ASSUME ServiceInit
             PROVE  ServiceInv
  OBVIOUS
<1>1. JumpTypeOK
  BY InitIInv DEF ServiceInit, IInv
<1>2. LoaderTypeOK
  <2>1. Attach(0) \in MultiTasks
    BY DEF Attach, MultiTasks
  <2>2. loader = "idle" /\ instances = [p \in Providers |-> "absent"]
    BY DEF ServiceInit, LoaderInit
  <2>3. enabled = {} /\ loaded = <<>> /\ passedOver = {} /\ cancelled = FALSE
    BY DEF ServiceInit, LoaderInit
  <2>4. /\ loadTask = Attach(0) /\ shutdownTask = Attach(0)
        /\ chosen = NoProvider /\ result = NoProvider
    BY DEF ServiceInit, LoaderInit
  <2>5. /\ instances \in [Providers -> {"absent", "initing", "running", "stopping", "saving",
                                      "stopped", "dropped"}]
        /\ loaded \in Seq(Providers)
    BY <2>2, <2>3
  <2>6. cancelled \in BOOLEAN /\ enabled \subseteq Providers /\ passedOver \subseteq Providers
    BY <2>3
  <2>7. loader \in {"idle", "loading", "stopping", "returned"}
    BY <2>2
  <2> QED BY <2>1, <2>4, <2>5, <2>6, <2>7, Zenon DEF LoaderTypeOK
<1>3. ServiceTypeOK
  <2>1. phase = "secureInit" /\ provider = NoProvider /\ holds = 0
    BY DEF ServiceInit
  <2>2. activeEfivar \in BOOLEAN /\ managerEnabled \in BOOLEAN /\ holding \in BOOLEAN
    BY DEF ServiceInit
  <2>3. holds \in 0 .. 1 /\ provider \in Providers \cup {EpgManager, NoProvider}
    BY <2>1
  <2> QED BY <1>1, <1>2, <2>1, <2>2, <2>3, Zenon DEF ServiceTypeOK
<1>4. /\ LoadCountsPlugins /\ ShutdownCountsOthers /\ LoaderReturns /\ PhaseInv
      /\ OneProviderRuns /\ ManagerIsLastResort
  BY EpgServiceAssumption, ProviderLoaderAssumption
     DEF ServiceInit, LoaderInit, LoadCountsPlugins, ShutdownCountsOthers, LoaderReturns,
         PhaseInv, OneProviderRuns, ManagerIsLastResort, Loading
<1> QED BY <1>2, <1>3, <1>4 DEF ServiceInv, ChoiceInv
-----------------------------------------------------------------------------
(* The steps of the loader. *)

LEMMA LoadStarts ==
  ASSUME ServiceInv, NEW plugins \in SUBSET Providers, LoadAsync(plugins),
         phase \in {"secureInit", "secured"}, provider = NoProvider,
         phase' \in {"secureLoading", "startupLoading"},
         UNCHANGED <<provider, activeEfivar, managerEnabled, holding, holds>>
  PROVE  ChoiceInv'
<1> USE DEF ServiceInv, ChoiceInv, LoadAsync
<1>1. /\ IsFiniteSet(plugins) /\ Cardinality(plugins) \in Nat
  BY ProviderLoaderAssumption, FS_Subset, FS_CardinalityType
<1>2. loadTask' = [pending |-> Cardinality(plugins), hadError |-> FALSE]
  BY <1>1, NewTask DEF NewLoadTask
<1>3. LoaderTypeOK'
  BY <1>1, <1>2 DEF LoaderTypeOK, MultiTasks
<1>4. InstancesIn("initing")' = plugins /\ InstancesIn("running")' = {} /\ AllLoaded' = {}
  BY DEF InstancesIn, AllLoaded
<1>5. LoadCountsPlugins'
  BY <1>2, <1>4 DEF LoadCountsPlugins
<1>6. ShutdownCountsOthers' /\ LoaderReturns'
  BY DEF ShutdownCountsOthers, LoaderReturns
<1>7. PhaseInv'
  BY DEF PhaseInv, Loading
<1>8. OneProviderRuns' /\ ManagerIsLastResort'
  BY EpgServiceAssumption, ProviderLoaderAssumption
     DEF OneProviderRuns, ManagerIsLastResort, Loading
<1> QED BY <1>3, <1>5, <1>6, <1>7, <1>8

(* The loader works only while a phase loads.  All else is then as the     *)
(* loader finds it.                                                        *)
LEMMA LoaderWorks ==
  ASSUME ServiceInv, UNCHANGED serviceVars, UNCHANGED cancelled,
         loader \in {"loading", "stopping"}, loader' # "idle"
  PROVE  /\ Loading /\ Loading' /\ provider = NoProvider
         /\ PhaseInv' /\ OneProviderRuns' /\ ManagerIsLastResort'
<1>1. Loading /\ phase # "secureInit" /\ phase # "managerInit" /\ provider = NoProvider
  BY DEF ServiceInv, ChoiceInv, PhaseInv, Loading
<1>2. phase' = phase /\ provider' = provider /\ holds' = holds /\ holding' = holding
  BY DEF serviceVars
<1>3. NoProvider \notin Providers /\ EpgManager # NoProvider
  BY EpgServiceAssumption, ProviderLoaderAssumption
<1> QED BY <1>1, <1>2, <1>3
        DEF ServiceInv, ChoiceInv, PhaseInv, OneProviderRuns, ManagerIsLastResort, Loading

LEMMA PluginAnswers ==
  ASSUME ServiceInv, UNCHANGED serviceVars,
         NEW p \in Providers, NEW initResult \in InitResults, NEW isEnabled \in BOOLEAN,
         ProviderInitCb(p, initResult, isEnabled)
  PROVE  ChoiceInv'
<1> USE DEF ServiceInv, ChoiceInv
<1>1. /\ instances[p] = "initing" /\ loader' = loader
      /\ loadTask' = ReturnBoolean(loadTask)
      /\ UNCHANGED <<shutdownTask, chosen, result, cancelled, passedOver>>
  BY DEF ProviderInitCb, MaybeReturn
<1>2. loader = "loading"
  BY <1>1 DEF LoaderReturns, ShutdownCountsOthers, LoaderTypeOK
<1>3. PICK next \in {"running", "absent"} :
        /\ instances' = [instances EXCEPT ![p] = next]
        /\ IF next = "running"
           THEN loaded' = Append(loaded, p) /\ enabled' \subseteq enabled \cup {p}
           ELSE loaded' = loaded /\ enabled' = enabled
  BY DEF ProviderInitCb
<1>4. /\ Cardinality(InstancesIn("initing")) \in Nat \ {0}
      /\ Cardinality(InstancesIn("initing")') = Cardinality(InstancesIn("initing")) - 1
  BY <1>1, <1>3, OneAnswers DEF LoaderTypeOK
<1>5. loadTask' = [pending |-> Cardinality(InstancesIn("initing")'), hadError |-> FALSE]
  <2>1. loadTask.pending = Cardinality(InstancesIn("initing")) /\ loadTask.hadError = FALSE
    BY <1>2 DEF LoadCountsPlugins
  <2>2. loadTask' = [pending |-> Cardinality(InstancesIn("initing")) - 1, hadError |-> FALSE]
    BY <1>1, <2>1, Zenon DEF ReturnBoolean
  <2> QED BY <1>4, <2>2
<1>6. loaded \in Seq(Providers) /\ enabled \subseteq Providers
  BY DEF LoaderTypeOK
<1>7. loaded' \in Seq(Providers) /\ enabled' \subseteq Providers
  BY <1>3, <1>6
<1>8. LoaderTypeOK'
  BY <1>1, <1>2, <1>3, <1>4, <1>5, <1>7 DEF LoaderTypeOK, MultiTasks
<1>9. AllLoaded' = IF next = "running" THEN AllLoaded \cup {p} ELSE AllLoaded
  <2>1. CASE next = "running"
    <3>1. /\ Len(loaded') = Len(loaded) + 1 /\ loaded'[Len(loaded) + 1] = p
          /\ \A i \in 1 .. Len(loaded) : loaded'[i] = loaded[i]
          /\ Len(loaded) \in Nat
      BY <1>3, <1>6, <2>1
    <3>2. 1 .. Len(loaded) + 1 = 1 .. Len(loaded) \cup {Len(loaded) + 1}
      BY <3>1
    <3> QED BY <2>1, <3>1, <3>2 DEF AllLoaded
  <2> QED BY <1>3, <2>1 DEF AllLoaded
<1>10. InstancesIn("running")' =
         IF next = "running" THEN InstancesIn("running") \cup {p} ELSE InstancesIn("running")
  BY <1>1, <1>3 DEF InstancesIn, LoaderTypeOK
<1>11. LoadCountsPlugins'
  BY <1>2, <1>3, <1>5, <1>9, <1>10 DEF LoadCountsPlugins, LoaderTypeOK
<1>12. ShutdownCountsOthers' /\ LoaderReturns'
  BY <1>1, <1>2 DEF ShutdownCountsOthers, LoaderReturns
<1> QED BY <1>1, <1>2, <1>8, <1>11, <1>12, LoaderWorks

LEMMA LoadReturns ==
  ASSUME ServiceInv, UNCHANGED serviceVars, GetFirstEnabledLoadCb
  PROVE  ChoiceInv'
<1> USE DEF ServiceInv, ChoiceInv
<1>1. loader = "loading" /\ cancelled' = cancelled /\ loader' \in {"stopping", "returned"}
  BY DEF GetFirstEnabledLoadCb, LoadFails
<1>2. loadTask.hadError = FALSE /\ Cardinality(InstancesIn("initing")) = 0
  BY <1>1 DEF GetFirstEnabledLoadCb, LoadCountsPlugins, HasReturned
<1>3. InstancesIn("initing") = {}
  BY <1>2, InstancesAreFinite
<1>4. \A p \in Providers : instances[p] = IF p \in AllLoaded THEN "running" ELSE "absent"
  BY <1>1, <1>3 DEF LoadCountsPlugins, InstancesIn
<1>5. CASE cancelled
  <2>1. LoadFails
    BY <1>5 DEF GetFirstEnabledLoadCb
  <2>2. instances' = [p \in Providers |-> IF p \in AllLoaded THEN "dropped" ELSE "absent"]
    BY <1>1, <1>4, <2>1 DEF LoadFails, Dropped, LoadCountsPlugins
  <2>3. LoaderTypeOK'
    BY <2>1, <2>2 DEF LoadFails, LoaderTypeOK
  <2>4. LoadCountsPlugins' /\ ShutdownCountsOthers'
    BY <2>1 DEF LoadFails, LoadCountsPlugins, ShutdownCountsOthers
  <2>5. LoaderReturns'
    BY <1>5, <2>1, <2>2, ProviderLoaderAssumption DEF LoadFails, LoaderReturns, NotInUse
  <2> QED BY <1>1, <2>3, <2>4, <2>5, LoaderWorks
<1>6. CASE ~cancelled
  <2> DEFINE others == OthersLoaded(FirstEnabled)
  <2>1. /\ loader' = "stopping" /\ chosen' = FirstEnabled
        /\ passedOver' = enabled \ {FirstEnabled}
        /\ instances' = [p \in Providers |-> IF p \in others THEN "stopping" ELSE instances[p]]
        /\ shutdownTask' = ReturnBoolean(Attach(Cardinality(others) + 1))
        /\ UNCHANGED <<enabled, loaded, loadTask, result, cancelled>>
    BY <1>2, <1>6 DEF GetFirstEnabledLoadCb
  <2>2. /\ AllLoaded \subseteq Providers
        /\ FirstEnabled \in AllLoaded \cup {NoProvider}
        /\ FirstEnabled = NoProvider => AllLoaded \cap enabled = {}
    BY FirstEnabledType
  <2>3. others = AllLoaded \ {FirstEnabled}
    BY DEF OthersLoaded, AllLoaded
  <2> HIDE DEF others
  <2>4. IsFiniteSet(others) /\ Cardinality(others) \in Nat
    BY <2>2, <2>3, ProviderLoaderAssumption, FS_Subset, FS_CardinalityType
  <2>5. shutdownTask' = [pending |-> Cardinality(others), hadError |-> FALSE]
    BY <2>1, <2>4, NewTask
  <2>6. LoaderTypeOK'
    <3>1. shutdownTask' \in MultiTasks
      BY <2>4, <2>5 DEF MultiTasks
    <3>2. instances' \in [Providers -> {"absent", "initing", "running", "stopping", "saving",
                                       "stopped", "dropped"}]
      BY <2>1 DEF LoaderTypeOK
    <3>3. chosen' \in Providers \cup {NoProvider} /\ passedOver' \subseteq Providers
      BY <2>1, <2>2 DEF LoaderTypeOK
    <3> QED BY <2>1, <3>1, <3>2, <3>3 DEF LoaderTypeOK
  <2>7. InstancesIn("stopping")' = others
    BY <1>4, <2>1, <2>2, <2>3 DEF InstancesIn
  <2>8. chosen' = NoProvider => passedOver' = {}
    BY <1>1, <2>1, <2>2 DEF LoadCountsPlugins
  <2>9. \A p \in Providers : instances'[p] \in IF p = chosen' THEN {"running"}
                                               ELSE {"absent", "stopping", "stopped"}
    BY <1>4, <2>1, <2>2, <2>3, ProviderLoaderAssumption
  <2>10. LoadCountsPlugins' /\ ShutdownCountsOthers' /\ LoaderReturns'
    BY <2>1, <2>5, <2>7, <2>8, <2>9
       DEF LoadCountsPlugins, ShutdownCountsOthers, LoaderReturns
  <2> QED BY <1>1, <2>6, <2>10, LoaderWorks
<1> QED BY <1>5, <1>6

LEMMA OtherStops ==
  ASSUME ServiceInv, UNCHANGED serviceVars,
         NEW p \in Providers, NEW shutdownResult \in ShutdownResults,
         ShutdownOneCb(p, shutdownResult)
  PROVE  ChoiceInv'
<1> USE DEF ServiceInv, ChoiceInv
<1>1. /\ instances[p] = "stopping" /\ loader' = loader /\ loader # "idle"
      /\ instances' = [instances EXCEPT ![p] = "stopped"]
      /\ enabled' = enabled \ {p}
      /\ shutdownTask' = ReturnBoolean(shutdownTask)
      /\ UNCHANGED <<loaded, loadTask, chosen, result, cancelled, passedOver>>
  BY DEF ShutdownOneCb, StoppedOne
<1>2. loader = "stopping"
  BY <1>1 DEF LoaderReturns, LoadCountsPlugins, LoaderTypeOK
<1>3. /\ Cardinality(InstancesIn("stopping")) \in Nat \ {0}
      /\ Cardinality(InstancesIn("stopping")') = Cardinality(InstancesIn("stopping")) - 1
  BY <1>1, OneAnswers DEF LoaderTypeOK
<1>4. shutdownTask' = [pending |-> Cardinality(InstancesIn("stopping")'), hadError |-> FALSE]
  <2>1. /\ shutdownTask.pending = Cardinality(InstancesIn("stopping"))
        /\ shutdownTask.hadError = FALSE
    BY <1>2 DEF ShutdownCountsOthers
  <2>2. shutdownTask' = [pending |-> Cardinality(InstancesIn("stopping")) - 1, hadError |-> FALSE]
    BY <1>1, <2>1, Zenon DEF ReturnBoolean
  <2> QED BY <1>3, <2>2
<1>5. shutdownTask' \in MultiTasks
  BY <1>3, <1>4 DEF MultiTasks
<1>6. LoaderTypeOK'
  BY <1>1, <1>5 DEF LoaderTypeOK
<1>7. LoadCountsPlugins' /\ ShutdownCountsOthers' /\ LoaderReturns'
  BY <1>1, <1>2, <1>4
     DEF LoadCountsPlugins, ShutdownCountsOthers, LoaderReturns, LoaderTypeOK
<1> QED BY <1>1, <1>2, <1>6, <1>7, LoaderWorks

LEMMA ChoiceReturns ==
  ASSUME ServiceInv, UNCHANGED serviceVars, GetFirstEnabledShutdownCb
  PROVE  ChoiceInv'
<1> USE DEF ServiceInv, ChoiceInv
<1>1. /\ loader = "stopping" /\ loader' = "returned" /\ loaded' = <<>>
      /\ chosen' = NoProvider
      /\ UNCHANGED <<enabled, loadTask, shutdownTask, cancelled, passedOver>>
  BY DEF GetFirstEnabledShutdownCb
<1>2. shutdownTask.hadError = FALSE /\ Cardinality(InstancesIn("stopping")) = 0
  BY <1>1 DEF GetFirstEnabledShutdownCb, ShutdownCountsOthers, HasReturned
<1>3. InstancesIn("stopping") = {}
  BY <1>2, InstancesAreFinite
<1>4. \A p \in Providers :
        instances[p] \in IF p = chosen THEN {"running"} ELSE {"absent", "stopped"}
  BY <1>1, <1>3 DEF ShutdownCountsOthers, InstancesIn
<1>5. chosen \in Providers \cup {NoProvider}
  BY DEF LoaderTypeOK
<1>6. CASE cancelled
  <2>1. /\ result' = NoProvider
        /\ instances' = [p \in Providers |-> IF p = chosen THEN "dropped" ELSE instances[p]]
    BY <1>6 DEF GetFirstEnabledShutdownCb, Dropped
  <2>2. instances' \in [Providers -> {"absent", "stopped", "dropped"}]
    BY <1>4, <2>1
  <2>3. LoaderTypeOK'
    BY <1>1, <2>1, <2>2 DEF LoaderTypeOK
  <2>4. LoaderReturns'
    BY <1>1, <1>6, <2>1, <2>2, ProviderLoaderAssumption DEF LoaderReturns, NotInUse
  <2> QED BY <1>1, <2>3, <2>4, LoaderWorks DEF LoadCountsPlugins, ShutdownCountsOthers
<1>7. CASE ~cancelled
  <2>1. result' = chosen /\ instances' = instances
    BY <1>7 DEF GetFirstEnabledShutdownCb
  <2>2. LoaderTypeOK'
    BY <1>1, <1>5, <2>1 DEF LoaderTypeOK
  <2>3. LoaderReturns'
    BY <1>1, <1>4, <2>1 DEF LoaderReturns, NotInUse, ShutdownCountsOthers
  <2> QED BY <1>1, <2>2, <2>3, LoaderWorks DEF LoadCountsPlugins, ShutdownCountsOthers
<1> QED BY <1>6, <1>7

LEMMA LoaderStepInv ==
  ASSUME ServiceInv, LoaderStep
  PROVE  ChoiceInv'
BY PluginAnswers, LoadReturns, OtherStops, ChoiceReturns DEF LoaderStep, LoaderCallbacks
-----------------------------------------------------------------------------
(* The steps of the service. *)

(* A provider that is set is the one that the loader returned, or the      *)
(* manager.                                                                *)
LEMMA ProviderIsSet ==
  ASSUME ServiceInv, Loading, loader = "returned", result # NoProvider,
         provider' = result, phase' \in {"secured", "completing"},
         UNCHANGED <<activeEfivar, holding, holds, loaderVars>>
  PROVE  ChoiceInv'
<1> USE DEF ServiceInv, ChoiceInv, loaderVars
<1>1. result \in Providers /\ result # EpgManager
  BY EpgServiceAssumption DEF LoaderTypeOK
<1>2. \A p \in Providers : instances[p] \in IF p = result THEN {"running"} ELSE NotInUse
  BY DEF LoaderReturns
<1>3. OneProviderRuns' /\ ManagerIsLastResort'
  BY <1>1, <1>2 DEF OneProviderRuns, ManagerIsLastResort, NotInUse
<1>4. LoaderTypeOK' /\ LoadCountsPlugins' /\ ShutdownCountsOthers'
  BY DEF LoaderTypeOK, LoadCountsPlugins, ShutdownCountsOthers, InstancesIn, AllLoaded
<1>5. LoaderReturns' /\ PhaseInv'
  BY DEF LoaderReturns, PhaseInv, Loading
<1> QED BY <1>3, <1>4, <1>5

(* Without a provider, a load is over. *)
LEMMA NoProviderIsFound ==
  ASSUME ServiceInv, Loading, loader = "returned", result = NoProvider,
         phase' \in {"secured", "failed", "managerInit"},
         phase' = "managerInit" => ~activeEfivar,
         UNCHANGED <<provider, activeEfivar, holding, holds, loaderVars>>
  PROVE  ChoiceInv'
<1> USE DEF ServiceInv, ChoiceInv, loaderVars
<1>1. provider = NoProvider /\ NoProvider \notin Providers /\ EpgManager # NoProvider
  BY EpgServiceAssumption, ProviderLoaderAssumption DEF PhaseInv
<1>2. /\ \A p \in Providers : instances[p] \in NotInUse
      /\ cancelled \/ passedOver = {}
  BY <1>1 DEF LoaderReturns
<1>3. OneProviderRuns' /\ ManagerIsLastResort'
  BY <1>1, <1>2 DEF OneProviderRuns, ManagerIsLastResort, NotInUse
<1>4. LoaderTypeOK' /\ LoadCountsPlugins' /\ ShutdownCountsOthers'
  BY DEF LoaderTypeOK, LoadCountsPlugins, ShutdownCountsOthers, InstancesIn, AllLoaded
<1>5. LoaderReturns' /\ PhaseInv'
  BY <1>1, <1>2 DEF LoaderReturns, PhaseInv, Loading
<1> QED BY <1>3, <1>4, <1>5

LEMMA ManagerStep ==
  ASSUME ServiceInv, ManagerNewCb
  PROVE  ChoiceInv'
<1> USE DEF ServiceInv, ChoiceInv, loaderVars
<1>1. /\ phase = "managerInit" /\ phase' \in {"failed", "notNeeded", "completing"}
      /\ UNCHANGED <<activeEfivar, holding, holds, loaderVars>>
      /\ \/ provider' = provider
         \/ provider' = EpgManager /\ ~cancelled
  BY DEF ManagerNewCb, SetProvider
<1>2. /\ provider = NoProvider /\ NoProvider \notin Providers
      /\ EpgManager \notin Providers /\ EpgManager # NoProvider
      /\ loader = "returned" /\ ~activeEfivar /\ (cancelled \/ passedOver = {})
  BY <1>1, EpgServiceAssumption, ProviderLoaderAssumption DEF PhaseInv, Loading
<1>3. \A p \in Providers : instances[p] \in NotInUse
  BY <1>1, <1>2 DEF OneProviderRuns, NotInUse, Loading
<1>4. OneProviderRuns' /\ ManagerIsLastResort'
  BY <1>1, <1>2, <1>3 DEF OneProviderRuns, ManagerIsLastResort, NotInUse, Loading
<1>5. LoaderTypeOK' /\ LoadCountsPlugins' /\ ShutdownCountsOthers'
  BY <1>1 DEF LoaderTypeOK, LoadCountsPlugins, ShutdownCountsOthers, InstancesIn, AllLoaded
<1>6. LoaderReturns' /\ PhaseInv'
  BY <1>1, <1>2 DEF LoaderReturns, PhaseInv, Loading
<1> QED BY <1>4, <1>5, <1>6

(* One hold at most, whatever is notified how often. *)
LEMMA IsEnabledType ==
  ASSUME ServiceInv
  PROVE  IsEnabled(provider) \in BOOLEAN
<1>1. CASE provider = EpgManager
  <2>1. IsEnabled(provider) = managerEnabled
    BY <1>1, Zenon DEF IsEnabled
  <2> QED BY <2>1 DEF ServiceInv, ServiceTypeOK
<1>2. CASE provider # EpgManager
  <2>1. IsEnabled(provider) = (provider \in enabled)
    BY <1>2, Zenon DEF IsEnabled
  <2>2. (provider \in enabled) \in BOOLEAN
    OBVIOUS
  <2> QED BY <2>1, <2>2, Zenon
<1> QED BY <1>1, <1>2

LEMMA HoldsAreBalanced ==
  ASSUME ServiceInv, NEW isEnabled \in BOOLEAN, NotifyEnabledCb(isEnabled)
  PROVE  /\ holds' = IF holding' THEN 1 ELSE 0
         /\ holding' \in BOOLEAN
<1>1. holds = (IF holding THEN 1 ELSE 0) /\ holding \in BOOLEAN
  BY DEF ServiceInv, ServiceTypeOK, ChoiceInv, PhaseInv
<1>2. holding' = isEnabled /\ holds' = HoldsAfter(isEnabled)
  BY DEF NotifyEnabledCb
<1>3. CASE isEnabled /\ ~holding
  BY <1>1, <1>2, <1>3 DEF HoldsAfter
<1>4. CASE ~isEnabled /\ holding
  BY <1>1, <1>2, <1>4 DEF HoldsAfter
<1>5. CASE (isEnabled /\ holding) \/ (~isEnabled /\ ~holding)
  BY <1>1, <1>2, <1>5 DEF HoldsAfter
<1> QED BY <1>2, <1>3, <1>4, <1>5

(* The other steps of the service, and those of the clocks, leave the      *)
(* loader alone, or change what it does not look at.                       *)
LEMMA StartupSteps ==
  ASSUME ServiceInv,
         \/ StartupAsync /\ provider # NoProvider
         \/ StartupComplete
         \/ CancelStartup
         \/ ClockStep
         \/ UNCHANGED <<serviceVars, loaderVars>>
  PROVE  ChoiceInv'
<1> USE DEF ServiceInv, ChoiceInv
<1>1. /\ UNCHANGED <<loader, instances, enabled, loaded, loadTask, shutdownTask, chosen, result,
                     passedOver, provider, activeEfivar>>
      /\ \/ phase' = phase
         \/ phase = "secured" /\ phase' = "completing" /\ provider # NoProvider
         \/ phase = "completing" /\ phase' \in {"running", "failed"}
      /\ \/ cancelled' = cancelled
         \/ cancelled' = TRUE /\ phase' = phase /\ phase \in {"startupLoading", "managerInit"}
  BY DEF StartupAsync, StartupComplete, CancelStartup, ClockStep, SourceStep, InMain,
         serviceVars, loaderVars
<1>2. holds' = IF holding' THEN 1 ELSE 0
  <2>1. CASE StartupComplete
    BY <2>1, IsEnabledType, HoldsAreBalanced DEF StartupComplete
  <2>2. CASE UNCHANGED <<holding, holds>>
    BY <2>2 DEF PhaseInv
  <2> QED BY <2>1, <2>2
          DEF StartupAsync, CancelStartup, ClockStep, SourceStep, InMain, serviceVars, loaderVars
<1>3. LoaderTypeOK'
  BY <1>1 DEF LoaderTypeOK
<1>4. LoadCountsPlugins' /\ ShutdownCountsOthers'
  BY <1>1 DEF LoadCountsPlugins, ShutdownCountsOthers, InstancesIn, AllLoaded
<1>5. LoaderReturns' /\ OneProviderRuns'
  BY <1>1 DEF LoaderReturns, OneProviderRuns, NotInUse, Loading
<1>6. ManagerIsLastResort'
  BY <1>1 DEF ManagerIsLastResort
<1>7. PhaseInv'
  BY <1>1, <1>2 DEF PhaseInv, Loading
<1> QED BY <1>3, <1>4, <1>5, <1>6, <1>7

LEMMA NotificationStep ==
  ASSUME ServiceInv, EnabledNotified
  PROVE  ChoiceInv'
<1> USE DEF ServiceInv, ChoiceInv
<1>1. /\ UNCHANGED <<loader, instances, loaded, loadTask, shutdownTask, chosen, result,
                     cancelled, passedOver, phase, provider, activeEfivar>>
      /\ \/ enabled' = enabled
         \/ \E p \in InstancesIn("running") : enabled' \subseteq enabled \cup {p}
  BY DEF EnabledNotified, EnabledChanges, loaderVars, InstancesIn
<1>2. holds' = IF holding' THEN 1 ELSE 0
  <2>1. CASE \E isEnabled \in BOOLEAN : NotifyEnabledCb(isEnabled)
    BY <2>1, HoldsAreBalanced
  <2>2. CASE UNCHANGED <<holding, holds>>
    BY <2>2 DEF PhaseInv
  <2>3. IsEnabled(provider) \in BOOLEAN /\ \A p \in Providers : (p \in enabled') \in BOOLEAN
    BY IsEnabledType
  <2> QED BY <2>1, <2>2, <2>3 DEF EnabledNotified
<1>3. InstancesIn("running") \subseteq Providers
  BY DEF InstancesIn
<1>4. LoaderTypeOK'
  BY <1>1, <1>3 DEF LoaderTypeOK
<1>5. LoadCountsPlugins' /\ ShutdownCountsOthers'
  BY <1>1 DEF LoadCountsPlugins, ShutdownCountsOthers, InstancesIn, AllLoaded
<1>6. LoaderReturns' /\ OneProviderRuns' /\ ManagerIsLastResort'
  BY <1>1 DEF LoaderReturns, OneProviderRuns, ManagerIsLastResort, NotInUse, Loading
<1>7. PhaseInv'
  BY <1>1, <1>2 DEF PhaseInv, Loading
<1> QED BY <1>4, <1>5, <1>6, <1>7

LEMMA ShutdownSteps ==
  ASSUME ServiceInv, Shutdown \/ ShutdownReturns
  PROVE  ChoiceInv'
<1> USE DEF ServiceInv, ChoiceInv
<1>1. /\ UNCHANGED <<loader, enabled, loaded, loadTask, shutdownTask, chosen, result, cancelled,
                     passedOver, provider, activeEfivar, holding, holds>>
      /\ phase \in {"running", "failed", "notNeeded", "stopping"}
      /\ phase' \in {"stopping", "stopped"}
  BY DEF Shutdown, ShutdownReturns
<1>2. PICK next \in {"saving", "stopped"} :
        IF provider \in Providers
        THEN instances' = [instances EXCEPT ![provider] = next]
        ELSE instances' = instances
  BY DEF Shutdown, ShutdownReturns
<1>3. /\ instances' \in [Providers -> {"absent", "initing", "running", "stopping", "saving",
                                       "stopped", "dropped"}]
      /\ \A p \in Providers : instances'[p] \in {instances[p], "saving", "stopped"}
      /\ \A p \in Providers \ {provider} : instances'[p] = instances[p]
  BY <1>2 DEF LoaderTypeOK
<1>5. LoaderTypeOK'
  BY <1>1, <1>3 DEF LoaderTypeOK
<1>6. loader = "returned"
  BY <1>1 DEF PhaseInv, Loading
<1>7. LoadCountsPlugins' /\ ShutdownCountsOthers' /\ LoaderReturns' /\ PhaseInv'
  BY <1>1, <1>3, <1>6
     DEF LoadCountsPlugins, ShutdownCountsOthers, LoaderReturns, PhaseInv, Loading
<1>8. OneProviderRuns'
  BY <1>1, <1>3 DEF OneProviderRuns, NotInUse, Loading
<1>9. ManagerIsLastResort'
  BY <1>1, <1>3, EpgServiceAssumption DEF ManagerIsLastResort
<1> QED BY <1>5, <1>7, <1>8, <1>9

LEMMA ChoiceStep ==
  ASSUME ServiceInv, [ServiceNext]_allVars
  PROVE  ChoiceInv'
<1>1. CASE SecureInit
  <2>1. provider = NoProvider
    BY <1>1 DEF SecureInit, ServiceInv, ChoiceInv, PhaseInv
  <2> QED BY <1>1, <2>1, LoadStarts DEF SecureInit
<1>2. CASE SecureInitReturns
  BY <1>2, ProviderIsSet, NoProviderIsFound DEF SecureInitReturns, SetProvider, Loading
<1>3. CASE StartupAsync
  BY <1>3, LoadStarts, StartupSteps DEF StartupAsync
<1>4. CASE ProviderGetFirstEnabledCb
  BY <1>4, ProviderIsSet, NoProviderIsFound
     DEF ProviderGetFirstEnabledCb, SetProvider, Loading, MayFallBack
<1>5. CASE UNCHANGED allVars
  BY <1>5, StartupSteps DEF allVars
<1> QED BY <1>1, <1>2, <1>3, <1>4, <1>5, ManagerStep, StartupSteps, NotificationStep,
           ShutdownSteps, LoaderStepInv
        DEF ServiceNext, ServiceCallbacks

(* Each step leaves the clocks alone or is one of the detection's.         *)
LEMMA ClocksStep ==
  ASSUME [ServiceNext]_allVars
  PROVE  [JumpNext]_jumpVars
BY DEF ServiceNext, ServiceCallbacks, SecureInit, SecureInitReturns, StartupAsync,
       ProviderGetFirstEnabledCb, ManagerNewCb, StartupComplete, ShutdownReturns, SetProvider,
       EnabledNotified, CancelStartup, LoaderStep, Shutdown, ClockStep, SourceStep, InMain,
       JumpNext, allVars

LEMMA HoldingType ==
  ASSUME ServiceInv, [ServiceNext]_allVars
  PROVE  holding' \in BOOLEAN
<1>1. IsEnabled(provider) \in BOOLEAN /\ \A p \in Providers : (p \in enabled') \in BOOLEAN
  BY IsEnabledType
<1>2. CASE \E isEnabled \in BOOLEAN : NotifyEnabledCb(isEnabled)
  BY <1>2, HoldsAreBalanced
<1>3. CASE holding' = holding
  BY <1>3 DEF ServiceInv, ServiceTypeOK
<1> QED BY <1>1, <1>2, <1>3
        DEF ServiceNext, ServiceCallbacks, SecureInit, SecureInitReturns, StartupAsync,
            ProviderGetFirstEnabledCb, ManagerNewCb, StartupComplete, ShutdownReturns,
            EnabledNotified, CancelStartup, LoaderStep, Shutdown, ClockStep, SourceStep, InMain,
            serviceVars, allVars

LEMMA ServiceTypeStep ==
  ASSUME ServiceInv, [ServiceNext]_allVars
  PROVE  ServiceTypeOK'
<1>1. ChoiceInv'
  BY ChoiceStep
<1>2. LoaderTypeOK' /\ holds' = IF holding' THEN 1 ELSE 0
  BY <1>1 DEF ChoiceInv, PhaseInv
<1>3. JumpTypeOK'
  BY ClocksStep, TypeStep DEF ServiceInv, ServiceTypeOK
<1>4. /\ phase \in {"secureInit", "secureLoading", "secured", "startupLoading", "managerInit",
                    "completing", "running", "failed", "notNeeded", "stopping", "stopped"}
      /\ provider \in Providers \cup {EpgManager, NoProvider}
      /\ result \in Providers \cup {NoProvider}
      /\ activeEfivar \in BOOLEAN /\ managerEnabled \in BOOLEAN
  BY DEF ServiceInv, ServiceTypeOK, LoaderTypeOK
<1>5. /\ phase' \in {"secureInit", "secureLoading", "secured", "startupLoading", "managerInit",
                     "completing", "running", "failed", "notNeeded", "stopping", "stopped"}
      /\ provider' \in {provider, result, EpgManager}
      /\ activeEfivar' = activeEfivar
  BY <1>4
     DEF ServiceNext, ServiceCallbacks, SecureInit, SecureInitReturns, StartupAsync,
         ProviderGetFirstEnabledCb, ManagerNewCb, StartupComplete, ShutdownReturns, SetProvider,
         EnabledNotified, CancelStartup, LoaderStep, Shutdown, ClockStep, SourceStep, InMain,
         serviceVars, allVars
<1>6. managerEnabled' = managerEnabled \/ managerEnabled' = TRUE
  BY DEF ServiceNext, ServiceCallbacks, SecureInit, SecureInitReturns, StartupAsync,
         ProviderGetFirstEnabledCb, ManagerNewCb, StartupComplete, ShutdownReturns,
         EnabledNotified, CancelStartup, LoaderStep, Shutdown, ClockStep, SourceStep, InMain,
         serviceVars, allVars
<1>7. managerEnabled' \in BOOLEAN /\ activeEfivar' \in BOOLEAN /\ holding' \in BOOLEAN
  BY <1>4, <1>5, <1>6, HoldingType
<1>8. holds' \in 0 .. 1 /\ provider' \in Providers \cup {EpgManager, NoProvider}
  BY <1>2, <1>4, <1>5, <1>7
<1> QED BY <1>2, <1>3, <1>5, <1>7, <1>8 DEF ServiceTypeOK

LEMMA ServiceStep == ServiceInv /\ [ServiceNext]_allVars => ServiceInv'
BY ChoiceStep, ServiceTypeStep DEF ServiceInv
-----------------------------------------------------------------------------
(* Nothing the plugins do, nor a cancelled startup, takes the service out  *)
(* of its phases; its hold on the process is taken once and released once. *)
THEOREM ServiceIsTypeCorrect == ServiceSpec => []ServiceTypeOK
<1>1. ServiceInv => ServiceTypeOK
  BY DEF ServiceInv
<1> QED BY <1>1, InitServiceInv, ServiceStep, PTL DEF ServiceSpec

(* For any number of plugins the one in use stays alive, and each of the   *)
(* others was shut down before the service went on: the loader waits for   *)
(* as many answers as there are plugins.                                   *)
THEOREM OneProviderIsLeft == ServiceSpec => []OneProviderRuns
<1>1. ServiceInv => OneProviderRuns
  BY DEF ServiceInv, ChoiceInv
<1> QED BY <1>1, InitServiceInv, ServiceStep, PTL DEF ServiceSpec

(* The manager replaces no plugin that was enabled when all had answered,  *)
(* and never one where EFI says that PAYG is active.                       *)
THEOREM ManagerOnlyAsLastResort == ServiceSpec => []ManagerIsLastResort
<1>1. ServiceInv => ManagerIsLastResort
  BY DEF ServiceInv, ChoiceInv
<1> QED BY <1>1, InitServiceInv, ServiceStep, PTL DEF ServiceSpec
=============================================================================
