--------------------- MODULE SystemManagerLivenessProofs ---------------------
(***************************************************************************)
(* What SystemManager comes to in the end, for the same constants as the    *)
(* safety proofs.  Handlers and operations have no loop that is not counted: *)
(* a rank bounds the sections a thread still has ahead, its own steps lower  *)
(* it, and nobody else touches it.  With fairness the rank reaches zero.     *)
(*                                                                          *)
(* Fairness speaks of what is ENABLED, which the provers do not evaluate:    *)
(* NobodyWaits, which TLC checks, is the hypothesis that stands for it.      *)
(***************************************************************************)
EXTENDS SystemManagerProofs

\* The sections a handler of the executor has ahead at most.
DAhead(label) ==
  CASE label = "idle" -> 0
    [] label \in {"toWait", "waitingCode", "sensorStop", "exitError", "finish", "begin",
                  "beginSave"} -> 1
    [] label \in {"toReady", "toStarting", "sensorLiveToo", "exitCode", "createMap",
                  "deleteMap", "selectMap", "newSession"} -> 2
    [] label \in {"clearError", "sensorLive", "monitor", "loadMap", "select"} -> 3
    [] label \in {"sensorError", "prepareMap"} -> 4
    [] label \in {"sensorCode", "admit"} -> 5
    [] OTHER -> 6

DRank == DAhead(dPc)

\* The sections of an operation after label, without the processes of oTodo.
OAhead(label) ==
  CASE label = "idle" -> 0
    [] label = "finish" -> 1
    [] label \in {"toError", "endSession", "saveWait", "sensorSwept"} -> 2
    [] label \in {"lastPose", "failClean", "stopWait", "saveState", "recoverCode"} -> 3
    [] label \in {"activate", "failState", "stopDone", "saveCode", "recoverToWait",
                  "recoverToStarting"} -> 4
    [] label \in {"failCode", "recoverClear"} -> 5
    [] label = "recoverReset" -> 6
    [] label \in {"saving", "recoverSwept"} -> 7
    [] label \in {"await", "save"} -> 8
    [] OTHER -> 9

\* Four sections for each process that the sweep has still to visit.
Left(todo) ==
  (IF "mapping" \in todo THEN 4 ELSE 0) + (IF "localization" \in todo THEN 4 ELSE 0)

AfterStop(ret, todo) ==
  OAhead(ret) + (IF ret \in {"sensorSwept", "recoverSwept"} THEN Left(todo) ELSE 0)

ORankOf(label, ret, todo) ==
  CASE label = "sweep" -> 3 + OAhead(ret) + (IF Processes \subseteq todo THEN 4 ELSE 0)
    [] label = "stop" -> 2 + AfterStop(ret, todo)
    [] label = "stopping" -> 1 + AfterStop(ret, todo)
    [] OTHER -> AfterStop(label, todo)

ORank == ORankOf(oPc, oRet, oTodo)

-----------------------------------------------------------------------------
\* Every section of a handler brings it closer to its end.
LEMMA DStepDescends ==
  ASSUME InductiveInv, DStep
  PROVE  DRank' < DRank
<1> USE DEF DRank, DAhead, DGoto, DEnd, DReturn
<1>1. CASE DSensor
  BY <1>1 DEF DSensor, SensorClearError, SensorToReady, SensorToWait, SensorToStarting,
      SensorWaitingCode, SensorSetCode, SensorToError, SensorReadLive, SensorStop
<1>2. CASE DMonitor
  BY <1>2 DEF DMonitor, MonitorCheck, MonitorSetCode, MonitorToError
<1>3. CASE DRequest
  BY <1>3 DEF DRequest, CreateMap, DeleteMap, LoadMap, LoadMapOr, SelectMap, DFinish,
      StartCheckOwn, StartAdmit, StartAdmitIf, StartPrepareMap, StartSelect, StartSelects,
      StartNewSession, StartBegin, SaveBegin
<1> QED
  BY <1>1, <1>2, <1>3 DEF DStep

\* Every section of an operation brings it closer to its end.
LEMMA OStepDescends ==
  ASSUME InductiveInv, OStep
  PROVE  ORank' < ORank
<1> USE DEF InductiveInv, ControlInv, TypeOK, ThreadTypes, Processes, StopReturns, ORank,
      ORankOf, AfterStop, Left, OAhead, OGoto
<1>1. CASE OStart
  <2>1. CASE OLaunch
    BY <2>1 DEF OLaunch
  <2>2. CASE OAwaitReady
    BY <2>2 DEF OAwaitReady
  <2>3. CASE OActivate
    BY <2>3 DEF OActivate
  <2>4. CASE OLastPose
    BY <2>4 DEF OLastPose
  <2>5. CASE OStartFailedCode
    BY <2>5 DEF OStartFailedCode
  <2>6. CASE OStartFailedState
    BY <2>6 DEF OStartFailedState
  <2>7. CASE OStartFailedClean
    BY <2>7 DEF OStartFailedClean
  <2> QED
    BY <1>1, <2>1, <2>2, <2>3, <2>4, <2>5, <2>6, <2>7 DEF OStart
<1>2. CASE OEnd
  <2>1. CASE OStop
    BY <2>1 DEF OStop
  <2>2. CASE OStopping
    BY <2>2 DEF OStopping
  <2>3. CASE OStopDone
    BY <2>3 DEF OStopDone, OStopDoneIf
  <2>4. CASE OStopToWait
    BY <2>4 DEF OStopToWait
  <2>5. CASE OEndSession
    BY <2>5 DEF OEndSession
  <2>6. CASE OSave
    BY <2>6 DEF OSave
  <2>7. CASE OSaved
    BY <2>7 DEF OSaved
  <2>8. CASE OSaveCode
    BY <2>8 DEF OSaveCode
  <2>9. CASE OSaveState
    BY <2>9 DEF OSaveState
  <2>10. CASE OSaveToWait
    BY <2>10 DEF OSaveToWait
  <2> QED
    BY <1>2, <2>1, <2>2, <2>3, <2>4, <2>5, <2>6, <2>7, <2>8, <2>9, <2>10 DEF OEnd
<1>3. CASE ORecover
  <2>1. CASE OSweep
    BY <2>1 DEF OSweep
  <2>2. CASE OSensorSwept
    <3>1. oTodo # {} => "mapping" \in oTodo \/ "localization" \in oTodo
      OBVIOUS
    <3>2. oPc = "sensorSwept" /\ oRet = "sensorSwept"
      BY <2>2 DEF OSensorSwept, OperationState
    <3>3. oRet' = oRet /\ oTodo' = oTodo /\ oPc' = IF oTodo # {} THEN "sweep" ELSE "finish"
      BY <2>2 DEF OSensorSwept, oLocals
    <3> QED
      BY <3>1, <3>2, <3>3
  <2>3. CASE ORecoverSwept
    BY <2>3 DEF ORecoverSwept, ORecoverSweptWith
  <2>4. CASE ORecoverFailed
    BY <2>4 DEF ORecoverFailed
  <2>5. CASE ORecoverReset
    BY <2>5 DEF ORecoverReset
  <2>6. ASSUME NEW ready \in BOOLEAN, ORecoverClear(ready) PROVE ORank' < ORank
    BY <2>6 DEF ORecoverClear
  <2>7. ASSUME NEW target \in {"WAIT_MODE", "SENSOR_STARTING"}, ORecoverTo(target) PROVE ORank' < ORank
    BY <2>7 DEF ORecoverTo
  <2> QED
    BY <1>3, <2>1, <2>2, <2>3, <2>4, <2>5, <2>6, <2>7 DEF ORecover
<1>4. CASE OThrow \/ OToError \/ OFinish
  BY <1>4 DEF OThrow, OThrowWith, OToError, OFinish
<1> QED
  BY <1>1, <1>2, <1>3, <1>4 DEF OStep

\* While a handler is under way nobody else touches its place.
LEMMA DVarsKept ==
  ASSUME InductiveInv, [Next]_vars, dPc # "idle", ~DStep
  PROVE  UNCHANGED dVars
<1> USE DEF InductiveInv, ControlInv, dVars, oVars, oLocals, DGoto, DEnd, DReturn, OGoto, RGoto
<1>0. CASE UNCHANGED vars
  BY <1>0 DEF vars
<1>1. CASE Environment
  BY <1>1 DEF Environment, ProcessExits, PublishCorrection
<1>2. CASE Timers \/ Requests
  BY <1>2 DEF Timers, SensorTick, MonitorTick, MonitorIn, Requests, HandleRecover,
      HandleCreateMap, ClaimMap, TakeFlagForMap, HandleDeleteMap, HandleLoadMap,
      HandleStartMapping, HandleStart, StartUnless, HandleStartLocalization,
      HandleStopMapping, HandleStop, HandleStopLocalization, HandleSaveMap
<1>3. CASE OStep
  BY <1>3 DEF OStep, OStart, OLaunch, OAwaitReady, OActivate, OLastPose, OStartFailedCode,
      OStartFailedState, OStartFailedClean, OEnd, OStop, OStopping, OStopDone, OStopDoneIf,
      OStopToWait, OEndSession, OSave, OSaved, OSaveCode, OSaveState,
      OSaveToWait, ORecover, OSweep, OSensorSwept, ORecoverSwept, ORecoverSweptWith,
      ORecoverFailed, ORecoverReset, ORecoverClear, ORecoverTo, OThrow, OThrowWith,
      OToError, OFinish
<1>4. ASSUME NEW c \in Callbacks, RBegin(c) \/ RStep(c) PROVE UNCHANGED dVars
  BY <1>4 DEF RBegin, RStep, ObserveInitialPose, ReceiveCorrection, PoseResetSession,
      PoseLeaveLocalized, ConfirmCheckState, ConfirmCheckAlive, ConfirmLocalized,
      ConfirmTrust
<1> QED
  BY <1>0, <1>1, <1>2, <1>3, <1>4 DEF Next

\* The same for the operation thread: as long as it is under way, the flag keeps
\* every handler from launching another operation.
LEMMA OVarsKept ==
  ASSUME InductiveInv, [Next]_vars, oPc # "idle", ~OStep
  PROVE  UNCHANGED oVars
<1> USE DEF InductiveInv, ControlInv, FlagHasOneOwner, dVars, oVars, oLocals, DGoto, DEnd,
      DReturn, RGoto
<1>0. CASE UNCHANGED vars
  BY <1>0 DEF vars
<1>1. CASE Environment
  BY <1>1 DEF Environment, ProcessExits, PublishCorrection
<1>2. CASE Timers \/ Requests
  BY <1>2 DEF Timers, SensorTick, MonitorTick, MonitorIn, Requests, HandleRecover,
      HandleCreateMap, ClaimMap, TakeFlagForMap, HandleDeleteMap, HandleLoadMap,
      HandleStartMapping, HandleStart, StartUnless, HandleStartLocalization,
      HandleStopMapping, HandleStop, HandleStopLocalization, HandleSaveMap
<1>3. CASE DSensor \/ DMonitor
  BY <1>3 DEF DSensor, SensorClearError, SensorToReady, SensorToWait, SensorToStarting,
      SensorWaitingCode, SensorSetCode, SensorToError, SensorReadLive, SensorStop,
      DMonitor, MonitorCheck, MonitorSetCode, MonitorToError
<1>4. CASE DRequest
  BY <1>4 DEF DRequest, CreateMap, DeleteMap, LoadMap, LoadMapOr, SelectMap, DFinish,
      StartCheckOwn, StartAdmit, StartAdmitIf, StartPrepareMap, StartSelect, StartSelects,
      StartNewSession, StartBegin, SaveBegin, ClaimedLabels
<1>5. ASSUME NEW c \in Callbacks, RBegin(c) \/ RStep(c) PROVE UNCHANGED oVars
  BY <1>5 DEF RBegin, RStep, ObserveInitialPose, ReceiveCorrection, PoseResetSession,
      PoseLeaveLocalized, ConfirmCheckState, ConfirmCheckAlive, ConfirmLocalized,
      ConfirmTrust
<1> QED
  BY <1>0, <1>1, <1>2, <1>3, <1>4, <1>5 DEF Next, DStep

-----------------------------------------------------------------------------
\* Without any fairness: a service or timer callback holds the executor for at
\* most six sections, whatever operation, callbacks and processes do meanwhile.
THEOREM HandlersAreBounded ==
  Spec => [](DRank \in 0..6)
          /\ [][dPc # "idle" => IF DStep THEN DRank' < DRank ELSE DRank' = DRank]_vars
<1>1. DRank \in 0..6
  BY DEF DRank, DAhead
<1>2. InductiveInv /\ [Next]_vars
        => [dPc # "idle" => IF DStep THEN DRank' < DRank ELSE DRank' = DRank]_vars
  <2>1. InductiveInv /\ DStep => DRank' < DRank
    BY DStepDescends
  <2>2. InductiveInv /\ [Next]_vars /\ dPc # "idle" /\ ~DStep => DRank' = DRank
    BY DVarsKept DEF DRank, dVars
  <2> QED
    BY <2>1, <2>2
<1> QED
  BY <1>1, <1>2, InductiveInvariant, PTL DEF Spec

\* A handler that has begun takes its next section, and is then nearer its end.
DDescends(k) ==
  FairSpec /\ []NobodyWaits =>
    ((dPc # "idle" /\ DRank <= k + 1) ~> (dPc = "idle" \/ DRank <= k))

LEMMA HandlerAdvances ==
  ASSUME NEW k \in Nat
  PROVE  DDescends(k)
<1>1. InductiveInv => DRank \in Nat
  BY DEF DRank, DAhead
<1>2. InductiveInv /\ InductiveInv' /\ [Next]_vars /\ dPc # "idle" /\ DRank <= k + 1
        => (dPc # "idle" /\ DRank <= k + 1)' \/ (dPc = "idle" \/ DRank <= k)'
  <2> SUFFICES ASSUME InductiveInv, InductiveInv', [Next]_vars, dPc # "idle", DRank <= k + 1
               PROVE  (dPc = "idle")' \/ (DRank <= k + 1)'
    BY <1>1
  <2>1. CASE DStep
    BY <1>1, <2>1, DStepDescends DEF DRank, DAhead
  <2>2. CASE ~DStep
    BY <2>2, DVarsKept DEF DRank, dVars
  <2> QED
    BY <2>1, <2>2
<1>3. InductiveInv /\ DRank <= k + 1 /\ <<DStep>>_vars => (dPc = "idle" \/ DRank <= k)'
  BY <1>1, DStepDescends DEF DRank, DAhead
<1>4. NobodyWaits => (dPc # "idle" => ENABLED <<DStep>>_vars)
  BY DEF NobodyWaits
<1> QED
  BY <1>2, <1>3, <1>4, InductiveInvariant, PTL
  DEF DDescends, HandlerRuns, FairSpec, Fairness, Spec

\* Every service and timer callback comes to its end, so that the executor is
\* free again.
THEOREM HandlersReturn == FairSpec /\ []NobodyWaits => (dPc # "idle" ~> dPc = "idle")
<1>1. DDescends(0) /\ DDescends(1) /\ DDescends(2) /\ DDescends(3) /\ DDescends(4)
      /\ DDescends(5)
  BY HandlerAdvances
<1>2. InductiveInv => /\ DRank <= 5 + 1
                      /\ DRank <= 5 => DRank <= 4 + 1
                      /\ DRank <= 4 => DRank <= 3 + 1
                      /\ DRank <= 3 => DRank <= 2 + 1
                      /\ DRank <= 2 => DRank <= 1 + 1
                      /\ DRank <= 1 => DRank <= 0 + 1
                      /\ DRank <= 0 => dPc = "idle"
                      /\ dPc = "idle" \/ dPc # "idle"
  BY DEF DRank, DAhead
<1> QED
  BY <1>1, <1>2, InductiveInvariant, PTL DEF DDescends, FairSpec

\* An operation that has begun takes its next section, and is then nearer its end.
ODescends(k) ==
  FairSpec /\ []NobodyWaits =>
    ((oPc # "idle" /\ ORank <= k + 1) ~> (oPc = "idle" \/ ORank <= k))

\* Sweeps over both processes are the longest: no rank is above 17.
LEMMA RankBounds == InductiveInv => ORank \in 0..17 /\ (ORank = 0 => oPc = "idle")
BY DEF InductiveInv, ControlInv, TypeOK, ThreadTypes, Processes, StopReturns, OLabels, ORank,
    ORankOf, AfterStop, Left, OAhead

\* Without any fairness: an operation has at most 17 sections, since each one of
\* its own takes it nearer its end and no other thread touches its rank.
THEOREM OperationsAreBounded ==
  Spec => [](ORank \in 0..17)
          /\ [][oPc # "idle" => IF OStep THEN ORank' < ORank ELSE ORank' = ORank]_vars
<1>1. InductiveInv /\ InductiveInv' /\ [Next]_vars
        => [oPc # "idle" => IF OStep THEN ORank' < ORank ELSE ORank' = ORank]_vars
  <2>1. InductiveInv /\ OStep => ORank' < ORank
    BY OStepDescends
  <2>2. InductiveInv /\ [Next]_vars /\ oPc # "idle" /\ ~OStep => ORank' = ORank
    BY OVarsKept DEF ORank, oVars, oLocals
  <2> QED
    BY <2>1, <2>2
<1> QED
  BY <1>1, RankBounds, InductiveInvariant, PTL DEF Spec

LEMMA OperationAdvances ==
  ASSUME NEW k \in Nat
  PROVE  ODescends(k)
<1>1. InductiveInv => ORank \in Nat
  BY RankBounds
<1>2. InductiveInv' => (ORank \in Nat)'
  BY <1>1, PTL
<1>3. InductiveInv /\ InductiveInv' /\ [Next]_vars /\ oPc # "idle" /\ ORank <= k + 1
        => (oPc # "idle" /\ ORank <= k + 1)' \/ (oPc = "idle" \/ ORank <= k)'
  <2> SUFFICES ASSUME InductiveInv, InductiveInv', [Next]_vars, oPc # "idle", ORank <= k + 1
               PROVE  (oPc = "idle")' \/ (ORank <= k + 1)'
    BY <1>1
  <2>1. CASE OStep
    BY <1>1, <1>2, <2>1, OStepDescends
  <2>2. CASE ~OStep
    BY <2>2, OVarsKept DEF ORank, oVars, oLocals
  <2> QED
    BY <2>1, <2>2
<1>4. InductiveInv /\ InductiveInv' /\ ORank <= k + 1 /\ <<OStep>>_vars
        => (oPc = "idle" \/ ORank <= k)'
  BY <1>1, <1>2, OStepDescends
<1>5. NobodyWaits => (oPc # "idle" => ENABLED <<OStep>>_vars)
  BY DEF NobodyWaits
<1> QED
  BY <1>3, <1>4, <1>5, InductiveInvariant, PTL
  DEF ODescends, OperationRuns, FairSpec, Fairness, Spec

\* Every operation comes to its end.
LEMMA OperationsEnd == FairSpec /\ []NobodyWaits => (oPc # "idle" ~> oPc = "idle")
<1>1. ODescends(0) /\ ODescends(1) /\ ODescends(2) /\ ODescends(3) /\ ODescends(4)
      /\ ODescends(5) /\ ODescends(6) /\ ODescends(7) /\ ODescends(8) /\ ODescends(9)
      /\ ODescends(10) /\ ODescends(11) /\ ODescends(12) /\ ODescends(13) /\ ODescends(14)
      /\ ODescends(15) /\ ODescends(16)
  BY OperationAdvances
<1>2. InductiveInv => /\ ORank <= 16 + 1
                      /\ ORank <= 16 => ORank <= 15 + 1
                      /\ ORank <= 15 => ORank <= 14 + 1
                      /\ ORank <= 14 => ORank <= 13 + 1
                      /\ ORank <= 13 => ORank <= 12 + 1
                      /\ ORank <= 12 => ORank <= 11 + 1
                      /\ ORank <= 11 => ORank <= 10 + 1
                      /\ ORank <= 10 => ORank <= 9 + 1
                      /\ ORank <= 9 => ORank <= 8 + 1
                      /\ ORank <= 8 => ORank <= 7 + 1
                      /\ ORank <= 7 => ORank <= 6 + 1
                      /\ ORank <= 6 => ORank <= 5 + 1
                      /\ ORank <= 5 => ORank <= 4 + 1
                      /\ ORank <= 4 => ORank <= 3 + 1
                      /\ ORank <= 3 => ORank <= 2 + 1
                      /\ ORank <= 2 => ORank <= 1 + 1
                      /\ ORank <= 1 => ORank <= 0 + 1
                      /\ ORank <= 0 => oPc = "idle"
                      /\ oPc = "idle" \/ oPc # "idle"
  BY RankBounds
<1> QED
  BY <1>1, <1>2, InductiveInvariant, PTL DEF ODescends, FairSpec

\* The flag goes down with the end of the handler or the operation that holds it,
\* and a handler that hands it to an operation ends as well.
THEOREM OperationsComplete == FairSpec /\ []NobodyWaits => OperationCompletes
<1>1. InductiveInv /\ dPc = "idle" => ~opInProgress \/ oPc # "idle"
  BY DEF InductiveInv, ControlInv, FlagHasOneOwner, ClaimedLabels
<1>2. InductiveInv /\ InductiveInv' /\ [Next]_vars /\ oPc # "idle"
        => (oPc # "idle")' \/ (~opInProgress)'
  <2> SUFFICES ASSUME InductiveInv, InductiveInv', [Next]_vars, oPc # "idle", oPc' = "idle"
               PROVE  ~opInProgress'
    OBVIOUS
  <2>1. OStep
    BY OVarsKept DEF oVars
  <2>2. dPc' = dPc
    BY <2>1 DEF OStep, OStart, OLaunch, OAwaitReady, OActivate, OLastPose, OStartFailedCode,
        OStartFailedState, OStartFailedClean, OEnd, OStop, OStopping, OStopDone,
        OStopDoneIf, OStopToWait, OEndSession, OSave, OSaved, OSaveCode, OSaveState,
        OSaveToWait, ORecover, OSweep, OSensorSwept, ORecoverSwept,
        ORecoverSweptWith, ORecoverFailed, ORecoverReset, ORecoverClear, ORecoverTo,
        OThrow, OThrowWith, OToError, OFinish, OGoto, dVars
  <2>3. dPc \notin ClaimedLabels
    BY DEF InductiveInv, ControlInv, FlagHasOneOwner
  <2> QED
    BY <2>2, <2>3 DEF InductiveInv, ControlInv, FlagHasOneOwner
<1>3. dPc = "idle" \/ dPc # "idle"
  OBVIOUS
<1>4. oPc = "idle" => ~(oPc # "idle")
  OBVIOUS
<1> QED
  BY <1>1, <1>2, <1>3, <1>4, HandlersReturn, OperationsEnd, InductiveInvariant, PTL
  DEF OperationCompletes, FairSpec, Spec

-----------------------------------------------------------------------------
\* The process timer has fired for p and its handler stands at label.
Watching(p, label) == dPc = label /\ dProc = p

\* While p is missing, the watchdog's handler goes on to the next label.
LEMMA WatchStep ==
  ASSUME NEW p \in Processes, InductiveInv, [Next]_vars, Missing(p)
  PROVE  /\ Watching(p, "monitor") =>
              Watching(p, "monitor")' \/ Watching(p, "exitCode")'
         /\ Watching(p, "exitCode") =>
              Watching(p, "exitCode")' \/ Watching(p, "exitError")'
         /\ Watching(p, "exitError") => Watching(p, "exitError")' \/ ~Missing(p)'
<1>1. CASE DStep /\ dPc \in {"monitor", "exitCode", "exitError"}
  <2>1. DMonitor
    BY <1>1 DEF DStep, DSensor, SensorClearError, SensorToReady, SensorToWait,
        SensorToStarting, SensorWaitingCode, SensorSetCode, SensorToError, SensorReadLive,
        SensorStop, DRequest, CreateMap, DeleteMap, LoadMap, LoadMapOr, SelectMap, DFinish,
        StartCheckOwn, StartAdmit, StartAdmitIf, StartPrepareMap, StartSelect, StartSelects,
        StartNewSession, StartBegin, SaveBegin, DGoto, DEnd, DReturn
  <2>2. CASE MonitorCheck
    BY <2>2 DEF MonitorCheck, DReturn, DEnd, DGoto, Watching, Missing
  <2>3. CASE MonitorSetCode
    BY <2>3 DEF MonitorSetCode, DGoto, Watching
  <2>4. CASE MonitorToError
    <3>1. dPc = "exitError" /\ state' = "ERROR"
      BY <2>4 DEF MonitorToError, TransitionTo, After, CanTransition, Missing, Expecting,
          DReturn, DEnd
    <3> QED
      BY <3>1 DEF Watching, Missing, Expecting
  <2> QED
    BY <2>1, <2>2, <2>3, <2>4 DEF DMonitor
<1>2. CASE ~DStep /\ dPc # "idle"
  <2>1. dPc' = dPc /\ dProc' = dProc
    BY <1>2, DVarsKept DEF dVars
  <2> QED
    BY <2>1 DEF Watching
<1> QED
  BY <1>1, <1>2 DEF Watching

\* While p is missing nobody but a request takes the flag, and requests wait for
\* the executor.
LEMMA FlagStaysDown ==
  ASSUME NEW p \in Processes, InductiveInv, [Next]_vars, Missing(p), ~opInProgress,
         dPc # "idle"
  PROVE  ~opInProgress'
<1> USE DEF InductiveInv, ControlInv, FlagHasOneOwner, sensor, world, session, request, data,
      DGoto, DEnd, DReturn, OGoto, RGoto, TransitionTo, SetSystemError, ResetSession,
      FinishOperation
<1>0. CASE UNCHANGED vars
  BY <1>0 DEF vars
<1>1. CASE Environment
  BY <1>1 DEF Environment, ProcessExits, PublishCorrection
<1>2. CASE Timers \/ Requests
  BY <1>2 DEF Timers, SensorTick, MonitorTick, MonitorIn, Requests, HandleRecover,
      HandleCreateMap, ClaimMap, TakeFlagForMap, HandleDeleteMap, HandleLoadMap,
      HandleStartMapping, HandleStart, StartUnless, HandleStartLocalization,
      HandleStopMapping, HandleStop, HandleStopLocalization, HandleSaveMap
<1>3. CASE DSensor \/ DMonitor
  BY <1>3 DEF DSensor, SensorClearError, SensorToReady, SensorToWait, SensorToStarting,
      SensorWaitingCode, SensorSetCode, SensorToError, SensorReadLive, SensorStop,
      DMonitor, MonitorCheck, MonitorSetCode, MonitorToError, HandlerState, Missing, Expecting
<1>4. CASE DRequest
  BY <1>4 DEF DRequest, CreateMap, SetMap, DeleteMap, LoadMap, LoadMapOr, SelectMap, DFinish,
      StartCheckOwn, StartAdmit, StartAdmitIf, StartPrepareMap, StartSelect, StartSelects,
      StartNewSession, StartBegin, SaveBegin, ClaimedLabels, Missing, Expecting
<1>5. CASE OStep
  BY <1>5 DEF OStep, OStart, OLaunch, OAwaitReady, OActivate, OLastPose, OStartFailedCode,
      OStartFailedState, OStartFailedClean, OEnd, OStop, OStopping, OStopDone, OStopDoneIf,
      OStopToWait, OEndSession, OSave, OSaved, OSaveCode, OSaveState,
      OSaveToWait, ORecover, OSweep, OSensorSwept, ORecoverSwept, ORecoverSweptWith,
      ORecoverFailed, ORecoverReset, ORecoverClear, ORecoverTo, OThrow, OThrowWith,
      OToError, OFinish
<1>6. ASSUME NEW c \in Callbacks, RBegin(c) \/ RStep(c) PROVE ~opInProgress'
  BY <1>6 DEF RBegin, RStep, ObserveInitialPose, ReceiveCorrection, PoseResetSession,
      PoseLeaveLocalized, ConfirmCheckState, ConfirmCheckAlive, ConfirmLocalized,
      ConfirmTrust
<1> QED
  BY <1>0, <1>1, <1>2, <1>3, <1>4, <1>5, <1>6 DEF Next, DStep

\* A missing process is noticed.  As long as it is missing the flag comes down
\* again and again and stays down until the executor is free: the timer is due
\* infinitely often, so it fires, and its handler ends in ERROR.
THEOREM ExitsAreNoticed == FairSpec /\ []NobodyWaits => ExitIsNoticed
<1>1. ASSUME NEW p \in Processes
      PROVE  FairSpec /\ []NobodyWaits => MissingEnds(p)
  <2>1. InductiveInv /\ [Next]_vars /\ Missing(p) /\ ~opInProgress /\ dPc # "idle"
          => (~opInProgress)'
    BY FlagStaysDown
  <2>2. Missing(p) /\ ~opInProgress => dPc # "idle" \/ MonitorDue(p)
    BY DEF Missing, MonitorDue
  <2>3. NobodyWaits => (MonitorDue(p) => ENABLED <<MonitorTick(p)>>_vars)
    BY DEF NobodyWaits
  <2>4. <<MonitorTick(p)>>_vars => Watching(p, "monitor")'
    BY DEF MonitorTick, MonitorIn, Watching
  <2>5. InductiveInv /\ [Next]_vars /\ Missing(p)
          => /\ Watching(p, "monitor") =>
                  Watching(p, "monitor")' \/ Watching(p, "exitCode")'
             /\ Watching(p, "exitCode") =>
                  Watching(p, "exitCode")' \/ Watching(p, "exitError")'
             /\ Watching(p, "exitError") => Watching(p, "exitError")' \/ ~Missing(p)'
    BY WatchStep
  <2>6. /\ Watching(p, "monitor") => dPc # "idle"
        /\ Watching(p, "exitCode") => dPc # "idle"
        /\ Watching(p, "exitError") => dPc # "idle"
        /\ dPc # "idle" => ~(dPc = "idle")
    BY DEF Watching
  <2>7. FairSpec => MonitorComesBack(p)
    BY <1>1 DEF FairSpec, Fairness
  <2> QED
    BY <2>1, <2>2, <2>3, <2>4, <2>5, <2>6, <2>7, HandlersReturn, OperationsComplete,
       InductiveInvariant, PTL
    DEF MissingEnds, MonitorComesBack, OperationCompletes, FairSpec, Spec
<1> QED
  BY <1>1 DEF ExitIsNoticed

-----------------------------------------------------------------------------
\* No transient state is permanent: each belongs to an operation under way, and
\* the operation leaves it.
THEOREM TransientStatesEnd ==
  FairSpec /\ []NobodyWaits => (state \in TransientStates ~> state \notin TransientStates)
<1>1. InductiveInv => (~opInProgress => state \notin TransientStates)
  BY DEF InductiveInv, ControlInv, FlagHasOneOwner, OperationState
<1>2. state \notin TransientStates => ~(state \in TransientStates)
  OBVIOUS
<1>3. ~(state \in TransientStates) => state \notin TransientStates
  OBVIOUS
<1> QED
  BY <1>1, <1>2, <1>3, OperationsComplete, InductiveInvariant, PTL
  DEF OperationCompletes, FairSpec

\* A callback at a label of the set is on its way through it.
At(c, labels) == rPc[c] \in labels

\* The other threads leave the callbacks alone.
LEMMA CallbacksKept ==
  ASSUME Environment \/ Timers \/ Requests \/ DStep \/ OStep
  PROVE  rPc' = rPc
<1> USE DEF DGoto, DEnd, DReturn, OGoto
<1>1. CASE Environment
  BY <1>1 DEF Environment, ProcessExits, PublishCorrection
<1>2. CASE Timers
  BY <1>2 DEF Timers, SensorTick, MonitorTick, MonitorIn
<1>3. CASE Requests
  BY <1>3 DEF Requests, HandleRecover,
      HandleCreateMap, ClaimMap, TakeFlagForMap, HandleDeleteMap, HandleLoadMap,
      HandleStartMapping, HandleStart, StartUnless, HandleStartLocalization,
      HandleStopMapping, HandleStop, HandleStopLocalization, HandleSaveMap
<1>4. CASE DSensor \/ DMonitor
  BY <1>4 DEF DSensor, SensorClearError, SensorToReady, SensorToWait, SensorToStarting,
      SensorWaitingCode, SensorSetCode, SensorToError, SensorReadLive, SensorStop,
      DMonitor, MonitorCheck, MonitorSetCode, MonitorToError
<1>5. CASE DRequest
  BY <1>5 DEF DRequest, CreateMap, DeleteMap, LoadMap, LoadMapOr, SelectMap, DFinish,
      StartCheckOwn, StartAdmit, StartAdmitIf, StartPrepareMap, StartSelect, StartSelects,
      StartNewSession, StartBegin, SaveBegin
<1>6. CASE OStart
  BY <1>6 DEF OStart, OLaunch, OAwaitReady, OActivate, OLastPose, OStartFailedCode,
      OStartFailedState, OStartFailedClean
<1>7. CASE OEnd
  BY <1>7 DEF OEnd, OStop, OStopping, OStopDone, OStopDoneIf, OStopToWait, OEndSession,
      OSave, OSaved, OSaveCode, OSaveState, OSaveToWait
<1>8. CASE ORecover \/ OThrow \/ OToError \/ OFinish
  BY <1>8 DEF ORecover, OSweep, OSensorSwept, ORecoverSwept, ORecoverSweptWith,
      ORecoverFailed, ORecoverReset, ORecoverClear, ORecoverTo, OThrow, OThrowWith,
      OToError, OFinish
<1> QED
  BY <1>1, <1>2, <1>3, <1>4, <1>5, <1>6, <1>7, <1>8 DEF DStep, OStep

\* A bound on the sections a callback still goes through.
RRank(c) ==
  CASE rPc[c] = "confirm" -> 4
    [] rPc[c] = "confirmAlive" -> 3
    [] rPc[c] \in {"localize", "resetAndLeave"} -> 2
    [] rPc[c] \in {"trust", "reset", "leave"} -> 1
    [] OTHER -> 0

\* Only its own sections move a callback on its way, and each takes it nearer
\* its end.
LEMMA CallbackStep ==
  ASSUME NEW c \in Callbacks, InductiveInv, [Next]_vars, rPc[c] # "idle"
  PROVE  IF RStep(c) THEN rPc'[c] = "idle" \/ RRank(c)' < RRank(c) ELSE rPc'[c] = rPc[c]
<1> rPc \in [Callbacks -> RLabels]
  BY DEF InductiveInv, ControlInv, TypeOK, ThreadTypes
<1>1. CASE RStep(c)
  BY <1>1 DEF RStep, PoseResetSession, PoseLeaveLocalized, ConfirmCheckState,
      ConfirmCheckAlive, ConfirmLocalized, ConfirmTrust, RGoto, RRank
<1>2. CASE ~RStep(c)
  <2>1. ASSUME NEW d \in Callbacks, RBegin(d) \/ RStep(d) PROVE rPc'[c] = rPc[c]
    BY <1>2, <2>1 DEF RBegin, ObserveInitialPose, ReceiveCorrection, RStep,
        PoseResetSession, PoseLeaveLocalized, ConfirmCheckState, ConfirmCheckAlive,
        ConfirmLocalized, ConfirmTrust, RGoto
  <2>2. UNCHANGED vars => rPc'[c] = rPc[c]
    BY DEF vars
  <2>3. Next => rPc'[c] = rPc[c]
    BY <2>1, CallbacksKept DEF Next
  <2> QED
    BY <1>2, <2>2, <2>3
<1> QED
  BY <1>1, <1>2

\* Without any fairness: a relocalization callback holds its thread for at most
\* four sections.
CallbackIsBounded(c) ==
  /\ [](RRank(c) \in 0..4)
  /\ [][rPc[c] # "idle" => IF RStep(c) THEN RRank(c)' < RRank(c)
                                      ELSE RRank(c)' = RRank(c)]_vars

THEOREM CallbacksAreBounded == Spec => \A c \in Callbacks : CallbackIsBounded(c)
<1>1. ASSUME NEW c \in Callbacks PROVE Spec => CallbackIsBounded(c)
  <2>1. RRank(c) \in 0..4
    BY DEF RRank
  <2>2. InductiveInv /\ [Next]_vars /\ rPc[c] # "idle"
          => IF RStep(c) THEN RRank(c)' < RRank(c) ELSE RRank(c)' = RRank(c)
    <3> SUFFICES ASSUME InductiveInv, [Next]_vars, rPc[c] # "idle"
                 PROVE  IF RStep(c) THEN RRank(c)' < RRank(c) ELSE RRank(c)' = RRank(c)
      OBVIOUS
    <3>1. rPc[c] \in RLabels /\ RRank(c) > 0
      BY DEF InductiveInv, ControlInv, TypeOK, ThreadTypes, RLabels, RRank
    <3>2. rPc'[c] = "idle" => RRank(c)' = 0
      BY DEF RRank
    <3>3. rPc'[c] = rPc[c] => RRank(c)' = RRank(c)
      BY DEF RRank
    <3> QED
      BY <3>1, <3>2, <3>3, CallbackStep
  <2>3. InductiveInv /\ [Next]_vars
          => [rPc[c] # "idle" => IF RStep(c) THEN RRank(c)' < RRank(c)
                                             ELSE RRank(c)' = RRank(c)]_vars
    BY <2>2
  <2> QED
    BY <2>1, <2>3, InductiveInvariant, PTL DEF CallbackIsBounded, Spec
<1> QED
  BY <1>1

RDescends(c, k) ==
  FairSpec /\ []NobodyWaits =>
    ((rPc[c] # "idle" /\ RRank(c) <= k + 1) ~> (rPc[c] = "idle" \/ RRank(c) <= k))

LEMMA CallbackAdvances ==
  ASSUME NEW c \in Callbacks, NEW k \in Nat
  PROVE  RDescends(c, k)
<1>1. InductiveInv /\ [Next]_vars /\ rPc[c] # "idle" /\ RRank(c) <= k + 1
        => \/ (rPc[c] # "idle" /\ RRank(c) <= k + 1)'
           \/ (rPc[c] = "idle" \/ RRank(c) <= k)'
  <2> SUFFICES ASSUME InductiveInv, [Next]_vars, rPc[c] # "idle", RRank(c) <= k + 1
               PROVE  rPc'[c] = "idle" \/ RRank(c)' <= k + 1
    OBVIOUS
  <2>1. RRank(c) \in Nat /\ RRank(c)' \in Nat
    BY DEF RRank
  <2>2. rPc'[c] = rPc[c] => RRank(c)' = RRank(c)
    BY DEF RRank
  <2> QED
    BY <2>1, <2>2, CallbackStep
<1>2. InductiveInv /\ [Next]_vars /\ (rPc[c] # "idle" /\ RRank(c) <= k + 1)
        /\ <<RStep(c)>>_vars => (rPc[c] = "idle" \/ RRank(c) <= k)'
  <2>1. RRank(c) \in Nat /\ RRank(c)' \in Nat
    BY DEF RRank
  <2> QED
    BY <2>1, CallbackStep
<1>3. NobodyWaits => (rPc[c] # "idle" => ENABLED <<RStep(c)>>_vars)
  BY DEF NobodyWaits
<1>4. FairSpec => CallbackRuns(c)
  BY DEF FairSpec, Fairness
<1> QED
  BY <1>1, <1>2, <1>3, <1>4, InductiveInvariant, PTL
  DEF RDescends, CallbackRuns, FairSpec, Spec

\* Every relocalization callback comes to its end, so that the executor can be
\* stopped.
CallbackReturns(c) == rPc[c] # "idle" ~> rPc[c] = "idle"

THEOREM CallbacksReturn ==
  FairSpec /\ []NobodyWaits => \A c \in Callbacks : CallbackReturns(c)
<1>1. ASSUME NEW c \in Callbacks
      PROVE  FairSpec /\ []NobodyWaits => CallbackReturns(c)
  <2>1. RDescends(c, 0) /\ RDescends(c, 1) /\ RDescends(c, 2) /\ RDescends(c, 3)
    BY CallbackAdvances
  <2>2. InductiveInv => RRank(c) <= 3 + 1 /\ (RRank(c) <= 0 => rPc[c] = "idle")
    BY DEF RRank, InductiveInv, ControlInv, TypeOK, ThreadTypes, RLabels
  <2>3. /\ RRank(c) <= 1 => RRank(c) <= 0 + 1
        /\ RRank(c) <= 2 => RRank(c) <= 1 + 1
        /\ RRank(c) <= 3 => RRank(c) <= 2 + 1
    OBVIOUS
  <2>4. rPc[c] = "idle" \/ rPc[c] # "idle"
    OBVIOUS
  <2> QED
    BY <2>1, <2>2, <2>3, <2>4, InductiveInvariant, PTL
    DEF RDescends, CallbackReturns, FairSpec
<1> QED
  BY <1>1
==============================================================================
