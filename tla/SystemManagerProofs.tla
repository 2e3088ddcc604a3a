------------------------- MODULE SystemManagerProofs -------------------------
(***************************************************************************)
(* Proofs about SystemManager for every set of maps and callbacks, every    *)
(* grace period and every permitted auto-start.  Each step lemma shows that *)
(* one part of InductiveInv survives a step; the theorems follow from it,   *)
(* the refinement of SlamModes included.                                     *)
(***************************************************************************)
EXTENDS SystemManagerInvariant, TLAPS

LEMMA ProcessNames == "mapping" \in Processes /\ "localization" \in Processes
BY DEF Processes

\* transitionTo only ever enters a state of the table, and the failure timer
\* stops one tick after the grace.
LEMMA DataTypesStep ==
  ASSUME ControlInv, [Next]_vars
  PROVE  DataTypes'
<1> USE DEF ControlInv, TypeOK, DataTypes, sensor, world, session, request, data, dVars,
      oVars, oLocals, DGoto, DEnd, DReturn, OGoto, RGoto, TransitionTo, SetSystemError,
      ResetSession, FinishOperation
<1>0. CASE UNCHANGED vars
  BY <1>0 DEF vars
<1>1. CASE Environment
  <2>1. ASSUME NEW p \in Processes, ProcessExits(p) PROVE DataTypes'
    BY <2>1 DEF ProcessExits
  <2>2. CASE PublishCorrection
    BY <2>2 DEF PublishCorrection
  <2> QED
    BY <1>1, <2>1, <2>2 DEF Environment
<1>2. CASE Timers
  BY <1>2, ConstantsAssumption DEF Timers, SensorTick, MonitorTick, MonitorIn
<1>3. CASE Requests
  <2>1. CASE HandleRecover
    BY <2>1 DEF HandleRecover, After, SystemStates
  <2>2. CASE (\E m \in Maps : HandleCreateMap(m)) \/ (\E m \in Maps :
            HandleDeleteMap(m)) \/ (\E m \in Maps : HandleLoadMap(m)) \/
            HandleStartMapping \/ HandleStartLocalization \/ HandleStopMapping \/
            HandleStopLocalization \/ HandleSaveMap
    BY <2>2 DEF HandleCreateMap, ClaimMap, TakeFlagForMap, HandleDeleteMap,
        HandleLoadMap, HandleStartMapping, HandleStart, StartUnless,
        HandleStartLocalization, HandleStopMapping, HandleStop, HandleStopLocalization,
        HandleSaveMap
  <2> QED
    BY <1>3, <2>1, <2>2 DEF Requests
<1>4. CASE DSensor
  <2>1. CASE SensorClearError
    BY <2>1 DEF SensorClearError, ErrorCodes, NoError
  <2>2. CASE SensorToReady
    BY <2>2 DEF SensorToReady, After, SystemStates
  <2>3. CASE SensorToWait
    BY <2>3 DEF SensorToWait, After, SystemStates
  <2>4. CASE SensorToStarting
    BY <2>4 DEF SensorToStarting, After, SystemStates
  <2>5. CASE SensorWaitingCode
    BY <2>5 DEF SensorWaitingCode, ErrorCodes, NoError
  <2>6. CASE SensorSetCode
    BY <2>6 DEF SensorSetCode, ErrorCodes, NoError
  <2>7. CASE SensorToError
    BY <2>7 DEF SensorToError, After, SystemStates
  <2>8. CASE SensorReadLive
    BY <2>8 DEF SensorReadLive
  <2>9. CASE SensorStop
    BY <2>9 DEF SensorStop
  <2> QED
    BY <1>4, <2>1, <2>2, <2>3, <2>4, <2>5, <2>6, <2>7, <2>8, <2>9 DEF DSensor
<1>5. CASE DMonitor
  BY <1>5 DEF DMonitor, MonitorCheck, MonitorSetCode, ErrorCodes, NoError,
      MonitorToError, After, SystemStates
<1>6. CASE DRequest
  <2>1. CASE CreateMap
    BY <2>1 DEF CreateMap, SetMap
  <2>2. CASE DeleteMap
    BY <2>2 DEF DeleteMap, SetMap, Leftovers
  <2>3. CASE DFinish
    BY <2>3 DEF DFinish
  <2>4. CASE StartPrepareMap
    BY <2>4 DEF StartPrepareMap
  <2>5. CASE StartSelect
    BY <2>5 DEF StartSelect, StartSelects, ErrorCodes, NoError
  <2>6. CASE StartBegin
    BY <2>6 DEF StartBegin, Leftovers, After, SystemStates, Starting
  <2>7. CASE SaveBegin
    BY <2>7 DEF SaveBegin, After, SystemStates
  <2>8. CASE LoadMap \/ SelectMap \/ StartCheckOwn \/ (\E m \in Maps : StartAdmit(m)) \/
            StartNewSession
    BY <2>8 DEF LoadMap, LoadMapOr, SelectMap, StartCheckOwn, StartAdmit, StartAdmitIf,
        StartNewSession
  <2> QED
    BY <1>6, <2>1, <2>2, <2>3, <2>4, <2>5, <2>6, <2>7, <2>8 DEF DRequest
<1>7. CASE OStart
  <2>1. CASE OLaunch
    BY <2>1 DEF OLaunch
  <2>2. CASE OAwaitReady
    BY <2>2 DEF OAwaitReady
  <2>3. CASE OActivate
    BY <2>3 DEF OActivate, After, SystemStates, Active
  <2>4. CASE OLastPose
    BY <2>4 DEF OLastPose
  <2>5. CASE OStartFailedCode
    BY <2>5 DEF OStartFailedCode, ErrorCodes, NoError
  <2>6. CASE OStartFailedState
    BY <2>6 DEF OStartFailedState
  <2>7. CASE OStartFailedClean
    BY <2>7 DEF OStartFailedClean, SetMap, Leftovers
  <2> QED
    BY <1>7, <2>1, <2>2, <2>3, <2>4, <2>5, <2>6, <2>7 DEF OStart
<1>8. CASE OEnd
  <2>1. CASE OStop
    BY <2>1 DEF OStop
  <2>2. CASE OStopping
    BY <2>2 DEF OStopping
  <2>3. CASE OStopDone
    BY <2>3 DEF OStopDone, OStopDoneIf, ErrorCodes, NoError
  <2>4. CASE OStopToWait
    BY <2>4 DEF OStopToWait, After, SystemStates
  <2>5. CASE OEndSession
    BY <2>5 DEF OEndSession
  <2>6. CASE OSave
    BY <2>6 DEF OSave, SetMap
  <2>7. CASE OSaved
    BY <2>7 DEF OSaved, SetMap
  <2>8. CASE OSaveCode
    BY <2>8 DEF OSaveCode, ErrorCodes, NoError
  <2>9. CASE OSaveState
    BY <2>9 DEF OSaveState
  <2>10. CASE OSaveToWait
    BY <2>10 DEF OSaveToWait, After, SystemStates
  <2> QED
    BY <1>8, <2>1, <2>2, <2>3, <2>4, <2>5, <2>6, <2>7, <2>8, <2>9, <2>10 DEF OEnd
<1>9. CASE ORecover
  <2>1. CASE OSweep
    BY <2>1 DEF OSweep
  <2>2. CASE OSensorSwept
    BY <2>2 DEF OSensorSwept
  <2>3. CASE ORecoverSwept
    BY <2>3 DEF ORecoverSwept, ORecoverSweptWith
  <2>4. CASE ORecoverFailed
    BY <2>4 DEF ORecoverFailed, ErrorCodes, NoError
  <2>5. CASE ORecoverReset
    BY <2>5 DEF ORecoverReset
  <2>6. ASSUME NEW ready \in BOOLEAN, ORecoverClear(ready) PROVE DataTypes'
    BY <2>6, ConstantsAssumption DEF ORecoverClear, ErrorCodes, NoError
  <2>7. ASSUME NEW target \in {"WAIT_MODE", "SENSOR_STARTING"}, ORecoverTo(target)
       PROVE  DataTypes'
    BY <2>7 DEF ORecoverTo, After, SystemStates
  <2> QED
    BY <1>9, <2>1, <2>2, <2>3, <2>4, <2>5, <2>6, <2>7 DEF ORecover
<1>10. CASE OThrow \/ OToError \/ OFinish
  BY <1>10 DEF OThrow, OThrowWith, ErrorCodes, NoError, OToError, After, SystemStates,
      OFinish
<1>11. ASSUME NEW c \in Callbacks, RBegin(c) \/ RStep(c) PROVE DataTypes'
  <2>1. CASE PoseResetSession(c)
    BY <2>1 DEF PoseResetSession
  <2>2. CASE PoseLeaveLocalized(c)
    BY <2>2 DEF PoseLeaveLocalized, After, SystemStates
  <2>3. CASE ConfirmLocalized(c)
    BY <2>3 DEF ConfirmLocalized, After, SystemStates
  <2>4. CASE ObserveInitialPose(c) \/ ReceiveCorrection(c) \/ ConfirmCheckState(c) \/
            ConfirmCheckAlive(c) \/ ConfirmTrust(c)
    BY <2>4 DEF ObserveInitialPose, ReceiveCorrection, ConfirmCheckState,
        ConfirmCheckAlive, ConfirmTrust
  <2> QED
    BY <1>11, <2>1, <2>2, <2>3, <2>4 DEF RBegin, RStep
<1> QED
  BY <1>0, <1>1, <1>2, <1>3, <1>4, <1>5, <1>6, <1>7, <1>8, <1>9, <1>10, <1>11
  DEF Next, DStep, OStep

\* Every thread goes only to labels it has, and a stop only to one of its returns.
LEMMA ThreadTypesStep ==
  ASSUME ControlInv, [Next]_vars
  PROVE  ThreadTypes'
<1> USE DEF ControlInv, TypeOK, ThreadTypes, sensor, world, session, request, data,
      dVars, oVars, oLocals, DGoto, DEnd, DReturn, OGoto, RGoto, TransitionTo,
      SetSystemError, ResetSession, FinishOperation
<1>0. CASE UNCHANGED vars
  BY <1>0 DEF vars
<1>1. CASE Environment
  BY <1>1, ProcessNames DEF Environment, ProcessExits, PublishCorrection
<1>2. CASE Timers
  BY <1>2, ProcessNames DEF Timers, SensorTick, DLabels, ClaimedLabels, MonitorTick,
      MonitorIn
<1>3. CASE Requests
  BY <1>3, ProcessNames DEF Requests, HandleRecover, DLabels, ClaimedLabels, OLabels,
      StopReturns, HandleCreateMap, ClaimMap, TakeFlagForMap, HandleDeleteMap,
      HandleLoadMap, HandleStartMapping, HandleStart, StartUnless,
      HandleStartLocalization, HandleStopMapping, HandleStop, HandleStopLocalization,
      HandleSaveMap
<1>4. CASE DSensor
  BY <1>4, ProcessNames DEF DSensor, SensorClearError, DLabels, ClaimedLabels,
      SensorToReady, SensorToWait, SensorToStarting, SensorWaitingCode, SensorSetCode,
      SensorToError, SensorReadLive, SensorStop, OLabels, StopReturns
<1>5. CASE DMonitor
  BY <1>5, ProcessNames DEF DMonitor, MonitorCheck, DLabels, ClaimedLabels,
      MonitorSetCode, MonitorToError
<1>6. CASE DRequest
  BY <1>6, ProcessNames DEF DRequest, CreateMap, SetMap, DLabels, ClaimedLabels,
      DeleteMap, Leftovers, LoadMap, LoadMapOr, SelectMap, DFinish, StartCheckOwn,
      StartAdmit, StartAdmitIf, StartPrepareMap, StartSelect, StartSelects,
      StartNewSession, StartBegin, OLabels, StopReturns, SaveBegin
<1>7. CASE OStart
  BY <1>7, ProcessNames DEF OStart, OLaunch, OLabels, StopReturns, OAwaitReady,
      OActivate, OLastPose, OStartFailedCode, OStartFailedState, OStartFailedClean,
      SetMap, Leftovers
<1>8. CASE OEnd
  BY <1>8, ProcessNames DEF OEnd, OStop, OLabels, StopReturns, OStopping, OStopDone,
      OStopDoneIf, OStopToWait, OEndSession, OSave, SetMap, OSaved, OSaveCode,
      OSaveState, OSaveToWait
<1>9. CASE ORecover
  BY <1>9, ProcessNames DEF ORecover, OSweep, OLabels, StopReturns, OSensorSwept,
      ORecoverSwept, ORecoverSweptWith, ORecoverFailed, ORecoverReset, ORecoverClear,
      ORecoverTo
<1>10. CASE OThrow \/ OToError \/ OFinish
  BY <1>10, ProcessNames DEF OThrow, OThrowWith, OLabels, StopReturns, OToError, OFinish
<1>11. ASSUME NEW c \in Callbacks, RBegin(c) \/ RStep(c) PROVE ThreadTypes'
  BY <1>11, ProcessNames DEF RBegin, RStep, ObserveInitialPose, RLabels,
      ReceiveCorrection, PoseResetSession, PoseLeaveLocalized, ConfirmCheckState,
      ConfirmCheckAlive, ConfirmLocalized, ConfirmTrust
<1> QED
  BY <1>0, <1>1, <1>2, <1>3, <1>4, <1>5, <1>6, <1>7, <1>8, <1>9, <1>10, <1>11
  DEF Next, DStep, OStep

\* A request takes its map with the flag and keeps it until it gives the flag back.
LEMMA RequestHasMapStep ==
  ASSUME ControlInv, [Next]_vars
  PROVE  RequestHasMap'
<1> USE DEF ControlInv, TypeOK, RequestHasMap, sensor, world, session, request, data,
      dVars, oVars, oLocals, DGoto, DEnd, DReturn, OGoto, RGoto, TransitionTo,
      SetSystemError, ResetSession, FinishOperation
<1>0. CASE UNCHANGED vars
  BY <1>0 DEF vars
<1>1. CASE Environment
  BY <1>1 DEF Environment, ProcessExits, FlagHasOneOwner, ClaimedLabels, MapLabelsD,
      MapLabelsO, PublishCorrection
<1>2. CASE Timers
  BY <1>2 DEF Timers, SensorTick, FlagHasOneOwner, ClaimedLabels, MapLabelsD,
      MapLabelsO, MonitorTick, MonitorIn
<1>3. CASE Requests
  BY <1>3 DEF Requests, HandleRecover, FlagHasOneOwner, ClaimedLabels, MapLabelsD,
      MapLabelsO, HandleCreateMap, ClaimMap, TakeFlagForMap, HandleDeleteMap,
      HandleLoadMap, HandleStartMapping, HandleStart, StartUnless,
      HandleStartLocalization, HandleStopMapping, HandleStop, HandleStopLocalization,
      HandleSaveMap, SessionHasMap
<1>4. CASE DSensor
  BY <1>4 DEF DSensor, SensorClearError, FlagHasOneOwner, ClaimedLabels, MapLabelsD,
      MapLabelsO, SensorToReady, SensorToWait, SensorToStarting, SensorWaitingCode,
      SensorSetCode, SensorToError, SensorReadLive, SensorStop
<1>5. CASE DMonitor
  BY <1>5 DEF DMonitor, MonitorCheck, FlagHasOneOwner, ClaimedLabels, MapLabelsD,
      MapLabelsO, MonitorSetCode, MonitorToError
<1>6. CASE DRequest
  BY <1>6 DEF DRequest, CreateMap, SetMap, FlagHasOneOwner, ClaimedLabels, MapLabelsD,
      MapLabelsO, DeleteMap, Leftovers, LoadMap, LoadMapOr, SelectMap, DFinish,
      StartCheckOwn, StartAdmit, StartAdmitIf, StartPrepareMap, StartSelect,
      StartSelects, StartNewSession, StartBegin, SaveBegin
<1>7. CASE OStart
  BY <1>7 DEF OStart, OLaunch, FlagHasOneOwner, ClaimedLabels, MapLabelsD, MapLabelsO,
      OAwaitReady, ThreadTypes, StopReturns, OActivate, OLastPose, OStartFailedCode,
      OStartFailedState, OStartFailedClean, SetMap, Leftovers
<1>8. CASE OEnd
  BY <1>8 DEF OEnd, OStop, ThreadTypes, StopReturns, FlagHasOneOwner, ClaimedLabels,
      MapLabelsD, MapLabelsO, OStopping, OStopDone, OStopDoneIf, OStopToWait,
      OEndSession, OSave, SetMap, OSaved, OSaveCode, OSaveState,
      OSaveToWait
<1>9. CASE ORecover
  BY <1>9 DEF ORecover, OSweep, FlagHasOneOwner, ClaimedLabels, MapLabelsD, MapLabelsO,
      OSensorSwept, ORecoverSwept, ORecoverSweptWith, ORecoverFailed, ORecoverReset,
      ORecoverClear, ORecoverTo
<1>10. CASE OThrow \/ OToError \/ OFinish
  BY <1>10 DEF OThrow, OThrowWith, FlagHasOneOwner, ClaimedLabels, MapLabelsD,
      MapLabelsO, OToError, OFinish
<1>11. ASSUME NEW c \in Callbacks, RBegin(c) \/ RStep(c) PROVE RequestHasMap'
  BY <1>11 DEF RBegin, RStep, ObserveInitialPose, FlagHasOneOwner, ClaimedLabels,
      MapLabelsD, MapLabelsO, ReceiveCorrection, PoseResetSession, PoseLeaveLocalized,
      ConfirmCheckState, ConfirmCheckAlive, ConfirmLocalized, ConfirmTrust
<1> QED
  BY <1>0, <1>1, <1>2, <1>3, <1>4, <1>5, <1>6, <1>7, <1>8, <1>9, <1>10, <1>11
  DEF Next, DStep, OStep

\* The flag is passed from the executor thread to the operation thread, never shared.
LEMMA FlagStep ==
  ASSUME ControlInv, [Next]_vars
  PROVE  FlagHasOneOwner'
<1> USE DEF ControlInv, TypeOK, DataTypes, FlagHasOneOwner, sensor, world, session,
      request, data, dVars, oVars, oLocals, DGoto, DEnd, DReturn, OGoto, RGoto,
      TransitionTo, SetSystemError, ResetSession, FinishOperation
<1>0. CASE UNCHANGED vars
  BY <1>0 DEF vars
<1>1. CASE Environment
  BY <1>1 DEF Environment, ProcessExits, ClaimedLabels, PublishCorrection
<1>2. CASE Timers
  BY <1>2 DEF Timers, SensorTick, ClaimedLabels, MonitorTick, MonitorIn
<1>3. CASE Requests
  BY <1>3 DEF Requests, HandleRecover, ClaimedLabels, HandleCreateMap, ClaimMap,
      TakeFlagForMap, HandleDeleteMap, HandleLoadMap, HandleStartMapping, HandleStart,
      StartUnless, HandleStartLocalization, HandleStopMapping, HandleStop,
      HandleStopLocalization, HandleSaveMap
<1>4. CASE DSensor
  BY <1>4 DEF DSensor, SensorClearError, ClaimedLabels, SensorToReady, SensorToWait,
      SensorToStarting, SensorWaitingCode, SensorSetCode, SensorToError, SensorReadLive,
      SensorStop
<1>5. CASE DMonitor
  BY <1>5 DEF DMonitor, MonitorCheck, ClaimedLabels, MonitorSetCode, MonitorToError
<1>6. CASE DRequest
  BY <1>6 DEF DRequest, CreateMap, SetMap, ClaimedLabels, DeleteMap, Leftovers, LoadMap,
      LoadMapOr, SelectMap, DFinish, StartCheckOwn, StartAdmit, StartAdmitIf,
      StartPrepareMap, StartSelect, StartSelects, StartNewSession, StartBegin, SaveBegin
<1>7. CASE OStart
  BY <1>7 DEF OStart, OLaunch, ClaimedLabels, OAwaitReady, OActivate, OLastPose,
      OStartFailedCode, OStartFailedState, OStartFailedClean, SetMap, Leftovers
<1>8. CASE OEnd
  BY <1>8 DEF OEnd, OStop, ThreadTypes, StopReturns, ClaimedLabels, OStopping,
      OStopDone, OStopDoneIf, OStopToWait, OEndSession, OSave, SetMap, OSaved,
      OSaveCode, OSaveState, OSaveToWait
<1>9. CASE ORecover
  BY <1>9 DEF ORecover, OSweep, ClaimedLabels, OSensorSwept, ORecoverSwept,
      ORecoverSweptWith, ORecoverFailed, ORecoverReset, ORecoverClear, ORecoverTo
<1>10. CASE OThrow \/ OToError \/ OFinish
  BY <1>10 DEF OThrow, OThrowWith, ClaimedLabels, OToError, OFinish
<1>11. ASSUME NEW c \in Callbacks, RBegin(c) \/ RStep(c) PROVE FlagHasOneOwner'
  BY <1>11 DEF RBegin, RStep, ObserveInitialPose, ClaimedLabels, ReceiveCorrection,
      PoseResetSession, PoseLeaveLocalized, ConfirmCheckState, ConfirmCheckAlive,
      ConfirmLocalized, ConfirmTrust
<1> QED
  BY <1>0, <1>1, <1>2, <1>3, <1>4, <1>5, <1>6, <1>7, <1>8, <1>9, <1>10, <1>11
  DEF Next, DStep, OStep

\* A state that only an operation leaves is met only while that operation runs:
\* of the other threads, the sensor callback and the relocalization callbacks
\* are the ones that may move the state under it.
LEMMA OperationStep ==
  ASSUME ControlInv, [Next]_vars
  PROVE  OperationState'
<1> USE DEF ControlInv, TypeOK, DataTypes, OperationState, InStop, InSweep, StartStates,
      Starting, Expecting, TransientStates, IdleStates, LocalizationStates,
      MappingStates, sensor, world, session, request, data, dVars, oVars, oLocals,
      DGoto, DEnd, DReturn, OGoto, RGoto, TransitionTo, SetSystemError, ResetSession,
      FinishOperation
<1>0. CASE UNCHANGED vars
  BY <1>0 DEF vars
<1>1. CASE Environment
  BY <1>1 DEF Environment, ProcessExits, PublishCorrection
<1>2. CASE Timers
  BY <1>2 DEF Timers, SensorTick, HandlerState, MonitorTick, MonitorIn
<1>3. CASE Requests
  BY <1>3 DEF Requests, HandleRecover, After, CanTransition, Successors, SystemStates,
      HandlerState, FlagHasOneOwner, ClaimedLabels, ActiveSlamStates, HandleCreateMap,
      ClaimMap, TakeFlagForMap, HandleDeleteMap, HandleLoadMap, HandleStartMapping,
      HandleStart, StartUnless, HandleStartLocalization, HandleStopMapping, HandleStop,
      Stoppable, HandleStopLocalization, HandleSaveMap
<1>4. CASE DSensor
  BY <1>4 DEF DSensor, SensorClearError, HandlerState, SensorToReady, After,
      CanTransition, Successors, SystemStates, SensorToWait, SensorToStarting,
      SensorWaitingCode, SensorSetCode, SensorToError, SensorReadLive, SensorStop,
      FlagHasOneOwner, ClaimedLabels, ActiveSlamStates
<1>5. CASE DMonitor
  BY <1>5 DEF DMonitor, MonitorCheck, HandlerState, MonitorSetCode, MonitorToError,
      After, CanTransition, Successors, SystemStates, FlagHasOneOwner, ClaimedLabels,
      ActiveSlamStates
<1>6. CASE DRequest
  BY <1>6 DEF DRequest, CreateMap, SetMap, HandlerState, DeleteMap, Leftovers, LoadMap,
      LoadMapOr, SelectMap, DFinish, StartCheckOwn, StartAdmit, StartAdmitIf,
      FlagHasOneOwner, ClaimedLabels, ActiveSlamStates, StartPrepareMap, StartSelect,
      StartSelects, StartNewSession, StartBegin, After, CanTransition, Successors,
      SystemStates, SaveBegin
<1>7. CASE OStart
  BY <1>7 DEF OStart, OLaunch, OAwaitReady, ThreadTypes, StopReturns, OActivate, After,
      CanTransition, Successors, SystemStates, Active, Processes, OLastPose,
      OStartFailedCode, OStartFailedState, OStartFailedClean, SetMap, Leftovers
<1>8. CASE OEnd
  BY <1>8 DEF OEnd, OStop, ThreadTypes, StopReturns, OStopping, OStopDone, OStopDoneIf,
      Stoppable, OStopToWait, After, CanTransition, Successors, SystemStates,
      OEndSession, OSave, SetMap, OSaved, OSaveCode, OSaveState,
      OSaveToWait
<1>9. CASE ORecover
  BY <1>9 DEF ORecover, OSweep, OSensorSwept, ORecoverSwept, ORecoverSweptWith,
      ORecoverFailed, ORecoverReset, ORecoverClear, ORecoverTo, After, CanTransition,
      Successors, SystemStates
<1>10. CASE OThrow \/ OToError \/ OFinish
  BY <1>10 DEF OThrow, OThrowWith, OToError, After, CanTransition, Successors,
      SystemStates, OFinish
<1>11. ASSUME NEW c \in Callbacks, RBegin(c) \/ RStep(c) PROVE OperationState'
  BY <1>11 DEF RBegin, RStep, ObserveInitialPose, ReceiveCorrection, PoseResetSession,
      PoseLeaveLocalized, After, CanTransition, Successors, SystemStates,
      ConfirmCheckState, ConfirmCheckAlive, ConfirmLocalized, ConfirmTrust
<1> QED
  BY <1>0, <1>1, <1>2, <1>3, <1>4, <1>5, <1>6, <1>7, <1>8, <1>9, <1>10, <1>11
  DEF Next, DStep, OStep

\* What a handler saw under the mutex is still true, or harmless, where it acts:
\* only the operation thread and the callbacks move meanwhile.
LEMMA HandlerStep ==
  ASSUME ControlInv, [Next]_vars
  PROVE  HandlerState'
<1> USE DEF ControlInv, TypeOK, DataTypes, OperationState, HandlerState,
      FlagHasOneOwner, ClaimedLabels, InStop, InSweep, StartStates, Starting, Expecting,
      TransientStates, IdleStates, LocalizationStates, MappingStates, ActiveSlamStates,
      sensor, world,
      session, request, data, dVars, oVars, oLocals, DGoto, DEnd, DReturn, OGoto, RGoto,
      TransitionTo, SetSystemError, ResetSession, FinishOperation
<1>0. CASE UNCHANGED vars
  BY <1>0 DEF vars
<1>1. CASE Environment
  BY <1>1 DEF Environment, ProcessExits, PublishCorrection
<1>2. CASE Timers
  BY <1>2 DEF Timers, SensorTick, ActiveSlamStates, MonitorTick, MonitorIn
<1>3. CASE Requests
  BY <1>3 DEF Requests, HandleRecover, After, CanTransition, Successors, SystemStates,
      ActiveSlamStates, HandleCreateMap, ClaimMap, TakeFlagForMap, HandleDeleteMap,
      HandleLoadMap, HandleStartMapping, HandleStart, StartUnless,
      HandleStartLocalization, HandleStopMapping, HandleStop, Stoppable,
      HandleStopLocalization, HandleSaveMap
<1>4. CASE DSensor
  BY <1>4 DEF DSensor, SensorClearError, SensorToReady, After, CanTransition,
      Successors, SystemStates, SensorToWait, SensorToStarting, SensorWaitingCode,
      SensorSetCode, SensorToError, SensorReadLive, SensorStop, ActiveSlamStates
<1>5. CASE DMonitor
  BY <1>5 DEF DMonitor, MonitorCheck, MonitorSetCode, MonitorToError, After,
      CanTransition, Successors, SystemStates, ActiveSlamStates
<1>6. CASE DRequest
  BY <1>6 DEF DRequest, CreateMap, SetMap, DeleteMap, Leftovers, LoadMap, LoadMapOr,
      SelectMap, DFinish, StartCheckOwn, StartAdmit, StartAdmitIf, ActiveSlamStates,
      StartPrepareMap, StartSelect, StartSelects, StartNewSession, StartBegin, After,
      CanTransition, Successors, SystemStates, SaveBegin
<1>7. CASE OStart
  BY <1>7 DEF OStart, OLaunch, OAwaitReady, ThreadTypes, StopReturns, OActivate, After,
      CanTransition, Successors, SystemStates, Active, Processes, OLastPose,
      OStartFailedCode, OStartFailedState, OStartFailedClean, SetMap, Leftovers
<1>8. CASE OEnd
  BY <1>8 DEF OEnd, OStop, ThreadTypes, StopReturns, OStopping, OStopDone, OStopDoneIf,
      Stoppable, OStopToWait, After, CanTransition, Successors, SystemStates,
      OEndSession, OSave, SetMap, OSaved, OSaveCode, OSaveState,
      OSaveToWait
<1>9. CASE ORecover
  BY <1>9 DEF ORecover, OSweep, OSensorSwept, ORecoverSwept, ORecoverSweptWith,
      ORecoverFailed, ORecoverReset, ORecoverClear, ORecoverTo, After, CanTransition,
      Successors, SystemStates
<1>10. CASE OThrow \/ OToError \/ OFinish
  BY <1>10 DEF OThrow, OThrowWith, OToError, After, CanTransition, Successors,
      SystemStates, OFinish
<1>11. ASSUME NEW c \in Callbacks, RBegin(c) \/ RStep(c) PROVE HandlerState'
  BY <1>11 DEF RBegin, RStep, ObserveInitialPose, ReceiveCorrection, PoseResetSession,
      PoseLeaveLocalized, After, CanTransition, Successors, SystemStates,
      ConfirmCheckState, ConfirmCheckAlive, ConfirmLocalized, ConfirmTrust
<1> QED
  BY <1>0, <1>1, <1>2, <1>3, <1>4, <1>5, <1>6, <1>7, <1>8, <1>9, <1>10, <1>11
  DEF Next, DStep, OStep

\* The current map of a mapping session is forgotten only by the operation
\* that is ending it.
LEMMA SessionStep ==
  ASSUME ControlInv, [Next]_vars
  PROVE  SessionHasMap'
<1> USE DEF ControlInv, TypeOK, DataTypes, OperationState, HandlerState, SessionHasMap,
      FlagHasOneOwner, ClaimedLabels, InStop, InSweep, StartStates, Starting, Expecting,
      TransientStates, IdleStates, LocalizationStates, MappingStates, sensor, world,
      session, request, data, dVars, oVars, oLocals, DGoto, DEnd, DReturn, OGoto, RGoto,
      TransitionTo, SetSystemError, ResetSession, FinishOperation
<1>0. CASE UNCHANGED vars
  BY <1>0 DEF vars
<1>1. CASE Environment
  BY <1>1 DEF Environment, ProcessExits, PublishCorrection
<1>2. CASE Timers
  BY <1>2 DEF Timers, SensorTick, ActiveSlamStates, MonitorTick, MonitorIn
<1>3. CASE Requests
  BY <1>3 DEF Requests, HandleRecover, After, CanTransition, Successors, SystemStates,
      ActiveSlamStates, HandleCreateMap, ClaimMap, TakeFlagForMap, HandleDeleteMap,
      HandleLoadMap, HandleStartMapping, HandleStart, StartUnless,
      HandleStartLocalization, HandleStopMapping, HandleStop, Stoppable,
      HandleStopLocalization, HandleSaveMap
<1>4. CASE DSensor
  BY <1>4 DEF DSensor, SensorClearError, SensorToReady, After, CanTransition,
      Successors, SystemStates, SensorToWait, SensorToStarting, SensorWaitingCode,
      SensorSetCode, SensorToError, SensorReadLive, SensorStop, ActiveSlamStates
<1>5. CASE DMonitor
  BY <1>5 DEF DMonitor, MonitorCheck, MonitorSetCode, MonitorToError, After,
      CanTransition, Successors, SystemStates, ActiveSlamStates
<1>6. CASE DRequest
  BY <1>6 DEF DRequest, CreateMap, SetMap, DeleteMap, Leftovers, LoadMap, LoadMapOr,
      SelectMap, RequestHasMap, MapLabelsD, DFinish, StartCheckOwn, StartAdmit,
      StartAdmitIf, ActiveSlamStates, StartPrepareMap, StartSelect, StartSelects,
      StartNewSession, StartBegin, After, CanTransition, Successors, SystemStates,
      SaveBegin
<1>7. CASE OStart
  BY <1>7 DEF OStart, OLaunch, OAwaitReady, ThreadTypes, StopReturns, OActivate, After,
      CanTransition, Successors, SystemStates, Active, Processes, OLastPose,
      OStartFailedCode, OStartFailedState, OStartFailedClean, SetMap, Leftovers
<1>8. CASE OEnd
  BY <1>8 DEF OEnd, OStop, ThreadTypes, StopReturns, OStopping, OStopDone, OStopDoneIf,
      Stoppable, OStopToWait, After, CanTransition, Successors, SystemStates,
      OEndSession, OSave, SetMap, OSaved, OSaveCode, OSaveState,
      OSaveToWait
<1>9. CASE ORecover
  BY <1>9 DEF ORecover, OSweep, OSensorSwept, ORecoverSwept, ORecoverSweptWith,
      ORecoverFailed, ORecoverReset, ORecoverClear, ORecoverTo, After, CanTransition,
      Successors, SystemStates
<1>10. CASE OThrow \/ OToError \/ OFinish
  BY <1>10 DEF OThrow, OThrowWith, OToError, After, CanTransition, Successors,
      SystemStates, OFinish
<1>11. ASSUME NEW c \in Callbacks, RBegin(c) \/ RStep(c) PROVE SessionHasMap'
  BY <1>11 DEF RBegin, RStep, ObserveInitialPose, ReceiveCorrection, PoseResetSession,
      PoseLeaveLocalized, After, CanTransition, Successors, SystemStates,
      ConfirmCheckState, ConfirmCheckAlive, ConfirmLocalized, ConfirmTrust
<1> QED
  BY <1>0, <1>1, <1>2, <1>3, <1>4, <1>5, <1>6, <1>7, <1>8, <1>9, <1>10, <1>11
  DEF Next, DStep, OStep

\* Only OLaunch starts a process, and StartIsExclusive says the other one is down.
LEMMA MutexStep ==
  ASSUME InductiveInv, [Next]_vars
  PROVE  MutualExclusion'
<1> USE DEF InductiveInv, ControlInv, TypeOK, DataTypes, MutualExclusion, sensor, world,
      session, request, data, dVars, oVars, oLocals, DGoto, DEnd, DReturn, OGoto, RGoto,
      TransitionTo, SetSystemError, ResetSession, FinishOperation
<1>0. CASE UNCHANGED vars
  BY <1>0 DEF vars
<1>1. CASE Environment
  BY <1>1 DEF Environment, ProcessExits, Processes, PublishCorrection
<1>2. CASE Timers
  BY <1>2 DEF Timers, SensorTick, MonitorTick, MonitorIn
<1>3. CASE Requests
  BY <1>3 DEF Requests, HandleRecover, HandleCreateMap, ClaimMap, TakeFlagForMap,
      HandleDeleteMap, HandleLoadMap, HandleStartMapping, HandleStart, StartUnless,
      HandleStartLocalization, HandleStopMapping, HandleStop, HandleStopLocalization,
      HandleSaveMap
<1>4. CASE DSensor
  BY <1>4 DEF DSensor, SensorClearError, SensorToReady, SensorToWait, SensorToStarting,
      SensorWaitingCode, SensorSetCode, SensorToError, SensorReadLive, SensorStop
<1>5. CASE DMonitor
  BY <1>5 DEF DMonitor, MonitorCheck, MonitorSetCode, MonitorToError
<1>6. CASE DRequest
  BY <1>6 DEF DRequest, CreateMap, SetMap, DeleteMap, Leftovers, LoadMap, LoadMapOr,
      SelectMap, DFinish, StartCheckOwn, StartAdmit, StartAdmitIf, StartPrepareMap,
      StartSelect, StartSelects, StartNewSession, StartBegin, SaveBegin
<1>7. CASE OStart
  BY <1>7 DEF OStart, OLaunch, StartIsExclusive, ThreadTypes, Processes, OAwaitReady,
      OActivate, OLastPose, OStartFailedCode, OStartFailedState, OStartFailedClean,
      SetMap, Leftovers
<1>8. CASE OEnd
  BY <1>8 DEF OEnd, OStop, OStopping, ThreadTypes, Processes, OStopDone, OStopDoneIf,
      OStopToWait, OEndSession, OSave, SetMap, OSaved, OSaveCode, OSaveState,
      OSaveToWait
<1>9. CASE ORecover
  BY <1>9 DEF ORecover, OSweep, OSensorSwept, ORecoverSwept, ORecoverSweptWith,
      ORecoverFailed, ORecoverReset, ORecoverClear, ORecoverTo
<1>10. CASE OThrow \/ OToError \/ OFinish
  BY <1>10 DEF OThrow, OThrowWith, OToError, OFinish
<1>11. ASSUME NEW c \in Callbacks, RBegin(c) \/ RStep(c) PROVE MutualExclusion'
  BY <1>11 DEF RBegin, RStep, ObserveInitialPose, ReceiveCorrection, PoseResetSession,
      PoseLeaveLocalized, ConfirmCheckState, ConfirmCheckAlive, ConfirmLocalized,
      ConfirmTrust
<1> QED
  BY <1>0, <1>1, <1>2, <1>3, <1>4, <1>5, <1>6, <1>7, <1>8, <1>9, <1>10, <1>11
  DEF Next, DStep, OStep

\* The states that watch no process are entered only after a successful stop.
LEMMA BelongsStep ==
  ASSUME InductiveInv, [Next]_vars
  PROVE  ProcessBelongs'
<1> USE DEF InductiveInv, ControlInv, TypeOK, DataTypes, ProcessBelongs, sensor, world,
      session, request, data, dVars, oVars, oLocals, DGoto, DEnd, DReturn, OGoto, RGoto,
      TransitionTo, SetSystemError, ResetSession, FinishOperation
<1>0. CASE UNCHANGED vars
  BY <1>0 DEF vars
<1>1. CASE Environment
  BY <1>1 DEF Environment, ProcessExits, PublishCorrection
<1>2. CASE Timers
  BY <1>2 DEF Timers, SensorTick, MonitorTick, MonitorIn
<1>3. CASE Requests
  BY <1>3 DEF Requests, HandleRecover, After, CanTransition, Successors, SystemStates,
      OperationState, HandlerState, FlagHasOneOwner, ClaimedLabels, ModeOf,
      MappingStates, LocalizationStates, Expecting, Starting, Active, IdleStates,
      HandleCreateMap, ClaimMap, TakeFlagForMap, HandleDeleteMap, HandleLoadMap,
      HandleStartMapping, HandleStart, StartUnless, HandleStartLocalization,
      HandleStopMapping, HandleStop, HandleStopLocalization, HandleSaveMap
<1>4. CASE DSensor
  BY <1>4 DEF DSensor, SensorClearError, SensorToReady, After, CanTransition,
      Successors, SystemStates, OperationState, HandlerState, FlagHasOneOwner,
      ClaimedLabels, ModeOf, MappingStates, LocalizationStates, Expecting, Starting,
      Active, IdleStates, SensorToWait, SensorToStarting, SensorWaitingCode,
      SensorSetCode, SensorToError, SensorReadLive, SensorStop
<1>5. CASE DMonitor
  BY <1>5 DEF DMonitor, MonitorCheck, MonitorSetCode, MonitorToError, After,
      CanTransition, Successors, SystemStates, OperationState, HandlerState,
      FlagHasOneOwner, ClaimedLabels, ModeOf, MappingStates, LocalizationStates,
      Expecting, Starting, Active, IdleStates
<1>6. CASE DRequest
  BY <1>6 DEF DRequest, CreateMap, SetMap, DeleteMap, Leftovers, LoadMap, LoadMapOr,
      SelectMap, DFinish, StartCheckOwn, StartAdmit, StartAdmitIf, StartPrepareMap,
      StartSelect, StartSelects, StartNewSession, StartBegin, StartIsExclusive,
      Processes, ThreadTypes, After, CanTransition, Successors, SystemStates,
      OperationState, HandlerState, FlagHasOneOwner, ClaimedLabels, ModeOf,
      MappingStates, LocalizationStates, Expecting, Starting, Active, IdleStates,
      SaveBegin
<1>7. CASE OStart
  BY <1>7 DEF OStart, OLaunch, OperationState, ThreadTypes, ModeOf, StartStates,
      MappingStates, LocalizationStates, Processes, OAwaitReady, OActivate, After,
      CanTransition, Successors, SystemStates, HandlerState, FlagHasOneOwner,
      ClaimedLabels, Expecting, Starting, Active, IdleStates, OLastPose,
      OStartFailedCode, OStartFailedState, OStartFailedClean, SetMap, Leftovers
<1>8. CASE OEnd
  BY <1>8 DEF OEnd, OStop, OStopping, ThreadTypes, OStopDone, OStopDoneIf, OStopToWait,
      StoppedStaysStopped, Processes, After, CanTransition, Successors, SystemStates,
      OperationState, HandlerState, FlagHasOneOwner, ClaimedLabels, ModeOf,
      MappingStates, LocalizationStates, Expecting, Starting, Active, IdleStates,
      OEndSession, OSave, SetMap, OSaved, OSaveCode, OSaveState,
      OSaveToWait
<1>9. CASE ORecover
  BY <1>9 DEF ORecover, OSweep, OSensorSwept, ORecoverSwept, ORecoverSweptWith,
      ORecoverFailed, ORecoverReset, ORecoverClear, ORecoverTo, SweepIsComplete, After,
      CanTransition, Successors, SystemStates, OperationState, HandlerState,
      FlagHasOneOwner, ClaimedLabels, ModeOf, MappingStates, LocalizationStates,
      Expecting, Starting, Active, IdleStates
<1>10. CASE OThrow \/ OToError \/ OFinish
  BY <1>10 DEF OThrow, OThrowWith, OToError, After, CanTransition, Successors,
      SystemStates, OperationState, HandlerState, FlagHasOneOwner, ClaimedLabels,
      ModeOf, MappingStates, LocalizationStates, Expecting, Starting, Active,
      IdleStates, OFinish
<1>11. ASSUME NEW c \in Callbacks, RBegin(c) \/ RStep(c) PROVE ProcessBelongs'
  BY <1>11 DEF RBegin, RStep, ObserveInitialPose, ReceiveCorrection, PoseResetSession,
      PoseLeaveLocalized, After, CanTransition, Successors, SystemStates,
      OperationState, HandlerState, FlagHasOneOwner, ClaimedLabels, ModeOf,
      MappingStates, LocalizationStates, Expecting, Starting, Active, IdleStates,
      ConfirmCheckState, ConfirmCheckAlive, ConfirmLocalized, ConfirmTrust
<1> QED
  BY <1>0, <1>1, <1>2, <1>3, <1>4, <1>5, <1>6, <1>7, <1>8, <1>9, <1>10, <1>11
  DEF Next, DStep, OStep

\* Between the look at the other process and the launch nothing can start it.
LEMMA ExclusiveStep ==
  ASSUME InductiveInv, [Next]_vars
  PROVE  StartIsExclusive'
<1> USE DEF InductiveInv, ControlInv, TypeOK, DataTypes, StartIsExclusive, sensor,
      world, session, request, data, dVars, oVars, oLocals, DGoto, DEnd, DReturn, OGoto,
      RGoto, TransitionTo, SetSystemError, ResetSession, FinishOperation
<1>0. CASE UNCHANGED vars
  BY <1>0 DEF vars
<1>1. CASE Environment
  BY <1>1 DEF Environment, ProcessExits, PublishCorrection
<1>2. CASE Timers
  BY <1>2 DEF Timers, SensorTick, MonitorTick, MonitorIn
<1>3. CASE Requests
  BY <1>3 DEF Requests, HandleRecover, After, CanTransition, Successors, SystemStates,
      OperationState, HandlerState, FlagHasOneOwner, ClaimedLabels, ModeOf,
      MappingStates, LocalizationStates, Expecting, Starting, Active, IdleStates,
      HandleCreateMap, ClaimMap, TakeFlagForMap, HandleDeleteMap, HandleLoadMap,
      HandleStartMapping, HandleStart, StartUnless, Processes, HandleStartLocalization,
      HandleStopMapping, HandleStop, HandleStopLocalization, HandleSaveMap
<1>4. CASE DSensor
  BY <1>4 DEF DSensor, SensorClearError, SensorToReady, After, CanTransition,
      Successors, SystemStates, OperationState, HandlerState, FlagHasOneOwner,
      ClaimedLabels, ModeOf, MappingStates, LocalizationStates, Expecting, Starting,
      Active, IdleStates, SensorToWait, SensorToStarting, SensorWaitingCode,
      SensorSetCode, SensorToError, SensorReadLive, SensorStop
<1>5. CASE DMonitor
  BY <1>5 DEF DMonitor, MonitorCheck, MonitorSetCode, MonitorToError, After,
      CanTransition, Successors, SystemStates, OperationState, HandlerState,
      FlagHasOneOwner, ClaimedLabels, ModeOf, MappingStates, LocalizationStates,
      Expecting, Starting, Active, IdleStates
<1>6. CASE DRequest
  BY <1>6 DEF DRequest, CreateMap, SetMap, DeleteMap, Leftovers, LoadMap, LoadMapOr,
      SelectMap, DFinish, StartCheckOwn, StartAdmit, StartAdmitIf, ModeOf,
      MappingStates, LocalizationStates, ThreadTypes, Processes, StartPrepareMap,
      StartSelect, StartSelects, StartNewSession, StartBegin, After, CanTransition,
      Successors, SystemStates, OperationState, HandlerState, FlagHasOneOwner,
      ClaimedLabels, Expecting, Starting, Active, IdleStates, SaveBegin
<1>7. CASE OStart
  BY <1>7 DEF OStart, OLaunch, OperationState, ThreadTypes, ModeOf, StartStates,
      MappingStates, LocalizationStates, Processes, FlagHasOneOwner, ClaimedLabels,
      OAwaitReady, OActivate, After, CanTransition, Successors, SystemStates,
      HandlerState, Expecting, Starting, Active, IdleStates, OLastPose,
      OStartFailedCode, OStartFailedState, OStartFailedClean, SetMap, Leftovers
<1>8. CASE OEnd
  BY <1>8 DEF OEnd, OStop, ThreadTypes, StopReturns, OStopping, OStopDone, OStopDoneIf,
      OStopToWait, StoppedStaysStopped, Processes, ProcessBelongs, After, CanTransition,
      Successors, SystemStates, OperationState, HandlerState, FlagHasOneOwner,
      ClaimedLabels, ModeOf, MappingStates, LocalizationStates, Expecting, Starting,
      Active, IdleStates, OEndSession, OSave, SetMap, OSaved, OSaveCode, OSaveState,
      OSaveToWait
<1>9. CASE ORecover
  BY <1>9 DEF ORecover, OSweep, OSensorSwept, ORecoverSwept, ORecoverSweptWith,
      ORecoverFailed, ORecoverReset, ORecoverClear, ORecoverTo, SweepIsComplete, After,
      CanTransition, Successors, SystemStates, OperationState, HandlerState,
      FlagHasOneOwner, ClaimedLabels, ModeOf, MappingStates, LocalizationStates,
      Expecting, Starting, Active, IdleStates
<1>10. CASE OThrow \/ OToError \/ OFinish
  BY <1>10 DEF OThrow, OThrowWith, OToError, After, CanTransition, Successors,
      SystemStates, OperationState, HandlerState, FlagHasOneOwner, ClaimedLabels,
      ModeOf, MappingStates, LocalizationStates, Expecting, Starting, Active,
      IdleStates, OFinish
<1>11. ASSUME NEW c \in Callbacks, RBegin(c) \/ RStep(c) PROVE StartIsExclusive'
  BY <1>11 DEF RBegin, RStep, ObserveInitialPose, ReceiveCorrection, PoseResetSession,
      PoseLeaveLocalized, After, CanTransition, Successors, SystemStates,
      OperationState, HandlerState, FlagHasOneOwner, ClaimedLabels, ModeOf,
      MappingStates, LocalizationStates, Expecting, Starting, Active, IdleStates,
      ConfirmCheckState, ConfirmCheckAlive, ConfirmLocalized, ConfirmTrust
<1> QED
  BY <1>0, <1>1, <1>2, <1>3, <1>4, <1>5, <1>6, <1>7, <1>8, <1>9, <1>10, <1>11
  DEF Next, DStep, OStep

\* A process that was stopped stays down: nobody else holds the flag.
LEMMA StoppedStep ==
  ASSUME InductiveInv, [Next]_vars
  PROVE  StoppedStaysStopped'
<1> USE DEF InductiveInv, ControlInv, TypeOK, DataTypes, ThreadTypes,
      StoppedStaysStopped, FlagHasOneOwner, ClaimedLabels, sensor, world, session,
      request, data, dVars, oVars, oLocals, DGoto, DEnd, DReturn, OGoto, RGoto,
      TransitionTo, SetSystemError, ResetSession, FinishOperation
<1>0. CASE UNCHANGED vars
  BY <1>0 DEF vars
<1>1. CASE Environment
  BY <1>1 DEF Environment, ProcessExits, PublishCorrection
<1>2. CASE Timers
  BY <1>2 DEF Timers, SensorTick, MonitorTick, MonitorIn
<1>3. CASE Requests
  BY <1>3 DEF Requests, HandleRecover, HandleCreateMap, ClaimMap, TakeFlagForMap,
      HandleDeleteMap, HandleLoadMap, HandleStartMapping, HandleStart, StartUnless,
      HandleStartLocalization, HandleStopMapping, HandleStop, HandleStopLocalization,
      HandleSaveMap
<1>4. CASE DSensor
  BY <1>4 DEF DSensor, SensorClearError, SensorToReady, SensorToWait, SensorToStarting,
      SensorWaitingCode, SensorSetCode, SensorToError, SensorReadLive, SensorStop
<1>5. CASE DMonitor
  BY <1>5 DEF DMonitor, MonitorCheck, MonitorSetCode, MonitorToError
<1>6. CASE DRequest
  BY <1>6 DEF DRequest, CreateMap, SetMap, DeleteMap, Leftovers, LoadMap, LoadMapOr,
      SelectMap, DFinish, StartCheckOwn, StartAdmit, StartAdmitIf, StartPrepareMap,
      StartSelect, StartSelects, StartNewSession, StartBegin, SaveBegin
<1>7. CASE OStart
  BY <1>7 DEF OStart, OLaunch, OAwaitReady, OActivate, OLastPose, OStartFailedCode,
      OStartFailedState, OStartFailedClean, SetMap, Leftovers
<1>8. CASE OEnd
  BY <1>8 DEF OEnd, OStop, StopReturns, OStopping, OStopDone, OStopDoneIf, OStopToWait,
      OEndSession, OSave, SetMap, OSaved, OSaveCode, OSaveState,
      OSaveToWait
<1>9. CASE ORecover
  BY <1>9 DEF ORecover, OSweep, OSensorSwept, ORecoverSwept, ORecoverSweptWith,
      ORecoverFailed, ORecoverReset, ORecoverClear, ORecoverTo
<1>10. CASE OThrow \/ OToError \/ OFinish
  BY <1>10 DEF OThrow, OThrowWith, OToError, OFinish
<1>11. ASSUME NEW c \in Callbacks, RBegin(c) \/ RStep(c) PROVE StoppedStaysStopped'
  BY <1>11 DEF RBegin, RStep, ObserveInitialPose, ReceiveCorrection, PoseResetSession,
      PoseLeaveLocalized, ConfirmCheckState, ConfirmCheckAlive, ConfirmLocalized,
      ConfirmTrust
<1> QED
  BY <1>0, <1>1, <1>2, <1>3, <1>4, <1>5, <1>6, <1>7, <1>8, <1>9, <1>10, <1>11
  DEF Next, DStep, OStep

\* The sweep of a recovery visits every process.
LEMMA SweepStep ==
  ASSUME InductiveInv, [Next]_vars
  PROVE  SweepIsComplete'
<1> USE DEF InductiveInv, ControlInv, TypeOK, DataTypes, SweepIsComplete, InSweep,
      FlagHasOneOwner, ClaimedLabels, sensor, world, session, request, data, dVars,
      oVars, oLocals, DGoto, DEnd, DReturn, OGoto, RGoto, TransitionTo, SetSystemError,
      ResetSession, FinishOperation
<1>0. CASE UNCHANGED vars
  BY <1>0 DEF vars
<1>1. CASE Environment
  BY <1>1 DEF Environment, ProcessExits, PublishCorrection
<1>2. CASE Timers
  BY <1>2 DEF Timers, SensorTick, MonitorTick, MonitorIn
<1>3. CASE Requests
  BY <1>3 DEF Requests, HandleRecover, Processes, HandleCreateMap, ClaimMap,
      TakeFlagForMap, HandleDeleteMap, HandleLoadMap, HandleStartMapping, HandleStart,
      StartUnless, HandleStartLocalization, HandleStopMapping, HandleStop,
      HandleStopLocalization, HandleSaveMap
<1>4. CASE DSensor
  BY <1>4 DEF DSensor, SensorClearError, SensorToReady, SensorToWait, SensorToStarting,
      SensorWaitingCode, SensorSetCode, SensorToError, SensorReadLive, SensorStop
<1>5. CASE DMonitor
  BY <1>5 DEF DMonitor, MonitorCheck, MonitorSetCode, MonitorToError
<1>6. CASE DRequest
  BY <1>6 DEF DRequest, CreateMap, SetMap, DeleteMap, Leftovers, LoadMap, LoadMapOr,
      SelectMap, DFinish, StartCheckOwn, StartAdmit, StartAdmitIf, StartPrepareMap,
      StartSelect, StartSelects, StartNewSession, StartBegin, SaveBegin
<1>7. CASE OStart
  BY <1>7 DEF OStart, OLaunch, OAwaitReady, OActivate, OLastPose, OStartFailedCode,
      OStartFailedState, OStartFailedClean, SetMap, Leftovers
<1>8. CASE OEnd
  BY <1>8 DEF OEnd, OStop, ThreadTypes, StopReturns, Processes, OStopping, OStopDone,
      OStopDoneIf, OStopToWait, OEndSession, OSave, SetMap, OSaved, OSaveCode,
      OSaveState, OSaveToWait
<1>9. CASE ORecover
  BY <1>9 DEF ORecover, OSweep, OperationState, ThreadTypes, OSensorSwept,
      ORecoverSwept, ORecoverSweptWith, StoppedStaysStopped, ORecoverFailed,
      ORecoverReset, ORecoverClear, ORecoverTo
<1>10. CASE OThrow \/ OToError \/ OFinish
  BY <1>10 DEF OThrow, OThrowWith, OToError, OFinish
<1>11. ASSUME NEW c \in Callbacks, RBegin(c) \/ RStep(c) PROVE SweepIsComplete'
  BY <1>11 DEF RBegin, RStep, ObserveInitialPose, ReceiveCorrection, PoseResetSession,
      PoseLeaveLocalized, ConfirmCheckState, ConfirmCheckAlive, ConfirmLocalized,
      ConfirmTrust
<1> QED
  BY <1>0, <1>1, <1>2, <1>3, <1>4, <1>5, <1>6, <1>7, <1>8, <1>9, <1>10, <1>11
  DEF Next, DStep, OStep

\* A process found dead by the monitor is not restarted before it has reported.
LEMMA ExitStep ==
  ASSUME InductiveInv, [Next]_vars
  PROVE  ExitStays'
<1> USE DEF InductiveInv, ControlInv, TypeOK, DataTypes, ExitStays, HandlerState,
      FlagHasOneOwner, ClaimedLabels, ThreadTypes, sensor, world, session, request,
      data, dVars, oVars, oLocals, DGoto, DEnd, DReturn, OGoto, RGoto, TransitionTo,
      SetSystemError, ResetSession, FinishOperation
<1>0. CASE UNCHANGED vars
  BY <1>0 DEF vars
<1>1. CASE Environment
  BY <1>1 DEF Environment, ProcessExits, PublishCorrection
<1>2. CASE Timers
  BY <1>2 DEF Timers, SensorTick, MonitorTick, MonitorIn
<1>3. CASE Requests
  BY <1>3 DEF Requests, HandleRecover, HandleCreateMap, ClaimMap, TakeFlagForMap,
      HandleDeleteMap, HandleLoadMap, HandleStartMapping, HandleStart, StartUnless,
      HandleStartLocalization, HandleStopMapping, HandleStop, HandleStopLocalization,
      HandleSaveMap
<1>4. CASE DSensor
  BY <1>4 DEF DSensor, SensorClearError, SensorToReady, SensorToWait, SensorToStarting,
      SensorWaitingCode, SensorSetCode, SensorToError, SensorReadLive, SensorStop
<1>5. CASE DMonitor
  BY <1>5 DEF DMonitor, MonitorCheck, MonitorSetCode, MonitorToError
<1>6. CASE DRequest
  BY <1>6 DEF DRequest, CreateMap, SetMap, DeleteMap, Leftovers, LoadMap, LoadMapOr,
      SelectMap, DFinish, StartCheckOwn, StartAdmit, StartAdmitIf, StartPrepareMap,
      StartSelect, StartSelects, StartNewSession, StartBegin, SaveBegin
<1>7. CASE OStart
  BY <1>7 DEF OStart, OLaunch, OAwaitReady, OActivate, OLastPose, OStartFailedCode,
      OStartFailedState, OStartFailedClean, SetMap, Leftovers
<1>8. CASE OEnd
  BY <1>8 DEF OEnd, OStop, OStopping, OStopDone, OStopDoneIf, OStopToWait, OEndSession,
      OSave, SetMap, OSaved, OSaveCode, OSaveState, OSaveToWait
<1>9. CASE ORecover
  BY <1>9 DEF ORecover, OSweep, OSensorSwept, ORecoverSwept, ORecoverSweptWith,
      ORecoverFailed, ORecoverReset, ORecoverClear, ORecoverTo
<1>10. CASE OThrow \/ OToError \/ OFinish
  BY <1>10 DEF OThrow, OThrowWith, OToError, OFinish
<1>11. ASSUME NEW c \in Callbacks, RBegin(c) \/ RStep(c) PROVE ExitStays'
  BY <1>11 DEF RBegin, RStep, ObserveInitialPose, ReceiveCorrection, PoseResetSession,
      PoseLeaveLocalized, ConfirmCheckState, ConfirmCheckAlive, ConfirmLocalized,
      ConfirmTrust
<1> QED
  BY <1>0, <1>1, <1>2, <1>3, <1>4, <1>5, <1>6, <1>7, <1>8, <1>9, <1>10, <1>11
  DEF Next, DStep, OStep

-----------------------------------------------------------------------------
(* The theorems.                                                             *)

\* The system starts in the invariant, whatever auto-start did.
LEMMA InitInv == Init => InductiveInv
<1> SUFFICES ASSUME Init PROVE InductiveInv
  OBVIOUS
<1> USE AutoStartAssumption, ConstantsAssumption DEF Init
<1>1. DataTypes
  <2>1. \A S : \A p \in Processes : (p \in S) \in BOOLEAN
    OBVIOUS
  <2>2. running \in [Processes -> BOOLEAN]
    <3>1. PICK S : running = [p \in Processes |-> p \in S]
      OBVIOUS
    <3> HIDE DEF Init
    <3> QED
      BY <2>1, <3>1, Zenon
  <2>3. failureAge \in 0..(GraceTicks + 1)
    BY SMT
  <2>4. state \in SystemStates /\ errorCode \in ErrorCodes
    BY DEF SystemStates, ErrorCodes, NoError
  <2> QED
    BY <2>2, <2>3, <2>4 DEF DataTypes
<1>2. ThreadTypes
  BY ProcessNames DEF ThreadTypes, DLabels, OLabels, RLabels, StopReturns
<1>3. RequestHasMap
  BY DEF RequestHasMap, MapLabelsD, MapLabelsO, ClaimedLabels
<1>4. FlagHasOneOwner
  BY DEF FlagHasOneOwner, ClaimedLabels
<1>5. OperationState /\ HandlerState /\ SessionHasMap
  BY DEF OperationState, HandlerState, SessionHasMap, TransientStates, InStop, InSweep
<1>6. MutualExclusion
  BY DEF MutualExclusion, Processes
<1>7. ProcessBelongs
  BY DEF ProcessBelongs, ModeOf, MappingStates, LocalizationStates
<1>8. StartIsExclusive /\ StoppedStaysStopped /\ SweepIsComplete /\ ExitStays
  BY DEF StartIsExclusive, StoppedStaysStopped, SweepIsComplete, ExitStays, InSweep
<1> QED
  BY <1>1, <1>2, <1>3, <1>4, <1>5, <1>6, <1>7, <1>8 DEF InductiveInv, ControlInv, TypeOK

\* Every step keeps the invariant: the step lemmas, part by part.
LEMMA NextInv == InductiveInv /\ [Next]_vars => InductiveInv'
<1> SUFFICES ASSUME InductiveInv, [Next]_vars PROVE InductiveInv'
  OBVIOUS
<1>1. ControlInv
  BY DEF InductiveInv
<1>2. TypeOK'
  BY <1>1, DataTypesStep, ThreadTypesStep, RequestHasMapStep DEF TypeOK
<1>3. ControlInv'
  BY <1>1, <1>2, FlagStep, OperationStep, HandlerStep, SessionStep DEF ControlInv
<1> QED
  BY <1>3, MutexStep, BelongsStep, ExclusiveStep, StoppedStep, SweepStep, ExitStep
  DEF InductiveInv

\* The inductive invariant holds in every reachable state.
THEOREM InductiveInvariant == Spec => []InductiveInv
BY InitInv, NextInv, PTL DEF Spec

\* Every variable keeps its type, and wherever a handler or an operation uses
\* the map of its request there is one.
THEOREM TypesCorrect == Spec => []TypeOK
<1>1. InductiveInv => TypeOK
  BY DEF InductiveInv, ControlInv
<1> QED
  BY <1>1, InductiveInvariant, PTL

\* Mapping and localization never run together: for every set of maps, every
\* number of callbacks, and processes that may survive SIGKILL.
THEOREM NeverBoth == Spec => []MutualExclusion
<1>1. InductiveInv => MutualExclusion
  BY DEF InductiveInv
<1> QED
  BY <1>1, InductiveInvariant, PTL

\* operation_in_progress_ always has exactly one owner while it is set.
THEOREM OneOwner == Spec => []FlagHasOneOwner
<1>1. InductiveInv => FlagHasOneOwner
  BY DEF InductiveInv, ControlInv
<1> QED
  BY <1>1, InductiveInvariant, PTL

\* Without an operation a process that was not started with the node runs only
\* in a state that watches it or in ERROR.
THEOREM NoHiddenProcess == Spec => []ProcessHasMode
<1>1. ASSUME InductiveInv PROVE ProcessHasMode
  <2> SUFFICES ASSUME ~opInProgress, NEW p \in Processes \ AutoStart, running[p]
               PROVE  state \in Expecting(p) \cup {"ERROR"}
    BY DEF ProcessHasMode
  <2>1. state \notin TransientStates
    BY <1>1 DEF InductiveInv, ControlInv, FlagHasOneOwner, OperationState
  <2>2. ModeOf(state) \in {p, "failed"}
    BY <1>1 DEF InductiveInv, ProcessBelongs
  <2> QED
    BY <2>1, <2>2 DEF ModeOf, Processes, Expecting, TransientStates, MappingStates,
                      LocalizationStates
<1> QED
  BY <1>1, InductiveInvariant, PTL

\* What monitorProcesses reports is down, ends the session that expects it, and
\* is not the doing of an operation under way.  It may be that of a failed start,
\* which has ended.
THEOREM MonitorIsRight == Spec => []MonitorSeesRealExit
<1>1. InductiveInv => MonitorSeesRealExit
  BY DEF InductiveInv, ControlInv, HandlerState, ExitStays, MonitorSeesRealExit
<1> QED
  BY <1>1, InductiveInvariant, PTL

\* The sensor callback turns to ERROR a session or what is left of one, though
\* it applies transitionTo(ERROR) to a state it has not looked at: while it was
\* between the two, a stop or a save may have ended the session, but neither a
\* recovery can have begun nor the sensor have been waited for anew.
StaleErrorsEndSessions ==
  [][SensorToError => state \in ActiveSlamStates \cup {"WAIT_MODE", "ERROR"}]_vars

THEOREM StaleErrorsAreHarmless == Spec => StaleErrorsEndSessions
<1>1. InductiveInv => (SensorToError => state \in ActiveSlamStates \cup {"WAIT_MODE", "ERROR"})
  BY DEF InductiveInv, ControlInv, HandlerState, SensorToError, DGoto
<1> QED
  BY <1>1, InductiveInvariant, PTL DEF StaleErrorsEndSessions

\* A start or save request that was admitted enters its starting state: the
\* branches for a state that changed meanwhile are never taken.
THEOREM AdmittedProceeds == Spec => []AdmittedRequestProceeds
<1>1. ASSUME InductiveInv PROVE AdmittedRequestProceeds
  <2>1. HandlerState
    BY <1>1 DEF InductiveInv, ControlInv
  <2> QED
    BY <2>1 DEF HandlerState, AdmittedRequestProceeds, CanTransition, Successors, Starting
<1> QED
  BY <1>1, InductiveInvariant, PTL

\* Recovery leaves RECOVERING for a usable state only with both processes down.
THEOREM RecoveryIsComplete == Spec => RecoveryStopsEverything
<1> DEFINE Stops ==
      state = "RECOVERING" /\ state' \in {"WAIT_MODE", "SENSOR_STARTING"} =>
        \A p \in Processes : ~running[p]
<1>1. ASSUME InductiveInv, [Next]_vars PROVE Stops
  <2> SUFFICES ASSUME state = "RECOVERING", state' \in {"WAIT_MODE", "SENSOR_STARTING"}
               PROVE  \A p \in Processes : ~running[p]
    OBVIOUS
  <2> USE DEF ControlInv, OperationState, HandlerState, FlagHasOneOwner, ClaimedLabels,
        sensor, world, session, request, data, dVars, oVars, oLocals, DGoto, DEnd,
        DReturn, OGoto, RGoto, TransitionTo, SetSystemError, ResetSession,
        FinishOperation
  <2>0. CASE UNCHANGED vars
    BY <2>0 DEF vars, data
  <2>1. CASE Environment
    BY <1>1, <2>1 DEF Environment, ProcessExits, PublishCorrection, InductiveInv
  <2>2. CASE Timers
    BY <1>1, <2>2 DEF Timers, SensorTick, MonitorTick, MonitorIn, InductiveInv
  <2>3. CASE Requests
    BY <1>1, <2>3 DEF Requests, HandleRecover, After, CanTransition, Successors,
        HandleCreateMap, ClaimMap, TakeFlagForMap, HandleDeleteMap, HandleLoadMap,
        HandleStartMapping, HandleStart, StartUnless, HandleStartLocalization,
        HandleStopMapping, HandleStop, HandleStopLocalization, HandleSaveMap,
        InductiveInv
  <2>4. CASE DSensor
    BY <1>1, <2>4 DEF DSensor, SensorClearError, SensorToReady, After, CanTransition,
        Successors, SensorToWait, SensorToStarting, SensorWaitingCode, SensorSetCode,
        SensorToError, SensorReadLive, SensorStop, InductiveInv
  <2>5. CASE DMonitor
    BY <1>1, <2>5 DEF DMonitor, MonitorCheck, MonitorSetCode, MonitorToError, After,
        CanTransition, Successors, InductiveInv
  <2>6. CASE DRequest
    BY <1>1, <2>6 DEF DRequest, CreateMap, SetMap, DeleteMap, Leftovers, LoadMap,
        LoadMapOr, SelectMap, DFinish, StartCheckOwn, StartAdmit, StartAdmitIf,
        StartPrepareMap, StartSelect, StartSelects, StartNewSession, StartBegin, After,
        CanTransition, Successors, SaveBegin, InductiveInv, Active, Starting
  <2>7. CASE OStart
    BY <1>1, <2>7 DEF OStart, OLaunch, OAwaitReady, OActivate, After, CanTransition,
        Successors, OLastPose, OStartFailedCode, OStartFailedState, OStartFailedClean,
        SetMap, Leftovers, InductiveInv, Active, StartStates, LocalizationStates
  <2>8. CASE OEnd
    BY <1>1, <2>8 DEF OEnd, OStop, OStopping, OStopDone, OStopDoneIf, OStopToWait,
        After, CanTransition, Successors, OEndSession, OSave, SetMap, OSaved, OSaveCode,
        OSaveState, OSaveToWait, InductiveInv, Expecting, InStop
  <2>9. CASE ORecover
    BY <1>1, <2>9 DEF ORecover, OSweep, OSensorSwept, ORecoverSwept, ORecoverSweptWith,
        ORecoverFailed, ORecoverReset, ORecoverClear, ORecoverTo, After, CanTransition,
        Successors, InductiveInv, SweepIsComplete
  <2>10. CASE OThrow \/ OToError \/ OFinish
    BY <1>1, <2>10 DEF OThrow, OThrowWith, OToError, After, CanTransition, Successors,
        OFinish, InductiveInv
  <2>11. ASSUME NEW c \in Callbacks, RBegin(c) \/ RStep(c) PROVE Stops
    BY <1>1, <2>11 DEF RBegin, RStep, ObserveInitialPose, ReceiveCorrection,
        PoseResetSession, PoseLeaveLocalized, After, CanTransition, Successors,
        ConfirmCheckState, ConfirmCheckAlive, ConfirmLocalized, ConfirmTrust,
        InductiveInv
  <2> QED
    BY <1>1, <2>0, <2>1, <2>2, <2>3, <2>4, <2>5, <2>6, <2>7, <2>8, <2>9, <2>10, <2>11 DEF Next, DStep, OStep
<1> QED
  BY <1>1, InductiveInvariant, PTL DEF Spec, RecoveryStopsEverything

-----------------------------------------------------------------------------
(* SystemManager implements SlamModes.  A step of a thread is first sorted   *)
(* by what it does to the mode, to the flag and to the processes; each sort  *)
(* is then a step of SlamModes or a stutter.                                 *)
Settled ==
  \A p \in Processes : running[p] => ModeOf(state) \in {p, "failed"} \/ p \in AutoStart

SlotEmpty == \A p \in Processes : ~running[p]

\* What a step may do to the mode, the flag and the processes.
ModeMoves ==
  \/ /\ ModeOf(state') = ModeOf(state) /\ running' = running
     /\ \/ opInProgress' = opInProgress
        \/ ~opInProgress /\ opInProgress' = TRUE
        \/ opInProgress /\ opInProgress' = FALSE /\ Settled
  \/ /\ ModeOf(state') = ModeOf(state) /\ opInProgress' = opInProgress
     /\ \E p \in Processes :
          \/ running[p] /\ running' = [running EXCEPT ![p] = FALSE]
          \/ /\ opInProgress /\ SlotEmpty /\ ModeOf(state) \in {p, "failed"}
             /\ running' = [running EXCEPT ![p] = TRUE]
  \/ /\ opInProgress' = opInProgress /\ running' = running
     /\ ModeOf(state') # ModeOf(state)
     /\ \/ ModeOf(state') = "failed"
        \/ opInProgress /\ (ModeOf(state') = "idle" => SlotEmpty)

\* Every lock section moves mode, flag and processes in one of the ways above.
LEMMA MovesStep ==
  ASSUME InductiveInv, [Next]_vars
  PROVE  ModeMoves
<1> USE DEF InductiveInv, ControlInv, ModeMoves, After, ModeOf, sensor, world, session,
      request, data, dVars, oVars, oLocals, DGoto, DEnd, DReturn, OGoto, RGoto,
      TransitionTo, SetSystemError, ResetSession, FinishOperation
<1>0. CASE UNCHANGED vars
  BY <1>0 DEF vars
<1>1. CASE Environment
  BY <1>1 DEF Environment, ProcessExits, PublishCorrection
<1>2. CASE Timers
  BY <1>2 DEF Timers, SensorTick, MonitorTick, MonitorIn
<1>3. CASE Requests
  BY <1>3 DEF Requests, HandleRecover, HandleCreateMap, ClaimMap, TakeFlagForMap,
      HandleDeleteMap, HandleLoadMap, HandleStartMapping, HandleStart, StartUnless,
      HandleStartLocalization, HandleStopMapping, HandleStop, HandleStopLocalization,
      HandleSaveMap
<1>4. CASE DSensor
  BY <1>4 DEF DSensor, SensorClearError, SensorToReady, SensorToWait, SensorToStarting,
      SensorWaitingCode, SensorSetCode, SensorToError, SensorReadLive, SensorStop,
      HandlerState, LocalizationStates, MappingStates
<1>5. CASE DMonitor
  BY <1>5 DEF DMonitor, MonitorCheck, MonitorSetCode, MonitorToError
<1>6. CASE DRequest
  BY <1>6 DEF DRequest, CreateMap, SetMap, DeleteMap, Leftovers, LoadMap, LoadMapOr,
      SelectMap, DFinish, StartCheckOwn, StartAdmit, StartAdmitIf, StartPrepareMap,
      StartSelect, StartSelects, StartNewSession, StartBegin, SaveBegin, Settled,
      HandlerState, FlagHasOneOwner, ClaimedLabels, LocalizationStates, MappingStates,
      ProcessBelongs
<1>7. CASE OStart
  BY <1>7 DEF OStart, OLaunch, OAwaitReady, OActivate, OLastPose, OStartFailedCode,
      OStartFailedState, OStartFailedClean, SetMap, Leftovers, TypeOK, DataTypes,
      SlotEmpty, OperationState, FlagHasOneOwner, StartStates, LocalizationStates,
      MappingStates, Active, Processes, StartIsExclusive
<1>8. CASE OEnd
  <2> USE DEF TypeOK, DataTypes, ThreadTypes, SlotEmpty, OperationState,
        FlagHasOneOwner, Expecting, LocalizationStates
  <2>1. CASE OStop
    BY <2>1 DEF OStop
  <2>2. CASE OStopping
    <3>1. oProc \in Processes /\ running \in [Processes -> BOOLEAN]
      OBVIOUS
    <3>2. ModeOf(state') = ModeOf(state) /\ opInProgress' = opInProgress
      BY <2>2 DEF OStopping
    <3>3. running' = running \/ running' = [running EXCEPT ![oProc] = FALSE]
      BY <2>2 DEF OStopping
    <3>4. CASE running' = running
      BY <3>2, <3>4
    <3>5. CASE running[oProc] /\ running' = [running EXCEPT ![oProc] = FALSE]
      BY <3>1, <3>2, <3>5
    <3>6. ~running[oProc] => [running EXCEPT ![oProc] = FALSE] = running
      BY <3>1
    <3> QED
      BY <3>3, <3>4, <3>5, <3>6
  <2>3. CASE OStopDone
    BY <2>3 DEF OStopDone, OStopDoneIf
  <2>4. CASE OStopToWait
    BY <2>4 DEF OStopToWait, After, CanTransition, Successors, SystemStates, ModeOf,
        Processes, ProcessBelongs, StoppedStaysStopped
  <2>5. CASE OEndSession
    BY <2>5 DEF OEndSession
  <2>6. CASE OSave
    BY <2>6 DEF OSave, SetMap
  <2>7. CASE OSaved
    BY <2>7 DEF OSaved, SetMap
  <2>8. CASE OSaveCode
    BY <2>8 DEF OSaveCode
  <2>9. CASE OSaveState
    BY <2>9 DEF OSaveState
  <2>10. CASE OSaveToWait
    BY <2>10 DEF OSaveToWait, After, CanTransition, Successors, SystemStates, ModeOf,
        Processes, ProcessBelongs, StoppedStaysStopped
  <2> QED
    BY <1>8, <2>1, <2>2, <2>3, <2>4, <2>5, <2>6, <2>7, <2>8, <2>9, <2>10 DEF OEnd
<1>9. CASE ORecover
  BY <1>9 DEF ORecover, OSweep, OSensorSwept, ORecoverSwept, ORecoverSweptWith,
      ORecoverFailed, ORecoverReset, ORecoverClear, ORecoverTo, SlotEmpty,
      FlagHasOneOwner, SweepIsComplete
<1>10. CASE OThrow \/ OToError \/ OFinish
  BY <1>10 DEF OThrow, OThrowWith, OToError, OFinish, Settled, FlagHasOneOwner,
      ProcessBelongs
<1>11. ASSUME NEW c \in Callbacks, RBegin(c) \/ RStep(c) PROVE ModeMoves
  BY <1>11 DEF RBegin, RStep, ObserveInitialPose, ReceiveCorrection, PoseResetSession,
      PoseLeaveLocalized, ConfirmCheckState, ConfirmCheckAlive, ConfirmLocalized,
      ConfirmTrust, LocalizationStates, CanTransition, Successors
<1> QED
  BY <1>0, <1>1, <1>2, <1>3, <1>4, <1>5, <1>6, <1>7, <1>8, <1>9, <1>10, <1>11
  DEF Next, DStep, OStep

\* Each sort of step is a step of SlamModes.
LEMMA MovesAreModes ==
  ASSUME InductiveInv, ModeMoves
  PROVE  [Modes!Next]_(Modes!vars)
<1> DEFINE live == {p \in Processes : running[p]}
<1>1. running \in [Processes -> BOOLEAN] /\ opInProgress \in BOOLEAN
  BY DEF InductiveInv, ControlInv, TypeOK, DataTypes
<1>2. ModeOf(state') \in Processes \cup {"idle", "failed"}
  BY DEF ModeOf, Processes
<1>3. CASE ModeOf(state') = ModeOf(state) /\ running' = running
  <2>1. live' = live
    BY <1>3
  <2>2. CASE opInProgress' = opInProgress
    BY <1>3, <2>1, <2>2 DEF Modes!vars
  <2>3. CASE ~opInProgress /\ opInProgress' = TRUE
    BY <1>3, <2>1, <2>3 DEF Modes!Next, Modes!Begin
  <2>4. CASE opInProgress /\ opInProgress' = FALSE /\ Settled
    <3>1. ModeOf(state) = "failed" \/ live \subseteq AutoStart \cup {ModeOf(state)}
      BY <2>4 DEF Settled
    <3> QED
      BY <1>3, <2>1, <2>4, <3>1 DEF Modes!Next, Modes!End
  <2> QED
    BY <1>1, <1>3, <2>2, <2>3, <2>4 DEF ModeMoves
<1>4. ASSUME ModeOf(state') = ModeOf(state), opInProgress' = opInProgress,
             NEW p \in Processes, running[p], running' = [running EXCEPT ![p] = FALSE]
      PROVE  Modes!Next
  <2>1. p \in live /\ live' = live \ {p}
    BY <1>1, <1>4
  <2> QED
    BY <1>4, <2>1 DEF Modes!Next, Modes!Exit
<1>5. ASSUME ModeOf(state') = ModeOf(state), opInProgress' = opInProgress,
             NEW p \in Processes, opInProgress, SlotEmpty, ModeOf(state) \in {p, "failed"},
             running' = [running EXCEPT ![p] = TRUE]
      PROVE  Modes!Next
  <2>1. live = {} /\ live' = {p}
    BY <1>1, <1>5 DEF SlotEmpty
  <2> QED
    BY <1>5, <2>1 DEF Modes!Next, Modes!Start
<1>6. CASE /\ opInProgress' = opInProgress /\ running' = running
           /\ ModeOf(state') # ModeOf(state)
           /\ \/ ModeOf(state') = "failed"
              \/ opInProgress /\ (ModeOf(state') = "idle" => SlotEmpty)
  <2>1. live' = live
    BY <1>6
  <2>2. CASE ModeOf(state') = "failed"
    BY <1>6, <2>1, <2>2 DEF Modes!Next, Modes!Fail
  <2>3. CASE ModeOf(state') # "failed"
    <3>1. ModeOf(state') = "idle" => live = {}
      BY <1>6, <2>3 DEF SlotEmpty
    <3> QED
      BY <1>2, <1>6, <2>1, <2>3, <3>1 DEF Modes!Next, Modes!Change, Modes!Modes
  <2> QED
    BY <2>2, <2>3
<1> QED
  BY <1>3, <1>4, <1>5, <1>6 DEF ModeMoves

LEMMA InitModes == Init => Modes!Init
<1> SUFFICES ASSUME Init PROVE Modes!Init
  OBVIOUS
<1>1. ModeOf(state) \in {"idle", "failed"}
  BY DEF Init, ModeOf, MappingStates, LocalizationStates
<1>2. {p \in Processes : running[p]} \in SUBSET AutoStart
  BY DEF Init
<1> QED
  BY <1>1, <1>2 DEF Init, Modes!Init

\* The threads of the node, with every lock section a step of its own, keep to
\* the one-slot control of SlamModes, whatever the maps, the callbacks and the
\* processes that were started with the node.
THEOREM SlamModesImplemented == Spec => ImplementsSlamModes
<1>1. InductiveInv /\ [Next]_vars => [Modes!Next]_(Modes!vars)
  BY MovesStep, MovesAreModes
<1> QED
  BY <1>1, InitModes, InductiveInvariant, PTL DEF Spec, ImplementsSlamModes, Modes!Spec

==============================================================================
