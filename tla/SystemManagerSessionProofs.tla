---------------------- MODULE SystemManagerSessionProofs ----------------------
(***************************************************************************)
(* Proofs about what SystemManager reports and about the map of a session:   *)
(* SessionInv on top of InductiveInv.  Only the theorems that need it assume *)
(* that no process survives SIGKILL.                                         *)
(***************************************************************************)
EXTENDS SystemManagerProofs

\* A failure sets its code before it enters ERROR, and no step that clears the
\* code can meet it on its way there.
LEMMA ErrorsStep ==
  ASSUME InductiveInv, ErrorsTold, [Next]_vars
  PROVE  ErrorsTold'
<1> USE DEF InductiveInv, ControlInv, ErrorsTold, ErrorHasCode, AboutToFail, sensor,
      world, session, request, data, dVars, oVars, oLocals, DGoto, DEnd, DReturn, OGoto,
      RGoto, TransitionTo, SetSystemError, ResetSession, FinishOperation
<1>0. CASE UNCHANGED vars
  BY <1>0 DEF vars
<1>1. CASE Environment
  BY <1>1 DEF Environment, ProcessExits, PublishCorrection
<1>2. CASE Timers
  BY <1>2 DEF Timers, SensorTick, MonitorTick, MonitorIn
<1>3. CASE Requests
  BY <1>3 DEF Requests, HandleRecover, HandleCreateMap, ClaimMap, TakeFlagForMap,
      HandleDeleteMap, HandleLoadMap, HandleStartMapping, HandleStart, StartUnless,
      HandleStartLocalization, HandleStopMapping, HandleStop, HandleStopLocalization,
      HandleSaveMap
<1>4. CASE DSensor
  BY <1>4 DEF DSensor, SensorClearError, SensorToReady, SensorToWait, SensorToStarting,
      SensorWaitingCode, SensorSetCode, SensorToError, SensorReadLive, SensorStop,
      OperationState, HandlerState, StartStates, IdleStates, LocalizationStates, After,
      NoError
<1>5. CASE DMonitor
  BY <1>5 DEF DMonitor, MonitorCheck, MonitorSetCode, MonitorToError, NoError
<1>6. CASE DRequest
  BY <1>6 DEF DRequest, CreateMap, SetMap, DeleteMap, Leftovers, LoadMap, LoadMapOr,
      SelectMap, DFinish, StartCheckOwn, StartAdmit, StartAdmitIf, StartPrepareMap,
      StartSelect, StartSelects, StartNewSession, StartBegin, SaveBegin, HandlerState,
      FlagHasOneOwner, ClaimedLabels, Starting, After
<1>7. CASE OStart
  BY <1>7 DEF OStart, OLaunch, OAwaitReady, OActivate, OLastPose, OStartFailedCode,
      OStartFailedState, OStartFailedClean, SetMap, Leftovers, After, NoError, Active
<1>8. CASE OEnd
  BY <1>8 DEF OEnd, OStop, OStopping, OStopDone, OStopDoneIf, OStopToWait, OEndSession,
      OSave, SetMap, OSaved, OSaveCode, OSaveState, OSaveToWait, TypeOK,
      ThreadTypes, After, NoError, StopReturns
<1>9. CASE ORecover
  BY <1>9 DEF ORecover, OSweep, OSensorSwept, ORecoverSwept, ORecoverSweptWith,
      ORecoverFailed, ORecoverReset, ORecoverClear, ORecoverTo, HandlerState,
      FlagHasOneOwner, ActiveSlamStates, MappingStates, LocalizationStates, After, NoError
<1>10. CASE OThrow \/ OToError \/ OFinish
  BY <1>10 DEF OThrow, OThrowWith, OToError, OFinish, NoError
<1>11. ASSUME NEW c \in Callbacks, RBegin(c) \/ RStep(c) PROVE ErrorsTold'
  BY <1>11 DEF RBegin, RStep, ObserveInitialPose, ReceiveCorrection, PoseResetSession,
      PoseLeaveLocalized, ConfirmCheckState, ConfirmCheckAlive, ConfirmLocalized,
      ConfirmTrust, After
<1> QED
  BY <1>0, <1>1, <1>2, <1>3, <1>4, <1>5, <1>6, <1>7, <1>8, <1>9, <1>10, <1>11
  DEF Next, DStep, OStep

\* A process that a request found down is started by nobody else, and a start
\* that failed leaves none behind.
LEMMA OwnStep ==
  ASSUME ~KillMayFail, InductiveInv, OwnProcessIsDown, [Next]_vars
  PROVE  OwnProcessIsDown'
<1> USE DEF InductiveInv, ControlInv, OwnProcessIsDown, sensor, world, session, request,
      data, dVars, oVars, oLocals, DGoto, DEnd, DReturn, OGoto, RGoto, TransitionTo,
      SetSystemError, ResetSession, FinishOperation
<1>0. CASE UNCHANGED vars
  BY <1>0 DEF vars
<1>1. CASE Environment
  BY <1>1 DEF Environment, ProcessExits, PublishCorrection, TypeOK, DataTypes,
      ThreadTypes
<1>2. CASE Timers
  BY <1>2 DEF Timers, SensorTick, MonitorTick, MonitorIn
<1>3. CASE Requests
  BY <1>3 DEF Requests, HandleRecover, HandleCreateMap, ClaimMap, TakeFlagForMap,
      HandleDeleteMap, HandleLoadMap, HandleStartMapping, HandleStart, StartUnless,
      HandleStartLocalization, HandleStopMapping, HandleStop, HandleStopLocalization,
      HandleSaveMap
<1>4. CASE DSensor
  BY <1>4 DEF DSensor, SensorClearError, SensorToReady, SensorToWait, SensorToStarting,
      SensorWaitingCode, SensorSetCode, SensorToError, SensorReadLive, SensorStop
<1>5. CASE DMonitor
  BY <1>5 DEF DMonitor, MonitorCheck, MonitorSetCode, MonitorToError
<1>6. CASE DRequest
  BY <1>6 DEF DRequest, CreateMap, SetMap, DeleteMap, Leftovers, LoadMap, LoadMapOr,
      SelectMap, DFinish, StartCheckOwn, StartAdmit, StartAdmitIf, StartPrepareMap,
      StartSelect, StartSelects, StartNewSession, StartBegin, SaveBegin, TypeOK,
      ThreadTypes, LocalizationStates, MappingStates, ModeOf, Processes
<1>7. CASE OStart
  BY <1>7 DEF OStart, OLaunch, OAwaitReady, OActivate, OLastPose, OStartFailedCode,
      OStartFailedState, OStartFailedClean, SetMap, Leftovers, TypeOK, DataTypes,
      ThreadTypes, OperationState, HandlerState, StartStates, LocalizationStates,
      MappingStates, After, CanTransition, Successors, ModeOf, Active, Processes
<1>8. CASE OEnd
  BY <1>8 DEF OEnd, OStop, OStopping, OStopDone, OStopDoneIf, OStopToWait, OEndSession,
      OSave, SetMap, OSaved, OSaveCode, OSaveState, OSaveToWait, TypeOK,
      DataTypes, ThreadTypes, StoppedStaysStopped, OperationState, Expecting,
      LocalizationStates, After, CanTransition, Successors, ModeOf, Processes
<1>9. CASE ORecover
  BY <1>9 DEF ORecover, OSweep, OSensorSwept, ORecoverSwept, ORecoverSweptWith,
      ORecoverFailed, ORecoverReset, ORecoverClear, ORecoverTo, TypeOK, ThreadTypes,
      SweepIsComplete
<1>10. CASE OThrow \/ OToError \/ OFinish
  BY <1>10 DEF OThrow, OThrowWith, OToError, OFinish, After, ModeOf
<1>11. ASSUME NEW c \in Callbacks, RBegin(c) \/ RStep(c) PROVE OwnProcessIsDown'
  BY <1>11 DEF RBegin, RStep, ObserveInitialPose, ReceiveCorrection, PoseResetSession,
      PoseLeaveLocalized, ConfirmCheckState, ConfirmCheckAlive, ConfirmLocalized,
      ConfirmTrust, LocalizationStates, After, CanTransition, Successors, ModeOf
<1> QED
  BY <1>0, <1>1, <1>2, <1>3, <1>4, <1>5, <1>6, <1>7, <1>8, <1>9, <1>10, <1>11
  DEF Next, DStep, OStep

\* A code set during active SLAM stays owed until ERROR is entered: a session
\* that slipped away has no process left whose stop could succeed.
LEMMA OwedStep ==
  ASSUME InductiveInv, ErrorsTold, IdleCode, OwnProcessIsDown, CodeIsOwed, [Next]_vars
  PROVE  CodeIsOwed'
<1> USE DEF InductiveInv, ControlInv, CodeIsOwed, AboutToFail, SlippedAway,
      LocalizationStates, MappingStates, After, ActiveSlamStates, sensor, world,
      session, request, data, dVars, oVars, oLocals, DGoto, DEnd, DReturn, OGoto, RGoto,
      TransitionTo, SetSystemError, ResetSession, FinishOperation
<1>0. CASE UNCHANGED vars
  BY <1>0 DEF vars
<1>1. CASE Environment
  BY <1>1 DEF Environment, ProcessExits, PublishCorrection, TypeOK, DataTypes, Processes
<1>2. CASE Timers
  BY <1>2 DEF Timers, SensorTick, MonitorTick, MonitorIn
<1>3. CASE Requests
  BY <1>3 DEF Requests, HandleRecover, HandleCreateMap, ClaimMap, TakeFlagForMap,
      HandleDeleteMap, HandleLoadMap, HandleStartMapping, HandleStart, StartUnless,
      HandleStartLocalization, HandleStopMapping, HandleStop, HandleStopLocalization,
      HandleSaveMap, FlagHasOneOwner
<1>4. CASE DSensor
  BY <1>4 DEF DSensor, SensorClearError, SensorToReady, SensorToWait, SensorToStarting,
      SensorWaitingCode, SensorSetCode, SensorToError, SensorReadLive, SensorStop,
      HandlerState, CanTransition, IdleCode
<1>5. CASE DMonitor
  BY <1>5 DEF DMonitor, MonitorCheck, MonitorSetCode, MonitorToError, CanTransition
<1>6. CASE DRequest
  BY <1>6 DEF DRequest, CreateMap, SetMap, DeleteMap, Leftovers, LoadMap, LoadMapOr,
      SelectMap, DFinish, StartCheckOwn, StartAdmit, StartAdmitIf, StartPrepareMap,
      StartSelect, StartSelects, StartNewSession, StartBegin, SaveBegin, HandlerState,
      FlagHasOneOwner, ClaimedLabels, IdleIsClean, IdleCode
<1>7. CASE OStart
  BY <1>7 DEF OStart, OLaunch, OAwaitReady, OActivate, OLastPose, OStartFailedCode,
      OStartFailedState, OStartFailedClean, SetMap, Leftovers, TypeOK, ThreadTypes,
      OwnProcessIsDown, OperationState, FlagHasOneOwner, StartStates, Starting,
      CanTransition, Successors, Processes
<1>8. CASE OEnd
  BY <1>8 DEF OEnd, OStop, OStopping, OStopDone, OStopDoneIf, OStopToWait, OEndSession,
      OSave, SetMap, OSaved, OSaveCode, OSaveState, OSaveToWait, TypeOK,
      ThreadTypes, OperationState, InStop, Expecting, Processes
<1>9. CASE ORecover
  BY <1>9 DEF ORecover, OSweep, OSensorSwept, ORecoverSwept, ORecoverSweptWith,
      ORecoverFailed, ORecoverReset, ORecoverClear, ORecoverTo, OperationState, InSweep
<1>10. CASE OThrow \/ OToError \/ OFinish
  BY <1>10 DEF OThrow, OThrowWith, OToError, OFinish, CanTransition
<1>11. ASSUME NEW c \in Callbacks, RBegin(c) \/ RStep(c) PROVE CodeIsOwed'
  BY <1>11 DEF RBegin, RStep, ObserveInitialPose, ReceiveCorrection, PoseResetSession,
      PoseLeaveLocalized, ConfirmCheckState, ConfirmCheckAlive, ConfirmLocalized,
      ConfirmTrust, CanTransition, Successors
<1> QED
  BY <1>0, <1>1, <1>2, <1>3, <1>4, <1>5, <1>6, <1>7, <1>8, <1>9, <1>10, <1>11
  DEF Next, DStep, OStep

\* The idle states are entered without a code.
LEMMA IdleStep ==
  ASSUME InductiveInv, CodeIsOwed, IdleCode, [Next]_vars
  PROVE  IdleCode'
<1> USE DEF InductiveInv, ControlInv, IdleCode, IdleIsClean, After, sensor, world,
      session, request, data, dVars, oVars, oLocals, DGoto, DEnd, DReturn, OGoto, RGoto,
      TransitionTo, SetSystemError, ResetSession, FinishOperation
<1>0. CASE UNCHANGED vars
  BY <1>0 DEF vars
<1>1. CASE Environment
  BY <1>1 DEF Environment, ProcessExits, PublishCorrection
<1>2. CASE Timers
  BY <1>2 DEF Timers, SensorTick, MonitorTick, MonitorIn
<1>3. CASE Requests
  BY <1>3 DEF Requests, HandleRecover, HandleCreateMap, ClaimMap, TakeFlagForMap,
      HandleDeleteMap, HandleLoadMap, HandleStartMapping, HandleStart, StartUnless,
      HandleStartLocalization, HandleStopMapping, HandleStop, HandleStopLocalization,
      HandleSaveMap
<1>4. CASE DSensor
  BY <1>4 DEF DSensor, SensorClearError, SensorToReady, SensorToWait, SensorToStarting,
      SensorWaitingCode, SensorSetCode, SensorToError, SensorReadLive, SensorStop,
      OperationState, HandlerState, ActiveSlamStates, MappingStates, LocalizationStates,
      CanTransition, Successors
<1>5. CASE DMonitor
  BY <1>5 DEF DMonitor, MonitorCheck, MonitorSetCode, MonitorToError, OperationState,
      Expecting
<1>6. CASE DRequest
  BY <1>6 DEF DRequest, CreateMap, SetMap, DeleteMap, Leftovers, LoadMap, LoadMapOr,
      SelectMap, DFinish, StartCheckOwn, StartAdmit, StartAdmitIf, StartPrepareMap,
      StartSelect, StartSelects, StartNewSession, StartBegin, SaveBegin, HandlerState
<1>7. CASE OStart
  BY <1>7 DEF OStart, OLaunch, OAwaitReady, OActivate, OLastPose, OStartFailedCode,
      OStartFailedState, OStartFailedClean, SetMap, Leftovers, OperationState,
      HandlerState, FlagHasOneOwner, StartStates, LocalizationStates, Active
<1>8. CASE OEnd
  BY <1>8 DEF OEnd, OStop, OStopping, OStopDone, OStopDoneIf, OStopToWait, OEndSession,
      OSave, SetMap, OSaved, OSaveCode, OSaveState, OSaveToWait, TypeOK,
      ThreadTypes, CodeIsOwed, AboutToFail, SlippedAway, OperationState, HandlerState,
      FlagHasOneOwner, Expecting, LocalizationStates, MappingStates, CanTransition,
      Successors, ActiveSlamStates, StopReturns
<1>9. CASE ORecover
  BY <1>9 DEF ORecover, OSweep, OSensorSwept, ORecoverSwept, ORecoverSweptWith,
      ORecoverFailed, ORecoverReset, ORecoverClear, ORecoverTo, OperationState,
      HandlerState, FlagHasOneOwner
<1>10. CASE OThrow \/ OToError \/ OFinish
  BY <1>10 DEF OThrow, OThrowWith, OToError, OFinish, OperationState, HandlerState,
      FlagHasOneOwner, Expecting, IdleStates
<1>11. ASSUME NEW c \in Callbacks, RBegin(c) \/ RStep(c) PROVE IdleCode'
  BY <1>11 DEF RBegin, RStep, ObserveInitialPose, ReceiveCorrection, PoseResetSession,
      PoseLeaveLocalized, ConfirmCheckState, ConfirmCheckAlive, ConfirmLocalized,
      ConfirmTrust, Expecting, CanTransition, Successors
<1> QED
  BY <1>0, <1>1, <1>2, <1>3, <1>4, <1>5, <1>6, <1>7, <1>8, <1>9, <1>10, <1>11
  DEF Next, DStep, OStep

\* The map of a session is prepared under the flag, and forgotten only once the
\* process is down.
LEMMA MapStep ==
  ASSUME InductiveInv, OwnProcessIsDown, SessionKeepsMap, [Next]_vars
  PROVE  SessionKeepsMap'
<1> USE DEF InductiveInv, ControlInv, SessionKeepsMap, MapReady, StartStates, Expecting,
      LocalizationStates, After, sensor, world, session, request, data, dVars, oVars,
      oLocals, DGoto, DEnd, DReturn, OGoto, RGoto, TransitionTo, SetSystemError,
      ResetSession, FinishOperation
<1>0. CASE UNCHANGED vars
  BY <1>0 DEF vars
<1>1. CASE Environment
  BY <1>1 DEF Environment, ProcessExits, PublishCorrection, TypeOK, DataTypes
<1>2. CASE Timers
  BY <1>2 DEF Timers, SensorTick, MonitorTick, MonitorIn
<1>3. CASE Requests
  BY <1>3 DEF Requests, HandleRecover, HandleCreateMap, ClaimMap, TakeFlagForMap,
      HandleDeleteMap, HandleLoadMap, HandleStartMapping, HandleStart, StartUnless,
      HandleStartLocalization, HandleStopMapping, HandleStop, HandleStopLocalization,
      HandleSaveMap
<1>4. CASE DSensor
  BY <1>4 DEF DSensor, SensorClearError, SensorToReady, SensorToWait, SensorToStarting,
      SensorWaitingCode, SensorSetCode, SensorToError, SensorReadLive, SensorStop,
      HandlerState
<1>5. CASE DMonitor
  BY <1>5 DEF DMonitor, MonitorCheck, MonitorSetCode, MonitorToError
<1>6. CASE DRequest
  BY <1>6 DEF DRequest, CreateMap, SetMap, DeleteMap, Leftovers, LoadMap, LoadMapOr,
      SelectMap, DFinish, StartCheckOwn, StartAdmit, StartAdmitIf, StartPrepareMap,
      StartSelect, StartSelects, StartNewSession, StartBegin, SaveBegin, TypeOK,
      DataTypes, ThreadTypes, OwnProcessIsDown, RequestHasMap, MapLabelsD, WantedMap,
      HandlerState, FlagHasOneOwner, ClaimedLabels, Starting, MappingStates,
      ActiveSlamStates, Processes
<1>7. CASE OStart
  BY <1>7 DEF OStart, OLaunch, OAwaitReady, OActivate, OLastPose, OStartFailedCode,
      OStartFailedState, OStartFailedClean, SetMap, Leftovers, TypeOK, ThreadTypes,
      OwnProcessIsDown, OperationState, FlagHasOneOwner, ClaimedLabels, CanTransition,
      Successors, Processes
<1>8. CASE OEnd
  BY <1>8 DEF OEnd, OStop, OStopping, OStopDone, OStopDoneIf, OStopToWait, OEndSession,
      OSave, SetMap, OSaved, OSaveCode, OSaveState, OSaveToWait, TypeOK,
      DataTypes, ThreadTypes, StoppedStaysStopped, OperationState, FlagHasOneOwner,
      ClaimedLabels, StopReturns, Processes
<1>9. CASE ORecover
  BY <1>9 DEF ORecover, OSweep, OSensorSwept, ORecoverSwept, ORecoverSweptWith,
      ORecoverFailed, ORecoverReset, ORecoverClear, ORecoverTo, OperationState,
      FlagHasOneOwner, ClaimedLabels, InSweep
<1>10. CASE OThrow \/ OToError \/ OFinish
  BY <1>10 DEF OThrow, OThrowWith, OToError, OFinish, FlagHasOneOwner, ClaimedLabels
<1>11. ASSUME NEW c \in Callbacks, RBegin(c) \/ RStep(c) PROVE SessionKeepsMap'
  BY <1>11 DEF RBegin, RStep, ObserveInitialPose, ReceiveCorrection, PoseResetSession,
      PoseLeaveLocalized, ConfirmCheckState, ConfirmCheckAlive, ConfirmLocalized,
      ConfirmTrust, CanTransition, Successors, ActiveSlamStates
<1> QED
  BY <1>0, <1>1, <1>2, <1>3, <1>4, <1>5, <1>6, <1>7, <1>8, <1>9, <1>10, <1>11
  DEF Next, DStep, OStep

-----------------------------------------------------------------------------
(* The theorems.                                                             *)

LEMMA InitSession == Init => SessionInv
<1> SUFFICES ASSUME Init PROVE SessionInv
  OBVIOUS
<1> USE DEF Init
<1>1. ErrorsTold
  BY DEF ErrorsTold, ErrorHasCode, AboutToFail, NoError
<1>2. CodeIsOwed /\ IdleCode
  BY DEF CodeIsOwed, IdleCode, IdleIsClean, ActiveSlamStates, MappingStates,
     LocalizationStates, NoError
<1>3. OwnProcessIsDown
  BY DEF OwnProcessIsDown
<1>4. SessionKeepsMap
  BY DEF SessionKeepsMap, StartStates, Expecting, LocalizationStates
<1> QED
  BY <1>1, <1>2, <1>3, <1>4 DEF SessionInv

LEMMA NextSession ==
  ASSUME ~KillMayFail, InductiveInv, SessionInv, [Next]_vars
  PROVE  SessionInv'
<1>1. ErrorsTold /\ CodeIsOwed /\ IdleCode /\ OwnProcessIsDown /\ SessionKeepsMap
  BY DEF SessionInv
<1>2. ErrorsTold' /\ IdleCode' /\ OwnProcessIsDown'
  BY <1>1, ErrorsStep, IdleStep, OwnStep
<1>3. CodeIsOwed' /\ SessionKeepsMap'
  BY <1>1, OwedStep, MapStep
<1> QED
  BY <1>2, <1>3 DEF SessionInv

\* A client that sees ERROR finds a code in the status, even when processes
\* survive SIGKILL: the steps that clear the code never meet a failure.
THEOREM ErrorsAreExplained == Spec => []ErrorHasCode
<1>1. Init => ErrorsTold
  BY InitSession DEF SessionInv
<1>2. InductiveInv /\ ErrorsTold /\ [Next]_vars => ErrorsTold'
  BY ErrorsStep
<1>3. ErrorsTold => ErrorHasCode
  BY DEF ErrorsTold
<1> QED
  BY <1>1, <1>2, <1>3, InductiveInvariant, PTL DEF Spec

\* The invariant of sessions, where SIGKILL always ends a process.
THEOREM SessionInvariant == ASSUME ~KillMayFail PROVE Spec => []SessionInv
<1>1. InductiveInv /\ SessionInv /\ [Next]_vars => SessionInv'
  BY NextSession
<1> QED
  BY <1>1, InitSession, InductiveInvariant, PTL DEF Spec

\* A system that waits for a request shows no error left over from a failure,
\* a recovery or a start that failed.
THEOREM IdleShowsNoError == ASSUME ~KillMayFail PROVE Spec => []IdleIsClean
<1>1. SessionInv => IdleIsClean
  BY DEF SessionInv, IdleCode
<1> QED
  BY <1>1, SessionInvariant, PTL

\* The map of a running session stays selected and on disk until its process
\* is down, whatever map requests clients send.
THEOREM SessionsKeepTheirMap == ASSUME ~KillMayFail PROVE Spec => []SessionMapOnDisk
<1>1. SessionInv => SessionMapOnDisk
  BY DEF SessionInv, SessionKeepsMap, SessionMapOnDisk
<1> QED
  BY <1>1, SessionInvariant, PTL

==============================================================================
