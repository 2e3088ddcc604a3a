---------------------------- MODULE LastPoseProofs ----------------------------
(****************************************************************************)
(* Proofs about LastPose for any maps, callbacks and bound: its types, that *)
(* no pose is trusted after a reset without setLocalized(true), that saves  *)
(* name the map of the session, that their poses would be of that map if    *)
(* callbacks took turns, that the two savers, the slot and the worker       *)
(* implement SaveSlot and the manager's part SlamModes, and what ends.      *)
(****************************************************************************)
EXTENDS LastPose, TLAPS

\* operation_in_progress_ has one owner, which the operation's save belongs to.
SaverHasOwner ==
  /\ opInProgress <=> (oPc # "idle" \/ dPc \in {"newSession", "begin"})
  /\ oPc # "idle" => dPc \notin {"newSession", "begin"}
  /\ sPc["stop"] # "idle" => oPc = "saving"

\* A session works on the map it was started for, until that is cleared.
SessionOnItsMap ==
  /\ state \in LocalizationStates => currentMap \in {NoMap, sessionMap}
  /\ dPc \in {"newSession", "begin"} => currentMap = sessionMap

\* A saver that has copied the name of the map has that of the newest session.
SaverOnSessionMap ==
  \A s \in Savers : sPc[s] \in {"copyPose", "enqueue"} => sMap[s] = sessionMap

\* The node ends its threads one after the other, the worker last.
EndsInOrder ==
  /\ shuttingDown => dPc = "idle" /\ sPc["timer"] = "idle"
  /\ stopWorker => shuttingDown /\ oPc = "idle"
  /\ wPc = "done" => stopWorker /\ pending = NoSave

\* The newest request is in the slot, being written, or written.
NewestIsKept ==
  /\ request # NoSave => written < request.number /\ request.number <= accepted
  /\ pending # NoSave =>
       /\ pending.number = accepted /\ written < accepted
       /\ request # NoSave => request.number < accepted
  /\ pending = NoSave =>
       accepted = IF request = NoSave THEN written ELSE request.number

LastPoseInv ==
  /\ LastPoseTypeOK /\ TrustNeedsSession /\ SaverHasOwner /\ SessionOnItsMap
  /\ SaverOnSessionMap /\ EndsInOrder /\ NewestIsKept

-----------------------------------------------------------------------------
(* Each part of the invariant is kept by every step.                         *)

LEMMA InitHolds == Init => LastPoseInv
<1> USE LastPoseAssumption DEF Init, NoSave
<1>1. Init => FlagTypes /\ ThreadTypes
  BY DEF FlagTypes, ThreadTypes
<1>2. Init => DataTypes
  BY DEF DataTypes, SystemStates
<1>3. Init => SlotTypes
  BY DEF SlotTypes, Saves
<1>4. Init => TrustNeedsSession /\ SaverHasOwner /\ SessionOnItsMap /\ SaverOnSessionMap
  BY DEF TrustNeedsSession, SaverHasOwner, SessionOnItsMap, SaverOnSessionMap,
      LocalizationStates, Savers
<1>5. Init => EndsInOrder /\ NewestIsKept
  BY DEF EndsInOrder, NewestIsKept
<1> QED
  BY <1>1, <1>2, <1>3, <1>4, <1>5 DEF LastPoseInv, LastPoseTypeOK

\* Requests are queued by the savers, and handled by the worker.
LEMMA SlotSteps ==
  ASSUME [Next]_vars
  PROVE  \/ UNCHANGED <<pending, accepted, request, written, wPc>>
         \/ \E s \in Savers : SaveEnqueue(s)
         \/ WorkerTakes \/ WorkerWrites \/ WorkerExits
BY DEF ProcessExits, Requests, HandleStartLocalization, HandleLoadMap,
      HandleStopLocalization, HandleRecover, WatchdogSeesFailure, TimerSave, DBegin,
      ExecutorFree, SaverStep, DStep, StartNewSession, StartBegin, WatchdogFails, WatchdogStops, DStepTo,
      After, resetSession, OStep, OLaunch, OActivate, OLastPose, OFinish, OSave, OSaved,
      OStop, OToWait, OEndSession, OSensorStop, ORecover, ORecoverReset, ORecoverWait,
      OStepTo, TransitionTo, RBegin, RStep, ObserveInitialPose, PoseResetSession,
      PoseLeaveLocalized, HandleCorrection, ConfirmChecks, ConfirmLocalized, ConfirmTrust,
      HandleRawOdometry, StoreTrusted, StoreTrustedIf, RStepTo, SStep, SaveReadMap,
      SaveCopyPose, SaveEnqueue, WStep, WorkerTakes, WorkerTakesIf, WorkerWrites,
      WorkerWritesAnd, WorkerExits, WorkerStep, Shutdown, StopWorker, Next, vars, manager,
      session, slot, savers, worker, control, callbacks

\* Flags stay flags.
LEMMA FlagTypesStep ==
  ASSUME LastPoseInv, [Next]_vars
  PROVE  FlagTypes'
<1> USE LastPoseAssumption DEF LastPoseInv, LastPoseTypeOK, FlagTypes, vars, manager,
      session, slot, savers, worker, control, callbacks
<1>0. CASE UNCHANGED vars
  BY <1>0 DEF vars
<1>1. CASE ProcessExits \/ Requests \/ WatchdogSeesFailure \/ TimerSave
  BY <1>1 DEF ProcessExits, Requests, HandleStartLocalization, HandleLoadMap,
      HandleStopLocalization, HandleRecover, WatchdogSeesFailure, TimerSave, DBegin,
      ExecutorFree, SaverStep
<1>2. CASE DStep
  BY <1>2 DEF DStep, StartNewSession, StartBegin, WatchdogFails, WatchdogStops, DStepTo, After,
      resetSession
<1>3. CASE OStep
  BY <1>3 DEF OStep, OLaunch, OActivate, OLastPose, OFinish, OSave, OSaved, OStop, OToWait,
      OEndSession, OSensorStop, ORecover, ORecoverReset, ORecoverWait, OStepTo, After,
      TransitionTo, resetSession
<1>4. ASSUME NEW c \in Callbacks, RBegin(c) \/ RStep(c)
      PROVE  FlagTypes'
  BY <1>4 DEF RBegin, RStep, ObserveInitialPose, PoseResetSession, PoseLeaveLocalized,
      HandleCorrection, ConfirmChecks, ConfirmLocalized, ConfirmTrust, HandleRawOdometry,
      StoreTrusted, StoreTrustedIf, RStepTo, TransitionTo, After, resetSession
<1>5. ASSUME NEW s \in Savers, SStep(s)
      PROVE  FlagTypes'
  BY <1>5 DEF SStep, SaveReadMap, SaveCopyPose, SaveEnqueue, SaverStep
<1>6. CASE WStep
  BY <1>6 DEF WStep, WorkerTakes, WorkerTakesIf, WorkerWrites, WorkerWritesAnd, WorkerExits,
      WorkerStep
<1>7. CASE Shutdown \/ StopWorker
  BY <1>7 DEF Shutdown, StopWorker, ExecutorFree
<1> QED
  BY <1>0, <1>1, <1>2, <1>3, <1>4, <1>5, <1>6, <1>7 DEF Next

\* A saver goes on only with a map.
LEMMA DataTypesStep ==
  ASSUME LastPoseInv, [Next]_vars
  PROVE  DataTypes'
<1> USE LastPoseAssumption DEF LastPoseInv, LastPoseTypeOK, DataTypes, ThreadTypes,
      SystemStates, Savers, vars, manager, session, slot, savers, worker, control, callbacks
<1>0. CASE UNCHANGED vars
  BY <1>0 DEF vars
<1>1. CASE ProcessExits \/ Requests \/ WatchdogSeesFailure \/ TimerSave
  BY <1>1 DEF ProcessExits, Requests, HandleStartLocalization, HandleLoadMap,
      HandleStopLocalization, HandleRecover, WatchdogSeesFailure, TimerSave, DBegin,
      ExecutorFree, SaverStep
<1>2. CASE DStep
  BY <1>2 DEF DStep, StartNewSession, StartBegin, WatchdogFails, WatchdogStops, DStepTo, After,
      resetSession
<1>3. CASE OStep
  BY <1>3 DEF OStep, OLaunch, OActivate, OLastPose, OFinish, OSave, OSaved, OStop, OToWait,
      OEndSession, OSensorStop, ORecover, ORecoverReset, ORecoverWait, OStepTo, After,
      TransitionTo, resetSession
<1>4. ASSUME NEW c \in Callbacks, RBegin(c) \/ RStep(c)
      PROVE  DataTypes'
  BY <1>4 DEF RBegin, RStep, ObserveInitialPose, PoseResetSession, PoseLeaveLocalized,
      HandleCorrection, ConfirmChecks, ConfirmLocalized, ConfirmTrust, HandleRawOdometry,
      StoreTrusted, StoreTrustedIf, RStepTo, TransitionTo, After, resetSession
<1>5. ASSUME NEW s \in Savers, SStep(s)
      PROVE  DataTypes'
  BY <1>5 DEF SStep, SaveReadMap, SaveCopyPose, SaveEnqueue, SaverStep
<1>6. CASE WStep
  BY <1>6 DEF WStep, WorkerTakes, WorkerTakesIf, WorkerWrites, WorkerWritesAnd, WorkerExits,
      WorkerStep
<1>7. CASE Shutdown \/ StopWorker
  BY <1>7 DEF Shutdown, StopWorker, ExecutorFree
<1> QED
  BY <1>0, <1>1, <1>2, <1>3, <1>4, <1>5, <1>6, <1>7 DEF Next

\* What is queued is a numbered pose of a map, and only a taken one is written.
LEMMA SlotTypesStep ==
  ASSUME LastPoseInv, [Next]_vars
  PROVE  SlotTypes'
<1> USE LastPoseAssumption DEF LastPoseInv, LastPoseTypeOK, SlotTypes, DataTypes,
      ThreadTypes, Saves, NoSave, Savers
<1>1. CASE UNCHANGED <<pending, accepted, request, written, wPc>>
  BY <1>1
<1>2. ASSUME NEW s \in Savers, SaveEnqueue(s)
      PROVE  SlotTypes'
  BY <1>2 DEF SaveEnqueue, SaverStep, worker
<1>3. CASE WorkerTakes
  BY <1>3 DEF WorkerTakes, WorkerTakesIf, WorkerStep
<1>4. CASE WorkerWrites
  BY <1>4 DEF WorkerWrites, WorkerWritesAnd, WorkerStep
<1>5. CASE WorkerExits
  BY <1>5 DEF WorkerExits, WorkerStep
<1> QED
  BY <1>1, <1>2, <1>3, <1>4, <1>5, SlotSteps

\* No thread leaves its labels.
LEMMA ThreadTypesStep ==
  ASSUME LastPoseInv, [Next]_vars
  PROVE  ThreadTypes'
<1> USE LastPoseAssumption DEF LastPoseInv, LastPoseTypeOK, ThreadTypes, Savers, vars,
      manager, session, slot, savers, worker, control, callbacks
<1>0. CASE UNCHANGED vars
  BY <1>0 DEF vars
<1>1. CASE ProcessExits \/ Requests \/ WatchdogSeesFailure \/ TimerSave
  BY <1>1 DEF ProcessExits, Requests, HandleStartLocalization, HandleLoadMap,
      HandleStopLocalization, HandleRecover, WatchdogSeesFailure, TimerSave, DBegin,
      ExecutorFree, SaverStep
<1>2. CASE DStep
  BY <1>2 DEF DStep, StartNewSession, StartBegin, WatchdogFails, WatchdogStops, DStepTo, After,
      resetSession
<1>3. CASE OStep
  BY <1>3 DEF OStep, OLaunch, OActivate, OLastPose, OFinish, OSave, OSaved, OStop, OToWait,
      OEndSession, OSensorStop, ORecover, ORecoverReset, ORecoverWait, OStepTo, After,
      TransitionTo, resetSession
<1>4. ASSUME NEW c \in Callbacks, RBegin(c) \/ RStep(c)
      PROVE  ThreadTypes'
  BY <1>4 DEF RBegin, RStep, ObserveInitialPose, PoseResetSession, PoseLeaveLocalized,
      HandleCorrection, ConfirmChecks, ConfirmLocalized, ConfirmTrust, HandleRawOdometry,
      StoreTrusted, StoreTrustedIf, RStepTo, TransitionTo, After, resetSession
<1>5. ASSUME NEW s \in Savers, SStep(s)
      PROVE  ThreadTypes'
  BY <1>5 DEF SStep, SaveReadMap, SaveCopyPose, SaveEnqueue, SaverStep
<1>6. CASE WStep
  BY <1>6 DEF WStep, WorkerTakes, WorkerTakesIf, WorkerWrites, WorkerWritesAnd, WorkerExits,
      WorkerStep
<1>7. CASE Shutdown \/ StopWorker
  BY <1>7 DEF Shutdown, StopWorker, ExecutorFree
<1> QED
  BY <1>0, <1>1, <1>2, <1>3, <1>4, <1>5, <1>6, <1>7 DEF Next


\* A pose becomes trusted only in a localized session, and a reset ends both.
LEMMA TrustStep ==
  ASSUME LastPoseInv, [Next]_vars
  PROVE  TrustNeedsSession'
<1> USE LastPoseAssumption DEF LastPoseInv, LastPoseTypeOK, TrustNeedsSession, FlagTypes,
      vars, manager, session, slot, savers, worker, control, callbacks
<1>0. CASE UNCHANGED vars
  BY <1>0 DEF vars
<1>1. CASE ProcessExits \/ Requests \/ WatchdogSeesFailure \/ TimerSave
  BY <1>1 DEF ProcessExits, Requests, HandleStartLocalization, HandleLoadMap,
      HandleStopLocalization, HandleRecover, WatchdogSeesFailure, TimerSave, DBegin,
      ExecutorFree, SaverStep
<1>2. CASE DStep
  BY <1>2 DEF DStep, StartNewSession, StartBegin, WatchdogFails, WatchdogStops, DStepTo, After,
      resetSession
<1>3. CASE OStep
  BY <1>3 DEF OStep, OLaunch, OActivate, OLastPose, OFinish, OSave, OSaved, OStop, OToWait,
      OEndSession, OSensorStop, ORecover, ORecoverReset, ORecoverWait, OStepTo, After,
      TransitionTo, resetSession
<1>4. ASSUME NEW c \in Callbacks, RBegin(c) \/ RStep(c)
      PROVE  TrustNeedsSession'
  BY <1>4 DEF RBegin, RStep, ObserveInitialPose, PoseResetSession, PoseLeaveLocalized,
      HandleCorrection, ConfirmChecks, ConfirmLocalized, ConfirmTrust, HandleRawOdometry,
      StoreTrusted, StoreTrustedIf, RStepTo, TransitionTo, After, resetSession
<1>5. ASSUME NEW s \in Savers, SStep(s)
      PROVE  TrustNeedsSession'
  BY <1>5 DEF SStep, SaveReadMap, SaveCopyPose, SaveEnqueue, SaverStep
<1>6. CASE WStep
  BY <1>6 DEF WStep, WorkerTakes, WorkerTakesIf, WorkerWrites, WorkerWritesAnd, WorkerExits,
      WorkerStep
<1>7. CASE Shutdown \/ StopWorker
  BY <1>7 DEF Shutdown, StopWorker, ExecutorFree
<1> QED
  BY <1>0, <1>1, <1>2, <1>3, <1>4, <1>5, <1>6, <1>7 DEF Next

\* The flag passes from the executor to the operation; only a stop starts its save.
LEMMA OwnerStep ==
  ASSUME LastPoseInv, [Next]_vars
  PROVE  SaverHasOwner'
<1> USE LastPoseAssumption DEF LastPoseInv, LastPoseTypeOK, SaverHasOwner, FlagTypes,
      ThreadTypes, Savers, vars, manager, session, slot, savers, worker, control, callbacks
<1>0. CASE UNCHANGED vars
  BY <1>0 DEF vars
<1>1. CASE ProcessExits \/ Requests \/ WatchdogSeesFailure \/ TimerSave
  BY <1>1 DEF ProcessExits, Requests, HandleStartLocalization, HandleLoadMap,
      HandleStopLocalization, HandleRecover, WatchdogSeesFailure, TimerSave, DBegin,
      ExecutorFree, SaverStep
<1>2. CASE DStep
  BY <1>2 DEF DStep, StartNewSession, StartBegin, WatchdogFails, WatchdogStops, DStepTo, After,
      resetSession
<1>3. CASE OStep
  BY <1>3 DEF OStep, OLaunch, OActivate, OLastPose, OFinish, OSave, OSaved, OStop, OToWait,
      OEndSession, OSensorStop, ORecover, ORecoverReset, ORecoverWait, OStepTo, After,
      TransitionTo, resetSession
<1>4. ASSUME NEW c \in Callbacks, RBegin(c) \/ RStep(c)
      PROVE  SaverHasOwner'
  BY <1>4 DEF RBegin, RStep, ObserveInitialPose, PoseResetSession, PoseLeaveLocalized,
      HandleCorrection, ConfirmChecks, ConfirmLocalized, ConfirmTrust, HandleRawOdometry,
      StoreTrusted, StoreTrustedIf, RStepTo, TransitionTo, After, resetSession
<1>5. ASSUME NEW s \in Savers, SStep(s)
      PROVE  SaverHasOwner'
  BY <1>5 DEF SStep, SaveReadMap, SaveCopyPose, SaveEnqueue, SaverStep
<1>6. CASE WStep
  BY <1>6 DEF WStep, WorkerTakes, WorkerTakesIf, WorkerWrites, WorkerWritesAnd, WorkerExits,
      WorkerStep
<1>7. CASE Shutdown \/ StopWorker
  BY <1>7 DEF Shutdown, StopWorker, ExecutorFree
<1> QED
  BY <1>0, <1>1, <1>2, <1>3, <1>4, <1>5, <1>6, <1>7 DEF Next

\* The map changes only between sessions or with the flag; then nobody localizes.
LEMMA SessionStep ==
  ASSUME LastPoseInv, [Next]_vars
  PROVE  SessionOnItsMap'
<1> USE LastPoseAssumption DEF LastPoseInv, LastPoseTypeOK, SessionOnItsMap, DataTypes,
      SaverHasOwner, LocalizationStates, ActiveSlamStates, CanTransition, Successors, vars,
      manager, session, slot, savers, worker, control, callbacks
<1>0. CASE UNCHANGED vars
  BY <1>0 DEF vars
<1>1. CASE ProcessExits \/ Requests \/ WatchdogSeesFailure \/ TimerSave
  BY <1>1 DEF ProcessExits, Requests, HandleStartLocalization, HandleLoadMap,
      HandleStopLocalization, HandleRecover, WatchdogSeesFailure, TimerSave, DBegin,
      ExecutorFree, SaverStep
<1>2. CASE DStep
  BY <1>2 DEF DStep, StartNewSession, StartBegin, WatchdogFails, WatchdogStops, DStepTo, After,
      resetSession
<1>3. CASE OStep
  <2>1. CASE OLaunch \/ OActivate \/ OLastPose \/ OFinish
    BY <2>1 DEF OLaunch, OActivate, OLastPose, OFinish, OStepTo, After
  <2>2. CASE OSave \/ OSaved \/ OEndSession
    BY <2>2 DEF OSave, OSaved, OEndSession, OStepTo
  <2>3. CASE OStop \/ OToWait
    BY <2>3 DEF OStop, OToWait, OStepTo, After, TransitionTo
  <2>4. CASE OSensorStop \/ ORecover \/ ORecoverReset \/ ORecoverWait
    BY <2>4 DEF OSensorStop, ORecover, ORecoverReset, ORecoverWait, OStepTo, After
  <2> QED
    BY <1>3, <2>1, <2>2, <2>3, <2>4 DEF OStep
<1>4. ASSUME NEW c \in Callbacks, RBegin(c) \/ RStep(c)
      PROVE  SessionOnItsMap'
  BY <1>4 DEF RBegin, RStep, ObserveInitialPose, PoseResetSession, PoseLeaveLocalized,
      HandleCorrection, ConfirmChecks, ConfirmLocalized, ConfirmTrust, HandleRawOdometry,
      StoreTrusted, StoreTrustedIf, RStepTo, TransitionTo, After, resetSession
<1>5. ASSUME NEW s \in Savers, SStep(s)
      PROVE  SessionOnItsMap'
  BY <1>5 DEF SStep, SaveReadMap, SaveCopyPose, SaveEnqueue, SaverStep
<1>6. CASE WStep
  BY <1>6 DEF WStep, WorkerTakes, WorkerTakesIf, WorkerWrites, WorkerWritesAnd, WorkerExits,
      WorkerStep
<1>7. CASE Shutdown \/ StopWorker
  BY <1>7 DEF Shutdown, StopWorker, ExecutorFree
<1> QED
  BY <1>0, <1>1, <1>2, <1>3, <1>4, <1>5, <1>6, <1>7 DEF Next

\* While a saver works no session begins.
LEMMA SaverStepKeepsMap ==
  ASSUME LastPoseInv, [Next]_vars
  PROVE  SaverOnSessionMap'
<1> USE LastPoseAssumption DEF LastPoseInv, LastPoseTypeOK, SaverOnSessionMap, DataTypes,
      ThreadTypes, SaverHasOwner, SessionOnItsMap, Savers, LocalizationStates, vars,
      manager, session, slot, savers, worker, control, callbacks
<1>0. CASE UNCHANGED vars
  BY <1>0 DEF vars
<1>1. CASE ProcessExits \/ Requests \/ WatchdogSeesFailure \/ TimerSave
  BY <1>1 DEF ProcessExits, Requests, HandleStartLocalization, HandleLoadMap,
      HandleStopLocalization, HandleRecover, WatchdogSeesFailure, TimerSave, DBegin,
      ExecutorFree, SaverStep
<1>2. CASE DStep
  BY <1>2 DEF DStep, StartNewSession, StartBegin, WatchdogFails, WatchdogStops, DStepTo, After,
      resetSession
<1>3. CASE OStep
  BY <1>3 DEF OStep, OLaunch, OActivate, OLastPose, OFinish, OSave, OSaved, OStop, OToWait,
      OEndSession, OSensorStop, ORecover, ORecoverReset, ORecoverWait, OStepTo, After,
      TransitionTo, resetSession
<1>4. ASSUME NEW c \in Callbacks, RBegin(c) \/ RStep(c)
      PROVE  SaverOnSessionMap'
  BY <1>4 DEF RBegin, RStep, ObserveInitialPose, PoseResetSession, PoseLeaveLocalized,
      HandleCorrection, ConfirmChecks, ConfirmLocalized, ConfirmTrust, HandleRawOdometry,
      StoreTrusted, StoreTrustedIf, RStepTo, TransitionTo, After, resetSession
<1>5. ASSUME NEW s \in Savers, SStep(s)
      PROVE  SaverOnSessionMap'
  BY <1>5 DEF SStep, SaveReadMap, SaveCopyPose, SaveEnqueue, SaverStep
<1>6. CASE WStep
  BY <1>6 DEF WStep, WorkerTakes, WorkerTakesIf, WorkerWrites, WorkerWritesAnd, WorkerExits,
      WorkerStep
<1>7. CASE Shutdown \/ StopWorker
  BY <1>7 DEF Shutdown, StopWorker, ExecutorFree
<1> QED
  BY <1>0, <1>1, <1>2, <1>3, <1>4, <1>5, <1>6, <1>7 DEF Next

\* Nothing that could save is begun after shutdown.
LEMMA EndStep ==
  ASSUME LastPoseInv, [Next]_vars
  PROVE  EndsInOrder'
<1> USE LastPoseAssumption DEF LastPoseInv, LastPoseTypeOK, EndsInOrder, ThreadTypes,
      SaverHasOwner, Savers, NoSave, vars, manager, session, slot, savers, worker, control, callbacks
<1>0. CASE UNCHANGED vars
  BY <1>0 DEF vars
<1>1. CASE ProcessExits \/ Requests \/ WatchdogSeesFailure \/ TimerSave
  BY <1>1 DEF ProcessExits, Requests, HandleStartLocalization, HandleLoadMap,
      HandleStopLocalization, HandleRecover, WatchdogSeesFailure, TimerSave, DBegin,
      ExecutorFree, SaverStep
<1>2. CASE DStep
  BY <1>2 DEF DStep, StartNewSession, StartBegin, WatchdogFails, WatchdogStops, DStepTo, After,
      resetSession
<1>3. CASE OStep
  <2>1. /\ oPc # "idle" /\ UNCHANGED <<shuttingDown, dPc, pending, stopWorker, wPc>>
        /\ sPc'["timer"] = sPc["timer"]
    BY <1>3 DEF OStep, OLaunch, OActivate, OLastPose, OFinish, OSave, OSaved, OStop, OToWait,
        OEndSession, OSensorStop, ORecover, ORecoverReset, ORecoverWait, OStepTo
  <2> QED
    BY <2>1
<1>4. ASSUME NEW c \in Callbacks, RBegin(c) \/ RStep(c)
      PROVE  EndsInOrder'
  BY <1>4 DEF RBegin, RStep, ObserveInitialPose, PoseResetSession, PoseLeaveLocalized,
      HandleCorrection, ConfirmChecks, ConfirmLocalized, ConfirmTrust, HandleRawOdometry,
      StoreTrusted, StoreTrustedIf, RStepTo, TransitionTo, After, resetSession
<1>5. ASSUME NEW s \in Savers, SStep(s)
      PROVE  EndsInOrder'
  BY <1>5 DEF SStep, SaveReadMap, SaveCopyPose, SaveEnqueue, SaverStep
<1>6. CASE WStep
  BY <1>6 DEF WStep, WorkerTakes, WorkerTakesIf, WorkerWrites, WorkerWritesAnd, WorkerExits,
      WorkerStep
<1>7. CASE Shutdown \/ StopWorker
  BY <1>7 DEF Shutdown, StopWorker, ExecutorFree
<1> QED
  BY <1>0, <1>1, <1>2, <1>3, <1>4, <1>5, <1>6, <1>7 DEF Next

\* Only a newer request takes the place of the one that waits.
LEMMA NewestStep ==
  ASSUME LastPoseInv, [Next]_vars
  PROVE  NewestIsKept'
<1> USE LastPoseAssumption DEF LastPoseInv, LastPoseTypeOK, NewestIsKept, SlotTypes,
      DataTypes, ThreadTypes, Saves, NoSave, Savers
<1>1. CASE UNCHANGED <<pending, accepted, request, written, wPc>>
  BY <1>1
<1>2. ASSUME NEW s \in Savers, SaveEnqueue(s)
      PROVE  NewestIsKept'
  BY <1>2 DEF SaveEnqueue, SaverStep, worker
<1>3. CASE WorkerTakes
  BY <1>3 DEF WorkerTakes, WorkerTakesIf, WorkerStep
<1>4. CASE WorkerWrites
  BY <1>4 DEF WorkerWrites, WorkerWritesAnd, WorkerStep
<1>5. CASE WorkerExits
  BY <1>5 DEF WorkerExits, WorkerStep
<1> QED
  BY <1>1, <1>2, <1>3, <1>4, <1>5, SlotSteps

LEMMA NextHolds == LastPoseInv /\ [Next]_vars => LastPoseInv'
BY FlagTypesStep, DataTypesStep, SlotTypesStep, ThreadTypesStep, TrustStep, OwnerStep,
   SessionStep, SaverStepKeepsMap, EndStep, NewestStep
DEF LastPoseInv, LastPoseTypeOK

-----------------------------------------------------------------------------
(* Theorems.                                                                 *)

\* The types are right in every reachable state.
THEOREM LastPoseTypesCorrect == Spec => []LastPoseTypeOK
<1>1. LastPoseInv => LastPoseTypeOK
  BY DEF LastPoseInv
<1> QED
  BY <1>1, InitHolds, NextHolds, PTL DEF Spec

\* After a reset no pose is trusted before setLocalized(true) has come again,
\* whatever callbacks were composing one.  Of which session the pose is, and
\* whether the one it is stored in was confirmed, it does not say.
THEOREM TrustAwaitsLocalized == Spec => []TrustNeedsSession
<1>1. LastPoseInv => TrustNeedsSession
  BY DEF LastPoseInv
<1> QED
  BY <1>1, InitHolds, NextHolds, PTL DEF Spec

\* For any maps and callbacks, a save names the map of the session it is queued in.
THEOREM SavesReachTheirMap == Spec => SavesGoToSessionMap
<1>1. ASSUME LastPoseInv, [Next]_vars
      PROVE  [accepted' # accepted => pending'.map = sessionMap]_vars
  <2> SUFFICES ASSUME accepted' # accepted PROVE pending'.map = sessionMap
    OBVIOUS
  <2>1. PICK s \in Savers : SaveEnqueue(s)
    BY <1>1, SlotSteps DEF WorkerTakes, WorkerTakesIf, WorkerWrites, WorkerWritesAnd,
        WorkerExits, WorkerStep
  <2>2. sPc[s] = "enqueue" /\ pending'.map = sMap[s]
    BY <2>1 DEF SaveEnqueue, SaverStep
  <2> QED
    BY <1>1, <2>2 DEF LastPoseInv, SaverOnSessionMap
<1> QED
  BY <1>1, InitHolds, NextHolds, PTL DEF Spec, SavesGoToSessionMap

\* While no session is being set up, the trusted pose, and the one a callback is
\* composing for a session that counts as localized, are of the newest session's map.
PosesOnSessionMap ==
  /\ sPc["timer"] # "idle" => dPc = "idle"
  /\ dPc # "newSession" =>
       /\ trusted => poseMap = sessionMap
       /\ localized => \A c \in Callbacks : rPc[c] = "store" => copied[c] = sessionMap

\* With a single callback nobody can confirm a session while a pose is composed.
LEMMA PosesStep ==
  ASSUME LastPoseInv, PosesOnSessionMap, [Next]_vars, \A c, d \in Callbacks : c = d
  PROVE  PosesOnSessionMap'
<1> USE DEF LastPoseInv, LastPoseTypeOK, PosesOnSessionMap, FlagTypes, DataTypes, ThreadTypes,
      Savers, vars, manager, session, slot, savers, worker, control, callbacks
<1>0. CASE UNCHANGED vars
  BY <1>0 DEF vars
<1>1. CASE ProcessExits \/ Requests \/ WatchdogSeesFailure \/ TimerSave
  BY <1>1 DEF ProcessExits, Requests, HandleStartLocalization, HandleLoadMap,
      HandleStopLocalization, HandleRecover, WatchdogSeesFailure, TimerSave, DBegin,
      ExecutorFree, SaverStep
<1>2. CASE DStep
  BY <1>2 DEF DStep, StartNewSession, StartBegin, WatchdogFails, WatchdogStops, DStepTo,
      resetSession
<1>3. CASE OStep
  <2>1. CASE OLaunch \/ OActivate \/ OLastPose \/ OFinish
    BY <2>1 DEF OLaunch, OActivate, OLastPose, OFinish, OStepTo
  <2>2. CASE OSaved \/ OStop \/ OToWait \/ OEndSession
    BY <2>2 DEF OSaved, OStop, OToWait, OEndSession, OStepTo, TransitionTo, resetSession
  <2>4. CASE OSave
    <3>1. sPc'["timer"] = sPc["timer"]
      BY <2>4 DEF OSave, OStepTo
    <3> QED
      BY <2>4, <3>1 DEF OSave, OStepTo
  <2>3. CASE OSensorStop \/ ORecover \/ ORecoverReset \/ ORecoverWait
    <3>1. CASE OSensorStop
      BY <3>1 DEF OSensorStop, OStepTo
    <3>2. CASE ORecover
      BY <3>2 DEF ORecover, OStepTo
    <3>3. CASE ORecoverReset
      BY <3>3 DEF ORecoverReset, OStepTo, resetSession
    <3>4. CASE ORecoverWait
      BY <3>4 DEF ORecoverWait, OStepTo
    <3> QED
      BY <2>3, <3>1, <3>2, <3>3, <3>4
  <2> QED
    BY <1>3, <2>1, <2>2, <2>3, <2>4 DEF OStep
<1>4. ASSUME NEW c \in Callbacks, RBegin(c) \/ RStep(c)
      PROVE  PosesOnSessionMap'
  <2>1. CASE ObserveInitialPose(c) \/ PoseResetSession(c) \/ PoseLeaveLocalized(c)
    BY <2>1 DEF ObserveInitialPose, PoseResetSession, PoseLeaveLocalized, RStepTo,
        TransitionTo, resetSession
  <2>2. CASE HandleCorrection(c) \/ ConfirmChecks(c) \/ ConfirmLocalized(c) \/ ConfirmTrust(c)
    BY <2>2 DEF HandleCorrection, ConfirmChecks, ConfirmLocalized, ConfirmTrust, RStepTo,
        TransitionTo
  <2>3. CASE HandleRawOdometry(c) \/ StoreTrusted(c)
    BY <2>3 DEF HandleRawOdometry, StoreTrusted, StoreTrustedIf, RStepTo
  <2> QED
    BY <1>4, <2>1, <2>2, <2>3 DEF RBegin, RStep
<1>5. ASSUME NEW s \in Savers, SStep(s)
      PROVE  PosesOnSessionMap'
  BY <1>5 DEF SStep, SaveReadMap, SaveCopyPose, SaveEnqueue, SaverStep
<1>6. CASE WStep
  BY <1>6 DEF WStep, WorkerTakes, WorkerTakesIf, WorkerWrites, WorkerWritesAnd, WorkerExits,
      WorkerStep
<1>7. CASE Shutdown \/ StopWorker
  BY <1>7 DEF Shutdown, StopWorker, ExecutorFree
<1> QED
  BY <1>0, <1>1, <1>2, <1>3, <1>4, <1>5, <1>6, <1>7 DEF Next

\* If callbacks did not run beside each other (they do: their group is reentrant),
\* a saved pose would always be of the map it is saved for.  So it takes two of
\* them to violate SavedPoseIsOfTheMap, and no other two threads do.
THEOREM TurnsWouldKeepPoses ==
  ASSUME \A c, d \in Callbacks : c = d
  PROVE  Spec => SavedPoseIsOfTheMap
<1>1. Init => PosesOnSessionMap
  BY DEF Init, PosesOnSessionMap, Savers
<1>2. LastPoseInv /\ PosesOnSessionMap /\ [Next]_vars => PosesOnSessionMap'
  BY PosesStep
<1>3. ASSUME LastPoseInv, PosesOnSessionMap, [Next]_vars
      PROVE  [\A s \in Savers : sPc[s] = "copyPose" /\ sPc'[s] = "enqueue"
                                  => poseMap = sMap[s]]_vars
  <2> SUFFICES ASSUME NEW s \in Savers, sPc[s] = "copyPose", sPc'[s] = "enqueue"
               PROVE  poseMap = sMap[s]
    OBVIOUS
  <2>1. SaveCopyPose(s)
    <3> USE DEF LastPoseInv, LastPoseTypeOK, ThreadTypes, Savers, vars, manager, session, slot,
          savers, worker, control, callbacks
    <3>1. \E t \in Savers : SStep(t)
      BY <1>3 DEF ProcessExits, Requests, HandleStartLocalization, HandleLoadMap,
          HandleStopLocalization, HandleRecover, WatchdogSeesFailure, TimerSave, DBegin,
          ExecutorFree, SaverStep, DStep, StartNewSession, StartBegin, WatchdogFails,
          WatchdogStops, DStepTo, resetSession, OStep, OLaunch, OActivate, OLastPose, OFinish,
          OSave, OSaved, OStop, OToWait, OEndSession, OSensorStop, ORecover, ORecoverReset,
          ORecoverWait, OStepTo, TransitionTo, RBegin, RStep, ObserveInitialPose,
          PoseResetSession, PoseLeaveLocalized, HandleCorrection, ConfirmChecks,
          ConfirmLocalized, ConfirmTrust, HandleRawOdometry, StoreTrusted, StoreTrustedIf,
          RStepTo, WStep, WorkerTakes, WorkerTakesIf, WorkerWrites, WorkerWritesAnd,
          WorkerExits, WorkerStep, Shutdown, StopWorker, Next
    <3>2. PICK t \in Savers : SStep(t)
      BY <3>1
    <3>3. t = s
      <4>1. t # s => sPc'[s] = sPc[s]
        BY <1>3, <3>2 DEF SStep, SaveReadMap, SaveCopyPose, SaveEnqueue, SaverStep
      <4> QED
        BY <4>1
    <3>4. ~SaveReadMap(s) /\ ~SaveEnqueue(s)
      BY DEF SaveReadMap, SaveEnqueue, SaverStep
    <3> QED
      BY <3>2, <3>3, <3>4 DEF SStep
  <2>2. trusted /\ sMap[s] = sessionMap
    BY <1>3, <2>1
    DEF SaveCopyPose, SaverStep, LastPoseInv, SaverOnSessionMap, LastPoseTypeOK, ThreadTypes
  <2>3. dPc # "newSession"
    BY <1>3 DEF LastPoseInv, SaverHasOwner, PosesOnSessionMap, Savers
  <2> QED
    BY <1>3, <2>2, <2>3 DEF PosesOnSessionMap
<1> QED
  BY <1>1, <1>2, <1>3, InitHolds, NextHolds, PTL DEF Spec, SavedPoseIsOfTheMap

\* The savers, the slot and the worker implement SaveSlot: queueing is Accept,
\* the end of a write is Write, the worker's exit is Close.
THEOREM SaveSlotImplemented == Spec => ImplementsSaveSlot
<1>1. Init => Slot!Init
  BY DEF Init, Slot!Init
<1>2. ASSUME LastPoseInv, [Next]_vars PROVE [Slot!Next]_(Slot!vars)
  <2>1. CASE UNCHANGED <<accepted, written, wPc>>
    BY <2>1 DEF Slot!vars
  <2>2. ASSUME NEW s \in Savers, SaveEnqueue(s) PROVE Slot!Accept
    <3>1. wPc # "done"
      BY <1>2, <2>2 DEF LastPoseInv, EndsInOrder, SaverHasOwner, SaveEnqueue, SaverStep, Savers
    <3> QED
      BY <2>2, <3>1 DEF SaveEnqueue, SaverStep, worker, Slot!Accept
  <2>3. CASE WorkerTakes
    BY <2>3 DEF WorkerTakes, WorkerTakesIf, WorkerStep, Slot!vars
  <2>4. CASE WorkerWrites
    <3>1. request \in Saves /\ written \in Nat /\ accepted \in Nat
      BY <1>2, <2>4
      DEF LastPoseInv, LastPoseTypeOK, SlotTypes, WorkerWrites, WorkerWritesAnd, WorkerStep
    <3>2. request.number \in (written + 1)..accepted
      BY <1>2, <2>4, <3>1
      DEF LastPoseInv, NewestIsKept, Saves, NoSave, LastPoseTypeOK, SlotTypes, WorkerWrites,
          WorkerWritesAnd, WorkerStep
    <3> QED
      BY <2>4, <3>2 DEF WorkerWrites, WorkerWritesAnd, WorkerStep, slot, Slot!Write, Slot!Next
  <2>5. CASE WorkerExits
    <3>1. request = NoSave /\ pending = NoSave
      BY <1>2, <2>5 DEF LastPoseInv, LastPoseTypeOK, SlotTypes, WorkerExits, WorkerStep
    <3> QED
      BY <1>2, <2>5, <3>1
      DEF LastPoseInv, NewestIsKept, WorkerExits, WorkerStep, Slot!Close, Slot!Next
  <2> QED
    BY <1>2, <2>1, <2>2, <2>3, <2>4, <2>5, SlotSteps DEF Slot!Next
<1> QED
  BY <1>1, <1>2, InitHolds, NextHolds, PTL DEF Spec, ImplementsSaveSlot, Slot!Spec

-----------------------------------------------------------------------------
(* The part of the manager that is kept here implements SlamModes.           *)

\* Where the localization process may be: not while the manager waits for a mode,
\* and not where an operation is about to start it or has stopped it.
ProcessInItsPlace ==
  /\ state \in {"WAIT_MODE", "ERROR", "RECOVERING"} \cup LocalizationStates
  /\ running => state # "WAIT_MODE"
  /\ dPc \in {"newSession", "begin"} => state = "WAIT_MODE" /\ ~running
  /\ oPc = "launch" => state \notin {"WAIT_MODE", "RECOVERING"}
  /\ oPc \in {"launch", "toWait", "endSession", "recoverReset", "recoverWait"} => ~running

ModesInv == LastPoseInv /\ ProcessInItsPlace

\* What a step may do to the mode, the flag and the process.
ManagerMoves ==
  \/ /\ ModeOf(state') = ModeOf(state) /\ running' = running
     /\ \/ opInProgress' = opInProgress
        \/ ~opInProgress /\ opInProgress'
        \/ opInProgress /\ ~opInProgress' /\ (running => ModeOf(state) # "idle")
  \/ /\ ModeOf(state') = ModeOf(state) /\ opInProgress' = opInProgress
     /\ \/ running /\ ~running'
        \/ opInProgress /\ ~running /\ running' /\ ModeOf(state) # "idle"
  \/ /\ ModeOf(state') # ModeOf(state) /\ opInProgress' = opInProgress /\ running' = running
     /\ \/ ModeOf(state') = "failed"
        \/ opInProgress /\ (ModeOf(state') = "idle" => ~running)

LEMMA ManagerStep ==
  ASSUME ModesInv, [Next]_vars
  PROVE  ProcessInItsPlace' /\ ManagerMoves
<1> USE DEF ModesInv, LastPoseInv, LastPoseTypeOK, FlagTypes, ThreadTypes, SaverHasOwner,
      ProcessInItsPlace, ManagerMoves, ModeOf, LocalizationStates, ActiveSlamStates,
      CanTransition, Successors, vars, manager, session, slot, savers, worker, control, callbacks
<1>0. CASE UNCHANGED vars
  BY <1>0
<1>1. CASE ProcessExits \/ Requests \/ WatchdogSeesFailure \/ TimerSave
  BY <1>1 DEF ProcessExits, Requests, HandleStartLocalization, HandleLoadMap,
      HandleStopLocalization, HandleRecover, WatchdogSeesFailure, TimerSave, DBegin,
      ExecutorFree, SaverStep
<1>2. CASE DStep
  BY <1>2 DEF DStep, StartNewSession, StartBegin, WatchdogFails, WatchdogStops, DStepTo, After
<1>3. CASE OStep
  <2>1. CASE OLaunch
    BY <2>1 DEF OLaunch, OStepTo
  <2>2. CASE OActivate
    BY <2>2 DEF OActivate, OStepTo, After
  <2>3. CASE OLastPose \/ OFinish
    BY <2>3 DEF OLastPose, OFinish, OStepTo
  <2>4. CASE OSave \/ OSaved \/ OEndSession
    BY <2>4 DEF OSave, OSaved, OEndSession, OStepTo
  <2>5. CASE OStop \/ OToWait
    BY <2>5 DEF OStop, OToWait, OStepTo, After, TransitionTo
  <2>6. CASE OSensorStop
    <3>1. /\ oPc = "sensorStop" /\ oPc' = "finish"
          /\ UNCHANGED <<state, opInProgress, dPc>>
          /\ running' = running \/ (running /\ ~running')
      BY <2>6 DEF OSensorStop, OStepTo
    <3> QED
      BY <3>1
  <2>7. CASE ORecover
    BY <2>7 DEF ORecover, OStepTo, After
  <2>8. CASE ORecoverReset \/ ORecoverWait
    BY <2>8 DEF ORecoverReset, ORecoverWait, OStepTo, After
  <2> QED
    BY <1>3, <2>1, <2>2, <2>3, <2>4, <2>5, <2>6, <2>7, <2>8 DEF OStep
<1>4. ASSUME NEW c \in Callbacks, RBegin(c) \/ RStep(c)
      PROVE  ProcessInItsPlace' /\ ManagerMoves
  BY <1>4 DEF RBegin, RStep, ObserveInitialPose, PoseResetSession, PoseLeaveLocalized,
      HandleCorrection, ConfirmChecks, ConfirmLocalized, ConfirmTrust, HandleRawOdometry,
      StoreTrusted, StoreTrustedIf, RStepTo, TransitionTo, After
<1>5. ASSUME NEW s \in Savers, SStep(s)
      PROVE  ProcessInItsPlace' /\ ManagerMoves
  BY <1>5 DEF SStep, SaveReadMap, SaveCopyPose, SaveEnqueue, SaverStep
<1>6. CASE WStep
  BY <1>6 DEF WStep, WorkerTakes, WorkerTakesIf, WorkerWrites, WorkerWritesAnd, WorkerExits,
      WorkerStep
<1>7. CASE Shutdown \/ StopWorker
  BY <1>7 DEF Shutdown, StopWorker
<1> QED
  BY <1>0, <1>1, <1>2, <1>3, <1>4, <1>5, <1>6, <1>7 DEF Next

\* Each of these moves is a step of SlamModes.
LEMMA MovesAreModes ==
  ASSUME ModesInv, ManagerMoves
  PROVE  [Modes!Next]_(Modes!vars)
<1>1. running \in BOOLEAN /\ opInProgress \in BOOLEAN
  BY DEF ModesInv, LastPoseInv, LastPoseTypeOK, FlagTypes
<1>2. /\ ModeOf(state) \in {"idle", "failed", "localization"}
      /\ ModeOf(state') \in {"idle", "failed", "localization"}
  BY DEF ModeOf
<1>3. CASE ModeOf(state') = ModeOf(state) /\ running' = running
  BY <1>1, <1>2, <1>3
  DEF ManagerMoves, Modes!Next, Modes!Begin, Modes!End, Modes!vars
<1>4. CASE ModeOf(state') = ModeOf(state) /\ opInProgress' = opInProgress /\ running /\ ~running'
  BY <1>4 DEF Modes!Next, Modes!Exit
<1>5. CASE /\ ModeOf(state') = ModeOf(state) /\ opInProgress' = opInProgress
           /\ opInProgress /\ ~running /\ running' /\ ModeOf(state) # "idle"
  BY <1>2, <1>5 DEF Modes!Next, Modes!Start
<1>6. CASE /\ ModeOf(state') # ModeOf(state) /\ opInProgress' = opInProgress
           /\ running' = running
           /\ \/ ModeOf(state') = "failed"
              \/ opInProgress /\ (ModeOf(state') = "idle" => ~running)
  BY <1>2, <1>6 DEF Modes!Next, Modes!Fail, Modes!Change, Modes!Modes
<1> QED
  BY <1>3, <1>4, <1>5, <1>6 DEF ManagerMoves

\* The manager's part that LastPose keeps, with its own sections and an operation
\* thread that saves poses, is bound by the same one-slot control as the whole
\* manager in SystemManager: no process runs in WAIT_MODE, none is started over
\* another, and only an operation starts one or leaves a mode.
THEOREM ManagerPartKeepsModes == Spec => ImplementsSlamModes
<1>1. Init => ProcessInItsPlace
  BY DEF Init, ProcessInItsPlace, LocalizationStates
<1>2. ModesInv /\ [Next]_vars => ModesInv' /\ [Modes!Next]_(Modes!vars)
  BY NextHolds, ManagerStep, MovesAreModes DEF ModesInv
<1>3. Init => Modes!Init
  BY DEF Init, Modes!Init, ModeOf, LocalizationStates
<1> QED
  BY <1>1, <1>2, <1>3, InitHolds, PTL DEF ModesInv, Spec, ImplementsSlamModes, Modes!Spec

-----------------------------------------------------------------------------
(* What the fair threads come to in the end.  ThreadsMayGoOn, which TLC      *)
(* checks, stands for what is ENABLED, which the provers do not evaluate.    *)

LEMMA InvariantHolds == Spec => []LastPoseInv
BY InitHolds, NextHolds, PTL DEF Spec

\* Where request n, or a newer one, is on its way to the disk: it waits while an
\* older one is written, it waits for the worker, or it is being written.
Behind(n) == wPc = "write" /\ pending # NoSave /\ pending.number >= n

Ahead(n) == wPc = "wait" /\ pending # NoSave /\ pending.number >= n

InHand(n) == wPc = "write" /\ request # NoSave /\ request.number >= n

\* A request that is accepted and not written is on its way.
LEMMA AcceptedIsOnItsWay ==
  ASSUME LastPoseInv, NEW n \in Nat, accepted >= n
  PROVE  Behind(n) \/ Ahead(n) \/ InHand(n) \/ written >= n
<1> USE DEF LastPoseInv, LastPoseTypeOK, SlotTypes, ThreadTypes, NewestIsKept, EndsInOrder, Saves
<1>1. CASE pending # NoSave
  BY <1>1 DEF Behind, Ahead
<1>2. CASE pending = NoSave
  BY <1>2 DEF InHand
<1> QED
  BY <1>1, <1>2

\* Requests only get newer on their way, and each section of the worker moves
\* them on.
LEMMA OnTheWay ==
  ASSUME LastPoseInv, [Next]_vars, NEW n \in Nat
  PROVE  /\ Behind(n) => Behind(n)' \/ Ahead(n)'
         /\ Behind(n) /\ WStep => Ahead(n)'
         /\ Ahead(n) => Ahead(n)' \/ InHand(n)'
         /\ Ahead(n) /\ WStep => InHand(n)'
         /\ InHand(n) => InHand(n)' \/ written' >= n
         /\ InHand(n) /\ WStep => written' >= n
<1> USE DEF LastPoseInv, LastPoseTypeOK, SlotTypes, ThreadTypes, NewestIsKept, Saves,
      Behind, Ahead, InHand
<1>1. CASE WStep
  <2>1. CASE WorkerTakes
    BY <1>1, <2>1 DEF WorkerTakes, WorkerTakesIf, WorkerStep
  <2>2. CASE WorkerWrites
    BY <1>1, <2>2 DEF WorkerWrites, WorkerWritesAnd, WorkerStep
  <2>3. CASE WorkerExits
    BY <1>1, <2>3 DEF WorkerExits, WorkerStep
  <2> QED
    BY <1>1, <2>1, <2>2, <2>3 DEF WStep
<1>2. CASE ~WStep
  <2>1. CASE UNCHANGED <<pending, accepted, request, written, wPc>>
    BY <1>2, <2>1
  <2>2. ASSUME NEW s \in Savers, SaveEnqueue(s)
        PROVE  /\ wPc' = wPc /\ request' = request
               /\ pending'.number = accepted + 1 /\ pending' # NoSave
    BY <2>2 DEF SaveEnqueue, SaverStep, worker, NoSave
  <2> QED
    BY <1>2, <2>1, <2>2, SlotSteps DEF WStep
<1> QED
  BY <1>1, <1>2

\* Every accepted request, or a newer one, is written, for any number of them.
THEOREM AcceptedRequestsAreWritten == FairSpec /\ []ThreadsMayGoOn => AcceptedIsWritten
<1>1. ASSUME NEW n \in Nat
      PROVE  FairSpec /\ []ThreadsMayGoOn => RequestReachesDisk(n)
  <2>1. LastPoseInv /\ accepted >= n => Behind(n) \/ Ahead(n) \/ InHand(n) \/ written >= n
    BY AcceptedIsOnItsWay
  <2>2. LastPoseInv /\ [Next]_vars
          => /\ Behind(n) => Behind(n)' \/ Ahead(n)'
             /\ Behind(n) /\ WStep => Ahead(n)'
             /\ Ahead(n) => Ahead(n)' \/ InHand(n)'
             /\ Ahead(n) /\ WStep => InHand(n)'
             /\ InHand(n) => InHand(n)' \/ (written >= n)'
             /\ InHand(n) /\ WStep => (written >= n)'
    BY OnTheWay
  <2>3. LastPoseInv /\ ThreadsMayGoOn
          => (Behind(n) \/ Ahead(n) \/ InHand(n) => ENABLED <<WStep>>_vars)
    BY DEF ThreadsMayGoOn, LastPoseInv, LastPoseTypeOK, SlotTypes, Behind, Ahead, InHand
  <2>4. FairSpec => Spec /\ ThreadsRun
    BY DEF FairSpec, Fairness
  <2> QED
    BY <2>1, <2>2, <2>3, <2>4, InvariantHolds, PTL DEF RequestReachesDisk, ThreadsRun, Spec
<1> QED
  BY <1>1, LastPoseAssumption DEF AcceptedIsWritten
-----------------------------------------------------------------------------
(* The destruction of the node: the operation thread ends, with the save it   *)
(* may be waiting for, then the adapter stops its worker, and that one drains *)
(* the slot.                                                                  *)

\* The operation waits for the save it has called.
AwaitsSave == oPc = "saving" /\ sPc["stop"] # "idle"

SaverAhead ==
  IF sPc["stop"] = "readMap" THEN 3 ELSE IF sPc["stop"] = "copyPose" THEN 2
  ELSE IF sPc["stop"] = "enqueue" THEN 1 ELSE 0

\* A bound on the sections of the operation and of its save.
OperationRank ==
  CASE oPc = "idle" -> 0
    [] oPc = "finish" -> 1
    [] oPc \in {"lastPose", "endSession", "sensorStop", "recoverWait"} -> 2
    [] oPc \in {"activate", "toWait", "recoverReset"} -> 3
    [] oPc \in {"launch", "recover", "stop"} -> 4
    [] oPc = "saving" -> 5 + SaverAhead
    [] OTHER -> 9

WorkerRank ==
  CASE wPc = "done" -> 0
    [] wPc = "wait" -> IF pending = NoSave THEN 1 ELSE 3
    [] OTHER -> IF pending = NoSave THEN 2 ELSE 4

LEMMA SaveDescends ==
  ASSUME oPc = "saving", oPc' = "saving",
         \/ sPc["stop"] = "readMap" /\ sPc'["stop"] \in {"copyPose", "idle"}
         \/ sPc["stop"] = "copyPose" /\ sPc'["stop"] \in {"enqueue", "idle"}
         \/ sPc["stop"] = "enqueue" /\ sPc'["stop"] = "idle"
  PROVE  OperationRank' < OperationRank
BY DEF OperationRank, SaverAhead

\* Once the node is being destroyed, only the operation itself and its save move
\* the operation, and each of their sections takes it nearer its end.
LEMMA OperationDescends ==
  ASSUME LastPoseInv, [Next]_vars, shuttingDown
  PROVE  /\ shuttingDown'
         /\ OStep => OperationRank' < OperationRank /\ ~AwaitsSave
         /\ AwaitsSave /\ SStep("stop") => OperationRank' < OperationRank
         /\ ~OStep /\ ~SStep("stop") => oPc' = oPc /\ sPc'["stop"] = sPc["stop"]
         /\ SStep("stop") => AwaitsSave /\ oPc' = oPc
         /\ AwaitsSave /\ ~SStep("stop") => AwaitsSave'
         /\ stopWorker => stopWorker'
<1> USE LastPoseAssumption DEF LastPoseInv, LastPoseTypeOK, EndsInOrder, ThreadTypes,
      SaverHasOwner, Savers
<1>1. ASSUME SStep("stop")
      PROVE  /\ AwaitsSave /\ oPc' = oPc /\ OperationRank' < OperationRank
             /\ shuttingDown' = shuttingDown /\ stopWorker' = stopWorker
  <2>1. /\ sPc["stop"] # "idle" /\ oPc' = oPc
        /\ shuttingDown' = shuttingDown /\ stopWorker' = stopWorker
        /\ \/ sPc["stop"] = "readMap" /\ sPc'["stop"] \in {"copyPose", "idle"}
           \/ sPc["stop"] = "copyPose" /\ sPc'["stop"] \in {"enqueue", "idle"}
           \/ sPc["stop"] = "enqueue" /\ sPc'["stop"] = "idle"
    BY <1>1 DEF SStep, SaveReadMap, SaveCopyPose, SaveEnqueue, SaverStep, control, worker
  <2>2. oPc = "saving"
    BY <2>1
  <2>3. OperationRank' < OperationRank
    BY <2>1, <2>2, SaveDescends
  <2>4. AwaitsSave
    BY <2>1, <2>2 DEF AwaitsSave
  <2> QED
    BY <2>1, <2>3, <2>4
<1>2. ASSUME OStep
      PROVE  /\ OperationRank' < OperationRank /\ ~AwaitsSave
             /\ shuttingDown' = shuttingDown /\ stopWorker' = stopWorker
  <2>1. /\ shuttingDown' = shuttingDown /\ stopWorker' = stopWorker
        /\ \/ oPc = "launch" /\ oPc' \in {"activate", "finish"}
           \/ oPc = "activate" /\ oPc' \in {"lastPose", "finish"}
           \/ oPc \in {"lastPose", "endSession", "sensorStop", "recoverWait"} /\ oPc' = "finish"
           \/ oPc = "finish" /\ oPc' = "idle"
           \/ oPc = "save" /\ oPc' = "stop"
           \/ oPc = "saving" /\ sPc["stop"] = "idle" /\ oPc' = "stop"
           \/ oPc = "stop" /\ oPc' \in {"toWait", "endSession", "finish"}
           \/ oPc = "toWait" /\ oPc' = "endSession"
           \/ oPc = "recover" /\ oPc' \in {"recoverReset", "finish"}
           \/ oPc = "recoverReset" /\ oPc' = "recoverWait"
    BY <1>2 DEF OStep, OLaunch, OActivate, OLastPose, OFinish, OSave, OSaved, OStop, OToWait,
        OEndSession, OSensorStop, ORecover, ORecoverReset, ORecoverWait, OStepTo, worker
  <2> QED
    BY <2>1 DEF OperationRank, SaverAhead, AwaitsSave
<1>3. ASSUME ~OStep, ~SStep("stop")
      PROVE  /\ oPc' = oPc /\ sPc'["stop"] = sPc["stop"]
             /\ shuttingDown' = shuttingDown /\ (stopWorker => stopWorker')
  <2> USE DEF manager, session, slot, savers, worker, control, callbacks
  <2>1. UNCHANGED vars \/ ProcessExits
          => oPc' = oPc /\ sPc' = sPc /\ shuttingDown' = shuttingDown /\ stopWorker' = stopWorker
    BY DEF vars, ProcessExits
  <2>2. ~Requests /\ ~WatchdogSeesFailure /\ ~TimerSave /\ ~DStep
    BY DEF Requests, HandleStartLocalization, HandleLoadMap, HandleStopLocalization,
        HandleRecover, WatchdogSeesFailure, DBegin, TimerSave, DStep, StartNewSession,
        StartBegin, WatchdogFails, WatchdogStops, DStepTo
  <2>3. ASSUME NEW c \in Callbacks, RBegin(c) \/ RStep(c)
        PROVE  oPc' = oPc /\ sPc' = sPc /\ shuttingDown' = shuttingDown
               /\ stopWorker' = stopWorker
    BY <2>3 DEF RBegin, RStep, ObserveInitialPose, PoseResetSession, PoseLeaveLocalized,
        HandleCorrection, ConfirmChecks, ConfirmLocalized, ConfirmTrust, HandleRawOdometry,
        StoreTrusted, StoreTrustedIf, RStepTo
  <2>4. ~SStep("timer")
    BY DEF SStep, SaveReadMap, SaveCopyPose, SaveEnqueue, SaverStep
  <2>5. WStep => oPc' = oPc /\ sPc' = sPc /\ shuttingDown' = shuttingDown
                  /\ stopWorker' = stopWorker
    BY DEF WStep, WorkerTakes, WorkerTakesIf, WorkerWrites, WorkerWritesAnd, WorkerExits,
        WorkerStep
  <2>6. ~Shutdown
    BY DEF Shutdown
  <2>7. StopWorker => oPc' = oPc /\ sPc' = sPc /\ shuttingDown' = shuttingDown /\ stopWorker'
    BY DEF StopWorker
  <2> QED
    BY <1>3, <2>1, <2>2, <2>3, <2>4, <2>5, <2>6, <2>7 DEF Next
<1> QED
  BY <1>1, <1>2, <1>3 DEF AwaitsSave

\* After the operation thread nobody queues anything, so that the worker only
\* drains the slot.
LEMMA WorkerDescends ==
  ASSUME LastPoseInv, [Next]_vars, stopWorker
  PROVE  IF WStep THEN WorkerRank' < WorkerRank ELSE WorkerRank' = WorkerRank
<1> USE DEF LastPoseInv, LastPoseTypeOK, EndsInOrder, ThreadTypes, SlotTypes, SaverHasOwner,
      Savers, WorkerRank
<1>1. CASE WStep
  <2>1. \/ wPc = "wait" /\ pending # NoSave /\ wPc' = "write" /\ pending' = NoSave
        \/ wPc = "write" /\ wPc' = "wait" /\ pending' = pending
        \/ wPc = "wait" /\ pending = NoSave /\ wPc' = "done"
    BY <1>1 DEF WStep, WorkerTakes, WorkerTakesIf, WorkerWrites, WorkerWritesAnd, WorkerExits,
        WorkerStep
  <2> QED
    BY <1>1, <2>1
<1>2. CASE ~WStep
  <2>1. ~(\E s \in Savers : SaveEnqueue(s))
    BY DEF SaveEnqueue, SaverStep
  <2>2. UNCHANGED <<pending, wPc>>
    BY <1>2, <2>1, SlotSteps DEF WStep
  <2> QED
    BY <1>2, <2>2
<1> QED
  BY <1>1, <1>2

LEMMA RanksAreBounded ==
  LastPoseInv => /\ OperationRank \in 0..9 /\ (OperationRank = 0 => oPc = "idle")
                 /\ WorkerRank \in 0..4 /\ (WorkerRank = 0 => wPc = "done")
BY DEF LastPoseInv, LastPoseTypeOK, ThreadTypes, OperationRank, SaverAhead, WorkerRank

\* Without any fairness: each section of the operation and of the save it may be
\* waiting for takes the operation thread nearer to being joined, each section of
\* the worker that has been told to stop nearer to its exit, and no callback,
\* process or other thread takes them back.
DestructionIsBounded ==
  [][/\ shuttingDown => IF OStep \/ SStep("stop") THEN OperationRank' < OperationRank
                                                 ELSE OperationRank' = OperationRank
     /\ stopWorker => IF WStep THEN WorkerRank' < WorkerRank
                               ELSE WorkerRank' = WorkerRank]_vars

\* The destructors have at most nine sections of the operation and four of the
\* worker to wait for, for any maps and callbacks.
THEOREM DestructionsAreBounded ==
  Spec => [](OperationRank \in 0..9 /\ WorkerRank \in 0..4) /\ DestructionIsBounded
<1>1. ASSUME LastPoseInv, [Next]_vars, shuttingDown
      PROVE  IF OStep \/ SStep("stop") THEN OperationRank' < OperationRank
                                       ELSE OperationRank' = OperationRank
  <2>1. oPc' = oPc /\ sPc'["stop"] = sPc["stop"] => OperationRank' = OperationRank
    BY DEF OperationRank, SaverAhead
  <2> QED
    BY <1>1, <2>1, OperationDescends
<1>2. LastPoseInv /\ [Next]_vars
        => [/\ shuttingDown => IF OStep \/ SStep("stop") THEN OperationRank' < OperationRank
                                                        ELSE OperationRank' = OperationRank
            /\ stopWorker => IF WStep THEN WorkerRank' < WorkerRank
                                      ELSE WorkerRank' = WorkerRank]_vars
  BY <1>1, WorkerDescends
<1> QED
  BY <1>2, InvariantHolds, RanksAreBounded, PTL DEF Spec, DestructionIsBounded

\* While the node is being destroyed, the operation has at most k sections left.
OperationLeft(k) == shuttingDown /\ OperationRank <= k

OperationNearer(k) ==
  FairSpec /\ []ThreadsMayGoOn => (OperationLeft(k + 1) ~> OperationLeft(k))

LEMMA OperationAdvances ==
  ASSUME NEW k \in Nat
  PROVE  OperationNearer(k)
<1>0. LastPoseInv' => (OperationRank \in 0..9)'
  BY RanksAreBounded, PTL
<1>1. LastPoseInv /\ LastPoseInv' /\ [Next]_vars /\ OperationLeft(k + 1)
        => /\ OperationLeft(k + 1)'
           /\ OStep => OperationLeft(k)'
           /\ AwaitsSave /\ SStep("stop") => OperationLeft(k)'
           /\ AwaitsSave /\ ~SStep("stop") => AwaitsSave'
           /\ ~AwaitsSave /\ ~OStep => (~AwaitsSave)'
  <2> SUFFICES ASSUME LastPoseInv, LastPoseInv', [Next]_vars, OperationLeft(k + 1)
               PROVE  /\ shuttingDown' /\ OperationRank' <= k + 1
                      /\ OStep => OperationRank' <= k
                      /\ AwaitsSave /\ SStep("stop") => OperationRank' <= k
                      /\ AwaitsSave /\ ~SStep("stop") => AwaitsSave'
                      /\ ~AwaitsSave /\ ~OStep => ~AwaitsSave'
    BY DEF OperationLeft
  <2>1. OperationRank \in 0..9 /\ OperationRank' \in 0..9 /\ OperationRank <= k + 1
    BY <1>0, RanksAreBounded DEF OperationLeft
  <2>2. shuttingDown
    BY DEF OperationLeft
  <2>3. oPc' = oPc /\ sPc'["stop"] = sPc["stop"]
          => OperationRank' = OperationRank /\ (~AwaitsSave => ~AwaitsSave')
    BY DEF OperationRank, SaverAhead, AwaitsSave
  <2> QED
    BY <2>1, <2>2, <2>3, OperationDescends
<1>2. LastPoseInv /\ OperationLeft(k + 1) /\ ~OperationLeft(k) => oPc # "idle"
  BY DEF OperationLeft, OperationRank
<1>3. ThreadsMayGoOn
        => /\ AwaitsSave => ENABLED <<SStep("stop")>>_vars
           /\ oPc # "idle" /\ ~AwaitsSave => ENABLED <<OStep>>_vars
  <2>1. ThreadsMayGoOn => SaverMayGoOn("stop")
    BY DEF ThreadsMayGoOn, Savers
  <2>2. SaverMayGoOn("stop") => (AwaitsSave => ENABLED <<SStep("stop")>>_vars)
    BY DEF SaverMayGoOn, AwaitsSave
  <2>3. ThreadsMayGoOn => (oPc # "idle" /\ ~AwaitsSave => ENABLED <<OStep>>_vars)
    BY DEF ThreadsMayGoOn, AwaitsSave
  <2> QED
    BY <2>1, <2>2, <2>3
<1>4. FairSpec => Spec /\ ThreadsRun /\ SaverRuns("stop")
  BY DEF FairSpec, Fairness, Savers
<1> QED
  BY <1>1, <1>2, <1>3, <1>4, InvariantHolds, PTL
  DEF OperationNearer, ThreadsRun, SaverRuns, Spec

\* The worker, told to stop, has at most k sections left.
WorkerLeft(k) == stopWorker /\ WorkerRank <= k

WorkerNearer(k) ==
  FairSpec /\ []ThreadsMayGoOn => (WorkerLeft(k + 1) ~> WorkerLeft(k))

LEMMA WorkerAdvances ==
  ASSUME NEW k \in Nat
  PROVE  WorkerNearer(k)
<1>0. LastPoseInv' => (WorkerRank \in 0..4)'
  BY RanksAreBounded, PTL
<1>1. LastPoseInv /\ LastPoseInv' /\ [Next]_vars /\ WorkerLeft(k + 1)
        => WorkerLeft(k + 1)' /\ (WStep => WorkerLeft(k)')
  <2> SUFFICES ASSUME LastPoseInv, LastPoseInv', [Next]_vars, WorkerLeft(k + 1)
               PROVE  /\ stopWorker' /\ WorkerRank' <= k + 1
                      /\ WStep => WorkerRank' <= k
    BY DEF WorkerLeft
  <2>1. WorkerRank \in 0..4 /\ WorkerRank' \in 0..4 /\ WorkerRank <= k + 1
    BY <1>0, RanksAreBounded DEF WorkerLeft
  <2>2. stopWorker /\ shuttingDown
    BY DEF WorkerLeft, LastPoseInv, EndsInOrder
  <2> QED
    BY <2>1, <2>2, WorkerDescends, OperationDescends
<1>2. LastPoseInv /\ WorkerLeft(k + 1) /\ ~WorkerLeft(k) => stopWorker /\ wPc # "done"
  BY DEF WorkerLeft, WorkerRank
<1>3. ThreadsMayGoOn => (stopWorker /\ wPc # "done" => ENABLED <<WStep>>_vars)
  BY DEF ThreadsMayGoOn
<1>4. FairSpec => Spec /\ ThreadsRun
  BY DEF FairSpec, Fairness
<1> QED
  BY <1>1, <1>2, <1>3, <1>4, InvariantHolds, PTL DEF WorkerNearer, ThreadsRun, Spec

\* The destructors return: the operation thread and the worker can be joined.
THEOREM DestructionCompletes == FairSpec /\ []ThreadsMayGoOn => DestructionEnds
<1>1. /\ OperationNearer(0) /\ OperationNearer(1) /\ OperationNearer(2) /\ OperationNearer(3)
      /\ OperationNearer(4) /\ OperationNearer(5) /\ OperationNearer(6) /\ OperationNearer(7)
      /\ OperationNearer(8)
      /\ WorkerNearer(0) /\ WorkerNearer(1) /\ WorkerNearer(2) /\ WorkerNearer(3)
  BY OperationAdvances, WorkerAdvances
<1>2. LastPoseInv =>
        /\ shuttingDown => OperationLeft(8 + 1)
        /\ OperationLeft(8) => OperationLeft(7 + 1)
        /\ OperationLeft(7) => OperationLeft(6 + 1)
        /\ OperationLeft(6) => OperationLeft(5 + 1)
        /\ OperationLeft(5) => OperationLeft(4 + 1)
        /\ OperationLeft(4) => OperationLeft(3 + 1)
        /\ OperationLeft(3) => OperationLeft(2 + 1)
        /\ OperationLeft(2) => OperationLeft(1 + 1)
        /\ OperationLeft(1) => OperationLeft(0 + 1)
        /\ OperationLeft(0) => shuttingDown /\ oPc = "idle"
        /\ stopWorker => WorkerLeft(3 + 1)
        /\ WorkerLeft(3) => WorkerLeft(2 + 1)
        /\ WorkerLeft(2) => WorkerLeft(1 + 1)
        /\ WorkerLeft(1) => WorkerLeft(0 + 1)
        /\ WorkerLeft(0) => wPc = "done"
  BY RanksAreBounded DEF OperationLeft, WorkerLeft
<1>3. LastPoseInv /\ [Next]_vars /\ OperationLeft(0) => OperationLeft(0)'
  <2> SUFFICES ASSUME LastPoseInv, [Next]_vars, shuttingDown, OperationRank <= 0
               PROVE  shuttingDown' /\ OperationRank' <= 0
    BY DEF OperationLeft
  <2>1. oPc = "idle"
    BY RanksAreBounded
  <2>2. ~OStep /\ ~SStep("stop")
    BY <2>1, OperationDescends DEF OStep, OLaunch, OActivate, OLastPose, OFinish, OSave, OSaved,
       OStop, OToWait, OEndSession, OSensorStop, ORecover, ORecoverReset, ORecoverWait, OStepTo,
       AwaitsSave
  <2> QED
    BY <2>1, <2>2, OperationDescends DEF OperationRank
<1>4. ThreadsMayGoOn =>
        (shuttingDown /\ oPc = "idle" => stopWorker \/ ENABLED <<StopWorker>>_vars)
  BY DEF ThreadsMayGoOn
<1>5. <<StopWorker>>_vars => (stopWorker)'
  BY DEF StopWorker
<1>6. FairSpec => Spec /\ ThreadsRun
  BY DEF FairSpec, Fairness
<1> QED
  BY <1>1, <1>2, <1>3, <1>4, <1>5, <1>6, InvariantHolds, PTL
  DEF OperationNearer, WorkerNearer, DestructionEnds, ThreadsRun, Spec
==============================================================================
