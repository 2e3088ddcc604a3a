---------------------------- MODULE SystemManager ----------------------------
(***************************************************************************)
(* The SystemManager node: the lifecycle state machine and everything that  *)
(* runs concurrently around it.                                             *)
(*                                                                          *)
(*  - the executor thread D runs the handlers of the node's mutually        *)
(*    exclusive callback group, that is the services and the two watchdog   *)
(*    timers, one at a time;                                                *)
(*  - the operation thread O runs the long body of one accepted request;    *)
(*  - the callbacks in Callbacks are executor threads that run the          *)
(*    relocalization subscriptions, which sit in a reentrant group;         *)
(*  - the environment makes processes exit and publish corrections.         *)
(*                                                                          *)
(* A step is one section of code under a mutex, one call that changes a     *)
(* process or the disk, or one read of shared data: mutex_ is released      *)
(* between a check of current_state_ and the transitionTo that follows it.  *)
(*                                                                          *)
(* Definitions marked Faulty are variants of the one below them; a run in   *)
(* which they replace it must violate a property (README.md lists which).   *)
(***************************************************************************)
EXTENDS SystemState, Naturals, FiniteSets

CONSTANTS
  Maps,         \* names of maps under the map root
  NoMap,        \* the empty current_map_
  Callbacks,    \* executor threads that may run relocalization callbacks
  AutoStart,    \* SLAM processes process.yaml starts with the node
  GraceTicks,   \* active_failure_grace_sec, in periods of the sensor timer
  KillMayFail   \* whether a process may survive the 2 s wait after SIGKILL

Processes == {"mapping", "localization"}

NoError == "none"

ErrorCodes ==
  {NoError, "SENSOR", "AUTO_START_FAILED", "START_FAILED", "STOP_FAILED",
   "MAP_SAVE_FAILED", "PROCESS_EXITED", "RECOVERY_FAILED", "OPERATION_EXCEPTION"}

\* Nothing in process.yaml's validation forbids starting both processes with
\* the node, but the shipped configuration starts neither and mutual exclusion
\* is only promised for what the requests start.
ASSUME AutoStartAssumption == AutoStart \in SUBSET Processes /\ AutoStart # Processes

ASSUME ConstantsAssumption ==
  /\ NoMap \notin Maps
  /\ GraceTicks \in Nat
  /\ KillMayFail \in BOOLEAN

VARIABLES
  \* SystemManager, under mutex_
  state,          \* current_state_
  opInProgress,   \* operation_in_progress_
  errorCode,      \* error_code_
  currentMap,     \* current_map_
  sensorReady,    \* sensor_status_.sensor_ready
  failureAge,     \* ticks since sensor_failure_started_at_, 0 when it is not set
  \* ProcessManager and MapManager
  running,        \* what isProcessRunning answers for each process
  maps,           \* each map directory: absent, empty, or with a map.pcd
  \* RelocalizationAdapter, under data_mutex_
  correctionAvailable,
  localized,
  freshCorrection, \* a correction stamped after relocalization_started_at_ exists
  \* the request that holds the flag: its map, and whether it created it
  reqMap, reqCreated,
  \* the executor thread: program counter and locals of its handler
  dPc, dProc, dLive,
  \* the operation thread: program counter and locals of its operation
  oPc, oProc, oRet, oOk, oFailed, oShould, oTodo,
  \* the callbacks
  rPc

sensor  == <<sensorReady, failureAge>>
world   == <<running, maps>>
session == <<correctionAvailable, localized, freshCorrection>>
request == <<reqMap, reqCreated>>
data    == <<state, opInProgress, errorCode, currentMap, sensor, world, session, request>>

dVars   == <<dPc, dProc, dLive>>
oLocals == <<oProc, oRet, oOk, oFailed, oShould, oTodo>>
oVars   == <<oPc, oLocals>>

vars == <<data, dVars, oVars, rPc>>

-----------------------------------------------------------------------------
Starting(p) == IF p = "mapping" THEN "MAPPING_STARTING" ELSE "LOCALIZATION_STARTING"

Active(p) == IF p = "mapping" THEN "MAPPING" ELSE "RELOCALIZING"

\* The states in which a stop request for process p is valid.
Stoppable(p) == IF p = "mapping" THEN {"MAPPING"} ELSE LocalizationStates

\* The states in which monitorProcesses expects process p to be alive.
Expecting(p) == IF p = "mapping" THEN {"MAPPING"} ELSE {"RELOCALIZING", "LOCALIZED"}

\* transitionTo: a move the table forbids is logged and dropped.
After(next) == IF CanTransition(state, next) THEN next ELSE state

TransitionTo(next) ==
  /\ state' = After(next)
  /\ UNCHANGED <<opInProgress, errorCode, currentMap, sensor, world, session, request>>

SetSystemError(code) ==
  /\ errorCode' = code
  /\ UNCHANGED <<state, opInProgress, currentMap, sensor, world, session, request>>

\* resetSession of the relocalization adapter: it also takes a new
\* relocalization_started_at_, so every correction sent so far becomes stale.
ResetSession ==
  /\ correctionAvailable' = FALSE /\ localized' = FALSE /\ freshCorrection' = FALSE
  /\ UNCHANGED <<state, opInProgress, errorCode, currentMap, sensor, world, request>>

\* finishOperation, and the captures of the request go out of scope.
FinishOperation ==
  /\ opInProgress' = FALSE
  /\ reqMap' = NoMap /\ reqCreated' = FALSE

\* Moving one thread from a label to the next while the others stand still.
DGoto(from, to) ==
  /\ dPc = from /\ dPc' = to
  /\ UNCHANGED <<dProc, dLive, oVars, rPc>>

DEnd(from) ==
  /\ dPc = from /\ dPc' = "idle"
  /\ dProc' = "mapping" /\ dLive' = {}

DReturn(from) == DEnd(from) /\ UNCHANGED <<oVars, rPc>>

OGoto(from, to) ==
  /\ oPc = from /\ oPc' = to
  /\ UNCHANGED <<oLocals, dVars, rPc>>

RGoto(c, from, to) ==
  /\ rPc[c] = from /\ rPc' = [rPc EXCEPT ![c] = to]
  /\ UNCHANGED <<dVars, oVars>>

-----------------------------------------------------------------------------
(* The constructor has run; the executor is about to spin.  Auto-start may  *)
(* have failed, which leaves the node in ERROR with what did start.         *)
Init ==
  /\ \/ /\ state = "SENSOR_STARTING" /\ errorCode = NoError
        /\ running = [p \in Processes |-> p \in AutoStart]
     \/ /\ state = "ERROR" /\ errorCode = "AUTO_START_FAILED"
        /\ \E started \in SUBSET AutoStart :
             running = [p \in Processes |-> p \in started]
  /\ opInProgress = FALSE /\ currentMap = NoMap
  /\ sensorReady = FALSE /\ failureAge = 0
  /\ maps \in [Maps -> {"absent", "empty", "saved"}]
  /\ correctionAvailable = FALSE /\ localized = FALSE /\ freshCorrection = FALSE
  /\ reqMap = NoMap /\ reqCreated = FALSE
  /\ dPc = "idle" /\ dProc = "mapping" /\ dLive = {}
  /\ oPc = "idle" /\ oProc = "mapping" /\ oRet = "finish" /\ oOk = FALSE
  /\ oFailed = FALSE /\ oShould = FALSE /\ oTodo = {}
  /\ rPc = [c \in Callbacks |-> "idle"]

-----------------------------------------------------------------------------
(* The environment.                                                          *)

\* A SLAM process ends by itself; the next refresh reaps it.
ProcessExits(p) ==
  /\ running[p] /\ running' = [running EXCEPT ![p] = FALSE]
  /\ UNCHANGED <<state, opInProgress, errorCode, currentMap, sensor, maps,
                 session, request, dVars, oVars, rPc>>

\* The localization process publishes /map_to_odom.
PublishCorrection ==
  /\ running["localization"]
  /\ ~freshCorrection /\ freshCorrection' = TRUE
  /\ UNCHANGED <<state, opInProgress, errorCode, currentMap, sensor, world,
                 correctionAvailable, localized, request, dVars, oVars, rPc>>

-----------------------------------------------------------------------------
(* updateSensorState, the sensor timer's callback.                           *)

\* The first lock section: latch the status and run the failure timer.  Where
\* the callback goes from here is decided on the snapshot of current_state_
\* taken in this section, whatever becomes of it while the mutex is free.
SensorTick(ready) ==
  /\ sensorReady' = ready
  /\ failureAge' = IF ready THEN 0
                   ELSE IF failureAge > GraceTicks THEN failureAge ELSE failureAge + 1
  /\ DGoto("idle",
       IF ready
       THEN CASE state = "SENSOR_STARTING" -> "clearError"
              [] state = "SENSOR_READY" -> "toWait"
              [] OTHER -> "idle"
       ELSE CASE state \in ActiveSlamStates ->
                   IF failureAge >= GraceTicks THEN "sensorCode" ELSE "idle"
              [] state \in {"SENSOR_READY", "WAIT_MODE"} -> "toStarting"
              [] state = "SENSOR_STARTING" -> "waitingCode"
              [] OTHER -> "idle")
  /\ UNCHANGED <<state, opInProgress, errorCode, currentMap, world, session, request>>

\* Faulty: the code of the wait for the sensors is kept.
SensorKeepsError == SetSystemError(errorCode) /\ DGoto("clearError", "toReady")

SensorClearError == SetSystemError(NoError) /\ DGoto("clearError", "toReady")

SensorToReady == TransitionTo("SENSOR_READY") /\ DGoto("toReady", "toWait")

SensorToWait == TransitionTo("WAIT_MODE") /\ DReturn("toWait")

\* An idle system whose sensors failed goes back to waiting for them.
SensorToStarting == TransitionTo("SENSOR_STARTING") /\ DGoto("toStarting", "waitingCode")

\* The code that says what is missing, once the startup grace has elapsed.
SensorWaitingCode ==
  /\ \E code \in {errorCode, "SENSOR"} : SetSystemError(code)
  /\ DReturn("waitingCode")

\* Active SLAM and the grace is over: set the code, enter ERROR, read which
\* processes live, and stop them unless an operation is in progress.
SensorSetCode == SetSystemError("SENSOR") /\ DGoto("sensorCode", "sensorError")

SensorToError == TransitionTo("ERROR") /\ DGoto("sensorError", "sensorLive")

\* Two looks, under the mutex of ProcessManager each.
SensorReadLive ==
  /\ \/ /\ dPc = "sensorLive" /\ dPc' = "sensorLiveToo"
        /\ dLive' = {p \in {"mapping"} : running[p]}
     \/ /\ dPc = "sensorLiveToo" /\ dPc' = "sensorStop"
        /\ dLive' = dLive \cup {p \in {"localization"} : running[p]}
  /\ UNCHANGED <<data, dProc, oVars, rPc>>

\* launchOperation first joins the previous operation thread: O is idle
\* whenever opInProgress is FALSE, so the join never waits.
SensorStop ==
  /\ DEnd("sensorStop")
  /\ IF ~opInProgress /\ dLive # {}
     THEN /\ opInProgress' = TRUE
          /\ oPc' = "sweep" /\ oRet' = "sensorSwept" /\ oTodo' = dLive
     ELSE UNCHANGED <<opInProgress, oPc, oRet, oTodo>>
  /\ UNCHANGED <<state, errorCode, currentMap, sensor, world, session, request,
                 oProc, oOk, oFailed, oShould, rPc>>

-----------------------------------------------------------------------------
(* monitorProcesses, the process timer's callback.                           *)

\* The snapshot: nothing to check during an operation or outside active SLAM.
MonitorIn(p, states) ==
  /\ dPc = "idle" /\ dPc' = "monitor"
  /\ state \in states
  /\ dProc' = p
  /\ UNCHANGED <<data, dLive, oVars, rPc>>

\* Faulty: the operation flag is not looked at; LOCALIZED is not watched.
MonitorTickUnflagged(p) == MonitorIn(p, Expecting(p))

MonitorTickNotLocalized(p) == ~opInProgress /\ MonitorIn(p, {Active(p)})

MonitorTick(p) == ~opInProgress /\ MonitorIn(p, Expecting(p))

MonitorCheck ==
  /\ IF running[dProc] THEN DReturn("monitor") ELSE DGoto("monitor", "exitCode")
  /\ UNCHANGED data

MonitorSetCode == SetSystemError("PROCESS_EXITED") /\ DGoto("exitCode", "exitError")

MonitorToError == TransitionTo("ERROR") /\ DReturn("exitError")

-----------------------------------------------------------------------------
(* The services.  A request that is refused changes nothing and is no step;  *)
(* a request refused after the flag was taken only gives the flag back.      *)

\* finishOperation as the last statement of a handler.
DFinish ==
  /\ FinishOperation /\ DReturn("finish")
  /\ UNCHANGED <<state, errorCode, currentMap, sensor, world, session>>

HandleRecover ==
  /\ dPc = "idle"
  /\ state = "ERROR" /\ state' = After("RECOVERING")
  /\ ~opInProgress /\ opInProgress' = TRUE
  /\ oPc' = "sweep" /\ oRet' = "recoverSwept" /\ oTodo' = Processes
  /\ UNCHANGED <<errorCode, currentMap, sensor, world, session, request, dVars,
                 oProc, oOk, oFailed, oShould, rPc>>

\* The three map requests share their first lock section and their end.
TakeFlagForMap(m, label) ==
  /\ ~opInProgress /\ opInProgress' = TRUE
  /\ reqMap' = m
  /\ DGoto("idle", label)
  /\ UNCHANGED <<state, errorCode, currentMap, sensor, world, session, reqCreated>>

\* Faulty: map directories may change while SLAM is active.
ClaimMapAnytime(m, label) == TakeFlagForMap(m, label)

ClaimMap(m, label) == state \notin ActiveSlamStates /\ TakeFlagForMap(m, label)

HandleCreateMap(m) == ClaimMap(m, "createMap")

HandleDeleteMap(m) == m # currentMap /\ ClaimMap(m, "deleteMap")

HandleLoadMap(m) == ClaimMap(m, "loadMap")

\* The map directory of the request becomes what; nothing else changes.
SetMap(what) ==
  /\ maps' = [maps EXCEPT ![reqMap] = what]
  /\ UNCHANGED <<state, opInProgress, errorCode, currentMap, sensor, running,
                 session, request>>

\* What deleteMap may leave: the disk can fail half way through, and then a
\* directory remains whose metadata is gone, so that every use of it is refused.
Leftovers(was) == IF was = "absent" THEN {"absent"} ELSE {"absent", "empty", was}

\* The calls of MapManager throw when the disk or the metadata fails them.
CreateMap ==
  /\ DGoto("createMap", "finish")
  /\ (maps[reqMap] = "absent" /\ SetMap("empty")) \/ UNCHANGED data

DeleteMap ==
  /\ DGoto("deleteMap", "finish")
  /\ \E left \in Leftovers(maps[reqMap]) : SetMap(left)

LoadMapOr(refused) ==
  /\ \/ DGoto("loadMap", "selectMap") /\ maps[reqMap] = "saved"
     \/ DGoto("loadMap", refused)
  /\ UNCHANGED data

\* Faulty: a map that cannot be loaded returns without finishOperation.
LoadMapLeaksFlag == LoadMapOr("idle")

LoadMap == LoadMapOr("finish")

SelectMap ==
  /\ DGoto("selectMap", "finish")
  /\ currentMap' = reqMap
  /\ UNCHANGED <<state, opInProgress, errorCode, sensor, world, session, request>>

\* Starting mapping or localization.  The handler reads the other SLAM process
\* first, then its own, and only then takes mutex_ to look at the state.  A
\* request also stops there when a foreign mapping node offers the save service.
StartUnless(p, blockers) ==
  /\ \A q \in blockers : ~running[q]
  /\ dPc = "idle" /\ dPc' = "checkOwn"
  /\ dProc' = p
  /\ UNCHANGED <<data, dLive, oVars, rPc>>

\* Faulty: the other SLAM process is not looked at.
HandleStartUnchecked(p) == StartUnless(p, {})

HandleStart(p) == StartUnless(p, Processes \ {p})

HandleStartMapping == HandleStart("mapping")

HandleStartLocalization == HandleStart("localization")

StartCheckOwn ==
  /\ IF running[dProc] THEN DReturn("checkOwn") ELSE DGoto("checkOwn", "admit")
  /\ UNCHANGED data

\* The lock section that admits the request for map m or refuses it.
StartAdmitIf(m, admitted) ==
  /\ IF admitted
     THEN opInProgress' = TRUE /\ reqMap' = m /\ DGoto("admit", "prepareMap")
     ELSE UNCHANGED <<opInProgress, reqMap>> /\ DReturn("admit")
  /\ UNCHANGED <<state, errorCode, currentMap, sensor, world, session, reqCreated>>

\* Faulty: the flag, or the state, is not looked at.
StartAdmitUnflagged(m) == StartAdmitIf(m, state \in {"WAIT_MODE", "SENSOR_READY"} /\ sensorReady)

StartAdmitAnyState(m) == StartAdmitIf(m, sensorReady /\ ~opInProgress)

StartAdmit(m) ==
  StartAdmitIf(m, state \in {"WAIT_MODE", "SENSOR_READY"} /\ sensorReady /\ ~opInProgress)

\* Mapping wants a directory without a map.pcd and creates it when it is
\* missing; localization wants a directory with one.
StartPrepareMap ==
  \/ /\ DGoto("prepareMap", "select")
     /\ maps[reqMap] = "saved" <=> dProc = "localization"
     /\ reqCreated' = (maps[reqMap] = "absent")
     /\ maps' = IF reqCreated' THEN [maps EXCEPT ![reqMap] = "empty"] ELSE maps
     /\ UNCHANGED <<state, opInProgress, errorCode, currentMap, sensor, running,
                    session, reqMap>>
  \/ DGoto("prepareMap", "finish") /\ UNCHANGED data

StartSelects(m) ==
  /\ currentMap' = m /\ errorCode' = NoError
  /\ DGoto("select", IF dProc = "mapping" THEN "begin" ELSE "newSession")
  /\ UNCHANGED <<state, opInProgress, sensor, world, session, request>>

\* Faulty: the started map does not become the current one.
StartForgetsMap == StartSelects(currentMap)

StartSelect == StartSelects(reqMap)

StartNewSession == ResetSession /\ DGoto("newSession", "begin")

\* Enter the starting state and launch the operation; if the state had changed
\* meanwhile, undo what was prepared and give the flag back.
StartBegin ==
  /\ DEnd("begin")
  /\ state' = After(Starting(dProc))
  /\ IF CanTransition(state, Starting(dProc))
     THEN /\ oPc' = "launch" /\ oProc' = dProc
          /\ UNCHANGED <<opInProgress, currentMap, maps, request>>
     ELSE /\ FinishOperation
          /\ IF reqCreated
             THEN \E left \in Leftovers(maps[reqMap]) : maps' = [maps EXCEPT ![reqMap] = left]
             ELSE UNCHANGED maps
          /\ currentMap' = NoMap
          /\ UNCHANGED <<oPc, oProc>>
  /\ UNCHANGED <<errorCode, sensor, running, session,
                 oRet, oOk, oFailed, oShould, oTodo, rPc>>

\* Stopping without saving, and stopping localization.
HandleStop(p) ==
  /\ dPc = "idle"
  /\ state \in Stoppable(p)
  /\ ~opInProgress /\ opInProgress' = TRUE
  /\ oPc' = "stop" /\ oProc' = p /\ oRet' = "stopDone"
  /\ UNCHANGED <<state, errorCode, currentMap, sensor, world, session, request,
                 dVars, oOk, oFailed, oShould, oTodo, rPc>>

HandleStopMapping == HandleStop("mapping")

HandleStopLocalization == HandleStop("localization")

HandleSaveMap ==
  /\ state = "MAPPING"
  /\ ~opInProgress /\ opInProgress' = TRUE
  /\ reqMap' = currentMap
  /\ DGoto("idle", "beginSave")
  /\ UNCHANGED <<state, errorCode, currentMap, sensor, world, session, reqCreated>>

SaveBegin ==
  /\ DEnd("beginSave")
  /\ state' = After("MAP_SAVING")
  /\ IF CanTransition(state, "MAP_SAVING")
     THEN oPc' = "save" /\ oProc' = "mapping" /\ UNCHANGED <<opInProgress, request>>
     ELSE FinishOperation /\ UNCHANGED <<oPc, oProc>>
  /\ UNCHANGED <<errorCode, currentMap, sensor, world, session,
                 oRet, oOk, oFailed, oShould, oTodo, rPc>>

-----------------------------------------------------------------------------
(* The operation thread.                                                     *)

\* finishOperation, the last statement of every operation.
OFinish ==
  /\ oPc = "finish" /\ oPc' = "idle"
  /\ FinishOperation
  /\ oProc' = "mapping" /\ oRet' = "finish" /\ oTodo' = {}
  /\ oOk' = FALSE /\ oFailed' = FALSE /\ oShould' = FALSE
  /\ UNCHANGED <<state, errorCode, currentMap, sensor, world, session, dVars, rPc>>

\* An exception thrown out of the operation: by the calls on the file system
\* after a save reply and before the last pose is read.
OThrowWith(code) ==
  /\ \E label \in {"saving", "lastPose"} : OGoto(label, "toError")
  /\ SetSystemError(code)

\* Faulty: the catch block reports nothing.
OThrowSilently == OThrowWith(errorCode)

OThrow == OThrowWith("OPERATION_EXCEPTION")

\* transitionTo(ERROR) where nothing but finishOperation follows it.
OToError == TransitionTo("ERROR") /\ OGoto("toError", "finish")

\* stop of an adapter: nothing to stop is a failure, also when the process exits
\* between the adapter's look and stopProcess's own; otherwise signal the process
\* and wait for it, escalating from SIGINT to SIGKILL.
OStop ==
  /\ oPc = "stop" /\ oPc' = IF running[oProc] THEN "stopping" ELSE oRet
  /\ oOk' = FALSE
  /\ UNCHANGED <<data, dVars, oProc, oRet, oFailed, oShould, oTodo, rPc>>

OStopping ==
  /\ oPc = "stopping" /\ oPc' = oRet
  /\ \/ oOk' = TRUE /\ running' = [running EXCEPT ![oProc] = FALSE]
     \/ (KillMayFail \/ ~running[oProc]) /\ UNCHANGED <<running, oOk>>
  /\ UNCHANGED <<state, opInProgress, errorCode, currentMap, sensor, maps, session,
                 request, dVars, oProc, oRet, oFailed, oShould, oTodo, rPc>>

\* start of an adapter up to startProcess.  Besides a process that runs, a
\* configuration, map or fork error makes it fail.
OLaunch ==
  /\ \/ /\ ~running[oProc] /\ running' = [running EXCEPT ![oProc] = TRUE]
        /\ OGoto("launch", "await")
     \/ UNCHANGED running /\ OGoto("launch", "failCode")
  /\ UNCHANGED <<state, opInProgress, errorCode, currentMap, sensor, maps, session, request>>

\* Faulty: it is waited for until it is ready or the time is over, and only as
\* long as it lives.
OAwaitLiving ==
  /\ oPc = "await" /\ running[oProc]
  /\ (oPc' = "activate" /\ UNCHANGED oRet) \/ (oPc' = "stop" /\ oRet' = "failCode")
  /\ UNCHANGED <<data, dVars, oProc, oOk, oFailed, oShould, oTodo, rPc>>

\* The rest of start: the process becomes ready, exits, or is stopped again
\* because it was not ready in time.
OAwaitReady ==
  /\ oPc = "await"
  /\ IF running[oProc]
     THEN \/ oPc' = "activate" /\ UNCHANGED oRet
          \/ oPc' = "stop" /\ oRet' = "failCode"
     ELSE oPc' = "failCode" /\ UNCHANGED oRet
  /\ UNCHANGED <<data, dVars, oProc, oOk, oFailed, oShould, oTodo, rPc>>

OStartFailedCode == SetSystemError("START_FAILED") /\ OGoto("failCode", "failState")

OStartFailedState ==
  /\ oPc = "failState" /\ oPc' = "failClean"
  /\ oShould' = (state = Starting(oProc))
  /\ currentMap' = NoMap
  /\ UNCHANGED <<state, opInProgress, errorCode, sensor, world, session, request,
                 dVars, oProc, oRet, oOk, oFailed, oTodo, rPc>>

\* A map directory this request created is removed again.
OStartFailedClean ==
  /\ OGoto("failClean", IF oShould THEN "toError" ELSE "finish")
  /\ IF reqCreated
     THEN \E left \in Leftovers(maps[reqMap]) : SetMap(left)
     ELSE UNCHANGED data

\* The process is up: enter the active state, or stop it if the state changed.
OActivate ==
  /\ TransitionTo(Active(oProc))
  /\ oPc = "activate"
  /\ IF CanTransition(state, Active(oProc))
     THEN oPc' = (IF oProc = "mapping" THEN "finish" ELSE "lastPose") /\ UNCHANGED oRet
     ELSE oPc' = "stop" /\ oRet' = "finish"
  /\ UNCHANGED <<dVars, oProc, oOk, oFailed, oShould, oTodo, rPc>>

\* The last pose is loaded and published up to last_pose_retry_count times; the
\* loop ends at the latest after its last retry.  What it publishes is one more
\* initial pose for ObserveInitialPose.
OLastPose == OGoto("lastPose", "finish") /\ UNCHANGED data

\* After the stop of a stop request.
OStopDoneIf(stopped) ==
  /\ IF stopped
     THEN /\ OGoto("stopDone", IF state \in Stoppable(oProc) THEN "stopWait" ELSE "endSession")
          /\ currentMap' = NoMap /\ UNCHANGED errorCode
     ELSE /\ OGoto("stopDone", "toError")
          /\ errorCode' = "STOP_FAILED" /\ UNCHANGED currentMap
  /\ UNCHANGED <<state, opInProgress, sensor, world, session, request>>

\* Faulty: the result of stop is ignored.
OStopDoneAlways == OStopDoneIf(TRUE)

OStopDone == OStopDoneIf(oOk)

OStopToWait == TransitionTo("WAIT_MODE") /\ OGoto("stopWait", "endSession")

OEndSession ==
  /\ IF oProc = "localization" THEN ResetSession ELSE UNCHANGED data
  /\ OGoto("endSession", "finish")

\* saveMap of the mapping adapter: remove the previous output, call the save
\* service, and believe it only when the file is there.
OSave ==
  /\ oPc = "save"
  /\ \/ /\ running["mapping"] /\ SetMap("empty")
        /\ oPc' = "saving" /\ UNCHANGED <<oRet, oFailed>>
     \/ /\ oFailed' = TRUE /\ UNCHANGED data
        /\ oPc' = "stop" /\ oRet' = "saveCode"
  /\ UNCHANGED <<dVars, oProc, oOk, oShould, oTodo, rPc>>

\* The reply or the timeout.  A save that is reported failed may still have
\* written the file; one that is reported done has also marked the map saved.
OSaved ==
  /\ oPc = "saving" /\ oPc' = "stop" /\ oRet' = "saveCode"
  /\ \E written, failed \in BOOLEAN :
       /\ written \/ failed
       /\ IF written THEN SetMap("saved") ELSE UNCHANGED data
       /\ oFailed' = failed
  /\ UNCHANGED <<dVars, oProc, oOk, oShould, oTodo, rPc>>

OSaveCode ==
  /\ SetSystemError(IF oFailed THEN "MAP_SAVE_FAILED"
                    ELSE IF ~oOk THEN "STOP_FAILED" ELSE errorCode)
  /\ OGoto("saveCode", "saveState")

OSaveState ==
  /\ OGoto("saveState", IF state # "MAP_SAVING" THEN "finish"
                        ELSE IF oOk /\ ~oFailed THEN "saveWait" ELSE "toError")
  /\ UNCHANGED data

OSaveToWait == TransitionTo("WAIT_MODE") /\ OGoto("saveWait", "finish")

\* Recovery and the reaction to a sensor failure stop every process in oTodo,
\* mapping first.  Recovery only counts a failed stop of a process still alive.
OSweep ==
  /\ oPc = "sweep" /\ oPc' = "stop"
  /\ oProc' = IF "mapping" \in oTodo THEN "mapping" ELSE "localization"
  /\ oTodo' = oTodo \ {oProc'}
  /\ UNCHANGED <<data, dVars, oRet, oOk, oFailed, oShould, rPc>>

OSensorSwept ==
  /\ OGoto("sensorSwept", IF oTodo # {} THEN "sweep" ELSE "finish")
  /\ UNCHANGED data

ORecoverSweptWith(failedBefore) ==
  /\ oPc = "recoverSwept"
  /\ oFailed' = (failedBefore \/ (~oOk /\ running[oProc]))
  /\ oPc' = IF oTodo # {} THEN "sweep"
            ELSE IF oFailed' THEN "recoverCode" ELSE "recoverReset"
  /\ UNCHANGED <<data, dVars, oProc, oRet, oOk, oShould, oTodo, rPc>>

\* Faulty: only the last stop counts.
ORecoverSweptLast == ORecoverSweptWith(FALSE)

ORecoverSwept == ORecoverSweptWith(oFailed)

ORecoverFailed == SetSystemError("RECOVERY_FAILED") /\ OGoto("recoverCode", "toError")

ORecoverReset == ResetSession /\ OGoto("recoverReset", "recoverClear")

\* The lock section that forgets the failed session, with a new sensor status.
ORecoverClear(ready) ==
  /\ IF state = "RECOVERING"
     THEN /\ currentMap' = NoMap /\ errorCode' = NoError
          /\ sensorReady' = ready /\ failureAge' = 0
          /\ OGoto("recoverClear", IF ready THEN "recoverToWait" ELSE "recoverToStarting")
     ELSE /\ UNCHANGED <<currentMap, errorCode, sensor>>
          /\ OGoto("recoverClear", "finish")
  /\ UNCHANGED <<state, opInProgress, world, session, request>>

ORecoverTo(target) ==
  /\ TransitionTo(target)
  /\ OGoto(IF target = "WAIT_MODE" THEN "recoverToWait" ELSE "recoverToStarting",
           IF CanTransition(state, target) THEN "finish" ELSE "recoverCode")

-----------------------------------------------------------------------------
(* The relocalization callbacks.                                             *)

\* handleInitialPoseObserved: an initial pose was seen on the topic, published
\* by this node or by anyone else; the snapshot decides what follows.
ObserveInitialPose(c) ==
  /\ state \in {"RELOCALIZING", "LOCALIZED"}
  /\ RGoto(c, "idle", IF state = "LOCALIZED" THEN "resetAndLeave" ELSE "reset")
  /\ UNCHANGED data

PoseResetSession(c) ==
  /\ ResetSession
  /\ RGoto(c, "reset", "idle") \/ RGoto(c, "resetAndLeave", "leave")

PoseLeaveLocalized(c) == TransitionTo("RELOCALIZING") /\ RGoto(c, "leave", "idle")

\* handleCorrection: a correction not newer than the session is dropped; only
\* the first one after a reset calls handleLocalizationConfirmed.
ReceiveCorrection(c) ==
  /\ freshCorrection
  /\ ~correctionAvailable /\ correctionAvailable' = TRUE
  /\ RGoto(c, "idle", "confirm")
  /\ UNCHANGED <<state, opInProgress, errorCode, currentMap, sensor, world,
                 localized, freshCorrection, request>>

ConfirmCheckState(c) ==
  /\ RGoto(c, "confirm", IF state = "RELOCALIZING" THEN "confirmAlive" ELSE "idle")
  /\ UNCHANGED data

ConfirmCheckAlive(c) ==
  /\ RGoto(c, "confirmAlive", IF running["localization"] THEN "localize" ELSE "idle")
  /\ UNCHANGED data

ConfirmLocalized(c) ==
  /\ TransitionTo("LOCALIZED")
  /\ RGoto(c, "localize", IF CanTransition(state, "LOCALIZED") THEN "trust" ELSE "idle")

\* setLocalized(true): from here on odometry becomes the trusted pose.
ConfirmTrust(c) ==
  /\ localized' = TRUE
  /\ RGoto(c, "trust", "idle")
  /\ UNCHANGED <<state, opInProgress, errorCode, currentMap, sensor, world,
                 correctionAvailable, freshCorrection, request>>

-----------------------------------------------------------------------------
Environment == (\E p \in Processes : ProcessExits(p)) \/ PublishCorrection

\* Steps that begin a handler, left to timers and clients.
Timers == (\E ready \in BOOLEAN : SensorTick(ready)) \/ (\E p \in Processes : MonitorTick(p))

Requests ==
  \/ HandleRecover
  \/ \E m \in Maps : HandleCreateMap(m) \/ HandleDeleteMap(m) \/ HandleLoadMap(m)
  \/ HandleStartMapping \/ HandleStartLocalization
  \/ HandleStopMapping \/ HandleStopLocalization
  \/ HandleSaveMap

\* Steps that continue a handler of the executor thread.
DSensor ==
  \/ SensorClearError \/ SensorToReady \/ SensorToWait \/ SensorToStarting
  \/ SensorWaitingCode \/ SensorSetCode \/ SensorToError \/ SensorReadLive \/ SensorStop

DMonitor == MonitorCheck \/ MonitorSetCode \/ MonitorToError

DRequest ==
  \/ CreateMap \/ DeleteMap \/ LoadMap \/ SelectMap \/ DFinish
  \/ StartCheckOwn \/ (\E m \in Maps : StartAdmit(m)) \/ StartPrepareMap
  \/ StartSelect \/ StartNewSession \/ StartBegin \/ SaveBegin

DStep == DSensor \/ DMonitor \/ DRequest

OStart ==
  \/ OLaunch \/ OAwaitReady \/ OActivate \/ OLastPose
  \/ OStartFailedCode \/ OStartFailedState \/ OStartFailedClean

OEnd ==
  \/ OStop \/ OStopping \/ OStopDone \/ OStopToWait \/ OEndSession
  \/ OSave \/ OSaved \/ OSaveCode \/ OSaveState \/ OSaveToWait

ORecover ==
  \/ OSweep \/ OSensorSwept \/ ORecoverSwept \/ ORecoverFailed \/ ORecoverReset
  \/ (\E ready \in BOOLEAN : ORecoverClear(ready))
  \/ (\E target \in {"WAIT_MODE", "SENSOR_STARTING"} : ORecoverTo(target))

OStep == OStart \/ OEnd \/ ORecover \/ OThrow \/ OToError \/ OFinish

RBegin(c) == ObserveInitialPose(c) \/ ReceiveCorrection(c)

RStep(c) ==
  \/ PoseResetSession(c) \/ PoseLeaveLocalized(c)
  \/ ConfirmCheckState(c) \/ ConfirmCheckAlive(c) \/ ConfirmLocalized(c) \/ ConfirmTrust(c)

Next ==
  \/ Environment
  \/ Timers \/ Requests \/ DStep
  \/ OStep
  \/ \E c \in Callbacks : RBegin(c) \/ RStep(c)

Spec == Init /\ [][Next]_vars

-----------------------------------------------------------------------------
(* Fairness: a started handler, operation or callback keeps running, since   *)
(* every wait in it has a timeout.  The executor looks at ready timers before*)
(* ready services, so a client cannot keep the process timer from firing.    *)
HandlerRuns == WF_vars(DStep)

OperationRuns == WF_vars(OStep)

CallbackRuns(c) == WF_vars(RStep(c))

MonitorComesBack(p) == SF_vars(MonitorTick(p))

Fairness ==
  /\ HandlerRuns
  /\ OperationRuns
  /\ \A c \in Callbacks : CallbackRuns(c)
  /\ \A p \in Processes : MonitorComesBack(p)

FairSpec == Spec /\ Fairness

-----------------------------------------------------------------------------
(* Properties.                                                               *)

\* The handler labels at which the executor thread holds the operation flag.
ClaimedLabels ==
  {"createMap", "deleteMap", "loadMap", "selectMap", "finish",
   "prepareMap", "select", "newSession", "begin", "beginSave"}

DLabels ==
  ClaimedLabels \cup
  {"idle", "clearError", "toReady", "toWait", "toStarting", "waitingCode",
   "sensorCode", "sensorError", "sensorLive", "sensorLiveToo", "sensorStop",
   "monitor", "exitCode", "exitError", "checkOwn", "admit"}

\* Labels a stop of the operation thread returns to.
StopReturns == {"finish", "failCode", "stopDone", "saveCode", "sensorSwept", "recoverSwept"}

OLabels ==
  StopReturns \cup
  {"idle", "toError", "stop", "stopping", "launch", "await", "failState", "failClean",
   "activate", "lastPose", "stopWait", "endSession", "save", "saving", "saveState",
   "saveWait", "sweep", "recoverCode", "recoverReset", "recoverClear",
   "recoverToWait", "recoverToStarting"}

RLabels ==
  {"idle", "reset", "resetAndLeave", "leave", "confirm", "confirmAlive", "localize", "trust"}

\* The labels at which the map of the request is read.
MapLabelsD == ClaimedLabels \ {"finish"}

MapLabelsO == {"save", "saving"}

DataTypes ==
  /\ state \in SystemStates
  /\ opInProgress \in BOOLEAN
  /\ errorCode \in ErrorCodes
  /\ currentMap \in Maps \cup {NoMap}
  /\ sensorReady \in BOOLEAN
  /\ failureAge \in 0..(GraceTicks + 1)
  /\ running \in [Processes -> BOOLEAN]
  /\ maps \in [Maps -> {"absent", "empty", "saved"}]
  /\ correctionAvailable \in BOOLEAN /\ localized \in BOOLEAN /\ freshCorrection \in BOOLEAN
  /\ reqMap \in Maps \cup {NoMap} /\ reqCreated \in BOOLEAN

ThreadTypes ==
  /\ dPc \in DLabels /\ dProc \in Processes /\ dLive \in SUBSET Processes
  /\ oPc \in OLabels /\ oProc \in Processes /\ oRet \in StopReturns
  /\ oOk \in BOOLEAN /\ oFailed \in BOOLEAN /\ oShould \in BOOLEAN
  /\ oTodo \in SUBSET Processes
  /\ rPc \in [Callbacks -> RLabels]

RequestHasMap ==
  dPc \in MapLabelsD \/ oPc \in MapLabelsO \/ reqCreated => reqMap \in Maps

\* Type invariant.  Wherever a handler or an operation uses the map it captured
\* there is one: a save request, in particular, always finds a current map.
TypeOK == DataTypes /\ ThreadTypes /\ RequestHasMap

\* Mapping and localization never run at the same time, whatever the order of
\* requests, process exits, sensor failures and failed stops.
MutualExclusion == ~(running["mapping"] /\ running["localization"])

\* The operation flag is up exactly while one handler or the operation thread
\* owns it, and never two of them do: that is what lets launchOperation join
\* the previous thread without waiting and lets operations use the adapters.
FlagHasOneOwner ==
  /\ opInProgress <=> (dPc \in ClaimedLabels \/ oPc # "idle")
  /\ ~(dPc \in ClaimedLabels /\ oPc # "idle")

\* Between operations a SLAM process runs only in the states that watch it, or
\* in ERROR, from where recovery stops it; no other state hides a process.
ProcessHasMode ==
  ~opInProgress =>
    \A p \in Processes \ AutoStart :
      running[p] => state \in Expecting(p) \cup {"ERROR"}

\* A client that sees ERROR is always told why: no clearing of the code by a
\* timer, a start request or a recovery can overtake the failure.
ErrorHasCode == state = "ERROR" => errorCode # NoError

\* A system that waits for a request shows no leftover error, unless the sensor
\* timer is just turning it into a new one.
IdleIsClean ==
  state \in {"SENSOR_READY", "WAIT_MODE"} =>
    errorCode = NoError \/ dPc = "sensorError"

\* monitorProcesses looks at the flag and the state, at the process, and sets code
\* and state in four sections.  When it reports an exit, the process is down still,
\* the session it ends is one that expects that process, and no operation is under
\* way: the exit that a stop, a save or a recovery is just bringing about is not
\* reported.  One brought about by an operation that has ended may be, namely that
\* of a failed start which left the state to an old callback.
MonitorSeesRealExit ==
  dPc \in {"exitCode", "exitError"} =>
    ~opInProgress /\ ~running[dProc] /\ state \in Expecting(dProc)

\* Once a start or save request is past its lock section the state cannot slip
\* away before transitionTo: "State changed before ..." is never answered.
AdmittedRequestProceeds ==
  /\ dPc = "begin" => CanTransition(state, Starting(dProc))
  /\ dPc = "beginSave" => CanTransition(state, "MAP_SAVING")

\* What each session works on: mapping wants a directory without a map.pcd,
\* localization one with it.
WantedMap(p) == IF p = "mapping" THEN "empty" ELSE "saved"

MapReady(p) == currentMap \in Maps /\ maps[currentMap] = WantedMap(p)

\* The map a running session works on is selected and on disk, with a map.pcd
\* for localization, whatever map requests came before.
SessionMapOnDisk ==
  \A p \in Processes :
    ~opInProgress /\ running[p] /\ state \in Expecting(p) => MapReady(p)

\* Recovery ends in a usable state only when no SLAM process is left.
RecoveryStopsEverything ==
  [][(state = "RECOVERING" /\ state' \in {"WAIT_MODE", "SENSOR_STARTING"}) =>
       \A p \in Processes : ~running[p]]_vars

\* monitorProcesses would look at process p if the timer fired now.
MonitorDue(p) == dPc = "idle" /\ ~opInProgress /\ state \in Expecting(p)

\* A handler, an operation or a callback that has begun can take its next section
\* in every state the other threads and the exits of processes may bring about.
\* The mutexes are not in the model, a section being one step, and neither is the
\* join in launchOperation: FlagHasOneOwner is what says that it has nothing to
\* wait for but the return of a thread that has given the flag back.
NobodyWaits ==
  /\ dPc # "idle" => ENABLED <<DStep>>_vars
  /\ oPc # "idle" => ENABLED <<OStep>>_vars
  /\ \A c \in Callbacks : rPc[c] # "idle" => ENABLED <<RStep(c)>>_vars
  /\ \A p \in Processes : MonitorDue(p) => ENABLED <<MonitorTick(p)>>_vars

\* Every accepted request, and every stop after a sensor failure, comes to an
\* end and lets the next request in.  Since no operation ends in a transient
\* state (OperationState in SystemManagerInvariant), none of these is permanent.
OperationCompletes == opInProgress ~> ~opInProgress

\* The states that only an operation enters and leaves.
TransientStates == {"MAPPING_STARTING", "MAP_SAVING", "LOCALIZATION_STARTING", "RECOVERING"}

Missing(p) == state \in Expecting(p) /\ ~running[p]

MissingEnds(p) == Missing(p) ~> ~Missing(p)

\* The exit of a SLAM process is noticed: the system does not stay in a state
\* that expects a process that is gone.
ExitIsNoticed == \A p \in Processes : MissingEnds(p)

-----------------------------------------------------------------------------
(* The refinement of SlamModes.                                              *)

ModeOf(s) ==
  CASE s \in MappingStates -> "mapping"
    [] s \in LocalizationStates -> "localization"
    [] s \in {"ERROR", "RECOVERING"} -> "failed"
    [] OTHER -> "idle"

Modes == INSTANCE SlamModes WITH
  mode <- ModeOf(state),
  busy <- opInProgress,
  live <- {p \in Processes : running[p]}

\* The threads, with every lock section a step of its own, implement the
\* one-slot mode control of SlamModes.
ImplementsSlamModes == Modes!Spec

-----------------------------------------------------------------------------
(* What the documents say and the code does not keep.                        *)

\* project_summary_2026-08-12.md: after an initial pose the system stays in
\* RELOCALIZING until the algorithm sends a new /map_to_odom.  The confirmation
\* checks the state, then the process, then moves, and an initial pose that
\* resets the session in between is not seen.
LocalizedNeedsCorrection ==
  [][state # "LOCALIZED" /\ state' = "LOCALIZED" => correctionAvailable]_vars

\* phase6_localization_commands.md: when the sensors stay away localization is
\* stopped and ERROR entered.  During the last-pose phase of a start the flag is
\* still up, so the callback enters ERROR and leaves the process alone.
SensorFailureStopsLocalization ==
  (state = "ERROR" /\ errorCode = "SENSOR" /\ running["localization"]) ~>
    (~running["localization"] \/ state # "ERROR")

==============================================================================
