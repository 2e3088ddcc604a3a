------------------------ MODULE SystemManagerInvariant ------------------------
(***************************************************************************)
(* The inductive invariants behind the safety properties of SystemManager.  *)
(* The first says, label by label, which lifecycle states are possible while *)
(* the executor thread or the operation thread stands there, and from that  *)
(* which processes can run.  The second builds on it: which thread owes an  *)
(* error code, and which map a session has.                                 *)
(***************************************************************************)
EXTENDS SystemManager

IdleStates == {"SENSOR_STARTING", "SENSOR_READY", "WAIT_MODE"}

\* The states a start of process p can meet, apart from ERROR: a callback of an
\* older session may move LOCALIZATION_STARTING on.
StartStates(p) == IF p = "mapping" THEN {"MAPPING_STARTING"} ELSE LocalizationStates

\* The operation thread is in a stop that returns to label ret.
InStop(ret) == oPc \in {"stop", "stopping"} /\ oRet = ret

InSweep(ret) == oPc \in {"sweep", "stop", "stopping"} /\ oRet = ret

\* The states in which each label of the operation thread can be met.
OperationState ==
  /\ state \notin {"BOOT", "SYSTEM_CHECK", "SHUTDOWN"}
  /\ oPc \in {"idle", "finish"} => state \notin TransientStates
  /\ oPc \in {"launch", "await", "activate", "failCode", "failState", "failClean"}
        \/ InStop("failCode") => state \in StartStates(oProc) \cup {"ERROR"}
  /\ oPc = "failClean" /\ ~oShould => state # Starting(oProc)
  /\ oPc = "lastPose" => oProc = "localization"
  /\ oPc = "lastPose" \/ InStop("stopDone") \/ oPc \in {"stopDone", "stopWait"}
        => state \in Expecting(oProc) \cup {"ERROR"}
  /\ InStop("finish") =>
        state \in (StartStates(oProc) \ {Starting(oProc)}) \cup {"ERROR"}
  /\ oPc = "endSession" => state \in IdleStates \cup {"ERROR"}
  /\ oPc \in {"save", "saving", "saveCode", "saveState", "saveWait"} \/ InStop("saveCode")
        => oProc = "mapping" /\ state \in {"MAP_SAVING", "ERROR"}
  /\ oPc = "toError" => state \notin IdleStates
  /\ InSweep("recoverSwept")
        \/ oPc \in {"recoverSwept", "recoverCode", "recoverReset", "recoverClear",
                    "recoverToWait", "recoverToStarting"} => state = "RECOVERING"
  /\ InSweep("sensorSwept") \/ oPc = "sensorSwept" => state = "ERROR"
  /\ oPc = "sweep" => oRet \in {"sensorSwept", "recoverSwept"}
  /\ oPc \in {"sensorSwept", "recoverSwept"} => oRet = oPc

\* The states in which each label of the executor thread can be met.
HandlerState ==
  /\ dPc \in {"clearError", "toReady"} => state = "SENSOR_STARTING"
  /\ dPc = "toWait" => state = "SENSOR_READY"
  /\ dPc \in {"toStarting", "prepareMap", "select", "newSession", "begin"} =>
        state \in {"SENSOR_READY", "WAIT_MODE"}
  /\ dPc = "beginSave" => state = "MAPPING"
  /\ dPc \in {"sensorCode", "sensorError"} =>
        state \in ActiveSlamStates \cup {"WAIT_MODE", "ERROR"}
  /\ dPc \in {"sensorLive", "sensorLiveToo", "sensorStop"} => state = "ERROR"
  /\ dPc \in {"monitor", "exitCode", "exitError"} =>
        ~opInProgress /\ state \in Expecting(dProc)

\* A mapping session has a current map until the operation that ends it
\* forgets it.
SessionHasMap ==
  /\ dPc \in {"newSession", "begin"} => currentMap \in Maps
  /\ state \in {"MAPPING_STARTING", "MAPPING"} =>
        currentMap \in Maps \/ oPc \in {"failClean", "toError", "stopWait"}

\* A running process belongs to the mode of the system, to a failed system or,
\* when it was started with the node, to one that is idle.
ProcessBelongs ==
  \A p \in Processes :
    running[p] =>
      \/ ModeOf(state) \in {p, "failed"}
      \/ p \in AutoStart /\ ModeOf(state) = "idle"

\* A start request that looked at the other process need not look again: the
\* process is still down, or the state the request will be refused in shows it.
StartIsExclusive ==
  \A p \in Processes :
    /\ dPc \in {"checkOwn", "admit"} /\ p # dProc /\ running[p] =>
          ModeOf(state) \in {p, "failed"}
    /\ dPc \in {"prepareMap", "select", "newSession", "begin"} /\ p # dProc => ~running[p]
    /\ oPc = "launch" /\ p # oProc => ~running[p]

\* What a stop reported is still true where it is used.
StoppedStaysStopped ==
  /\ oPc = "stopping" => ~oOk
  /\ oPc \in {"stopDone", "saveCode", "saveState", "recoverSwept"} /\ oOk => ~running[oProc]
  /\ oPc \in {"stopWait", "saveWait"} => ~running[oProc]

\* Recovery has stopped, or counted as failed, what it has taken from oTodo.
SweepIsComplete ==
  /\ InSweep("recoverSwept") \/ oPc = "recoverSwept" =>
        \A p \in Processes :
          running[p] => oFailed \/ p \in oTodo \/ (oPc # "sweep" /\ p = oProc)
  /\ oPc \in {"recoverReset", "recoverClear", "recoverToWait", "recoverToStarting"} =>
        \A p \in Processes : ~running[p]

ExitStays == dPc \in {"exitCode", "exitError"} => ~running[dProc]

\* The part of the invariant about states and labels, and the whole of it.
ControlInv ==
  /\ TypeOK
  /\ FlagHasOneOwner
  /\ OperationState
  /\ HandlerState
  /\ SessionHasMap

\* The inductive invariant: it holds together the labels, the states and the
\* processes well enough to imply every safety property proved from it.
InductiveInv ==
  /\ ControlInv
  /\ MutualExclusion
  /\ ProcessBelongs
  /\ StartIsExclusive
  /\ StoppedStaysStopped
  /\ SweepIsComplete
  /\ ExitStays

-----------------------------------------------------------------------------
(* The invariant behind what the system reports and behind the map of a     *)
(* session.  Its second half needs a stop to end in the death of the process:*)
(* one that survives SIGKILL outlives its start, and its map.                *)

\* Between the lock section that sets the code of a failure and the one that
\* enters ERROR.
AboutToFail ==
  \/ oPc \in {"toError", "failState"}
  \/ oPc = "failClean" /\ oShould
  \/ oPc = "saveState" /\ (oFailed \/ ~oOk)

\* The code is set before ERROR is entered and stays until ERROR is left.
ErrorsTold ==
  /\ ErrorHasCode
  /\ dPc \in {"sensorError", "exitError"} => errorCode # NoError
  /\ AboutToFail => errorCode # NoError

\* A session that ERROR did not take although its start failed: a callback had
\* moved LOCALIZATION_STARTING on.  Its process is gone, so a stop of it fails.
SlippedAway ==
  /\ state \in LocalizationStates /\ ~running["localization"]
  /\ \/ oPc \in {"idle", "finish", "failClean"}
     \/ oPc = "stop" /\ oRet = "stopDone"
     \/ oPc = "stopDone" /\ ~oOk

\* A code met in active SLAM belongs to a failure that has not ended in ERROR yet.
CodeIsOwed ==
  errorCode # NoError /\ state \in ActiveSlamStates =>
    dPc \in {"sensorError", "exitError"} \/ AboutToFail \/ SlippedAway

\* The idle states are entered without a code, and one found there by the sensor
\* or the process timer is not set before they are left.
IdleCode ==
  /\ IdleIsClean
  /\ dPc = "toReady" => errorCode = NoError
  /\ dPc = "waitingCode" => state = "SENSOR_STARTING"
  /\ dPc \in {"monitor", "exitCode", "exitError"} => state \in Expecting(dProc)
  /\ oPc \in {"recoverToWait", "recoverToStarting"} => errorCode = NoError

\* The process a request is about to start is down, and down again after its
\* start failed.
OwnProcessIsDown ==
  /\ dPc = "admit" /\ running[dProc] => ModeOf(state) \in {dProc, "failed"}
  /\ dPc \in {"prepareMap", "select", "newSession", "begin"} => ~running[dProc]
  /\ oPc = "launch" => ~running[oProc]
  /\ oPc \in {"failCode", "failState", "failClean"} => ~running[oProc]

\* The map of a session is ready from the check of the request on, and no map
\* request is under way while SLAM is active.
SessionKeepsMap ==
  /\ \A p \in Processes :
       running[p] /\ state \in StartStates(p) \cup Expecting(p) => MapReady(p)
  /\ oPc = "launch" => state = "ERROR" \/ MapReady(oProc)
  /\ dPc = "select" => maps[reqMap] = WantedMap(dProc)
  /\ dPc \in {"newSession", "begin"} => MapReady(dProc)
  /\ dPc \in {"createMap", "deleteMap", "loadMap", "selectMap"} =>
        state \notin ActiveSlamStates

\* Inductive together with InductiveInv where no process survives SIGKILL.
SessionInv ==
  /\ ErrorsTold
  /\ CodeIsOwed
  /\ IdleCode
  /\ OwnProcessIsDown
  /\ SessionKeepsMap

==============================================================================
