------------------------------- MODULE LastPose -------------------------------
(***************************************************************************)
(* The trusted pose of a localization session and how it gets saved: the    *)
(* RelocalizationAdapter and the paths of SystemManager that drive it.      *)
(*                                                                          *)
(*  - executor thread D: the mutually exclusive group, that is the          *)
(*    last-pose timer, the watchdogs and the services;                      *)
(*  - operation thread O: starts, stops and recovers localization, and      *)
(*    saves the last pose itself before a stop;                             *)
(*  - callbacks: the reentrant subscriptions to initial poses, corrections  *)
(*    and raw odometry;                                                     *)
(*  - the save worker W, which outlives all of them.                        *)
(*                                                                          *)
(* mutex_, data_mutex_ and save_mutex_ are different locks, and a step is a *)
(* section under one of them.  Of a pose only the map of the session it was *)
(* composed in is kept.  Files and the quality gate's reasons are left out; *)
(* what happens on the disk is in MapStore.  Mapping is the business of     *)
(* SystemManager and here just a time when nobody localizes.                *)
(***************************************************************************)
EXTENDS SystemState, Naturals

CONSTANTS
  Maps,        \* names of saved maps
  NoMap,       \* the empty current_map_
  Callbacks,   \* executor threads that may run relocalization callbacks
  MaxRequests  \* bound of the model: no further save begins after so many

ASSUME LastPoseAssumption == NoMap \notin Maps /\ MaxRequests \in Nat

VARIABLES
  \* SystemManager, under mutex_
  state, opInProgress, currentMap,
  shuttingDown,         \* shutting_down_
  running,              \* the localization process
  \* RelocalizationAdapter, under data_mutex_
  correctionAvailable, localized,
  trusted,              \* latest_trusted_pose_ has a value
  \* under save_mutex_
  pending,              \* pending_save_
  stopWorker,
  \* the threads: executor, operation, callbacks, worker with its request
  dPc, oPc, rPc, wPc, request,
  \* the two callers of saveLastPose, and the map name each has copied
  sPc, sMap,
  \* history: requests accepted, writes ended, the map of the newest session,
  \* of the one an odometry callback copied, and of the trusted pose's own one
  accepted, written, sessionMap, copied, poseMap

manager == <<state, opInProgress, currentMap, running>>
session == <<correctionAvailable, localized, trusted, poseMap>>
slot    == <<pending, accepted>>
savers  == <<sPc, sMap>>
worker  == <<stopWorker, wPc, request, written>>
callbacks == <<rPc, copied>>
control == <<dPc, oPc, callbacks>>

vars == <<manager, shuttingDown, session, slot, savers, worker, control, sessionMap>>

Savers == {"timer", "stop"}

NoSave == [number |-> 0, map |-> NoMap]

Saves == [number : Nat \ {0}, map : Maps]

Init ==
  /\ state = "WAIT_MODE" /\ opInProgress = FALSE /\ currentMap = NoMap
  /\ shuttingDown = FALSE /\ running = FALSE
  /\ correctionAvailable = FALSE /\ localized = FALSE /\ trusted = FALSE
  /\ pending = NoSave /\ stopWorker = FALSE
  /\ dPc = "idle" /\ oPc = "idle" /\ rPc = [c \in Callbacks |-> "idle"]
  /\ wPc = "wait" /\ request = NoSave
  /\ sPc = [s \in Savers |-> "idle"] /\ sMap = [s \in Savers |-> NoMap]
  /\ accepted = 0 /\ written = 0 /\ sessionMap = NoMap
  /\ copied = [c \in Callbacks |-> NoMap] /\ poseMap = NoMap

-----------------------------------------------------------------------------
After(next) == IF CanTransition(state, next) THEN next ELSE state

TransitionTo(next) ==
  state' = After(next) /\ UNCHANGED <<opInProgress, currentMap, running>>

\* Steps of the executor, the operation and a callback.  The timer's call of
\* saveLastPose occupies the exclusive group like any other handler.
ExecutorFreeButForTimer == dPc = "idle"

ExecutorFree == dPc = "idle" /\ sPc["timer"] = "idle"

DBegin(to) ==
  /\ ExecutorFree /\ ~shuttingDown /\ dPc' = to
  /\ UNCHANGED <<shuttingDown, oPc, callbacks, savers, slot, worker>>

DStepTo(from, to) ==
  /\ dPc = from /\ dPc' = to
  /\ UNCHANGED <<shuttingDown, callbacks, savers, slot, worker, sessionMap>>

OStepTo(from, to) ==
  /\ oPc = from /\ oPc' = to
  /\ UNCHANGED <<shuttingDown, dPc, callbacks, slot, worker, sessionMap>>

RStepTo(c, from, to) ==
  /\ rPc[c] = from /\ rPc' = [rPc EXCEPT ![c] = to]
  /\ copied' = [copied EXCEPT ![c] = IF to = "store" THEN sessionMap ELSE NoMap]
  /\ UNCHANGED <<shuttingDown, dPc, oPc, savers, slot, worker, sessionMap>>

resetSession ==
  /\ correctionAvailable' = FALSE /\ localized' = FALSE
  /\ trusted' = FALSE /\ poseMap' = NoMap

-----------------------------------------------------------------------------
(* Starting, stopping, failing and recovering a session.                     *)

HandleStartLocalization(m) ==
  /\ state = "WAIT_MODE" /\ ~opInProgress /\ ~running
  /\ opInProgress' = TRUE /\ currentMap' = m /\ sessionMap' = m
  /\ DBegin("newSession")
  /\ UNCHANGED <<state, running, session>>

StartNewSession ==
  /\ resetSession
  /\ DStepTo("newSession", "begin")
  /\ UNCHANGED <<manager, oPc>>

StartBegin ==
  /\ DStepTo("begin", "idle")
  /\ state' = After("LOCALIZATION_STARTING")
  /\ IF CanTransition(state, "LOCALIZATION_STARTING")
     THEN oPc' = "launch" /\ UNCHANGED <<opInProgress, currentMap>>
     ELSE opInProgress' = FALSE /\ currentMap' = NoMap /\ UNCHANGED oPc
  /\ UNCHANGED <<running, session>>

\* start of the localization adapter, with the undoing of a failure.
OLaunch ==
  /\ \/ running' = TRUE /\ OStepTo("launch", "activate") /\ UNCHANGED <<state, currentMap>>
     \/ /\ running' = FALSE /\ OStepTo("launch", "finish") /\ currentMap' = NoMap
        /\ state' = IF state = "LOCALIZATION_STARTING" THEN "ERROR" ELSE state
  /\ UNCHANGED <<opInProgress, session, savers>>

\* Enter RELOCALIZING, or stop the process again if the state has changed.
OActivate ==
  /\ state' = After("RELOCALIZING")
  /\ OStepTo("activate", IF CanTransition(state, "RELOCALIZING") THEN "lastPose" ELSE "finish")
  /\ \/ CanTransition(state, "RELOCALIZING") /\ UNCHANGED running
     \/ ~CanTransition(state, "RELOCALIZING") /\ running' = FALSE
  /\ UNCHANGED <<opInProgress, currentMap, session, savers>>

\* The last pose is read and published a bounded number of times; each of them
\* is an initial pose for handleInitialPoseObserved.
OLastPose == OStepTo("lastPose", "finish") /\ UNCHANGED <<manager, session, savers>>

OFinish ==
  /\ OStepTo("finish", "idle") /\ opInProgress' = FALSE
  /\ UNCHANGED <<state, currentMap, running, session, savers>>

HandleStopLocalization ==
  /\ state \in LocalizationStates /\ ~opInProgress /\ opInProgress' = TRUE
  /\ ExecutorFree /\ ~shuttingDown /\ oPc' = "save"
  /\ UNCHANGED <<state, currentMap, running, session, shuttingDown, dPc, callbacks,
                 savers, slot, worker, sessionMap>>

\* saveLastPose on the operation thread: it returns at its gates, or goes
\* through its steps.
OSave ==
  \/ OStepTo("save", "stop") /\ UNCHANGED <<manager, session, savers>>
  \/ /\ ~shuttingDown /\ accepted < MaxRequests
     /\ OStepTo("save", "saving") /\ sPc' = [sPc EXCEPT !["stop"] = "readMap"]
     /\ UNCHANGED <<manager, session, sMap>>

OSaved ==
  /\ sPc["stop"] = "idle"
  /\ OStepTo("saving", "stop") /\ UNCHANGED <<manager, session, savers>>

\* A process that has exited, or outlives SIGKILL, makes the stop fail.
OStop ==
  /\ \/ /\ running /\ running' = FALSE /\ currentMap' = NoMap /\ UNCHANGED state
        /\ OStepTo("stop", IF state \in LocalizationStates THEN "toWait" ELSE "endSession")
     \/ /\ state' = After("ERROR") /\ OStepTo("stop", "finish")
        /\ UNCHANGED <<running, currentMap>>
  /\ UNCHANGED <<opInProgress, session, savers>>

OToWait ==
  /\ TransitionTo("WAIT_MODE") /\ OStepTo("toWait", "endSession")
  /\ UNCHANGED <<session, savers>>

OEndSession ==
  /\ resetSession /\ OStepTo("endSession", "finish")
  /\ UNCHANGED <<manager, savers>>

\* A sensor or process watchdog that has seen a localization state.
WatchdogSeesFailure ==
  /\ state \in LocalizationStates
  /\ DBegin("fail") /\ UNCHANGED <<manager, session, sessionMap>>

\* It enters ERROR.
WatchdogFails ==
  /\ DStepTo("fail", "failStop")
  /\ state' = After("ERROR")
  /\ UNCHANGED <<opInProgress, currentMap, running, session, oPc>>

\* A process that still runs means that the sensors have failed: it is stopped,
\* unless an operation is in progress.
WatchdogStops ==
  /\ DStepTo("failStop", "idle")
  /\ IF running /\ ~opInProgress
     THEN opInProgress' = TRUE /\ oPc' = "sensorStop"
     ELSE UNCHANGED <<opInProgress, oPc>>
  /\ UNCHANGED <<state, currentMap, running, session>>

OSensorStop ==
  /\ running' \in {FALSE, running} /\ OStepTo("sensorStop", "finish")
  /\ UNCHANGED <<state, opInProgress, currentMap, session, savers>>

HandleRecover ==
  /\ state = "ERROR" /\ ~opInProgress /\ opInProgress' = TRUE
  /\ ExecutorFree /\ ~shuttingDown /\ oPc' = "recover" /\ state' = "RECOVERING"
  /\ UNCHANGED <<currentMap, running, session, shuttingDown, dPc, callbacks,
                 savers, slot, worker, sessionMap>>

ORecover ==
  /\ \/ running' = FALSE /\ OStepTo("recover", "recoverReset") /\ UNCHANGED state
     \/ /\ running /\ OStepTo("recover", "finish") /\ state' = After("ERROR")
        /\ UNCHANGED running
  /\ UNCHANGED <<opInProgress, currentMap, session, savers>>

ORecoverReset ==
  /\ resetSession /\ OStepTo("recoverReset", "recoverWait")
  /\ UNCHANGED <<manager, savers>>

ORecoverWait ==
  /\ IF state = "RECOVERING"
     THEN state' = After("WAIT_MODE") /\ currentMap' = NoMap
     ELSE UNCHANGED <<state, currentMap>>
  /\ OStepTo("recoverWait", "finish")
  /\ UNCHANGED <<opInProgress, running, session, savers>>

HandleLoadMap(m) ==
  /\ state \notin ActiveSlamStates /\ ~opInProgress
  /\ currentMap' = m
  /\ DBegin("idle") /\ UNCHANGED <<state, opInProgress, running, session, sessionMap>>

ProcessExits ==
  /\ running /\ running' = FALSE
  /\ UNCHANGED <<state, opInProgress, currentMap, shuttingDown, session, slot, savers,
                 worker, control, sessionMap>>

-----------------------------------------------------------------------------
(* The relocalization callbacks.                                             *)

\* handleInitialPoseObserved: a look at the state, the reset, the transition.
ObserveInitialPose(c) ==
  /\ ~shuttingDown /\ state \in {"RELOCALIZING", "LOCALIZED"}
  /\ RStepTo(c, "idle", IF state = "LOCALIZED" THEN "resetAndLeave" ELSE "reset")
  /\ UNCHANGED <<manager, session>>

PoseResetSession(c) ==
  /\ resetSession
  /\ RStepTo(c, "reset", "idle") \/ RStepTo(c, "resetAndLeave", "leave")
  /\ UNCHANGED manager

PoseLeaveLocalized(c) ==
  TransitionTo("RELOCALIZING") /\ RStepTo(c, "leave", "idle") /\ UNCHANGED session

\* handleCorrection with a stamp after the last reset.  Only the first one of a
\* session goes on to handleLocalizationConfirmed.
HandleCorrection(c) ==
  /\ ~shuttingDown /\ running /\ ~correctionAvailable
  /\ correctionAvailable' = TRUE
  /\ RStepTo(c, "idle", "confirm")
  /\ UNCHANGED <<manager, localized, trusted, poseMap>>

ConfirmChecks(c) ==
  /\ \/ RStepTo(c, "confirm", IF state = "RELOCALIZING" THEN "confirmAlive" ELSE "idle")
     \/ RStepTo(c, "confirmAlive", IF running THEN "localize" ELSE "idle")
  /\ UNCHANGED <<manager, session>>

ConfirmLocalized(c) ==
  /\ TransitionTo("LOCALIZED")
  /\ RStepTo(c, "localize", IF CanTransition(state, "LOCALIZED") THEN "trust" ELSE "idle")
  /\ UNCHANGED session

ConfirmTrust(c) ==
  /\ localized' = TRUE
  /\ RStepTo(c, "trust", "idle")
  /\ UNCHANGED <<manager, correctionAvailable, trusted, poseMap>>

\* handleRawOdometry: copies under the lock, composes outside of it, and stores
\* the pose as trusted if localized_ holds both times, be it of one session or not.
HandleRawOdometry(c) ==
  /\ ~shuttingDown /\ correctionAvailable /\ localized
  /\ RStepTo(c, "idle", "store")
  /\ UNCHANGED <<manager, session>>

StoreTrustedIf(c, trust) ==
  /\ trusted' = (trusted \/ trust)
  /\ poseMap' = IF trust THEN copied[c] ELSE poseMap
  /\ RStepTo(c, "store", "idle")
  /\ UNCHANGED <<manager, correctionAvailable, localized>>

\* Faulty: the copy of localized_ decides.
StoreTrustedFromCopy(c) == StoreTrustedIf(c, TRUE)

StoreTrusted(c) == StoreTrustedIf(c, localized)

-----------------------------------------------------------------------------
(* saveLastPose and requestLastPoseSave, by the timer and by a stop.         *)

SaverStep(s, from, to) ==
  /\ sPc[s] = from /\ sPc' = [sPc EXCEPT ![s] = to]
  /\ UNCHANGED <<manager, shuttingDown, session, worker, control, sessionMap>>

\* The gates in front, shutting_down_ and the quality, may close at any time.
TimerSave ==
  /\ ExecutorFree /\ ~shuttingDown /\ accepted < MaxRequests
  /\ SaverStep("timer", "idle", "readMap")
  /\ UNCHANGED <<slot, sMap>>

SaveReadMap(s) ==
  /\ IF state = "LOCALIZED" /\ currentMap # NoMap
     THEN SaverStep(s, "readMap", "copyPose") /\ sMap' = [sMap EXCEPT ![s] = currentMap]
     ELSE SaverStep(s, "readMap", "idle") /\ UNCHANGED sMap
  /\ UNCHANGED slot

\* The copy under data_mutex_.  A directory that is no more is refused.
SaveCopyPose(s) ==
  /\ \/ localized /\ trusted /\ SaverStep(s, "copyPose", "enqueue") /\ UNCHANGED sMap
     \/ SaverStep(s, "copyPose", "idle") /\ sMap' = [sMap EXCEPT ![s] = NoMap]
  /\ UNCHANGED slot

\* The request under save_mutex_, in place of one that still waits.
SaveEnqueue(s) ==
  /\ SaverStep(s, "enqueue", "idle") /\ sMap' = [sMap EXCEPT ![s] = NoMap]
  /\ accepted' = accepted + 1
  /\ pending' = [number |-> accepted + 1, map |-> sMap[s]]

-----------------------------------------------------------------------------
(* saveWorker, and the destructors.                                          *)

WorkerStep(from, to) ==
  /\ wPc = from /\ wPc' = to
  /\ UNCHANGED <<manager, shuttingDown, session, savers, control, sessionMap, accepted, stopWorker>>

WorkerTakesIf(awake) ==
  /\ awake /\ WorkerStep("wait", "write")
  /\ request' = pending /\ pending' = NoSave /\ UNCHANGED written

\* Faulty: a worker that has been woken takes the slot as it is.
WorkerTakesUnchecked == WorkerTakesIf(pending # NoSave \/ stopWorker)

WorkerTakes == WorkerTakesIf(pending # NoSave)

\* writeLastPose has ended, with the file installed or an error logged.
WorkerWritesAnd(slotNext) ==
  /\ WorkerStep("write", "wait")
  /\ written' = request.number /\ request' = NoSave /\ pending' = slotNext

\* Faulty: the slot is emptied after the write instead of before.
WorkerWritesAndResets == WorkerWritesAnd(NoSave)

WorkerWrites == WorkerWritesAnd(pending)

\* Faulty: a stop ends the worker whatever waits.
WorkerExitsAtOnce ==
  stopWorker /\ WorkerStep("wait", "done") /\ UNCHANGED <<pending, request, written>>

WorkerExits ==
  /\ stopWorker /\ pending = NoSave
  /\ WorkerStep("wait", "done") /\ UNCHANGED <<pending, request, written>>

\* The executor has ended, with all its handlers, and the node is destroyed.
Shutdown ==
  /\ ExecutorFree /\ (\A c \in Callbacks : rPc[c] = "idle")
  /\ ~shuttingDown /\ shuttingDown' = TRUE
  /\ UNCHANGED <<manager, session, slot, savers, worker, control, sessionMap>>

\* After the operation thread has been joined, the adapter is destroyed.
StopWorker ==
  /\ shuttingDown /\ oPc = "idle"
  /\ ~stopWorker /\ stopWorker' = TRUE
  /\ UNCHANGED <<manager, shuttingDown, session, slot, savers, wPc, request, written,
                 control, sessionMap>>

-----------------------------------------------------------------------------
Requests ==
  \/ \E m \in Maps : HandleStartLocalization(m) \/ HandleLoadMap(m)
  \/ HandleStopLocalization \/ HandleRecover

DStep == StartNewSession \/ StartBegin \/ WatchdogFails \/ WatchdogStops

OStep ==
  \/ OLaunch \/ OActivate \/ OLastPose \/ OFinish
  \/ OSave \/ OSaved \/ OStop \/ OToWait \/ OEndSession
  \/ OSensorStop \/ ORecover \/ ORecoverReset \/ ORecoverWait

RBegin(c) == ObserveInitialPose(c) \/ HandleCorrection(c) \/ HandleRawOdometry(c)

RStep(c) ==
  \/ PoseResetSession(c) \/ PoseLeaveLocalized(c)
  \/ ConfirmChecks(c) \/ ConfirmLocalized(c) \/ ConfirmTrust(c)
  \/ StoreTrusted(c)

SStep(s) == SaveReadMap(s) \/ SaveCopyPose(s) \/ SaveEnqueue(s)

WStep == WorkerTakes \/ WorkerWrites \/ WorkerExits

Next ==
  \/ ProcessExits \/ Requests \/ WatchdogSeesFailure \/ TimerSave
  \/ DStep \/ OStep
  \/ \E c \in Callbacks : RBegin(c) \/ RStep(c)
  \/ \E s \in Savers : SStep(s)
  \/ WStep \/ Shutdown \/ StopWorker

Spec == Init /\ [][Next]_vars

\* Every thread that has something to do does it: no step waits for another
\* thread, except for the joins.  Nothing makes requests, poses or exits come.
ThreadsRun == WF_vars(DStep) /\ WF_vars(OStep) /\ WF_vars(WStep) /\ WF_vars(StopWorker)

CallbackRuns(c) == WF_vars(RStep(c))

SaverRuns(s) == WF_vars(SStep(s))

Fairness ==
  /\ ThreadsRun
  /\ \A c \in Callbacks : CallbackRuns(c)
  /\ \A s \in Savers : SaverRuns(s)

FairSpec == Spec /\ Fairness

-----------------------------------------------------------------------------
(* Properties.                                                               *)

FlagTypes ==
  /\ opInProgress \in BOOLEAN /\ shuttingDown \in BOOLEAN /\ running \in BOOLEAN
  /\ correctionAvailable \in BOOLEAN /\ localized \in BOOLEAN /\ trusted \in BOOLEAN
  /\ stopWorker \in BOOLEAN

DataTypes ==
  /\ state \in SystemStates
  /\ currentMap \in Maps \cup {NoMap} /\ sessionMap \in Maps \cup {NoMap}
  /\ sMap \in [Savers -> Maps \cup {NoMap}]
  /\ copied \in [Callbacks -> Maps \cup {NoMap}] /\ poseMap \in Maps \cup {NoMap}
  /\ \A s \in Savers : sPc[s] \in {"copyPose", "enqueue"} => sMap[s] \in Maps

SlotTypes ==
  /\ pending \in Saves \cup {NoSave} /\ request \in Saves \cup {NoSave}
  /\ wPc = "write" <=> request # NoSave
  /\ accepted \in Nat /\ written \in Nat

ThreadTypes ==
  /\ dPc \in {"idle", "newSession", "begin", "fail", "failStop"}
  /\ oPc \in {"idle", "launch", "activate", "lastPose", "finish", "save", "saving", "stop",
              "toWait", "endSession", "sensorStop", "recover", "recoverReset", "recoverWait"}
  /\ rPc \in [Callbacks -> {"idle", "reset", "resetAndLeave", "leave", "confirm",
                            "confirmAlive", "localize", "trust", "store"}]
  /\ sPc \in [Savers -> {"idle", "readMap", "copyPose", "enqueue"}]
  /\ wPc \in {"wait", "write", "done"}

\* Type invariant: savers have a map, and the worker writes what it has taken.
LastPoseTypeOK == FlagTypes /\ DataTypes /\ SlotTypes /\ ThreadTypes

\* A reset ends the trust in a pose, and an odometry callback that was composing
\* one meanwhile cannot undo that: no pose is trusted unless setLocalized(true)
\* has come since the last reset.  This says neither that the state was still
\* LOCALIZED by then (SystemManager's LocalizedNeedsCorrection) nor of which
\* session the pose is (SavedPoseIsOfTheMap).
TrustNeedsSession == trusted => localized

\* A save names the map of the session that runs when it is queued, although the
\* name, the pose and the queue are read and written under three locks, the
\* operation thread stops sessions meanwhile, and another may be started.  It is
\* about the file; SavedPoseIsOfTheMap is about the pose that goes into it.
SavesGoToSessionMap ==
  [][accepted' # accepted => pending'.map = sessionMap]_vars

\* project_summary_2026-08-12.md: in LOCALIZED, and only there, the last pose of
\* the current map is saved.  A pose that is saved for a map should have been
\* composed in a session on that map.  It need not be: an odometry callback may
\* copy its correction in one session and store the pose, as trusted, in a later
\* one that another callback has confirmed meanwhile.
SavedPoseIsOfTheMap ==
  [][\A s \in Savers : sPc[s] = "copyPose" /\ sPc'[s] = "enqueue" => poseMap = sMap[s]]_vars

Slot == INSTANCE SaveSlot WITH closed <- wPc = "done"

\* The two savers, the slot that keeps the newest request only, and the worker
\* that drains it when the node is destroyed keep what SaveSlot promises.
ImplementsSaveSlot == Slot!Spec

ModeOf(s) ==
  CASE s \in LocalizationStates -> "localization"
    [] s \in {"ERROR", "RECOVERING"} -> "failed"
    [] OTHER -> "idle"

Modes == INSTANCE SlamModes WITH
  Processes <- {"localization"}, AutoStart <- {},
  mode <- ModeOf(state), busy <- opInProgress,
  live <- IF running THEN {"localization"} ELSE {}

\* The part of the manager that is kept here is one that SlamModes allows, as
\* SystemManager is.
ImplementsSlamModes == Modes!Spec

SaverMayGoOn(s) == sPc[s] # "idle" => ENABLED <<SStep(s)>>_vars

\* Nobody waits for anybody, except for the save a stop has called and for the
\* joins of the destructors, whose turn comes: no accepted request is left in
\* front of a worker that sleeps or has ended, and no thread under way is stuck.
ThreadsMayGoOn ==
  /\ dPc # "idle" => ENABLED <<DStep>>_vars
  /\ oPc \notin {"idle", "saving"} => ENABLED <<OStep>>_vars
  /\ oPc = "saving" /\ sPc["stop"] = "idle" => ENABLED <<OStep>>_vars
  /\ \A c \in Callbacks : rPc[c] # "idle" => ENABLED <<RStep(c)>>_vars
  /\ \A s \in Savers : SaverMayGoOn(s)
  /\ pending # NoSave \/ request # NoSave => ENABLED <<WStep>>_vars
  /\ stopWorker /\ wPc # "done" => ENABLED <<WStep>>_vars
  /\ shuttingDown /\ oPc = "idle" /\ ~stopWorker => ENABLED <<StopWorker>>_vars

RequestReachesDisk(n) == accepted >= n ~> written >= n

\* Every accepted request, or a newer one, comes to be written, also when newer
\* ones keep taking its place and when the node is being destroyed.
AcceptedIsWritten == \A n \in 1..(MaxRequests + 1) : RequestReachesDisk(n)

\* The destruction of the node comes to its end: the operation thread can be
\* joined, and the worker after it.
DestructionEnds == shuttingDown ~> wPc = "done"

\* phase7_initial_pose_last_pose_commands.md: LOCALIZED, a new initial pose,
\* RELOCALIZING, LOCALIZED.  A correction that comes between the reset and the
\* transition is the first of the new session, finds the state still LOCALIZED
\* and confirms nothing; as no later one is the first, the system stays in
\* RELOCALIZING until somebody sends one more initial pose.
CorrectionEndsRelocalizing ==
  \A c \in Callbacks :
    (rPc[c] = "leave" /\ correctionAvailable) ~>
      (state # "RELOCALIZING" /\ rPc[c] = "idle") \/ ~correctionAvailable \/ ~running

==============================================================================
