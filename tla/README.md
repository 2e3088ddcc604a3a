# Verification of slam_system_manager

`slam_system_manager` is a ROS 2 node that runs a robot's mapping and localization. It starts and
stops two external SLAM programs, watches the lidar and the programs, owns the map directories,
and tells clients one lifecycle state. Nearly all of its difficulty is concurrency: services,
timers, subscriptions, an operation thread and the external programs all move the same few
variables, and no lock is held over a check of the state and the transition that follows it.

This directory holds TLA+ modules for that behaviour, TLC configurations that check them on small
instances, and TLAPS proofs of the main results for all instances. Paths below are relative to
the repository; `src/system_manager.cpp` is the C++ file in its directory `src/`.

## 1. Inventory

| Component | State | Operations | Interacts with |
|---|---|---|---|
| **SystemManager** (`src/system_manager.cpp`) | `current_state_`, `operation_in_progress_`, `error_code_`, `current_map_`, `sensor_status_`, failure timer, all under `mutex_`; the operation thread | services recover, create/delete/load map, start/stop mapping, start/stop localization, save map, set initial pose; sensor timer, process timer, status timer; last-pose timer; callbacks of the relocalization adapter | every other component |
| **Lifecycle table** (`system_state.hpp`) | none | `canTransition` | SystemManager's `transitionTo` drops what it forbids |
| **ProcessManager** | per process: pid, exit code; own mutex and monitor thread | start (fork, setpgid, exec), stop (SIGINT, SIGTERM, SIGKILL with timeouts), refresh (waitpid), stopAll | operating system; the adapters |
| **MappingAdapter** | none of its own | start, stop, save (ROS service with a timeout, then the file) | ProcessManager, MapManager, mapping program |
| **LocalizationAdapter** | none of its own | start with a readiness loop, stop | ProcessManager, localization program |
| **RelocalizationAdapter** | session (start time, first correction, localized), fused pose, trusted pose, last-pose worker; `data_mutex_` | reset, set localized, initial pose, corrections, odometry, save and publish last pose | SystemManager callbacks, topics, map directory |
| **MapManager** | directories under the map root | create, delete, load, mark saved, list | disk |
| **LocalizationQualityMonitor** | level, three counters, latest samples and ages; own mutex | four observers, reset, evaluate | topics; context from SystemManager |
| **HealthMonitor** | per stream: received, last stamp, window of stamps; own mutex | two callbacks, `getStatus` | sensor timer, which keeps the age of a failure |
| **ConfigManager** | values read once | load | constructors |
| **Status publication, main** | none | copy and publish | executor |

Threads: the executor is multi-threaded. Services, sensor timer and process timer sit in one
mutually exclusive group, so one of them runs at a time. The relocalization subscriptions sit in a
reentrant group and run beside it and beside each other. The operation thread runs the long part
of one accepted request. ProcessManager and RelocalizationAdapter each own one more thread.

What is hard, and what would be right:

* **SystemManager.** A check and the transition it justifies are separate lock sections; the flag
  is taken by one thread and given back by another; every failure exit must give it back; error
  code and state are separate writes; processes die at any moment. Right means: never two SLAM
  programs, one operation at a time, no running program that nobody watches, an error always has
  a code, recovery is complete, every operation ends, every exit is noticed, the map in use is on
  disk.
* **ProcessManager.** The stop works outside the mutex on a copied pid while other threads reap;
  only the leader of a process group is waited for. Right means: a stop that reports success left
  nothing behind, no signal to a pid that is no longer ours, no exit code lost.
* **RelocalizationAdapter.** Corrections, odometry and resets interleave; the trusted pose is
  composed outside the lock; the worker writes into a map directory. Right means: a trusted or saved
  pose belongs to one session and one map, and what was accepted is written before the node ends.
* **LocalizationQualityMonitor.** Hysteresis at exact counts, resets from other threads, ages.
  Right means: the level is moved by the right runs of evaluations, a valid pose rests on data
  received since the last reset, silence is noticed.
* **MapManager.** A kill or a disk error between any two file operations, beside a worker and a
  mapping process that write into the same directories. Right means: installed files are whole, a
  saved map stays until its deletion, a name is listed, free, or freed by a deletion.
* **HealthMonitor.** Stamps are taken before the lock and stored in any order. Right means: silence
  is seen at once and fails the session after the grace, and nothing else does.

`PROJECT.json` lists the hazards line by line, with the property that covers each or the reason
why none does yet.

## 2. Modules

| Module | Models | Role |
|---|---|---|
| `SystemState` | `system_state.hpp` | the transition table and the classes of states |
| `SlamModes` | – | abstract specification: one slot for a SLAM process, operations take turns |
| `SystemManager` | `system_manager.cpp` with what it uses of the adapters, ProcessManager and MapManager | the system, one step per lock section |
| `SystemManagerInvariant` | – | the two inductive invariants: of control and processes, of codes and maps |
| `SystemManagerProofs` | – | TLAPS proofs about SystemManager: control and processes, and that it implements SlamModes |
| `SystemManagerSessionProofs` | – | TLAPS proofs about error codes and the map of a session |
| `SystemManagerLivenessProofs` | – | TLAPS proofs of what handlers, operations, callbacks and exits come to in the end |
| `MCSystemManager` | – | symmetry sets for TLC |
| `QualityHysteresis` | – | abstract specification: levels as a function of runs of verdicts |
| `LocalizationQuality` | `localization_quality_monitor.cpp` | the quality monitor, one step per operation |
| `LocalizationQualityProofs` | – | TLAPS proofs about LocalizationQuality |
| `ProcessSlots` | – | abstract specification: live names, and stops that are answered |
| `ProcessManager` | `process_manager.cpp` | records and children, stops outside the mutex, destruction |
| `ProcessManagerProofs` | – | TLAPS proofs about ProcessManager, safety and liveness |
| `SaveSlot` | – | abstract specification: numbered save requests, newest wins, none lost at the end |
| `LastPose` | `relocalization_adapter.cpp` and the paths of `system_manager.cpp` that drive it | trusted pose, savers, worker, shutdown |
| `LastPoseProofs` | – | TLAPS proofs about LastPose, safety and liveness |
| `MapCatalog` | – | abstract specification: names that are listed, hidden or free, and answers |
| `MapStore` | `map_manager.cpp`, `writeLastPose`, `saveMap` and the handlers around them | map directories, one file operation at a time |
| `MCMapStore` | – | symmetry for TLC |
| `MapStoreProofs` | – | TLAPS proofs about MapStore |
| `HealthMonitor` | `health_monitor.cpp`, `updateSensorState` | stamps out of order, windows, the age of a failure |
| `MCHealthMonitor` | – | the timeouts for TLC |
| `HealthMonitorProofs` | – | TLAPS proofs about HealthMonitor |

### SystemManager

Three kinds of thread have a program counter. `dPc` is the executor thread inside a handler of the
exclusive group, `oPc` the operation thread, `rPc[c]` one relocalization callback for each `c` in
`Callbacks`. A step is one lock section, one call that changes a process or the disk, or one
read of shared data. So `handleStartMapping` is `HandleStartMapping` (reads the other process),
`StartCheckOwn` (reads its own), `StartAdmit` (the lock section that takes the flag),
`StartPrepareMap` (disk), `StartSelect` (lock section), `StartBegin` (`transitionTo` and
`launchOperation`), and then `OLaunch`, `OAwaitReady`, `OActivate`, `OLastPose` or the
`OStartFailed...` steps in the operation thread. Anything else may happen between two of them.

Names of variables follow the members: `state` is `current_state_`, `opInProgress` is
`operation_in_progress_`, and so on; the declarations say which. `transitionTo` is
`TransitionTo`, which drops a forbidden move as the code does. A refused request changes nothing
and is no step. `reqMap` and `reqCreated` are what the operation's lambda captures.

Abstractions: sensor readiness is any Boolean at each sensor tick; `failureAge` counts ticks and stops
one above `GraceTicks`; a map directory is absent, empty or holds a map; error codes are grouped by
the failure they tell; a process exits whenever it likes, and with `KillMayFail` it may outlive the
stop, as `stopProcess` can report. Exceptions of an operation (`OThrow`) can come where the code
calls something that throws.

### LocalizationQuality

Every operation is one section under `mutex_` and one action. A sample is refused (no number, or a
stamp that does not advance), stored with a fault (a jump or an impossible speed) or sound. An age
is never, fresh or stale. The confidence is reduced to the side of the two thresholds it lies on,
which with the critical flag makes the four verdicts `fault`, `bad`, `weak` and `good`; `Critical`
keeps the whole chain of conditions. `frames` is a history variable: the verdicts since the last
reset or inactive evaluation, for the refinement only. `CountLimit` is where the model stops
counting; no comparison in the code tells counts above it apart. The context is read before the mutex
is taken, so it is a variable that changes independently and a reset may fall between.

### ProcessManager

Each section under `mutex_` is one action: `startProcess`, `isProcessRunning`, a round of
`monitorLoop`, the look of `stopProcess` that copies the pid (`Look`), and each look of `waitForExit`
(`WaitSucceeds`, or `WaitTimesOut` when it was the last before the deadline). `SignalGroup` is the `kill`
outside the mutex. A caller in `Callers` is a thread in `stopProcess`, on its own account or
for `restartProcess` or `stopAll`; `pc` says where and `goal` for whom. `Refresh` is
`refreshProcessLocked` for a set of records.

The system side: a pid is free, or belongs to a leader that is alive, stuck in the kernel after a SIGKILL,
or a zombie; `members` are the pids whose group has other live processes. A leader may die at any
time and needs not die of SIGINT or SIGTERM. `fork` returns any pid that is neither a process nor a
group, also one that a stop still holds a copy of. `open` is a history variable: the stops whose
process has not died since they copied its pid. `phase` follows the destructor, which nobody else calls
into. `SystemManager` keeps its own, coarser view of processes (`running`, and stops that fail).

### LastPose

The same threads as in SystemManager, reduced to what localization needs, and the save worker. A step is
a section under `mutex_`, `data_mutex_` or `save_mutex_`, which are three locks: `saveLastPose` reads state
and map name under the first (`SaveReadMap`), copies the trusted pose under the second (`SaveCopyPose`), and
fills the slot under the third (`SaveEnqueue`). It is called by the last-pose timer, which occupies the
exclusive group meanwhile, and by the operation thread before a stop (`sPc` has a counter for each).
`handleRawOdometry` is `HandleRawOdometry` (copy) and `StoreTrusted`; `handleInitialPoseObserved` is a look,
a reset and a transition. A watchdog that sees a failure enters `ERROR` (`WatchdogFails`) and looks at the process and
the flag after that (`WatchdogStops`). The gates of a save, quality and `shutting_down_`, may open and close at any time.
`Shutdown` is the end of the executor, `StopWorker` the adapter's destructor after the operation thread has
been joined. Of a pose only its origin is kept: `copied[c]` is the map of the session in which callback `c`
copied the correction it composes with, and `poseMap` that of the trusted pose. These two, `accepted`, `written`
and `sessionMap` are history variables. `MaxRequests` bounds the saves.

### MapStore

A directory is a record of entries, each absent, written in part, or whole; opening a temporary file,
writing it and renaming it are separate steps, and each may fail. `kind`, `opMap` and `pc` are the one
request that has the operation flag, since `createMap`, `deleteMap`, the start of mapping and the save of a map
exclude each other by it. The worker writes `last_pose.yaml` without the flag; the mapping process
writes `map.pcd` after it was asked to, or later, and may survive its stop and its manager. `remove_all`
is `RemoveEntry` in any order and then `RemoveDirectory`, which needs an empty directory: a file that appears
after the scan makes it fail. `Crash` ends the request, the session and the worker, and keeps disk and
mapping process. `saved` is a history variable. A rename that fails is followed by a removal of the temporary
file, which may fail too.

One assumption is the model's own. The guard `mapper = NoMap` of a start stands for `MappingAdapter::isRunning`
and `saveServiceAvailable` (`system_manager.cpp:904`, `:1140`, `mapping_adapter.cpp:50-57`). While a manager lives,
that rests on the process record. After `Crash` the record is gone and only the discovery of the ROS save service is
left; the model takes it that a survivor which lives is discovered. `SavedMapIsKept` after a kill depends on this, and
nothing in the code guarantees it.

### HealthMonitor

A callback reads the clock (`ReadClock`) and stores the stamp under `mutex_` (`Store`), other callbacks of the
reentrant group in between. The timer reads the clock, judges (`getStatus`), then dates the failure
(`JudgeSensors`, the part of `updateSensorState` before its decisions, which are in SystemManager). A point in time
is its age: `Tick` makes all of them older, up to `Cap`, beyond which no comparison tells ages apart, so that
the model is finite without a bound on time. `MaxLag` is how long a thread may take from the clock to the
lock. Two messages of one stream in the same step are one. `newest` and `good` are history variables.
A recovery also calls `getStatus` and then forgets the failure under `mutex_`, on the operation thread and hence
between any two steps of the timer: `RecoveryReadsStatus` and `RecoveryForgets` (`system_manager.cpp:476-486`).
The README of the node says that `SENSOR_READY` needs the minimum frequencies (lines 67-68); the code
(`health_monitor.cpp:91-93`) and `docs/phase1_to_phase6_commands.md:538-545` judge by timeouts only, and so does the model.

### How the modules compose

SystemManager is the composition: it contains the mode control, the operation thread, the callbacks, and what it
uses of the adapters, processes and maps. The other modules look into one component each and keep
as much of the manager as that component can tell apart: LastPose the localization half, which is proved to implement
SlamModes (`ManagerPartKeepsModes`) as SystemManager itself does (`SlamModesImplemented`), MapStore the
class of the state and the one request at a time (SystemManager's `FlagHasOneOwner` and `SessionMapOnDisk`
justify that), HealthMonitor the timer. Readiness in SystemManager is any Boolean, a superset of what
HealthMonitor answers.

## 3. Runs

| Run | Instance | Shows |
|---|---|---|
| `manager_control` | 1 map, 1 callback, mapping may auto-start, grace 0, processes may survive SIGKILL, fair | the invariants that are also proved, `NobodyWaits`, recovery, refinement of `SlamModes`, `OperationCompletes`, `ExitIsNoticed` |
| `manager_requests` | 2 maps, 2 callbacks, symmetric, grace 1 | `ErrorHasCode`, `IdleIsClean`, `SessionMapOnDisk` |
| `quality` | thresholds 1, 3, 2, fair | `QualityTypeOK`, `ValidHasEvidence`, refinement of `QualityHysteresis`, `SilenceIsLost` |
| `process` | 2 names, 3 pids, 1 caller, fair | `ProcTypeOK`, `RecordsAreChildren`, `DestructionLeavesNone`, `CallsMayGoOn`, refinement of `ProcessSlots`, `StopEnds`, `ExitIsReaped` |
| `last_pose` | 2 maps, 1 callback, 2 saves, fair | `LastPoseTypeOK`, `TrustNeedsSession`, `ThreadsMayGoOn`, `SavesGoToSessionMap`, refinement of `SaveSlot`, `AcceptedIsWritten` |
| `map_store` | 2 maps, symmetric | `MapStoreTypeOK`, `InstalledFilesAreWhole`, `SavedMapIsKept`, refinement of `MapCatalog` |
| `health` | 2 streams, 2 callbacks, timeouts, window, grace and lag 1, fair | `HealthTypeOK`, `SilenceIsSeen`, `LossIsReal`, `FailureNeedsGrace`, `SilenceFails` |
| `stale_confirmation`, `sensor_stop`, `process_group`, `lost_confirmation` | | four disagreements with the documents, section 6 |
| `stale_pose` | 2 maps, 2 callbacks, 1 save | a fifth one: `SavedPoseIsOfTheMap`, section 6 |

`OperationCompletes` implies that no transient state is permanent (theorem `TransientStatesEnd`), so no run
has a property of its own for that. `InductiveInv` and `SessionInv`, the inductive invariants, are proved
and imply what the runs check; they are in no cfg. `NobodyWaits`, `CallsMayGoOn` and `ThreadsMayGoOn` say
that a thread under way can take its next section in every state the others may bring about: a
wait without an end, a worker that ends too early or an operation without a next step violates them. The
liveness proofs rest on them (section 4).

Why the bounds are enough. There is one executor thread for the exclusive group and one operation
thread in the code, so those are exact. Callbacks keep no state besides their counter; one callback
against the rest shows every pair of steps, two show callbacks against each other, and the proofs hold for
any number. One map is enough where no property compares maps; two are needed for a map that is
selected while another is deleted. Grace 1, in `manager_requests`, gives a failure that is tolerated and one that
is not; the liveness properties have to do with grace 0, where every failure counts at once, because of the size of
the graph. The thresholds 1, 3 and 2 are pairwise different, so that a comparison with the wrong one is seen. Two names
with three pids make every death free a pid that either name can get while a stop still holds
it. One caller is exact: only the operation thread stops processes, and the destructor after it has
been joined; looks, rounds and starts by other threads come in between, and the proofs hold for any
number of callers. In `last_pose`, two maps are a session's and another one's, one callback against the executor,
the operation, the savers and the worker shows every pair of their steps, and two saves are one that is written
and one that replaces it. What one callback does to another is out of that run's reach, and matters for the origin
of a pose: `stale_pose` has two. The safety properties of `last_pose` are proved for any number.
In `map_store`, two maps suffice for a request on one while worker and mapping process write into the other. In `health`, two callbacks are the least that overtake each other, and ages 0 to 3 are
one step before and after every limit, with the lag. Every action and every disjunct fires in
some passing run. Deadlock is checked, except for ProcessManager and LastPose, which really end with their
destructors.

`KillMayFail` is `TRUE` only in `manager_control`. `SessionMapOnDisk` and `IdleIsClean` are promises for
stops that work: a process that outlives SIGKILL runs on in `ERROR`, and together with the callback
of an old session that reaches a new start they do not hold; the code cannot do better than to report
`STOP_FAILED`. `AutoStart = {}` is the shipped configuration; a process started with the node runs in an
idle state, without a map, which is why `ProcessHasMode` leaves it out.

Each property has a mutant: a variant of one mapped definition with a plausible fault, marked `Faulty`
in the modules, with which the run must find the property violated. Examples: a start that does not
look at the other process (`HandleStartUnchecked`), a load that returns without `finishOperation`
(`LoadMapLeaksFlag`), a recovery that believes its last stop (`ORecoverSweptLast`), a process
timer that ignores the flag (`MonitorTickUnflagged`), a reset that keeps the published status
(`ResetKeepsStatus`), critical frames that a weak one does not interrupt (`CountFrameKeepsCritical`), an
odometry callback that trusts its copy of `localized_` (`StoreTrustedFromCopy`), metadata that are written in
place (`OpenMetadataInPlace`), a failed start that deletes a map it has not created (`LaunchCleansAlways`).

### Fairness

`Fairness` asks for weak fairness of the steps that continue a handler, an operation or a callback
(`HandlerRuns`, `OperationRuns`, `CallbackRuns`): each is a running thread, and every wait in it has a
timeout in the code. Nothing is asked of clients,
of processes or of corrections. The process timer gets strong fairness for each process it watches (`MonitorComesBack`),
because it shares its group with the services and is disabled while one runs; the executor
collects ready timers before services, so a client that keeps calling cannot starve it. The quality
monitor needs weak fairness of `evaluate`, whose wall timer always comes back. For ProcessManager, the
monitor thread and each caller inside a call get weak fairness: they are running threads, the mutex
is held for a moment only, and every wait has a deadline. Children may live and ignore signals for ever.
In LastPose each thread that has something to do gets weak fairness, for the same reasons; no pose,
correction, request or exit need ever come. In HealthMonitor time passes, the wall timer comes back, and a
callback that has read the clock gets the mutex; messages need not come. Recoveries may come again and again, and
each forgets the failure: `SilenceFails` makes an exception of that.

## 4. Proofs

`SystemManagerProofs` proves, for every set of maps and callbacks, every grace period, every choice of
`AutoStart` (except both processes) and of `KillMayFail`:

* `InductiveInvariant`, `TypesCorrect`, `NeverBoth`, `OneOwner`, `NoHiddenProcess`, `MonitorIsRight`,
  `AdmittedProceeds`, and the action properties `RecoveryIsComplete` and `StaleErrorsAreHarmless`.

The argument. None of the properties is inductive. Mutual exclusion, for instance, rests on a check
made three steps before the process is started, by a thread that does not hold the flag then. What
makes it work is that the state betrays the other process: `ProcessBelongs` says a running process
belongs to the mode of the state, to a failed system, or was auto-started into an idle one.
`StartIsExclusive` carries the first check over the steps in between: either the other process is
still down, or the state has become one in which `StartAdmit` refuses. That needs to know in which states
each label can be met: `OperationState` and `HandlerState`. Those need the flag to have one owner, and
`StoppedStaysStopped` and `SweepIsComplete` to know what a stop that was reported earlier still
means. `StaleErrorsAreHarmless` is a use of `HandlerState`: the sensor callback applies `transitionTo(ERROR)`
(`system_manager.cpp:600`) to a state that it has not looked at, and the theorem says which states those can be, a
session or the `WAIT_MODE` it ended in, but never a recovery or a start of the sensor. `MonitorIsRight` says that the
process watchdog reports only a process that is down, ends only a session which expects that process, and does so while
no operation is under way. It does not say that the manager had no part in the exit: a start that fails after an old
callback has moved its state on stops its process, ends, and the watchdog then reports that. `InductiveInv` is their
conjunction. It is split into `ControlInv` (labels, states, flag,
types) and the part about processes, so that the proof of a step needs only the conjuncts the step can
disturb: one lemma per conjunct, one step per group of actions.

`SystemManagerSessionProofs` proves for the same constants `ErrorsAreExplained` (`ErrorHasCode`), and, where no
process survives SIGKILL (`~KillMayFail`, the assumption of each theorem), `SessionInvariant`,
`IdleShowsNoError` (`IdleIsClean`) and `SessionsKeepTheirMap` (`SessionMapOnDisk`).

Code and state are written in different lock sections by three threads, so the properties need to know who is
between the two. `AboutToFail` names the labels where the code of a failure is set and ERROR not yet
entered, and `ErrorsTold` says that no step that clears the code can meet them; the clearing steps hold the flag or
stand in SENSOR_STARTING or RECOVERING, where `InductiveInv` excludes those labels. For an idle state without a
code the hard case is a start that failed after a callback of an older session had moved
LOCALIZATION_STARTING on: its code stays and ERROR is not entered. `CodeIsOwed` follows it (`SlippedAway`): its
process is down, so a stop fails and ends in ERROR, and the monitor reports the exit. That is where a process
that survives SIGKILL would break the argument. `SessionKeepsMap` carries the check of the map under the flag to
the launch, and says that no map request runs while SLAM is active.

For the same constants and for processes that may survive, `SystemManagerProofs` ends with
`SlamModesImplemented`, the refinement of SlamModes: `MovesStep` sorts every lock section by what it does to
mode, flag and processes, `MovesAreModes` finds the abstract step of each sort.

`SystemManagerLivenessProofs` proves, again for the same constants:

* `HandlersAreBounded`, `CallbacksAreBounded`, `OperationsAreBounded`, without any fairness;
* `HandlersReturn`, `CallbacksReturn`, `OperationsComplete`, `TransientStatesEnd`, `ExitsAreNoticed`.

A thread under way has a rank, the sections it still has ahead at most (`DRank`, `ORank`, `RRank`). Each section
of its own lowers the rank, whatever the others have done to the state meanwhile, and nobody else touches it.
For the operation thread the rank counts the processes a sweep still has to visit; it is 17 at most, for a handler six
and for a callback four. The three `...AreBounded` theorems say so of the safety specification `Spec` alone: they need
neither fairness nor `NobodyWaits`. The flag comes down with the
end of its owner, and the owner may hand it over once, from the handler to the operation. For the exit of a
process: as long as it is missing, only a new request can take the flag, and that waits for the executor; so
the flag, once down, stays down until the executor is free (`FlagStaysDown`), the process timer is due again and
again, and fires.

`LocalizationQualityProofs` proves for all thresholds that satisfy the checks of `loadConfig`:

* `QualityTypesCorrect`, `ValidPoseHasEvidence`, `SilencesAreCounted`, and `HysteresisImplemented`, the refinement.

The invariant of the refinement, `CountersSeeRuns`, says that a counter has reached n exactly when the
last n verdicts are of its kind. `RememberEnds` is the fact about sequences behind it.
`SilencesAreCounted` is the safe half of `SilenceIsLost`: `SilenceLeft` is a number of at most `BadToLost`; as
long as the odometry of an active session is silent, each evaluation takes one off, whatever the other inputs are, and
nothing gives one back; at zero the level is `LOST` and no pose is valid.

`ProcessManagerProofs` proves for any names, pids and callers:

* `ProcTypesCorrect`, `ChildrenAreRecorded`, `SlotsImplemented` (the refinement),
  `DestructionIsComplete`, `StopsAreBounded`, and, under fairness, `StopsEnd` and `ExitsAreReaped`.

`RefreshKeeps` and `ForkKeeps` say what a section does to the table: records and unreaped children stay one
to one, and a look never touches a process that runs. From them follows `OpenIsLive`: as long as the
process of a stop has not died, its record still has the pid the stop copied. So a stop that finds the
record changed or the process gone cannot have an open process, which is the refinement's only hard
step; that pids are given out again does not matter, because a pid is free only after a look has reaped it.
For the destructor, `OneStopper` says that it is alone, `NothingBorn` that nothing is started any more, and
`LivingAreListed` that a process which SIGKILL could end is still on the list or has SIGKILL ahead.
`StopsAreBounded` counts the looks, signals and waits that a stop has ahead, seven at most, which no other
thread changes, whatever the process does about the signals. Liveness: `StopsEnd` follows that count to the answer, and `ExitsAreReaped`
that one round of the monitor thread takes every dead child.

`LastPoseProofs` proves for any maps, callbacks and number of saves:

* `LastPoseTypesCorrect`, `TrustAwaitsLocalized`, `SavesReachTheirMap`, `TurnsWouldKeepPoses`, `DestructionsAreBounded`, the refinements
  `SaveSlotImplemented` and `ManagerPartKeepsModes`, and, under fairness, `AcceptedRequestsAreWritten` and
  `DestructionCompletes`.

`TrustNeedsSession` (`TrustAwaitsLocalized`) is inductive with the types: every writer of the two flags writes
both under one lock. It says that a reset ends the trust until the next `setLocalized(true)`, and no more. That call
may come late and meet a session which is not confirmed, and the pose that is stored after it may be of an earlier
session. Nor does `SavesReachTheirMap` say where a pose comes from: it is about the file that a save names. The
property about both is `SavedPoseIsOfTheMap`; the code does not have it (`stale_pose`), and `TurnsWouldKeepPoses`
proves that it would if one callback ran at a time, so that two callbacks beside each other are all it takes.
The map of a save is harder. `SavesGoToSessionMap` needs that while a saver is between its first lock and
its last, no session can begin: the timer's saver holds the executor, the stop's saver holds the flag. That is
the invariant of the module, which says for each label who holds the flag and which map is selected. The refinement
needs that numbers only grow from `written` over `request` and `pending` to `accepted`, and that a worker
that is done has nobody left who could enqueue. `ManagerPartKeepsModes` maps state, flag and process of this
module to SlamModes, as `SlamModesImplemented` does for SystemManager; `ProcessInItsPlace` says where a localization
process may run.
Liveness, for any number of requests: `AcceptedRequestsAreWritten` follows a request from behind the one that is
being written (`Behind`) to the slot the worker will take (`Ahead`) and into its hands (`InHand`); a newer one that
takes its place is as good. `DestructionCompletes` (`DestructionEnds`) lets the operation, its save and the worker
end in the order of the joins; without fairness, `DestructionsAreBounded` says that nine sections of the first two and
four of the worker are all there is to wait for.

`MapStoreProofs` proves for any maps:

* `MapStoreTypesCorrect`, `FilesAreWhole`, `SavedMapsAreKept`, `RequestsAreBounded`, and `MapCatalogImplemented`, the
  refinement.

The invariant says which temporary file is whole when a rename is due, and that a mapping process that
may still write works on a map that is not saved, or has written all of it. The latter is why a start
refuses an existing PCD: without that, `dump` of a survivor could reach a saved map. For the refinement every
file operation is mapped to a step on the status of its name, or to none. `RequestsAreBounded` gives a request a rank of
at most 16 (`RequestRank`), which every step of the manager lowers and nobody raises, so a survivor that
keeps writing into a directory cannot keep its deletion, and with it the flag, for ever.

`HealthMonitorProofs` proves for any streams, timeouts, windows, graces and lags:

* `HealthTypesCorrect`, `SilencesAreSeen`, `LossesAreReal`, `FailuresNeedGrace`, `SilencesMoveOn`.

`HealthInv` bounds how far a stored stamp can be from the newest one (`Stamps`, `SampleStamps`), by the bound on
the way to the lock (`LagBounded`), and says that a failure which will still be judged is not older than
the last answer that found all streams fresh (`FailureDated`); between that answer and the judgement the old
date may still stand, which is the exception in it. `SilencesMoveOn` is the safe half of `SilenceFails`: while a
stream stays silent, the next answer reports it as lost, the next judgement starts a failure, only time moves its age
unless a recovery forgets it, and a judgement fails the session exactly when the age has reached the grace.

Assumptions are those named in the modules (`AutoStartAssumption`, `ConstantsAssumption`,
`ThresholdsAssumption`, `PidAssumption`, `LastPoseAssumption`, `MapStoreAssumption`, `HealthAssumption`); TLC
evaluates them in every run of the module.

The liveness theorems have the form `FairSpec /\ []NobodyWaits => P` (`CallsMayGoOn` and `ThreadsMayGoOn` in
the other two modules). Weak and strong fairness speak of what is ENABLED, which no installed prover
evaluates: the proofs treat `ENABLED <<A>>_vars` as an unknown state predicate, and the hypothesis says
where it is true. It is no assumption about the environment but an invariant of `Spec`, and it is what
TLC checks on the instances of `manager_control`, `process` and `last_pose`, where it has a mutant of its own. What
the proofs add is everything that comes after it: that the steps which are possible lead to the end, for any
number of maps, callbacks, callers, pids and requests.

Only model-checked:

* `NobodyWaits`, `CallsMayGoOn` and `ThreadsMayGoOn`, because of ENABLED.
* `SilenceIsLost` and `SilenceFails`: the number of evaluations or ticks until the level or the failure is reached is
  a constant, so for every value of it the argument is an induction over temporal formulas, which the installed
  provers cannot instantiate. The ranks above have a fixed bound and are written out. `SilencesAreCounted` and `SilencesMoveOn` prove
  all of it but that induction: each evaluation, tick or judgement is a step towards the end, and none leads back.

`IdleIsClean` and `SessionMapOnDisk` hold only while every stop works (`KillMayFail = FALSE`), as section 3
says. `DestructionEnds` is proved and in no run: TLC has found it true on the instance of `last_pose`.

## 5. Not modelled

* `handleSetInitialPose`'s own checks: an initial pose may appear on the topic from anyone, which is
  what `ObserveInitialPose` models.
* ProcessManager's commands, substitutions, exit codes and configuration; a process the manager did not
  start that gets a pid the manager still signals, and the instant before a child has its own group.
* A foreign mapping node that offers the save service: it only refuses a start.
* In SystemManager, destruction and crashes of the node: LastPose has the order of the shutdown as far as
  saves depend on it, ProcessManager its own destructor, MapStore the kill of the node. A restart is `Init` with
  any directories, which `Init` allows.
* Power failures: the code never synchronises a file, so what survives one is up to the file system.
* The runtime configuration that `MappingAdapter` writes before a start: it is read by the process
  it is written for, and by nobody else.
* ConfigManager, status messages, texts and the validation of names and poses: no control depends on
  them after start.
* The start-up grace of the sensors, which only delays an error text.
* The ROS clock stepping back.

Hazards that were weighed and left, because no document promises anything about them and nothing checked
depends on them: corrections stored in another order than their stamps (`relocalization_adapter.cpp:401`); a
save by the timer that replaces a slightly newer one of a stop (`:225`); a queued pose written into a
directory that was deleted and created again (`:318`, which MapStore has); an initial pose observed in
`RELOCALIZING` that resets a session confirmed meanwhile, so that nothing is trusted any more
(`system_manager.cpp:706`, which LastPose has); a signal that hits the new owner of a pid
(`process_manager.cpp:279`, which ProcessManager has); a rejected registration that several evaluations count,
and stamps in the future (`localization_quality_monitor.cpp:421`, `:189`); a map deleted in `ERROR` under a process
that survived its stop (`system_manager.cpp:833`).

## 6. Where documents and code differ

* `stale_confirmation`: `docs/project_summary_2026-08-12.md:117` wants a new correction before
  `LOCALIZED` after an initial pose. `handleLocalizationConfirmed` (`system_manager.cpp:717-727`)
  checks the state, then the process, then moves; an initial pose that resets the session in between is
  overlooked.
* `sensor_stop`: `docs/phase6_localization_commands.md:23` says localization is stopped and `ERROR`
  entered. When the failure falls into the last-pose phase of a start the flag is up,
  the stop is skipped (`system_manager.cpp:607`) and nothing retries it.
* `process_group`: `docs/phase1_to_phase6_commands.md:703` says that a stop of localization stops the
  complete process group. `waitForExit` (`process_manager.cpp:454-463`) only waits for the leader: a
  member that outlives SIGINT longer than the leader is neither waited for nor signalled again.
* `lost_confirmation`: `docs/phase7_initial_pose_last_pose_commands.md:27` promises `LOCALIZED` again after an
  initial pose in `LOCALIZED`. The session is reset before the state is left (`system_manager.cpp:706-710`): a
  correction in between is the first of the new session, is refused by the state check, and no later one
  confirms; only another initial pose helps.
* `stale_pose`: `docs/project_summary_2026-08-12.md:122` says that the last pose of the current map is saved, and only
  in `LOCALIZED`. `handleRawOdometry` copies the correction, composes without the lock, and then looks only at
  `localized_` again (`relocalization_adapter.cpp:345-377`). If meanwhile the session is stopped, one on another map
  is started and another callback of the reentrant group confirms it, the old pose is stored as trusted and
  saved for the new map. The counterexample has one more link: the first session is localized by a late
  `setLocalized(true)` (`system_manager.cpp:728`); any localized session would do.

Two more that no run refutes. `README.md:69` says an idle system with a failed sensor returns to
`SENSOR_STARTING`; the sensor callback decides on a snapshot, and when a stop or save ends meanwhile, the idle
system goes to `ERROR` (`system_manager.cpp:600`); `StaleErrorsAreHarmless` says how far that can go. `docs/phase10_localization_quality_commands.md:41` says `UNKNOWN`
while data do not suffice; evaluations without any data count as critical frames and lead to `DEGRADED` and
`LOST` (`localization_quality_monitor.cpp:468-473`). SystemManager and LocalizationQuality have both.

## 7. What could follow

1. SystemManager's `running` as an implementation of the live names of ProcessSlots, and its disk as one of
   MapCatalog.
2. The order of the destructor's joins in SystemManager itself.
