----------------------------- MODULE HealthMonitor -----------------------------
(***************************************************************************)
(* The sensor monitor and what the sensor timer makes of it during a         *)
(* session.  The subscriptions belong to a reentrant group: a callback reads *)
(* the clock and only then takes mutex_, so that stamps are stored late and  *)
(* in another order, also two of one stream.  getStatus and the timer read   *)
(* the clock before their locks as well.  A recovery on the operation thread *)
(* asks for the status too, and forgets the failure the timer has dated.     *)
(*                                                                          *)
(* A point in time is given by its age, which every tick increases up to     *)
(* Cap; the difference of two points is that of their ages.  The start-up    *)
(* grace, the published frequencies and the log lines are left out, and so   *)
(* is what follows a failure, which is in SystemManager.                     *)
(***************************************************************************)
EXTENDS Integers, Sequences, FiniteSets

CONSTANTS
  Streams,
  Timeout,      \* pointcloud_timeout_sec, imu_timeout_sec
  Window,       \* frequency_window_sec
  MinRate,      \* min_pointcloud_hz, min_imu_hz
  Grace,        \* active_failure_grace_sec
  MaxLag,       \* how long a thread may be on its way from the clock to the lock
  Cap,          \* ages saturate here
  MaxSamples,   \* bound of the model: messages of a stream in its window
  MaxCallbacks  \* bound of the model: callbacks that run at once

Ages == 0..Cap

Messages == [stream : Streams, age : Ages]

ASSUME HealthAssumption ==
  /\ Timeout \in [Streams -> Nat] /\ Window \in Nat /\ MinRate \in Nat /\ Grace \in Nat
  /\ MaxLag \in Nat /\ Cap \in Nat /\ MaxSamples \in Nat /\ MaxCallbacks \in Nat
  /\ Cap > Window + MaxLag /\ Cap > Grace + MaxLag
  /\ \A s \in Streams : Cap > Timeout[s] + MaxLag

VARIABLES
  received, last,   \* of each stream: received_*_, age of last_*_time_
  samples,          \* ages of *_samples_
  pending,          \* the messages that callbacks are about to store
  ePc, eAge,        \* the sensor timer, and the age of its clock reading
  alive, rateOk,    \* what getStatus has answered
  failing, since,   \* sensor_failure_started_at_: whether it is set, its age
  failed,           \* the timer's latest judgement
  recovering,       \* performRecovery has its status and goes on to mutex_
  newest,           \* history: age of each stream's newest message
  good              \* history: age of the latest answer with fresh streams only

monitor == <<received, last, samples, newest>>
answer  == <<alive, rateOk>>
failure == <<failing, since, failed, recovering>>

vars == <<monitor, pending, ePc, eAge, answer, failure, good>>

\* last_*_time_ is the start of the clock, which may be any time ago.
Init ==
  /\ received = [s \in Streams |-> FALSE] /\ last \in [Streams -> Ages]
  /\ samples = [s \in Streams |-> <<>>] /\ newest = [s \in Streams |-> Cap]
  /\ pending = {}
  /\ ePc = "idle" /\ eAge = 0
  /\ alive = [s \in Streams |-> FALSE] /\ rateOk = [s \in Streams |-> FALSE]
  /\ failing = FALSE /\ since = 0 /\ failed = FALSE /\ good = 0
  /\ recovering = FALSE

-----------------------------------------------------------------------------
\* pruneSamples, as of a reading of the clock: what leaves at the front.
Outdated(q, now) == {k \in 1..Len(q) : \A i \in 1..k : q[i] - now > Window}

Prune(q, now) == SubSeq(q, Cardinality(Outdated(q, now)) + 1, Len(q))

\* calculateFrequency against the minimum: nothing is divided by zero.
RateSuffices(q) ==
  /\ Len(q) >= 2
  /\ LET elapsed == q[1] - q[Len(q)]
     IN  elapsed > 0 /\ Len(q) - 1 >= MinRate * elapsed

-----------------------------------------------------------------------------
(* pointcloudCallback and imuCallback.                                       *)

ReadClock(s) ==
  /\ Cardinality(pending) < MaxCallbacks /\ Len(samples[s]) < MaxSamples
  /\ pending' = pending \cup {[stream |-> s, age |-> 0]}
  /\ UNCHANGED <<monitor, ePc, eAge, answer, failure, good>>

\* Faulty: last_*_time_ is kept at its first value.
StoreOnce(m) ==
  /\ m \in pending
  /\ pending' = pending \ {m}
  /\ LET s == m.stream
         a == m.age
     IN  /\ received' = [received EXCEPT ![s] = TRUE]
         /\ last' = [last EXCEPT ![s] = IF received[s] THEN @ ELSE a]
         /\ samples' = [samples EXCEPT ![s] = Prune(Append(samples[s], a), a)]
         /\ newest' = [newest EXCEPT ![s] = IF a < newest[s] THEN a ELSE newest[s]]
  /\ UNCHANGED <<ePc, eAge, answer, failure, good>>

Store(m) ==
  /\ m \in pending
  /\ pending' = pending \ {m}
  /\ LET s == m.stream
         a == m.age
     IN  /\ received' = [received EXCEPT ![s] = TRUE]
         /\ last' = [last EXCEPT ![s] = a]
         /\ samples' = [samples EXCEPT ![s] = Prune(Append(samples[s], a), a)]
         /\ newest' = [newest EXCEPT ![s] = IF a < newest[s] THEN a ELSE newest[s]]
  /\ UNCHANGED <<ePc, eAge, answer, failure, good>>

-----------------------------------------------------------------------------
(* getStatus and the failure part of updateSensorState.                      *)

TimerReadsClock ==
  /\ ePc = "idle" /\ ePc' = "status" /\ eAge' = 0
  /\ UNCHANGED <<monitor, pending, answer, failure, good>>

\* A stream with a message that no lag of its callbacks can make look too old.
Fresh(s) == newest[s] - eAge <= Timeout[s] - MaxLag

\* Faulty: the clock of a stream that has sent nothing is believed.
getStatusUnreceived ==
  /\ ePc = "status" /\ ePc' = "judge" /\ eAge' = 0
  /\ samples' = [s \in Streams |-> Prune(samples[s], eAge)]
  /\ alive' = [s \in Streams |-> last[s] - eAge <= Timeout[s]]
  /\ rateOk' = [s \in Streams |-> RateSuffices(samples'[s])]
  /\ good' = IF \A s \in Streams : Fresh(s) THEN 0 ELSE good
  /\ UNCHANGED <<received, last, newest, pending, failure>>

getStatus ==
  /\ ePc = "status" /\ ePc' = "judge" /\ eAge' = 0
  /\ samples' = [s \in Streams |-> Prune(samples[s], eAge)]
  /\ alive' = [s \in Streams |-> received[s] /\ last[s] - eAge <= Timeout[s]]
  /\ rateOk' = [s \in Streams |-> RateSuffices(samples'[s])]
  /\ good' = IF \A s \in Streams : Fresh(s) THEN 0 ELSE good
  /\ UNCHANGED <<received, last, newest, pending, failure>>

SensorReady == \A s \in Streams : alive[s]

\* Faulty: the start of a failure is not forgotten when the sensors are back.
JudgeSensorsForGood ==
  /\ ePc = "judge" /\ ePc' = "idle"
  /\ failing' = (failing \/ ~SensorReady)
  /\ since' = IF failing THEN since ELSE 0
  /\ failed' = (~SensorReady /\ since' >= Grace)
  /\ UNCHANGED <<monitor, pending, eAge, answer, good, recovering>>

\* Faulty: a failure is dated from the next check.
JudgeSensorsAhead ==
  /\ ePc = "judge" /\ ePc' = "idle"
  /\ failing' = ~SensorReady
  /\ since' = IF SensorReady THEN 0 ELSE IF failing THEN since ELSE 0 - 1
  /\ failed' = (~SensorReady /\ since' >= Grace)
  /\ UNCHANGED <<monitor, pending, eAge, answer, good, recovering>>

\* Faulty: every silent answer restarts the grace period.
JudgeSensorsAnew ==
  /\ ePc = "judge" /\ ePc' = "idle"
  /\ failing' = ~SensorReady
  /\ since' = 0
  /\ failed' = (~SensorReady /\ since' >= Grace)
  /\ UNCHANGED <<monitor, pending, eAge, answer, good, recovering>>

JudgeSensors ==
  /\ ePc = "judge" /\ ePc' = "idle"
  /\ failing' = ~SensorReady
  /\ since' = IF SensorReady THEN 0 ELSE IF failing THEN since ELSE 0
  /\ failed' = (~SensorReady /\ since' >= Grace)
  /\ UNCHANGED <<monitor, pending, eAge, answer, good, recovering>>

-----------------------------------------------------------------------------
(* The end of performRecovery on the operation thread, when both processes   *)
(* are down.  The answer of getStatus only decides where recovery leads.     *)

\* Its reading of the clock may be as old as any other one.
RecoveryReadsStatus(age) ==
  /\ ~recovering /\ recovering' = TRUE
  /\ samples' = [s \in Streams |-> Prune(samples[s], age)]
  /\ UNCHANGED <<received, last, newest, pending, ePc, eAge, answer, failing, since, failed, good>>

RecoveryForgets ==
  /\ recovering /\ recovering' = FALSE
  /\ failing' = FALSE /\ since' = 0
  /\ UNCHANGED <<monitor, pending, ePc, eAge, answer, failed, good>>

-----------------------------------------------------------------------------
Older(a) == IF a < Cap THEN a + 1 ELSE Cap

\* Time passes, but not for a thread that has been on its way for too long.
Tick ==
  /\ \A m \in pending : m.age < MaxLag
  /\ ePc = "status" => eAge < MaxLag
  /\ last' = [s \in Streams |-> Older(last[s])]
  /\ newest' = [s \in Streams |-> Older(newest[s])]
  /\ samples' = [s \in Streams |-> [i \in 1..Len(samples[s]) |-> Older(samples[s][i])]]
  /\ pending' = {[m EXCEPT !.age = Older(@)] : m \in pending}
  /\ eAge' = IF ePc = "status" THEN Older(eAge) ELSE eAge
  /\ since' = IF failing THEN Older(since) ELSE since
  /\ good' = Older(good)
  /\ UNCHANGED <<received, ePc, answer, failing, failed, recovering>>

TimerStep == TimerReadsClock \/ getStatus \/ JudgeSensors

Next ==
  \/ \E s \in Streams : ReadClock(s)
  \/ \E m \in Messages : Store(m)
  \/ \E age \in 0..MaxLag : RecoveryReadsStatus(age)
  \/ RecoveryForgets
  \/ TimerStep \/ Tick

Spec == Init /\ [][Next]_vars

\* Time passes, the timer keeps firing and no callback waits for ever.
FairSpec ==
  Spec /\ WF_vars(Tick) /\ WF_vars(TimerStep) /\ \A m \in Messages : WF_vars(Store(m))

-----------------------------------------------------------------------------
(* Properties.                                                               *)

MonitorTypes ==
  /\ received \in [Streams -> BOOLEAN] /\ last \in [Streams -> Ages]
  /\ newest \in [Streams -> Ages] /\ samples \in [Streams -> Seq(Ages)]
  /\ pending \subseteq Messages

TimerTypes ==
  /\ ePc \in {"idle", "status", "judge"} /\ eAge \in Ages
  /\ alive \in [Streams -> BOOLEAN] /\ rateOk \in [Streams -> BOOLEAN]
  /\ failing \in BOOLEAN /\ since \in Ages /\ failed \in BOOLEAN /\ good \in Ages
  /\ recovering \in BOOLEAN

\* Type invariant.
HealthTypeOK == MonitorTypes /\ TimerTypes

\* phase1_to_phase6_commands.md: a stream that has sent nothing for longer than
\* its timeout is reported as lost by the next answer, and it has no rate once
\* its window is over.
SilenceIsSeen ==
  [][getStatus => \A s \in Streams :
       /\ alive'[s] => newest[s] - eAge <= Timeout[s]
       /\ rateOk'[s] => newest[s] - eAge <= Window]_vars

\* A stream is not reported as lost while it sends, however its callbacks
\* overtake each other, up to the lag between the clock and the lock.
LossIsReal ==
  [][getStatus => \A s \in Streams : received[s] /\ ~alive'[s] => ~Fresh(s)]_vars

\* phase1_to_phase6_commands.md: an active session fails only when the sensors
\* have been away for the whole grace period: no answer in that time has found
\* all streams fresh.
FailureNeedsGrace ==
  [][JudgeSensors /\ failed' => good >= Grace]_vars

\* A stream that stays silent makes the session fail, unless recoveries that
\* forget the failure keep coming.
SilenceFails ==
  \A s \in Streams :
    <>[](newest[s] = Cap) => <>[]failed \/ []<><<RecoveryForgets>>_vars

==============================================================================
