-------------------------- MODULE HealthMonitorProofs --------------------------
(***************************************************************************)
(* The monitor's promises, for every number of streams and every timeout,    *)
(* window, grace and lag.                                                    *)
(*                                                                          *)
(* HealthInv adds to the types: how far a stored stamp can be from the        *)
(* newest (Stamps, SampleStamps), that no thread is on its way for longer     *)
(* than MaxLag (LagBounded), and that a failure which is still judged began   *)
(* after the last answer that found every stream fresh (FailureDated).        *)
(***************************************************************************)
EXTENDS HealthMonitor, FiniteSetTheorems, TLAPS

LagBounded == eAge <= MaxLag /\ \A m \in pending : m.age <= MaxLag

Stamps ==
  \A s \in Streams :
    IF received[s] THEN newest[s] <= last[s] /\ last[s] <= newest[s] + MaxLag
                   ELSE newest[s] = Cap

SampleStamps ==
  \A s \in Streams : \A i \in 1..Len(samples[s]) : newest[s] <= samples[s][i]

FailureDated == failing /\ ~(ePc = "judge" /\ SensorReady) => since <= good

HealthInv == HealthTypeOK /\ LagBounded /\ Stamps /\ SampleStamps /\ FailureDated

-----------------------------------------------------------------------------
\* Pruning keeps a suffix: nothing is made up, and what is recent goes on.
LEMMA PruneKeepsASuffix ==
  ASSUME NEW q \in Seq(Ages), NEW now \in Int
  PROVE  /\ Prune(q, now) \in Seq(Ages)
         /\ \A i \in 1..Len(Prune(q, now)) : \E j \in 1..Len(q) : Prune(q, now)[i] = q[j]
         /\ Prune(q, now) # <<>> => \E j \in 1..Len(q) : q[j] - now <= Window
<1> DEFINE n == Cardinality(Outdated(q, now))
<1>1. n \in Nat
  <2>1. IsFiniteSet(1..Len(q))
    BY FS_Interval
  <2> QED
    BY <2>1, FS_Subset, FS_CardinalityType DEF Outdated
<1>2. Prune(q, now) = SubSeq(q, n + 1, Len(q))
  BY DEF Prune
<1>3. ASSUME \A j \in 1..Len(q) : ~(q[j] - now <= Window)
      PROVE  n = Len(q)
  <2>1. \A j \in 1..Len(q) : q[j] \in Int
    BY HealthAssumption DEF Ages
  <2>2. Outdated(q, now) = 1..Len(q)
    BY <1>3, <2>1, HealthAssumption DEF Outdated
  <2>3. Len(q) \in Nat /\ Cardinality(1..Len(q)) = IF 1 > Len(q) THEN 0 ELSE Len(q) - 1 + 1
    BY FS_Interval
  <2> QED
    BY <2>2, <2>3
<1> HIDE DEF n
<1>4. \A i \in 1..Len(SubSeq(q, n + 1, Len(q))) :
        SubSeq(q, n + 1, Len(q))[i] = q[n + i] /\ n + i \in 1..Len(q)
  BY <1>1
<1>5. SubSeq(q, n + 1, Len(q)) \in Seq(Ages)
  BY <1>1, <1>4
<1>6. n = Len(q) => SubSeq(q, n + 1, Len(q)) = <<>>
  BY <1>1
<1> QED
  BY <1>2, <1>3, <1>4, <1>5, <1>6

-----------------------------------------------------------------------------
LEMMA AppendedElement ==
  ASSUME NEW S, NEW q \in Seq(S), NEW a \in S, NEW j \in 1..Len(Append(q, a))
  PROVE  (j \in 1..Len(q) /\ Append(q, a)[j] = q[j]) \/ Append(q, a)[j] = a
  OBVIOUS

LEMMA OlderIsMonotone ==
  ASSUME NEW a \in Ages, NEW b \in Ages
  PROVE  /\ Older(a) \in Ages /\ a <= Older(a) /\ Older(a) <= a + 1
         /\ a <= b => Older(a) <= Older(b)
         /\ a <= b + MaxLag => Older(a) <= Older(b) + MaxLag
  BY HealthAssumption DEF Older, Ages

LEMMA InitHealthInv == Init => HealthInv
<1> SUFFICES ASSUME Init PROVE HealthInv
  OBVIOUS
<1> USE HealthAssumption
<1>1. 0 \in Ages /\ Cap \in Ages /\ <<>> \in Seq(Ages)
  BY DEF Ages
<1>2. MonitorTypes
  BY <1>1 DEF Init, MonitorTypes
<1>3. TimerTypes
  BY <1>1 DEF Init, TimerTypes
<1>4. LagBounded /\ Stamps /\ SampleStamps /\ FailureDated
  BY DEF Init, LagBounded, Stamps, SampleStamps, FailureDated
<1> QED
  BY <1>2, <1>3, <1>4 DEF HealthInv, HealthTypeOK

\* What every step preserves, one lemma for each action.
LEMMA ReadClockKeepsInv ==
  ASSUME HealthInv, NEW s \in Streams, ReadClock(s)
  PROVE  HealthInv'
<1>1. HealthTypeOK'
  BY HealthAssumption DEF HealthInv, HealthTypeOK, MonitorTypes, TimerTypes, ReadClock, monitor,
     answer, failure, Messages, Ages
<1>2. LagBounded'
  BY HealthAssumption DEF HealthInv, LagBounded, ReadClock
<1> QED
  BY <1>1, <1>2 DEF HealthInv, Stamps, SampleStamps, FailureDated, SensorReady, ReadClock,
     monitor, answer, failure

LEMMA StoreKeepsInv ==
  ASSUME HealthInv, NEW m \in Messages, Store(m)
  PROVE  HealthInv'
<1> DEFINE s == m.stream
           a == m.age
           q == Append(samples[s], a)
<1> USE HealthAssumption
<1>1. s \in Streams /\ a \in Ages /\ a \in Int /\ a <= MaxLag /\ m \in pending
  BY DEF Messages, Store, HealthInv, LagBounded, Ages
<1>2. samples[s] \in Seq(Ages) /\ q \in Seq(Ages)
  BY <1>1 DEF HealthInv, HealthTypeOK, MonitorTypes
<1>3. Prune(q, a) \in Seq(Ages)
      /\ \A i \in 1..Len(Prune(q, a)) : \E j \in 1..Len(q) : Prune(q, a)[i] = q[j]
  BY <1>1, <1>2, PruneKeepsASuffix
<1>4. HealthTypeOK'
  BY <1>1, <1>3 DEF HealthInv, HealthTypeOK, MonitorTypes, TimerTypes, Store, answer, failure
<1>5. LagBounded'
  BY DEF HealthInv, LagBounded, Store
<1>6. Stamps'
  BY <1>1 DEF HealthInv, HealthTypeOK, MonitorTypes, Stamps, Store, Ages
<1>7. SampleStamps'
  <2> SUFFICES ASSUME NEW t \in Streams, NEW i \in 1..Len(samples'[t])
               PROVE  newest'[t] <= samples'[t][i]
    BY DEF SampleStamps
  <2>1. CASE t # s
    BY <1>1, <2>1 DEF HealthInv, HealthTypeOK, MonitorTypes, SampleStamps, Store
  <2>2. CASE t = s
    <3>1. samples'[t] = Prune(q, a) /\ newest'[t] = IF a < newest[s] THEN a ELSE newest[s]
      BY <1>1, <2>2 DEF HealthInv, HealthTypeOK, MonitorTypes, Store
    <3>2. PICK j \in 1..Len(q) : samples'[t][i] = q[j]
      BY <1>3, <3>1
    <3>3. (j \in 1..Len(samples[s]) /\ q[j] = samples[s][j]) \/ q[j] = a
      BY <1>1, <1>2, AppendedElement
    <3>4. newest[s] \in Ages
      BY <1>1 DEF HealthInv, HealthTypeOK, MonitorTypes
    <3>5. \A k \in 1..Len(samples[s]) : newest[s] <= samples[s][k] /\ samples[s][k] \in Ages
      BY <1>1, <1>2 DEF HealthInv, SampleStamps
    <3>6. a \in Ages /\ newest'[t] <= a /\ newest'[t] <= newest[s] /\ newest'[t] \in Ages
      BY <1>1, <3>1, <3>4 DEF Ages
    <3>7. newest'[t] <= q[j]
      <4>1. CASE q[j] = a
        BY <4>1, <3>6
      <4>2. CASE j \in 1..Len(samples[s]) /\ q[j] = samples[s][j]
        <5>1. newest[s] <= samples[s][j] /\ samples[s][j] \in Ages
          BY <4>2, <3>5
        <5> QED
          BY <4>2, <5>1, <3>4, <3>6 DEF Ages
      <4> QED
        BY <3>3, <4>1, <4>2
    <3> QED
      BY <3>2, <3>7
  <2> QED
    BY <2>1, <2>2
<1>8. FailureDated'
  BY DEF HealthInv, FailureDated, SensorReady, Store, answer, failure
<1> QED
  BY <1>4, <1>5, <1>6, <1>7, <1>8 DEF HealthInv

LEMMA TimerReadsClockKeepsInv ==
  ASSUME HealthInv, TimerReadsClock
  PROVE  HealthInv'
  BY HealthAssumption DEF HealthInv, HealthTypeOK, MonitorTypes, TimerTypes, LagBounded, Stamps,
     SampleStamps, FailureDated, SensorReady, TimerReadsClock, monitor, answer, failure, Ages

\* A fresh stream is reported as alive: the lag is allowed for.
LEMMA FreshIsAlive ==
  ASSUME HealthInv, getStatus, NEW s \in Streams, Fresh(s)
  PROVE  alive'[s]
  BY HealthAssumption DEF HealthInv, HealthTypeOK, MonitorTypes, TimerTypes, LagBounded, Stamps,
     Fresh, getStatus, Ages

LEMMA GetStatusKeepsInv ==
  ASSUME HealthInv, getStatus
  PROVE  HealthInv'
<1> USE HealthAssumption
<1>1. eAge \in Ages /\ eAge \in Int /\ \A s \in Streams : samples[s] \in Seq(Ages)
  BY DEF HealthInv, HealthTypeOK, MonitorTypes, TimerTypes, Ages
<1>2. \A s \in Streams :
        /\ Prune(samples[s], eAge) \in Seq(Ages)
        /\ \A i \in 1..Len(Prune(samples[s], eAge)) :
             \E j \in 1..Len(samples[s]) : Prune(samples[s], eAge)[i] = samples[s][j]
  BY <1>1, PruneKeepsASuffix
<1>3. \A s \in Streams : RateSuffices(samples'[s]) \in BOOLEAN
  BY DEF RateSuffices
<1>4. HealthTypeOK'
  BY <1>2, <1>3 DEF HealthInv, HealthTypeOK, MonitorTypes, TimerTypes, getStatus, failure, Ages
<1>5. LagBounded' /\ Stamps'
  BY DEF HealthInv, LagBounded, Stamps, getStatus
<1>6. SampleStamps'
  BY <1>2 DEF HealthInv, SampleStamps, getStatus
<1>7. FailureDated'
  <2>1. CASE \A s \in Streams : Fresh(s)
    BY <2>1, FreshIsAlive DEF FailureDated, SensorReady, getStatus
  <2>2. CASE ~\A s \in Streams : Fresh(s)
    BY <2>2 DEF HealthInv, FailureDated, getStatus, failure
  <2> QED
    BY <2>1, <2>2
<1> QED
  BY <1>4, <1>5, <1>6, <1>7 DEF HealthInv

LEMMA JudgeKeepsInv ==
  ASSUME HealthInv, JudgeSensors
  PROVE  HealthInv'
<1> USE HealthAssumption
<1>1. HealthTypeOK'
  BY DEF HealthInv, HealthTypeOK, MonitorTypes, TimerTypes, JudgeSensors, SensorReady, monitor,
     answer, Ages
<1>2. FailureDated'
  BY DEF HealthInv, HealthTypeOK, TimerTypes, FailureDated, JudgeSensors, SensorReady, answer, Ages
<1> QED
  BY <1>1, <1>2 DEF HealthInv, LagBounded, Stamps, SampleStamps, JudgeSensors, monitor

LEMMA RecoveryKeepsInv ==
  ASSUME HealthInv, (\E age \in 0..MaxLag : RecoveryReadsStatus(age)) \/ RecoveryForgets
  PROVE  HealthInv'
<1> USE HealthAssumption
<1>1. CASE RecoveryForgets
  <2>1. HealthTypeOK'
    <3>1. 0 \in Ages
      BY DEF Ages
    <3>2. MonitorTypes'
      BY <1>1 DEF RecoveryForgets, HealthInv, HealthTypeOK, MonitorTypes, monitor
    <3>3. TimerTypes'
      BY <1>1, <3>1 DEF RecoveryForgets, HealthInv, HealthTypeOK, TimerTypes, answer
    <3> QED
      BY <3>2, <3>3 DEF HealthTypeOK
  <2>2. LagBounded' /\ Stamps' /\ SampleStamps'
    BY <1>1 DEF RecoveryForgets, HealthInv, LagBounded, Stamps, SampleStamps, monitor
  <2>3. FailureDated'
    BY <1>1 DEF RecoveryForgets, FailureDated
  <2> QED
    BY <2>1, <2>2, <2>3 DEF HealthInv
<1>2. ASSUME NEW age \in 0..MaxLag, RecoveryReadsStatus(age)
      PROVE  HealthInv'
  <2>1. \A s \in Streams : samples[s] \in Seq(Ages)
    BY DEF HealthInv, HealthTypeOK, MonitorTypes
  <2>2. \A s \in Streams :
          /\ Prune(samples[s], age) \in Seq(Ages)
          /\ \A i \in 1..Len(Prune(samples[s], age)) :
               \E j \in 1..Len(samples[s]) : Prune(samples[s], age)[i] = samples[s][j]
    <3> SUFFICES ASSUME NEW s \in Streams
                 PROVE  /\ Prune(samples[s], age) \in Seq(Ages)
                        /\ \A i \in 1..Len(Prune(samples[s], age)) :
                             \E j \in 1..Len(samples[s]) :
                               Prune(samples[s], age)[i] = samples[s][j]
      OBVIOUS
    <3>1. samples[s] \in Seq(Ages)
      BY <2>1
    <3>2. age \in Int
      OBVIOUS
    <3> QED
      BY <3>1, <3>2, PruneKeepsASuffix
  <2>3. HealthTypeOK'
    BY <1>2, <2>2 DEF HealthInv, HealthTypeOK, MonitorTypes, TimerTypes, RecoveryReadsStatus, answer
  <2>4. LagBounded' /\ Stamps' /\ FailureDated'
    BY <1>2 DEF HealthInv, LagBounded, Stamps, FailureDated, SensorReady, RecoveryReadsStatus, answer
  <2>5. SampleStamps'
    BY <1>2, <2>2 DEF HealthInv, SampleStamps, RecoveryReadsStatus
  <2> QED
    BY <2>3, <2>4, <2>5 DEF HealthInv
<1> QED
  BY <1>1, <1>2

LEMMA TickKeepsInv ==
  ASSUME HealthInv, Tick
  PROVE  HealthInv'
<1> USE HealthAssumption
<1>1. HealthTypeOK'
  <2>1. \A s \in Streams : samples'[s] \in Seq(Ages)
    BY OlderIsMonotone DEF HealthInv, HealthTypeOK, MonitorTypes, Tick
  <2>2. pending' \subseteq Messages
    <3> SUFFICES ASSUME NEW m \in pending
                 PROVE  [m EXCEPT !.age = Older(@)] \in Messages
      BY DEF Tick
    <3>1. m \in [stream : Streams, age : Ages]
      BY DEF HealthInv, HealthTypeOK, MonitorTypes, Messages
    <3>2. Older(m.age) \in Ages
      BY <3>1, OlderIsMonotone
    <3> QED
      BY <3>1, <3>2 DEF Messages
  <2>3. MonitorTypes'
    BY <2>1, <2>2, OlderIsMonotone DEF HealthInv, HealthTypeOK, MonitorTypes, Tick
  <2>4. TimerTypes'
    BY OlderIsMonotone DEF HealthInv, HealthTypeOK, TimerTypes, Tick, answer
  <2> QED
    BY <2>3, <2>4 DEF HealthTypeOK
<1>2. LagBounded'
  <2>1. \A m \in pending : m.age \in Ages /\ Older(m.age) <= MaxLag
    BY DEF HealthInv, HealthTypeOK, MonitorTypes, Tick, Messages, Older, Ages
  <2>2. eAge' <= MaxLag
    BY DEF HealthInv, HealthTypeOK, TimerTypes, LagBounded, Tick, Older, Ages
  <2>3. \A m \in pending' : m.age <= MaxLag
    BY <2>1 DEF HealthInv, HealthTypeOK, MonitorTypes, Tick, Messages
  <2> QED
    BY <2>2, <2>3 DEF LagBounded
<1>3. Stamps'
  <2> SUFFICES ASSUME NEW s \in Streams
               PROVE  IF received'[s]
                      THEN newest'[s] <= last'[s] /\ last'[s] <= newest'[s] + MaxLag
                      ELSE newest'[s] = Cap
    BY DEF Stamps
  <2>1. received'[s] = received[s] /\ last'[s] = Older(last[s]) /\ newest'[s] = Older(newest[s])
    BY DEF Tick
  <2>2. last[s] \in Ages /\ newest[s] \in Ages
    BY DEF HealthInv, HealthTypeOK, MonitorTypes
  <2>3. CASE received[s]
    <3>1. newest[s] <= last[s] /\ last[s] <= newest[s] + MaxLag
      BY <2>3 DEF HealthInv, Stamps
    <3> QED
      BY <3>1, <2>1, <2>2, <2>3, OlderIsMonotone
  <2>4. CASE ~received[s]
    <3>1. newest[s] = Cap
      BY <2>4 DEF HealthInv, Stamps
    <3> QED
      BY <3>1, <2>1, <2>4 DEF Older
  <2> QED
    BY <2>3, <2>4
<1>4. SampleStamps'
  <2> SUFFICES ASSUME NEW s \in Streams, NEW i \in 1..Len(samples'[s])
               PROVE  newest'[s] <= samples'[s][i]
    BY DEF SampleStamps
  <2>1. i \in 1..Len(samples[s]) /\ samples'[s][i] = Older(samples[s][i])
    BY DEF HealthInv, HealthTypeOK, MonitorTypes, Tick
  <2>2. newest'[s] = Older(newest[s])
    BY DEF Tick
  <2>3. samples[s][i] \in Ages /\ newest[s] \in Ages /\ newest[s] <= samples[s][i]
    BY <2>1 DEF HealthInv, HealthTypeOK, MonitorTypes, SampleStamps
  <2> QED
    BY <2>1, <2>2, <2>3, OlderIsMonotone
<1>5. FailureDated'
  BY OlderIsMonotone DEF HealthInv, HealthTypeOK, TimerTypes, FailureDated, SensorReady, Tick,
     answer
<1> QED
  BY <1>1, <1>2, <1>3, <1>4, <1>5 DEF HealthInv

LEMMA NextKeepsHealthInv == HealthInv /\ [Next]_vars => HealthInv'
<1> SUFFICES ASSUME HealthInv, [Next]_vars PROVE HealthInv'
  OBVIOUS
<1>1. ASSUME NEW s \in Streams, ReadClock(s) PROVE HealthInv'
  BY <1>1, ReadClockKeepsInv
<1>2. ASSUME NEW m \in Messages, Store(m) PROVE HealthInv'
  BY <1>2, StoreKeepsInv
<1>3. CASE TimerStep
  BY <1>3, TimerReadsClockKeepsInv, GetStatusKeepsInv, JudgeKeepsInv DEF TimerStep
<1>4. CASE Tick
  BY <1>4, TickKeepsInv
<1>6. CASE (\E age \in 0..MaxLag : RecoveryReadsStatus(age)) \/ RecoveryForgets
  BY <1>6, RecoveryKeepsInv
<1>5. CASE UNCHANGED vars
  BY <1>5 DEF vars, monitor, answer, failure, HealthInv, HealthTypeOK, MonitorTypes, TimerTypes,
     LagBounded, Stamps, SampleStamps, FailureDated, SensorReady
<1> QED
  BY <1>1, <1>2, <1>3, <1>4, <1>5, <1>6 DEF Next

LEMMA HealthInvHolds == Spec => []HealthInv
  BY InitHealthInv, NextKeepsHealthInv, PTL DEF Spec

-----------------------------------------------------------------------------
\* The monitor's fields and the timer's judgement stay in their ranges.
THEOREM HealthTypesCorrect == Spec => []HealthTypeOK
<1>1. HealthInv => HealthTypeOK
  BY DEF HealthInv
<1> QED
  BY <1>1, HealthInvHolds, PTL

\* A silent stream is reported as lost, and loses its rate, by the next answer.
THEOREM SilencesAreSeen == Spec => SilenceIsSeen
<1>1. HealthInv /\ [Next]_vars =>
        [getStatus => \A s \in Streams :
           /\ alive'[s] => newest[s] - eAge <= Timeout[s]
           /\ rateOk'[s] => newest[s] - eAge <= Window]_vars
  <2> SUFFICES ASSUME HealthInv, getStatus, NEW s \in Streams
               PROVE  /\ alive'[s] => newest[s] - eAge <= Timeout[s]
                      /\ rateOk'[s] => newest[s] - eAge <= Window
    OBVIOUS
  <2>1. /\ newest[s] \in Int /\ last[s] \in Int /\ eAge \in Int
        /\ samples[s] \in Seq(Ages) /\ Timeout[s] \in Int /\ Window \in Int
    BY HealthAssumption DEF HealthInv, HealthTypeOK, MonitorTypes, TimerTypes, Ages
  <2>2. ASSUME alive'[s] PROVE newest[s] - eAge <= Timeout[s]
    <3>1. received[s] /\ last[s] - eAge <= Timeout[s]
      BY <2>2 DEF getStatus
    <3>2. newest[s] <= last[s]
      BY <3>1 DEF HealthInv, Stamps
    <3> QED
      BY <2>1, <3>1, <3>2
  <2>3. ASSUME rateOk'[s] PROVE newest[s] - eAge <= Window
    <3>1. Prune(samples[s], eAge) # <<>>
      BY <2>3 DEF getStatus, RateSuffices
    <3>2. PICK j \in 1..Len(samples[s]) : samples[s][j] - eAge <= Window
      BY <2>1, <3>1, PruneKeepsASuffix
    <3>3. newest[s] <= samples[s][j] /\ samples[s][j] \in Int
      BY <2>1, HealthAssumption DEF HealthInv, SampleStamps, Ages
    <3> QED
      BY <2>1, <3>2, <3>3
  <2> QED
    BY <2>2, <2>3
<1> QED
  BY <1>1, HealthInvHolds, PTL DEF Spec, SilenceIsSeen

\* A stream that sends is not reported as lost, in whatever order its callbacks store.
THEOREM LossesAreReal == Spec => LossIsReal
<1>1. HealthInv /\ [Next]_vars =>
        [getStatus => \A s \in Streams : received[s] /\ ~alive'[s] => ~Fresh(s)]_vars
  BY FreshIsAlive
<1> QED
  BY <1>1, HealthInvHolds, PTL DEF Spec, LossIsReal

\* The sensors fail a session only after the whole grace period.
THEOREM FailuresNeedGrace == Spec => FailureNeedsGrace
<1>1. HealthInv /\ [Next]_vars => [JudgeSensors /\ failed' => good >= Grace]_vars
  <2> SUFFICES ASSUME HealthInv, JudgeSensors, failed' PROVE good >= Grace
    OBVIOUS
  <2>1. ~SensorReady /\ since' >= Grace /\ since' = IF failing THEN since ELSE 0
    BY DEF JudgeSensors
  <2>2. since \in Ages /\ good \in Ages
    BY DEF HealthInv, HealthTypeOK, TimerTypes
  <2>3. failing => since <= good
    BY <2>1 DEF HealthInv, FailureDated
  <2> QED
    BY <2>1, <2>2, <2>3, HealthAssumption DEF Ages
<1> QED
  BY <1>1, HealthInvHolds, PTL DEF Spec, FailureNeedsGrace

-----------------------------------------------------------------------------
(* Silence, step by step instead of in the end.                              *)

IsSilent(s) == newest[s] = Cap

\* The failure that the silence of a stream keeps going.
FailureRuns(s) == IsSilent(s) /\ ~alive[s] /\ failing

\* A failed session has a failure of that age, or a recovery has forgotten it.
FailedIsDated == failed /\ failing => since >= Grace

\* While a stream stays silent, the next answer reports it as lost and no later
\* one as back; the next judgement starts a failure.  But for a recovery that
\* forgets it, only time moves the age of that failure, and a judgement fails the
\* session exactly when it has reached the grace period.
SilenceMovesOn ==
  [][\A s \in Streams : IsSilent(s) /\ IsSilent(s)' =>
       /\ getStatus \/ ~alive[s] => ~alive'[s]
       /\ JudgeSensors /\ ~alive[s] => FailureRuns(s)'
       /\ FailureRuns(s) /\ ~RecoveryForgets =>
            /\ FailureRuns(s)'
            /\ since' = IF Tick THEN Older(since) ELSE since
            /\ JudgeSensors => (failed' <=> since >= Grace)
            /\ failed => failed']_vars

LEMMA FailedIsDatedStep ==
  ASSUME HealthInv, FailedIsDated, [Next]_vars
  PROVE  FailedIsDated'
<1> USE HealthAssumption DEF FailedIsDated
<1>1. CASE JudgeSensors
  BY <1>1 DEF JudgeSensors
<1>2. CASE Tick
  <2>1. since \in Ages /\ Older(since) \in Ages /\ since <= Older(since)
    BY OlderIsMonotone DEF HealthInv, HealthTypeOK, TimerTypes
  <2> QED
    BY <1>2, <2>1 DEF Tick, Ages
<1>3. CASE UNCHANGED <<failed, failing, since>>
  BY <1>3
<1>4. CASE RecoveryForgets
  BY <1>4 DEF RecoveryForgets
<1> QED
  BY <1>1, <1>2, <1>3, <1>4
  DEF Next, ReadClock, Store, TimerStep, TimerReadsClock, getStatus, RecoveryReadsStatus, vars,
      failure

\* An answer about a silent stream: no clock reading is that old.
LEMMA SilentIsNotAlive ==
  ASSUME HealthInv, getStatus, NEW s \in Streams, IsSilent(s)
  PROVE  ~alive'[s]
<1>1. /\ newest[s] \in Int /\ last[s] \in Int /\ eAge \in Int /\ Timeout[s] \in Int
      /\ MaxLag \in Int /\ Cap \in Int
  BY HealthAssumption DEF HealthInv, HealthTypeOK, MonitorTypes, TimerTypes, Ages
<1>2. received[s] => newest[s] <= last[s]
  BY DEF HealthInv, Stamps
<1>3. eAge <= MaxLag /\ Cap > Timeout[s] + MaxLag
  BY HealthAssumption DEF HealthInv, LagBounded
<1>4. received[s] => ~(last[s] - eAge <= Timeout[s])
  BY <1>1, <1>2, <1>3 DEF IsSilent
<1> QED
  BY <1>4 DEF getStatus

LEMMA SilenceStep ==
  ASSUME HealthInv, FailedIsDated, [Next]_vars, NEW s \in Streams, IsSilent(s), IsSilent(s)'
  PROVE  /\ getStatus \/ ~alive[s] => ~alive'[s]
         /\ JudgeSensors /\ ~alive[s] => FailureRuns(s)'
         /\ FailureRuns(s) /\ ~RecoveryForgets =>
              /\ FailureRuns(s)'
              /\ since' = IF Tick THEN Older(since) ELSE since
              /\ JudgeSensors => (failed' <=> since >= Grace)
              /\ failed => failed'
<1>1. getStatus \/ ~alive[s] => ~alive'[s]
  <2>1. getStatus \/ alive' = alive
    BY DEF Next, ReadClock, Store, TimerStep, TimerReadsClock, JudgeSensors, Tick, answer, vars,
       RecoveryReadsStatus, RecoveryForgets
  <2> QED
    BY <2>1, SilentIsNotAlive
<1>2. ~alive[s] => ~SensorReady
  BY DEF SensorReady
<1>3. JudgeSensors => alive' = alive /\ (~SensorReady => failing')
  BY DEF JudgeSensors, answer
<1>4. JudgeSensors /\ ~alive[s] => FailureRuns(s)'
  BY <1>2, <1>3 DEF FailureRuns
<1>5. ASSUME FailureRuns(s), ~RecoveryForgets
      PROVE  /\ failing'
             /\ since' = IF Tick THEN Older(since) ELSE since
             /\ JudgeSensors => (failed' <=> since >= Grace)
             /\ failed => failed'
  <2>1. failing /\ ~alive[s] /\ ~SensorReady
    BY <1>2, <1>5 DEF FailureRuns
  <2>2. CASE Tick
    <3>1. failing' = failing /\ failed' = failed /\ since' = Older(since)
      BY <2>1, <2>2 DEF Tick
    <3>2. ~JudgeSensors
      BY <2>2 DEF Tick, JudgeSensors
    <3> QED
      BY <2>1, <2>2, <3>1, <3>2
  <2>3. CASE JudgeSensors
    <3>1. failing' /\ since' = since /\ (failed' <=> since' >= Grace)
      BY <2>1, <2>3 DEF JudgeSensors
    <3>2. ~Tick
      BY <2>3 DEF Tick, JudgeSensors
    <3>3. failed => since >= Grace
      BY <2>1 DEF FailedIsDated
    <3> QED
      BY <3>1, <3>2, <3>3
  <2>4. CASE ~Tick /\ ~JudgeSensors
    <3>1. UNCHANGED <<failed, failing, since>>
      BY <1>5, <2>4 DEF Next, ReadClock, Store, TimerStep, TimerReadsClock, getStatus,
         RecoveryReadsStatus, vars, failure
    <3> QED
      BY <2>1, <2>4, <3>1
  <2> QED
    BY <2>2, <2>3, <2>4
<1> QED
  BY <1>1, <1>4, <1>5 DEF FailureRuns

\* A silent stream fails the session by the first judgement after the grace
\* period, for any number of streams: nothing on the way but a recovery restarts
\* the failure, and nothing takes a judgement back.
THEOREM SilencesMoveOn == Spec => []FailedIsDated /\ SilenceMovesOn
<1>1. Init => FailedIsDated
  BY DEF Init, FailedIsDated
<1>2. Spec => []FailedIsDated
  BY <1>1, HealthInvHolds, FailedIsDatedStep, PTL DEF Spec
<1>3. HealthInv /\ FailedIsDated /\ [Next]_vars
        => [\A s \in Streams : IsSilent(s) /\ IsSilent(s)' =>
              /\ getStatus \/ ~alive[s] => ~alive'[s]
              /\ JudgeSensors /\ ~alive[s] => FailureRuns(s)'
              /\ FailureRuns(s) /\ ~RecoveryForgets =>
                   /\ FailureRuns(s)'
                   /\ since' = IF Tick THEN Older(since) ELSE since
                   /\ JudgeSensors => (failed' <=> since >= Grace)
                   /\ failed => failed']_vars
  BY SilenceStep
<1> QED
  BY <1>2, <1>3, HealthInvHolds, PTL DEF Spec, SilenceMovesOn

================================================================================
