---------------------- MODULE LocalizationQualityProofs ----------------------
(***************************************************************************)
(* Proofs about LocalizationQuality for every choice of thresholds: its      *)
(* types, the evidence behind a valid pose, and that it implements           *)
(* QualityHysteresis.  The invariant of the refinement says what each        *)
(* counter counts: the length of the run of verdicts that ends the history.  *)
(***************************************************************************)
EXTENDS LocalizationQuality, TLAPS

V == Promise!Verdicts

\* The history is what CountLimit verdicts it can hold, and a counter has
\* reached n exactly when the last n verdicts are of its kind.
CountersSeeRuns ==
  /\ frames \in Seq(V) /\ Len(frames) <= CountLimit
  /\ \A n \in 1..CountLimit :
       /\ good >= n <=> Promise!EndsIn(frames, n, {"good"})
       /\ bad >= n <=> Promise!EndsIn(frames, n, V \ {"good"})
       /\ critical >= n <=> Promise!EndsIn(frames, n, {"fault", "bad"})

QualityInv == QualityTypeOK /\ ValidHasEvidence /\ CountersSeeRuns

-----------------------------------------------------------------------------
\* A history stays within its length, and a run of length n ends the new one
\* when the new verdict extends a run of length n - 1 of the old one.
LEMMA RememberIsHistory ==
  ASSUME NEW s \in Seq(V), Len(s) <= CountLimit, NEW v \in V
  PROVE  /\ Promise!Remember(s, v) \in Seq(V)
         /\ Len(Promise!Remember(s, v)) <= CountLimit
BY ThresholdsAssumption DEF Promise!Remember

LEMMA RememberEnds ==
  ASSUME NEW s \in Seq(V), Len(s) <= CountLimit, NEW v \in V,
         NEW n \in 1..CountLimit, NEW kinds
  PROVE  Promise!EndsIn(Promise!Remember(s, v), n, kinds) <=>
           v \in kinds /\ (n = 1 \/ Promise!EndsIn(s, n - 1, kinds))
<1> DEFINE t == Promise!Remember(s, v)
           drop == Len(s) + 1 - Len(t)
<1>1. /\ Len(t) \in 1..CountLimit /\ Len(t) >= Len(s) /\ Len(s) \in Nat
      /\ t[Len(t)] = v /\ drop \in {0, 1}
      /\ \A i \in 1..(Len(t) - 1) : t[i] = s[i + drop]
      /\ drop = 1 => Len(s) = CountLimit
  <2>1. CASE Len(s) < CountLimit
    <3>1. t = Append(s, v)
      BY <2>1 DEF Promise!Remember
    <3> QED
      BY <2>1, <3>1, ThresholdsAssumption
  <2>2. CASE Len(s) = CountLimit
    <3>1. t = Append(Tail(s), v) /\ Len(s) >= 1
      BY <2>2, ThresholdsAssumption DEF Promise!Remember
    <3>2. Tail(s) \in Seq(V) /\ Len(Tail(s)) = Len(s) - 1
      BY <3>1
    <3>3. \A i \in 1..Len(Tail(s)) : Tail(s)[i] = s[i + 1]
      BY <3>1
    <3> QED
      BY <2>2, <3>1, <3>2, <3>3, ThresholdsAssumption
  <2> QED
    BY <2>1, <2>2, ThresholdsAssumption
<1> HIDE DEF t
<1>2. ASSUME Promise!EndsIn(t, n, kinds)
      PROVE  v \in kinds /\ (n = 1 \/ Promise!EndsIn(s, n - 1, kinds))
  <2>1. v \in kinds
    BY <1>1, <1>2, ThresholdsAssumption DEF Promise!EndsIn
  <2>2. ASSUME n # 1, NEW j \in (Len(s) - (n - 1) + 1)..Len(s)
        PROVE  s[j] \in kinds
    <3>1. /\ j - drop \in (Len(t) - n + 1)..Len(t)
          /\ j - drop \in 1..(Len(t) - 1)
      BY <1>1, <1>2, <2>2, ThresholdsAssumption DEF Promise!EndsIn
    <3>2. t[j - drop] = s[j]
      BY <1>1, <3>1
    <3> QED
      BY <1>2, <3>1, <3>2 DEF Promise!EndsIn
  <2> QED
    BY <1>1, <1>2, <2>1, <2>2, ThresholdsAssumption DEF Promise!EndsIn
<1>3. ASSUME v \in kinds, n = 1 \/ Promise!EndsIn(s, n - 1, kinds)
      PROVE  Promise!EndsIn(t, n, kinds)
  <2>1. Len(t) >= n
    BY <1>1, <1>3, ThresholdsAssumption DEF Promise!EndsIn
  <2>2. ASSUME NEW i \in (Len(t) - n + 1)..Len(t), i # Len(t)
        PROVE  t[i] \in kinds
    <3>1. i \in 1..(Len(t) - 1) /\ n # 1
      BY <1>1, <2>1, <2>2, ThresholdsAssumption
    <3>2. i + drop \in (Len(s) - (n - 1) + 1)..Len(s)
      BY <1>1, <2>2, <3>1, ThresholdsAssumption
    <3> QED
      BY <1>1, <1>3, <3>1, <3>2 DEF Promise!EndsIn
  <2> QED
    BY <1>1, <1>3, <2>1, <2>2 DEF Promise!EndsIn
<1> QED
  BY <1>2, <1>3 DEF t

LEMMA EmptyHasNoRun ==
  ASSUME NEW n \in 1..CountLimit, NEW kinds
  PROVE  ~Promise!EndsIn(<< >>, n, kinds)
BY DEF Promise!EndsIn

-----------------------------------------------------------------------------
(* The invariant.                                                            *)

LEMMA InitInv == Init => QualityInv
<1> SUFFICES ASSUME Init PROVE QualityInv
  OBVIOUS
<1> USE ThresholdsAssumption DEF Init
<1>1. QualityTypeOK /\ ValidHasEvidence
  <2>1. good \in 0..CountLimit /\ bad \in 0..CountLimit /\ critical \in 0..bad
    OBVIOUS
  <2>2. age \in [Inputs -> {"never", "fresh", "stale"}]
    OBVIOUS
  <2> QED
    BY <2>1, <2>2 DEF QualityTypeOK, ValidHasEvidence, Contexts
<1>2. CountersSeeRuns
  BY EmptyHasNoRun DEF CountersSeeRuns
<1> QED
  BY <1>1, <1>2 DEF QualityInv

\* Only an evaluation moves a counter: every other step breaks the history and
\* zeroes the counters or leaves both alone.
LEMMA QuietStep ==
  ASSUME CountersSeeRuns,
         UNCHANGED <<counts, frames>> \/
           (frames' = << >> /\ good' = 0 /\ bad' = 0 /\ critical' = 0)
  PROVE  CountersSeeRuns'
<1>1. CASE UNCHANGED <<counts, frames>>
  BY <1>1 DEF counts, CountersSeeRuns
<1>2. CASE frames' = << >> /\ good' = 0 /\ bad' = 0 /\ critical' = 0
  BY <1>2, EmptyHasNoRun, ThresholdsAssumption DEF CountersSeeRuns
<1> QED
  BY <1>1, <1>2

LEMMA FrameStep ==
  ASSUME QualityTypeOK, CountersSeeRuns, NEW v \in V, EvaluateFrame(v)
  PROVE  CountersSeeRuns'
<1>1. frames' \in Seq(V) /\ Len(frames') <= CountLimit
  BY RememberIsHistory DEF EvaluateFrame, CountersSeeRuns
<1>2. ASSUME NEW n \in 1..CountLimit
      PROVE  /\ good' >= n <=> Promise!EndsIn(frames', n, {"good"})
             /\ bad' >= n <=> Promise!EndsIn(frames', n, V \ {"good"})
             /\ critical' >= n <=> Promise!EndsIn(frames', n, {"fault", "bad"})
  <2>1. \A kinds : Promise!EndsIn(frames', n, kinds) <=>
                     v \in kinds /\ (n = 1 \/ Promise!EndsIn(frames, n - 1, kinds))
    BY RememberEnds DEF EvaluateFrame, CountersSeeRuns
  <2>2. n # 1 => n - 1 \in 1..CountLimit
    BY ThresholdsAssumption
  <2>3. /\ n # 1 => (good >= n - 1 <=> Promise!EndsIn(frames, n - 1, {"good"}))
        /\ n # 1 => (bad >= n - 1 <=> Promise!EndsIn(frames, n - 1, V \ {"good"}))
        /\ n # 1 => (critical >= n - 1 <=> Promise!EndsIn(frames, n - 1, {"fault", "bad"}))
    BY <2>2 DEF CountersSeeRuns
  <2>4. v \in {"fault", "bad", "weak", "good"}
    BY DEF V, Promise!Verdicts
  <2>5. CASE v = "good"
    <3>1. good' = Increment(good) /\ bad' = 0 /\ critical' = 0
      BY <2>5 DEF EvaluateFrame, CountFrame, Count
    <3> QED
      BY <2>1, <2>3, <2>5, <3>1, ThresholdsAssumption DEF QualityTypeOK, Increment
  <2>6. CASE v = "weak"
    <3>1. good' = 0 /\ bad' = Increment(bad) /\ critical' = 0
      BY <2>6 DEF EvaluateFrame, CountFrame, Count
    <3> QED
      BY <2>1, <2>3, <2>6, <3>1, ThresholdsAssumption DEF QualityTypeOK, Increment
  <2>7. CASE v \in {"fault", "bad"}
    <3>1. good' = 0 /\ bad' = Increment(bad) /\ critical' = Increment(critical)
      BY <2>7 DEF EvaluateFrame, CountFrame, Count
    <3> QED
      BY <2>1, <2>3, <2>7, <3>1, ThresholdsAssumption DEF QualityTypeOK, Increment
  <2> QED
    BY <2>4, <2>5, <2>6, <2>7
<1> QED
  BY <1>1, <1>2 DEF CountersSeeRuns

LEMMA NextInv == QualityInv /\ [Next]_vars => QualityInv'
<1> SUFFICES ASSUME QualityInv, [Next]_vars PROVE QualityInv'
  OBVIOUS
<1> USE ThresholdsAssumption DEF QualityInv, QualityTypeOK, ValidHasEvidence, inputs, counts
<1>1. CASE UNCHANGED vars
  BY <1>1, QuietStep DEF vars, Contexts
<1>2. CASE ContextChanges
  BY <1>2, QuietStep DEF ContextChanges
<1>3. ASSUME NEW i \in Inputs, InputAges(i) PROVE QualityInv'
  BY <1>3, QuietStep DEF InputAges
<1>4. ASSUME NEW i \in {"odometry", "pose", "correction"},
             NEW kind \in {"sound", "jump", "refused"}, Observe(i, kind)
      PROVE  QualityInv'
  BY <1>4, QuietStep DEF Observe, Inputs
<1>5. CASE observeRegistration
  BY <1>5, QuietStep DEF observeRegistration, Inputs
<1>6. CASE reset
  <2>1. CountersSeeRuns'
    BY <1>6, QuietStep DEF reset, ResetStatus
  <2>2. QualityTypeOK'
    <3>1. good' \in 0..CountLimit /\ bad' \in 0..CountLimit /\ critical' \in 0..bad'
      BY <1>6 DEF reset, ResetStatus
    <3>2. age' \in [Inputs -> {"never", "fresh", "stale"}]
      BY <1>6 DEF reset, ResetStatus
    <3> QED
      BY <1>6, <3>1, <3>2 DEF reset, ResetStatus
  <2>3. ValidHasEvidence'
    BY <1>6 DEF reset, ResetStatus
  <2> QED
    BY <2>1, <2>2, <2>3
<1>7. CASE EvaluateOff
  <2>1. CountersSeeRuns'
    BY <1>7, QuietStep DEF EvaluateOff
  <2>2. QualityTypeOK'
    <3>1. good' \in 0..CountLimit /\ bad' \in 0..CountLimit /\ critical' \in 0..bad'
      BY <1>7 DEF EvaluateOff
    <3> QED
      BY <1>7, <3>1 DEF EvaluateOff
  <2>3. ValidHasEvidence'
    BY <1>7 DEF EvaluateOff
  <2> QED
    BY <2>1, <2>2, <2>3
<1>8. ASSUME NEW v \in V, EvaluateFrame(v) PROVE QualityInv'
  <2>1. CountersSeeRuns'
    BY <1>8, FrameStep
  <2>2. QualityTypeOK'
    BY <1>8 DEF EvaluateFrame, CountFrame, Count, Increment, NextLevel
  <2>3. ValidHasEvidence'
    BY <1>8 DEF EvaluateFrame, NextLevel, Critical, FaultUnless
  <2> QED
    BY <2>1, <2>2, <2>3
<1> QED
  BY <1>1, <1>2, <1>3, <1>4, <1>5, <1>6, <1>7, <1>8
  DEF Next, observeOdometry, observePose, observeCorrection, evaluate, V

\* The types and the counters are right in every reachable state.
THEOREM QualityTypesCorrect == Spec => []QualityTypeOK
<1>1. QualityInv => QualityTypeOK
  BY DEF QualityInv
<1> QED
  BY <1>1, InitInv, NextInv, PTL DEF Spec

\* No valid pose without a pose, an odometry and a correction received since the
\* last reset, whichever thread resets the monitor and when.
THEOREM ValidPoseHasEvidence == Spec => []ValidHasEvidence
<1>1. QualityInv => ValidHasEvidence
  BY DEF QualityInv
<1> QED
  BY <1>1, InitInv, NextInv, PTL DEF Spec

\* For all thresholds the counters implement the runs of verdicts: every step
\* of the monitor is a judgement, a break or a stutter of QualityHysteresis.
THEOREM HysteresisImplemented == Spec => ImplementsHysteresis
<1>1. Init => Promise!Init
  BY DEF Init, Promise!Init
<1>2. ASSUME QualityInv, [Next]_vars PROVE [Promise!Next]_(Promise!vars)
  <2> USE DEF Promise!vars
  <2>1. CASE UNCHANGED <<level, poseValid, frames>>
    BY <2>1
  <2>2. CASE reset \/ EvaluateOff
    BY <2>2 DEF reset, ResetStatus, EvaluateOff, Promise!Next, Promise!Break
  <2>3. ASSUME NEW v \in V, EvaluateFrame(v) PROVE Promise!Judge(v)
    <3>1. CountersSeeRuns'
      BY <1>2, <2>3, FrameStep DEF QualityInv
    <3>2. /\ critical' >= BadToLost <=> Promise!EndsIn(frames', BadToLost, {"fault", "bad"})
          /\ bad' >= BadToDegraded <=>
               Promise!EndsIn(frames', BadToDegraded, Promise!Verdicts \ {"good"})
          /\ good' >= GoodToRecover <=> Promise!EndsIn(frames', GoodToRecover, {"good"})
      <4>1. /\ BadToLost \in 1..CountLimit /\ BadToDegraded \in 1..CountLimit
            /\ GoodToRecover \in 1..CountLimit
        BY ThresholdsAssumption
      <4>2. \A n \in 1..CountLimit :
              /\ good' >= n <=> Promise!EndsIn(frames', n, {"good"})
              /\ bad' >= n <=> Promise!EndsIn(frames', n, Promise!Verdicts \ {"good"})
              /\ critical' >= n <=> Promise!EndsIn(frames', n, {"fault", "bad"})
        BY <3>1 DEF CountersSeeRuns, V
      <4> QED
        BY <4>1, <4>2
    <3>3. level' = Promise!LevelAfter(frames')
      BY <2>3, <3>2 DEF EvaluateFrame, NextLevel, Promise!LevelAfter
    <3>4. level' \in {"UNKNOWN", "LOCALIZED", "DEGRADED", "LOST"}
      BY <1>2, <2>3 DEF EvaluateFrame, NextLevel, QualityInv, QualityTypeOK
    <3> QED
      BY <2>3, <3>3, <3>4 DEF EvaluateFrame, Promise!Judge
  <2> QED
    BY <1>2, <2>1, <2>2, <2>3
    DEF vars, Next, ContextChanges, InputAges, Observe, observeOdometry, observePose,
        observeCorrection, observeRegistration, evaluate, V, Promise!Next
<1> QED
  BY <1>1, <1>2, InitInv, NextInv, PTL DEF Spec, ImplementsHysteresis, Promise!Spec

-----------------------------------------------------------------------------
(* Silence, counted instead of awaited.                                      *)

\* The judge looks, and the odometry has been received and has stopped since.
OdometryIsSilent == context # "off" /\ age["odometry"] = "stale"

\* How many evaluations of it are still needed for LOST.
LeftAfter(n) == IF n >= BadToLost THEN 0 ELSE BadToLost - n

SilenceLeft == LeftAfter(critical)

LostWhenCounted == SilenceLeft = 0 => level = "LOST" /\ ~poseValid

\* As long as the odometry stays silent, every evaluation takes one off, whatever
\* the confidence and the other inputs say, and nothing else gives one back.
SilenceIsCounted ==
  [][OdometryIsSilent /\ OdometryIsSilent' =>
       SilenceLeft' = IF ~evaluate THEN SilenceLeft
                      ELSE IF SilenceLeft = 0 THEN 0 ELSE SilenceLeft - 1]_vars

LEMMA LeftIsWithinBounds ==
  ASSUME NEW n \in Nat
  PROVE  /\ LeftAfter(n) \in 0..BadToLost /\ (LeftAfter(n) = 0 <=> n >= BadToLost)
         /\ LeftAfter(Increment(n)) = IF LeftAfter(n) = 0 THEN 0 ELSE LeftAfter(n) - 1
BY ThresholdsAssumption DEF LeftAfter, Increment

LEMMA LostWhenCountedStep ==
  ASSUME QualityTypeOK, LostWhenCounted, [Next]_vars
  PROVE  LostWhenCounted'
<1> USE ThresholdsAssumption DEF QualityTypeOK
<1>1. CASE UNCHANGED <<level, poseValid, critical>>
  BY <1>1 DEF LostWhenCounted, SilenceLeft
<1>2. CASE reset \/ EvaluateOff
  BY <1>2, LeftIsWithinBounds
  DEF reset, ResetStatus, EvaluateOff, LostWhenCounted, SilenceLeft
<1>3. ASSUME NEW v \in V, EvaluateFrame(v)
      PROVE  LostWhenCounted'
  <2>1. critical' \in Nat
    BY <1>3 DEF EvaluateFrame, CountFrame, Count, Increment
  <2>2. critical' >= BadToLost => level' = "LOST" /\ ~poseValid'
    BY <1>3 DEF EvaluateFrame, NextLevel
  <2>3. SilenceLeft' = 0 => critical' >= BadToLost
    BY <2>1, LeftIsWithinBounds DEF SilenceLeft
  <2> QED
    BY <2>2, <2>3 DEF LostWhenCounted
<1> QED
  BY <1>1, <1>2, <1>3
  DEF vars, counts, Next, ContextChanges, InputAges, Observe, observeOdometry, observePose,
      observeCorrection, observeRegistration, evaluate, V

LEMMA SilenceCountsStep ==
  ASSUME QualityTypeOK, [Next]_vars, OdometryIsSilent, OdometryIsSilent'
  PROVE  SilenceLeft' = IF ~evaluate THEN SilenceLeft
                        ELSE IF SilenceLeft = 0 THEN 0 ELSE SilenceLeft - 1
<1> USE ThresholdsAssumption DEF QualityTypeOK
<1>1. CASE evaluate
  <2>1. PICK v \in V : EvaluateFrame(v)
    BY <1>1 DEF evaluate, EvaluateOff, OdometryIsSilent, V
  <2>2. Critical
    BY DEF Critical, FaultUnless, OdometryIsSilent, Inputs
  <2>3. critical' = Increment(critical)
    BY <2>1, <2>2 DEF EvaluateFrame, CountFrame, Count
  <2> QED
    BY <1>1, <2>3, LeftIsWithinBounds DEF SilenceLeft
<1>2. CASE ~evaluate
  <2>1. ~reset
    BY DEF reset, ResetStatus, OdometryIsSilent, Inputs
  <2>2. critical' = critical
    BY <1>2, <2>1
    DEF vars, counts, Next, ContextChanges, InputAges, Observe, observeOdometry, observePose,
        observeCorrection, observeRegistration
  <2> QED
    BY <1>2, <2>2 DEF SilenceLeft
<1> QED
  BY <1>1, <1>2

\* bad_frames_to_lost evaluations of an odometry that stays silent end in LOST
\* without a valid pose, for all thresholds and whatever else arrives in between.
THEOREM SilencesAreCounted ==
  Spec => /\ [](SilenceLeft \in 0..BadToLost /\ (SilenceLeft = 0 => level = "LOST" /\ ~poseValid))
          /\ SilenceIsCounted
<1>1. Init => LostWhenCounted
  BY LeftIsWithinBounds, ThresholdsAssumption DEF Init, LostWhenCounted, SilenceLeft
<1>2. QualityTypeOK => SilenceLeft \in 0..BadToLost
  BY LeftIsWithinBounds, ThresholdsAssumption DEF QualityTypeOK, SilenceLeft
<1>3. QualityTypeOK /\ [Next]_vars
        => [OdometryIsSilent /\ OdometryIsSilent' =>
              SilenceLeft' = IF ~evaluate THEN SilenceLeft
                             ELSE IF SilenceLeft = 0 THEN 0 ELSE SilenceLeft - 1]_vars
  BY SilenceCountsStep
<1>4. Spec => []LostWhenCounted
  BY <1>1, QualityTypesCorrect, LostWhenCountedStep, PTL DEF Spec
<1> QED
  BY <1>2, <1>3, <1>4, QualityTypesCorrect, PTL DEF Spec, SilenceIsCounted, LostWhenCounted

==============================================================================
