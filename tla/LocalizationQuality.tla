------------------------- MODULE LocalizationQuality -------------------------
(***************************************************************************)
(* LocalizationQualityMonitor: it watches the unified pose, the map         *)
(* corrections and the scan registration, and a timer judges them and moves *)
(* a level with hysteresis.  Every operation is one section under mutex_.   *)
(* reset is called by service handlers, the operation thread and the        *)
(* relocalization callbacks, so it falls anywhere between the others.       *)
(*                                                                          *)
(* Data are reduced to what the judgement tells apart: of the age of an     *)
(* input whether it exceeds its timeout, of a sample whether it is refused, *)
(* stored with a fault, or sound, and of the confidence on which side of    *)
(* the two thresholds it lies.  The ROS clock does not step back.           *)
(***************************************************************************)
EXTENDS Naturals, Sequences

CONSTANTS
  BadToDegraded, BadToLost, GoodToRecover,  \* bad_frames_to_degraded, ...
  CountLimit    \* where the model stops counting frames

ASSUME ThresholdsAssumption ==
  /\ BadToDegraded \in Nat \ {0} /\ BadToLost \in Nat \ {0} /\ GoodToRecover \in Nat \ {0}
  /\ BadToLost >= BadToDegraded
  /\ CountLimit \in Nat /\ CountLimit >= BadToLost /\ CountLimit >= GoodToRecover

VARIABLES
  context,      \* the last answer of localizationQualityContext to an evaluation
  age,          \* of each input: "never" received, "fresh" or "stale"
  fault,        \* the inputs whose latest sample had a fault
  registration, \* registration_: "invalid", "accepted" or "rejected"
  level,        \* state_
  poseValid,    \* status_.pose_valid
  good, bad, critical,  \* consecutive_good_frames_, ..._bad_..., ..._critical_...
  frames        \* history: the verdicts since the last break

inputs == <<age, fault, registration>>
counts == <<good, bad, critical>>
vars == <<context, inputs, level, poseValid, counts, frames>>

Inputs == {"odometry", "pose", "correction", "registration"}

\* Not in an initialized localization; in one whose process or sensors failed;
\* in one where both are well.
Contexts == {"off", "unhealthy", "healthy"}

Promise == INSTANCE QualityHysteresis WITH Memory <- CountLimit

Init ==
  /\ context = "off"
  /\ age = [i \in Inputs |-> "never"]
  /\ fault = {} /\ registration = "invalid"
  /\ level = "UNKNOWN" /\ poseValid = FALSE
  /\ good = 0 /\ bad = 0 /\ critical = 0
  /\ frames = << >>

-----------------------------------------------------------------------------
\* The next evaluation gets another answer; it takes the mutex only afterwards, so
\* that a reset may come in between.
ContextChanges ==
  /\ context' \in Contexts \ {context}
  /\ UNCHANGED <<inputs, level, poseValid, counts, frames>>

\* The timeout of an input passes.
InputAges(i) ==
  /\ age[i] = "fresh" /\ age' = [age EXCEPT ![i] = "stale"]
  /\ UNCHANGED <<context, fault, registration, level, poseValid, counts, frames>>

\* A sample that holds no number or whose stamp does not advance is refused
\* and leaves the age alone; one that jumps is stored with a fault.
Observe(i, kind) ==
  /\ kind = "jump" => age[i] # "never"
  /\ fault' = IF kind = "sound" THEN fault \ {i} ELSE fault \cup {i}
  /\ age' = IF kind = "refused" THEN age ELSE [age EXCEPT ![i] = "fresh"]
  /\ UNCHANGED <<context, registration, level, poseValid, counts, frames>>

observeOdometry == \E kind \in {"sound", "jump", "refused"} : Observe("odometry", kind)

observePose == \E kind \in {"sound", "refused"} : Observe("pose", kind)

observeCorrection == \E kind \in {"sound", "jump", "refused"} : Observe("correction", kind)

\* A rejected registration, or one whose residual is over the limit.
observeRegistration ==
  /\ registration' \in {"invalid", "accepted", "rejected"}
  /\ age' = [age EXCEPT !["registration"] = "fresh"]
  /\ UNCHANGED <<context, fault, level, poseValid, counts, frames>>

\* reset, with or without a new status_; registration_ is not touched.
ResetStatus(valid) ==
  /\ age' = [i \in Inputs |-> "never"]
  /\ fault' = {}
  /\ level' = "UNKNOWN" /\ poseValid' = valid
  /\ good' = 0 /\ bad' = 0 /\ critical' = 0
  /\ frames' = << >>
  /\ UNCHANGED <<context, registration>>

\* Faulty: the status published last stays.
ResetKeepsStatus == ResetStatus(poseValid)

reset == ResetStatus(FALSE)

-----------------------------------------------------------------------------
(* evaluate.                                                                 *)

Increment(n) == IF n < CountLimit THEN n + 1 ELSE n

\* What makes an evaluation critical whatever the confidence.  Registration is
\* looked at only once it was received.
FaultUnless(timely) ==
  \/ context = "unhealthy"
  \/ \E i \in {"odometry", "pose", "correction"} : age[i] = "never" \/ ~timely[i]
  \/ fault # {}
  \/ age["registration"] # "never" /\ ~timely["registration"]
  \/ age["registration"] = "fresh" /\ registration = "rejected"

\* Faulty: what was received once is taken for current.
CriticalIgnoresAge == FaultUnless([i \in Inputs |-> TRUE])

Critical == FaultUnless([i \in Inputs |-> age[i] = "fresh"])

Count(v, weakCount) ==
  IF v = "good"
  THEN good' = Increment(good) /\ bad' = 0 /\ critical' = 0
  ELSE /\ good' = 0 /\ bad' = Increment(bad)
       /\ critical' = IF v = "weak" THEN weakCount ELSE Increment(critical)

\* Faulty: a frame that is not critical does not interrupt the critical ones;
\* a frame that is not good does not interrupt the good ones.
CountFrameKeepsCritical(v) == Count(v, critical)

CountFrameKeepsGood(v) ==
  IF v = "good" THEN Count(v, 0)
  ELSE /\ UNCHANGED good /\ bad' = Increment(bad)
       /\ critical' = IF v = "weak" THEN 0 ELSE Increment(critical)

CountFrame(v) == Count(v, 0)

NextLevel ==
  IF critical' >= BadToLost THEN "LOST"
  ELSE IF level \in {"UNKNOWN", "LOCALIZED"} /\ bad' >= BadToDegraded THEN "DEGRADED"
  ELSE IF good' >= GoodToRecover THEN "LOCALIZED"
  ELSE level

\* Localization is not active or not initialized.
EvaluateOff ==
  /\ context = "off"
  /\ level' = "UNKNOWN" /\ poseValid' = FALSE
  /\ good' = 0 /\ bad' = 0 /\ critical' = 0
  /\ frames' = << >>
  /\ UNCHANGED <<context, inputs>>

EvaluateFrame(v) ==
  /\ context # "off"
  /\ v = "fault" <=> Critical
  /\ CountFrame(v)
  /\ level' = NextLevel
  /\ poseValid' = (level' \notin {"UNKNOWN", "LOST"} /\ ~Critical)
  /\ frames' = Promise!Remember(frames, v)
  /\ UNCHANGED <<context, inputs>>

evaluate == EvaluateOff \/ \E v \in Promise!Verdicts : EvaluateFrame(v)

-----------------------------------------------------------------------------
Next ==
  \/ ContextChanges
  \/ \E i \in Inputs : InputAges(i)
  \/ observeOdometry \/ observePose \/ observeCorrection \/ observeRegistration
  \/ reset
  \/ evaluate

Spec == Init /\ [][Next]_vars

\* The wall timer keeps firing.
FairSpec == Spec /\ WF_vars(evaluate)

-----------------------------------------------------------------------------
(* Properties.                                                               *)

\* Type invariant, with what relates the counters: a good run and a bad run
\* exclude each other, and critical frames are bad ones.
QualityTypeOK ==
  /\ context \in Contexts
  /\ age \in [Inputs -> {"never", "fresh", "stale"}]
  /\ fault \in SUBSET {"odometry", "pose", "correction"}
  /\ registration \in {"invalid", "accepted", "rejected"}
  /\ level \in {"UNKNOWN", "LOCALIZED", "DEGRADED", "LOST"}
  /\ poseValid \in BOOLEAN
  /\ good \in 0..CountLimit /\ bad \in 0..CountLimit /\ critical \in 0..bad
  /\ good = 0 \/ bad = 0

\* A pose is called valid only on evidence that came after the last reset,
\* whatever thread resets the monitor and whenever: a pose, an odometry and a
\* correction, of which nothing is left from before.  A sample of an old session
\* that is published or delivered after the reset counts as evidence here, as it
\* does in the code.
ValidHasEvidence ==
  poseValid =>
    /\ level \in {"LOCALIZED", "DEGRADED"}
    /\ \A i \in {"odometry", "pose", "correction"} : age[i] # "never"

\* The three counters, their resets and the order of the tests move the level
\* and pose_valid exactly as the runs of verdicts in QualityHysteresis say.
ImplementsHysteresis == Promise!Spec

\* A localization that has stopped to send is called LOST, also when its process
\* lives and all other inputs keep coming.
SilenceIsLost ==
  <>[](context # "off" /\ age["odometry"] = "stale") => <>[](level = "LOST" /\ ~poseValid)

==============================================================================
