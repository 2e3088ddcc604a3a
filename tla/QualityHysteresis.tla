-------------------------- MODULE QualityHysteresis --------------------------
(***************************************************************************)
(* What the quality status promises a consumer of /localization/status,     *)
(* said about the evaluations themselves and without any counter: a level   *)
(* is changed only by an unbroken run of evaluations of the right kind, and *)
(* a pose is valid only in a usable level and after an evaluation without a *)
(* fault.                                                                   *)
(***************************************************************************)
EXTENDS Naturals, Sequences

CONSTANTS BadToDegraded, BadToLost, GoodToRecover,
          Memory    \* how many evaluations frames remembers

VARIABLES
  level,      \* "UNKNOWN", "LOCALIZED", "DEGRADED" or "LOST"
  poseValid,
  frames      \* the latest verdicts since the last reset or inactive evaluation

vars == <<level, poseValid, frames>>

\* A fault, a confidence under the lower threshold, one between the two
\* thresholds, and one above both.
Verdicts == {"fault", "bad", "weak", "good"}

Init == level = "UNKNOWN" /\ poseValid = FALSE /\ frames = << >>

\* The last n verdicts of s all lie in kinds.
EndsIn(s, n, kinds) ==
  /\ Len(s) >= n
  /\ \A i \in (Len(s) - n + 1)..Len(s) : s[i] \in kinds

\* s with one more verdict, cut to what is remembered.
Remember(s, v) ==
  IF Len(s) < Memory THEN Append(s, v) ELSE Append(Tail(s), v)

LevelAfter(s) ==
  IF EndsIn(s, BadToLost, {"fault", "bad"}) THEN "LOST"
  ELSE IF level \in {"UNKNOWN", "LOCALIZED"} /\ EndsIn(s, BadToDegraded, Verdicts \ {"good"})
       THEN "DEGRADED"
  ELSE IF EndsIn(s, GoodToRecover, {"good"}) THEN "LOCALIZED"
  ELSE level

Judge(v) ==
  /\ frames' = Remember(frames, v)
  /\ level' = LevelAfter(frames')
  /\ poseValid' = (level' \in {"LOCALIZED", "DEGRADED"} /\ v # "fault")

\* A reset, or an evaluation while localization is not initialized.
Break == frames' = << >> /\ level' = "UNKNOWN" /\ poseValid' = FALSE

Next == Break \/ \E v \in Verdicts : Judge(v)

Spec == Init /\ [][Next]_vars

==============================================================================
