------------------------------ MODULE SlamModes ------------------------------
(***************************************************************************)
(* What the system manager promises about its SLAM processes, without its   *)
(* threads, its sensors or its error codes: there is one slot, operations   *)
(* take turns, a process starts only in an operation and only into an empty *)
(* slot, and the system goes back to idle only when the slot is empty.      *)
(***************************************************************************)
CONSTANTS
  Processes,    \* the SLAM processes; a mode other than "idle" and "failed"
  AutoStart     \* processes that may run before the first operation

VARIABLES
  mode,   \* what the system is doing: "idle", "failed" or a process
  busy,   \* whether an operation is in progress
  live    \* the SLAM processes that run

vars == <<mode, busy, live>>

Modes == Processes \cup {"idle", "failed"}

Init ==
  /\ mode \in {"idle", "failed"}
  /\ busy = FALSE
  /\ live \in SUBSET AutoStart

Begin ==
  /\ ~busy /\ busy' = TRUE
  /\ UNCHANGED <<mode, live>>

\* An operation ends; what it leaves running is the process of the mode, or
\* a process a failed system has yet to stop.
End ==
  /\ busy /\ busy' = FALSE
  /\ \/ mode = "failed"
     \/ live \subseteq AutoStart \cup {mode}
  /\ UNCHANGED <<mode, live>>

\* The one way a process starts.
Start(p) ==
  /\ busy /\ live = {} /\ mode \in {p, "failed"}
  /\ live' = {p}
  /\ UNCHANGED <<mode, busy>>

Exit(p) ==
  /\ p \in live /\ live' = live \ {p}
  /\ UNCHANGED <<mode, busy>>

\* A failure may come at any time, in an operation or outside.
Fail ==
  /\ mode # "failed" /\ mode' = "failed"
  /\ UNCHANGED <<busy, live>>

\* Only an operation changes the mode otherwise, and it enters idle only when
\* it has emptied the slot.
Change ==
  /\ busy
  /\ mode' \in Modes \ {mode, "failed"}
  /\ (mode' = "idle" => live = {})
  /\ UNCHANGED <<busy, live>>

Next == Begin \/ End \/ (\E p \in Processes : Start(p) \/ Exit(p)) \/ Fail \/ Change

Spec == Init /\ [][Next]_vars

==============================================================================
