----------------------------- MODULE ProcessSlots -----------------------------
(***************************************************************************)
(* What ProcessManager promises, without pids, signals and reaping: a name  *)
(* has at most one live process, and a stop that is answered with success   *)
(* was called while a process lived and that very process is dead, even if  *)
(* the name has been started anew meanwhile.                                *)
(***************************************************************************)
CONSTANTS Names, Callers

VARIABLES
  live,     \* the names whose process lives
  awaits,   \* of each caller, the name whose process its stop waits for, if it lives
  answer    \* of each caller: "none", "pending", "stopped" or "failed"

vars == <<live, awaits, answer>>

Init ==
  /\ live = {}
  /\ awaits = [c \in Callers |-> {}]
  /\ answer = [c \in Callers |-> "none"]

Start(n) == n \notin live /\ live' = live \cup {n} /\ UNCHANGED <<awaits, answer>>

\* The process of n dies, and no stop waits for it any more.
Die(n) ==
  /\ n \in live /\ live' = live \ {n}
  /\ awaits' = [c \in Callers |-> awaits[c] \ {n}]
  /\ UNCHANGED answer

Stop(c) ==
  /\ answer[c] = "none" /\ answer' = [answer EXCEPT ![c] = "pending"]
  /\ \E n \in live : awaits' = [awaits EXCEPT ![c] = {n}]
  /\ UNCHANGED live

Answer(c, with) ==
  /\ answer' = [answer EXCEPT ![c] = with]
  /\ awaits' = [awaits EXCEPT ![c] = {}]
  /\ UNCHANGED live

Succeed(c) == answer[c] = "pending" /\ awaits[c] = {} /\ Answer(c, "stopped")

\* Nothing to stop, or a process that outlived every signal.
Fail(c) == answer[c] \in {"none", "pending"} /\ Answer(c, "failed")

Return(c) == answer[c] \in {"stopped", "failed"} /\ Answer(c, "none")

Next ==
  \/ \E n \in Names : Start(n) \/ Die(n)
  \/ \E c \in Callers : Stop(c) \/ Succeed(c) \/ Fail(c) \/ Return(c)

Spec == Init /\ [][Next]_vars

==============================================================================
