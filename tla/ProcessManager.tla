---------------------------- MODULE ProcessManager ----------------------------
(***************************************************************************)
(* ProcessManager: a table of child processes, each the leader of a process *)
(* group of its own.  Starting, looking and reaping are sections under      *)
(* mutex_.  stopProcess copies the pid in one section and then signals and  *)
(* waits outside of it, while the monitor thread and other callers reap,    *)
(* and start again, under its eyes.                                         *)
(*                                                                          *)
(* The operating system gives any free pid to a new child.  Commands,       *)
(* substitutions, exit codes and texts are left out.                        *)
(***************************************************************************)
EXTENDS Naturals

CONSTANTS
  Names,    \* the names in process.yaml
  Pids,     \* what fork may return
  NoPid,    \* the pid -1 of a record without a child
  Callers   \* threads that may be in stopProcess, restartProcess or stopAll

ASSUME PidAssumption == NoPid \notin Pids

VARIABLES
  pidOf,      \* pid of each record
  \* the operating system
  leader,     \* of each pid: "free", "alive", "stuck" in the kernel after a
              \* SIGKILL, or "zombie", that is dead and not yet waited for
  members,    \* the pids whose group has other live processes
  \* the callers
  pc, goal,   \* where a call stands, and what it is: "stop", "restart" or "all"
  name, pid, sig,  \* the locals of stopProcess
  open,       \* history: the process the stop was called for has not died
  todo,       \* the names stopAll has still to visit
  phase       \* "up", "stopping" in stopAll, or "destroyed"

system == <<leader, members>>
callers == <<pc, goal, name, pid, sig, open, todo, phase>>
vars == <<pidOf, system, callers>>

Signals == {"SIGINT", "SIGTERM", "SIGKILL"}

Init ==
  /\ pidOf = [n \in Names |-> NoPid]
  /\ leader = [p \in Pids |-> "free"] /\ members = {}
  /\ pc = [c \in Callers |-> "idle"]
  /\ goal = [c \in Callers |-> "stop"]
  /\ name \in {[c \in Callers |-> n] : n \in Names}
  /\ pid = [c \in Callers |-> NoPid]
  /\ sig = [c \in Callers |-> "SIGINT"]
  /\ open = {}
  /\ todo = {} /\ phase = "up"

-----------------------------------------------------------------------------
(* refreshProcessLocked.                                                     *)

Running(n) == pidOf[n] # NoPid /\ leader[pidOf[n]] \in {"alive", "stuck"}

\* The records among ns whose child is dead and gets reaped by a look at them.
Dead(ns) == {n \in ns : pidOf[n] # NoPid /\ leader[pidOf[n]] = "zombie"}

PidOfAfter(ns) == [n \in Names |-> IF n \in Dead(ns) THEN NoPid ELSE pidOf[n]]

LeaderAfter(ns) ==
  [p \in Pids |-> IF \E n \in Dead(ns) : pidOf[n] = p THEN "free" ELSE leader[p]]

Refresh(ns) == pidOf' = PidOfAfter(ns) /\ leader' = LeaderAfter(ns)

-----------------------------------------------------------------------------
(* The operating system.                                                     *)

Spawn(p) ==
  /\ leader[p] = "alive" /\ members' = members \cup {p}
  /\ UNCHANGED <<pidOf, leader, callers>>

MembersExit(p) ==
  /\ p \in members /\ members' = members \ {p}
  /\ UNCHANGED <<pidOf, leader, callers>>

\* The stops that wait for the death of p have met it.
Met(p) == open' = {c \in open : pid[c] # p}

\* On its own, or because of SIGINT or SIGTERM, which it may also ignore.
LeaderExits(p) ==
  /\ leader[p] \in {"alive", "stuck"} /\ leader' = [leader EXCEPT ![p] = "zombie"]
  /\ Met(p)
  /\ UNCHANGED <<pidOf, members, pc, goal, name, pid, sig, todo, phase>>

-----------------------------------------------------------------------------
(* Looks, by the monitor thread and by anybody who asks.                     *)

\* Faulty: the loop ends at the first process that runs.
monitorLoopBreaks ==
  /\ phase # "destroyed" /\ (\A n \in Names : ~Running(n))
  /\ Refresh(Names)
  /\ UNCHANGED <<members, callers>>

monitorLoop ==
  /\ phase # "destroyed"
  /\ Refresh(Names)
  /\ UNCHANGED <<members, callers>>

isProcessRunning(n) ==
  /\ phase = "up"
  /\ Refresh({n})
  /\ UNCHANGED <<members, callers>>

\* fork gives the child a pid that is neither a process nor a group.
Fork(n) ==
  \E p \in Pids \ members :
    /\ LeaderAfter({n})[p] = "free"
    /\ pidOf' = [pidOf EXCEPT ![n] = p]
    /\ leader' = [LeaderAfter({n}) EXCEPT ![p] = "alive"]

\* Faulty: a process that runs is started again.
ForkAnyway(n) == Fork(n) \/ Refresh({n})

\* A process that runs, a command that does not expand, or a fork that fails
\* leaves it at the look.
ForkOrFail(n) == (~Running(n) /\ Fork(n)) \/ Refresh({n})

startProcess(n) ==
  /\ phase = "up"
  /\ ForkOrFail(n)
  /\ UNCHANGED <<members, callers>>

-----------------------------------------------------------------------------
(* stopProcess, and restartProcess and stopAll around it.                    *)

Goto(c, label) == pc' = [pc EXCEPT ![c] = label]

Call(c, n, g, label) ==
  /\ phase = "up" /\ pc[c] = "idle" /\ Goto(c, label)
  /\ name' = [name EXCEPT ![c] = n] /\ goal' = [goal EXCEPT ![c] = g]
  /\ UNCHANGED <<members, pid, sig, open, todo, phase>>

stopProcess(c, n) == Call(c, n, "stop", "look") /\ UNCHANGED <<pidOf, leader>>

restartProcess(c, n) ==
  /\ Refresh({n})
  /\ Call(c, n, "restart", IF Running(n) THEN "look" ELSE "start")

\* The section that copies the pid, or refuses.
LookIf(c, found) ==
  /\ pc[c] = "look"
  /\ Refresh({name[c]})
  /\ IF found
     THEN /\ Goto(c, "signal")
          /\ pid' = [pid EXCEPT ![c] = pidOf'[name[c]]]
          /\ sig' = [sig EXCEPT ![c] = "SIGINT"]
          /\ open' = open \cup {c}
     ELSE Goto(c, "failed") /\ UNCHANGED <<pid, sig, open>>
  /\ UNCHANGED <<members, goal, name, todo, phase>>

\* Faulty: the answer of the look is not used.
LookAnyway(c) == LookIf(c, TRUE)

Look(c) == LookIf(c, Running(name[c]))

\* kill(-pid) outside the mutex.  The first two signals only ask; SIGKILL ends
\* the group, except for a leader that is stuck in the kernel.
SignalGroup(c) ==
  /\ pc[c] = "signal" /\ Goto(c, "wait")
  /\ IF sig[c] # "SIGKILL" \/ leader[pid[c]] = "free"
     THEN UNCHANGED <<leader, open>>
     ELSE \/ /\ leader[pid[c]] # "zombie" /\ leader' = [leader EXCEPT ![pid[c]] = "stuck"]
             /\ UNCHANGED open
          \/ leader' = [leader EXCEPT ![pid[c]] = "zombie"] /\ Met(pid[c])
  /\ members' = IF sig[c] = "SIGKILL" THEN members \ {pid[c]} ELSE members
  /\ UNCHANGED <<pidOf, goal, name, pid, sig, todo, phase>>

\* waitForExit, a look that finds the process gone or replaced.
WaitSucceeds(c) ==
  /\ pc[c] = "wait"
  /\ pidOf[name[c]] # pid[c] \/ ~Running(name[c])
  /\ IF pidOf[name[c]] = pid[c] THEN Refresh({name[c]}) ELSE UNCHANGED <<pidOf, leader>>
  /\ Goto(c, "stopped")
  /\ UNCHANGED <<members, goal, name, pid, sig, open, todo, phase>>

\* waitForExit, the deadline after a look that finds it running: escalate.
WaitTimesOutAs(c, answer) ==
  /\ pc[c] = "wait"
  /\ pidOf[name[c]] = pid[c] /\ Running(name[c])
  /\ \/ /\ sig[c] # "SIGKILL" /\ Goto(c, "signal")
        /\ sig' = [sig EXCEPT ![c] = IF sig[c] = "SIGINT" THEN "SIGTERM" ELSE "SIGKILL"]
        /\ UNCHANGED open
     \/ /\ sig[c] = "SIGKILL" /\ Goto(c, answer)
        /\ open' = open \ {c}
        /\ UNCHANGED sig
  /\ UNCHANGED <<pidOf, system, goal, name, pid, todo, phase>>

\* Faulty: after SIGKILL the process is believed to be gone; it is waited for
\* without a deadline.
WaitBelievesKill(c) == WaitTimesOutAs(c, "stopped")

WaitForever(c) == sig[c] # "SIGKILL" /\ WaitTimesOutAs(c, "failed")

WaitTimesOut(c) == WaitTimesOutAs(c, "failed")

\* The call ends, or restartProcess or stopAll goes on.
ReturnLeaving(c, afterFailure) ==
  /\ pc[c] \in {"stopped", "failed"}
  /\ Goto(c, CASE goal[c] = "restart" /\ pc[c] = "stopped" -> "start"
               [] goal[c] = "all" -> "next"
               [] OTHER -> "idle")
  /\ pid' = [pid EXCEPT ![c] = NoPid] /\ sig' = [sig EXCEPT ![c] = "SIGINT"]
  /\ todo' = IF pc[c] = "failed" THEN afterFailure ELSE todo
  /\ UNCHANGED <<pidOf, system, goal, name, open, phase>>

\* Faulty: stopAll gives up at the first stop that fails.
ReturnGivesUp(c) == ReturnLeaving(c, {})

Return(c) == ReturnLeaving(c, todo)

RestartStarts(c) ==
  /\ pc[c] = "start" /\ Goto(c, "idle")
  /\ ForkOrFail(name[c])
  /\ UNCHANGED <<members, goal, name, pid, sig, open, todo, phase>>

\* The destructor: nobody else is in a call any more, and none follows.
stopAll(c) ==
  /\ phase = "up" /\ phase' = "stopping"
  /\ (\A d \in Callers : pc[d] = "idle")
  /\ Goto(c, "next") /\ goal' = [goal EXCEPT ![c] = "all"] /\ todo' = Names
  /\ UNCHANGED <<pidOf, system, name, pid, sig, open>>

\* Visit the next name, or, when none is left, join the monitor thread.
StopAllVisits(c, n) ==
  /\ pc[c] = "next" /\ todo' = todo \ {n}
  /\ Refresh({n})
  /\ IF Running(n)
     THEN Goto(c, "look") /\ name' = [name EXCEPT ![c] = n]
     ELSE UNCHANGED <<pc, name>>
  /\ UNCHANGED <<members, goal, pid, sig, open, phase>>

Destroy(c) ==
  /\ pc[c] = "next" /\ todo = {}
  /\ Goto(c, "idle") /\ phase' = "destroyed"
  /\ UNCHANGED <<pidOf, system, goal, name, pid, sig, open, todo>>

-----------------------------------------------------------------------------
System == \E p \in Pids : Spawn(p) \/ MembersExit(p) \/ LeaderExits(p)

CallerBegins(c) ==
  (\E n \in Names : stopProcess(c, n) \/ restartProcess(c, n)) \/ stopAll(c)

CallerStep(c) ==
  \/ Look(c) \/ SignalGroup(c) \/ WaitSucceeds(c) \/ WaitTimesOut(c) \/ Return(c)
  \/ RestartStarts(c) \/ (\E n \in todo : StopAllVisits(c, n)) \/ Destroy(c)

Next ==
  \/ System
  \/ monitorLoop
  \/ \E n \in Names : isProcessRunning(n) \/ startProcess(n)
  \/ \E c \in Callers : CallerBegins(c) \/ CallerStep(c)

Spec == Init /\ [][Next]_vars

\* The threads run; every wait has a deadline.  Nothing is asked of children.
MonitorRuns == WF_vars(monitorLoop)

CallerRuns(c) == WF_vars(CallerStep(c))

FairSpec == Spec /\ MonitorRuns /\ \A c \in Callers : CallerRuns(c)

-----------------------------------------------------------------------------
(* Properties.                                                               *)

\* Type invariant.  A signal always has a pid to go to: kill(-NoPid) would
\* reach every process.
ProcTypeOK ==
  /\ pidOf \in [Names -> Pids \cup {NoPid}]
  /\ leader \in [Pids -> {"free", "alive", "stuck", "zombie"}]
  /\ members \in SUBSET Pids
  /\ pc \in [Callers -> {"idle", "look", "signal", "wait", "stopped", "failed", "start", "next"}]
  /\ goal \in [Callers -> {"stop", "restart", "all"}]
  /\ name \in [Callers -> Names] /\ pid \in [Callers -> Pids \cup {NoPid}]
  /\ sig \in [Callers -> Signals]
  /\ open \in SUBSET Callers /\ todo \in SUBSET Names
  /\ phase \in {"up", "stopping", "destroyed"}
  /\ \A c \in Callers : pc[c] \in {"signal", "wait"} => pid[c] # NoPid

\* Records and unreaped children are the same, one to one, whoever looks, stops
\* or starts in between: no child is lost, none is waited for by two records, and
\* waitpid never answers ECHILD.
RecordsAreChildren ==
  /\ \A n \in Names : pidOf[n] # NoPid => leader[pidOf[n]] # "free"
  /\ \A n, m \in Names : pidOf[n] = pidOf[m] /\ pidOf[n] # NoPid => n = m
  /\ \A p \in Pids : leader[p] # "free" => \E n \in Names : pidOf[n] = p

Live == {n \in Names : Running(n)}

Awaits == [c \in Callers |-> IF c \in open THEN {name[c]} ELSE {}]

AnswerOf ==
  [c \in Callers |-> CASE pc[c] \in {"signal", "wait"} -> "pending"
                       [] pc[c] \in {"stopped", "failed"} -> pc[c]
                       [] OTHER -> "none"]

Slots == INSTANCE ProcessSlots WITH live <- Live, awaits <- Awaits, answer <- AnswerOf

\* A stop that succeeds has outlived the process it was called for, also when
\* somebody else reaps it, starts the name again or gets its pid for another name
\* while the stop signals and waits outside the mutex.
ImplementsSlots == Slots!Spec

\* The destructor leaves behind no child that SIGKILL could have ended, although
\* single stops of it may fail.
DestructionLeavesNone ==
  phase = "destroyed" => \A p \in Pids : leader[p] # "alive"

\* Nobody waits for anybody: a call that has begun can go on in every state of
\* the table and of the processes, other calls and the destructor included, and
\* a dead child is always one the monitor thread would reap.
CallsMayGoOn ==
  /\ \A c \in Callers : pc[c] # "idle" => ENABLED <<CallerStep(c)>>_vars
  /\ \A p \in Pids :
       leader[p] = "zombie" /\ phase # "destroyed" => ENABLED <<monitorLoop>>_vars

StopOf(c) == pc[c] \in {"look", "signal", "wait"} ~> pc[c] \in {"stopped", "failed"}

\* Every stop is answered, whatever the process does about the signals.
StopEnds == \A c \in Callers : StopOf(c)

ExitOf(p) == leader[p] = "zombie" ~> (leader[p] # "zombie" \/ phase = "destroyed")

\* The exit of a child is reaped although nobody asks for it, unless the manager
\* itself ends.
ExitIsReaped == \A p \in Pids : ExitOf(p)

\* phase1_to_phase6_commands.md: stop_localization stops the complete process
\* group.  Only its leader is waited for: when that one dies of SIGINT, the
\* others are neither waited for nor signalled again.
StopEndsGroup == \A c \in Callers : pc[c] = "stopped" => pid[c] \notin members

==============================================================================
