------------------------- MODULE ProcessManagerProofs -------------------------
(***************************************************************************)
(* Proofs about ProcessManager for any names, pids and callers: its types,   *)
(* that records and children are the same, that a stop which succeeds has    *)
(* outlived its process (the refinement of ProcessSlots), what the           *)
(* destructor leaves, and that every stop and every exit is dealt with.      *)
(***************************************************************************)
EXTENDS ProcessManager, TLAPS

Lives(p) == leader[p] \in {"alive", "stuck"}

\* A stop whose process has not died still has the record it copied.
OpenIsLive ==
  \A c \in open :
    /\ pc[c] \in {"signal", "wait"}
    /\ pidOf[name[c]] = pid[c] /\ Lives(pid[c])

TableInv == ProcTypeOK /\ RecordsAreChildren /\ OpenIsLive

-----------------------------------------------------------------------------
(* The sections under the mutex.                                             *)

\* A look reaps the dead and moves nothing else.
LEMMA RefreshKeeps ==
  ASSUME ProcTypeOK, RecordsAreChildren, NEW ns \in SUBSET Names, Refresh(ns)
  PROVE  /\ pidOf' \in [Names -> Pids \cup {NoPid}]
         /\ leader' \in [Pids -> {"free", "alive", "stuck", "zombie"}]
         /\ RecordsAreChildren'
         /\ \A n \in Names : /\ pidOf'[n] \in {pidOf[n], NoPid}
                             /\ Running(n) => pidOf'[n] = pidOf[n]
         /\ \A p \in Pids : /\ Lives(p) => leader'[p] = leader[p]
                            /\ ~Lives(p) => leader'[p] \in {"free", "zombie"}
<1> USE DEF ProcTypeOK, RecordsAreChildren, Refresh, PidOfAfter, LeaderAfter, Dead, Running, Lives
<1>1. /\ pidOf' \in [Names -> Pids \cup {NoPid}]
      /\ leader' \in [Pids -> {"free", "alive", "stuck", "zombie"}]
      /\ \A n \in Names : /\ pidOf'[n] \in {pidOf[n], NoPid}
                          /\ Running(n) => pidOf'[n] = pidOf[n]
  BY PidAssumption
<1>2. ASSUME NEW p \in Pids
      PROVE  /\ Lives(p) => leader'[p] = leader[p]
             /\ ~Lives(p) => leader'[p] \in {"free", "zombie"}
  BY PidAssumption
<1>3. ASSUME NEW n \in Names, pidOf'[n] # NoPid
      PROVE  leader'[pidOf'[n]] # "free"
  BY <1>3, PidAssumption
<1>4. ASSUME NEW p \in Pids, leader'[p] # "free"
      PROVE  \E n \in Names : pidOf'[n] = p
  BY <1>4, PidAssumption
<1>5. ASSUME NEW n \in Names, NEW m \in Names, pidOf'[n] = pidOf'[m], pidOf'[n] # NoPid
      PROVE  n = m
  BY <1>1, <1>5, PidAssumption
<1> QED
  BY <1>1, <1>2, <1>3, <1>4, <1>5

\* A start into an empty record gives it a child of its own.
LEMMA ForkKeeps ==
  ASSUME ProcTypeOK, RecordsAreChildren, NEW n \in Names, ForkOrFail(n)
  PROVE  /\ pidOf' \in [Names -> Pids \cup {NoPid}]
         /\ leader' \in [Pids -> {"free", "alive", "stuck", "zombie"}]
         /\ RecordsAreChildren'
         /\ \A m \in Names : Running(m) => pidOf'[m] = pidOf[m]
         /\ \A p \in Pids : Lives(p) => leader'[p] = leader[p]
         /\ \A m \in Names \ {n} : pidOf'[m] = pidOf[m]
         /\ \A p \in Pids :
              leader'[p] # leader[p] =>
                \/ p = pidOf[n] /\ leader'[p] = "free"
                \/ p = pidOf'[n] /\ leader'[p] = "alive" /\ ~Running(n)
<1>1. CASE Refresh({n})
  <2>1. {n} \in SUBSET Names
    OBVIOUS
  <2>2. /\ \A m \in Names \ {n} : pidOf'[m] = pidOf[m]
        /\ \A p \in Pids : leader'[p] # leader[p] => p = pidOf[n] /\ leader'[p] = "free"
    BY <1>1 DEF Refresh, PidOfAfter, LeaderAfter, Dead, ProcTypeOK
  <2> QED
    BY <1>1, <2>1, <2>2, RefreshKeeps
<1>2. CASE ~Running(n) /\ Fork(n)
  <2> USE DEF ProcTypeOK, RecordsAreChildren, LeaderAfter, Dead, Running, Lives
  <2>1. PICK p \in Pids \ members :
          /\ LeaderAfter({n})[p] = "free"
          /\ pidOf' = [pidOf EXCEPT ![n] = p]
          /\ leader' = [LeaderAfter({n}) EXCEPT ![p] = "alive"]
    BY <1>2 DEF Fork
  <2>2. leader[p] = "free" \/ (leader[p] = "zombie" /\ pidOf[n] = p)
    BY <2>1
  <2>3. \A m \in Names \ {n} : pidOf[m] # p
    BY <2>1, <2>2, PidAssumption
  <2>4. \A q \in Pids \ {p} :
          leader'[q] = IF pidOf[n] = q /\ leader[q] = "zombie" THEN "free" ELSE leader[q]
    BY <2>1, PidAssumption
  <2>5. /\ pidOf' \in [Names -> Pids \cup {NoPid}]
        /\ leader' \in [Pids -> {"free", "alive", "stuck", "zombie"}]
        /\ leader'[p] = "alive" /\ pidOf'[n] = p
        /\ \A m \in Names \ {n} : pidOf'[m] = pidOf[m]
    BY <2>1
  <2>6. pidOf[n] # NoPid => leader[pidOf[n]] = "zombie"
    BY <1>2
  <2>7. ASSUME NEW m \in Names, pidOf'[m] # NoPid
        PROVE  leader'[pidOf'[m]] # "free"
    <3>1. CASE m = n
      BY <2>5, <3>1
    <3>2. CASE m # n
      <4>1. pidOf[m] \in Pids \ {p} /\ leader[pidOf[m]] # "free" /\ pidOf[n] # pidOf[m]
        BY <2>3, <2>5, <2>7, <3>2
      <4> QED
        BY <2>4, <2>5, <3>2, <4>1
    <3> QED
      BY <3>1, <3>2
  <2>8. ASSUME NEW l \in Names, NEW m \in Names, pidOf'[l] = pidOf'[m], pidOf'[l] # NoPid
        PROVE  l = m
    BY <2>3, <2>5, <2>8
  <2>9. ASSUME NEW q \in Pids, leader'[q] # "free"
        PROVE  \E m \in Names : pidOf'[m] = q
    <3>1. CASE q = p
      BY <2>5, <3>1
    <3>2. CASE q # p
      <4>1. leader[q] # "free" /\ ~(pidOf[n] = q /\ leader[q] = "zombie")
        BY <2>4, <2>9, <3>2
      <4>2. PICK m \in Names : pidOf[m] = q
        BY <4>1
      <4>3. m # n
        BY <2>6, <4>1, <4>2, PidAssumption
      <4> QED
        BY <2>5, <4>2, <4>3
    <3> QED
      BY <3>1, <3>2
  <2>10. /\ \A m \in Names : Running(m) => pidOf'[m] = pidOf[m]
         /\ \A q \in Pids : Lives(q) => leader'[q] = leader[q]
    BY <1>2, <2>2, <2>4, <2>5
  <2>11. \A q \in Pids :
           leader'[q] # leader[q] =>
             \/ q = pidOf[n] /\ leader'[q] = "free"
             \/ q = pidOf'[n] /\ leader'[q] = "alive" /\ ~Running(n)
    BY <1>2, <2>4, <2>5
  <2>12. RecordsAreChildren'
    BY <2>7, <2>8, <2>9
  <2> QED
    BY <2>5, <2>10, <2>11, <2>12
<1> QED
  BY <1>1, <1>2 DEF ForkOrFail

\* A leader that is hit or dies stays the child it was.
LEMMA DeathKeeps ==
  ASSUME ProcTypeOK, RecordsAreChildren, NEW p \in Pids, leader[p] # "free",
         NEW s \in {"stuck", "zombie"}, leader' = [leader EXCEPT ![p] = s], UNCHANGED pidOf
  PROVE  RecordsAreChildren'
BY PidAssumption DEF ProcTypeOK, RecordsAreChildren

\* What a stop waits for is left alone by every section that keeps the records
\* and the leaders of running processes.
LEMMA OpenKept ==
  ASSUME TableInv,
         \A n \in Names : Running(n) => pidOf'[n] = pidOf[n],
         \A p \in Pids : Lives(p) => leader'[p] = leader[p],
         UNCHANGED <<open, pid, name>>, \A c \in open : pc'[c] = pc[c]
  PROVE  OpenIsLive'
BY DEF TableInv, OpenIsLive, ProcTypeOK, Running, Lives

-----------------------------------------------------------------------------
(* The table invariant.                                                      *)

LEMMA InitTable == Init => TableInv
<1> SUFFICES ASSUME Init PROVE TableInv
  OBVIOUS
<1>1. ProcTypeOK
  <2>1. name \in [Callers -> Names]
    BY DEF Init
  <2> QED
    BY <2>1 DEF Init, ProcTypeOK, Signals
<1>2. RecordsAreChildren /\ OpenIsLive
  BY DEF Init, RecordsAreChildren, OpenIsLive
<1> QED
  BY <1>1, <1>2 DEF TableInv

LEMMA SystemTable ==
  ASSUME TableInv, System PROVE TableInv'
<1> USE DEF TableInv
<1>1. ASSUME NEW p \in Pids, Spawn(p) \/ MembersExit(p) PROVE TableInv'
  BY <1>1 DEF Spawn, MembersExit, callers, ProcTypeOK, RecordsAreChildren, OpenIsLive, Lives
<1>2. ASSUME NEW p \in Pids, LeaderExits(p) PROVE TableInv'
  <2>1. ProcTypeOK'
    BY <1>2 DEF LeaderExits, Met, ProcTypeOK
  <2>2. RecordsAreChildren'
    BY <1>2, DeathKeeps DEF LeaderExits
  <2>3. OpenIsLive'
    BY <1>2 DEF LeaderExits, Met, OpenIsLive, Lives, ProcTypeOK
  <2> QED
    BY <2>1, <2>2, <2>3
<1> QED
  BY <1>1, <1>2 DEF System

LEMMA LookTable ==
  ASSUME TableInv, monitorLoop \/ \E n \in Names : isProcessRunning(n) \/ startProcess(n)
  PROVE  TableInv'
<1> USE DEF TableInv
<1>1. ASSUME NEW ns \in SUBSET Names, Refresh(ns), UNCHANGED <<members, callers>>
      PROVE  TableInv'
  <2>1. ProcTypeOK' /\ RecordsAreChildren'
    BY <1>1, RefreshKeeps DEF callers, ProcTypeOK
  <2>2. OpenIsLive'
    BY <1>1, RefreshKeeps, OpenKept DEF callers
  <2> QED
    BY <2>1, <2>2
<1>2. ASSUME NEW n \in Names, ForkOrFail(n), UNCHANGED <<members, callers>>
      PROVE  TableInv'
  <2>1. ProcTypeOK' /\ RecordsAreChildren'
    BY <1>2, ForkKeeps DEF callers, ProcTypeOK
  <2>2. OpenIsLive'
    BY <1>2, ForkKeeps, OpenKept DEF callers
  <2> QED
    BY <2>1, <2>2
<1>3. \A n \in Names : {n} \in SUBSET Names
  OBVIOUS
<1> QED
  BY <1>1, <1>2, <1>3 DEF monitorLoop, isProcessRunning, startProcess

LEMMA BeginTable ==
  ASSUME TableInv, NEW c \in Callers, CallerBegins(c) PROVE TableInv'
<1> USE DEF TableInv, Goto
<1>1. pc[c] = "idle" => c \notin open
  BY DEF OpenIsLive
<1>2. ASSUME NEW n \in Names, stopProcess(c, n) PROVE TableInv'
  BY <1>1, <1>2 DEF stopProcess, Call, ProcTypeOK, RecordsAreChildren, OpenIsLive, Lives
<1>3. ASSUME NEW n \in Names, restartProcess(c, n) PROVE TableInv'
  <2>1. {n} \in SUBSET Names
    OBVIOUS
  <2>2. /\ Refresh({n}) /\ pc[c] = "idle"
        /\ \E label \in {"look", "start"} : pc' = [pc EXCEPT ![c] = label]
        /\ name' = [name EXCEPT ![c] = n] /\ goal' = [goal EXCEPT ![c] = "restart"]
        /\ UNCHANGED <<members, pid, sig, open, todo, phase>>
    BY <1>3 DEF restartProcess, Call
  <2>3. ProcTypeOK' /\ RecordsAreChildren'
    BY <2>1, <2>2, RefreshKeeps DEF ProcTypeOK
  <2>4. OpenIsLive'
    BY <1>1, <2>1, <2>2, RefreshKeeps DEF ProcTypeOK, OpenIsLive, Running, Lives
  <2> QED
    BY <2>3, <2>4
<1>4. ASSUME stopAll(c) PROVE TableInv'
  BY <1>1, <1>4 DEF stopAll, system, ProcTypeOK, RecordsAreChildren, OpenIsLive, Lives
<1> QED
  BY <1>2, <1>3, <1>4 DEF CallerBegins

LEMMA CallerTable ==
  ASSUME TableInv, NEW c \in Callers, CallerStep(c) PROVE TableInv'
<1> USE DEF TableInv, Goto, Signals
<1>1. pc[c] \notin {"signal", "wait"} => c \notin open
  BY DEF OpenIsLive
<1>2. {name[c]} \in SUBSET Names /\ name[c] \in Names
  BY DEF ProcTypeOK
<1>3. CASE Look(c)
  <2>1. pc[c] = "look" /\ Refresh({name[c]}) /\ UNCHANGED <<members, goal, name, todo, phase>>
    BY <1>3 DEF Look, LookIf
  <2>2. CASE Running(name[c])
    <3>1. /\ pc' = [pc EXCEPT ![c] = "signal"]
          /\ pid' = [pid EXCEPT ![c] = pidOf'[name[c]]]
          /\ sig' = [sig EXCEPT ![c] = "SIGINT"] /\ open' = open \cup {c}
      BY <1>3, <2>2 DEF Look, LookIf
    <3>2. pidOf'[name[c]] = pidOf[name[c]] /\ pidOf[name[c]] \in Pids
      BY <1>2, <2>1, <2>2, RefreshKeeps DEF Running, ProcTypeOK
    <3>3. ProcTypeOK' /\ RecordsAreChildren'
      BY <1>2, <2>1, <3>1, <3>2, RefreshKeeps, PidAssumption DEF ProcTypeOK
    <3>4. OpenIsLive'
      BY <1>2, <2>1, <2>2, <3>1, <3>2, RefreshKeeps DEF ProcTypeOK, OpenIsLive, Running, Lives
    <3> QED
      BY <3>3, <3>4
  <2>3. CASE ~Running(name[c])
    <3>1. pc' = [pc EXCEPT ![c] = "failed"] /\ UNCHANGED <<pid, sig, open>>
      BY <1>3, <2>3 DEF Look, LookIf
    <3>2. ProcTypeOK' /\ RecordsAreChildren'
      BY <1>2, <2>1, <3>1, RefreshKeeps DEF ProcTypeOK
    <3>3. OpenIsLive'
      BY <1>1, <1>2, <2>1, <3>1, RefreshKeeps, OpenKept DEF ProcTypeOK
    <3> QED
      BY <3>2, <3>3
  <2> QED
    BY <2>2, <2>3
<1>4. CASE SignalGroup(c)
  <2>1. /\ pc[c] = "signal" /\ pc' = [pc EXCEPT ![c] = "wait"]
        /\ pid[c] \in Pids
        /\ members' \in SUBSET Pids
        /\ UNCHANGED <<pidOf, goal, name, pid, sig, todo, phase>>
    BY <1>4 DEF SignalGroup, ProcTypeOK
  <2>2. \/ UNCHANGED <<leader, open>>
        \/ /\ leader[pid[c]] # "free"
           /\ leader' = [leader EXCEPT ![pid[c]] = "stuck"] /\ leader[pid[c]] # "zombie"
           /\ UNCHANGED open
        \/ /\ leader[pid[c]] # "free"
           /\ leader' = [leader EXCEPT ![pid[c]] = "zombie"] /\ Met(pid[c])
    BY <1>4 DEF SignalGroup
  <2>3. ProcTypeOK'
    BY <2>1, <2>2 DEF Met, ProcTypeOK
  <2>4. RecordsAreChildren'
    <3>1. CASE UNCHANGED leader
      BY <2>1, <3>1 DEF RecordsAreChildren
    <3> QED
      BY <2>1, <2>2, <3>1, DeathKeeps
  <2>5. OpenIsLive'
    BY <2>1, <2>2 DEF Met, OpenIsLive, Lives, ProcTypeOK
  <2> QED
    BY <2>3, <2>4, <2>5
<1>5. CASE WaitSucceeds(c)
  <2>1. /\ pc[c] = "wait" /\ pc' = [pc EXCEPT ![c] = "stopped"]
        /\ pidOf[name[c]] # pid[c] \/ ~Running(name[c])
        /\ UNCHANGED <<members, goal, name, pid, sig, open, todo, phase>>
        /\ Refresh({name[c]}) \/ UNCHANGED <<pidOf, leader>>
    BY <1>5 DEF WaitSucceeds
  <2>2. c \notin open
    BY <1>2, <2>1, PidAssumption DEF OpenIsLive, Lives, Running, ProcTypeOK
  <2>3. CASE Refresh({name[c]})
    <3>1. ProcTypeOK' /\ RecordsAreChildren'
      BY <1>2, <2>1, <2>3, RefreshKeeps DEF ProcTypeOK
    <3>2. OpenIsLive'
      BY <1>2, <2>1, <2>2, <2>3, RefreshKeeps, OpenKept DEF ProcTypeOK
    <3> QED
      BY <3>1, <3>2
  <2>4. CASE UNCHANGED <<pidOf, leader>>
    BY <2>1, <2>2, <2>4 DEF ProcTypeOK, RecordsAreChildren, OpenIsLive, Lives
  <2> QED
    BY <2>1, <2>3, <2>4
<1>6. CASE WaitTimesOut(c)
  BY <1>6 DEF WaitTimesOut, WaitTimesOutAs, system, ProcTypeOK, RecordsAreChildren, OpenIsLive, Lives
<1>7. CASE Return(c)
  <2>1. /\ pc[c] \in {"stopped", "failed"}
        /\ \E label \in {"start", "next", "idle"} : pc' = [pc EXCEPT ![c] = label]
        /\ pid' = [pid EXCEPT ![c] = NoPid] /\ sig' = [sig EXCEPT ![c] = "SIGINT"]
        /\ UNCHANGED <<pidOf, leader, members, goal, name, open, todo, phase>>
    BY <1>7 DEF Return, ReturnLeaving, system
  <2> QED
    BY <1>1, <2>1 DEF ProcTypeOK, RecordsAreChildren, OpenIsLive, Lives
<1>8. CASE RestartStarts(c)
  <2>1. /\ pc[c] = "start" /\ pc' = [pc EXCEPT ![c] = "idle"] /\ ForkOrFail(name[c])
        /\ UNCHANGED <<members, goal, name, pid, sig, open, todo, phase>>
    BY <1>8 DEF RestartStarts
  <2>2. ProcTypeOK' /\ RecordsAreChildren'
    BY <1>2, <2>1, ForkKeeps DEF ProcTypeOK
  <2>3. OpenIsLive'
    BY <1>1, <1>2, <2>1, ForkKeeps, OpenKept DEF ProcTypeOK
  <2> QED
    BY <2>2, <2>3
<1>9. ASSUME NEW n \in todo, StopAllVisits(c, n) PROVE TableInv'
  <2>1. n \in Names /\ {n} \in SUBSET Names
    BY DEF ProcTypeOK
  <2>2. /\ pc[c] = "next" /\ todo' = todo \ {n} /\ Refresh({n})
        /\ \/ pc' = [pc EXCEPT ![c] = "look"] /\ name' = [name EXCEPT ![c] = n]
           \/ UNCHANGED <<pc, name>>
        /\ UNCHANGED <<members, goal, pid, sig, open, phase>>
    BY <1>9 DEF StopAllVisits
  <2>3. ProcTypeOK' /\ RecordsAreChildren'
    BY <2>1, <2>2, RefreshKeeps DEF ProcTypeOK
  <2>4. OpenIsLive'
    BY <1>1, <2>1, <2>2, RefreshKeeps DEF ProcTypeOK, OpenIsLive, Running, Lives
  <2> QED
    BY <2>3, <2>4
<1>10. CASE Destroy(c)
  BY <1>1, <1>10 DEF Destroy, system, ProcTypeOK, RecordsAreChildren, OpenIsLive, Lives
<1> QED
  BY <1>3, <1>4, <1>5, <1>6, <1>7, <1>8, <1>9, <1>10 DEF CallerStep

LEMMA NextTable == TableInv /\ [Next]_vars => TableInv'
<1> SUFFICES ASSUME TableInv, [Next]_vars PROVE TableInv'
  OBVIOUS
<1>1. CASE UNCHANGED vars
  BY <1>1 DEF vars, system, callers, TableInv, ProcTypeOK, RecordsAreChildren, OpenIsLive, Lives
<1> QED
  BY <1>1, SystemTable, LookTable, BeginTable, CallerTable DEF Next

\* The types are right, and every signal has a pid to go to.
THEOREM ProcTypesCorrect == Spec => []ProcTypeOK
<1>1. TableInv => ProcTypeOK
  BY DEF TableInv
<1> QED
  BY <1>1, InitTable, NextTable, PTL DEF Spec

\* No child is lost or shared, for any number of names, pids and callers.
THEOREM ChildrenAreRecorded == Spec => []RecordsAreChildren
<1>1. TableInv => RecordsAreChildren
  BY DEF TableInv
<1> QED
  BY <1>1, InitTable, NextTable, PTL DEF Spec

-----------------------------------------------------------------------------
(* The destructor.                                                           *)

\* Once the destructor has begun there is one caller, it is in stopAll, and no
\* restart is on its way; the list is empty when it ends.
OneStopper ==
  /\ \A c \in Callers : pc[c] = "start" => goal[c] = "restart"
  /\ \A c \in Callers : pc[c] = "next" => phase = "stopping" /\ goal[c] = "all"
  /\ \A c \in Callers : pc[c] # "idle" /\ phase # "up" => goal[c] = "all"
  /\ \A c \in Callers : pc[c] # "idle" /\ goal[c] = "all" => phase = "stopping"
  /\ phase = "destroyed" => todo = {}
  /\ \A c, d \in Callers : phase # "up" /\ pc[c] # "idle" /\ pc[d] # "idle" => c = d

\* Caller c has yet to send SIGKILL to the process it is stopping.
Tries(c) ==
  \/ pc[c] = "look"
  \/ /\ pc[c] = "signal" \/ (pc[c] = "wait" /\ sig[c] # "SIGKILL")
     /\ pid[c] = pidOf[name[c]]

Alive(n) == pidOf[n] # NoPid /\ leader[pidOf[n]] = "alive"

\* What still lives is still on the list, or in the hands of the stopper.
LivingAreListed ==
  phase # "up" =>
    \A n \in Names : Alive(n) => n \in todo \/ \E c \in Callers : name[c] = n /\ Tries(c)

DestructionInv == TableInv /\ OneStopper /\ LivingAreListed

LEMMA StopperStep == TableInv /\ OneStopper /\ [Next]_vars => OneStopper'
<1> SUFFICES ASSUME TableInv, OneStopper, [Next]_vars PROVE OneStopper'
  OBVIOUS
<1> USE DEF OneStopper, TableInv, ProcTypeOK, Goto
<1>1. CASE UNCHANGED <<pc, goal, phase, todo>>
  BY <1>1
<1>2. ASSUME NEW c \in Callers, CallerBegins(c) PROVE OneStopper'
  <2>1. ASSUME NEW n \in Names, stopProcess(c, n) \/ restartProcess(c, n) PROVE OneStopper'
    BY <2>1 DEF stopProcess, restartProcess, Call
  <2>2. CASE stopAll(c)
    BY <2>2 DEF stopAll
  <2> QED
    BY <1>2, <2>1, <2>2 DEF CallerBegins
<1>3. ASSUME NEW c \in Callers, CallerStep(c) PROVE OneStopper'
  <2>1. CASE Look(c) \/ SignalGroup(c) \/ WaitSucceeds(c) \/ WaitTimesOut(c)
    <3>1. /\ pc[c] \notin {"idle", "start", "next"} /\ UNCHANGED <<goal, phase, todo>>
          /\ \E label \in {"signal", "failed", "wait", "stopped"} :
               pc' = [pc EXCEPT ![c] = label]
      BY <2>1 DEF Look, LookIf, SignalGroup, WaitSucceeds, WaitTimesOut, WaitTimesOutAs
    <3> QED
      BY <3>1
  <2>2. CASE Return(c)
    <3>1. /\ pc[c] \in {"stopped", "failed"} /\ UNCHANGED <<goal, phase, todo>>
          /\ \/ goal[c] = "restart" /\ pc' = [pc EXCEPT ![c] = "start"]
             \/ goal[c] = "all" /\ pc' = [pc EXCEPT ![c] = "next"]
             \/ pc' = [pc EXCEPT ![c] = "idle"]
      BY <2>2 DEF Return, ReturnLeaving
    <3> QED
      BY <3>1
  <2>3. CASE RestartStarts(c)
    BY <2>3 DEF RestartStarts
  <2>4. ASSUME NEW n \in todo, StopAllVisits(c, n) PROVE OneStopper'
    <3>1. /\ pc[c] = "next" /\ UNCHANGED <<goal, phase>>
          /\ pc' = [pc EXCEPT ![c] = "look"] \/ UNCHANGED pc
      BY <2>4 DEF StopAllVisits
    <3> QED
      BY <3>1
  <2>5. CASE Destroy(c)
    BY <2>5 DEF Destroy
  <2> QED
    BY <1>3, <2>1, <2>2, <2>3, <2>4, <2>5 DEF CallerStep
<1> QED
  BY <1>1, <1>2, <1>3
  DEF Next, vars, System, Spawn, MembersExit, LeaderExits, monitorLoop, isProcessRunning,
      startProcess, callers

\* Outside the forks no process comes to life, and the record of one that lives
\* is not changed.
LEMMA NothingBorn ==
  ASSUME TableInv, OneStopper, [Next]_vars, phase # "up"
  PROVE  \A n \in Names : Alive(n)' => Alive(n) /\ pidOf'[n] = pidOf[n]
<1> USE DEF TableInv, ProcTypeOK, Alive, Lives, Running
<1>1. ASSUME NEW ns \in SUBSET Names, Refresh(ns)
      PROVE  \A n \in Names : Alive(n)' => Alive(n) /\ pidOf'[n] = pidOf[n]
  BY <1>1, RefreshKeeps, PidAssumption
<1>2. ASSUME UNCHANGED pidOf,
             \A p \in Pids : leader'[p] = "alive" => leader[p] = "alive"
      PROVE  \A n \in Names : Alive(n)' => Alive(n) /\ pidOf'[n] = pidOf[n]
  BY <1>2
<1>3. \A c \in Callers : ~RestartStarts(c)
  BY DEF RestartStarts, OneStopper
<1>4. ASSUME NEW c \in Callers, SignalGroup(c)
      PROVE  \A n \in Names : Alive(n)' => Alive(n) /\ pidOf'[n] = pidOf[n]
  <2>1. UNCHANGED pidOf /\ pid[c] \in Pids
    BY <1>4 DEF SignalGroup
  <2>2. \A p \in Pids : leader'[p] = "alive" => leader[p] = "alive"
    BY <1>4, <2>1 DEF SignalGroup
  <2> QED
    BY <1>2, <2>1, <2>2
<1>5. \A n \in Names : {n} \in SUBSET Names
  OBVIOUS
<1>6. CASE UNCHANGED vars \/ System
  BY <1>2, <1>6
  DEF vars, system, System, Spawn, MembersExit, LeaderExits
<1>7. CASE monitorLoop
  BY <1>1, <1>7 DEF monitorLoop
<1>8. ASSUME NEW c \in Callers, CallerBegins(c)
      PROVE  \A n \in Names : Alive(n)' => Alive(n) /\ pidOf'[n] = pidOf[n]
  BY <1>8 DEF CallerBegins, stopProcess, restartProcess, stopAll, Call
<1>9. ASSUME NEW c \in Callers, CallerStep(c)
      PROVE  \A n \in Names : Alive(n)' => Alive(n) /\ pidOf'[n] = pidOf[n]
  <2>1. CASE Look(c)
    BY <1>1, <1>5, <2>1 DEF Look, LookIf
  <2>2. CASE WaitSucceeds(c)
    BY <1>1, <1>2, <1>5, <2>2 DEF WaitSucceeds
  <2>3. CASE WaitTimesOut(c) \/ Return(c) \/ Destroy(c)
    BY <1>2, <2>3 DEF WaitTimesOut, WaitTimesOutAs, Return, ReturnLeaving, Destroy, system
  <2>4. ASSUME NEW n \in todo, StopAllVisits(c, n)
        PROVE  \A m \in Names : Alive(m)' => Alive(m) /\ pidOf'[m] = pidOf[m]
    BY <1>1, <1>5, <2>4 DEF StopAllVisits
  <2> QED
    BY <1>3, <1>4, <1>9, <2>1, <2>2, <2>3, <2>4 DEF CallerStep
<1> QED
  BY <1>6, <1>7, <1>8, <1>9 DEF Next, isProcessRunning, startProcess

LEMMA ListedStep == DestructionInv /\ [Next]_vars => LivingAreListed'
<1> SUFFICES ASSUME DestructionInv, [Next]_vars, phase' # "up",
                    NEW n \in Names, Alive(n)'
             PROVE  (n \in todo \/ \E c \in Callers : name[c] = n /\ Tries(c))'
  BY DEF LivingAreListed
<1> USE DEF DestructionInv, TableInv, ProcTypeOK, Goto
<1>1. CASE phase = "up"
  <2>1. PICK c \in Callers : stopAll(c)
    BY <1>1
    DEF Next, vars, System, Spawn, MembersExit, LeaderExits, monitorLoop, isProcessRunning,
        startProcess, callers, CallerBegins, CallerStep, stopProcess, restartProcess, Call, Look,
        LookIf, SignalGroup, WaitSucceeds, WaitTimesOut, WaitTimesOutAs, Return, ReturnLeaving,
        RestartStarts, StopAllVisits, Destroy, OneStopper
  <2> QED
    BY <2>1 DEF stopAll
<1>2. CASE phase # "up"
  <2>1. Alive(n) /\ pidOf'[n] = pidOf[n]
    BY <1>2, NothingBorn
  <2>2. n \in todo \/ \E c \in Callers : name[c] = n /\ Tries(c)
    BY <1>2, <2>1 DEF LivingAreListed
  <2>3. CASE UNCHANGED <<pc, name, pid, sig, todo>>
    BY <2>1, <2>2, <2>3 DEF Tries
  <2>4. ASSUME NEW d \in Callers, CallerStep(d)
        PROVE  (n \in todo \/ \E c \in Callers : name[c] = n /\ Tries(c))'
    <3> USE DEF Tries
    <3>1. CASE Look(d)
      <4>1. /\ pc[d] = "look" /\ Refresh({name[d]})
            /\ UNCHANGED <<name, todo>>
            /\ \A c \in Callers \ {d} :
                 pc'[c] = pc[c] /\ pid'[c] = pid[c] /\ sig'[c] = sig[c]
            /\ Running(name[d]) => pc'[d] = "signal" /\ pid'[d] = pidOf'[name[d]]
        BY <3>1 DEF Look, LookIf
      <4>2. name[d] = n => Running(name[d])
        BY <2>1 DEF Alive, Running
      <4> QED
        BY <2>1, <2>2, <4>1, <4>2
    <3>2. CASE SignalGroup(d)
      <4>1. /\ pc[d] = "signal" /\ pid[d] \in Pids
            /\ UNCHANGED <<pidOf, name, pid, sig, todo>>
            /\ pc' = [pc EXCEPT ![d] = "wait"]
        BY <3>2 DEF SignalGroup
      <4>2. sig[d] = "SIGKILL" => leader'[pid[d]] # "alive"
        BY <3>2, <4>1 DEF SignalGroup
      <4>3. name[d] = n /\ sig[d] = "SIGKILL" => pid[d] # pidOf[name[d]]
        BY <4>1, <4>2 DEF Alive
      <4> QED
        BY <2>1, <2>2, <4>1, <4>3
    <3>3. CASE WaitSucceeds(d)
      <4>1. /\ pc[d] = "wait" /\ UNCHANGED <<name, pid, sig, todo>>
            /\ pc' = [pc EXCEPT ![d] = "stopped"]
            /\ pidOf[name[d]] # pid[d] \/ ~Running(name[d])
        BY <3>3 DEF WaitSucceeds
      <4>2. name[d] = n => ~Tries(d)
        BY <2>1, <4>1 DEF Alive, Running
      <4> QED
        BY <2>1, <2>2, <4>1, <4>2
    <3>4. CASE WaitTimesOut(d)
      <4>1. /\ pc[d] = "wait" /\ UNCHANGED <<pidOf, name, pid, todo>>
            /\ \A c \in Callers \ {d} : pc'[c] = pc[c] /\ sig'[c] = sig[c]
            /\ sig[d] # "SIGKILL" => pc'[d] = "signal"
        BY <3>4 DEF WaitTimesOut, WaitTimesOutAs
      <4> QED
        BY <2>1, <2>2, <4>1
    <3>5. CASE Return(d)
      <4>1. /\ pc[d] \in {"stopped", "failed"} /\ UNCHANGED <<pidOf, name, todo>>
            /\ \A c \in Callers \ {d} :
                 pc'[c] = pc[c] /\ pid'[c] = pid[c] /\ sig'[c] = sig[c]
        BY <3>5 DEF Return, ReturnLeaving
      <4> QED
        BY <2>1, <2>2, <4>1
    <3>6. ASSUME NEW m \in todo, StopAllVisits(d, m)
          PROVE  (n \in todo \/ \E c \in Callers : name[c] = n /\ Tries(c))'
      <4>1. /\ pc[d] = "next" /\ todo' = todo \ {m} /\ UNCHANGED <<pid, sig>>
            /\ \A c \in Callers \ {d} : pc'[c] = pc[c] /\ name'[c] = name[c]
            /\ Running(m) => pc'[d] = "look" /\ name'[d] = m
        BY <3>6 DEF StopAllVisits
      <4>2. n = m => Running(m)
        BY <2>1 DEF Alive, Running
      <4> QED
        BY <2>1, <2>2, <4>1, <4>2
    <3>7. CASE Destroy(d)
      BY <2>1, <2>2, <3>7 DEF Destroy
    <3> QED
      BY <1>2, <2>4, <3>1, <3>2, <3>3, <3>4, <3>5, <3>6, <3>7
      DEF CallerStep, RestartStarts, OneStopper
  <2> QED
    BY <1>2, <2>3, <2>4
    DEF Next, vars, System, Spawn, MembersExit, LeaderExits, monitorLoop, isProcessRunning,
        startProcess, callers, CallerBegins, stopProcess, restartProcess, stopAll, Call
<1> QED
  BY <1>1, <1>2

\* When the destructor has returned, no child lives that SIGKILL could end.
THEOREM DestructionIsComplete == Spec => []DestructionLeavesNone
<1>1. Init => DestructionInv
  BY InitTable DEF Init, DestructionInv, OneStopper, LivingAreListed
<1>2. DestructionInv /\ [Next]_vars => DestructionInv'
  BY NextTable, StopperStep, ListedStep DEF DestructionInv
<1>3. DestructionInv => DestructionLeavesNone
  <2> SUFFICES ASSUME DestructionInv, phase = "destroyed", NEW p \in Pids, leader[p] = "alive"
               PROVE  FALSE
    BY DEF DestructionLeavesNone
  <2>1. PICK n \in Names : pidOf[n] = p
    BY DEF DestructionInv, TableInv, RecordsAreChildren
  <2>2. Alive(n)
    BY <2>1, PidAssumption DEF Alive
  <2>3. \A c \in Callers : pc[c] = "idle"
    BY DEF DestructionInv, OneStopper
  <2>4. n \in todo
    BY <2>2, <2>3 DEF DestructionInv, LivingAreListed, Tries
  <2> QED
    BY <2>4 DEF DestructionInv, OneStopper
<1> QED
  BY <1>1, <1>2, <1>3, PTL DEF Spec

-----------------------------------------------------------------------------
(* The refinement of ProcessSlots.                                           *)

\* A look reaps only what was dead: the live names stay.
LEMMA LookKeepsLive ==
  ASSUME TableInv, NEW ns \in SUBSET Names, Refresh(ns)
  PROVE  Live' = Live
<1>1. \A n \in Names : Running(n)' = Running(n)
  BY RefreshKeeps, PidAssumption DEF TableInv, ProcTypeOK, Running, Lives
<1> QED
  BY <1>1 DEF Live

\* A start leaves the live names or adds one that was down.
LEMMA ForkAddsLive ==
  ASSUME TableInv, NEW n \in Names, ForkOrFail(n)
  PROVE  Live' = Live \/ (n \notin Live /\ Live' = Live \cup {n})
<1>1. CASE Refresh({n})
  <2>1. {n} \in SUBSET Names
    OBVIOUS
  <2> QED
    BY <1>1, <2>1, LookKeepsLive
<1>2. CASE ~Running(n) /\ Fork(n)
  <2>1. Running(n)'
    BY <1>2, PidAssumption DEF Fork, Running, TableInv, ProcTypeOK, LeaderAfter
  <2>2. \A m \in Names \ {n} : pidOf'[m] = pidOf[m]
    BY ForkKeeps DEF TableInv
  <2>3. ASSUME NEW m \in Names \ {n} PROVE Running(m)' = Running(m)
    <3>1. CASE pidOf[m] = NoPid
      BY <2>2, <3>1 DEF Running
    <3>2. CASE pidOf[m] # NoPid
      <4>1. pidOf[m] \in Pids /\ pidOf'[m] = pidOf[m]
        BY <2>2, <3>2 DEF TableInv, ProcTypeOK
      <4>2. pidOf[n] # pidOf[m]
        BY <3>2 DEF TableInv, RecordsAreChildren
      <4>3. pidOf'[n] # pidOf'[m]
        BY <3>2, <4>1, ForkKeeps DEF TableInv, RecordsAreChildren
      <4>4. leader'[pidOf[m]] = leader[pidOf[m]]
        BY <4>1, <4>2, <4>3, ForkKeeps DEF TableInv
      <4> QED
        BY <4>1, <4>4 DEF Running
    <3> QED
      BY <3>1, <3>2
  <2> QED
    BY <1>2, <2>1, <2>3 DEF Live
<1> QED
  BY <1>1, <1>2 DEF ForkOrFail

\* A death takes the one name that had the process, and answers its stops.
LEMMA DeathIsDie ==
  ASSUME TableInv, NEW p \in Pids, leader[p] # "free", Met(p),
         leader' = [leader EXCEPT ![p] = "zombie"],
         UNCHANGED <<pidOf, name, pid, AnswerOf>>
  PROVE  UNCHANGED Slots!vars \/ \E n \in Names : Slots!Die(n)
<1> USE DEF TableInv, ProcTypeOK
<1>1. PICK n \in Names : pidOf[n] = p
  BY DEF RecordsAreChildren
<1>2. \A m \in Names : Running(m)' = (Running(m) /\ m # n)
  BY <1>1, PidAssumption DEF Running, RecordsAreChildren
<1>3. Live' = Live \ {n}
  BY <1>2 DEF Live
<1>4. \A c \in open : c \in Callers /\ name[c] \in Names /\ (pid[c] = p <=> name[c] = n)
  BY <1>1, PidAssumption DEF OpenIsLive, RecordsAreChildren
<1>5. Awaits' = [c \in Callers |-> Awaits[c] \ {n}]
  BY <1>4 DEF Met, Awaits
<1>6. CASE n \in Live
  BY <1>3, <1>5, <1>6 DEF Slots!Die
<1>7. CASE n \notin Live
  <2>1. ~Lives(p)
    BY <1>1, <1>7, PidAssumption DEF Live, Running, Lives
  <2>2. open' = open
    BY <2>1 DEF Met, OpenIsLive
  <2> QED
    BY <1>3, <1>7, <2>2 DEF Awaits, Slots!vars
<1> QED
  BY <1>6, <1>7

\* What a caller does between the answers is invisible.
LEMMA CallerInvisible ==
  ASSUME TableInv, NEW c \in Callers, c \notin open, UNCHANGED open,
         \A d \in Callers \ {c} : name'[d] = name[d]
  PROVE  Awaits' = Awaits
BY DEF TableInv, ProcTypeOK, Awaits

LEMMA AnswerKept ==
  ASSUME TableInv, NEW c \in Callers, NEW label, pc' = [pc EXCEPT ![c] = label],
         \/ pc[c] \in {"signal", "wait"} /\ label \in {"signal", "wait"}
         \/ /\ pc[c] \in {"idle", "look", "start", "next"}
            /\ label \in {"idle", "look", "start", "next"}
  PROVE  AnswerOf' = AnswerOf
<1>1. \A d \in Callers : pc'[d] = IF d = c THEN label ELSE pc[d]
  BY DEF TableInv, ProcTypeOK
<1> QED
  BY <1>1 DEF AnswerOf

LEMMA AnswerMoves ==
  ASSUME TableInv, NEW c \in Callers, NEW label, pc' = [pc EXCEPT ![c] = label]
  PROVE  AnswerOf' = [AnswerOf EXCEPT ![c] =
           CASE label \in {"signal", "wait"} -> "pending"
             [] label \in {"stopped", "failed"} -> label
             [] OTHER -> "none"]
<1>1. \A d \in Callers : pc'[d] = IF d = c THEN label ELSE pc[d]
  BY DEF TableInv, ProcTypeOK
<1> QED
  BY <1>1 DEF AnswerOf

LEMMA AwaitsMoves ==
  ASSUME TableInv, NEW c \in Callers, UNCHANGED name
  PROVE  /\ open' = open \cup {c} => Awaits' = [Awaits EXCEPT ![c] = {name[c]}]
         /\ open' = open \ {c} => Awaits' = [Awaits EXCEPT ![c] = {}]
         /\ open' = open /\ c \notin open => Awaits' = [Awaits EXCEPT ![c] = {}]
BY DEF TableInv, ProcTypeOK, Awaits

LEMMA CallerRefines ==
  ASSUME TableInv, NEW c \in Callers, CallerBegins(c) \/ CallerStep(c)
  PROVE  [Slots!Next]_(Slots!vars)
<1> USE DEF Goto
<1>1. pc[c] \notin {"signal", "wait"} => c \notin open
  BY DEF TableInv, OpenIsLive
<1>2. name[c] \in Names /\ \A n \in Names : {n} \in SUBSET Names
  BY DEF TableInv, ProcTypeOK
<1>3. ASSUME NEW n \in Names, stopProcess(c, n) \/ restartProcess(c, n)
      PROVE  UNCHANGED Slots!vars
  <2>1. /\ UNCHANGED <<pidOf, leader>> \/ Refresh({n})
        /\ pc[c] = "idle" /\ UNCHANGED open /\ name' = [name EXCEPT ![c] = n]
        /\ \E label \in {"look", "start"} : pc' = [pc EXCEPT ![c] = label]
    BY <1>3 DEF stopProcess, restartProcess, Call
  <2>2. Live' = Live
    BY <1>2, <2>1, LookKeepsLive DEF Live, Running
  <2>3. Awaits' = Awaits
    BY <1>1, <2>1, CallerInvisible DEF TableInv, ProcTypeOK
  <2>4. AnswerOf' = AnswerOf
    BY <2>1, AnswerKept
  <2> QED
    BY <2>2, <2>3, <2>4 DEF Slots!vars
<1>4. CASE stopAll(c)
  <2>1. pc[c] = "idle" /\ pc' = [pc EXCEPT ![c] = "next"] /\ UNCHANGED <<pidOf, leader, open, name>>
    BY <1>4 DEF stopAll, system, TableInv, ProcTypeOK
  <2> QED
    BY <2>1, AnswerKept DEF Live, Running, Awaits, Slots!vars
<1>5. CASE Look(c)
  <2>1. pc[c] = "look" /\ Refresh({name[c]}) /\ UNCHANGED name
    BY <1>5 DEF Look, LookIf
  <2>2. Live' = Live /\ AnswerOf[c] = "none" /\ c \notin open
    BY <1>1, <1>2, <2>1, LookKeepsLive DEF AnswerOf
  <2>3. CASE Running(name[c])
    <3>1. pc' = [pc EXCEPT ![c] = "signal"] /\ open' = open \cup {c}
      BY <1>5, <2>3 DEF Look, LookIf
    <3>2. AnswerOf' = [AnswerOf EXCEPT ![c] = "pending"] /\ name[c] \in Live
      BY <1>2, <2>3, <3>1, AnswerMoves DEF Live
    <3>3. Awaits' = [Awaits EXCEPT ![c] = {name[c]}]
      BY <2>1, <3>1, AwaitsMoves
    <3> QED
      BY <2>2, <3>2, <3>3 DEF Slots!Next, Slots!Stop
  <2>4. CASE ~Running(name[c])
    <3>1. pc' = [pc EXCEPT ![c] = "failed"] /\ open' = open
      BY <1>5, <2>4 DEF Look, LookIf
    <3>2. AnswerOf' = [AnswerOf EXCEPT ![c] = "failed"]
      BY <3>1, AnswerMoves
    <3>3. Awaits' = [Awaits EXCEPT ![c] = {}]
      BY <2>1, <2>2, <3>1, AwaitsMoves
    <3> QED
      BY <2>2, <3>2, <3>3 DEF Slots!Next, Slots!Fail, Slots!Answer
  <2> QED
    BY <2>3, <2>4
<1>6. CASE SignalGroup(c)
  <2>1. /\ pc[c] = "signal" /\ pc' = [pc EXCEPT ![c] = "wait"] /\ pid[c] \in Pids
        /\ UNCHANGED <<pidOf, name, pid>>
    BY <1>6 DEF SignalGroup, TableInv, ProcTypeOK
  <2>2. AnswerOf' = AnswerOf
    BY <2>1, AnswerKept
  <2>3. CASE UNCHANGED <<leader, open>>
    BY <2>1, <2>2, <2>3 DEF Live, Running, Awaits, Slots!vars
  <2>4. CASE /\ leader[pid[c]] \notin {"free", "zombie"} /\ UNCHANGED open
             /\ leader' = [leader EXCEPT ![pid[c]] = "stuck"]
    <3>1. \A n \in Names : Running(n)' = Running(n)
      BY <2>1, <2>4 DEF Running, TableInv, ProcTypeOK
    <3> QED
      BY <2>1, <2>2, <2>4, <3>1 DEF Live, Awaits, Slots!vars
  <2>5. CASE /\ leader[pid[c]] # "free" /\ leader' = [leader EXCEPT ![pid[c]] = "zombie"]
             /\ Met(pid[c])
    BY <2>1, <2>2, <2>5, DeathIsDie DEF Slots!Next
  <2> QED
    BY <1>6, <2>3, <2>4, <2>5 DEF SignalGroup
<1>7. CASE WaitSucceeds(c)
  <2>1. /\ pc[c] = "wait" /\ pc' = [pc EXCEPT ![c] = "stopped"]
        /\ pidOf[name[c]] # pid[c] \/ ~Running(name[c])
        /\ UNCHANGED <<name, open>>
        /\ Refresh({name[c]}) \/ UNCHANGED <<pidOf, leader>>
    BY <1>7 DEF WaitSucceeds
  <2>2. c \notin open
    BY <1>2, <2>1, PidAssumption DEF OpenIsLive, Lives, Running, TableInv, ProcTypeOK
  <2>3. Live' = Live
    BY <1>2, <2>1, LookKeepsLive DEF Live, Running
  <2>4. AnswerOf[c] = "pending" /\ Awaits[c] = {}
    BY <2>1, <2>2 DEF AnswerOf, Awaits
  <2>5. AnswerOf' = [AnswerOf EXCEPT ![c] = "stopped"] /\ Awaits' = [Awaits EXCEPT ![c] = {}]
    BY <2>1, <2>2, AnswerMoves, AwaitsMoves
  <2> QED
    BY <2>3, <2>4, <2>5 DEF Slots!Next, Slots!Succeed, Slots!Answer
<1>8. CASE WaitTimesOut(c)
  <2>1. pc[c] = "wait" /\ UNCHANGED <<pidOf, leader, name>>
    BY <1>8 DEF WaitTimesOut, WaitTimesOutAs, system
  <2>2. Live' = Live /\ AnswerOf[c] = "pending"
    BY <2>1 DEF Live, Running, AnswerOf
  <2>3. CASE pc' = [pc EXCEPT ![c] = "signal"] /\ UNCHANGED open
    BY <2>1, <2>2, <2>3, AnswerKept DEF Awaits, Slots!vars
  <2>4. CASE pc' = [pc EXCEPT ![c] = "failed"] /\ open' = open \ {c}
    <3>1. AnswerOf' = [AnswerOf EXCEPT ![c] = "failed"] /\ Awaits' = [Awaits EXCEPT ![c] = {}]
      BY <2>1, <2>4, AnswerMoves, AwaitsMoves
    <3> QED
      BY <2>2, <3>1 DEF Slots!Next, Slots!Fail, Slots!Answer
  <2> QED
    BY <1>8, <2>3, <2>4 DEF WaitTimesOut, WaitTimesOutAs
<1>9. CASE Return(c)
  <2>1. /\ pc[c] \in {"stopped", "failed"} /\ UNCHANGED <<pidOf, leader, name, open>>
        /\ \E label \in {"start", "next", "idle"} : pc' = [pc EXCEPT ![c] = label]
    BY <1>9 DEF Return, ReturnLeaving, system
  <2>2. Live' = Live /\ AnswerOf[c] \in {"stopped", "failed"}
    BY <2>1 DEF Live, Running, AnswerOf
  <2>3. AnswerOf' = [AnswerOf EXCEPT ![c] = "none"] /\ Awaits' = [Awaits EXCEPT ![c] = {}]
    BY <1>1, <2>1, AnswerMoves, AwaitsMoves
  <2> QED
    BY <2>2, <2>3 DEF Slots!Next, Slots!Return, Slots!Answer
<1>10. CASE RestartStarts(c)
  <2>1. /\ pc[c] = "start" /\ pc' = [pc EXCEPT ![c] = "idle"] /\ ForkOrFail(name[c])
        /\ UNCHANGED <<name, open>>
    BY <1>10 DEF RestartStarts
  <2>2. AnswerOf' = AnswerOf /\ Awaits' = Awaits
    BY <2>1, AnswerKept DEF Awaits
  <2> QED
    BY <1>2, <2>1, <2>2, ForkAddsLive DEF Slots!Next, Slots!Start, Slots!vars
<1>11. ASSUME NEW n \in todo, StopAllVisits(c, n) PROVE UNCHANGED Slots!vars
  <2>1. /\ n \in Names /\ Refresh({n}) /\ pc[c] = "next" /\ UNCHANGED open
        /\ \/ pc' = [pc EXCEPT ![c] = "look"] /\ name' = [name EXCEPT ![c] = n]
           \/ UNCHANGED <<pc, name>>
    BY <1>11 DEF StopAllVisits, TableInv, ProcTypeOK
  <2>2. Live' = Live
    BY <1>2, <2>1, LookKeepsLive
  <2>3. Awaits' = Awaits
    BY <1>1, <2>1, CallerInvisible DEF TableInv, ProcTypeOK
  <2>4. AnswerOf' = AnswerOf
    BY <2>1, AnswerKept DEF AnswerOf
  <2> QED
    BY <2>2, <2>3, <2>4 DEF Slots!vars
<1>12. CASE Destroy(c)
  <2>1. /\ pc[c] = "next" /\ pc' = [pc EXCEPT ![c] = "idle"]
        /\ UNCHANGED <<pidOf, leader, open, name>>
    BY <1>12 DEF Destroy, system
  <2> QED
    BY <2>1, AnswerKept DEF Live, Running, Awaits, Slots!vars
<1> QED
  BY <1>3, <1>4, <1>5, <1>6, <1>7, <1>8, <1>9, <1>10, <1>11, <1>12 DEF CallerBegins, CallerStep

LEMMA NextRefines == TableInv /\ [Next]_vars => [Slots!Next]_(Slots!vars)
<1> SUFFICES ASSUME TableInv, [Next]_vars PROVE [Slots!Next]_(Slots!vars)
  OBVIOUS
<1>1. CASE UNCHANGED vars
  BY <1>1 DEF vars, system, callers, Live, Running, Awaits, AnswerOf, Slots!vars
<1>2. ASSUME NEW p \in Pids, Spawn(p) \/ MembersExit(p) PROVE UNCHANGED Slots!vars
  BY <1>2 DEF Spawn, MembersExit, callers, Live, Running, Awaits, AnswerOf, Slots!vars
<1>3. ASSUME NEW p \in Pids, LeaderExits(p) PROVE [Slots!Next]_(Slots!vars)
  <2>1. AnswerOf' = AnswerOf
    BY <1>3 DEF LeaderExits, AnswerOf
  <2> QED
    BY <1>3, <2>1, DeathIsDie DEF LeaderExits, Slots!Next
<1>4. CASE monitorLoop
  BY <1>4, LookKeepsLive DEF monitorLoop, callers, Awaits, AnswerOf, Slots!vars
<1>5. ASSUME NEW n \in Names, isProcessRunning(n) \/ startProcess(n)
      PROVE  [Slots!Next]_(Slots!vars)
  <2>1. {n} \in SUBSET Names /\ UNCHANGED <<Awaits, AnswerOf>>
    BY <1>5 DEF isProcessRunning, startProcess, callers, Awaits, AnswerOf
  <2>2. CASE isProcessRunning(n)
    BY <2>1, <2>2, LookKeepsLive DEF isProcessRunning, Slots!vars
  <2>3. CASE startProcess(n)
    BY <2>1, <2>3, ForkAddsLive DEF startProcess, Slots!Next, Slots!Start, Slots!vars
  <2> QED
    BY <1>5, <2>2, <2>3
<1> QED
  BY <1>1, <1>2, <1>3, <1>4, <1>5, CallerRefines DEF Next, System

\* For any names, pids and callers: a stop that succeeds has outlived the process
\* it was called for.
THEOREM SlotsImplemented == Spec => ImplementsSlots
<1>1. Init => Slots!Init
  BY DEF Init, Slots!Init, Live, Running, Awaits, AnswerOf
<1> QED
  BY <1>1, InitTable, NextTable, NextRefines, PTL DEF Spec, ImplementsSlots, Slots!Spec

-----------------------------------------------------------------------------
(* What the fair threads come to in the end.  Fairness speaks of what is      *)
(* ENABLED, which the provers do not evaluate: CallsMayGoOn, which TLC checks, *)
(* is the hypothesis that stands for it.                                      *)

Stopping(c) == pc[c] \in {"look", "signal", "wait"}

Answered(c) == pc[c] \in {"stopped", "failed"}

\* A bound on the sections of stopProcess before its answer: three signals, each
\* with a wait.
StopRank(c) ==
  IF pc[c] = "look" THEN 7
  ELSE (IF sig[c] = "SIGINT" THEN 4 ELSE IF sig[c] = "SIGTERM" THEN 2 ELSE 0)
       + (IF pc[c] = "signal" THEN 2 ELSE 1)

\* Nobody but the call itself moves it, neither another call nor a restart or an
\* exit under its eyes, and each of its sections takes it nearer the answer.
LEMMA StopDescends ==
  ASSUME ProcTypeOK, [Next]_vars, NEW c \in Callers, Stopping(c)
  PROVE  IF CallerStep(c)
         THEN Answered(c)' \/ (Stopping(c)' /\ StopRank(c)' < StopRank(c))
         ELSE pc'[c] = pc[c] /\ sig'[c] = sig[c]
<1> USE DEF ProcTypeOK, Stopping, Goto
<1>1. CASE CallerStep(c)
  <2> SUFFICES Answered(c)' \/ (Stopping(c)' /\ StopRank(c)' < StopRank(c))
    BY <1>1
  <2>1. CASE Look(c)
    <3>1. pc[c] = "look" /\ (pc'[c] = "failed" \/ (pc'[c] = "signal" /\ sig'[c] = "SIGINT"))
      BY <2>1 DEF Look, LookIf
    <3> QED
      BY <3>1 DEF Answered, StopRank
  <2>2. CASE SignalGroup(c)
    <3>1. pc[c] = "signal" /\ pc'[c] = "wait" /\ sig' = sig
      BY <2>2 DEF SignalGroup
    <3> QED
      BY <3>1 DEF Answered, StopRank
  <2>3. CASE WaitSucceeds(c)
    BY <2>3 DEF WaitSucceeds, Answered
  <2>4. CASE WaitTimesOut(c)
    <3>1. /\ pc[c] = "wait" /\ sig[c] \in Signals
          /\ \/ pc'[c] = "failed"
             \/ /\ pc'[c] = "signal" /\ sig[c] # "SIGKILL"
                /\ sig'[c] = IF sig[c] = "SIGINT" THEN "SIGTERM" ELSE "SIGKILL"
      BY <2>4 DEF WaitTimesOut, WaitTimesOutAs
    <3> QED
      BY <3>1 DEF Answered, StopRank, Signals
  <2>5. ~Return(c) /\ ~RestartStarts(c) /\ ~Destroy(c) /\ ~(\E n \in todo : StopAllVisits(c, n))
    BY DEF Return, ReturnLeaving, RestartStarts, Destroy, StopAllVisits
  <2> QED
    BY <1>1, <2>1, <2>2, <2>3, <2>4, <2>5 DEF CallerStep
<1>2. CASE ~CallerStep(c)
  <2>1. ASSUME NEW d \in Callers, CallerBegins(d) PROVE pc'[c] = pc[c] /\ sig'[c] = sig[c]
    BY <2>1 DEF CallerBegins, stopProcess, restartProcess, Call, stopAll
  <2>2. ASSUME NEW d \in Callers, d # c, CallerStep(d)
        PROVE  pc'[c] = pc[c] /\ sig'[c] = sig[c]
    BY <2>2 DEF CallerStep, Look, LookIf, SignalGroup, WaitSucceeds, WaitTimesOut,
        WaitTimesOutAs, Return, ReturnLeaving, RestartStarts, StopAllVisits, Destroy
  <2>3. (System \/ monitorLoop \/ (\E n \in Names : isProcessRunning(n) \/ startProcess(n)))
          => pc'[c] = pc[c] /\ sig'[c] = sig[c]
    BY DEF System, Spawn, MembersExit, LeaderExits, monitorLoop, isProcessRunning,
        startProcess, callers
  <2>4. UNCHANGED vars => pc'[c] = pc[c] /\ sig'[c] = sig[c]
    BY DEF vars, callers
  <2> QED
    BY <1>2, <2>1, <2>2, <2>3, <2>4 DEF Next
<1> QED
  BY <1>1, <1>2

\* Without any fairness: a stop has at most seven sections up to its answer, and
\* none of them is repeated because of what the process, the other callers or
\* the monitor thread do.
StopIsBounded(c) ==
  [][Stopping(c) =>
       IF CallerStep(c) THEN Answered(c)' \/ (Stopping(c)' /\ StopRank(c)' < StopRank(c))
                        ELSE Stopping(c)' /\ StopRank(c)' = StopRank(c)]_vars

THEOREM StopsAreBounded ==
  Spec => \A c \in Callers : [](StopRank(c) \in 1..7) /\ StopIsBounded(c)
<1>1. ASSUME NEW c \in Callers PROVE Spec => [](StopRank(c) \in 1..7) /\ StopIsBounded(c)
  <2>1. StopRank(c) \in 1..7
    BY DEF StopRank
  <2>2. pc'[c] = pc[c] /\ sig'[c] = sig[c]
          => StopRank(c)' = StopRank(c) /\ (Stopping(c) => Stopping(c)')
    BY DEF StopRank, Stopping
  <2>3. ProcTypeOK /\ [Next]_vars
          => [Stopping(c) =>
                IF CallerStep(c)
                THEN Answered(c)' \/ (Stopping(c)' /\ StopRank(c)' < StopRank(c))
                ELSE Stopping(c)' /\ StopRank(c)' = StopRank(c)]_vars
    BY <2>2, StopDescends
  <2> QED
    BY <2>1, <2>3, ProcTypesCorrect, PTL DEF StopIsBounded, Spec
<1> QED
  BY <1>1

StopDescendsTo(c, k) ==
  FairSpec /\ []CallsMayGoOn =>
    ((Stopping(c) /\ StopRank(c) <= k + 1) ~> (Answered(c) \/ (Stopping(c) /\ StopRank(c) <= k)))

LEMMA StopAdvances ==
  ASSUME NEW c \in Callers, NEW k \in Nat
  PROVE  StopDescendsTo(c, k)
<1>1. ProcTypeOK /\ [Next]_vars /\ (Stopping(c) /\ StopRank(c) <= k + 1)
        => \/ (Stopping(c) /\ StopRank(c) <= k + 1)'
           \/ (Answered(c) \/ (Stopping(c) /\ StopRank(c) <= k))'
  <2> SUFFICES ASSUME ProcTypeOK, [Next]_vars, Stopping(c), StopRank(c) <= k + 1
               PROVE  Answered(c)' \/ (Stopping(c)' /\ StopRank(c)' <= k + 1)
    OBVIOUS
  <2>1. StopRank(c) \in Nat /\ StopRank(c)' \in Nat
    BY DEF StopRank
  <2>2. pc'[c] = pc[c] /\ sig'[c] = sig[c] => Stopping(c)' /\ StopRank(c)' = StopRank(c)
    BY DEF Stopping, StopRank
  <2> QED
    BY <2>1, <2>2, StopDescends
<1>2. ProcTypeOK /\ [Next]_vars /\ (Stopping(c) /\ StopRank(c) <= k + 1)
        /\ <<CallerStep(c)>>_vars
        => (Answered(c) \/ (Stopping(c) /\ StopRank(c) <= k))'
  <2>1. StopRank(c) \in Nat /\ StopRank(c)' \in Nat
    BY DEF StopRank
  <2> QED
    BY <2>1, StopDescends
<1>3. CallsMayGoOn => (Stopping(c) => ENABLED <<CallerStep(c)>>_vars)
  BY DEF CallsMayGoOn, Stopping
<1>4. FairSpec => Spec /\ CallerRuns(c)
  BY DEF FairSpec
<1> QED
  BY <1>1, <1>2, <1>3, <1>4, ProcTypesCorrect, PTL DEF StopDescendsTo, CallerRuns, Spec

\* Every stop is answered: after at most seven sections of its own, whatever
\* the process does about the signals and whatever other callers do meanwhile.
THEOREM StopsEnd == FairSpec /\ []CallsMayGoOn => StopEnds
<1>1. ASSUME NEW c \in Callers
      PROVE  FairSpec /\ []CallsMayGoOn => StopOf(c)
  <2>1. /\ StopDescendsTo(c, 0) /\ StopDescendsTo(c, 1) /\ StopDescendsTo(c, 2)
        /\ StopDescendsTo(c, 3) /\ StopDescendsTo(c, 4) /\ StopDescendsTo(c, 5)
        /\ StopDescendsTo(c, 6)
    BY StopAdvances
  <2>2. Stopping(c) => StopRank(c) <= 6 + 1 /\ ~(StopRank(c) <= 0)
    BY DEF StopRank
  <2>3. /\ StopRank(c) <= 1 => StopRank(c) <= 0 + 1
        /\ StopRank(c) <= 2 => StopRank(c) <= 1 + 1
        /\ StopRank(c) <= 3 => StopRank(c) <= 2 + 1
        /\ StopRank(c) <= 4 => StopRank(c) <= 3 + 1
        /\ StopRank(c) <= 5 => StopRank(c) <= 4 + 1
        /\ StopRank(c) <= 6 => StopRank(c) <= 5 + 1
    OBVIOUS
  <2> QED
    BY <2>1, <2>2, <2>3, PTL DEF StopDescendsTo, StopOf, Stopping, Answered
<1> QED
  BY <1>1 DEF StopEnds

\* A round of the monitor thread leaves no dead child.
LEMMA RoundReaps ==
  ASSUME RecordsAreChildren, monitorLoop, NEW p \in Pids
  PROVE  leader'[p] # "zombie"
BY PidAssumption DEF RecordsAreChildren, monitorLoop, Refresh, LeaderAfter, Dead

\* The exit of a child is reaped by the monitor thread if by nobody else before.
THEOREM ExitsAreReaped == FairSpec /\ []CallsMayGoOn => ExitIsReaped
<1>1. ASSUME NEW p \in Pids
      PROVE  FairSpec /\ []CallsMayGoOn => ExitOf(p)
  <2>1. RecordsAreChildren /\ <<monitorLoop>>_vars => (leader[p] # "zombie")'
    BY RoundReaps
  <2>2. CallsMayGoOn =>
          (leader[p] = "zombie" /\ phase # "destroyed" => ENABLED <<monitorLoop>>_vars)
    BY DEF CallsMayGoOn
  <2>3. /\ leader[p] = "zombie" \/ leader[p] # "zombie"
        /\ phase = "destroyed" \/ phase # "destroyed"
    OBVIOUS
  <2>4. FairSpec => Spec /\ MonitorRuns
    BY DEF FairSpec
  <2> QED
    BY <2>1, <2>2, <2>3, <2>4, ChildrenAreRecorded, PTL DEF ExitOf, MonitorRuns
<1> QED
  BY <1>1 DEF ExitIsReaped
===============================================================================
