------------------------------ MODULE MapCatalog ------------------------------
(***************************************************************************)
(* What the map services promise about names: a name is listed or not at    *)
(* every moment, also when the process is killed in the middle of a call.   *)
(* A directory without metadata is hidden: an unfinished creation or        *)
(* deletion may leave one, and nothing but a deletion removes it.           *)
(***************************************************************************)
CONSTANTS Names, NoName

VARIABLES
  status,  \* each name: "none", "hidden" or "listed"
  call,    \* the call in progress, with its name
  mine,    \* the call has made the directory itself
  answer   \* of the call, once it has one

vars == <<status, call, mine, answer>>

NoCall == [op |-> "none", name |-> NoName]

Init ==
  /\ status = [n \in Names |-> "none"]
  /\ call = NoCall /\ mine = FALSE /\ answer = "none"

Begin ==
  /\ call = NoCall /\ call' \in [op : {"create", "start", "delete"}, name : Names]
  /\ UNCHANGED <<status, mine, answer>>

\* The steps of a call on the status of its name.
Move(from, to) ==
  /\ call # NoCall /\ answer = "none"
  /\ status[call.name] = from /\ status' = [status EXCEPT ![call.name] = to]
  /\ UNCHANGED call

Answer(a) == answer' = a /\ mine' = FALSE

\* A creation, or a start of mapping that creates its map.
Make ==
  /\ call.op \in {"create", "start"} /\ Move("none", "hidden")
  /\ mine' = TRUE /\ UNCHANGED answer

\* The metadata are the last thing a creation writes.
Publish ==
  /\ mine /\ Move("hidden", "listed")
  /\ IF call.op = "create" THEN Answer("ok") ELSE UNCHANGED <<mine, answer>>

\* A call removes what it has made; a deletion removes any map.
MayRemove == mine \/ call.op = "delete"

Hide == MayRemove /\ Move("listed", "hidden") /\ UNCHANGED <<mine, answer>>

Remove ==
  /\ MayRemove /\ Move("hidden", "none")
  /\ Answer(IF call.op = "delete" THEN "ok" ELSE "failed")

\* Every other answer: a creation or deletion has failed, a start that succeeds
\* has a listed map.
Settle ==
  /\ call # NoCall /\ answer = "none"
  /\ \/ Answer("failed")
     \/ call.op = "start" /\ status[call.name] = "listed" /\ Answer("ok")
  /\ UNCHANGED <<status, call>>

\* A call returns, or the process is killed and started again.
End ==
  /\ call' = NoCall /\ mine' = FALSE /\ answer' = "none" /\ UNCHANGED status

Next == Begin \/ Make \/ Publish \/ Hide \/ Remove \/ Settle \/ End

Spec == Init /\ [][Next]_vars

==============================================================================
