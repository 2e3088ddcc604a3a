------------------------------- MODULE SaveSlot -------------------------------
(***************************************************************************)
(* What the asynchronous last-pose saver promises: accepted requests are    *)
(* numbered; an older one may be dropped in favour of a newer one, but the  *)
(* writes go forward, and the saver does not close before the newest        *)
(* request it accepted has been written, or tried to.                       *)
(***************************************************************************)
EXTENDS Naturals

VARIABLES
  accepted,  \* number of the newest accepted request
  written,   \* number of the newest request whose write has ended
  closed

vars == <<accepted, written, closed>>

Init == accepted = 0 /\ written = 0 /\ closed = FALSE

Accept == ~closed /\ accepted' = accepted + 1 /\ UNCHANGED <<written, closed>>

Write ==
  /\ ~closed /\ written' \in (written + 1)..accepted
  /\ UNCHANGED <<accepted, closed>>

Close == ~closed /\ written = accepted /\ closed' = TRUE /\ UNCHANGED <<accepted, written>>

Next == Accept \/ Write \/ Close

Spec == Init /\ [][Next]_vars

==============================================================================
