---------------------------- MODULE CloseProtocol ----------------------------
(* What the close coordinator promises the rest of the shell: closing is a   *)
(* question that is open once at a time, ends as a close or as a             *)
(* cancellation, and only a question that ended as a close destroys the      *)
(* window.  DesktopLifecycle's closers are these questions; CloseBridge is   *)
(* the protocol between the coordinator and the page that implements them.   *)
CONSTANT Requests   \* the close requests

VARIABLES question, \* state of each request
          closed    \* is the window destroyed?

vars == <<question, closed>>

States == {"idle", "waiting", "closing", "over"}
TypeOK == question \in [Requests -> States] /\ closed \in BOOLEAN
Init   == question = [r \in Requests |-> "idle"] /\ closed = FALSE

Move(r, from, to) == question[r] = from /\ question' = [question EXCEPT ![r] = to]

Ask(r) == /\ \A other \in Requests : question[other] # "waiting"
          /\ Move(r, "idle", "waiting") /\ UNCHANGED closed
Decide(r, to) == Move(r, "waiting", to) /\ UNCHANGED closed
\* The sidecar is stopped and the window goes; or the sidecar will not stop and
\* the window stays.
Close(r)   == Move(r, "closing", "over") /\ closed' = TRUE
GiveUp(r)  == Move(r, "closing", "over") /\ UNCHANGED closed

Next == \E r \in Requests : \/ Ask(r) \/ Close(r) \/ GiveUp(r)
                            \/ \E to \in {"closing", "over"} : Decide(r, to)
Spec == Init /\ [][Next]_vars
=============================================================================
