--------------------------- MODULE SidecarContract ---------------------------
(* What the shell may rely on when it starts and stops the local runtime     *)
(* (start_sidecar and SidecarHandle::stop of runtime.rs): a start hands over *)
(* a runtime that answers for itself or leaves nothing behind, a stop that   *)
(* succeeds leaves nothing behind, and only a call that says so may leave    *)
(* processes running.                                                        *)
EXTENDS Naturals

VARIABLES
  state,      \* "off", "starting", "on", "stopping", "stuck" (a stop failed and
              \* the handle is kept), "littered" (a start could not clean up)
              \* or "dead" (the shell is gone)
  live,       \* does a process of the sidecar exist?
  answering   \* does our own runtime answer at the address?

vars == <<state, live, answering>>

Init == state = "off" /\ ~live /\ ~answering

\* A start begins; its processes appear while it runs.
Begin == state \in {"off", "littered"} /\ state' = "starting"

\* It hands the runtime over, when our runtime answers.
Deliver == state = "starting" /\ answering /\ state' = "on"

\* A start or a stop ends, and nothing runs.
Clean == state \in {"starting", "stopping"} /\ ~live /\ state' = "off"

\* It gives up, and says that something may still run.
GiveUp ==
  \/ state = "starting" /\ state' = "littered"
  \/ state = "stopping" /\ state' = "stuck"

BeginStop == state \in {"on", "stuck"} /\ state' = "stopping"

\* What runs may change or end at any time; nothing appears outside a start.
Processes ==
  \/ state' = state
  \/ state' = "dead"
Appears == live' /\ ~live => state' = "starting"

Next ==
  /\ Begin \/ Deliver \/ Clean \/ GiveUp \/ BeginStop \/ Processes
  /\ Appears
  /\ answering' => live'

Spec == Init /\ [][Next]_vars
=============================================================================
