----------------------------- MODULE MCRuntime ------------------------------
(* Two snapshots: one a page can act on, and one that promises a backup    *)
(* there is not.                                                           *)
EXTENDS DataCommand

CONSTANT none

Promises(backup) ==
  [known |-> TRUE, state |-> "restore-available", managed |-> backup, pending |-> FALSE,
   empty |-> FALSE]

MCSnapshots == {Promises(TRUE), Promises(FALSE)}
=============================================================================
