-------------------------- MODULE DesktopLifecycle --------------------------
(* The native shell of the desktop application: one process that owns the   *)
(* local runtime (the "sidecar", a child process group), serializes the     *)
(* commands that replace or delete the database (`data_operation`), runs    *)
(* each of them in a helper process, and ends the application when the      *)
(* close protocol, an update or a recovery says so                          *)
(* (src-tauri/src/lifecycle.rs, main.rs, runtime.rs).                       *)
(*                                                                          *)
(* Threads: the setup thread, one command worker at a time (it holds the    *)
(* data_operation mutex from its first step to its last), the close waiters *)
(* (Closers), the update worker, and the event loop.  Each action is the    *)
(* work one of them does between two points where another can be observed.  *)
(* Processes outlive the application: `alive` and `orphans` survive the     *)
(* step that ends it.                                                       *)
EXTENDS FiniteSets

CONSTANTS
  SidecarIds,   \* process groups the operating system can hand out
  Versions,     \* contents a usable database can have
  Deleted,      \* the database was removed by "delete"
  Unknown,      \* a failed mutation left the database in doubt
  Kinds,        \* the commands the page invokes in this instance
  Closers,      \* close waiter threads
  StopCanFail,  \* may a process group survive TERM and KILL?
  CanCrash,     \* may the native process die without running its exit path?
  None

CommandKinds == {"restore", "resume", "delete", "probe", "export"}

ASSUME KindsAssumption    == Kinds \subseteq CommandKinds
ASSUME BooleansAssumption == StopCanFail \in BOOLEAN /\ CanCrash \in BOOLEAN
ASSUME NoneAssumption     == None \notin SidecarIds /\ None \notin Versions
ASSUME DataAssumption     == /\ Deleted \notin Versions /\ Unknown \notin Versions
                             /\ Deleted # Unknown
                             /\ None # Deleted /\ None # Unknown

VARIABLES
  app,          \* where the native process is, from "down" round to "down"
  window,       \* the primary window
  exitAllowed,  \* CloseCoordinator.exit_allowed
  recoveryOnly, \* DesktopDatabaseRecoveryState.recovery_only
  exitEvent,    \* is an exit or restart request queued for the event loop?
  handle,       \* AppState.sidecar
  child,        \* a sidecar that start_sidecar has spawned and not returned
  alive,        \* process groups of sidecars that run
  unkillable,   \* those of them that stop() gave up on
  op,           \* the command that holds data_operation
  helper,       \* the helper process `op` waits for
  orphans,      \* helpers whose application is gone
  apply,        \* the worker that applies a verified update
  updateOp,     \* who holds UpdateStateStore's operation lock
  closers,      \* the close waiters
  data,         \* the live database
  pending,      \* is a pending restore stored?
  tainted       \* has some application ended with work in progress?

appVars  == <<app, window, exitAllowed, recoveryOnly, exitEvent>>
procVars == <<handle, child, alive, unkillable>>
workVars == <<op, helper, orphans>>
restVars == <<apply, updateOp, closers>>
dataVars == <<data, pending>>
vars == <<appVars, procVars, workVars, restVars, dataVars, tainted>>

AppStates == {"down", "boot", "spawn", "starting", "up", "exiting", "exited"}
OpSteps   == {"idle", "quiesce", "launch", "helper", "settle", "allow", "spawn",
              "starting", "rollback", "rollingback", "ready", "disallow", "answered"}
Results   == {"none", "success", "validation", "failed", "required"}
Answers   == {"none", "success", "failed", "quiesce-failed", "rollback-failed",
              "sidecar-unavailable", "recovery-required"}
CloserSteps == {"idle", "waiting", "cleanup", "allow", "destroy"}
DataStates  == Versions \cup {Deleted, Unknown}
\* Helpers that write the live database; "export" only reads it.
Mutators == {"restore", "resume", "delete", "probe", "rollback"}

Operations ==
  [kind : CommandKinds, step : OpSteps, recovery : BOOLEAN, result : Results,
   target : Versions \cup {None}, before : DataStates, safety : Versions \cup {None},
   attempt : {1, 2}, answer : Answers]

Idle   == op.step = "idle"
\* Threads run until the process is gone, the event loop's exit included.
Threads == app \in {"up", "exiting", "exited"}

AppType ==
  /\ app \in AppStates /\ window \in {"none", "open", "destroyed"}
  /\ exitAllowed \in BOOLEAN /\ recoveryOnly \in BOOLEAN /\ exitEvent \in BOOLEAN
ProcType ==
  /\ handle \in SidecarIds \cup {None} /\ child \in SidecarIds \cup {None}
  /\ alive \subseteq SidecarIds /\ unkillable \subseteq SidecarIds
WorkType ==
  /\ op \in Operations
  /\ helper \in Mutators \cup {"export", "none"}
  /\ orphans \subseteq Mutators \cup {"export", "boot"}
RestType ==
  /\ apply \in {"idle", "validate", "allow", "restart"}
  /\ updateOp \in {"free", "delete", "apply"}
  /\ closers \in [Closers -> CloserSteps]
DataType == data \in DataStates /\ pending \in BOOLEAN

TypeOK == AppType /\ ProcType /\ WorkType /\ RestType /\ DataType /\ tainted \in BOOLEAN

NoOp == [kind |-> "export", step |-> "idle", recovery |-> FALSE, result |-> "none",
         target |-> None, before |-> Deleted, safety |-> None, attempt |-> 1,
         answer |-> "none"]

Init ==
  /\ app = "down" /\ window = "none"
  /\ exitAllowed = FALSE /\ recoveryOnly = FALSE /\ exitEvent = FALSE
  /\ handle = None /\ child = None /\ alive = {} /\ unkillable = {}
  /\ op = NoOp /\ helper = "none" /\ orphans = {}
  /\ apply = "idle" /\ updateOp = "free"
  /\ closers = [c \in Closers |-> "idle"]
  /\ data \in Versions /\ pending \in BOOLEAN
  /\ tainted = FALSE

-----------------------------------------------------------------------------
(* SidecarHandle.stop, start_sidecar and AppState's three sidecar helpers.  *)

\* stop(): TERM, then KILL, then give up.  A group that already died counts.
StopSucceeds(s) == alive' = alive \ {s} /\ unkillable' = unkillable \ {s}
StopFails(s)    == /\ StopCanFail /\ s \in alive
                   /\ unkillable' = unkillable \cup {s} /\ UNCHANGED alive

\* start_sidecar spawns the process group ...
SpawnSidecar ==
  \E s \in SidecarIds \ (alive \cup {handle}) :
     child' = s /\ alive' = alive \cup {s} /\ UNCHANGED <<handle, unkillable>>
\* ... and returns a handle that the caller stores,
StoreSidecar == /\ handle' = child /\ child' = None /\ child \in alive
                /\ UNCHANGED <<alive, unkillable>>
\* or fails before there is a child, or stops the child it spawned
\* (cleanup_startup_failure) and drops the handle, stopped or not.
NoSpawn == UNCHANGED procVars
StartFails == /\ child' = None /\ UNCHANGED handle
              /\ StopSucceeds(child) \/ StopFails(child)

\* cleanup_sidecar: nothing to do, stopped, or kept because it will not stop.
CleanupDone == \/ handle = None /\ UNCHANGED procVars
               \/ handle # None /\ StopSucceeds(handle) /\ handle' = None /\ UNCHANGED child
CleanupKept == handle # None /\ StopFails(handle) /\ UNCHANGED <<handle, child>>
CleanupSkipped == UNCHANGED procVars \* mutant
Cleanup == CleanupDone \/ CleanupKept

\* allow_application_exit and disallow_application_exit.
ExitUnchanged == UNCHANGED exitAllowed \* mutant
AllowExit     == exitAllowed' = TRUE
ForbidExit    == exitAllowed' = FALSE

-----------------------------------------------------------------------------
(* run_application: setup, up to the window.                                *)

Launch ==
  /\ app = "down"
  /\ app' = "boot"
  /\ UNCHANGED <<window, exitAllowed, recoveryOnly, exitEvent, procVars, workVars,
                 restVars, dataVars, tainted>>

\* The startup migration, the update recovery and the bootstrap are helpers
\* that setup waits for: a usable database, a recovery screen without a
\* sidecar, or an error that ends the process.
BootFinishes ==
  /\ app = "boot"
  /\ \/ /\ app' = "spawn"
        /\ IF data \in Versions THEN UNCHANGED data ELSE data' \in Versions
        /\ UNCHANGED <<window, exitAllowed, recoveryOnly>>
     \/ /\ app' = "up" /\ window' = "open"
        /\ recoveryOnly' = TRUE /\ exitAllowed' = TRUE
        /\ UNCHANGED data
     \/ /\ app' = "down"
        /\ UNCHANGED <<window, exitAllowed, recoveryOnly, data>>
  /\ UNCHANGED <<exitEvent, procVars, workVars, restVars, pending, tainted>>

BootSpawns ==
  /\ app = "spawn"
  /\ \/ SpawnSidecar /\ app' = "starting"
     \/ NoSpawn /\ app' = "down"
  /\ UNCHANGED <<window, exitAllowed, recoveryOnly, exitEvent, workVars, restVars, dataVars, tainted>>

\* The runtime answered: the window opens, and a bundle that was just switched
\* (RestartRequired) restarts at once.
BootReady ==
  /\ app = "starting"
  /\ \/ /\ StoreSidecar
        /\ app' = "up" /\ window' = "open"
        /\ \E restart \in BOOLEAN : exitAllowed' = restart /\ exitEvent' = restart
     \/ /\ StartFails
        /\ app' = "down" /\ UNCHANGED <<window, exitAllowed, exitEvent>>
  /\ UNCHANGED <<recoveryOnly, workVars, restVars, dataVars, tainted>>

-----------------------------------------------------------------------------
(* The command workers: run_data_backup_operation_command,                  *)
(* run_pending_restore_resume_command, run_desktop_backup_recovery_command. *)

Answer(code) == op' = [op EXCEPT !.step = "answered", !.answer = code]
Continue(step) == op' = [op EXCEPT !.step = step]

\* The command returns: its guards release data_operation, and the update
\* operation that a delete holds.
Return ==
  /\ Threads /\ op.step = "answered"
  /\ op' = NoOp
  /\ updateOp' = IF updateOp = "delete" THEN "free" ELSE updateOp
  /\ UNCHANGED <<appVars, procVars, helper, orphans, apply, closers, dataVars, tainted>>

\* A restore from the recovery screen finds no sidecar to quiesce.
InRecovery(kind) == recoveryOnly /\ kind \in {"restore", "resume"}
QuiescesProbeNot(kind) == kind \in {"restore", "resume", "delete"} /\ ~InRecovery(kind) \* mutant
Quiesces(kind) == kind # "export" /\ ~InRecovery(kind)

BeginCommand(kind) ==
  /\ app = "up" /\ Idle
  /\ kind = "resume" => pending
  /\ kind = "probe"  => ~recoveryOnly
  /\ IF kind = "delete" THEN updateOp = "free" /\ updateOp' = "delete"
                        ELSE UNCHANGED updateOp
  /\ \E target \in IF kind \in {"restore", "resume"} THEN Versions ELSE {None} :
       op' = [NoOp EXCEPT !.kind = kind, !.target = target, !.before = data,
                !.recovery = InRecovery(kind),
                !.step = IF Quiesces(kind) THEN "quiesce" ELSE "launch"]
  /\ UNCHANGED <<appVars, procVars, helper, orphans, apply, closers, dataVars, tainted>>

\* quiesce_sidecar_for_data_operation: unlike cleanup, no sidecar is an error.
Quiesce ==
  /\ Threads /\ op.step = "quiesce"
  /\ \/ handle # None /\ CleanupDone /\ Continue("launch")
     \/ CleanupKept /\ Answer("quiesce-failed")
     \/ handle = None /\ UNCHANGED procVars /\ Answer("quiesce-failed")
  /\ UNCHANGED <<appVars, helper, orphans, restVars, dataVars, tainted>>

\* The helper starts; or the request is refused before that ("validation"),
\* or the process cannot be started ("operation").
LaunchHelper ==
  /\ Threads /\ op.step = "launch"
  /\ \/ helper' = op.kind /\ op' = [op EXCEPT !.step = "helper"]
     \/ \E result \in {"validation", "failed"} :
          /\ op' = [op EXCEPT !.step = "settle", !.result = result]
          /\ UNCHANGED helper
  /\ UNCHANGED <<appVars, procVars, orphans, restVars, dataVars, tainted>>

\* What the helper can have done by the time it answers.  A restore validates
\* the live database first, unless it runs in recovery mode; its success has
\* published a safety backup of what it replaced.  A failure may have left either
\* version, or neither: the sync after the switch fails when the switch is done,
\* and a helper that dies or whose answer is lost counts as failed too.
HelperOutcome(result) ==
  CASE op.kind \in {"restore", "resume"} /\ result = "success" ->
         /\ data \in Versions \/ op.recovery
         /\ data' = op.target
         /\ pending' = (pending /\ op.kind # "resume")
    [] op.kind \in {"restore", "resume"} /\ result = "failed" ->
         /\ data' \in {data, op.target, Unknown}
         /\ pending' \in IF op.kind = "resume" THEN {pending, FALSE} ELSE {pending}
    [] op.kind = "delete" /\ result = "failed" ->
         data' \in {data, Deleted, Unknown} /\ pending' \in {pending, FALSE}
    [] op.kind = "delete" /\ result = "success" ->
         data' = Deleted /\ pending' = FALSE
    [] OTHER -> UNCHANGED dataVars

\* createRestoreSafetyBackup copies the live database before the switch.
SafetyBackup == IF data \in Versions THEN data ELSE None

\* "success" of a probe is a database found ready, "required" one that needs
\* the recovery screen.
HelperFinishes ==
  /\ Threads /\ op.step = "helper"
  /\ \E result \in {"success", "validation", "failed", "required"} :
       /\ result = "required" => op.kind = "probe"
       /\ HelperOutcome(result)
       /\ op' = [op EXCEPT !.step = "settle", !.result = result,
                   !.before = data, !.safety = SafetyBackup]
  /\ helper' = "none"
  /\ UNCHANGED <<appVars, procVars, orphans, restVars, tainted>>

\* A delete that was refused restarts the sidecar; any other ends with it stopped.
AfterDeleteRestarts == "spawn" \* mutant
AfterDelete == IF op.result = "validation" THEN "spawn" ELSE "allow"

\* The branch each command takes on the helper's answer.
Settle ==
  /\ Threads /\ op.step = "settle"
  /\ LET Code == IF op.result = "success" THEN "success" ELSE "failed" IN
     \/ /\ op.kind = "export"
        /\ Answer(Code) /\ UNCHANGED recoveryOnly
     \/ /\ op.kind = "delete"
        /\ Continue(AfterDelete)
        /\ UNCHANGED recoveryOnly
     \/ /\ op.kind = "probe"
        /\ Continue(IF op.result = "required" THEN "allow" ELSE "spawn")
        /\ recoveryOnly' = (op.result = "required")
     \/ /\ op.kind \in {"restore", "resume"}
        /\ IF op.recovery /\ op.result # "success" THEN Answer(Code) ELSE Continue("spawn")
        /\ UNCHANGED recoveryOnly
  /\ UNCHANGED <<app, window, exitAllowed, exitEvent, procVars, helper, orphans, restVars, dataVars, tainted>>

\* allow_application_exit: the sidecar stays stopped, so nothing can be unsaved.
AllowAfterCommand ==
  /\ Threads /\ op.step = "allow"
  /\ AllowExit
  /\ Answer(IF op.kind = "probe" THEN "recovery-required"
            ELSE IF op.result = "success" THEN "success" ELSE "failed")
  /\ UNCHANGED <<app, window, recoveryOnly, exitEvent, procVars, helper, orphans, restVars, dataVars, tainted>>

\* What a command does when the sidecar will not start: a successful normal
\* restore is rolled back once, everything else is answered.
RestartFailedNoRollback == Answer("quiesce-failed") \* mutant
RestartFailedRetries == Continue("spawn") \* mutant
RestartFailed ==
  IF op.attempt = 2 THEN Answer("rollback-failed")
  ELSE IF op.kind \in {"restore", "resume"} /\ ~op.recovery /\ op.result = "success"
       THEN Continue("rollback")
  ELSE Answer(CASE op.recovery -> "sidecar-unavailable"
                [] op.kind = "probe" /\ op.result = "success" -> "sidecar-unavailable"
                [] op.kind = "probe" -> "failed"
                [] OTHER -> "quiesce-failed")

Restart ==
  /\ Threads /\ op.step = "spawn"
  /\ \/ SpawnSidecar /\ Continue("starting")
     \/ NoSpawn /\ RestartFailed
  /\ UNCHANGED <<appVars, helper, orphans, restVars, dataVars, tainted>>

\* restart_sidecar_for_data_operation stores the handle if the slot is empty.
\* A slot that is taken is an error, and dropping the new handle stops it.
Restarted ==
  /\ Threads /\ op.step = "starting"
  /\ \/ /\ handle = None /\ StoreSidecar
        /\ IF op.recovery THEN Continue("ready")
           ELSE Answer(IF op.attempt = 2 THEN "quiesce-failed"
                       ELSE IF op.result = "success" THEN "success" ELSE "failed")
     \/ StartFails /\ RestartFailed
  /\ UNCHANGED <<appVars, helper, orphans, restVars, dataVars, tainted>>

\* The compensating restore of the safety backup, in normal mode.
Rollback ==
  /\ Threads /\ op.step = "rollback"
  /\ helper' = "rollback"
  /\ op' = [op EXCEPT !.step = "rollingback"]
  /\ UNCHANGED <<appVars, procVars, orphans, restVars, dataVars, tainted>>

RollbackFinishes ==
  /\ Threads /\ op.step = "rollingback"
  /\ helper' = "none"
  /\ \/ /\ data' = op.safety
        /\ op' = [op EXCEPT !.step = "spawn", !.attempt = 2]
     \/ data' \in {data, op.safety, Unknown} /\ Answer("rollback-failed")
  /\ UNCHANGED <<appVars, procVars, orphans, restVars, pending, tainted>>

\* mark_database_recovery_ready: two stores, in this order.
RecoveryReady ==
  /\ Threads /\ op.step = "ready"
  /\ recoveryOnly' = FALSE
  /\ Continue("disallow")
  /\ UNCHANGED <<app, window, exitAllowed, exitEvent, procVars, helper, orphans, restVars, dataVars, tainted>>

DisallowExit ==
  /\ Threads /\ op.step = "disallow"
  /\ ForbidExit
  /\ Answer("success")
  /\ UNCHANGED <<app, window, recoveryOnly, exitEvent, procVars, helper, orphans, restVars, dataVars, tainted>>

-----------------------------------------------------------------------------
(* apply_verified_update_worker and request_explicit_update_restart.  It     *)
(* takes the update operation lock and not the data operation lock.  The    *)
(* recovery screen does not offer updates.                                  *)

BeginApply ==
  /\ app = "up" /\ apply = "idle" /\ updateOp = "free" /\ ~recoveryOnly
  /\ apply' = "validate" /\ updateOp' = "apply"
  /\ UNCHANGED <<appVars, procVars, workVars, closers, dataVars, tainted>>

\* The preparation and the restart handoff are on disk, or the update is
\* refused.
ApplyPrepared ==
  /\ Threads /\ apply = "validate"
  /\ \/ apply' = "allow" /\ UNCHANGED updateOp
     \/ apply' = "idle" /\ updateOp' = "free"
  /\ UNCHANGED <<appVars, procVars, workVars, closers, dataVars, tainted>>

ApplyAllowsExit ==
  /\ Threads /\ apply = "allow"
  /\ AllowExit /\ apply' = "restart"
  /\ UNCHANGED <<app, window, recoveryOnly, exitEvent, procVars, workVars, updateOp,
                 closers, dataVars, tainted>>

ApplyRequestsRestart ==
  /\ Threads /\ apply = "restart"
  /\ exitEvent' = TRUE /\ apply' = "idle" /\ updateOp' = "free"
  /\ UNCHANGED <<app, window, exitAllowed, recoveryOnly, procVars, workVars, closers, dataVars, tainted>>

-----------------------------------------------------------------------------
(* Closing: request_close, finalize_close, the window's CloseRequested      *)
(* handler, handle_exit_requested and RunEvent::Exit.  What passes between  *)
(* the coordinator and the page is the module CloseBridge.                  *)

NoneWaiting == \A c \in Closers : closers[c] # "waiting"

\* request_close while exit is not allowed: one request waits at a time.
BeginClose(c) == closers[c] = "idle" /\ NoneWaiting /\ closers' = [closers EXCEPT ![c] = "waiting"]

\* The user closes the window.
CloseWindow ==
  /\ app = "up" /\ window = "open"
  /\ IF exitAllowed
     THEN window' = "destroyed" /\ exitEvent' = TRUE /\ UNCHANGED closers
     ELSE (\E c \in Closers : BeginClose(c)) /\ UNCHANGED <<window, exitEvent>>
  /\ UNCHANGED <<app, exitAllowed, recoveryOnly, procVars, workVars, apply, updateOp, dataVars, tainted>>

\* The menu's Quit asks the event loop to exit.
Quit ==
  /\ app = "up" /\ window = "open" /\ ~exitEvent
  /\ exitEvent' = TRUE
  /\ UNCHANGED <<app, window, exitAllowed, recoveryOnly, procVars, workVars, restVars, dataVars, tainted>>

\* The page answered save, discard or clean; or cancel, or nothing in time.
CloseDecided(c) ==
  /\ Threads /\ closers[c] = "waiting"
  /\ \E step \in {"cleanup", "idle"} : closers' = [closers EXCEPT ![c] = step]
  /\ UNCHANGED <<appVars, procVars, workVars, apply, updateOp, dataVars, tainted>>

FinalizeCleanup(c) ==
  /\ Threads /\ closers[c] = "cleanup"
  /\ \/ CleanupDone /\ closers' = [closers EXCEPT ![c] = "allow"]
     \/ CleanupKept /\ closers' = [closers EXCEPT ![c] = "idle"]
  /\ UNCHANGED <<appVars, workVars, apply, updateOp, dataVars, tainted>>

FinalizeAllow(c) ==
  /\ Threads /\ closers[c] = "allow"
  /\ AllowExit
  /\ closers' = [closers EXCEPT ![c] = "destroy"]
  /\ UNCHANGED <<app, window, recoveryOnly, exitEvent, procVars, workVars, apply, updateOp, dataVars, tainted>>

FinalizeExit(c) ==
  /\ Threads /\ closers[c] = "destroy"
  /\ window' = "destroyed" /\ exitEvent' = TRUE
  /\ closers' = [closers EXCEPT ![c] = "idle"]
  /\ UNCHANGED <<app, exitAllowed, recoveryOnly, procVars, workVars, apply, updateOp, dataVars, tainted>>

\* ExitRequested: let it pass, or prevent it and start the close protocol when
\* there is a window to ask.
HandleExitRequested ==
  /\ app = "up" /\ exitEvent
  /\ exitEvent' = FALSE
  /\ \/ exitAllowed /\ app' = "exiting" /\ UNCHANGED closers
     \/ /\ ~exitAllowed /\ UNCHANGED app
        /\ IF window = "open" /\ NoneWaiting /\ \E c \in Closers : closers[c] = "idle"
           THEN \E c \in Closers : BeginClose(c)
           ELSE UNCHANGED closers
  /\ UNCHANGED <<window, exitAllowed, recoveryOnly, procVars, workVars, apply, updateOp, dataVars, tainted>>

\* RunEvent::Exit: the last cleanup_sidecar; a failure is only logged.
ExitCleanup ==
  /\ app = "exiting"
  /\ app' = "exited"
  /\ Cleanup
  /\ tainted' = (tainted \/ ~Idle)
  /\ UNCHANGED <<window, exitAllowed, recoveryOnly, exitEvent, workVars, restVars, dataVars>>

\* The process is gone with its threads and locks.  Child processes are not.
ProcessGone ==
  /\ app' = "down" /\ window' = "none"
  /\ exitAllowed' = FALSE /\ recoveryOnly' = FALSE /\ exitEvent' = FALSE
  /\ handle' = None /\ child' = None
  /\ orphans' = orphans \cup (IF app = "boot" THEN {"boot"}
                             ELSE IF helper = "none" THEN {} ELSE {helper})
  /\ op' = NoOp /\ helper' = "none"
  /\ apply' = "idle" /\ updateOp' = "free"
  /\ closers' = [c \in Closers |-> "idle"]
  /\ UNCHANGED <<alive, unkillable, dataVars>>

Exit == app = "exited" /\ ProcessGone /\ tainted' = (tainted \/ ~Idle)
Crash == CanCrash /\ app # "down" /\ ProcessGone /\ tainted' = TRUE

-----------------------------------------------------------------------------
(* Processes on their own.                                                  *)

SidecarDies(s) ==
  /\ s \in alive
  /\ alive' = alive \ {s} /\ unkillable' = unkillable \ {s}
  /\ UNCHANGED <<appVars, handle, child, workVars, restVars, dataVars, tainted>>

\* A helper nobody waits for any more finishes what it was doing.
OrphanFinishes(h) ==
  /\ h \in orphans
  /\ orphans' = orphans \ {h}
  /\ IF h = "export" THEN UNCHANGED data ELSE data' \in DataStates
  /\ UNCHANGED <<appVars, procVars, op, helper, restVars, pending, tainted>>

\* One disjunct per thread: what it does once it has been started.
SetupThread    == BootFinishes \/ BootSpawns \/ BootReady
CommandThread  == \/ Quiesce \/ LaunchHelper \/ HelperFinishes \/ Settle \/ AllowAfterCommand
                  \/ Restart \/ Restarted \/ Rollback \/ RollbackFinishes
                  \/ RecoveryReady \/ DisallowExit \/ Return
UpdateThread   == ApplyPrepared \/ ApplyAllowsExit \/ ApplyRequestsRestart
CloseThread(c) == CloseDecided(c) \/ FinalizeCleanup(c) \/ FinalizeAllow(c) \/ FinalizeExit(c)
EventLoop      == HandleExitRequested \/ ExitCleanup \/ Exit
User           == \/ Launch \/ BeginApply \/ CloseWindow \/ Quit
                  \/ \E kind \in Kinds : BeginCommand(kind)
System         == \/ Crash
                  \/ \E s \in SidecarIds : SidecarDies(s)
                  \/ \E h \in orphans : OrphanFinishes(h)

Next == \/ SetupThread \/ CommandThread \/ UpdateThread \/ EventLoop
        \/ \E c \in Closers : CloseThread(c)
        \/ User \/ System
Spec == Init /\ [][Next]_vars

\* The threads run, and every helper process ends: launch_data_backup_operation
\* waits for it without a timeout, so that a helper never hangs is an assumption.
Fairness ==
  /\ WF_vars(SetupThread) /\ WF_vars(CommandThread) /\ WF_vars(UpdateThread)
  /\ WF_vars(EventLoop)
  /\ \A c \in Closers : WF_vars(CloseThread(c))
FairSpec == Spec /\ Fairness

-----------------------------------------------------------------------------
(* What must hold.                                                          *)

\* A helper that replaces, deletes or repairs the live database never runs while
\* this process has a sidecar, stored or starting: the quiesce, the restarts and
\* the closing threads all touch the slot.
NoMutationUnderSidecar == helper \in Mutators => handle = None /\ child = None

\* Every sidecar that runs is stored, starting, or one that survived TERM and
\* KILL, across restarts of the application too, as long as no application
\* ended in the middle of a command.
SidecarAccounted == ~tainted => alive \subseteq {handle, child} \cup unkillable

\* The database has one writer at a time: a sidecar, a mutating helper, or the
\* helpers of the next start (leaving aside what survived KILL).
OneWriter ==
  ~tainted =>
    /\ helper \in Mutators \/ app \in {"down", "boot", "spawn"} => alive \subseteq unkillable
    /\ orphans = {}
    /\ \A s, t \in alive \ unkillable : s = t

\* restart_sidecar_for_data_operation never finds a sidecar in the slot: its
\* error "sidecar unexpectedly resumed before restart" is unreachable.
SlotIsFree == op.step = "starting" \/ app = "starting" => handle = None

\* The application is ending: a close has stopped the sidecar, or more.
Leaving == \/ app # "up" \/ window = "destroyed"
           \/ \E c \in Closers : closers[c] \in {"allow", "destroy"}

\* Exit is allowed without asking for unsaved work only when no sidecar serves a
\* page, or when the application is on its way out already.
PromptNotBypassed ==
  exitAllowed /\ handle # None /\ app = "up" =>
    \/ exitEvent \/ window = "destroyed"
    \/ apply = "restart"
    \/ \E c \in Closers : closers[c] = "destroy"
    \/ op.step \in {"ready", "disallow"}

\* After a delete that succeeded nothing opens the database again in this
\* application: the next start owns the bootstrap.
DeletedStaysStopped == ~tainted /\ data = Deleted => handle = None /\ child = None

\* The rollback has the safety backup of what the restore replaced.
RollbackHasBackup ==
  op.step \in {"rollback", "rollingback"} =>
    op.safety \in Versions /\ op.before = op.safety

\* The answer to a restore is true of the database.  Success: the requested version
\* is live, under a sidecar.  "sidecar-unavailable": it is live, and the recovery
\* screen that stays can be closed.  A rollback that worked, or a restore whose
\* helper did not fail, ends with the version that was there, whatever the
\* sidecar does afterwards.  Nothing is said of a helper that failed, which may
\* have switched the versions or not, nor of one that an earlier application left
\* behind.
AnswerIsTrue ==
  ~tainted /\ op.step = "answered" /\ op.kind \in {"restore", "resume"} =>
    /\ op.answer = "success" => data = op.target /\ (handle # None \/ Leaving)
    /\ op.answer = "sidecar-unavailable" =>
         data = op.target /\ recoveryOnly /\ (exitAllowed \/ Leaving)
    /\ op.attempt = 2 => data = op.before
    /\ op.answer \in {"failed", "quiesce-failed"} /\ op.result # "failed" => data = op.before

\* Every command ends, or the application does: no command waits for a close,
\* and no close for a command.
CommandEnds == (~Idle) ~> (Idle \/ app = "down")

\* A close the user confirmed ends the application once the sidecar is stopped,
\* unless a restore from the recovery screen comes between: its success withdraws
\* the permission to exit.
CloseEnds ==
  \A c \in Closers :
    (closers[c] = "allow") ~>
      \/ app = "down"
      \/ op.recovery /\ op.step = "answered" /\ op.answer = "success"

\* PRODUCT_SPEC.md:88: closing the last primary window ends the application.
WindowEnds == (window = "destroyed") ~> (app = "down")

\* PRODUCT_SPEC.md:88: closing the last window stops the runtime and every child
\* process of the application, and leaves no orphan.
NoOrphanAfterExit == app = "down" => alive \subseteq unkillable /\ orphans = {}

\* settings-modal.tsx:372: a resume that could not be completed keeps the pending
\* restore.
FailedResumeKeepsPending ==
  op.step = "answered" /\ op.kind = "resume"
    /\ op.answer \in {"quiesce-failed", "rollback-failed"} => pending
=============================================================================
