---------------------------- MODULE DataCommand ----------------------------
(***************************************************************************)
(* The data commands of the shell over the processes they start: a command *)
(* of the page (lifecycle.rs) stops the local runtime when it replaces or  *)
(* deletes the database, builds the request of a helper from what the user *)
(* chose in a file dialog, runs the helper, believes its answer or not,    *)
(* and starts the runtime again (runtime.rs).  The setup of the            *)
(* application (main.rs) does the same once for the bootstrap helper.      *)
(*                                                                         *)
(* SidecarRuntime has the runtime's processes, HelperAnswers the answers;  *)
(* DesktopLifecycle has the same commands over abstract processes, with    *)
(* the windows, the exits and the database.                                *)
(***************************************************************************)
EXTENDS SidecarRuntime, HelperAnswers

CONSTANTS
  MaxCommands,  \* bound on the commands of one run of the application
  MaxEdits      \* bound on what the user does to the chosen path

ASSUME CommandAssumption == MaxCommands \in Nat /\ MaxEdits \in Nat

VARIABLES
  op,        \* the command that holds data_operation
  at,        \* where it is
  inRecovery,\* the mode it found (DesktopRestoreMode)
  again,     \* is the helper the rollback of a restore?
  truth,     \* what the helper really came to, when the reply claims something (history)
  reply,     \* the answer the shell goes by, at last the page's
  flag,      \* DesktopDatabaseRecoveryState.recovery_only
  snapshot,  \* DesktopDatabaseRecoveryState.snapshot
  seen,      \* the flag a reader of the state has read, before it reads the snapshot
  chosen,    \* DesktopFileSelectionStore: the dialog of the selection
  path,      \* what is at the path chosen there
  edits, commands

job == <<op, at, inRecovery, again, truth, reply, commands>>
recovery == <<flag, snapshot, seen>>
selection == <<chosen, path, edits>>
commandVars == <<vars, job, recovery, selection>>

Dialogs == {"save-destination", "open-external-source", "diagnostic-export"}
PathKinds == {"file", "missing", "other"}
Places == {"idle", "quiesce", "quiescing", "build", "run", "settle", "restart",
           "restarting", "mark", "flag", "ready", "answered", "ended"}
AllStatuses == {"none"} \cup UNION {Statuses(o) : o \in Ops}

CommandTypeOK ==
  /\ TypeOK
  /\ op \in Ops \cup {"none"} /\ at \in Places
  /\ inRecovery \in BOOLEAN /\ again \in BOOLEAN
  /\ truth \in Replies(AllStatuses) /\ reply \in Replies(AllStatuses)
  /\ flag \in BOOLEAN /\ snapshot \in Snapshots \cup {NoSnapshot}
  /\ seen \in {"nothing", "ready", "recovery"}
  /\ chosen \in Dialogs \cup {"none"} /\ path \in PathKinds
  /\ edits \in 0 .. MaxEdits /\ commands \in 0 .. MaxCommands
  /\ at \in {"quiescing", "restarting"} \/ call = "none"

NoReply == [Failed("operation") EXCEPT !.status = "none"]

CommandInit ==
  /\ Init
  /\ op = "boot" /\ at = "run" /\ inRecovery = FALSE /\ again = FALSE
  /\ truth = NoReply /\ reply = NoReply
  /\ flag = FALSE /\ snapshot = NoSnapshot /\ seen = "nothing"
  /\ chosen = "none" /\ path = "missing" /\ edits = 0 /\ commands = 0

Alive == step # "dead"
HasHandle == answer \in {"handle", "unstopped"}
Quiet == UNCHANGED vars

-----------------------------------------------------------------------------
(* The file dialogs.                                                       *)

\* validate_external_path: a regular file outside the application's folders, or
\* nothing yet where a file is to be written; a link, a folder, or a path that
\* cannot be reached is refused.
ValidPath(dialog, p) ==
  p \in {"file"} \cup IF dialog = "open-external-source" THEN {} ELSE {"missing"}

\* choose_data_backup_file: the dialog returns a file, a path to write to, or a
\* folder in which a name that does not exist yet is made up.  One choice in a run:
\* the store keeps the selections apart by a random id.
Choose(dialog) ==
  /\ Alive /\ at = "idle" /\ chosen = "none"
  /\ path' = IF dialog = "open-external-source" THEN "file" ELSE "missing"
  /\ ValidPath(dialog, path')
  /\ chosen' = dialog
  /\ Quiet /\ UNCHANGED <<job, recovery, edits>>

\* The user, or another program, changes what is there, at the latest while the
\* runtime is being stopped.
EditPath ==
  /\ Alive /\ at = "build" /\ op \in {"export", "restore"}
  /\ chosen # "none" /\ edits < MaxEdits
  /\ \E p \in PathKinds \ {path} : path' = p
  /\ edits' = edits + 1
  /\ Quiet /\ UNCHANGED <<job, recovery, chosen>>

-----------------------------------------------------------------------------
(* A command: run_data_backup_operation_command,                           *)
(* run_pending_restore_resume_command, run_desktop_backup_recovery_command *)
(* and the two reads, which need no lock.                                  *)

GoesTo(a) == at' = a /\ UNCHANGED <<op, inRecovery, again, truth, reply, commands>>
AnswersWith(r) ==
  /\ at' = "answered" /\ reply' = r
  /\ UNCHANGED <<op, inRecovery, again, truth, commands>>
Refused(phase) == AnswersWith(Failed(phase))

Stops(o) == o \in {"restore", "delete", "resume", "probe"}
Restores(o) == o \in {"restore", "resume"}

\* The request reaches the command.  It is refused when it is malformed or not
\* confirmed, when what it needs is not there, and, for a deletion, while an update
\* is under way.  In recovery there is no runtime to stop for a restore, and no probe.
Request(o) ==
  /\ Alive /\ at = "idle" /\ o # "boot" /\ commands < MaxCommands
  /\ op' = o /\ inRecovery' = (flag /\ Restores(o)) /\ again' = FALSE
  /\ commands' = commands + 1
  /\ truth' = NoReply
  /\ \/ at' = "answered" /\ reply' = Failed("operation")
     \/ /\ ~(o = "probe" /\ flag)
        /\ at' = IF Stops(o) /\ ~(flag /\ Restores(o)) THEN "quiesce" ELSE "build"
        /\ reply' = NoReply
  /\ Quiet /\ UNCHANGED <<recovery, selection>>

\* quiesce_sidecar_for_data_operation.
Quiesce ==
  /\ Alive /\ at = "quiesce"
  /\ \/ HasHandle /\ StopSidecar /\ GoesTo("quiescing")
     \/ ~HasHandle /\ Quiet /\ Refused("operation")
  /\ UNCHANGED <<recovery, selection>>

Quiesced ==
  /\ Alive /\ at = "quiescing" /\ call = "none"
  /\ \/ answer = "stopped" /\ GoesTo("build")
     \/ answer = "unstopped" /\ Refused("operation")
  /\ Quiet /\ UNCHANGED <<recovery, selection>>

\* DesktopFileSelectionStore::resolve for the dialog the operation expects.
Resolves(dialog) == chosen = dialog /\ ValidPath(dialog, path)

\* build_data_backup_sidecar_request and resolve_data_backup_location: a source
\* from the catalog or from a dialog, a destination from a dialog.  The rollback
\* names the safety backup of the restore.
Build ==
  /\ Alive /\ at = "build"
  /\ \/ /\ op = "export" => Resolves("save-destination")
        /\ GoesTo("run")
     \/ /\ op \in {"export", "restore"} /\ ~again
        /\ ~Resolves(IF op = "export" THEN "save-destination" ELSE "open-external-source")
        /\ at' = "settle" /\ reply' = Failed("validation")
        /\ UNCHANGED <<op, inRecovery, again, truth, commands>>
  /\ Quiet /\ UNCHANGED <<recovery, selection>>

\* The answers that claim something.
Facts == {"success", "cancelled", "ready", "recovery-required", "recovery", "empty", "none",
          "available", "invalid"}

\* The helper runs to its end, or to its death before or after it has answered,
\* or it cannot be started at all.
HelperOp == IF again THEN "restore" ELSE op

RunHelper ==
  /\ Alive /\ at = "run"
  /\ \/ \E a \in HonestAnswers[HelperOp] : \E output \in Outputs[HelperOp][a] :
          /\ reply' = ReplyOf(HelperOp, output)
          /\ truth' = IF reply'.status \in Facts THEN Reply(a) ELSE NoReply
     \/ truth' = NoReply /\ reply' = Failed("operation")
  /\ at' = "settle"
  /\ UNCHANGED <<op, inRecovery, again, commands>>
  /\ Quiet /\ UNCHANGED <<recovery, selection>>

Success == reply.status = "success"

\* What the command does with the answer.
Settle ==
  /\ Alive /\ at = "settle"
  /\ CASE op \in {"export", "catalog", "status"} -> GoesTo("answered")
       [] op = "delete" ->
            GoesTo(IF reply.refused THEN "restart" ELSE "answered")
       [] again -> IF Success THEN GoesTo("restart") ELSE Refused("operation")
       [] ~again /\ Restores(op) -> GoesTo(IF inRecovery /\ ~Success THEN "answered" ELSE "restart")
       [] op = "probe" ->
            GoesTo(IF reply.status = "recovery-required" THEN "mark" ELSE "restart")
       [] op = "boot" ->
            GoesTo(CASE reply.status = "recovery" -> "mark"
                     [] reply.status = "ready" -> "restart"
                     [] OTHER -> "ended")
  /\ Quiet /\ UNCHANGED <<recovery, selection>>

\* restart_sidecar_for_data_operation, and the start of the setup.
Restart ==
  /\ Alive /\ at = "restart" /\ StartSidecar /\ GoesTo("restarting")
  /\ UNCHANGED <<recovery, selection>>

Restarted ==
  /\ Alive /\ at = "restarting" /\ call = "none"
  /\ \/ /\ answer = "handle"
        /\ \/ again /\ Refused("operation")
           \/ ~again /\ inRecovery /\ GoesTo("ready")
           \/ ~again /\ ~inRecovery /\ GoesTo("answered")
     \/ /\ answer # "handle"
        /\ \/ op = "boot" /\ GoesTo("ended")
           \/ op = "probe" /\ reply.status # "ready" /\ GoesTo("answered")
           \/ /\ Restores(op) /\ ~inRecovery /\ ~again /\ Success
              /\ reply.saved
              /\ at' = "build" /\ again' = TRUE
              /\ UNCHANGED <<op, inRecovery, truth, reply, commands>>
           \/ /\ ~(Restores(op) /\ ~inRecovery /\ ~again /\ Success /\ reply.saved)
              /\ op # "boot" /\ (op = "probe" => reply.status = "ready")
              /\ Refused("operation")
  /\ Quiet /\ UNCHANGED <<recovery, selection>>

-----------------------------------------------------------------------------
(* DesktopDatabaseRecoveryState.                                           *)

\* mark_recovery_only, and recovery_only at setup: the snapshot, then the flag.
\* mutant: the flag first, and the snapshot with it only after the answer
FlagFirst ==
  /\ Alive /\ at = "mark"
  /\ flag' = TRUE /\ GoesTo("flag") /\ Quiet /\ UNCHANGED <<snapshot, seen, selection>>

MarkSnapshot ==
  /\ Alive /\ at = "mark"
  /\ snapshot' = reply.snapshot /\ GoesTo("flag")
  /\ Quiet /\ UNCHANGED <<flag, seen, selection>>

MarkFlag ==
  /\ Alive /\ at = "flag"
  /\ flag' = TRUE /\ GoesTo("answered")
  /\ Quiet /\ UNCHANGED <<snapshot, seen, selection>>

\* mark_database_recovery_ready.
\* mutant: the flag survives the recovery, and the next restore stops no runtime
StaysInRecovery ==
  /\ Alive /\ at = "ready"
  /\ GoesTo("answered")
  /\ Quiet /\ UNCHANGED <<flag, snapshot, seen, selection>>

MarkReady ==
  /\ Alive /\ at = "ready"
  /\ flag' = FALSE /\ GoesTo("answered")
  /\ Quiet /\ UNCHANGED <<snapshot, seen, selection>>

\* read_desktop_database_recovery_snapshot, from the page: response() loads the
\* flag, then takes the snapshot.
ReadFlag ==
  /\ Alive /\ seen = "nothing" /\ op # "boot" /\ at \in {"mark", "flag", "ready"}
  /\ seen' = IF flag THEN "recovery" ELSE "ready"
  /\ Quiet /\ UNCHANGED <<job, flag, snapshot, selection>>

ReadSnapshot ==
  /\ Alive /\ seen # "nothing"
  /\ seen' = "nothing"
  /\ Quiet /\ UNCHANGED <<job, flag, snapshot, selection>>

\* The command returns and gives data_operation back.
Done ==
  /\ Alive /\ at = "answered"
  /\ op' = "none" /\ at' = "idle" /\ inRecovery' = FALSE /\ again' = FALSE
  /\ truth' = NoReply /\ reply' = NoReply
  /\ Quiet /\ UNCHANGED <<commands, recovery, selection>>

-----------------------------------------------------------------------------
Command ==
  \/ \E o \in Ops : Request(o)
  \/ Quiesce \/ Quiesced \/ Build \/ RunHelper \/ Settle \/ Restart \/ Restarted
  \/ MarkSnapshot \/ MarkFlag \/ MarkReady \/ Done

\* The steps of a start or a stop under way, the processes, and the end of the
\* shell: the job waits.  Only a stop looks at the processes of a runtime that was
\* handed over, so what they do between two commands is left to the moment before
\* it; what they do when the shell is gone is not followed.
Pauses == {"quiesce", "quiescing", "restart", "restarting"}
ShellWorks == call # "none" /\ Shell
ProcessesMove ==
  /\ Alive /\ at \in Pauses \cup IF op = "boot" \/ Stops(op) THEN {"run"} ELSE {}
  /\ Group
Waits ==
  /\ ShellWorks \/ ProcessesMove \/ ShellDies
  /\ UNCHANGED <<job, recovery, selection>>

CommandNext ==
  \/ Command \/ (\E d \in Dialogs : Choose(d)) \/ EditPath \/ ReadFlag \/ ReadSnapshot
  \/ Waits

CommandSpec ==
  CommandInit /\ [][CommandNext]_commandVars
    /\ WF_commandVars(ShellWorks /\ UNCHANGED <<job, recovery, selection>>)

-----------------------------------------------------------------------------
\* What a command reports as a fact, its helper has found or done: no answer of
\* another operation, of another version, or that contradicts itself passes for
\* it, nor one a helper that died halfway left, nor what a rollback undid.
ReplyIsTrue ==
  at = "answered" /\ reply.status \in Facts
    => reply.status = truth.status /\ reply.snapshot = truth.snapshot

\* While a helper replaces or deletes the database, neither the launcher nor the
\* runtime it may have left behind can touch it: a stop that succeeded has seen the
\* whole group gone, and a start that failed has at least killed it, whichever of
\* the two processes crashed or hung meanwhile; and a command that stops nothing,
\* because it found the recovery flag up, finds no runtime either.
Active(p) == p \notin {"none", "dying", "gone"}
RuntimeIsQuiet ==
  at = "run" /\ op \in {"boot", "restore", "delete", "resume", "probe"}
    => ~Active(launcher) /\ ~Active(runtime)

\* The recovery page never opens without its snapshot: a reader that has seen the
\* flag finds a coherent snapshot behind it.
RecoveryHasSnapshot ==
  seen = "recovery" => snapshot # NoSnapshot /\ Coherent(snapshot)
=============================================================================
