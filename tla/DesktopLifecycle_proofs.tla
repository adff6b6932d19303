----------------------- MODULE DesktopLifecycle_proofs -----------------------
(* The safety of the native shell for any number of sidecar processes, close *)
(* waiters and database contents.  IInv adds to TypeOK what each thread      *)
(* knows about the sidecar slot while it is between two of its steps: the    *)
(* properties of DesktopLifecycle are consequences of it, and no smaller     *)
(* part of it is inductive on its own.                                       *)
EXTENDS DesktopLifecycle, TLAPS

Mutating == {"restore", "resume", "delete", "probe"}

\* Until the window is open no other thread runs, and nothing is left of the
\* application that ran before but its processes.
SetupAlone ==
  app \in {"down", "boot", "spawn", "starting"} =>
    Idle /\ helper = "none" /\ handle = None /\ ~recoveryOnly /\ (child # None => app = "starting")

\* A helper belongs to the step of the command that waits for it.
HelperOwned ==
  helper # "none" => \/ op.step = "helper" /\ helper = op.kind
                     \/ op.step = "rollingback" /\ helper = "rollback"

\* A sidecar that is being started belongs to the thread that waits for it.
ChildOwned == child # None => op.step = "starting" \/ app = "starting"

\* An export never leaves the sidecar's side.
ExportSteps ==
  op.kind = "export" => op.step \in {"idle", "launch", "helper", "settle", "answered"}

\* Between its quiesce and its restart a command finds the slot empty.
SlotQuiet ==
  op.kind \in Mutating /\ op.step \in {"launch", "helper", "settle", "allow", "spawn", "starting",
                                       "rollback", "rollingback"} => handle = None

\* The recovery screen has no sidecar until the command that leaves it.
RecoverySlot == recoveryOnly => handle = None \/ op.step = "ready"
RecoveryCommand ==
  recoveryOnly /\ op.kind \in Mutating =>
     op.recovery \/ op.step \in {"idle", "quiesce", "allow", "answered"}

\* A restore that succeeded in normal mode replaced a usable database, of which
\* it holds the backup.
SafetyKnown ==
  op.kind \in {"restore", "resume"} /\ op.result = "success" /\ ~op.recovery =>
    op.safety \in Versions /\ op.before = op.safety
TargetKnown == op.kind \in {"restore", "resume"} => op.target \in Versions
RollbackOfSuccess ==
  op.step \in {"rollback", "rollingback"} =>
    op.kind \in {"restore", "resume"} /\ op.result = "success" /\ ~op.recovery

\* The last cleanup left nothing that can be stopped, if no command was running.
ExitedClean ==
  app = "exited" /\ ~tainted => Idle /\ (handle \in alive => handle \in unkillable)

Orphanless == ~tainted => orphans = {}

SlotInv    == /\ SetupAlone /\ HelperOwned /\ ChildOwned /\ ExportSteps /\ SlotQuiet
              /\ RecoverySlot /\ RecoveryCommand
RestoreInv == SafetyKnown /\ TargetKnown /\ RollbackOfSuccess
EndInv     == ExitedClean /\ Orphanless /\ SidecarAccounted
IInv       == TypeOK /\ SlotInv /\ RestoreInv /\ EndInv

USE NoneAssumption, DataAssumption
USE DEF IInv, Mutating, Idle, Threads, appVars, procVars, workVars, restVars, dataVars

-----------------------------------------------------------------------------
(* What the steps of a command do to its record.                            *)

Kept(s, t) == s.kind = t.kind /\ s.recovery = t.recovery /\ s.result = t.result
              /\ s.target = t.target /\ s.before = t.before /\ s.safety = t.safety

LEMMA StepFacts ==
  ASSUME op \in Operations, NEW step \in OpSteps, op' = [op EXCEPT !.step = step]
  PROVE  op' \in Operations /\ op'.step = step /\ Kept(op', op) /\ op'.attempt = op.attempt
BY DEF Operations, Kept

LEMMA ContinueFacts ==
  ASSUME op \in Operations, NEW step \in OpSteps, Continue(step)
  PROVE  op' \in Operations /\ op'.step = step /\ Kept(op', op) /\ op'.attempt = op.attempt
BY StepFacts DEF Continue

LEMMA AnswerFacts ==
  ASSUME op \in Operations, NEW code \in Answers, Answer(code)
  PROVE  op' \in Operations /\ op'.step = "answered" /\ Kept(op', op)
         /\ op'.answer = code /\ op'.attempt = op.attempt
BY DEF Answer, Operations, Kept, OpSteps

LEMMA ResultFacts ==
  ASSUME op \in Operations, NEW step \in OpSteps, NEW result \in Results,
         op' = [op EXCEPT !.step = step, !.result = result]
  PROVE  op' \in Operations /\ op'.step = step /\ op'.result = result
         /\ op'.kind = op.kind /\ op'.recovery = op.recovery /\ op'.target = op.target
         /\ op'.before = op.before /\ op'.attempt = op.attempt
BY DEF Operations

LEMMA OutcomeFacts ==
  ASSUME op \in Operations, NEW result \in Results, data \in DataStates,
         op' = [op EXCEPT !.step = "settle", !.result = result, !.before = data, !.safety = SafetyBackup]
  PROVE  op' \in Operations /\ op'.step = "settle" /\ op'.result = result
         /\ op'.kind = op.kind /\ op'.recovery = op.recovery /\ op'.target = op.target
         /\ op'.before = data /\ op'.safety = SafetyBackup /\ op'.attempt = op.attempt
BY DEF Operations, OpSteps, SafetyBackup

LEMMA AttemptFacts ==
  ASSUME op \in Operations, op' = [op EXCEPT !.step = "spawn", !.attempt = 2]
  PROVE  op' \in Operations /\ op'.step = "spawn" /\ op'.attempt = 2 /\ Kept(op', op)
BY DEF Operations, OpSteps, Kept

LEMMA BeginFacts ==
  ASSUME NEW kind \in CommandKinds, NEW target \in Versions \cup {None}, data \in DataStates,
         NEW recovery \in BOOLEAN, NEW step \in OpSteps,
         op' = [NoOp EXCEPT !.kind = kind, !.target = target, !.before = data,
                            !.recovery = recovery, !.step = step]
  PROVE  op' \in Operations /\ op'.kind = kind /\ op'.target = target /\ op'.recovery = recovery
         /\ op'.step = step /\ op'.result = "none" /\ op'.before = data /\ op'.attempt = 1
BY DEF NoOp, Operations, Results, Answers

LEMMA NoOpFacts ==
  NoOp \in Operations /\ NoOp.step = "idle" /\ NoOp.kind = "export" /\ NoOp.recovery = FALSE
  /\ NoOp.result = "none" /\ NoOp.attempt = 1
BY DEF NoOp, Operations, OpSteps, CommandKinds, Results, Answers, DataStates

LEMMA KindFacts == ASSUME op \in Operations PROVE op.kind \in CommandKinds
BY DEF Operations

\* A restart that fails is answered, or rolled back once.
LEMMA RestartFailedFacts ==
  ASSUME op \in Operations, RestartFailed
  PROVE  /\ op' \in Operations /\ Kept(op', op)
         /\ op'.attempt = op.attempt
         /\ \/ /\ op'.step = "answered" /\ op'.answer # "success"
               /\ op'.answer = "quiesce-failed" => ~op.recovery /\ op.attempt # 2
               /\ op'.answer = "quiesce-failed" /\ op.kind \in {"restore", "resume"} =>
                    op.result # "success"
               /\ op'.answer = "sidecar-unavailable" => op.recovery \/ op.kind = "probe"
               /\ op'.answer = "failed" => op.kind = "probe"
            \/ /\ op'.step = "rollback" /\ op.attempt # 2
               /\ op.kind \in {"restore", "resume"} /\ ~op.recovery /\ op.result = "success"
<1> DEFINE Compensated == op.kind \in {"restore", "resume"} /\ ~op.recovery /\ op.result = "success"
<1>1. CASE op.attempt = 2
  BY <1>1, AnswerFacts DEF RestartFailed, Answers
<1>2. CASE op.attempt # 2 /\ Compensated
  BY <1>2, ContinueFacts DEF RestartFailed, OpSteps
<1>3. CASE op.attempt # 2 /\ ~Compensated
  <2>1. CASE op.recovery
    BY <1>3, <2>1, AnswerFacts DEF RestartFailed, Answers
  <2>2. CASE ~op.recovery /\ op.kind = "probe"
    BY <1>3, <2>2, AnswerFacts DEF RestartFailed, Answers
  <2>3. CASE ~op.recovery /\ op.kind # "probe"
    BY <1>3, <2>3, AnswerFacts DEF RestartFailed, Answers
  <2> QED BY <2>1, <2>2, <2>3
<1> QED BY <1>1, <1>2, <1>3

-----------------------------------------------------------------------------
(* IInv is inductive: one lemma per thread, one step per action, and under   *)
(* it one step per group of conjuncts.                                       *)

LEMMA SetupThreadStep ==
  ASSUME IInv, SetupThread
  PROVE  IInv'
<1>1. CASE BootFinishes
  <2>1. AppType'
    BY <1>1 DEF BootFinishes, AppStates, DataStates, TypeOK, AppType, ProcType, WorkType, RestType, DataType
  <2>2. ProcType'
    BY <1>1 DEF BootFinishes, AppStates, DataStates, TypeOK, AppType, ProcType, WorkType, RestType, DataType
  <2>3. WorkType'
    BY <1>1 DEF BootFinishes, AppStates, DataStates, TypeOK, AppType, ProcType, WorkType, RestType, DataType
  <2>4. RestType'
    BY <1>1 DEF BootFinishes, AppStates, DataStates, TypeOK, AppType, ProcType, WorkType, RestType, DataType, CloserSteps
  <2>5. DataType'
    BY <1>1 DEF BootFinishes, AppStates, DataStates, TypeOK, AppType, ProcType, WorkType, RestType, DataType, RestoreInv, SafetyKnown, TargetKnown, RollbackOfSuccess
  <2>6. TypeOK'
    BY <2>1, <2>2, <2>3, <2>4, <2>5, <1>1 DEF BootFinishes, TypeOK
  <2>7. SlotInv'
    BY <1>1 DEF BootFinishes, AppStates, DataStates, SlotInv, SetupAlone, HelperOwned, ChildOwned, ExportSteps, SlotQuiet, RecoverySlot, RecoveryCommand, TypeOK, AppType, ProcType, WorkType, RestType, DataType, Kept
  <2>8. RestoreInv'
    BY <1>1 DEF BootFinishes, AppStates, DataStates, RestoreInv, SafetyKnown, TargetKnown, RollbackOfSuccess, Kept, TypeOK, WorkType, SlotInv, ExportSteps
  <2>9. EndInv'
    BY <1>1 DEF BootFinishes, AppStates, DataStates, EndInv, ExitedClean, Orphanless, SidecarAccounted, SlotInv, SetupAlone, HelperOwned, ChildOwned, ExportSteps, SlotQuiet, RecoverySlot, RecoveryCommand, TypeOK, AppType, ProcType, WorkType, RestType, DataType, Kept
  <2> QED BY <2>6, <2>7, <2>8, <2>9
<1>2. CASE BootSpawns
  <2>1. TypeOK'
    BY <1>2 DEF BootSpawns, SpawnSidecar, NoSpawn, AppStates, TypeOK, AppType, ProcType, WorkType, RestType, DataType
  <2>2. SlotInv'
    BY <1>2 DEF BootSpawns, SpawnSidecar, NoSpawn, AppStates, SlotInv, SetupAlone, HelperOwned, ChildOwned, ExportSteps, SlotQuiet, RecoverySlot, RecoveryCommand, TypeOK, AppType, ProcType, WorkType, RestType, DataType, Kept
  <2>3. RestoreInv'
    BY <1>2 DEF BootSpawns, SpawnSidecar, NoSpawn, AppStates, RestoreInv, SafetyKnown, TargetKnown, RollbackOfSuccess, Kept, TypeOK, WorkType, SlotInv, ExportSteps
  <2>4. EndInv'
    BY <1>2 DEF BootSpawns, SpawnSidecar, NoSpawn, AppStates, EndInv, ExitedClean, Orphanless, SidecarAccounted, SlotInv, SetupAlone, HelperOwned, ChildOwned, ExportSteps, SlotQuiet, RecoverySlot, RecoveryCommand, TypeOK, AppType, ProcType, WorkType, RestType, DataType, Kept
  <2> QED BY <2>1, <2>2, <2>3, <2>4
<1>3. CASE BootReady
  <2>1. TypeOK'
    BY <1>3 DEF BootReady, StoreSidecar, StartFails, StopSucceeds, StopFails, AppStates, TypeOK, AppType, ProcType, WorkType, RestType, DataType
  <2>2. SlotInv'
    BY <1>3 DEF BootReady, StoreSidecar, StartFails, StopSucceeds, StopFails, AppStates, SlotInv, SetupAlone, HelperOwned, ChildOwned, ExportSteps, SlotQuiet, RecoverySlot, RecoveryCommand, TypeOK, AppType, ProcType, WorkType, RestType, DataType, Kept
  <2>3. RestoreInv'
    BY <1>3 DEF BootReady, StoreSidecar, StartFails, StopSucceeds, StopFails, AppStates, RestoreInv, SafetyKnown, TargetKnown, RollbackOfSuccess, Kept, TypeOK, WorkType, SlotInv, ExportSteps
  <2>4. EndInv'
    BY <1>3 DEF BootReady, StoreSidecar, StartFails, StopSucceeds, StopFails, AppStates, EndInv, ExitedClean, Orphanless, SidecarAccounted, SlotInv, SetupAlone, HelperOwned, ChildOwned, ExportSteps, SlotQuiet, RecoverySlot, RecoveryCommand, TypeOK, AppType, ProcType, WorkType, RestType, DataType, Kept
  <2> QED BY <2>1, <2>2, <2>3, <2>4
<1> QED BY <1>1, <1>2, <1>3 DEF SetupThread

LEMMA CommandThreadStep ==
  ASSUME IInv, CommandThread
  PROVE  IInv'
<1>1. CASE Quiesce
  <2>1. TypeOK'
    BY <1>1, ContinueFacts, AnswerFacts DEF Quiesce, CleanupDone, CleanupKept, StopSucceeds, StopFails, OpSteps, Answers, TypeOK, AppType, ProcType, WorkType, RestType, DataType
  <2>2. SlotInv'
    BY <1>1, ContinueFacts, AnswerFacts DEF Quiesce, CleanupDone, CleanupKept, StopSucceeds, StopFails, OpSteps, Answers, SlotInv, SetupAlone, HelperOwned, ChildOwned, ExportSteps, SlotQuiet, RecoverySlot, RecoveryCommand, TypeOK, AppType, ProcType, WorkType, RestType, DataType, Kept
  <2>3. RestoreInv'
    BY <1>1, ContinueFacts, AnswerFacts DEF Quiesce, CleanupDone, CleanupKept, StopSucceeds, StopFails, OpSteps, Answers, RestoreInv, SafetyKnown, TargetKnown, RollbackOfSuccess, Kept, TypeOK, WorkType, SlotInv, ExportSteps
  <2>4. EndInv'
    BY <1>1, ContinueFacts, AnswerFacts DEF Quiesce, CleanupDone, CleanupKept, StopSucceeds, StopFails, OpSteps, Answers, EndInv, ExitedClean, Orphanless, SidecarAccounted, SlotInv, SetupAlone, HelperOwned, ChildOwned, ExportSteps, SlotQuiet, RecoverySlot, RecoveryCommand, TypeOK, AppType, ProcType, WorkType, RestType, DataType, Kept
  <2> QED BY <2>1, <2>2, <2>3, <2>4
<1>2. CASE LaunchHelper
  <2>1. AppType'
    BY <1>2, StepFacts, ResultFacts, KindFacts DEF LaunchHelper, OpSteps, Results, Mutators, CommandKinds, TypeOK, AppType, ProcType, WorkType, RestType, DataType, AppStates
  <2>2. ProcType'
    BY <1>2, StepFacts, ResultFacts, KindFacts DEF LaunchHelper, OpSteps, Results, Mutators, CommandKinds, TypeOK, AppType, ProcType, WorkType, RestType, DataType
  <2>3. WorkType'
    BY <1>2, StepFacts, ResultFacts, KindFacts DEF LaunchHelper, OpSteps, Results, Mutators, CommandKinds, TypeOK, AppType, ProcType, WorkType, RestType, DataType
  <2>4. RestType'
    BY <1>2, StepFacts, ResultFacts, KindFacts DEF LaunchHelper, OpSteps, Results, Mutators, CommandKinds, TypeOK, AppType, ProcType, WorkType, RestType, DataType, CloserSteps
  <2>5. DataType'
    BY <1>2, StepFacts, ResultFacts, KindFacts DEF LaunchHelper, OpSteps, Results, Mutators, CommandKinds, TypeOK, AppType, ProcType, WorkType, RestType, DataType, DataStates, RestoreInv, SafetyKnown, TargetKnown, RollbackOfSuccess
  <2>6. TypeOK'
    BY <2>1, <2>2, <2>3, <2>4, <2>5, <1>2 DEF LaunchHelper, TypeOK
  <2>7. SlotInv'
    BY <1>2, StepFacts, ResultFacts, KindFacts DEF LaunchHelper, OpSteps, Results, Mutators, CommandKinds, SlotInv, SetupAlone, HelperOwned, ChildOwned, ExportSteps, SlotQuiet, RecoverySlot, RecoveryCommand, TypeOK, AppType, ProcType, WorkType, RestType, DataType, Kept
  <2>8. RestoreInv'
    BY <1>2, StepFacts, ResultFacts, KindFacts DEF LaunchHelper, OpSteps, Results, Mutators, CommandKinds, RestoreInv, SafetyKnown, TargetKnown, RollbackOfSuccess, Kept, TypeOK, WorkType, SlotInv, ExportSteps
  <2>9. EndInv'
    BY <1>2, StepFacts, ResultFacts, KindFacts DEF LaunchHelper, OpSteps, Results, Mutators, CommandKinds, EndInv, ExitedClean, Orphanless, SidecarAccounted, SlotInv, SetupAlone, HelperOwned, ChildOwned, ExportSteps, SlotQuiet, RecoverySlot, RecoveryCommand, TypeOK, AppType, ProcType, WorkType, RestType, DataType, Kept
  <2> QED BY <2>6, <2>7, <2>8, <2>9
<1>3. CASE HelperFinishes
  <2>1. AppType'
    BY <1>3, OutcomeFacts DEF HelperFinishes, Results, HelperOutcome, SafetyBackup, DataStates, Mutators, TypeOK, AppType, ProcType, WorkType, RestType, DataType, AppStates
  <2>2. ProcType'
    BY <1>3, OutcomeFacts DEF HelperFinishes, Results, HelperOutcome, SafetyBackup, DataStates, Mutators, TypeOK, AppType, ProcType, WorkType, RestType, DataType
  <2>3. WorkType'
    BY <1>3, OutcomeFacts DEF HelperFinishes, Results, HelperOutcome, SafetyBackup, DataStates, Mutators, TypeOK, AppType, ProcType, WorkType, RestType, DataType
  <2>4. RestType'
    BY <1>3, OutcomeFacts DEF HelperFinishes, Results, HelperOutcome, SafetyBackup, DataStates, Mutators, TypeOK, AppType, ProcType, WorkType, RestType, DataType, CloserSteps
  <2>5. DataType'
    BY <1>3, OutcomeFacts DEF HelperFinishes, Results, HelperOutcome, SafetyBackup, DataStates, Mutators, TypeOK, AppType, ProcType, WorkType, RestType, DataType, RestoreInv, SafetyKnown, TargetKnown, RollbackOfSuccess
  <2>6. TypeOK'
    BY <2>1, <2>2, <2>3, <2>4, <2>5, <1>3 DEF HelperFinishes, TypeOK
  <2>7. SlotInv'
    BY <1>3, OutcomeFacts DEF HelperFinishes, Results, HelperOutcome, SafetyBackup, DataStates, Mutators, SlotInv, SetupAlone, HelperOwned, ChildOwned, ExportSteps, SlotQuiet, RecoverySlot, RecoveryCommand, TypeOK, AppType, ProcType, WorkType, RestType, DataType, Kept
  <2>8. RestoreInv'
    <3>1. PICK result \in Results :
            /\ HelperOutcome(result)
            /\ op' = [op EXCEPT !.step = "settle", !.result = result,
                        !.before = data, !.safety = SafetyBackup]
      BY <1>3 DEF HelperFinishes, Results
    <3>2. op \in Operations /\ data \in DataStates /\ op.step = "helper"
      BY <1>3 DEF HelperFinishes, TypeOK, WorkType, DataType
    <3>3. /\ op'.step = "settle" /\ op'.result = result /\ op'.kind = op.kind
          /\ op'.recovery = op.recovery /\ op'.target = op.target
          /\ op'.before = data /\ op'.safety = SafetyBackup
      BY <3>1, <3>2, OutcomeFacts
    <3>4. SafetyKnown'
      BY <3>1, <3>3 DEF SafetyKnown, HelperOutcome, SafetyBackup
    <3>5. TargetKnown' /\ RollbackOfSuccess'
      BY <3>3 DEF RestoreInv, TargetKnown, RollbackOfSuccess
    <3> QED BY <3>4, <3>5 DEF RestoreInv
  <2>9. EndInv'
    BY <1>3, OutcomeFacts DEF HelperFinishes, Results, HelperOutcome, SafetyBackup, DataStates, Mutators, EndInv, ExitedClean, Orphanless, SidecarAccounted, SlotInv, SetupAlone, HelperOwned, ChildOwned, ExportSteps, SlotQuiet, RecoverySlot, RecoveryCommand, TypeOK, AppType, ProcType, WorkType, RestType, DataType, Kept
  <2> QED BY <2>6, <2>7, <2>8, <2>9
<1>4. CASE Settle
  <2>1. AppType'
    BY <1>4, ContinueFacts, AnswerFacts DEF Settle, OpSteps, Answers, AfterDelete, TypeOK, AppType, ProcType, WorkType, RestType, DataType, AppStates
  <2>2. ProcType'
    BY <1>4, ContinueFacts, AnswerFacts DEF Settle, OpSteps, Answers, AfterDelete, TypeOK, AppType, ProcType, WorkType, RestType, DataType
  <2>3. WorkType'
    BY <1>4, ContinueFacts, AnswerFacts DEF Settle, OpSteps, Answers, AfterDelete, TypeOK, AppType, ProcType, WorkType, RestType, DataType
  <2>4. RestType'
    BY <1>4, ContinueFacts, AnswerFacts DEF Settle, OpSteps, Answers, AfterDelete, TypeOK, AppType, ProcType, WorkType, RestType, DataType, CloserSteps
  <2>5. DataType'
    BY <1>4, ContinueFacts, AnswerFacts DEF Settle, OpSteps, Answers, AfterDelete, TypeOK, AppType, ProcType, WorkType, RestType, DataType, DataStates, RestoreInv, SafetyKnown, TargetKnown, RollbackOfSuccess
  <2>6. TypeOK'
    BY <2>1, <2>2, <2>3, <2>4, <2>5, <1>4 DEF Settle, TypeOK
  <2>7. SlotInv'
    BY <1>4, ContinueFacts, AnswerFacts DEF Settle, OpSteps, Answers, AfterDelete, SlotInv, SetupAlone, HelperOwned, ChildOwned, ExportSteps, SlotQuiet, RecoverySlot, RecoveryCommand, TypeOK, AppType, ProcType, WorkType, RestType, DataType, Kept
  <2>8. RestoreInv'
    BY <1>4, ContinueFacts, AnswerFacts DEF Settle, OpSteps, Answers, AfterDelete, RestoreInv, SafetyKnown, TargetKnown, RollbackOfSuccess, Kept, TypeOK, WorkType, SlotInv, ExportSteps
  <2>9. EndInv'
    BY <1>4, ContinueFacts, AnswerFacts DEF Settle, OpSteps, Answers, AfterDelete, EndInv, ExitedClean, Orphanless, SidecarAccounted, SlotInv, SetupAlone, HelperOwned, ChildOwned, ExportSteps, SlotQuiet, RecoverySlot, RecoveryCommand, TypeOK, AppType, ProcType, WorkType, RestType, DataType, Kept
  <2> QED BY <2>6, <2>7, <2>8, <2>9
<1>5. CASE AllowAfterCommand
  <2>1. TypeOK'
    BY <1>5, AnswerFacts DEF AllowAfterCommand, AllowExit, Answers, TypeOK, AppType, ProcType, WorkType, RestType, DataType
  <2>2. SlotInv'
    BY <1>5, AnswerFacts DEF AllowAfterCommand, AllowExit, Answers, SlotInv, SetupAlone, HelperOwned, ChildOwned, ExportSteps, SlotQuiet, RecoverySlot, RecoveryCommand, TypeOK, AppType, ProcType, WorkType, RestType, DataType, Kept
  <2>3. RestoreInv'
    BY <1>5, AnswerFacts DEF AllowAfterCommand, AllowExit, Answers, RestoreInv, SafetyKnown, TargetKnown, RollbackOfSuccess, Kept, TypeOK, WorkType, SlotInv, ExportSteps
  <2>4. EndInv'
    BY <1>5, AnswerFacts DEF AllowAfterCommand, AllowExit, Answers, EndInv, ExitedClean, Orphanless, SidecarAccounted, SlotInv, SetupAlone, HelperOwned, ChildOwned, ExportSteps, SlotQuiet, RecoverySlot, RecoveryCommand, TypeOK, AppType, ProcType, WorkType, RestType, DataType, Kept
  <2> QED BY <2>1, <2>2, <2>3, <2>4
<1>6. CASE Restart
  <2>1. TypeOK'
    BY <1>6, ContinueFacts, RestartFailedFacts DEF Restart, SpawnSidecar, NoSpawn, OpSteps, TypeOK, AppType, ProcType, WorkType, RestType, DataType
  <2>2. SlotInv'
    BY <1>6, ContinueFacts, RestartFailedFacts DEF Restart, SpawnSidecar, NoSpawn, OpSteps, SlotInv, SetupAlone, HelperOwned, ChildOwned, ExportSteps, SlotQuiet, RecoverySlot, RecoveryCommand, TypeOK, AppType, ProcType, WorkType, RestType, DataType, Kept
  <2>3. RestoreInv'
    BY <1>6, ContinueFacts, RestartFailedFacts DEF Restart, SpawnSidecar, NoSpawn, OpSteps, RestoreInv, SafetyKnown, TargetKnown, RollbackOfSuccess, Kept, TypeOK, WorkType, SlotInv, ExportSteps
  <2>4. EndInv'
    BY <1>6, ContinueFacts, RestartFailedFacts DEF Restart, SpawnSidecar, NoSpawn, OpSteps, EndInv, ExitedClean, Orphanless, SidecarAccounted, SlotInv, SetupAlone, HelperOwned, ChildOwned, ExportSteps, SlotQuiet, RecoverySlot, RecoveryCommand, TypeOK, AppType, ProcType, WorkType, RestType, DataType, Kept
  <2> QED BY <2>1, <2>2, <2>3, <2>4
<1>7. CASE Restarted
  <2>1. TypeOK'
    BY <1>7, ContinueFacts, AnswerFacts, RestartFailedFacts, KindFacts DEF Restarted, StoreSidecar, StartFails, StopSucceeds, StopFails, OpSteps, Answers, CommandKinds, TypeOK, AppType, ProcType, WorkType, RestType, DataType
  <2>2. SlotInv'
    BY <1>7, ContinueFacts, AnswerFacts, RestartFailedFacts, KindFacts DEF Restarted, StoreSidecar, StartFails, StopSucceeds, StopFails, OpSteps, Answers, CommandKinds, SlotInv, SetupAlone, HelperOwned, ChildOwned, ExportSteps, SlotQuiet, RecoverySlot, RecoveryCommand, TypeOK, AppType, ProcType, WorkType, RestType, DataType, Kept
  <2>3. RestoreInv'
    BY <1>7, ContinueFacts, AnswerFacts, RestartFailedFacts, KindFacts DEF Restarted, StoreSidecar, StartFails, StopSucceeds, StopFails, OpSteps, Answers, CommandKinds, RestoreInv, SafetyKnown, TargetKnown, RollbackOfSuccess, Kept, TypeOK, WorkType, SlotInv, ExportSteps
  <2>4. EndInv'
    BY <1>7, ContinueFacts, AnswerFacts, RestartFailedFacts, KindFacts DEF Restarted, StoreSidecar, StartFails, StopSucceeds, StopFails, OpSteps, Answers, CommandKinds, EndInv, ExitedClean, Orphanless, SidecarAccounted, SlotInv, SetupAlone, HelperOwned, ChildOwned, ExportSteps, SlotQuiet, RecoverySlot, RecoveryCommand, TypeOK, AppType, ProcType, WorkType, RestType, DataType, Kept
  <2> QED BY <2>1, <2>2, <2>3, <2>4
<1>8. CASE Rollback
  <2>1. TypeOK'
    BY <1>8, StepFacts DEF Rollback, OpSteps, Mutators, TypeOK, AppType, ProcType, WorkType, RestType, DataType
  <2>2. SlotInv'
    BY <1>8, StepFacts DEF Rollback, OpSteps, Mutators, SlotInv, SetupAlone, HelperOwned, ChildOwned, ExportSteps, SlotQuiet, RecoverySlot, RecoveryCommand, TypeOK, AppType, ProcType, WorkType, RestType, DataType, Kept
  <2>3. RestoreInv'
    BY <1>8, StepFacts DEF Rollback, OpSteps, Mutators, RestoreInv, SafetyKnown, TargetKnown, RollbackOfSuccess, Kept, TypeOK, WorkType, SlotInv, ExportSteps
  <2>4. EndInv'
    BY <1>8, StepFacts DEF Rollback, OpSteps, Mutators, EndInv, ExitedClean, Orphanless, SidecarAccounted, SlotInv, SetupAlone, HelperOwned, ChildOwned, ExportSteps, SlotQuiet, RecoverySlot, RecoveryCommand, TypeOK, AppType, ProcType, WorkType, RestType, DataType, Kept
  <2> QED BY <2>1, <2>2, <2>3, <2>4
<1>9. CASE RollbackFinishes
  <2>1. TypeOK'
    BY <1>9, AttemptFacts, AnswerFacts DEF RollbackFinishes, Answers, DataStates, Mutators, TypeOK, AppType, ProcType, WorkType, RestType, DataType, RestoreInv, SafetyKnown, TargetKnown, RollbackOfSuccess
  <2>2. SlotInv'
    BY <1>9, AttemptFacts, AnswerFacts DEF RollbackFinishes, Answers, DataStates, Mutators, SlotInv, SetupAlone, HelperOwned, ChildOwned, ExportSteps, SlotQuiet, RecoverySlot, RecoveryCommand, TypeOK, AppType, ProcType, WorkType, RestType, DataType, Kept
  <2>3. RestoreInv'
    BY <1>9, AttemptFacts, AnswerFacts DEF RollbackFinishes, Answers, DataStates, Mutators, RestoreInv, SafetyKnown, TargetKnown, RollbackOfSuccess, Kept, TypeOK, WorkType, SlotInv, ExportSteps
  <2>4. EndInv'
    BY <1>9, AttemptFacts, AnswerFacts DEF RollbackFinishes, Answers, DataStates, Mutators, EndInv, ExitedClean, Orphanless, SidecarAccounted, SlotInv, SetupAlone, HelperOwned, ChildOwned, ExportSteps, SlotQuiet, RecoverySlot, RecoveryCommand, TypeOK, AppType, ProcType, WorkType, RestType, DataType, Kept
  <2> QED BY <2>1, <2>2, <2>3, <2>4
<1>10. CASE RecoveryReady
  <2>1. AppType'
    BY <1>10, ContinueFacts DEF RecoveryReady, OpSteps, TypeOK, AppType, ProcType, WorkType, RestType, DataType, AppStates
  <2>2. ProcType'
    BY <1>10, ContinueFacts DEF RecoveryReady, OpSteps, TypeOK, AppType, ProcType, WorkType, RestType, DataType
  <2>3. WorkType'
    BY <1>10, ContinueFacts DEF RecoveryReady, OpSteps, TypeOK, AppType, ProcType, WorkType, RestType, DataType
  <2>4. RestType'
    BY <1>10, ContinueFacts DEF RecoveryReady, OpSteps, TypeOK, AppType, ProcType, WorkType, RestType, DataType, CloserSteps
  <2>5. DataType'
    BY <1>10, ContinueFacts DEF RecoveryReady, OpSteps, TypeOK, AppType, ProcType, WorkType, RestType, DataType, DataStates, RestoreInv, SafetyKnown, TargetKnown, RollbackOfSuccess
  <2>6. TypeOK'
    BY <2>1, <2>2, <2>3, <2>4, <2>5, <1>10 DEF RecoveryReady, TypeOK
  <2>7. SlotInv'
    BY <1>10, ContinueFacts DEF RecoveryReady, OpSteps, SlotInv, SetupAlone, HelperOwned, ChildOwned, ExportSteps, SlotQuiet, RecoverySlot, RecoveryCommand, TypeOK, AppType, ProcType, WorkType, RestType, DataType, Kept
  <2>8. RestoreInv'
    BY <1>10, ContinueFacts DEF RecoveryReady, OpSteps, RestoreInv, SafetyKnown, TargetKnown, RollbackOfSuccess, Kept, TypeOK, WorkType, SlotInv, ExportSteps
  <2>9. EndInv'
    BY <1>10, ContinueFacts DEF RecoveryReady, OpSteps, EndInv, ExitedClean, Orphanless, SidecarAccounted, SlotInv, SetupAlone, HelperOwned, ChildOwned, ExportSteps, SlotQuiet, RecoverySlot, RecoveryCommand, TypeOK, AppType, ProcType, WorkType, RestType, DataType, Kept
  <2> QED BY <2>6, <2>7, <2>8, <2>9
<1>11. CASE DisallowExit
  <2>1. AppType'
    BY <1>11, AnswerFacts DEF DisallowExit, ForbidExit, Answers, TypeOK, AppType, ProcType, WorkType, RestType, DataType, AppStates
  <2>2. ProcType'
    BY <1>11, AnswerFacts DEF DisallowExit, ForbidExit, Answers, TypeOK, AppType, ProcType, WorkType, RestType, DataType
  <2>3. WorkType'
    BY <1>11, AnswerFacts DEF DisallowExit, ForbidExit, Answers, TypeOK, AppType, ProcType, WorkType, RestType, DataType
  <2>4. RestType'
    BY <1>11, AnswerFacts DEF DisallowExit, ForbidExit, Answers, TypeOK, AppType, ProcType, WorkType, RestType, DataType, CloserSteps
  <2>5. DataType'
    BY <1>11, AnswerFacts DEF DisallowExit, ForbidExit, Answers, TypeOK, AppType, ProcType, WorkType, RestType, DataType, DataStates, RestoreInv, SafetyKnown, TargetKnown, RollbackOfSuccess
  <2>6. TypeOK'
    BY <2>1, <2>2, <2>3, <2>4, <2>5, <1>11 DEF DisallowExit, TypeOK
  <2>7. SlotInv'
    BY <1>11, AnswerFacts DEF DisallowExit, ForbidExit, Answers, SlotInv, SetupAlone, HelperOwned, ChildOwned, ExportSteps, SlotQuiet, RecoverySlot, RecoveryCommand, TypeOK, AppType, ProcType, WorkType, RestType, DataType, Kept
  <2>8. RestoreInv'
    BY <1>11, AnswerFacts DEF DisallowExit, ForbidExit, Answers, RestoreInv, SafetyKnown, TargetKnown, RollbackOfSuccess, Kept, TypeOK, WorkType, SlotInv, ExportSteps
  <2>9. EndInv'
    BY <1>11, AnswerFacts DEF DisallowExit, ForbidExit, Answers, EndInv, ExitedClean, Orphanless, SidecarAccounted, SlotInv, SetupAlone, HelperOwned, ChildOwned, ExportSteps, SlotQuiet, RecoverySlot, RecoveryCommand, TypeOK, AppType, ProcType, WorkType, RestType, DataType, Kept
  <2> QED BY <2>6, <2>7, <2>8, <2>9
<1>12. CASE Return
  <2>1. TypeOK'
    BY <1>12, NoOpFacts DEF Return, TypeOK, AppType, ProcType, WorkType, RestType, DataType
  <2>2. SlotInv'
    BY <1>12, NoOpFacts DEF Return, SlotInv, SetupAlone, HelperOwned, ChildOwned, ExportSteps, SlotQuiet, RecoverySlot, RecoveryCommand, TypeOK, AppType, ProcType, WorkType, RestType, DataType, Kept
  <2>3. RestoreInv'
    BY <1>12, NoOpFacts DEF Return, RestoreInv, SafetyKnown, TargetKnown, RollbackOfSuccess, Kept, TypeOK, WorkType, SlotInv, ExportSteps
  <2>4. EndInv'
    BY <1>12, NoOpFacts DEF Return, EndInv, ExitedClean, Orphanless, SidecarAccounted, SlotInv, SetupAlone, HelperOwned, ChildOwned, ExportSteps, SlotQuiet, RecoverySlot, RecoveryCommand, TypeOK, AppType, ProcType, WorkType, RestType, DataType, Kept
  <2> QED BY <2>1, <2>2, <2>3, <2>4
<1> QED BY <1>1, <1>2, <1>3, <1>4, <1>5, <1>6, <1>7, <1>8, <1>9, <1>10, <1>11, <1>12 DEF CommandThread

LEMMA UpdateThreadStep ==
  ASSUME IInv, UpdateThread
  PROVE  IInv'
<1>1. CASE ApplyPrepared
  <2>1. TypeOK'
    BY <1>1 DEF ApplyPrepared, TypeOK, AppType, ProcType, WorkType, RestType, DataType
  <2>2. SlotInv'
    BY <1>1 DEF ApplyPrepared, SlotInv, SetupAlone, HelperOwned, ChildOwned, ExportSteps, SlotQuiet, RecoverySlot, RecoveryCommand, TypeOK, AppType, ProcType, WorkType, RestType, DataType, Kept
  <2>3. RestoreInv'
    BY <1>1 DEF ApplyPrepared, RestoreInv, SafetyKnown, TargetKnown, RollbackOfSuccess, Kept, TypeOK, WorkType, SlotInv, ExportSteps
  <2>4. EndInv'
    BY <1>1 DEF ApplyPrepared, EndInv, ExitedClean, Orphanless, SidecarAccounted, SlotInv, SetupAlone, HelperOwned, ChildOwned, ExportSteps, SlotQuiet, RecoverySlot, RecoveryCommand, TypeOK, AppType, ProcType, WorkType, RestType, DataType, Kept
  <2> QED BY <2>1, <2>2, <2>3, <2>4
<1>2. CASE ApplyAllowsExit
  <2>1. TypeOK'
    BY <1>2 DEF ApplyAllowsExit, AllowExit, TypeOK, AppType, ProcType, WorkType, RestType, DataType
  <2>2. SlotInv'
    BY <1>2 DEF ApplyAllowsExit, AllowExit, SlotInv, SetupAlone, HelperOwned, ChildOwned, ExportSteps, SlotQuiet, RecoverySlot, RecoveryCommand, TypeOK, AppType, ProcType, WorkType, RestType, DataType, Kept
  <2>3. RestoreInv'
    BY <1>2 DEF ApplyAllowsExit, AllowExit, RestoreInv, SafetyKnown, TargetKnown, RollbackOfSuccess, Kept, TypeOK, WorkType, SlotInv, ExportSteps
  <2>4. EndInv'
    BY <1>2 DEF ApplyAllowsExit, AllowExit, EndInv, ExitedClean, Orphanless, SidecarAccounted, SlotInv, SetupAlone, HelperOwned, ChildOwned, ExportSteps, SlotQuiet, RecoverySlot, RecoveryCommand, TypeOK, AppType, ProcType, WorkType, RestType, DataType, Kept
  <2> QED BY <2>1, <2>2, <2>3, <2>4
<1>3. CASE ApplyRequestsRestart
  <2>1. TypeOK'
    BY <1>3 DEF ApplyRequestsRestart, TypeOK, AppType, ProcType, WorkType, RestType, DataType
  <2>2. SlotInv'
    BY <1>3 DEF ApplyRequestsRestart, SlotInv, SetupAlone, HelperOwned, ChildOwned, ExportSteps, SlotQuiet, RecoverySlot, RecoveryCommand, TypeOK, AppType, ProcType, WorkType, RestType, DataType, Kept
  <2>3. RestoreInv'
    BY <1>3 DEF ApplyRequestsRestart, RestoreInv, SafetyKnown, TargetKnown, RollbackOfSuccess, Kept, TypeOK, WorkType, SlotInv, ExportSteps
  <2>4. EndInv'
    BY <1>3 DEF ApplyRequestsRestart, EndInv, ExitedClean, Orphanless, SidecarAccounted, SlotInv, SetupAlone, HelperOwned, ChildOwned, ExportSteps, SlotQuiet, RecoverySlot, RecoveryCommand, TypeOK, AppType, ProcType, WorkType, RestType, DataType, Kept
  <2> QED BY <2>1, <2>2, <2>3, <2>4
<1> QED BY <1>1, <1>2, <1>3 DEF UpdateThread

LEMMA CloseThreadStep ==
  ASSUME IInv, NEW c \in Closers, CloseThread(c)
  PROVE  IInv'
<1>1. CASE CloseDecided(c)
  <2>1. TypeOK'
    BY <1>1 DEF CloseDecided, CloserSteps, TypeOK, AppType, ProcType, WorkType, RestType, DataType
  <2>2. SlotInv'
    BY <1>1 DEF CloseDecided, CloserSteps, SlotInv, SetupAlone, HelperOwned, ChildOwned, ExportSteps, SlotQuiet, RecoverySlot, RecoveryCommand, TypeOK, AppType, ProcType, WorkType, RestType, DataType, Kept
  <2>3. RestoreInv'
    BY <1>1 DEF CloseDecided, CloserSteps, RestoreInv, SafetyKnown, TargetKnown, RollbackOfSuccess, Kept, TypeOK, WorkType, SlotInv, ExportSteps
  <2>4. EndInv'
    BY <1>1 DEF CloseDecided, CloserSteps, EndInv, ExitedClean, Orphanless, SidecarAccounted, SlotInv, SetupAlone, HelperOwned, ChildOwned, ExportSteps, SlotQuiet, RecoverySlot, RecoveryCommand, TypeOK, AppType, ProcType, WorkType, RestType, DataType, Kept
  <2> QED BY <2>1, <2>2, <2>3, <2>4
<1>2. CASE FinalizeCleanup(c)
  <2>1. TypeOK'
    BY <1>2 DEF FinalizeCleanup, CloserSteps, CleanupDone, CleanupKept, StopSucceeds, StopFails, TypeOK, AppType, ProcType, WorkType, RestType, DataType
  <2>2. SlotInv'
    BY <1>2 DEF FinalizeCleanup, CloserSteps, CleanupDone, CleanupKept, StopSucceeds, StopFails, SlotInv, SetupAlone, HelperOwned, ChildOwned, ExportSteps, SlotQuiet, RecoverySlot, RecoveryCommand, TypeOK, AppType, ProcType, WorkType, RestType, DataType, Kept
  <2>3. RestoreInv'
    BY <1>2 DEF FinalizeCleanup, CloserSteps, CleanupDone, CleanupKept, StopSucceeds, StopFails, RestoreInv, SafetyKnown, TargetKnown, RollbackOfSuccess, Kept, TypeOK, WorkType, SlotInv, ExportSteps
  <2>4. EndInv'
    BY <1>2 DEF FinalizeCleanup, CloserSteps, CleanupDone, CleanupKept, StopSucceeds, StopFails, EndInv, ExitedClean, Orphanless, SidecarAccounted, SlotInv, SetupAlone, HelperOwned, ChildOwned, ExportSteps, SlotQuiet, RecoverySlot, RecoveryCommand, TypeOK, AppType, ProcType, WorkType, RestType, DataType, Kept
  <2> QED BY <2>1, <2>2, <2>3, <2>4
<1>3. CASE FinalizeAllow(c)
  <2>1. TypeOK'
    BY <1>3 DEF FinalizeAllow, AllowExit, CloserSteps, TypeOK, AppType, ProcType, WorkType, RestType, DataType
  <2>2. SlotInv'
    BY <1>3 DEF FinalizeAllow, AllowExit, CloserSteps, SlotInv, SetupAlone, HelperOwned, ChildOwned, ExportSteps, SlotQuiet, RecoverySlot, RecoveryCommand, TypeOK, AppType, ProcType, WorkType, RestType, DataType, Kept
  <2>3. RestoreInv'
    BY <1>3 DEF FinalizeAllow, AllowExit, CloserSteps, RestoreInv, SafetyKnown, TargetKnown, RollbackOfSuccess, Kept, TypeOK, WorkType, SlotInv, ExportSteps
  <2>4. EndInv'
    BY <1>3 DEF FinalizeAllow, AllowExit, CloserSteps, EndInv, ExitedClean, Orphanless, SidecarAccounted, SlotInv, SetupAlone, HelperOwned, ChildOwned, ExportSteps, SlotQuiet, RecoverySlot, RecoveryCommand, TypeOK, AppType, ProcType, WorkType, RestType, DataType, Kept
  <2> QED BY <2>1, <2>2, <2>3, <2>4
<1>4. CASE FinalizeExit(c)
  <2>1. TypeOK'
    BY <1>4 DEF FinalizeExit, CloserSteps, TypeOK, AppType, ProcType, WorkType, RestType, DataType
  <2>2. SlotInv'
    BY <1>4 DEF FinalizeExit, CloserSteps, SlotInv, SetupAlone, HelperOwned, ChildOwned, ExportSteps, SlotQuiet, RecoverySlot, RecoveryCommand, TypeOK, AppType, ProcType, WorkType, RestType, DataType, Kept
  <2>3. RestoreInv'
    BY <1>4 DEF FinalizeExit, CloserSteps, RestoreInv, SafetyKnown, TargetKnown, RollbackOfSuccess, Kept, TypeOK, WorkType, SlotInv, ExportSteps
  <2>4. EndInv'
    BY <1>4 DEF FinalizeExit, CloserSteps, EndInv, ExitedClean, Orphanless, SidecarAccounted, SlotInv, SetupAlone, HelperOwned, ChildOwned, ExportSteps, SlotQuiet, RecoverySlot, RecoveryCommand, TypeOK, AppType, ProcType, WorkType, RestType, DataType, Kept
  <2> QED BY <2>1, <2>2, <2>3, <2>4
<1> QED BY <1>1, <1>2, <1>3, <1>4 DEF CloseThread

LEMMA EventLoopStep ==
  ASSUME IInv, EventLoop
  PROVE  IInv'
<1>1. CASE HandleExitRequested
  <2>1. AppType'
    BY <1>1 DEF HandleExitRequested, BeginClose, CloserSteps, AppStates, TypeOK, AppType, ProcType, WorkType, RestType, DataType
  <2>2. ProcType'
    BY <1>1 DEF HandleExitRequested, BeginClose, CloserSteps, AppStates, TypeOK, AppType, ProcType, WorkType, RestType, DataType
  <2>3. WorkType'
    BY <1>1 DEF HandleExitRequested, BeginClose, CloserSteps, AppStates, TypeOK, AppType, ProcType, WorkType, RestType, DataType
  <2>4. RestType'
    BY <1>1 DEF HandleExitRequested, BeginClose, CloserSteps, AppStates, TypeOK, AppType, ProcType, WorkType, RestType, DataType
  <2>5. DataType'
    BY <1>1 DEF HandleExitRequested, BeginClose, CloserSteps, AppStates, TypeOK, AppType, ProcType, WorkType, RestType, DataType, DataStates, RestoreInv, SafetyKnown, TargetKnown, RollbackOfSuccess
  <2>6. TypeOK'
    BY <2>1, <2>2, <2>3, <2>4, <2>5, <1>1 DEF HandleExitRequested, TypeOK
  <2>7. SlotInv'
    BY <1>1 DEF HandleExitRequested, BeginClose, CloserSteps, AppStates, SlotInv, SetupAlone, HelperOwned, ChildOwned, ExportSteps, SlotQuiet, RecoverySlot, RecoveryCommand, TypeOK, AppType, ProcType, WorkType, RestType, DataType, Kept
  <2>8. RestoreInv'
    BY <1>1 DEF HandleExitRequested, BeginClose, CloserSteps, AppStates, RestoreInv, SafetyKnown, TargetKnown, RollbackOfSuccess, Kept, TypeOK, WorkType, SlotInv, ExportSteps
  <2>9. EndInv'
    BY <1>1 DEF HandleExitRequested, BeginClose, CloserSteps, AppStates, EndInv, ExitedClean, Orphanless, SidecarAccounted, SlotInv, SetupAlone, HelperOwned, ChildOwned, ExportSteps, SlotQuiet, RecoverySlot, RecoveryCommand, TypeOK, AppType, ProcType, WorkType, RestType, DataType, Kept
  <2> QED BY <2>6, <2>7, <2>8, <2>9
<1>2. CASE ExitCleanup
  <2>1. TypeOK'
    BY <1>2 DEF ExitCleanup, Cleanup, CleanupDone, CleanupKept, StopSucceeds, StopFails, AppStates, TypeOK, AppType, ProcType, WorkType, RestType, DataType
  <2>2. SlotInv'
    BY <1>2 DEF ExitCleanup, Cleanup, CleanupDone, CleanupKept, StopSucceeds, StopFails, AppStates, SlotInv, SetupAlone, HelperOwned, ChildOwned, ExportSteps, SlotQuiet, RecoverySlot, RecoveryCommand, TypeOK, AppType, ProcType, WorkType, RestType, DataType, Kept
  <2>3. RestoreInv'
    BY <1>2 DEF ExitCleanup, Cleanup, CleanupDone, CleanupKept, StopSucceeds, StopFails, AppStates, RestoreInv, SafetyKnown, TargetKnown, RollbackOfSuccess, Kept, TypeOK, WorkType, SlotInv, ExportSteps
  <2>4. EndInv'
    BY <1>2 DEF ExitCleanup, Cleanup, CleanupDone, CleanupKept, StopSucceeds, StopFails, AppStates, EndInv, ExitedClean, Orphanless, SidecarAccounted, SlotInv, SetupAlone, HelperOwned, ChildOwned, ExportSteps, SlotQuiet, RecoverySlot, RecoveryCommand, TypeOK, AppType, ProcType, WorkType, RestType, DataType, Kept
  <2> QED BY <2>1, <2>2, <2>3, <2>4
<1>3. CASE Exit
  <2>1. TypeOK'
    BY <1>3, NoOpFacts DEF Exit, ProcessGone, AppStates, CloserSteps, Mutators, TypeOK, AppType, ProcType, WorkType, RestType, DataType
  <2>2. SlotInv'
    BY <1>3, NoOpFacts DEF Exit, ProcessGone, AppStates, CloserSteps, Mutators, SlotInv, SetupAlone, HelperOwned, ChildOwned, ExportSteps, SlotQuiet, RecoverySlot, RecoveryCommand, TypeOK, AppType, ProcType, WorkType, RestType, DataType, Kept
  <2>3. RestoreInv'
    BY <1>3, NoOpFacts DEF Exit, ProcessGone, AppStates, CloserSteps, Mutators, RestoreInv, SafetyKnown, TargetKnown, RollbackOfSuccess, Kept, TypeOK, WorkType, SlotInv, ExportSteps
  <2>4. EndInv'
    BY <1>3, NoOpFacts DEF Exit, ProcessGone, AppStates, CloserSteps, Mutators, EndInv, ExitedClean, Orphanless, SidecarAccounted, SlotInv, SetupAlone, HelperOwned, ChildOwned, ExportSteps, SlotQuiet, RecoverySlot, RecoveryCommand, TypeOK, AppType, ProcType, WorkType, RestType, DataType, Kept
  <2> QED BY <2>1, <2>2, <2>3, <2>4
<1> QED BY <1>1, <1>2, <1>3 DEF EventLoop

LEMMA BeginCommandStep ==
  ASSUME IInv, NEW kind \in Kinds, BeginCommand(kind)
  PROVE  IInv'
<1> DEFINE first == IF Quiesces(kind) THEN "quiesce" ELSE "launch"
<1>1. PICK target \in IF kind \in {"restore", "resume"} THEN Versions ELSE {None} :
        op' = [NoOp EXCEPT !.kind = kind, !.target = target, !.before = data,
                 !.recovery = InRecovery(kind), !.step = first]
  BY DEF BeginCommand
<1>2. kind \in CommandKinds /\ data \in DataStates /\ InRecovery(kind) \in BOOLEAN
  BY KindsAssumption DEF InRecovery, TypeOK, DataType, AppType
<1>3. /\ op' \in Operations /\ op'.kind = kind /\ op'.target = target
      /\ op'.recovery = InRecovery(kind) /\ op'.result = "none"
      /\ op'.step = first
  <2>1. first \in OpSteps /\ target \in Versions \cup {None}
    BY <1>1 DEF OpSteps
  <2> HIDE DEF first
  <2> QED BY <1>1, <1>2, <2>1, BeginFacts
<1>4. /\ app = "up" /\ op.step = "idle" /\ (kind = "probe" => ~recoveryOnly)
      /\ updateOp' \in {updateOp, "delete"}
      /\ UNCHANGED <<appVars, procVars, helper, orphans, apply, closers, dataVars, tainted>>
  BY DEF BeginCommand
<1>5. TypeOK'
  BY <1>3, <1>4 DEF TypeOK, AppType, ProcType, WorkType, RestType, DataType
<1>6. SlotInv'
  BY <1>2, <1>3, <1>4 DEF SlotInv, SetupAlone, HelperOwned, ChildOwned, ExportSteps, SlotQuiet, RecoverySlot, RecoveryCommand, CommandKinds, Quiesces, InRecovery
<1>7. RestoreInv'
  BY <1>1, <1>3 DEF RestoreInv, SafetyKnown, TargetKnown, RollbackOfSuccess, Quiesces
<1>8. EndInv'
  BY <1>4 DEF EndInv, ExitedClean, Orphanless, SidecarAccounted
<1> QED BY <1>5, <1>6, <1>7, <1>8

LEMMA UserStep ==
  ASSUME IInv, User
  PROVE  IInv'
<1>1. CASE Launch
  <2>1. TypeOK'
    BY <1>1 DEF Launch, AppStates, TypeOK, AppType, ProcType, WorkType, RestType, DataType
  <2>2. SlotInv'
    BY <1>1 DEF Launch, AppStates, SlotInv, SetupAlone, HelperOwned, ChildOwned, ExportSteps, SlotQuiet, RecoverySlot, RecoveryCommand, TypeOK, AppType, ProcType, WorkType, RestType, DataType, Kept
  <2>3. RestoreInv'
    BY <1>1 DEF Launch, AppStates, RestoreInv, SafetyKnown, TargetKnown, RollbackOfSuccess, Kept, TypeOK, WorkType, SlotInv, ExportSteps
  <2>4. EndInv'
    BY <1>1 DEF Launch, AppStates, EndInv, ExitedClean, Orphanless, SidecarAccounted, SlotInv, SetupAlone, HelperOwned, ChildOwned, ExportSteps, SlotQuiet, RecoverySlot, RecoveryCommand, TypeOK, AppType, ProcType, WorkType, RestType, DataType, Kept
  <2> QED BY <2>1, <2>2, <2>3, <2>4
<1>2. CASE BeginApply
  <2>1. TypeOK'
    BY <1>2 DEF BeginApply, TypeOK, AppType, ProcType, WorkType, RestType, DataType
  <2>2. SlotInv'
    BY <1>2 DEF BeginApply, SlotInv, SetupAlone, HelperOwned, ChildOwned, ExportSteps, SlotQuiet, RecoverySlot, RecoveryCommand, TypeOK, AppType, ProcType, WorkType, RestType, DataType, Kept
  <2>3. RestoreInv'
    BY <1>2 DEF BeginApply, RestoreInv, SafetyKnown, TargetKnown, RollbackOfSuccess, Kept, TypeOK, WorkType, SlotInv, ExportSteps
  <2>4. EndInv'
    BY <1>2 DEF BeginApply, EndInv, ExitedClean, Orphanless, SidecarAccounted, SlotInv, SetupAlone, HelperOwned, ChildOwned, ExportSteps, SlotQuiet, RecoverySlot, RecoveryCommand, TypeOK, AppType, ProcType, WorkType, RestType, DataType, Kept
  <2> QED BY <2>1, <2>2, <2>3, <2>4
<1>3. CASE CloseWindow
  <2>1. AppType'
    BY <1>3 DEF CloseWindow, BeginClose, CloserSteps, TypeOK, AppType, ProcType, WorkType, RestType, DataType, AppStates
  <2>2. ProcType'
    BY <1>3 DEF CloseWindow, BeginClose, CloserSteps, TypeOK, AppType, ProcType, WorkType, RestType, DataType
  <2>3. WorkType'
    BY <1>3 DEF CloseWindow, BeginClose, CloserSteps, TypeOK, AppType, ProcType, WorkType, RestType, DataType
  <2>4. RestType'
    BY <1>3 DEF CloseWindow, BeginClose, CloserSteps, TypeOK, AppType, ProcType, WorkType, RestType, DataType
  <2>5. DataType'
    BY <1>3 DEF CloseWindow, BeginClose, CloserSteps, TypeOK, AppType, ProcType, WorkType, RestType, DataType, DataStates, RestoreInv, SafetyKnown, TargetKnown, RollbackOfSuccess
  <2>6. TypeOK'
    BY <2>1, <2>2, <2>3, <2>4, <2>5, <1>3 DEF CloseWindow, TypeOK
  <2>7. SlotInv'
    BY <1>3 DEF CloseWindow, BeginClose, CloserSteps, SlotInv, SetupAlone, HelperOwned, ChildOwned, ExportSteps, SlotQuiet, RecoverySlot, RecoveryCommand, TypeOK, AppType, ProcType, WorkType, RestType, DataType, Kept
  <2>8. RestoreInv'
    BY <1>3 DEF CloseWindow, BeginClose, CloserSteps, RestoreInv, SafetyKnown, TargetKnown, RollbackOfSuccess, Kept, TypeOK, WorkType, SlotInv, ExportSteps
  <2>9. EndInv'
    BY <1>3 DEF CloseWindow, BeginClose, CloserSteps, EndInv, ExitedClean, Orphanless, SidecarAccounted, SlotInv, SetupAlone, HelperOwned, ChildOwned, ExportSteps, SlotQuiet, RecoverySlot, RecoveryCommand, TypeOK, AppType, ProcType, WorkType, RestType, DataType, Kept
  <2> QED BY <2>6, <2>7, <2>8, <2>9
<1>4. CASE Quit
  <2>1. TypeOK'
    BY <1>4 DEF Quit, TypeOK, AppType, ProcType, WorkType, RestType, DataType
  <2>2. SlotInv'
    BY <1>4 DEF Quit, SlotInv, SetupAlone, HelperOwned, ChildOwned, ExportSteps, SlotQuiet, RecoverySlot, RecoveryCommand, TypeOK, AppType, ProcType, WorkType, RestType, DataType, Kept
  <2>3. RestoreInv'
    BY <1>4 DEF Quit, RestoreInv, SafetyKnown, TargetKnown, RollbackOfSuccess, Kept, TypeOK, WorkType, SlotInv, ExportSteps
  <2>4. EndInv'
    BY <1>4 DEF Quit, EndInv, ExitedClean, Orphanless, SidecarAccounted, SlotInv, SetupAlone, HelperOwned, ChildOwned, ExportSteps, SlotQuiet, RecoverySlot, RecoveryCommand, TypeOK, AppType, ProcType, WorkType, RestType, DataType, Kept
  <2> QED BY <2>1, <2>2, <2>3, <2>4
<1> QED BY <1>1, <1>2, <1>3, <1>4, BeginCommandStep DEF User

LEMMA SidecarDiesStep ==
  ASSUME IInv, NEW s \in SidecarIds, SidecarDies(s)
  PROVE  IInv'
<1>1. CASE SidecarDies(s)
  <2>1. TypeOK'
    BY <1>1 DEF SidecarDies, TypeOK, AppType, ProcType, WorkType, RestType, DataType
  <2>2. SlotInv'
    BY <1>1 DEF SidecarDies, SlotInv, SetupAlone, HelperOwned, ChildOwned, ExportSteps, SlotQuiet, RecoverySlot, RecoveryCommand, TypeOK, AppType, ProcType, WorkType, RestType, DataType, Kept
  <2>3. RestoreInv'
    BY <1>1 DEF SidecarDies, RestoreInv, SafetyKnown, TargetKnown, RollbackOfSuccess, Kept, TypeOK, WorkType, SlotInv, ExportSteps
  <2>4. EndInv'
    BY <1>1 DEF SidecarDies, EndInv, ExitedClean, Orphanless, SidecarAccounted, SlotInv, SetupAlone, HelperOwned, ChildOwned, ExportSteps, SlotQuiet, RecoverySlot, RecoveryCommand, TypeOK, AppType, ProcType, WorkType, RestType, DataType, Kept
  <2> QED BY <2>1, <2>2, <2>3, <2>4
<1> QED BY <1>1

LEMMA OrphanFinishesStep ==
  ASSUME IInv, NEW h \in orphans, OrphanFinishes(h)
  PROVE  IInv'
<1>1. CASE OrphanFinishes(h)
  <2>1. TypeOK'
    BY <1>1 DEF OrphanFinishes, DataStates, TypeOK, AppType, ProcType, WorkType, RestType, DataType
  <2>2. SlotInv'
    BY <1>1 DEF OrphanFinishes, DataStates, SlotInv, SetupAlone, HelperOwned, ChildOwned, ExportSteps, SlotQuiet, RecoverySlot, RecoveryCommand, TypeOK, AppType, ProcType, WorkType, RestType, DataType, Kept
  <2>3. RestoreInv'
    BY <1>1 DEF OrphanFinishes, DataStates, RestoreInv, SafetyKnown, TargetKnown, RollbackOfSuccess, Kept, TypeOK, WorkType, SlotInv, ExportSteps
  <2>4. EndInv'
    BY <1>1 DEF OrphanFinishes, DataStates, EndInv, ExitedClean, Orphanless, SidecarAccounted, SlotInv, SetupAlone, HelperOwned, ChildOwned, ExportSteps, SlotQuiet, RecoverySlot, RecoveryCommand, TypeOK, AppType, ProcType, WorkType, RestType, DataType, Kept
  <2> QED BY <2>1, <2>2, <2>3, <2>4
<1> QED BY <1>1

LEMMA SystemStep ==
  ASSUME IInv, System
  PROVE  IInv'
<1>1. CASE Crash
  <2>1. TypeOK'
    BY <1>1, NoOpFacts DEF Crash, ProcessGone, AppStates, CloserSteps, Mutators, TypeOK, AppType, ProcType, WorkType, RestType, DataType
  <2>2. SlotInv'
    BY <1>1, NoOpFacts DEF Crash, ProcessGone, AppStates, CloserSteps, Mutators, SlotInv, SetupAlone, HelperOwned, ChildOwned, ExportSteps, SlotQuiet, RecoverySlot, RecoveryCommand, TypeOK, AppType, ProcType, WorkType, RestType, DataType, Kept
  <2>3. RestoreInv'
    BY <1>1, NoOpFacts DEF Crash, ProcessGone, AppStates, CloserSteps, Mutators, RestoreInv, SafetyKnown, TargetKnown, RollbackOfSuccess, Kept, TypeOK, WorkType, SlotInv, ExportSteps
  <2>4. EndInv'
    BY <1>1, NoOpFacts DEF Crash, ProcessGone, AppStates, CloserSteps, Mutators, EndInv, ExitedClean, Orphanless, SidecarAccounted, SlotInv, SetupAlone, HelperOwned, ChildOwned, ExportSteps, SlotQuiet, RecoverySlot, RecoveryCommand, TypeOK, AppType, ProcType, WorkType, RestType, DataType, Kept
  <2> QED BY <2>1, <2>2, <2>3, <2>4
<1> QED BY <1>1, SidecarDiesStep, OrphanFinishesStep DEF System

LEMMA StutterStep == ASSUME IInv, UNCHANGED vars PROVE IInv'
BY DEF vars, TypeOK, AppType, ProcType, WorkType, RestType, DataType, SlotInv, SetupAlone, HelperOwned, ChildOwned, ExportSteps, SlotQuiet, RecoverySlot, RecoveryCommand, RestoreInv, SafetyKnown, TargetKnown, RollbackOfSuccess, EndInv, ExitedClean, Orphanless, SidecarAccounted

LEMMA InitIInv == ASSUME Init PROVE IInv
BY NoOpFacts DEF Init, TypeOK, AppType, ProcType, WorkType, RestType, DataType, SlotInv, SetupAlone, HelperOwned, ChildOwned, ExportSteps, SlotQuiet, RecoverySlot, RecoveryCommand, RestoreInv, SafetyKnown, TargetKnown, RollbackOfSuccess, EndInv, ExitedClean, Orphanless, SidecarAccounted, AppStates, CloserSteps, DataStates

LEMMA NextIInv == ASSUME IInv, [Next]_vars PROVE IInv'
BY SetupThreadStep, CommandThreadStep, UpdateThreadStep, CloseThreadStep, EventLoopStep,
   UserStep, SystemStep, StutterStep DEF Next

\* The inductive invariant holds in every reachable state.
THEOREM Inductive == Spec => []IInv
BY InitIInv, NextIInv, PTL DEF Spec

-----------------------------------------------------------------------------
(* The theorems.                                                            *)

\* Every variable of the shell keeps its type.
THEOREM TypeCorrect == Spec => []TypeOK
BY Inductive, PTL

\* What the command that runs a mutating helper knows: the slot is empty.
LEMMA HelperSlot == ASSUME IInv, helper \in Mutators PROVE handle = None /\ child = None
<1>1. op.step \in {"helper", "rollingback"} /\ op.kind \in Mutating
  BY KindFacts DEF SlotInv, HelperOwned, RestoreInv, RollbackOfSuccess, Mutators, CommandKinds, TypeOK, WorkType
<1>2. app \notin {"down", "boot", "spawn", "starting"}
  BY <1>1 DEF SlotInv, SetupAlone
<1> QED BY <1>1, <1>2 DEF SlotInv, SlotQuiet, ChildOwned

\* No helper replaces, deletes or repairs the live database while the process
\* has a sidecar: run_data_backup_operation_command's quiesce, its restarts, the
\* close waiters and the exit path never let the two meet.
THEOREM MutationIsAlone == Spec => []NoMutationUnderSidecar
<1>1. IInv => NoMutationUnderSidecar
  BY HelperSlot DEF NoMutationUnderSidecar
<1> QED BY <1>1, Inductive, PTL

\* The restart after a command never finds a sidecar in the slot.
LEMMA StartSlot == ASSUME IInv PROVE SlotIsFree
<1>1. CASE op.step = "starting"
  BY <1>1, KindFacts DEF SlotIsFree, SlotInv, SlotQuiet, ExportSteps, SetupAlone, TypeOK, WorkType, CommandKinds
<1>2. CASE app = "starting"
  BY <1>2 DEF SlotIsFree, SlotInv, SetupAlone
<1> QED BY <1>1, <1>2 DEF SlotIsFree

THEOREM RestartFindsSlotFree == Spec => []SlotIsFree
BY StartSlot, Inductive, PTL

\* No sidecar is lost: what runs is stored, starting, or survived KILL.
THEOREM SidecarsAccounted == Spec => []SidecarAccounted
<1>1. IInv => SidecarAccounted
  BY DEF EndInv
<1> QED BY <1>1, Inductive, PTL

\* The database has one writer at a time, from one run of the application to
\* the next.
THEOREM OneWriterAtATime == Spec => []OneWriter
<1>1. ASSUME IInv PROVE OneWriter
  <2> SUFFICES ASSUME ~tainted PROVE OneWriter
    BY DEF OneWriter
  <2>1. alive \subseteq {handle, child} \cup unkillable /\ orphans = {}
    BY <1>1 DEF EndInv, SidecarAccounted, Orphanless
  <2>2. alive \subseteq SidecarIds
    BY <1>1 DEF TypeOK, ProcType
  <2>3. helper \in Mutators \/ app \in {"down", "boot", "spawn"} => handle = None /\ child = None
    BY <1>1, HelperSlot DEF SlotInv, SetupAlone
  <2>4. handle = None \/ child = None
    BY <1>1, StartSlot DEF SlotIsFree, SlotInv, ChildOwned
  <2> QED BY <2>1, <2>2, <2>3, <2>4 DEF OneWriter
<1> QED BY <1>1, Inductive, PTL

\* The rollback of a restore has a usable safety backup of what was replaced.
THEOREM RollbackBackedUp == Spec => []RollbackHasBackup
<1>1. IInv => RollbackHasBackup
  BY DEF RollbackHasBackup, RestoreInv, SafetyKnown, RollbackOfSuccess
<1> QED BY <1>1, Inductive, PTL

-----------------------------------------------------------------------------
(* What is still to be shown needs more of the steps in between than IInv    *)
(* says: who may yet use an exit permission, meet a deleted database, or     *)
(* answer a restore.  Each is inductive on top of IInv.                      *)

\* The application is about to end, or a recovery is about to withdraw the permission.
Going ==
  \/ exitEvent \/ window = "destroyed" \/ apply = "restart"
  \/ \E c \in Closers : closers[c] = "destroy"
  \/ op.step \in {"ready", "disallow"}

\* Exit is allowed for good only while no thread can put a sidecar in the slot, but
\* for the recovery that withdraws the permission right after.
ExitInv ==
  exitAllowed /\ app = "up" /\ ~Going =>
    /\ handle = None
    /\ op.step \in {"idle", "quiesce", "answered"} \/ op.kind = "export" \/ op.recovery

\* Only a restore leaves the recovery screen.
RecoveryRestores == op.recovery => op.kind \in {"restore", "resume"}
\* A boot goes on with a usable database.
BootHasData == ~tainted /\ app \in {"spawn", "starting"} => data \in Versions
\* A deleted database is met by the delete itself, by commands that find no sidecar
\* to quiesce, and by a recovery that did not replace it.
DeletedSteps ==
  ~tainted /\ data = Deleted =>
    /\ handle = None /\ child = None
    /\ \/ op.step \in {"idle", "quiesce", "answered"}
       \/ op.kind = "export"
       \/ op.kind = "delete" /\ op.result # "validation" /\ op.step \in {"settle", "allow"}
       \/ op.recovery /\ op.step \in {"launch", "helper"}
       \/ op.recovery /\ op.step = "settle" /\ op.result # "success"
DeleteInv == RecoveryRestores /\ BootHasData /\ DeletedSteps

\* What a command has not done yet.
CommandSteps ==
  /\ op.step \in {"quiesce", "launch", "helper"} => op.result = "none" /\ op.attempt = 1
  /\ op.step = "quiesce" => ~op.recovery
  /\ op.step = "allow" => op.kind \in {"delete", "probe"}

Restoring == ~tainted /\ op.kind \in {"restore", "resume"}
\* The second attempt is that of a normal restore whose rollback put the safety
\* backup back, to stay.
SecondAttempt ==
  Restoring /\ op.attempt = 2 =>
    /\ op.step \in {"spawn", "starting", "answered"} /\ ~op.recovery /\ op.result = "success"
    /\ data = op.before
\* Until then a restore that succeeded has its version live, and one that was not
\* tried the one it found.
RestoredIsLive ==
  Restoring /\ op.attempt = 1 /\ op.result = "success"
    /\ op.step \in {"settle", "spawn", "starting", "rollback", "rollingback", "ready", "disallow"}
    => data = op.target
OthersKeepData ==
  Restoring /\ op.result \notin {"success", "failed"}
    /\ op.step \in {"quiesce", "launch", "helper", "settle", "spawn", "starting"}
    => data = op.before
\* A recovery starts the runtime for a success only, and ends with it in the slot.
RecoverySucceeds ==
  /\ op.step \in {"ready", "disallow"} => op.kind \in {"restore", "resume"} /\ op.recovery /\ (handle # None \/ Leaving)
  /\ op.recovery /\ op.step \in {"spawn", "starting", "ready", "disallow"} => op.result = "success"
\* Its screen can be closed, from its first moment to its last.
RecoveryCloses ==
  /\ op.step = "disallow" => ~recoveryOnly
  /\ op.recovery /\ op.step \in {"launch", "helper", "settle", "spawn", "starting", "ready"} => recoveryOnly
  /\ recoveryOnly => exitAllowed \/ Leaving \/ (op.kind = "probe" /\ op.step = "allow")
AnswerInv ==
  /\ CommandSteps /\ SecondAttempt /\ RestoredIsLive /\ OthersKeepData /\ RecoverySucceeds
  /\ RecoveryCloses /\ AnswerIsTrue

\* A command begins with nothing done.
LEMMA BegunFacts ==
  ASSUME IInv, NEW kind \in Kinds, BeginCommand(kind)
  PROVE  /\ app = "up" /\ op.step = "idle" /\ kind \in CommandKinds
         /\ op' \in Operations /\ op'.kind = kind /\ op'.recovery = InRecovery(kind)
         /\ op'.step = IF Quiesces(kind) THEN "quiesce" ELSE "launch"
         /\ op'.result = "none" /\ op'.before = data /\ op'.attempt = 1
         /\ kind = "probe" => ~recoveryOnly
         /\ UNCHANGED <<appVars, procVars, helper, orphans, apply, closers, dataVars, tainted>>
<1> DEFINE first == IF Quiesces(kind) THEN "quiesce" ELSE "launch"
<1>1. PICK target \in IF kind \in {"restore", "resume"} THEN Versions ELSE {None} :
        op' = [NoOp EXCEPT !.kind = kind, !.target = target, !.before = data,
                 !.recovery = InRecovery(kind), !.step = first]
  BY DEF BeginCommand
<1>2. kind \in CommandKinds /\ data \in DataStates /\ InRecovery(kind) \in BOOLEAN
  BY KindsAssumption DEF InRecovery, TypeOK, DataType, AppType
<1>3. first \in OpSteps /\ target \in Versions \cup {None}
  BY <1>1 DEF OpSteps
<1>4. /\ app = "up" /\ op.step = "idle" /\ (kind = "probe" => ~recoveryOnly)
      /\ UNCHANGED <<appVars, procVars, helper, orphans, apply, closers, dataVars, tainted>>
  BY DEF BeginCommand
<1> HIDE DEF first
<1>5. /\ op' \in Operations /\ op'.kind = kind /\ op'.recovery = InRecovery(kind)
      /\ op'.step = first /\ op'.result = "none" /\ op'.before = data /\ op'.attempt = 1
  BY <1>1, <1>2, <1>3, BeginFacts
<1> QED BY <1>2, <1>4, <1>5 DEF first

\* Exit permission: one step per action, by thread.
LEMMA ExitStep == ASSUME IInv, ExitInv, [Next]_vars PROVE ExitInv'
<1> USE DEF ExitInv, Going, TypeOK, AppType, ProcType, WorkType, RestType, DataType, Kept
<1>1. CASE SetupThread
  <2>1. CASE BootFinishes
    BY <2>1 DEF BootFinishes, SlotInv, SetupAlone
  <2>2. CASE BootSpawns
    BY <2>2 DEF BootSpawns, SpawnSidecar, NoSpawn
  <2>3. CASE BootReady
    <3>1. app' = "up" => exitAllowed' = exitEvent'
      BY <2>3 DEF BootReady
    <3> QED BY <3>1 DEF ExitInv, Going
  <2> QED BY <1>1, <2>1, <2>2, <2>3 DEF SetupThread
<1>2. CASE CommandThread
  <2>1. CASE Quiesce
    BY <2>1, ContinueFacts, AnswerFacts DEF Quiesce, CleanupDone, CleanupKept, OpSteps, Answers
  <2>2. CASE LaunchHelper
    BY <2>2, StepFacts, ResultFacts, KindFacts DEF LaunchHelper, OpSteps, Results, CommandKinds
  <2>3. CASE HelperFinishes
    BY <2>3, OutcomeFacts DEF HelperFinishes, Results
  <2>4. CASE Settle
    BY <2>4, ContinueFacts, AnswerFacts DEF Settle, AfterDelete, OpSteps, Answers
  <2>5. CASE AllowAfterCommand
    BY <2>5, AnswerFacts, KindFacts DEF AllowAfterCommand, AllowExit, Answers, SlotInv, ExportSteps, SlotQuiet, CommandKinds
  <2>6. CASE Restart
    BY <2>6, ContinueFacts, RestartFailedFacts DEF Restart, SpawnSidecar, NoSpawn, OpSteps
  <2>7. CASE Restarted
    BY <2>7, ContinueFacts, AnswerFacts, RestartFailedFacts, KindFacts DEF Restarted, StoreSidecar, StartFails, OpSteps, Answers, SlotInv, ExportSteps, CommandKinds
  <2>8. CASE Rollback
    BY <2>8, StepFacts DEF Rollback, OpSteps
  <2>9. CASE RollbackFinishes
    BY <2>9, AttemptFacts, AnswerFacts DEF RollbackFinishes, Answers
  <2>10. CASE RecoveryReady
    BY <2>10, ContinueFacts DEF RecoveryReady, OpSteps
  <2>11. CASE DisallowExit
    BY <2>11, AnswerFacts DEF DisallowExit, ForbidExit, Answers
  <2>12. CASE Return
    BY <2>12, NoOpFacts DEF Return
  <2> QED BY <1>2, <2>1, <2>2, <2>3, <2>4, <2>5, <2>6, <2>7, <2>8, <2>9, <2>10, <2>11, <2>12 DEF CommandThread
<1>3. CASE UpdateThread
  <2>1. CASE ApplyPrepared
    BY <2>1 DEF ApplyPrepared
  <2>2. CASE ApplyAllowsExit
    BY <2>2 DEF ApplyAllowsExit, AllowExit
  <2>3. CASE ApplyRequestsRestart
    BY <2>3 DEF ApplyRequestsRestart
  <2> QED BY <1>3, <2>1, <2>2, <2>3 DEF UpdateThread
<1>4. ASSUME NEW c \in Closers, CloseThread(c) PROVE ExitInv'
  <2>1. CASE CloseDecided(c)
    BY <2>1 DEF CloseDecided, CloserSteps
  <2>2. CASE FinalizeCleanup(c)
    BY <2>2 DEF FinalizeCleanup, CleanupDone, CleanupKept, CloserSteps
  <2>3. CASE FinalizeAllow(c)
    BY <2>3 DEF FinalizeAllow, AllowExit, CloserSteps
  <2>4. CASE FinalizeExit(c)
    BY <2>4 DEF FinalizeExit, CloserSteps
  <2> QED BY <1>4, <2>1, <2>2, <2>3, <2>4 DEF CloseThread
<1>5. CASE EventLoop
  <2>1. CASE HandleExitRequested
    BY <2>1 DEF HandleExitRequested, BeginClose
  <2>2. CASE ExitCleanup
    BY <2>2 DEF ExitCleanup, Cleanup, CleanupDone, CleanupKept
  <2>3. CASE Exit
    BY <2>3, NoOpFacts DEF Exit, ProcessGone
  <2> QED BY <1>5, <2>1, <2>2, <2>3 DEF EventLoop
<1>6. CASE User
  <2>1. CASE Launch
    BY <2>1 DEF Launch
  <2>2. CASE BeginApply
    BY <2>2 DEF BeginApply
  <2>3. CASE CloseWindow
    BY <2>3 DEF CloseWindow, BeginClose
  <2>4. CASE Quit
    BY <2>4 DEF Quit
  <2>5. ASSUME NEW kind \in Kinds, BeginCommand(kind) PROVE ExitInv'
    BY <2>5, BegunFacts DEF Quiesces, InRecovery
  <2> QED BY <1>6, <2>1, <2>2, <2>3, <2>4, <2>5 DEF User
<1>7. CASE System
  <2>1. CASE Crash
    BY <2>1, NoOpFacts DEF Crash, ProcessGone
  <2>2. ASSUME NEW s \in SidecarIds, SidecarDies(s) PROVE ExitInv'
    BY <2>2 DEF SidecarDies
  <2>3. ASSUME NEW h \in orphans, OrphanFinishes(h) PROVE ExitInv'
    BY <2>3 DEF OrphanFinishes, EndInv, Orphanless
  <2> QED BY <1>7, <2>1, <2>2, <2>3 DEF System
<1>8. CASE UNCHANGED vars
  BY <1>8 DEF vars
<1> QED BY <1>1, <1>2, <1>3, <1>4, <1>5, <1>6, <1>7, <1>8 DEF Next

\* The deleted database.
LEMMA DeleteStep == ASSUME IInv, DeleteInv, [Next]_vars PROVE DeleteInv'
<1> USE DEF DeleteInv, RecoveryRestores, BootHasData, DeletedSteps, TypeOK, AppType, ProcType, WorkType, RestType, DataType, Kept
<1>1. CASE SetupThread
  <2>1. CASE BootFinishes
    BY <2>1 DEF BootFinishes, SlotInv, SetupAlone, DataStates
  <2>2. CASE BootSpawns
    BY <2>2 DEF BootSpawns, SpawnSidecar, NoSpawn, SlotInv, SetupAlone
  <2>3. CASE BootReady
    BY <2>3 DEF BootReady, StoreSidecar, StartFails, SlotInv, SetupAlone
  <2> QED BY <1>1, <2>1, <2>2, <2>3 DEF SetupThread
<1>2. CASE CommandThread
  <2>1. CASE Quiesce
    BY <2>1, ContinueFacts, AnswerFacts DEF Quiesce, CleanupDone, CleanupKept, OpSteps, Answers
  <2>2. CASE LaunchHelper
    BY <2>2, StepFacts, ResultFacts, KindFacts DEF LaunchHelper, OpSteps, Results, CommandKinds
  <2>3. CASE HelperFinishes
    <3>1. PICK result \in Results :
            /\ HelperOutcome(result)
            /\ op' = [op EXCEPT !.step = "settle", !.result = result,
                        !.before = data, !.safety = SafetyBackup]
      BY <2>3 DEF HelperFinishes, Results
    <3>2. /\ op \in Operations /\ data \in DataStates /\ op.step = "helper" /\ app # "spawn"
          /\ op.kind \in CommandKinds /\ UNCHANGED <<app, handle, child, tainted>>
          /\ app # "starting"
      BY <2>3, KindFacts DEF HelperFinishes, TypeOK, WorkType, DataType, SlotInv, SetupAlone
    <3>3. /\ op'.step = "settle" /\ op'.result = result /\ op'.kind = op.kind
          /\ op'.recovery = op.recovery /\ op'.target = op.target
      BY <3>1, <3>2, OutcomeFacts
    <3>4. RecoveryRestores' /\ BootHasData'
      BY <3>2, <3>3 DEF RecoveryRestores, BootHasData
    <3>5. op.kind # "export" => handle = None /\ child = None
      BY <3>2 DEF SlotInv, SlotQuiet, ChildOwned, CommandKinds
    <3>6. ASSUME data' = Deleted, ~tainted, op.kind # "export"
          PROVE  \/ op.kind = "delete" /\ result # "validation"
                 \/ op.recovery /\ result # "success"
      <4>1. op.kind \in {"restore", "resume"} => op.target \in Versions /\ op.target # Deleted
        BY DEF RestoreInv, TargetKnown
      <4>2. data = Deleted => op.recovery
        BY <3>2, <3>6 DEF DeletedSteps
      <4>3. CASE op.kind \in {"restore", "resume"}
        BY <4>1, <4>2, <4>3, <3>1, <3>6 DEF HelperOutcome, Results
      <4>4. CASE op.kind = "delete"
        BY <4>2, <4>4, <3>1, <3>6 DEF HelperOutcome, RecoveryRestores
      <4>5. CASE op.kind = "probe"
        BY <4>2, <4>5, <3>1, <3>6 DEF HelperOutcome, RecoveryRestores
      <4> QED BY <4>3, <4>4, <4>5, <3>2, <3>6 DEF CommandKinds
    <3>7. op.kind = "export" => UNCHANGED data
      BY <3>1 DEF HelperOutcome
    <3>8. DeletedSteps'
      BY <3>2, <3>3, <3>5, <3>6, <3>7 DEF DeletedSteps
    <3> QED BY <3>4, <3>8 DEF DeleteInv
  <2>4. CASE Settle
    BY <2>4, ContinueFacts, AnswerFacts DEF Settle, AfterDelete, OpSteps, Answers
  <2>5. CASE AllowAfterCommand
    BY <2>5, AnswerFacts, KindFacts DEF AllowAfterCommand, AllowExit, Answers, SlotInv, ExportSteps, SlotQuiet, CommandKinds
  <2>6. CASE Restart
    BY <2>6, ContinueFacts, RestartFailedFacts DEF Restart, SpawnSidecar, NoSpawn, OpSteps, SlotInv, ExportSteps
  <2>7. CASE Restarted
    BY <2>7, ContinueFacts, AnswerFacts, RestartFailedFacts DEF Restarted, StoreSidecar, StartFails, OpSteps, Answers
  <2>8. CASE Rollback
    BY <2>8, StepFacts DEF Rollback, OpSteps
  <2>9. CASE RollbackFinishes
    BY <2>9, AttemptFacts, AnswerFacts DEF RollbackFinishes, Answers, RestoreInv, SafetyKnown, RollbackOfSuccess, SlotInv, SlotQuiet
  <2>10. CASE RecoveryReady
    BY <2>10, ContinueFacts DEF RecoveryReady, OpSteps
  <2>11. CASE DisallowExit
    BY <2>11, AnswerFacts DEF DisallowExit, ForbidExit, Answers
  <2>12. CASE Return
    BY <2>12, NoOpFacts DEF Return
  <2> QED BY <1>2, <2>1, <2>2, <2>3, <2>4, <2>5, <2>6, <2>7, <2>8, <2>9, <2>10, <2>11, <2>12 DEF CommandThread
<1>3. CASE UpdateThread
  <2>1. CASE ApplyPrepared
    BY <2>1 DEF ApplyPrepared
  <2>2. CASE ApplyAllowsExit
    BY <2>2 DEF ApplyAllowsExit, AllowExit
  <2>3. CASE ApplyRequestsRestart
    BY <2>3 DEF ApplyRequestsRestart
  <2> QED BY <1>3, <2>1, <2>2, <2>3 DEF UpdateThread
<1>4. ASSUME NEW c \in Closers, CloseThread(c) PROVE DeleteInv'
  <2>1. CASE CloseDecided(c)
    BY <2>1 DEF CloseDecided, CloserSteps
  <2>2. CASE FinalizeCleanup(c)
    BY <2>2 DEF FinalizeCleanup, CleanupDone, CleanupKept, CloserSteps
  <2>3. CASE FinalizeAllow(c)
    BY <2>3 DEF FinalizeAllow, AllowExit, CloserSteps
  <2>4. CASE FinalizeExit(c)
    BY <2>4 DEF FinalizeExit, CloserSteps
  <2> QED BY <1>4, <2>1, <2>2, <2>3, <2>4 DEF CloseThread
<1>5. CASE EventLoop
  <2>1. CASE HandleExitRequested
    BY <2>1 DEF HandleExitRequested, BeginClose
  <2>2. CASE ExitCleanup
    BY <2>2 DEF ExitCleanup, Cleanup, CleanupDone, CleanupKept
  <2>3. CASE Exit
    BY <2>3, NoOpFacts DEF Exit, ProcessGone
  <2> QED BY <1>5, <2>1, <2>2, <2>3 DEF EventLoop
<1>6. CASE User
  <2>1. CASE Launch
    BY <2>1 DEF Launch
  <2>2. CASE BeginApply
    BY <2>2 DEF BeginApply
  <2>3. CASE CloseWindow
    BY <2>3 DEF CloseWindow, BeginClose
  <2>4. CASE Quit
    BY <2>4 DEF Quit
  <2>5. ASSUME NEW kind \in Kinds, BeginCommand(kind) PROVE DeleteInv'
    BY <2>5, BegunFacts DEF Quiesces, InRecovery
  <2> QED BY <1>6, <2>1, <2>2, <2>3, <2>4, <2>5 DEF User
<1>7. CASE System
  <2>1. CASE Crash
    BY <2>1, NoOpFacts DEF Crash, ProcessGone
  <2>2. ASSUME NEW s \in SidecarIds, SidecarDies(s) PROVE DeleteInv'
    BY <2>2 DEF SidecarDies
  <2>3. ASSUME NEW h \in orphans, OrphanFinishes(h) PROVE DeleteInv'
    BY <2>3 DEF OrphanFinishes, EndInv, Orphanless
  <2> QED BY <1>7, <2>1, <2>2, <2>3 DEF System
<1>8. CASE UNCHANGED vars
  BY <1>8 DEF vars
<1> QED BY <1>1, <1>2, <1>3, <1>4, <1>5, <1>6, <1>7, <1>8 DEF Next

\* The answers of a restore.
LEMMA AnswerStep == ASSUME IInv, RecoveryRestores, AnswerInv, [Next]_vars PROVE AnswerInv'
<1> USE DEF RecoveryRestores, AnswerInv, CommandSteps, SecondAttempt, RestoredIsLive, OthersKeepData, RecoverySucceeds, RecoveryCloses, AnswerIsTrue, Restoring, Leaving, TypeOK, AppType, ProcType, WorkType, RestType, DataType, Kept
<1>1. CASE SetupThread
  <2>1. CASE BootFinishes
    BY <2>1 DEF BootFinishes, SlotInv, SetupAlone
  <2>2. CASE BootSpawns
    BY <2>2 DEF BootSpawns, SpawnSidecar, NoSpawn
  <2>3. CASE BootReady
    BY <2>3 DEF BootReady, StoreSidecar, StartFails, SlotInv, SetupAlone
  <2> QED BY <1>1, <2>1, <2>2, <2>3 DEF SetupThread
<1>2. CASE CommandThread
  <2>1. CASE Quiesce
    <3>1. CommandSteps'
      BY <2>1, ContinueFacts, AnswerFacts DEF Quiesce, CleanupDone, CleanupKept, OpSteps, Answers, SlotInv, SetupAlone
    <3>2. SecondAttempt'
      BY <2>1, ContinueFacts, AnswerFacts DEF Quiesce, CleanupDone, CleanupKept, OpSteps, Answers, SlotInv, SetupAlone
    <3>3. RestoredIsLive'
      BY <2>1, ContinueFacts, AnswerFacts DEF Quiesce, CleanupDone, CleanupKept, OpSteps, Answers, SlotInv, SetupAlone
    <3>4. OthersKeepData'
      BY <2>1, ContinueFacts, AnswerFacts DEF Quiesce, CleanupDone, CleanupKept, OpSteps, Answers, SlotInv, SetupAlone
    <3>5. RecoverySucceeds'
      BY <2>1, ContinueFacts, AnswerFacts DEF Quiesce, CleanupDone, CleanupKept, OpSteps, Answers, SlotInv, SetupAlone
    <3>6. RecoveryCloses'
      BY <2>1, ContinueFacts, AnswerFacts DEF Quiesce, CleanupDone, CleanupKept, OpSteps, Answers, SlotInv, SetupAlone
    <3>7. AnswerIsTrue'
      BY <2>1, ContinueFacts, AnswerFacts DEF Quiesce, CleanupDone, CleanupKept, OpSteps, Answers, SlotInv, SetupAlone
    <3> QED BY <3>1, <3>2, <3>3, <3>4, <3>5, <3>6, <3>7 DEF AnswerInv
  <2>2. CASE LaunchHelper
    <3>1. CommandSteps'
      BY <2>2, StepFacts, ResultFacts, KindFacts DEF LaunchHelper, OpSteps, Results, CommandKinds
    <3>2. SecondAttempt'
      BY <2>2, StepFacts, ResultFacts, KindFacts DEF LaunchHelper, OpSteps, Results, CommandKinds
    <3>3. RestoredIsLive'
      BY <2>2, StepFacts, ResultFacts, KindFacts DEF LaunchHelper, OpSteps, Results, CommandKinds
    <3>4. OthersKeepData'
      BY <2>2, StepFacts, ResultFacts, KindFacts DEF LaunchHelper, OpSteps, Results, CommandKinds
    <3>5. RecoverySucceeds'
      BY <2>2, StepFacts, ResultFacts, KindFacts DEF LaunchHelper, OpSteps, Results, CommandKinds
    <3>6. RecoveryCloses'
      BY <2>2, StepFacts, ResultFacts, KindFacts DEF LaunchHelper, OpSteps, Results, CommandKinds
    <3>7. AnswerIsTrue'
      BY <2>2, StepFacts, ResultFacts, KindFacts DEF LaunchHelper, OpSteps, Results, CommandKinds
    <3> QED BY <3>1, <3>2, <3>3, <3>4, <3>5, <3>6, <3>7 DEF AnswerInv
  <2>3. CASE HelperFinishes
    <3>1. CommandSteps'
      BY <2>3, OutcomeFacts, KindFacts DEF HelperFinishes, Results, HelperOutcome, SafetyBackup, CommandKinds, SlotInv, HelperOwned
    <3>2. SecondAttempt'
      BY <2>3, OutcomeFacts, KindFacts DEF HelperFinishes, Results, HelperOutcome, SafetyBackup, CommandKinds, SlotInv, HelperOwned
    <3>3. RestoredIsLive'
      BY <2>3, OutcomeFacts, KindFacts DEF HelperFinishes, Results, HelperOutcome, SafetyBackup, CommandKinds, SlotInv, HelperOwned
    <3>4. OthersKeepData'
      BY <2>3, OutcomeFacts, KindFacts DEF HelperFinishes, Results, HelperOutcome, SafetyBackup, CommandKinds, SlotInv, HelperOwned
    <3>5. RecoverySucceeds'
      BY <2>3, OutcomeFacts, KindFacts DEF HelperFinishes, Results, HelperOutcome, SafetyBackup, CommandKinds, SlotInv, HelperOwned
    <3>6. RecoveryCloses'
      BY <2>3, OutcomeFacts, KindFacts DEF HelperFinishes, Results, HelperOutcome, SafetyBackup, CommandKinds, SlotInv, HelperOwned
    <3>7. AnswerIsTrue'
      BY <2>3, OutcomeFacts, KindFacts DEF HelperFinishes, Results, HelperOutcome, SafetyBackup, CommandKinds, SlotInv, HelperOwned
    <3> QED BY <3>1, <3>2, <3>3, <3>4, <3>5, <3>6, <3>7 DEF AnswerInv
  <2>4. CASE Settle
    <3>1. CommandSteps'
      BY <2>4, ContinueFacts, AnswerFacts DEF Settle, AfterDelete, OpSteps, Answers
    <3>2. SecondAttempt'
      BY <2>4, ContinueFacts, AnswerFacts DEF Settle, AfterDelete, OpSteps, Answers
    <3>3. RestoredIsLive'
      BY <2>4, ContinueFacts, AnswerFacts DEF Settle, AfterDelete, OpSteps, Answers
    <3>4. OthersKeepData'
      BY <2>4, ContinueFacts, AnswerFacts DEF Settle, AfterDelete, OpSteps, Answers
    <3>5. RecoverySucceeds'
      BY <2>4, ContinueFacts, AnswerFacts DEF Settle, AfterDelete, OpSteps, Answers
    <3>6. RecoveryCloses'
      BY <2>4, ContinueFacts, AnswerFacts DEF Settle, AfterDelete, OpSteps, Answers
    <3>7. AnswerIsTrue'
      BY <2>4, ContinueFacts, AnswerFacts DEF Settle, AfterDelete, OpSteps, Answers
    <3> QED BY <3>1, <3>2, <3>3, <3>4, <3>5, <3>6, <3>7 DEF AnswerInv
  <2>5. CASE AllowAfterCommand
    <3>1. CommandSteps'
      BY <2>5, AnswerFacts, KindFacts DEF AllowAfterCommand, AllowExit, Answers, SlotInv, ExportSteps, SlotQuiet, CommandKinds
    <3>2. SecondAttempt'
      BY <2>5, AnswerFacts, KindFacts DEF AllowAfterCommand, AllowExit, Answers, SlotInv, ExportSteps, SlotQuiet, CommandKinds
    <3>3. RestoredIsLive'
      BY <2>5, AnswerFacts, KindFacts DEF AllowAfterCommand, AllowExit, Answers, SlotInv, ExportSteps, SlotQuiet, CommandKinds
    <3>4. OthersKeepData'
      BY <2>5, AnswerFacts, KindFacts DEF AllowAfterCommand, AllowExit, Answers, SlotInv, ExportSteps, SlotQuiet, CommandKinds
    <3>5. RecoverySucceeds'
      BY <2>5, AnswerFacts, KindFacts DEF AllowAfterCommand, AllowExit, Answers, SlotInv, ExportSteps, SlotQuiet, CommandKinds
    <3>6. RecoveryCloses'
      BY <2>5, AnswerFacts, KindFacts DEF AllowAfterCommand, AllowExit, Answers, SlotInv, ExportSteps, SlotQuiet, CommandKinds
    <3>7. AnswerIsTrue'
      BY <2>5, AnswerFacts, KindFacts DEF AllowAfterCommand, AllowExit, Answers, SlotInv, ExportSteps, SlotQuiet, CommandKinds
    <3> QED BY <3>1, <3>2, <3>3, <3>4, <3>5, <3>6, <3>7 DEF AnswerInv
  <2>6. CASE Restart
    <3>1. CommandSteps'
      BY <2>6, ContinueFacts, RestartFailedFacts DEF Restart, SpawnSidecar, NoSpawn, OpSteps
    <3>2. SecondAttempt'
      BY <2>6, ContinueFacts, RestartFailedFacts DEF Restart, SpawnSidecar, NoSpawn, OpSteps
    <3>3. RestoredIsLive'
      BY <2>6, ContinueFacts, RestartFailedFacts DEF Restart, SpawnSidecar, NoSpawn, OpSteps
    <3>4. OthersKeepData'
      BY <2>6, ContinueFacts, RestartFailedFacts DEF Restart, SpawnSidecar, NoSpawn, OpSteps
    <3>5. RecoverySucceeds'
      BY <2>6, ContinueFacts, RestartFailedFacts DEF Restart, SpawnSidecar, NoSpawn, OpSteps
    <3>6. RecoveryCloses'
      BY <2>6, ContinueFacts, RestartFailedFacts DEF Restart, SpawnSidecar, NoSpawn, OpSteps
    <3>7. AnswerIsTrue'
      <4>1. CASE Continue("starting")
        BY <2>6, <4>1, ContinueFacts DEF Restart, OpSteps
      <4>2. CASE RestartFailed
        <5>1. /\ op \in Operations /\ op.step = "spawn"
              /\ UNCHANGED <<app, window, exitAllowed, recoveryOnly, closers, data, tainted>>
          BY <2>6 DEF Restart
        <5>2. /\ op'.kind = op.kind /\ op'.recovery = op.recovery /\ op'.result = op.result
              /\ op'.target = op.target /\ op'.before = op.before /\ op'.attempt = op.attempt
              /\ op'.step = "answered" /\ op.kind \in {"restore", "resume"} =>
                   /\ op'.answer \notin {"success", "failed"}
                   /\ op'.answer = "sidecar-unavailable" => op.recovery
                   /\ op'.answer = "quiesce-failed" => op.result # "success"
          BY <5>1, <4>2, RestartFailedFacts
        <5> SUFFICES ASSUME ~tainted, op'.step = "answered", op.kind \in {"restore", "resume"}
                     PROVE  /\ op'.answer = "sidecar-unavailable" =>
                                 data = op.target /\ recoveryOnly /\ (exitAllowed \/ Leaving)
                            /\ op.attempt = 2 => data = op.before
                            /\ op'.answer = "quiesce-failed" /\ op.result # "failed" => data = op.before
          BY <5>1, <5>2
        <5>3. op.attempt = 2 => data = op.before
          OBVIOUS
        <5>4. op.result # "failed" /\ op.result # "success" => data = op.before
          BY <5>1
        <5>5. op.recovery => recoveryOnly /\ op.result = "success" /\ op.attempt = 1
          BY <5>1 DEF Operations
        <5>6. op.recovery => data = op.target
          BY <5>1, <5>5
        <5>7. recoveryOnly => exitAllowed \/ Leaving
          BY <5>1
        <5> QED BY <5>2, <5>3, <5>4, <5>5, <5>6, <5>7
      <4> QED BY <2>6, <4>1, <4>2 DEF Restart
    <3> QED BY <3>1, <3>2, <3>3, <3>4, <3>5, <3>6, <3>7 DEF AnswerInv
  <2>7. CASE Restarted
    <3>1. CommandSteps'
      BY <2>7, ContinueFacts, AnswerFacts, RestartFailedFacts, KindFacts DEF Restarted, StoreSidecar, StartFails, OpSteps, Answers, Operations, SlotInv, ExportSteps, SlotQuiet, CommandKinds
    <3>2. SecondAttempt'
      BY <2>7, ContinueFacts, AnswerFacts, RestartFailedFacts, KindFacts DEF Restarted, StoreSidecar, StartFails, OpSteps, Answers, Operations, SlotInv, ExportSteps, SlotQuiet, CommandKinds
    <3>3. RestoredIsLive'
      BY <2>7, ContinueFacts, AnswerFacts, RestartFailedFacts, KindFacts DEF Restarted, StoreSidecar, StartFails, OpSteps, Answers, Operations, SlotInv, ExportSteps, SlotQuiet, CommandKinds
    <3>4. OthersKeepData'
      BY <2>7, ContinueFacts, AnswerFacts, RestartFailedFacts, KindFacts DEF Restarted, StoreSidecar, StartFails, OpSteps, Answers, Operations, SlotInv, ExportSteps, SlotQuiet, CommandKinds
    <3>5. RecoverySucceeds'
      BY <2>7, ContinueFacts, AnswerFacts, RestartFailedFacts, KindFacts DEF Restarted, StoreSidecar, StartFails, OpSteps, Answers, Operations, SlotInv, ExportSteps, SlotQuiet, CommandKinds
    <3>6. RecoveryCloses'
      BY <2>7, ContinueFacts, AnswerFacts, RestartFailedFacts, KindFacts DEF Restarted, StoreSidecar, StartFails, OpSteps, Answers, Operations, SlotInv, ExportSteps, SlotQuiet, CommandKinds
    <3>7. AnswerIsTrue'
      BY <2>7, ContinueFacts, AnswerFacts, RestartFailedFacts, KindFacts DEF Restarted, StoreSidecar, StartFails, OpSteps, Answers, Operations, SlotInv, ExportSteps, SlotQuiet, CommandKinds
    <3> QED BY <3>1, <3>2, <3>3, <3>4, <3>5, <3>6, <3>7 DEF AnswerInv
  <2>8. CASE Rollback
    BY <2>8, StepFacts DEF Rollback, OpSteps
  <2>9. CASE RollbackFinishes
    <3>1. CommandSteps'
      BY <2>9, AttemptFacts, AnswerFacts DEF RollbackFinishes, Answers, RestoreInv, SafetyKnown, RollbackOfSuccess
    <3>2. SecondAttempt'
      BY <2>9, AttemptFacts, AnswerFacts DEF RollbackFinishes, Answers, RestoreInv, SafetyKnown, RollbackOfSuccess
    <3>3. RestoredIsLive'
      BY <2>9, AttemptFacts, AnswerFacts DEF RollbackFinishes, Answers, RestoreInv, SafetyKnown, RollbackOfSuccess
    <3>4. OthersKeepData'
      BY <2>9, AttemptFacts, AnswerFacts DEF RollbackFinishes, Answers, RestoreInv, SafetyKnown, RollbackOfSuccess
    <3>5. RecoverySucceeds'
      BY <2>9, AttemptFacts, AnswerFacts DEF RollbackFinishes, Answers, RestoreInv, SafetyKnown, RollbackOfSuccess
    <3>6. RecoveryCloses'
      BY <2>9, AttemptFacts, AnswerFacts DEF RollbackFinishes, Answers, RestoreInv, SafetyKnown, RollbackOfSuccess
    <3>7. AnswerIsTrue'
      BY <2>9, AttemptFacts, AnswerFacts DEF RollbackFinishes, Answers, RestoreInv, SafetyKnown, RollbackOfSuccess
    <3> QED BY <3>1, <3>2, <3>3, <3>4, <3>5, <3>6, <3>7 DEF AnswerInv
  <2>10. CASE RecoveryReady
    BY <2>10, ContinueFacts DEF RecoveryReady, OpSteps
  <2>11. CASE DisallowExit
    <3>1. CommandSteps'
      BY <2>11, AnswerFacts DEF DisallowExit, ForbidExit, Answers, Operations
    <3>2. SecondAttempt'
      BY <2>11, AnswerFacts DEF DisallowExit, ForbidExit, Answers, Operations
    <3>3. RestoredIsLive'
      BY <2>11, AnswerFacts DEF DisallowExit, ForbidExit, Answers, Operations
    <3>4. OthersKeepData'
      BY <2>11, AnswerFacts DEF DisallowExit, ForbidExit, Answers, Operations
    <3>5. RecoverySucceeds'
      BY <2>11, AnswerFacts DEF DisallowExit, ForbidExit, Answers, Operations
    <3>6. RecoveryCloses'
      BY <2>11, AnswerFacts DEF DisallowExit, ForbidExit, Answers, Operations
    <3>7. AnswerIsTrue'
      BY <2>11, AnswerFacts DEF DisallowExit, ForbidExit, Answers, Operations
    <3> QED BY <3>1, <3>2, <3>3, <3>4, <3>5, <3>6, <3>7 DEF AnswerInv
  <2>12. CASE Return
    BY <2>12, NoOpFacts DEF Return
  <2> QED BY <1>2, <2>1, <2>2, <2>3, <2>4, <2>5, <2>6, <2>7, <2>8, <2>9, <2>10, <2>11, <2>12 DEF CommandThread
<1>3. CASE UpdateThread
  <2>1. CASE ApplyPrepared
    BY <2>1 DEF ApplyPrepared
  <2>2. CASE ApplyAllowsExit
    BY <2>2 DEF ApplyAllowsExit, AllowExit
  <2>3. CASE ApplyRequestsRestart
    BY <2>3 DEF ApplyRequestsRestart
  <2> QED BY <1>3, <2>1, <2>2, <2>3 DEF UpdateThread
<1>4. ASSUME NEW c \in Closers, CloseThread(c) PROVE AnswerInv'
  <2>1. CASE CloseDecided(c)
    BY <2>1 DEF CloseDecided, CloserSteps
  <2>2. CASE FinalizeCleanup(c)
    BY <2>2 DEF FinalizeCleanup, CleanupDone, CleanupKept, CloserSteps
  <2>3. CASE FinalizeAllow(c)
    BY <2>3 DEF FinalizeAllow, AllowExit, CloserSteps
  <2>4. CASE FinalizeExit(c)
    BY <2>4 DEF FinalizeExit, CloserSteps
  <2> QED BY <1>4, <2>1, <2>2, <2>3, <2>4 DEF CloseThread
<1>5. CASE EventLoop
  <2>1. CASE HandleExitRequested
    BY <2>1 DEF HandleExitRequested, BeginClose
  <2>2. CASE ExitCleanup
    BY <2>2 DEF ExitCleanup, Cleanup, CleanupDone, CleanupKept
  <2>3. CASE Exit
    BY <2>3, NoOpFacts DEF Exit, ProcessGone
  <2> QED BY <1>5, <2>1, <2>2, <2>3 DEF EventLoop
<1>6. CASE User
  <2>1. CASE Launch
    BY <2>1 DEF Launch
  <2>2. CASE BeginApply
    BY <2>2 DEF BeginApply
  <2>3. CASE CloseWindow
    BY <2>3 DEF CloseWindow, BeginClose
  <2>4. CASE Quit
    BY <2>4 DEF Quit
  <2>5. ASSUME NEW kind \in Kinds, BeginCommand(kind) PROVE AnswerInv'
    <3>1. CommandSteps'
      BY <2>5, BegunFacts DEF Quiesces, InRecovery
    <3>2. SecondAttempt'
      BY <2>5, BegunFacts DEF Quiesces, InRecovery
    <3>3. RestoredIsLive'
      BY <2>5, BegunFacts DEF Quiesces, InRecovery
    <3>4. OthersKeepData'
      BY <2>5, BegunFacts DEF Quiesces, InRecovery
    <3>5. RecoverySucceeds'
      BY <2>5, BegunFacts DEF Quiesces, InRecovery
    <3>6. RecoveryCloses'
      BY <2>5, BegunFacts DEF Quiesces, InRecovery
    <3>7. AnswerIsTrue'
      BY <2>5, BegunFacts DEF Quiesces, InRecovery
    <3> QED BY <3>1, <3>2, <3>3, <3>4, <3>5, <3>6, <3>7 DEF AnswerInv
  <2> QED BY <1>6, <2>1, <2>2, <2>3, <2>4, <2>5 DEF User
<1>7. CASE System
  <2>1. CASE Crash
    BY <2>1, NoOpFacts DEF Crash, ProcessGone
  <2>2. ASSUME NEW s \in SidecarIds, SidecarDies(s) PROVE AnswerInv'
    BY <2>2 DEF SidecarDies
  <2>3. ASSUME NEW h \in orphans, OrphanFinishes(h) PROVE AnswerInv'
    BY <2>3 DEF OrphanFinishes, EndInv, Orphanless
  <2> QED BY <1>7, <2>1, <2>2, <2>3 DEF System
<1>8. CASE UNCHANGED vars
  BY <1>8 DEF vars
<1> QED BY <1>1, <1>2, <1>3, <1>4, <1>5, <1>6, <1>7, <1>8 DEF Next

LEMMA InitLater == Init => ExitInv /\ DeleteInv /\ AnswerInv
BY NoOpFacts DEF Init, ExitInv, DeleteInv, RecoveryRestores, BootHasData, DeletedSteps, AnswerInv,
   CommandSteps, SecondAttempt, RestoredIsLive, OthersKeepData, RecoverySucceeds, RecoveryCloses,
   AnswerIsTrue, Restoring

\* The application is never left without a question while a page may hold unsaved
\* work, but on a way out that a close, an update or a command has begun.
THEOREM PromptIsKept == Spec => []PromptNotBypassed
<1>1. IInv /\ ExitInv => PromptNotBypassed
  BY DEF ExitInv, Going, PromptNotBypassed
<1> QED BY <1>1, InitLater, ExitStep, Inductive, PTL DEF Spec

\* A deleted database is not opened again by the application that deleted it.
THEOREM DeletedStaysClosed == Spec => []DeletedStaysStopped
<1>1. DeleteInv => DeletedStaysStopped
  BY DEF DeleteInv, DeletedSteps, DeletedStaysStopped
<1> QED BY <1>1, InitLater, DeleteStep, Inductive, PTL DEF Spec

\* A restore is answered truly: of the version that is live, of the runtime that
\* serves it, and of the recovery screen that is left.
THEOREM AnswersAreTrue == Spec => []AnswerIsTrue
<1>1. DeleteInv /\ AnswerInv => RecoveryRestores /\ AnswerIsTrue
  BY DEF DeleteInv, AnswerInv
<1> QED BY <1>1, InitLater, DeleteStep, AnswerStep, Inductive, PTL DEF Spec
=============================================================================
