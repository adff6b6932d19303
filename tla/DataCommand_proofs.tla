-------------------------- MODULE DataCommand_proofs --------------------------
(* Any number of data commands, starts and stops, with any snapshots and any   *)
(* edits: the runtime keeps its contract, no helper works beside a runtime,    *)
(* a helper's path is the user's, the recovery page has its snapshot, and what *)
(* is reported as a fact is one.                                               *)
EXTENDS DataCommand, TLAPS

USE CallsAssumption, CommandAssumption

-----------------------------------------------------------------------------
(* The processes.                                                          *)

\* What a call of the shell may find as the answer of the one before it.
CallKnowsAnswer ==
  /\ call \in {"start", "drop"} => answer = "none"
  /\ call = "stop" => answer \in {"handle", "unstopped"}
  /\ step \in {"reading", "probing"} => call = "start"

\* After KILL nothing of the group is active any more.
KilledIsDone == step \in {"reap", "recheck"} => ~Active(launcher) /\ ~Active(runtime)

\* Between the calls, no handle means no process, and a start that could not clean
\* up has left at most what is dying.
NothingWithoutHandle ==
  call = "none" /\ step # "dead" =>
    /\ answer \in {"none", "failed", "stopped"} => ~GroupExists
    /\ answer = "uncleaned" => ~Active(launcher) /\ ~Active(runtime)

SidecarInv == TypeOK /\ CallKnowsAnswer /\ KilledIsDone /\ NothingWithoutHandle

(* The sidecar moves by the shell's calls, by itself, and by the shell's end. *)
SidecarNext == Shell \/ Group \/ ShellDies

(* What a step of the shell may do to the sidecar. *)
LEMMA ShellKeepsInv ==
  ASSUME SidecarInv, Shell
  PROVE  SidecarInv'
<1>. USE DEF SidecarInv, TypeOK, CallKnowsAnswer, KilledIsDone, NothingWithoutHandle, GroupExists,
       LauncherLives, RuntimeLives, Active, Steps, Answers, group, shell
<1>1. CASE StartSidecar
  <2>0. step = "idle" /\ call = "none" /\ calls' \in 0 .. MaxCalls /\ waited' = FALSE
    BY <1>1 DEF StartSidecar
  <2>1. CASE call' = "start" /\ step' = "reading" /\ answer' = "none"
             /\ launcher' = "picking" /\ runtime' = "none" /\ port' = "free"
             /\ line' = "none" /\ termed' = FALSE
    BY <2>0, <2>1
  <2>2. CASE answer' = (IF answer = "uncleaned" THEN answer ELSE "failed")
             /\ UNCHANGED <<call, step, group>>
    <3>1. answer \in {"none", "failed", "stopped", "uncleaned"}
      BY <1>1 DEF StartSidecar
    <3>2. CASE answer = "uncleaned"
      BY <2>0, <2>2, <3>2
    <3>3. CASE answer # "uncleaned"
      BY <2>0, <2>2, <3>1, <3>3
    <3>. QED
      BY <3>2, <3>3
  <2>. QED
    BY <1>1, <2>1, <2>2 DEF StartSidecar
<1>2. CASE ReadReadyLine
  BY <1>2 DEF ReadReadyLine, Goes
<1>3. CASE WaitForRuntime
  BY <1>3 DEF WaitForRuntime, Goes
<1>4. CASE StopSidecar
  BY <1>4 DEF StopSidecar
<1>5. CASE SignalTerm
  BY <1>5 DEF SignalTerm, Goes
<1>6. CASE WaitForChild
  <2>1. waited' \in BOOLEAN /\ UNCHANGED <<call, answer, calls, group>> /\ call # "none"
    BY <1>6 DEF WaitForChild
  <2>2. CASE step = "wait" /\ step' = "check"
    BY <2>1, <2>2
  <2>3. CASE step = "reap" /\ step' = "recheck"
    BY <2>1, <2>3
  <2>. QED
    BY <1>6, <2>2, <2>3 DEF WaitForChild
<1>7. CASE CheckGroup
  <2>1. CASE waited /\ ~GroupExists /\ Ends(TRUE) /\ UNCHANGED group
    BY <2>1, <1>7 DEF CheckGroup, Ends
  <2>2. CASE Goes("kill") /\ UNCHANGED group
    BY <2>2, <1>7 DEF CheckGroup, Goes
  <2>. QED
    BY <2>1, <2>2, <1>7 DEF CheckGroup
<1>8. CASE SignalKill
  BY <1>8 DEF SignalKill, Goes
<1>9. CASE RecheckGroup
  <2>1. CASE waited /\ ~GroupExists
    BY <2>1, <1>9 DEF RecheckGroup, Ends
  <2>2. CASE ~(waited /\ ~GroupExists)
    <3>0. Ends(FALSE) /\ UNCHANGED group /\ step = "recheck"
      BY <2>2, <1>9 DEF RecheckGroup
    <3>1. CASE call = "start"
      BY <3>0, <3>1 DEF Ends
    <3>2. CASE call = "stop"
      <4>1. call' = "none" /\ step' = "idle" /\ answer' = "unstopped" /\ UNCHANGED calls
            /\ waited' = FALSE
        BY <3>0, <3>2 DEF Ends
      <4>2. TypeOK'
        BY <3>0, <4>1
      <4>3. CallKnowsAnswer' /\ KilledIsDone' /\ NothingWithoutHandle'
        BY <4>1
      <4>. QED
        BY <4>2, <4>3
    <3>3. CASE call = "drop"
      BY <3>0, <3>3 DEF Ends
    <3>. QED
      BY <3>0, <3>1, <3>2, <3>3
  <2>. QED
    BY <2>1, <2>2
<1>. QED
  BY <1>1, <1>2, <1>3, <1>4, <1>5, <1>6, <1>7, <1>8, <1>9 DEF Shell

(* What the processes may do. *)
LEMMA GroupKeepsInv ==
  ASSUME SidecarInv, Group
  PROVE  SidecarInv'
<1>. USE DEF SidecarInv, TypeOK, CallKnowsAnswer, KilledIsDone, NothingWithoutHandle, GroupExists,
       LauncherLives, RuntimeLives, Active, Steps, Answers, shell, LauncherEnds
<1>1. CASE SpawnRuntime
  BY <1>1 DEF SpawnRuntime
<1>2. CASE RuntimeListens
  BY <1>2 DEF RuntimeListens
<1>3. CASE PortTaken
  BY <1>3 DEF PortTaken
<1>4. CASE Announce
  BY <1>4 DEF Announce
<1>5. CASE LauncherStops
  BY <1>5 DEF LauncherStops
<1>6. CASE LauncherLeaves
  BY <1>6 DEF LauncherLeaves
<1>7. CASE RuntimeEnds
  BY <1>7 DEF RuntimeEnds
<1>8. CASE LauncherKills
  BY <1>8 DEF LauncherKills
<1>9. CASE LauncherDies
  BY <1>9 DEF LauncherDies
<1>. QED
  BY <1>1, <1>2, <1>3, <1>4, <1>5, <1>6, <1>7, <1>8, <1>9 DEF Group

(* Every move of the sidecar keeps its invariant. *)
LEMMA SidecarKeepsInv ==
  ASSUME SidecarInv, [SidecarNext]_vars
  PROVE  SidecarInv'
<1>1. CASE ShellDies
  BY <1>1 DEF ShellDies, SidecarInv, TypeOK, CallKnowsAnswer, KilledIsDone, NothingWithoutHandle,
    Steps, group
<1>2. CASE UNCHANGED vars
  BY <1>2 DEF vars, SidecarInv, TypeOK, CallKnowsAnswer, KilledIsDone, NothingWithoutHandle,
    GroupExists, LauncherLives, RuntimeLives
<1>. QED
  BY <1>1, <1>2, ShellKeepsInv, GroupKeepsInv DEF SidecarNext

-----------------------------------------------------------------------------
(* The contract.                                                           *)

(* The states of the contract, case by case. *)
LEMMA StandingCases ==
  ASSUME SidecarInv
  PROVE  /\ step = "dead" => Standing = "dead"
         /\ step # "dead" =>
              /\ call \in {"start", "drop"} => Standing = "starting"
              /\ call = "stop" => Standing = "stopping"
              /\ call = "none" /\ answer \in {"none", "failed", "stopped"} => Standing = "off"
              /\ call = "none" /\ answer = "handle" => Standing = "on"
              /\ call = "none" /\ answer = "unstopped" => Standing = "stuck"
              /\ call = "none" /\ answer = "uncleaned" => Standing = "littered"
  BY DEF Standing, SidecarInv, TypeOK

(* The shell's steps are steps of the contract. *)
LEMMA ShellKeepsContract ==
  ASSUME SidecarInv, SidecarInv', Shell
  PROVE  Contract!Next
<1>0. /\ step' = "dead" => Standing' = "dead"
      /\ step' # "dead" =>
           /\ call' \in {"start", "drop"} => Standing' = "starting"
           /\ call' = "stop" => Standing' = "stopping"
           /\ call' = "none" /\ answer' \in {"none", "failed", "stopped"} => Standing' = "off"
           /\ call' = "none" /\ answer' = "handle" => Standing' = "on"
           /\ call' = "none" /\ answer' = "unstopped" => Standing' = "stuck"
           /\ call' = "none" /\ answer' = "uncleaned" => Standing' = "littered"
  BY DEF Standing, SidecarInv, TypeOK
<1>. USE <1>0, StandingCases DEF SidecarInv, TypeOK, CallKnowsAnswer, NothingWithoutHandle,
       Contract!Next, Contract!Appears, GroupExists, LauncherLives, RuntimeLives, Serving, group
<1>1. CASE StartSidecar
  <2>1. Standing \in {"off", "littered"}
    BY <1>1 DEF StartSidecar, Answers
  <2>2. CASE call' = "start" /\ step' = "reading"
    <3>1. Standing' = "starting"
      BY <2>2
    <3>2. ~Serving'
      BY <1>1, <2>2 DEF StartSidecar
    <3>. QED
      BY <2>1, <3>1, <3>2 DEF Contract!Begin
  <2>3. CASE answer' = (IF answer = "uncleaned" THEN answer ELSE "failed")
             /\ UNCHANGED <<call, step, group>>
    <3>1. Standing' = Standing
      BY <1>1, <2>3 DEF StartSidecar, Answers
    <3>. QED
      BY <2>3, <3>1 DEF Contract!Processes
  <2>. QED
    BY <1>1, <2>2, <2>3 DEF StartSidecar
<1>2. CASE ReadReadyLine
  BY <1>2 DEF ReadReadyLine, Goes, Contract!Processes
<1>3. CASE WaitForRuntime
  <2>0. UNCHANGED group /\ call \in {"start", "stop", "drop"}
    BY <1>3 DEF WaitForRuntime
  <2>1. CASE HealthMatches /\ call' = "none" /\ step' = "idle" /\ answer' = "handle"
    <3>1. Standing' = "on" /\ Serving
      BY <2>1 DEF HealthMatches
    <3>2. call = "start"
      BY <1>3 DEF WaitForRuntime
    <3>. QED
      BY <2>0, <2>1, <3>1, <3>2 DEF Contract!Deliver
  <2>2. CASE Goes("term")
    BY <1>3, <2>0, <2>2 DEF WaitForRuntime, Goes, Contract!Processes
  <2>. QED
    BY <1>3, <2>1, <2>2 DEF WaitForRuntime
<1>4. CASE StopSidecar
  BY <1>4 DEF StopSidecar, Contract!BeginStop
<1>5. CASE SignalTerm
  BY <1>5 DEF SignalTerm, Goes, Contract!Processes
<1>6. CASE WaitForChild
  BY <1>6 DEF WaitForChild, Contract!Processes
<1>7. CASE CheckGroup
  <2>1. CASE waited /\ ~GroupExists /\ Ends(TRUE) /\ UNCHANGED group
    BY <2>1, <1>7 DEF CheckGroup, Ends, Contract!Clean, Contract!GiveUp
  <2>2. CASE Goes("kill") /\ UNCHANGED group
    BY <2>2, <1>7 DEF CheckGroup, Goes, Contract!Processes
  <2>. QED
    BY <2>1, <2>2, <1>7 DEF CheckGroup
<1>8. CASE SignalKill
  BY <1>8 DEF SignalKill, Goes, Contract!Processes
<1>9. CASE RecheckGroup
  <2>1. CASE waited /\ ~GroupExists
    BY <2>1, <1>9 DEF RecheckGroup, Ends, Contract!Clean, Contract!GiveUp
  <2>2. CASE ~(waited /\ ~GroupExists)
    BY <2>2, <1>9 DEF RecheckGroup, Ends, Contract!GiveUp, Contract!Processes
  <2>. QED
    BY <2>1, <2>2
<1>. QED
  BY <1>1, <1>2, <1>3, <1>4, <1>5, <1>6, <1>7, <1>8, <1>9 DEF Shell

(* So are those of the processes: none of them makes a process out of nothing,
   but for the launcher of a start. *)
LEMMA GroupKeepsContract ==
  ASSUME SidecarInv, SidecarInv', Group
  PROVE  Contract!Next
<1>1. Standing' = Standing
  BY DEF Group, SpawnRuntime, RuntimeListens, PortTaken, Announce, LauncherStops, LauncherLeaves,
    RuntimeEnds, LauncherKills, LauncherDies, shell, Standing
<1>2. GroupExists' => GroupExists
  BY DEF SidecarInv, TypeOK, GroupExists, LauncherLives, RuntimeLives, Group, SpawnRuntime,
    RuntimeListens, PortTaken, Announce, LauncherStops, LauncherLeaves, RuntimeEnds,
    LauncherKills, LauncherDies, LauncherEnds
<1>3. Serving' => GroupExists'
  BY DEF Serving, GroupExists, RuntimeLives
<1>. QED
  BY <1>1, <1>2, <1>3 DEF Contract!Next, Contract!Appears, Contract!Processes

(* And every other move. *)
LEMMA SidecarKeepsContract ==
  ASSUME SidecarInv, SidecarInv', [SidecarNext]_vars
  PROVE  [Contract!Next]_(Contract!vars)
<1>1. CASE ShellDies
  <2>1. Standing' = "dead" /\ UNCHANGED <<GroupExists, Serving>>
    BY <1>1 DEF ShellDies, Standing, group, GroupExists, LauncherLives, RuntimeLives, Serving
  <2>2. Serving' => GroupExists'
    BY DEF Serving, GroupExists, RuntimeLives
  <2>. QED
    BY <2>1, <2>2 DEF Contract!Next, Contract!Appears, Contract!Processes
<1>2. CASE UNCHANGED vars
  BY <1>2 DEF vars, Contract!vars, Standing, GroupExists, LauncherLives, RuntimeLives, Serving
<1>. QED
  BY <1>1, <1>2, ShellKeepsContract, GroupKeepsContract DEF SidecarNext

-----------------------------------------------------------------------------
(* The commands.                                                           *)

Replacing == {"boot", "restore", "delete", "resume", "probe"}
Down == {"none", "failed", "stopped", "uncleaned"}

JobType ==
  /\ flag \in BOOLEAN /\ inRecovery \in BOOLEAN /\ again \in BOOLEAN
  /\ op \in Ops \cup {"none"} /\ at \in Places

\* The job waits for the call it made and for no other.
JobWaits ==
  /\ at \notin {"quiescing", "restarting"} => call = "none"
  /\ at = "quiescing" => call \in {"none", "stop"} /\ answer \in {"handle", "unstopped", "stopped"}
  /\ at = "restarting" => call # "stop" /\ answer \notin {"unstopped", "stopped"}

\* A command that replaces the database has no handle from its stop to its start.
NoHandleAtWork ==
  /\ at \in {"build", "run", "settle", "mark", "flag", "restart"} /\ op \in Replacing
       => answer \in Down
  /\ at = "restart" => op \in Replacing
  /\ at \in {"mark", "flag"} => op \in {"boot", "probe"}
  /\ at = "ready" => inRecovery

\* In recovery there is no runtime until a restore has started one.
FlagMeansDown ==
  /\ flag =>
       /\ answer \in Down \/ at \in {"restarting", "ready"}
       /\ at \notin {"quiescing", "mark", "flag"}
       /\ op \in {"boot", "probe"} => at = "answered"
       /\ op = "delete" => at \in {"quiesce", "answered"}
       /\ Restores(op) => inRecovery \/ at = "answered"
       /\ op \in {"export", "catalog", "status"} => at \in {"build", "run", "settle", "answered"}
  /\ inRecovery => Restores(op) /\ ~again /\ at \notin {"quiesce", "quiescing"}
  /\ again => Restores(op)
  /\ at = "quiesce" => Stops(op)
  /\ op = "none" => at = "idle"

\* The snapshot behind the flag.
GoodSnapshot(s) == s # NoSnapshot /\ Coherent(s)

SnapshotIsGood ==
  /\ flag \/ at = "flag" \/ seen = "recovery" => snapshot # NoSnapshot
  /\ snapshot # NoSnapshot => Coherent(snapshot)
  /\ at = "mark" => GoodSnapshot(reply.snapshot)
  /\ at = "settle" /\ op = "probe"
    /\ reply.status = "recovery-required" => GoodSnapshot(reply.snapshot)
  /\ at = "settle" /\ op = "boot" /\ reply.status = "recovery" => GoodSnapshot(reply.snapshot)

CommandInv ==
  /\ SidecarInv
  /\ JobType /\ JobWaits /\ NoHandleAtWork /\ FlagMeansDown /\ RuntimeIsQuiet
  /\ SnapshotIsGood

(* The moves of the sidecar in a command's step. *)
LEMMA CommandMoves ==
  ASSUME [CommandNext]_commandVars
  PROVE  [SidecarNext]_vars
<1>1. ASSUME Command PROVE [SidecarNext]_vars
  BY <1>1 DEF Command, Request, Quiesce, Quiesced, Build, RunHelper, Settle, Restart, Restarted,
    MarkSnapshot, MarkFlag, MarkReady, Done, Quiet, SidecarNext, Shell
<1>2. ASSUME Waits PROVE [SidecarNext]_vars
  BY <1>2 DEF Waits, ShellWorks, ProcessesMove, SidecarNext
<1>. QED
  BY <1>1, <1>2 DEF CommandNext, commandVars, Choose, EditPath, ReadFlag, ReadSnapshot, Quiet

(* An answer the shell believed brings a snapshot it has checked. *)
LEMMA HelperReply ==
  ASSUME NEW o, NEW output,
         \/ o = "probe" /\ ReplyOf(o, output).status = "recovery-required"
         \/ o = "boot" /\ ReplyOf(o, output).status = "recovery"
  PROVE  GoodSnapshot(ReplyOf(o, output).snapshot)
<1>1. PICK x : ReplyOf(o, output) = IF Valid(o, x) THEN Reply(x) ELSE Failed("operation")
  <2>1. Failed("operation").status = "error"
    BY DEF Failed
  <2>. QED
    BY <2>1 DEF ReplyOf
<1>2. Valid(o, x) /\ ReplyOf(o, output) = Reply(x)
  <2>1. Failed("operation").status = "error"
    BY DEF Failed
  <2>. QED
    BY <1>1, <2>1
<1>3. Reply(x).status = x.status /\ Reply(x).snapshot = x.snapshot
  BY DEF Reply
<1>4. CASE o = "probe"
  <2>1. ValidProbe(x)
    BY <1>2, <1>4 DEF Valid, DataOps
  <2>. QED
    BY <1>2, <1>3, <1>4, <2>1 DEF ValidProbe, GoodSnapshot
<1>5. CASE o = "boot"
  <2>1. ValidBoot(x)
    BY <1>2, <1>5 DEF Valid, DataOps
  <2>. QED
    BY <1>2, <1>3, <1>5, <2>1 DEF ValidBoot, GoodSnapshot
<1>. QED
  BY <1>4, <1>5

(* The pieces of the invariant. *)
JobInv == JobType /\ JobWaits /\ NoHandleAtWork /\ FlagMeansDown

(* The initial states. *)
LEMMA InitCommandInv == CommandInit => CommandInv
<1>. SUFFICES ASSUME CommandInit PROVE CommandInv
  OBVIOUS
<1>1. SidecarInv
  <2>1. TypeOK
    <3>1. Init
      BY DEF CommandInit
    <3>2. waited \in BOOLEAN /\ termed \in BOOLEAN
      BY <3>1, Zenon DEF Init
    <3>3. calls \in 0 .. MaxCalls
      BY <3>1, SMT DEF Init
    <3>. QED
      BY <3>1, <3>2, <3>3 DEF Init, TypeOK, Steps, Answers
  <2>2. CallKnowsAnswer /\ KilledIsDone /\ NothingWithoutHandle
    BY DEF CommandInit, Init, CallKnowsAnswer, KilledIsDone, NothingWithoutHandle, GroupExists,
      LauncherLives, RuntimeLives
  <2>. QED
    BY <2>1, <2>2 DEF SidecarInv
<1>2. JobInv
  BY DEF CommandInit, Init, JobInv, JobType, JobWaits, NoHandleAtWork, FlagMeansDown, Ops,
    DataOps, Places, Replacing, Down, Restores
<1>3. RuntimeIsQuiet /\ SnapshotIsGood
  BY DEF CommandInit, Init, RuntimeIsQuiet, SnapshotIsGood, Active
<1>. QED
  BY <1>1, <1>2, <1>3 DEF CommandInv, JobInv

(* What the commands do to the job. *)
LEMMA CommandKeepsJob ==
  ASSUME CommandInv, SidecarInv', Command
  PROVE  JobInv'
<1>. USE DEF CommandInv, JobInv, JobType, JobWaits, NoHandleAtWork, FlagMeansDown, Ops, DataOps,
       Places, Replacing, Down, Restores, Stops
<1>1. ASSUME NEW o \in Ops, Request(o) PROVE JobInv'
  BY <1>1 DEF Request, Quiet, vars, recovery
<1>2. CASE Quiesce
  BY <1>2 DEF Quiesce, HasHandle, StopSidecar, GoesTo, Refused, AnswersWith, Quiet, vars, recovery,
    SidecarInv, TypeOK, Answers
<1>3. CASE Quiesced
  BY <1>3 DEF Quiesced, GoesTo, Refused, AnswersWith, Quiet, vars, recovery
<1>4. CASE Build
  BY <1>4 DEF Build, GoesTo, Quiet, vars, recovery
<1>5. CASE RunHelper
  BY <1>5 DEF RunHelper, Quiet, vars, recovery
<1>6. CASE Settle
  BY <1>6 DEF Settle, GoesTo, Refused, AnswersWith, Quiet, vars, recovery
<1>7. CASE Restart
  BY <1>7 DEF Restart, StartSidecar, GoesTo, recovery, SidecarInv, TypeOK, Answers
<1>8. CASE Restarted
  <2>0. call = "none" /\ at = "restarting" /\ UNCHANGED <<call, answer, op, inRecovery, flag>>
    BY <1>8 DEF Restarted, GoesTo, Refused, AnswersWith, Quiet, vars, recovery
  <2>1. answer \in {"none", "handle", "failed", "uncleaned"}
    BY <2>0 DEF SidecarInv, TypeOK, Answers
  <2>2. flag => Restores(op) /\ inRecovery /\ ~again
    BY <2>0
  <2>3. CASE answer = "handle"
    BY <1>8, <2>0, <2>2, <2>3 DEF Restarted, GoesTo, Refused, AnswersWith
  <2>4. CASE answer # "handle" /\ at' \in {"answered", "ended"} /\ UNCHANGED again
    BY <2>0, <2>1, <2>2, <2>4
  <2>5. CASE answer # "handle" /\ at' = "build" /\ Restores(op) /\ ~inRecovery /\ again' = TRUE
    BY <2>0, <2>1, <2>2, <2>5
  <2>. QED
    BY <1>8, <2>3, <2>4, <2>5 DEF Restarted, GoesTo, Refused, AnswersWith
<1>9. CASE MarkSnapshot
  BY <1>9 DEF MarkSnapshot, GoesTo, Quiet, vars
<1>10. CASE MarkFlag
  BY <1>10 DEF MarkFlag, GoesTo, Quiet, vars
<1>11. CASE MarkReady
  BY <1>11 DEF MarkReady, GoesTo, Quiet, vars
<1>12. CASE Done
  BY <1>12 DEF Done, Quiet, vars, recovery
<1>. QED
  BY <1>1, <1>2, <1>3, <1>4, <1>5, <1>6, <1>7, <1>8, <1>9, <1>10, <1>11, <1>12 DEF Command

(* What the commands do to the snapshot. *)
LEMMA CommandKeepsSnapshot ==
  ASSUME CommandInv, Command
  PROVE  SnapshotIsGood'
<1>. USE DEF CommandInv, SnapshotIsGood
<1>1. ASSUME NEW o \in Ops, Request(o) PROVE SnapshotIsGood'
  BY <1>1 DEF Request, recovery, Stops, Restores
<1>2. CASE Quiesce \/ Quiesced \/ Restart \/ Done
  BY <1>2 DEF Quiesce, Quiesced, Restart, Done, GoesTo, Refused, AnswersWith, recovery
<1>3. CASE Restarted
  BY <1>3 DEF Restarted, GoesTo, Refused, AnswersWith, recovery
<1>4. CASE Build
  <2>1. at' \in {"run", "settle"} /\ UNCHANGED <<op, recovery>>
        /\ (at' = "settle" => op \in {"export", "restore"})
    BY <1>4 DEF Build, GoesTo
  <2>. QED
    BY <2>1, <1>4 DEF recovery
<1>5. CASE RunHelper
  <2>1. at' = "settle" /\ UNCHANGED <<op, recovery>>
    BY <1>5 DEF RunHelper
  <2>2. ASSUME NEW s \in {"recovery-required", "recovery"}, reply'.status = s,
               op = IF s = "recovery" THEN "boot" ELSE "probe"
        PROVE  GoodSnapshot(reply'.snapshot)
    <3>1. HelperOp = op
      BY <2>2 DEF HelperOp, FlagMeansDown, Restores
    <3>2. Failed("operation").status = "error"
      BY DEF Failed
    <3>3. PICK output : reply' = ReplyOf(HelperOp, output)
      BY <1>5, <2>2, <3>2 DEF RunHelper
    <3>. QED
      BY <2>2, <3>1, <3>3, HelperReply
  <2>. QED
    BY <2>1, <2>2 DEF recovery
<1>6. CASE Settle
  <2>1. at' \in {"answered", "restart", "mark", "ended"} /\ UNCHANGED <<op, recovery>>
        /\ (at' = "mark" => reply' = reply
              /\ \/ op = "probe" /\ reply.status = "recovery-required"
                 \/ op = "boot" /\ reply.status = "recovery")
    BY <1>6 DEF Settle, GoesTo, Refused, AnswersWith, JobType, Ops, DataOps, Restores, FlagMeansDown
  <2>. QED
    BY <2>1, <1>6 DEF Settle, recovery
<1>7. CASE MarkSnapshot \/ MarkFlag \/ MarkReady
  BY <1>7 DEF MarkSnapshot, MarkFlag, MarkReady, GoesTo, GoodSnapshot
<1>. QED
  BY <1>1, <1>2, <1>3, <1>4, <1>5, <1>6, <1>7 DEF Command

(* A helper starts when the runtime is quiet. *)
LEMMA CommandKeepsQuiet ==
  ASSUME CommandInv, Command
  PROVE  RuntimeIsQuiet'
<1>1. CASE Build
  <2>1. Alive /\ at = "build" /\ UNCHANGED <<op, vars, selection>>
    BY <1>1 DEF Build, GoesTo, Quiet
  <2>2. call = "none" /\ step # "dead"
    BY <2>1 DEF CommandInv, JobWaits, Alive
  <2>3. op \in Replacing => ~Active(launcher) /\ ~Active(runtime)
    BY <2>1, <2>2 DEF CommandInv, NoHandleAtWork, SidecarInv, NothingWithoutHandle, Down,
      GroupExists, LauncherLives, RuntimeLives, Active
  <2>. QED
    BY <2>1, <2>3 DEF RuntimeIsQuiet, Replacing, vars, Active
<1>2. CASE ~Build
  <2>1. at' # "run"
    BY <1>2 DEF Command, Request, Quiesce, Quiesced, RunHelper, Settle, Restart, Restarted,
      MarkSnapshot, MarkFlag, MarkReady, Done, GoesTo, Refused, AnswersWith, CommandInv, JobType,
      Ops, DataOps, Restores, FlagMeansDown
  <2>. QED
    BY <2>1 DEF RuntimeIsQuiet
<1>. QED
  BY <1>1, <1>2

(* How a call may go on, by itself or by the shell's end. *)
LEMMA CallsGoOn ==
  ASSUME SidecarInv, Waits
  PROVE  /\ call = "none" => call' = "none" /\ answer' = answer
         /\ call \in {"start", "drop"} => call' \in {"start", "drop", "none"}
              /\ answer' \in {"none", "handle", "failed", "uncleaned"}
         /\ call = "stop" => call' \in {"stop", "none"}
              /\ answer' \in {"handle", "unstopped", "stopped"}
<1>. USE DEF SidecarInv, TypeOK, CallKnowsAnswer
<1>1. CASE Group
  BY <1>1 DEF Group, SpawnRuntime, RuntimeListens, PortTaken, Announce, LauncherStops,
    LauncherLeaves, RuntimeEnds, LauncherKills, LauncherDies, shell
<1>2. CASE ShellDies
  BY <1>2 DEF ShellDies
<1>3. CASE call # "none" /\ Shell
  <2>1. CASE CheckGroup
    <3>1. UNCHANGED <<call, answer>> \/ Ends(TRUE)
      BY <2>1 DEF CheckGroup, Goes
    <3>. QED
      BY <1>3, <3>1 DEF Ends
  <2>2. CASE RecheckGroup
    <3>1. CASE waited /\ ~GroupExists
      BY <1>3, <2>2, <3>1 DEF RecheckGroup, Ends
    <3>2. CASE ~(waited /\ ~GroupExists)
      BY <1>3, <2>2, <3>2 DEF RecheckGroup, Ends
    <3>. QED
      BY <3>1, <3>2
  <2>3. CASE WaitForRuntime
    BY <1>3, <2>3 DEF WaitForRuntime, Goes
  <2>4. CASE ReadReadyLine \/ SignalTerm \/ WaitForChild \/ SignalKill
    BY <1>3, <2>4 DEF ReadReadyLine, SignalTerm, WaitForChild, SignalKill, Goes
  <2>. QED
    BY <1>3, <2>1, <2>2, <2>3, <2>4 DEF Shell, StartSidecar, StopSidecar
<1>. QED
  BY <1>1, <1>2, <1>3 DEF Waits, ShellWorks, ProcessesMove

(* The waits: what the sidecar does while the job stands still. *)
LEMMA WaitsKeepInv ==
  ASSUME CommandInv, SidecarInv', Waits
  PROVE  CommandInv'
<1>1. UNCHANGED <<job, recovery, selection>>
  BY DEF Waits
<1>2. SnapshotIsGood'
  BY <1>1 DEF CommandInv, SnapshotIsGood, job, recovery
<1>3. RuntimeIsQuiet'
  <2>1. CASE ShellWorks
    BY <2>1, <1>1 DEF ShellWorks, CommandInv, JobWaits, RuntimeIsQuiet, job
  <2>2. CASE Group
    BY <2>2, <1>1 DEF Group, SpawnRuntime, RuntimeListens, PortTaken, Announce, LauncherStops,
      LauncherLeaves, RuntimeEnds, LauncherKills, LauncherDies, LauncherEnds, shell, job,
      CommandInv, RuntimeIsQuiet, Active
  <2>3. CASE ShellDies
    BY <2>3, <1>1 DEF ShellDies, group, job, CommandInv, RuntimeIsQuiet
  <2>. QED
    BY <2>1, <2>2, <2>3 DEF Waits, ProcessesMove
<1>4. JobInv'
  <2>1. /\ call = "none" => call' = "none" /\ answer' = answer
        /\ call \in {"start", "drop"} => call' \in {"start", "drop", "none"}
             /\ answer' \in {"none", "handle", "failed", "uncleaned"}
        /\ call = "stop" => call' \in {"stop", "none"}
             /\ answer' \in {"handle", "unstopped", "stopped"}
    BY CallsGoOn DEF CommandInv
  <2>2. UNCHANGED <<op, at, inRecovery, again, flag>>
    BY <1>1 DEF job, recovery
  <2>3. call \in {"none", "start", "stop", "drop"}
    BY DEF CommandInv, SidecarInv, TypeOK
  <2>4. JobType' /\ JobWaits'
    BY <2>1, <2>2, <2>3 DEF CommandInv, JobType, JobWaits
  <2>5. NoHandleAtWork'
    BY <2>1, <2>2 DEF CommandInv, JobWaits, NoHandleAtWork, Down
  <2>6. FlagMeansDown'
    BY <2>1, <2>2 DEF CommandInv, JobWaits, FlagMeansDown, Down, Restores, Stops
  <2>. QED
    BY <2>4, <2>5, <2>6 DEF JobInv
<1>. QED
  BY <1>2, <1>3, <1>4 DEF CommandInv, JobInv

(* The dialogs, the user and the readers of the recovery state. *)
LEMMA OthersKeepInv ==
  ASSUME CommandInv, SidecarInv',
         (\E d \in Dialogs : Choose(d)) \/ EditPath \/ ReadFlag \/ ReadSnapshot
  PROVE  CommandInv'
<1>1. UNCHANGED <<vars, job, flag, snapshot>>
  BY DEF Choose, EditPath, ReadFlag, ReadSnapshot, Quiet, recovery
<1>2. JobInv'
  BY <1>1 DEF CommandInv, vars, job, JobInv, JobType, JobWaits, NoHandleAtWork, FlagMeansDown,
    Restores, Stops
<1>3. RuntimeIsQuiet'
  BY <1>1 DEF CommandInv, vars, job, RuntimeIsQuiet
<1>4. SnapshotIsGood'
  BY <1>1 DEF CommandInv, job, SnapshotIsGood, JobType, Choose, EditPath, ReadFlag, ReadSnapshot,
    recovery
<1>. QED
  BY <1>2, <1>3, <1>4 DEF CommandInv, JobInv

(* Every step keeps the invariant. *)
LEMMA NextKeepsCommandInv ==
  ASSUME CommandInv, [CommandNext]_commandVars
  PROVE  CommandInv'
<1>1. SidecarInv'
  BY CommandMoves, SidecarKeepsInv DEF CommandInv
<1>2. ASSUME Command PROVE CommandInv'
  BY <1>1, <1>2, CommandKeepsJob, CommandKeepsSnapshot, CommandKeepsQuiet DEF CommandInv, JobInv
<1>3. CASE UNCHANGED commandVars
  BY <1>1, <1>3 DEF commandVars, vars, job, recovery, selection, CommandInv, JobType, JobWaits,
    NoHandleAtWork, FlagMeansDown, Restores, Stops, RuntimeIsQuiet, SnapshotIsGood
<1>. QED
  BY <1>1, <1>2, <1>3, WaitsKeepInv, OthersKeepInv DEF CommandNext

-----------------------------------------------------------------------------
(* The answers.                                                            *)

\* The fields of an answer.
FieldNames == {"known", "about", "pending", "status", "phase", "ok", "error", "detail", "snapshot"}

\* What an honest answer says, by the operation.
SaysData(o, a) ==
  \/ a.status = "success" /\ a.ok = TRUE /\ a.error = FALSE
     /\ a.detail = IF o = "export" THEN "good" ELSE NoDetail
  \/ a.status = "cancelled" /\ a.ok = FALSE /\ a.error = FALSE /\ a.detail = NoDetail
  \/ a.status = "error" /\ a.ok = FALSE /\ a.error = TRUE /\ a.detail = NoDetail

SaysResume(a) ==
  \/ a.status = "success" /\ a.ok = TRUE /\ a.error = FALSE /\ a.detail \in {"good", "unsaved"}
  \/ a.status = "error" /\ a.ok = FALSE /\ a.error = TRUE /\ a.detail = NoDetail

SaysProbe(a) ==
  \/ a.status = "ready" /\ a.error = FALSE /\ a.snapshot = NoSnapshot
  \/ a.status = "not-recovered" /\ a.error = TRUE /\ a.snapshot = NoSnapshot
  \/ a.status = "recovery-required" /\ a.error = FALSE /\ a.snapshot # NoSnapshot

SaysCatalog(a) ==
  \/ a.status = "ready" /\ a.error = FALSE /\ a.detail = "good"
  \/ a.status = "empty" /\ a.error = FALSE /\ a.detail = NoDetail
  \/ a.status = "error" /\ a.error = TRUE /\ a.detail = NoDetail

SaysStatus(a) ==
  \/ a.status = "none" /\ a.error = FALSE /\ a.detail = NoDetail
  \/ a.status = "available" /\ a.error = FALSE /\ a.detail = "good"
  \/ a.status = "invalid" /\ a.error = TRUE /\ a.detail = NoDetail

SaysBoot(a) ==
  \/ a.status = "ready" /\ a.detail = "good" /\ a.snapshot = NoSnapshot
  \/ a.status = "failed" /\ a.detail = NoDetail /\ a.snapshot = NoSnapshot
  \/ a.status = "recovery" /\ a.detail = NoDetail /\ a.snapshot # NoSnapshot

(* An honest answer says one thing only. *)
LEMMA HonestSays ==
  ASSUME NEW o \in Ops, NEW a \in HonestAnswers[o]
  PROVE  /\ DOMAIN a = FieldNames
         /\ o \in DataOps => SaysData(o, a)
         /\ o = "resume" => SaysResume(a)
         /\ o = "probe" => SaysProbe(a)
         /\ o = "catalog" => SaysCatalog(a)
         /\ o = "status" => SaysStatus(a)
         /\ o = "boot" => SaysBoot(a)
<1>1. \A s \in {x \in Snapshots : Coherent(x)} : s # NoSnapshot
  BY SnapshotAssumption
<1>. USE DEF Ops, DataOps, HonestAnswers, Honest, FieldNames
<1>2. CASE o \in DataOps
  BY <1>2 DEF SaysData
<1>3. CASE o = "resume"
  BY <1>3 DEF SaysResume
<1>4. CASE o = "probe"
  BY <1>1, <1>4 DEF SaysProbe
<1>5. CASE o = "catalog"
  BY <1>5 DEF SaysCatalog
<1>6. CASE o = "status"
  BY <1>6 DEF SaysStatus
<1>7. CASE o = "boot"
  BY <1>1, <1>7 DEF SaysBoot
<1>. QED
  BY <1>2, <1>3, <1>4, <1>5, <1>6, <1>7

\* One field of an honest answer is not what it should be.
Changed(o, a, b) ==
  \/ b = [a EXCEPT !.known = FALSE]
  \/ o \in DataOps \cup {"resume", "status"} /\ b = [a EXCEPT !.about = "other"]
  \/ o = "resume" /\ b = [a EXCEPT !.pending = "other"]
  \/ o # "boot" /\ b = [a EXCEPT !.phase = "other"]
  \/ o \in DataOps \cup {"resume"} /\ b = [a EXCEPT !.ok = ~a.ok]
  \/ o # "boot" /\ b = [a EXCEPT !.error = ~a.error]
  \/ \E v : v # a.status /\ b = [a EXCEPT !.status = v]
  \/ o # "probe" /\ \E v \in {NoDetail, "bad"} \ {a.detail} : b = [a EXCEPT !.detail = v]
  \/ /\ o \in {"probe", "boot"}
     /\ \E v \in ({s \in Snapshots : ~Coherent(s)} \cup {NoSnapshot}) \ {a.snapshot} :
          b = [a EXCEPT !.snapshot = v]

(* That is all a skewed answer is. *)
LEMMA SkewedIsChanged ==
  ASSUME NEW o \in Ops, NEW b \in Skewed[o]
  PROVE  \E a \in HonestAnswers[o] : Changed(o, a, b)
<1>1. PICK a \in HonestAnswers[o], f \in Fields(o) :
        b \in {[a EXCEPT ![f] = v] : v \in WrongValues(o, a)[f] \ {a[f]}}
  BY DEF Skewed
<1>2. PICK v \in WrongValues(o, a)[f] \ {a[f]} : b = [a EXCEPT ![f] = v]
  BY <1>1
<1>. USE <1>2 DEF Changed, WrongValues, Fields
<1>3. CASE f = "status"
  <2>1. v # a.status /\ b = [a EXCEPT !.status = v]
    BY <1>3
  <2>. QED
    BY <2>1
<1>4. CASE f = "detail"
  <2>1. v \in {NoDetail, "bad"} \ {a.detail} /\ o # "probe"
    BY <1>4
  <2>. QED
    BY <2>1, <1>4
<1>5. CASE f = "snapshot"
  <2>1. v \in ({s \in Snapshots : ~Coherent(s)} \cup {NoSnapshot}) \ {a.snapshot}
    BY <1>5
  <2>2. o \in {"probe", "boot"}
    BY <1>5 DEF Ops, DataOps
  <2>. QED
    BY <2>1, <2>2, <1>5
<1>6. CASE f = "known"
  BY <1>6
<1>7. CASE f \in {"ok", "pending", "about"}
  <2>1. CASE f = "ok"
    BY <2>1 DEF Ops, DataOps
  <2>2. CASE f = "pending"
    BY <2>2
  <2>3. CASE f = "about"
    BY <2>3 DEF Ops, DataOps
  <2>. QED
    BY <1>7, <2>1, <2>2, <2>3
<1>8. CASE f \in {"error", "phase"}
  <2>1. CASE f = "error"
    BY <2>1
  <2>2. CASE f = "phase"
    BY <2>2
  <2>. QED
    BY <1>8, <2>1, <2>2
<1>9. f \in FieldNames
  BY DEF FieldNames
<1>. QED
  BY <1>3, <1>4, <1>5, <1>6, <1>7, <1>8, <1>9 DEF FieldNames

(* The shell takes no skewed answer for a fact. *)
LEMMA NoSkewedFact ==
  ASSUME NEW o \in Ops, NEW b \in Skewed[o], Valid(o, b)
  PROVE  b.status \notin Facts
<1>1. PICK a \in HonestAnswers[o] : Changed(o, a, b)
  BY SkewedIsChanged
<1>2. DOMAIN a = FieldNames
  BY HonestSays
<1>. USE <1>1, <1>2 DEF FieldNames, Changed, Facts
<1>3. CASE o \in DataOps
  <2>1. SaysData(o, a)
    BY <1>3, HonestSays
  <2>2. ValidData(o, b)
    <3>1. o # "resume" /\ o # "probe" /\ o # "catalog" /\ o # "status" /\ o # "boot"
      BY <1>3 DEF DataOps
    <3>. QED
      BY <1>3, <3>1 DEF Valid
  <2>. QED
    BY <1>3, <2>1, <2>2 DEF SaysData, ValidData, WorkPhases, DataOps, NoDetail
<1>4. CASE o = "resume"
  <2>1. SaysResume(a)
    BY <1>4, HonestSays
  <2>2. ValidResume(b)
    BY <1>4 DEF Valid, DataOps
  <2>. QED
    BY <1>4, <2>1, <2>2 DEF SaysResume, ValidResume, WorkPhases, NoDetail
<1>5. CASE o = "probe"
  <2>1. SaysProbe(a)
    BY <1>5, HonestSays
  <2>2. ValidProbe(b)
    BY <1>5 DEF Valid, DataOps
  <2>. QED
    BY <1>5, <2>1, <2>2 DEF SaysProbe, ValidProbe, DataOps
<1>6. CASE o = "catalog"
  <2>1. SaysCatalog(a)
    BY <1>6, HonestSays
  <2>2. ValidCatalog(b)
    BY <1>6 DEF Valid, DataOps
  <2>. QED
    BY <1>6, <2>1, <2>2 DEF SaysCatalog, ValidCatalog, DataOps, NoDetail
<1>7. CASE o = "status"
  <2>1. SaysStatus(a)
    BY <1>7, HonestSays
  <2>2. ValidStatus(b)
    BY <1>7 DEF Valid, DataOps
  <2>. QED
    BY <1>7, <2>1, <2>2 DEF SaysStatus, ValidStatus, DataOps, NoDetail
<1>8. CASE o = "boot"
  <2>1. SaysBoot(a)
    BY <1>8, HonestSays
  <2>2. ValidBoot(b)
    BY <1>8 DEF Valid, DataOps
  <2>. QED
    BY <1>8, <2>1, <2>2 DEF SaysBoot, ValidBoot, DataOps, NoDetail
<1>. QED
  BY <1>3, <1>4, <1>5, <1>6, <1>7, <1>8 DEF Ops

(* The answer the shell takes is the helper's own, or a skewed one. *)
LEMMA ReplyTakesALine ==
  ASSUME NEW o \in Ops, NEW a \in HonestAnswers[o], NEW output \in Outputs[o][a],
         ReplyOf(o, output) # Failed("operation")
  PROVE  \E b \in {a} \cup Skewed[o] : Valid(o, b) /\ ReplyOf(o, output) = Reply(b)
<1>1. a # Noise
  <2>1. a.known = TRUE
    BY DEF HonestAnswers, Honest, Ops, DataOps
  <2>. QED
    BY <2>1 DEF Noise
<1>. DEFINE parsing == {i \in DOMAIN output.lines : Parses(output.lines[i])}
            taken == output.lines[Max(parsing)]
<1>2. parsing # {} /\ Valid(o, taken) /\ ReplyOf(o, output) = Reply(taken)
  BY DEF ReplyOf
<1>3. output.lines \in {<<>>, <<Noise>>} \cup {<<Noise, b>> : b \in {a} \cup Skewed[o]}
                         \cup {<<b, a, Noise>> : b \in Skewed[o]}
  BY DEF Outputs
<1>4. CASE output.lines = <<>> \/ output.lines = <<Noise>>
  BY <1>2, <1>4 DEF Parses
<1>5. CASE \E b \in {a} \cup Skewed[o] : output.lines = <<Noise, b>>
  <2>1. PICK b \in {a} \cup Skewed[o] : output.lines = <<Noise, b>>
    BY <1>5
  <2>2. parsing \subseteq {2}
    BY <2>1 DEF Parses
  <2>3. Max(parsing) = 2
    BY <1>2, <2>2 DEF Max
  <2>4. taken = b
    BY <2>1, <2>3
  <2>. QED
    BY <1>2, <2>4
<1>6. CASE \E b \in Skewed[o] : output.lines = <<b, a, Noise>>
  <2>1. PICK b \in Skewed[o] : output.lines = <<b, a, Noise>>
    BY <1>6
  <2>2. parsing \subseteq {1, 2} /\ 2 \in parsing
    BY <1>1, <2>1 DEF Parses
  <2>3. Max(parsing) = 2
    <3>1. \A x \in parsing : 2 >= x
      BY <2>2
    <3>2. Max(parsing) \in parsing /\ \A x \in parsing : Max(parsing) >= x
      BY <2>2, <3>1 DEF Max
    <3>. QED
      BY <2>2, <3>1, <3>2
  <2>4. taken = a
    BY <2>1, <2>3
  <2>. QED
    BY <1>2, <2>4
<1>. QED
  BY <1>3, <1>4, <1>5, <1>6

(* What the shell takes for a fact, the helper has found or done. *)
LEMMA FactsAreTrue ==
  ASSUME NEW o \in Ops, NEW a \in HonestAnswers[o], NEW output \in Outputs[o][a],
         ReplyOf(o, output).status \in Facts
  PROVE  ReplyOf(o, output) = Reply(a)
<1>1. ReplyOf(o, output) # Failed("operation")
  <2>1. Failed("operation").status = "error"
    BY DEF Failed
  <2>. QED
    BY <2>1 DEF Facts
<1>2. PICK b \in {a} \cup Skewed[o] : Valid(o, b) /\ ReplyOf(o, output) = Reply(b)
  BY <1>1, ReplyTakesALine
<1>3. b.status \in Facts
  BY <1>2 DEF Reply
<1>. QED
  BY <1>2, <1>3, NoSkewedFact
\* The reply and what the helper really came to, wherever the command is.
ReplyInv ==
  reply.status \in Facts => reply.status = truth.status /\ reply.snapshot = truth.snapshot

(* No step makes a reply say what is not so. *)
LEMMA NextKeepsReplyInv ==
  ASSUME CommandInv, ReplyInv, [CommandNext]_commandVars
  PROVE  ReplyInv'
<1>. USE DEF ReplyInv
<1>0. \A phase : Failed(phase).status \notin Facts
  BY DEF Failed, Facts
<1>1. ASSUME NEW o \in Ops, Request(o) PROVE ReplyInv'
  BY <1>0, <1>1 DEF Request
<1>2. CASE Quiesce \/ Quiesced \/ Restart \/ Restarted
  BY <1>0, <1>2 DEF Quiesce, Quiesced, Restart, Restarted, GoesTo, Refused, AnswersWith
<1>3. CASE Build
  BY <1>0, <1>3 DEF Build, GoesTo
<1>4. CASE RunHelper
  <2>1. CASE truth' = NoReply /\ reply' = Failed("operation")
    BY <1>0, <2>1
  <2>2. ASSUME NEW a \in HonestAnswers[HelperOp], NEW output \in Outputs[HelperOp][a],
               reply' = ReplyOf(HelperOp, output),
               truth' = IF reply'.status \in Facts THEN Reply(a) ELSE NoReply
        PROVE  ReplyInv'
    <3>1. HelperOp \in Ops
      BY <1>4 DEF HelperOp, CommandInv, JobType, FlagMeansDown, RunHelper, Ops, DataOps
    <3>. QED
      BY <2>2, <3>1, FactsAreTrue
  <2>. QED
    BY <1>4, <2>1, <2>2 DEF RunHelper
<1>5. CASE Settle
  BY <1>0, <1>5 DEF Settle, GoesTo, Refused, AnswersWith, CommandInv, JobType, Ops, DataOps,
    Restores, FlagMeansDown
<1>6. CASE MarkSnapshot \/ MarkFlag \/ MarkReady
  BY <1>6 DEF MarkSnapshot, MarkFlag, MarkReady, GoesTo
<1>7. CASE Done
  BY <1>7 DEF Done
<1>8. CASE UNCHANGED <<truth, reply>>
  BY <1>8
<1>. QED
  BY <1>1, <1>2, <1>3, <1>4, <1>5, <1>6, <1>7, <1>8 DEF CommandNext, Command, Choose, EditPath,
    ReadFlag, ReadSnapshot, Waits, job, commandVars

-----------------------------------------------------------------------------
(* The results.                                                            *)

(* The invariant of the data commands holds with any bounds. *)
THEOREM CommandInductive == CommandSpec => []CommandInv
  BY InitCommandInv, NextKeepsCommandInv, PTL DEF CommandSpec

(* The sidecar keeps its contract under any sequence of commands: the refinement. *)
THEOREM SidecarImplementsContract == CommandSpec => KeepsContract
<1>1. CommandInit => Contract!Init
  BY DEF CommandInit, Init, Contract!Init, Standing, GroupExists, LauncherLives, RuntimeLives,
    Serving
<1>2. CommandInv /\ CommandInv' /\ [CommandNext]_commandVars => [Contract!Next]_(Contract!vars)
  BY CommandMoves, SidecarKeepsContract DEF CommandInv
<1>. QED
  BY <1>1, <1>2, CommandInductive, PTL DEF CommandSpec, KeepsContract, Contract!Spec

(* No helper replaces or deletes the database beside a runtime. *)
THEOREM HelpersWorkAlone == CommandSpec => []RuntimeIsQuiet
  BY CommandInductive, PTL DEF CommandInv

(* Who sees the recovery flag finds a coherent snapshot. *)
THEOREM FlagHasSnapshot == CommandSpec => []RecoveryHasSnapshot
<1>1. CommandInv => RecoveryHasSnapshot
  BY DEF CommandInv, SnapshotIsGood, RecoveryHasSnapshot
<1>. QED
  BY <1>1, CommandInductive, PTL

(* A command reports as a fact only what its helper has found or done. *)
THEOREM RepliesAreTrue == CommandSpec => []ReplyIsTrue
<1>1. CommandInit => ReplyInv
  BY DEF CommandInit, ReplyInv
<1>2. CommandInv /\ ReplyInv /\ [CommandNext]_commandVars => ReplyInv'
  BY NextKeepsReplyInv
<1>3. ReplyInv => ReplyIsTrue
  BY DEF ReplyInv, ReplyIsTrue
<1>. QED
  BY <1>1, <1>2, <1>3, CommandInductive, PTL DEF CommandSpec
=============================================================================
