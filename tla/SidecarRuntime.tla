--------------------------- MODULE SidecarRuntime ---------------------------
(***************************************************************************)
(* The start and the stop of the local runtime, process by process: the    *)
(* shell (start_sidecar, SidecarHandle::stop of runtime.rs), the launcher  *)
(* it spawns at the head of a process group (serve, shutdown and           *)
(* stopRuntime of sidecar/launcher.cjs), the runtime the launcher spawns   *)
(* in the same group, and the loopback port between them, which another    *)
(* program can take.  The shell signals the group; it waits for the        *)
(* launcher and only asks whether the rest of the group still exists.      *)
(***************************************************************************)
EXTENDS Naturals

CONSTANT MaxCalls   \* bound on the starts and stops of one shell

ASSUME CallsAssumption == MaxCalls \in Nat

VARIABLES
  call,      \* the call of the shell that runs: "none", "start", "stop" or "drop"
  step,      \* where that call is
  answer,    \* how the last call ended
  waited,    \* did the launcher end within the shell's wait?
  launcher,  \* the launcher process
  runtime,   \* the runtime process
  port,      \* who answers at the port the launcher picked
  line,      \* what the launcher wrote to the shell
  termed,    \* has the group been sent TERM?
  calls

vars == <<call, step, answer, waited, launcher, runtime, port, line, termed, calls>>

shell == <<call, step, answer, waited, calls>>
group == <<launcher, runtime, port, line, termed>>

Steps == {"idle", "reading", "probing", "term", "wait", "check", "kill", "reap",
          "recheck", "dead"}
Answers == {"none", "handle", "failed", "uncleaned", "stopped", "unstopped"}

TypeOK ==
  /\ call \in {"none", "start", "stop", "drop"}
  /\ step \in Steps /\ answer \in Answers
  /\ waited \in BOOLEAN /\ termed \in BOOLEAN
  /\ launcher \in {"none", "picking", "waiting", "announced", "stopping", "dying", "gone"}
  /\ runtime \in {"none", "booting", "serving", "dying", "gone"}
  /\ port \in {"free", "ours", "foreign"}
  /\ line \in {"none", "ready", "garbage", "eof"}
  /\ calls \in 0 .. MaxCalls
  /\ call = "none" <=> step \in {"idle", "dead"}

Init ==
  /\ call = "none" /\ step = "idle" /\ answer = "none" /\ waited = FALSE
  /\ launcher = "none" /\ runtime = "none" /\ port = "free" /\ line = "none"
  /\ termed = FALSE /\ calls = 0

LauncherLives == launcher \notin {"none", "gone"}
RuntimeLives == runtime \notin {"none", "gone"}

\* process_group_exists.
GroupExists == LauncherLives \/ RuntimeLives

Serving == runtime = "serving" /\ port = "ours"

-----------------------------------------------------------------------------
(* The shell starts the sidecar.                                           *)

Goes(s) == step' = s /\ UNCHANGED <<call, answer, waited, calls>>

\* start_sidecar: the launcher is spawned at the head of its own group.  What a
\* start before it left dying is not followed any further; when there is nothing
\* to spawn with, it is what the shell is left with.
StartSidecar ==
  /\ step = "idle" /\ answer \notin {"handle", "unstopped"} /\ calls < MaxCalls
  /\ calls' = calls + 1 /\ waited' = FALSE
  /\ \/ /\ call' = "start" /\ step' = "reading" /\ answer' = "none"
        /\ launcher' = "picking" /\ runtime' = "none" /\ port' = "free"
        /\ line' = "none" /\ termed' = FALSE
     \/ /\ answer' = IF answer = "uncleaned" THEN answer ELSE "failed"
        /\ UNCHANGED <<call, step, group>>

\* read_ready_line and validate_ready_message: one line, or READY_TIMEOUT.
\* mutant: the line is awaited without a limit
ReadsForever ==
  /\ step = "reading" /\ line # "none"
  /\ Goes(IF line = "ready" THEN "probing" ELSE "term")
  /\ UNCHANGED group

ReadReadyLine ==
  /\ step = "reading"
  /\ \/ line = "ready" /\ Goes("probing")
     \/ Goes("term")
  /\ UNCHANGED group

\* health_response_matches: only the nonce of this start is accepted.
\* mutant: whoever answers is the runtime
AnyoneAnswers == port # "free"

HealthMatches == Serving

\* wait_for_runtime: probes until one matches or READY_TIMEOUT has passed.
WaitForRuntime ==
  /\ step = "probing"
  /\ \/ /\ HealthMatches
        /\ call' = "none" /\ step' = "idle" /\ answer' = "handle"
        /\ UNCHANGED <<waited, calls>>
     \/ Goes("term")
  /\ UNCHANGED group

-----------------------------------------------------------------------------
(* The shell stops it: at the end of its use, or to clean up a start that  *)
(* failed (cleanup_startup_failure).                                       *)

StopSidecar ==
  /\ step = "idle" /\ answer \in {"handle", "unstopped"} /\ calls < MaxCalls
  /\ call' = "stop" /\ step' = "term" /\ calls' = calls + 1
  /\ UNCHANGED <<answer, waited, group>>

\* signal_process_group: TERM.  A launcher that has not spawned the runtime yet
\* has nothing to stop, and forgets it.
SignalTerm ==
  /\ step = "term"
  /\ termed' = (termed \/ launcher # "picking") /\ Goes("wait")
  /\ UNCHANGED <<launcher, runtime, port, line>>

\* wait_for_child: the launcher ended, or SIDECAR_SHUTDOWN_TIMEOUT has passed.
WaitForChild ==
  /\ step \in {"wait", "reap"}
  /\ \/ ~LauncherLives /\ waited' = TRUE
     \/ LauncherLives /\ waited' = FALSE
  /\ step' = IF step = "wait" THEN "check" ELSE "recheck"
  /\ UNCHANGED <<call, answer, calls, group>>

\* The call ends: ok says that nothing of the group is left.  A start keeps its
\* own failure when its cleanup went well; its handle is dropped, and dropping
\* a handle that was not stopped stops it once more.
Ends(ok) ==
  /\ waited' = FALSE /\ UNCHANGED calls
  /\ \/ /\ call = "start" /\ ~ok
        /\ call' = "drop" /\ step' = "term" /\ UNCHANGED answer
     \/ /\ ~(call = "start" /\ ~ok)
        /\ call' = "none" /\ step' = "idle"
        /\ answer' = CASE call = "start" -> "failed"
                       [] call = "stop" -> IF ok THEN "stopped" ELSE "unstopped"
                       [] call = "drop" -> "uncleaned"

\* The check after TERM: the launcher ended and its group is empty, or KILL.
CheckGroup ==
  /\ step = "check"
  /\ \/ waited /\ ~GroupExists /\ Ends(TRUE)
     \/ ~(waited /\ ~GroupExists) /\ Goes("kill")
  /\ UNCHANGED group

\* signal_process_group: KILL.  What is killed exists until it is reaped.
SignalKill ==
  /\ step = "kill"
  /\ launcher' = IF LauncherLives THEN "dying" ELSE launcher
  /\ runtime' = IF RuntimeLives THEN "dying" ELSE runtime
  /\ port' = IF port = "ours" THEN "free" ELSE port
  /\ line' = IF line = "none" THEN "eof" ELSE line
  /\ Goes("reap") /\ UNCHANGED termed

RecheckGroup ==
  /\ step = "recheck"
  /\ Ends(waited /\ ~GroupExists)
  /\ UNCHANGED group

\* The shell dies or is killed: nobody stops the group any more.
ShellDies ==
  /\ step # "dead"
  /\ call' = "none" /\ step' = "dead"
  /\ UNCHANGED <<answer, waited, calls, group>>

Shell == StartSidecar \/ ReadReadyLine \/ WaitForRuntime \/ StopSidecar \/ SignalTerm
           \/ WaitForChild \/ CheckGroup \/ SignalKill \/ RecheckGroup

-----------------------------------------------------------------------------
(* The launcher and the runtime.                                           *)

LauncherEnds == launcher' = "gone" /\ line' = IF line = "none" THEN "eof" ELSE line

\* serve: a port is picked and the runtime spawned, or the launcher fails first.
SpawnRuntime ==
  /\ launcher = "picking"
  /\ \/ launcher' = "waiting" /\ runtime' = "booting" /\ UNCHANGED line
     \/ LauncherEnds /\ UNCHANGED runtime
     \/ LauncherEnds /\ line = "none" /\ line' = "garbage" /\ UNCHANGED runtime
  /\ UNCHANGED <<port, termed, shell>>

\* The runtime listens, or finds the port taken and ends.
RuntimeListens ==
  /\ runtime = "booting"
  /\ \/ port = "free" /\ runtime' = "serving" /\ port' = "ours"
     \/ runtime' = "gone" /\ UNCHANGED port
  /\ UNCHANGED <<launcher, line, termed, shell>>

\* Another program takes the port between the pick and the runtime's bind, or
\* after the runtime ended.
PortTaken ==
  /\ port = "free" /\ LauncherLives
  /\ port' = "foreign"
  /\ UNCHANGED <<launcher, runtime, line, termed, shell>>

\* waitForHttpReady and the ready line; a runtime that ended first, or that is
\* not ready in time, is stopped and the launcher fails.
Announce ==
  /\ launcher = "waiting"
  /\ \/ Serving /\ launcher' = "announced" /\ line' = "ready"
     \/ launcher' = "stopping" /\ UNCHANGED line
  /\ UNCHANGED <<runtime, port, termed, shell>>

\* The TERM handler with a runtime to stop, or the runtime's own end.
LauncherStops ==
  /\ launcher \in {"waiting", "announced"}
  /\ termed \/ ~RuntimeLives
  /\ launcher' = "stopping"
  /\ UNCHANGED <<runtime, port, line, termed, shell>>

\* stopRuntime has seen the runtime end, and the launcher ends.  It also gives
\* up waiting for a runtime that KILL does not end.
LauncherLeaves ==
  /\ launcher = "stopping"
  /\ ~RuntimeLives \/ runtime = "dying"
  /\ LauncherEnds
  /\ UNCHANGED <<runtime, port, termed, shell>>

\* The runtime ends: told to by the launcher or by the group's TERM, or on its own.
RuntimeEnds ==
  /\ RuntimeLives
  /\ runtime' = "gone"
  /\ port' = IF port = "ours" THEN "free" ELSE port
  /\ UNCHANGED <<launcher, line, termed, shell>>

\* stopRuntime kills a runtime that did not heed TERM.
LauncherKills ==
  /\ launcher = "stopping" /\ runtime \in {"booting", "serving"}
  /\ runtime' = "dying"
  /\ port' = IF port = "ours" THEN "free" ELSE port
  /\ UNCHANGED <<launcher, line, termed, shell>>

\* The launcher crashes, or the system has reaped what was killed.
LauncherDies ==
  /\ LauncherLives
  /\ LauncherEnds
  /\ UNCHANGED <<runtime, port, termed, shell>>

Group == SpawnRuntime \/ RuntimeListens \/ PortTaken \/ Announce \/ LauncherStops
           \/ LauncherLeaves \/ RuntimeEnds \/ LauncherKills \/ LauncherDies

\* Every wait of the shell has a time limit.  Nothing is assumed of the processes
\* it started.
Next == Shell \/ Group \/ ShellDies
Fairness == WF_vars(Shell /\ step # "idle")
Spec == Init /\ [][Next]_vars /\ Fairness

-----------------------------------------------------------------------------
\* The state of the contract, as the shell sees it.
Standing ==
  CASE step = "dead" -> "dead"
    [] call \in {"start", "drop"} -> "starting"
    [] call = "stop" -> "stopping"
    [] OTHER -> CASE answer \in {"none", "failed", "stopped"} -> "off"
                  [] answer = "handle" -> "on"
                  [] answer = "unstopped" -> "stuck"
                  [] answer = "uncleaned" -> "littered"

Contract == INSTANCE SidecarContract WITH
  state <- Standing, live <- GroupExists, answering <- Serving

\* The start and the stop of the code keep their contract: a handle is only given
\* out for the runtime of this start, a failed start and a stop that succeeded
\* leave no process of the group, whichever of them crashed, hung, was told to
\* stop before it had spawned the other, or lost the port to another program.
KeepsContract == Contract!Spec

\* A start and a stop always end, though no process they wait for has to: every
\* wait is bounded.
CallsEnd == (call # "none") ~> (call = "none")
=============================================================================
