---------------------------- MODULE InstanceLock ----------------------------
(***************************************************************************)
(* The single instance of the desktop application (instance.rs, and the    *)
(* calls of main.rs that use it).  Every start of the program competes for *)
(* an advisory lock (flock) in the settings directory.  The start that     *)
(* gets it is the primary: it writes an owner marker, binds a focus socket *)
(* and answers the other starts from a listener thread.  A start that      *)
(* does not get the lock asks the socket to raise the primary's window, a  *)
(* bounded number of times, and ends.                                      *)
(*                                                                         *)
(* The kernel gives the lock back when the process ends, whatever way it   *)
(* ends; the marker and the socket file stay unless the guard's destructor *)
(* ran.  A process here is one run of the program.                         *)
(***************************************************************************)
EXTENDS Naturals, Sequences

CONSTANTS
  Launches,      \* the runs of the program
  Nobody,
  Situations,    \* what each run finds: [Launches -> [home, override, temp]]
  DeepTemps,     \* temporary directories too long for a socket path
  LegacyHomes,   \* homes whose lock file has the content of an older release
  DebugBuild,    \* whether this is a build with debug assertions
  Litter,        \* what may already be at a socket path
  Retries,       \* FOCUS_RETRY_COUNT
  MaxFaults      \* bound on the file operations that fail

ASSUME InstanceAssumption ==
  /\ Retries \in Nat /\ MaxFaults \in Nat
  /\ Nobody \notin Launches
  /\ Launches \cap {"none", "left", "file", "foreign"} = {}
  /\ \A f \in Situations : f = [p \in Launches |-> f[p]]
  /\ DebugBuild \in BOOLEAN
  /\ Litter \subseteq {"none", "left", "file", "foreign"}

-----------------------------------------------------------------------------
(* Where a run keeps its lock and its socket.                              *)

\* configured_home_directory: a home that is not absolute is refused.
HomeIsUsable(e) == e.home # "relative"

\* application_id_for: a debug build keeps apart from the product, unless the
\* home directory was given explicitly.
ApplicationId(e) == IF DebugBuild /\ ~e.override THEN "debug" ELSE "product"

\* instance_paths: the directory of the lock and of the owner marker.
SettingsOf(e) == <<e.home, ApplicationId(e)>>

\* focus_socket_path_at_for: the socket is named after the application and the
\* settings directory, under the temporary directory or, when that path would
\* be too long, under a directory of this user.
SocketOf(e) ==
  IF e.temp \in DeepTemps THEN <<"fallback", SettingsOf(e)>> ELSE <<e.temp, SettingsOf(e)>>

Environments == {f[p] : f \in Situations, p \in Launches}
Settings == {SettingsOf(e) : e \in Environments}
Sockets == {SocketOf(e) : e \in Environments}

VARIABLES
  stage,     \* [Launches -> Stages]
  env,       \* [Launches -> Environments]
  attempt,   \* the retry a start is at; Probe for the primary's own check
  outcome,   \* how a run ended or what it became
  lock,      \* [Settings -> Launches \cup {Nobody}]: who holds the lock
  owner,     \* [Settings -> Launches \cup {Nobody}]: who the marker names
  socket,    \* [Sockets -> what is at the path]: a run, or one of Litter
  owned,     \* the runs whose guard will remove the socket
  window,    \* the runs whose primary window exists
  backlog,   \* [Launches -> Seq(connections)]: accepted and not yet answered
  reply,     \* [Launches -> what arrived on the run's connection]
  raised,    \* the runs whose present request raised a window (history)
  faults     \* file operations that have failed

vars == <<stage, env, attempt, outcome, lock, owner, socket, owned, window,
          backlog, reply, raised, faults>>

files == <<lock, owner, socket>>
talk == <<backlog, reply, raised>>

Probe == Retries + 1
Connections == Launches \X (0 .. Probe)

Starting == {"locking", "asking", "awaiting"}
Acquired == {"marking", "probing", "checking", "removing", "binding"}
Served == {"setup", "open", "ending"}
Dropping == {"closing", "unmarking", "unlocking"}
Stages == {"idle", "exiting", "gone"} \cup Starting \cup Acquired \cup Served \cup Dropping

Outcomes == {"none", "primary", "focused", "notReady", "refused"}

TypeOK ==
  /\ stage \in [Launches -> Stages]
  /\ env \in [Launches -> Environments]
  /\ attempt \in [Launches -> 0 .. Probe]
  /\ outcome \in [Launches -> Outcomes]
  /\ lock \in [Settings -> Launches \cup {Nobody}]
  /\ owner \in [Settings -> Launches \cup {Nobody}]
  /\ socket \in [Sockets -> Launches \cup {"none", "left", "file", "foreign"}]
  /\ owned \subseteq Launches /\ window \subseteq Launches
  /\ backlog \in [Launches -> Seq(Connections)]
  /\ reply \in [Launches -> {"none", "focused", "not-ready"}]
  /\ raised \subseteq Launches
  /\ faults \in 0 .. MaxFaults

Init ==
  /\ stage = [p \in Launches |-> "idle"]
  /\ env \in Situations
  /\ attempt = [p \in Launches |-> 0]
  /\ outcome = [p \in Launches |-> "none"]
  /\ lock = [s \in Settings |-> Nobody]
  /\ owner = [s \in Settings |-> Nobody]
  /\ \E x \in Litter : socket = [s \in Sockets |-> x]
  /\ owned = {} /\ window = {}
  /\ backlog = [p \in Launches |-> <<>>]
  /\ reply = [p \in Launches |-> "none"]
  /\ raised = {}
  /\ faults = 0

-----------------------------------------------------------------------------
MySettings(p) == SettingsOf(env[p])
MySocket(p) == SocketOf(env[p])

\* The listener thread of a run accepts from the bind to the end of the process.
Listening(p) == stage[p] \in Served \cup Dropping \cup {"exiting"} /\ p \in owned

\* UnixStream::connect succeeds: a live listener is bound to the path.
Connects(path) == socket[path] \in Launches /\ Listening(socket[path])

\* A socket file nobody listens on: the connection is refused.
Stale(path) ==
  \/ socket[path] = "left"
  \/ socket[path] \in Launches /\ ~Listening(socket[path])

Moves(p, s) == stage' = [stage EXCEPT ![p] = s]
Becomes(p, o) == outcome' = [outcome EXCEPT ![p] = o]
AFault == faults < MaxFaults /\ faults' = faults + 1

\* A process ends without giving anything back but what the kernel takes: the
\* lock and its connections.
Ends(p) ==
  /\ Moves(p, "gone")
  /\ lock' = [s \in Settings |-> IF lock[s] = p THEN Nobody ELSE lock[s]]
  /\ backlog' = [backlog EXCEPT ![p] = <<>>]
  /\ owned' = owned \ {p} /\ window' = window \ {p}
  /\ attempt' = [attempt EXCEPT ![p] = 0]

\* request_focus_once and the head of focus_socket_status: a connection that
\* waits for its answer.
Dials(p, next) ==
  LET q == socket[MySocket(p)] IN
  /\ Connects(MySocket(p))
  /\ backlog' = [backlog EXCEPT ![q] = Append(@, <<p, attempt[p]>>)]
  /\ reply' = [reply EXCEPT ![p] = "none"]
  /\ raised' = raised \ {p}
  /\ Moves(p, next)

-----------------------------------------------------------------------------
(* acquire_instance: get the lock, or ask the primary for its window.      *)

\* acquire_instance, instance_paths and prepare_focus_socket_directory.
Launch(p) ==
  /\ stage[p] = "idle"
  /\ \/ HomeIsUsable(env[p]) /\ Moves(p, "locking") /\ UNCHANGED <<outcome, faults>>
     \/ ~HomeIsUsable(env[p]) /\ Moves(p, "gone") /\ Becomes(p, "refused") /\ UNCHANGED faults
     \/ Moves(p, "gone") /\ Becomes(p, "refused") /\ AFault
  /\ UNCHANGED <<env, attempt, files, owned, window, talk>>

\* try_open_instance_lock: flock without waiting.
TryLock(p) ==
  /\ stage[p] = "locking"
  /\ \/ /\ lock[MySettings(p)] = Nobody
        /\ lock' = [lock EXCEPT ![MySettings(p)] = p]
        /\ Moves(p, "marking")
     \/ /\ lock[MySettings(p)] # Nobody
        /\ Moves(p, "asking")
        /\ UNCHANGED lock
  /\ UNCHANGED <<env, attempt, outcome, owner, socket, owned, window, talk, faults>>

\* stable_lock_file_must_be_empty and atomic_write_instance_owner.  A failure
\* drops the open lock file, and with it the lock, and ends the program.

Mark(p) ==
  /\ stage[p] = "marking"
  /\ \/ /\ env[p].home \notin LegacyHomes
        /\ owner' = [owner EXCEPT ![MySettings(p)] = p]
        /\ attempt' = [attempt EXCEPT ![p] = Probe]
        /\ Moves(p, "probing") /\ Becomes(p, "primary")
        /\ UNCHANGED <<lock, backlog, owned, window, faults>>
     \/ /\ Ends(p) /\ Becomes(p, "refused")
        /\ IF env[p].home \in LegacyHomes THEN UNCHANGED faults ELSE AFault
        /\ UNCHANGED owner
  /\ UNCHANGED <<env, socket, reply, raised>>

\* The end of one round of acquire_instance_at that did not get its answer.
\* mutant: the rounds are not counted
RoundsForever(p) ==
  /\ Moves(p, "locking")
  /\ UNCHANGED <<outcome, attempt>>

NextRound(p) ==
  \/ /\ attempt[p] < Retries
     /\ attempt' = [attempt EXCEPT ![p] = @ + 1]
     /\ Moves(p, "locking")
     /\ UNCHANGED outcome
  \/ /\ attempt[p] = Retries
     /\ attempt' = [attempt EXCEPT ![p] = 0]
     /\ Moves(p, "gone") /\ Becomes(p, "notReady")

\* request_focus_once.
Ask(p) ==
  /\ stage[p] = "asking"
  /\ \/ Dials(p, "awaiting") /\ UNCHANGED <<attempt, outcome>>
     \/ ~Connects(MySocket(p)) /\ NextRound(p) /\ UNCHANGED talk
  /\ UNCHANGED <<env, files, owned, window, faults>>

\* focus_response: the answer is read, or the wait ends without one (the time
\* ran out, or the primary ended).
Answered(p) ==
  /\ stage[p] = "awaiting"
  /\ \/ /\ reply[p] = "focused"
        /\ attempt' = [attempt EXCEPT ![p] = 0]
        /\ Moves(p, "gone") /\ Becomes(p, "focused")
     \/ reply[p] # "focused" /\ NextRound(p)
  /\ reply' = [reply EXCEPT ![p] = "none"]
  /\ UNCHANGED <<env, files, owned, window, backlog, raised, faults>>

-----------------------------------------------------------------------------
(* start_focus_listener: the primary takes the focus socket.               *)

\* setup fails: the guard is dropped and the program ends.
SetupFails(p) == Moves(p, "closing") /\ Becomes(p, "refused")

\* focus_socket_status and the decision of bind_focus_listener_with_status.

CheckSocket(p) ==
  /\ stage[p] = "probing"
  /\ \/ Dials(p, "checking") /\ UNCHANGED outcome
     \/ /\ socket[MySocket(p)] = "none"
        /\ Moves(p, "binding") /\ UNCHANGED <<outcome, talk>>
     \/ /\ Stale(MySocket(p))
        /\ Moves(p, "removing") /\ UNCHANGED <<outcome, talk>>
     \/ /\ socket[MySocket(p)] \in {"file", "foreign"}
        /\ SetupFails(p) /\ UNCHANGED talk
  /\ UNCHANGED <<env, attempt, files, owned, window, faults>>

\* focus_socket_status once connected: an answer means Active, silence Unknown,
\* and either is refused.
EndpointInUse(p) ==
  /\ stage[p] = "checking"
  /\ SetupFails(p)
  /\ reply' = [reply EXCEPT ![p] = "none"]
  /\ UNCHANGED <<env, attempt, files, owned, window, backlog, raised, faults>>

\* bind_focus_listener_with_status, Stale: the file is removed.
RemoveStale(p) ==
  /\ stage[p] = "removing"
  /\ \/ /\ socket' = [socket EXCEPT ![MySocket(p)] = "none"]
        /\ Moves(p, "binding") /\ UNCHANGED <<outcome, faults>>
     \/ SetupFails(p) /\ AFault /\ UNCHANGED socket
  /\ UNCHANGED <<env, attempt, lock, owner, owned, window, talk>>

\* UnixListener::bind, the listener thread and mark_socket_owned; the instance
\* is then managed by the application.
Bind(p) ==
  /\ stage[p] = "binding"
  /\ \/ /\ socket[MySocket(p)] = "none"
        /\ socket' = [socket EXCEPT ![MySocket(p)] = p]
        /\ owned' = owned \cup {p}
        /\ Moves(p, "setup") /\ UNCHANGED <<outcome, faults>>
     \/ /\ socket[MySocket(p)] # "none"
        /\ SetupFails(p) /\ UNCHANGED <<socket, owned, faults>>
     \/ SetupFails(p) /\ AFault /\ UNCHANGED <<socket, owned>>
  /\ UNCHANGED <<env, attempt, lock, owner, window, talk>>

\* The answer reaches a run that still waits on this very connection.
Replies(c, word, shown) ==
  LET p == c[1]
      waits == stage[p] \in {"awaiting", "checking"} /\ attempt[p] = c[2]
  IN
  /\ reply' = IF waits THEN [reply EXCEPT ![p] = word] ELSE reply
  /\ raised' = IF waits /\ shown THEN raised \cup {p} ELSE raised

\* handle_focus_connection: connections are answered one at a time, each with
\* what became of the window; an answer nobody waits for any more is lost.
\* mutant: the answer does not depend on the window
AnswersBlindly(q) ==
  LET c == Head(backlog[q]) IN
  /\ Listening(q) /\ backlog[q] # <<>>
  /\ backlog' = [backlog EXCEPT ![q] = Tail(@)]
  /\ Replies(c, "focused", q \in window)
  /\ UNCHANGED <<stage, env, attempt, outcome, files, owned, window, faults>>

Answer(q) ==
  LET c == Head(backlog[q]) IN
  /\ Listening(q) /\ backlog[q] # <<>>
  /\ backlog' = [backlog EXCEPT ![q] = Tail(@)]
  /\ \/ q \in window /\ Replies(c, "focused", TRUE) /\ UNCHANGED faults
     \/ q \in window /\ Replies(c, "not-ready", FALSE) /\ AFault
     \/ q \notin window /\ Replies(c, "not-ready", FALSE) /\ UNCHANGED faults
  /\ UNCHANGED <<stage, env, attempt, outcome, files, owned, window>>

-----------------------------------------------------------------------------
(* The rest of the primary's life.                                         *)

\* The rest of setup: the window is created, or something fails and the guard
\* is dropped with the application.
Open(p) ==
  /\ stage[p] = "setup"
  /\ \/ Moves(p, "open") /\ window' = window \cup {p} /\ UNCHANGED outcome
     \/ SetupFails(p) /\ UNCHANGED window
  /\ UNCHANGED <<env, attempt, files, owned, talk, faults>>

\* The primary window is destroyed: the application is about to exit.
CloseWindow(p) ==
  /\ stage[p] = "open"
  /\ window' = window \ {p}
  /\ Moves(p, "ending")
  /\ UNCHANGED <<env, attempt, outcome, files, owned, talk, faults>>

\* The application ends orderly and its guard is dropped.
Quit(p) ==
  /\ stage[p] \in {"open", "ending"}
  /\ Moves(p, "closing")
  /\ UNCHANGED <<env, attempt, outcome, files, owned, window, talk, faults>>

\* InstanceGuard::drop: the socket file, if this run bound it.
DropSocket(p) ==
  /\ stage[p] = "closing"
  /\ \/ /\ p \in owned
        /\ socket' = [socket EXCEPT ![MySocket(p)] = "none"]
        /\ UNCHANGED faults
     \/ p \in owned /\ AFault /\ UNCHANGED socket
     \/ p \notin owned /\ UNCHANGED <<socket, faults>>
  /\ Moves(p, "unmarking")
  /\ UNCHANGED <<env, attempt, outcome, lock, owner, owned, window, talk>>

\* remove_instance_owner_if_matches.
DropMarker(p) ==
  /\ stage[p] = "unmarking"
  /\ \/ /\ owner[MySettings(p)] = p
        /\ owner' = [owner EXCEPT ![MySettings(p)] = Nobody]
        /\ UNCHANGED faults
     \/ owner[MySettings(p)] # p /\ UNCHANGED <<owner, faults>>
     \/ owner[MySettings(p)] = p /\ AFault /\ UNCHANGED owner
  /\ Moves(p, "unlocking")
  /\ UNCHANGED <<env, attempt, outcome, lock, socket, owned, window, talk>>

\* The lock file is closed; the process and its listener thread go on for a while.
\* mutant: the lock goes first, the socket last
LockFirst(p) ==
  /\ stage[p] = "unlocking"
  /\ \/ /\ lock[MySettings(p)] = p
        /\ lock' = [lock EXCEPT ![MySettings(p)] = Nobody]
        /\ UNCHANGED <<stage, socket>>
     \/ /\ lock[MySettings(p)] # p
        /\ socket' = IF p \in owned THEN [socket EXCEPT ![MySocket(p)] = "none"] ELSE socket
        /\ Moves(p, "exiting") /\ UNCHANGED lock
  /\ UNCHANGED <<env, attempt, outcome, owner, owned, window, talk, faults>>

DropLock(p) ==
  /\ stage[p] = "unlocking"
  /\ lock' = [lock EXCEPT ![MySettings(p)] = IF @ = p THEN Nobody ELSE @]
  /\ Moves(p, "exiting")
  /\ UNCHANGED <<env, attempt, outcome, owner, socket, owned, window, talk, faults>>

\* The process ends: main returns or calls exit, the application exits or
\* restarts without running destructors, or it is killed.
Vanish(p) ==
  /\ stage[p] \notin {"idle", "gone"}
  /\ Ends(p)
  /\ reply' = [reply EXCEPT ![p] = "none"]
  /\ raised' = raised \ {p}
  /\ UNCHANGED <<env, outcome, owner, socket, faults>>

Start(p) == Launch(p) \/ TryLock(p) \/ Mark(p) \/ Ask(p) \/ Answered(p)
Setup(p) == CheckSocket(p) \/ EndpointInUse(p) \/ RemoveStale(p) \/ Bind(p) \/ Open(p)
Leave(p) == CloseWindow(p) \/ Quit(p) \/ DropSocket(p) \/ DropMarker(p) \/ DropLock(p)

Next == \E p \in Launches : Start(p) \/ Setup(p) \/ Leave(p) \/ Answer(p) \/ Vanish(p)

\* A process that started runs: it is never waiting without a time limit.
Fairness == \A p \in Launches : WF_vars(Start(p) \/ Setup(p))

Spec == Init /\ [][Next]_vars /\ Fairness

-----------------------------------------------------------------------------
\* A primary can be reached: from its bind until its guard is dropped, the
\* socket at its path is its own.  An earlier run that is still ending, or
\* another start that finds a stale file, must not take it away.
Reachable == \A p \in Launches : stage[p] \in Served => socket[MySocket(p)] = p

\* The owner marker names the run that holds the lock for as long as it lives:
\* neither the marker of a crash nor the removal by an earlier run wins.
MarkerIsTrue ==
  \A p \in Launches : stage[p] \in (Acquired \ {"marking"}) \cup Served \cup {"closing"}
    => lock[MySettings(p)] = p /\ owner[MySettings(p)] = p

\* A start that ends because the primary was focused had a window raised for the
\* very request it was waiting on, not for one it gave up before.
FocusedWasRaised ==
  \A p \in Launches : outcome[p] = "focused" => p \in raised

\* A run that holds the lock is refused its socket only for something that is
\* not ours at the path, or after a file operation failed: nothing a crash or an
\* earlier run leaves behind locks the user out of the application.
RefusalHasCause ==
  \A p \in Launches : stage[p] \in Acquired /\ stage'[p] = "closing"
    => faults' > 0 \/ socket[MySocket(p)] \in {"file", "foreign"}

RefusedForCause == [][RefusalHasCause]_vars

\* A start always ends: it becomes the primary, or it stops after a bounded
\* number of rounds, however often the primary fails to answer.
EveryStartEnds ==
  \A p \in Launches : (stage[p] \in Starting) ~> (stage[p] \notin Starting)
=============================================================================
