------------------------- MODULE InstanceLock_proofs -------------------------
(* Any number of starts, with any homes, temporary directories and leftovers, *)
(* any of which may be killed anywhere: the lock has one holder, the marker   *)
(* and the socket are the holder's, and no leftover refuses a start.          *)
EXTENDS InstanceLock, TLAPS

Holding == Acquired \cup Served \cup {"closing", "unmarking", "unlocking"}

\* Who has got past the lock holds it until it gives it back.
HoldsLock == \A p \in Launches : stage[p] \in Holding => lock[MySettings(p)] = p

\* A socket that names a run was bound by it, at its own path, and is still its to
\* remove unless it was killed.
SocketHasOwner ==
  \A p \in Launches : \A x \in Sockets : socket[x] = p =>
    /\ x = MySocket(p)
    /\ stage[p] \in Served \cup Dropping \cup {"exiting", "gone"}
    /\ stage[p] = "gone" \/ p \in owned

\* A live run whose socket outlived its destructor could not remove it.
LeftByFault ==
  \A p \in Launches :
    stage[p] \in {"unmarking", "unlocking", "exiting"} /\ socket[MySocket(p)] = p => faults > 0

\* Nobody takes the path between the removal of a stale socket and the bind.
PathStaysFree == \A p \in Launches : stage[p] = "binding" => socket[MySocket(p)] = "none"

\* The holder of the lock finds somebody listening only after such a failure.
InUseByFault == \A p \in Launches : stage[p] = "checking" => faults > 0

\* An answer that says "focused" was given when the window was raised.
AnswerWasRaised == \A p \in Launches : reply[p] = "focused" => p \in raised

\* A start that was told so has ended.
FocusedIsOver == \A p \in Launches : outcome[p] = "focused" => stage[p] = "gone"

InstanceInv ==
  /\ TypeOK
  /\ HoldsLock /\ MarkerIsTrue
  /\ SocketHasOwner /\ LeftByFault /\ PathStaysFree /\ InUseByFault /\ Reachable
  /\ AnswerWasRaised /\ FocusedIsOver /\ FocusedWasRaised

USE InstanceAssumption

-----------------------------------------------------------------------------
(* The environment of a run never changes, and so neither do its paths. *)
LEMMA PathsAreFixed ==
  ASSUME env' = env
  PROVE  \A p \in Launches : MySettings(p)' = MySettings(p) /\ MySocket(p)' = MySocket(p)
  BY DEF MySettings, MySocket

(* The socket is named after the settings directory: two runs with one path
   compete for one lock. *)
LEMMA PathNamesSettings ==
  \A p, q \in Launches : MySocket(p) = MySocket(q) => MySettings(p) = MySettings(q)
<1>1. \A e, f : SocketOf(e) = SocketOf(f) => SettingsOf(e) = SettingsOf(f)
  BY DEF SocketOf
<1>. QED
  BY <1>1 DEF MySocket, MySettings

(* The paths of a run are among those the model has. *)
LEMMA PathsAreKnown ==
  ASSUME TypeOK
  PROVE  \A p \in Launches : MySettings(p) \in Settings /\ MySocket(p) \in Sockets
<1>1. \A p \in Launches : env[p] \in Environments
  BY DEF TypeOK
<1>. QED
  BY <1>1 DEF MySettings, MySocket, Settings, Sockets

(* Two runs past the lock do not share a socket path. *)
LEMMA OneHolder ==
  ASSUME InstanceInv, NEW p \in Launches, NEW q \in Launches,
         stage[p] \in Holding, stage[q] \in Holding, MySettings(p) = MySettings(q)
  PROVE  p = q
  BY DEF InstanceInv, HoldsLock

(* The initial states. *)
LEMMA InitInv == Init => InstanceInv
<1>. SUFFICES ASSUME Init PROVE InstanceInv
  OBVIOUS
<1>1. env \in [Launches -> Environments]
  BY DEF Init, Environments
<1>2. TypeOK
  BY <1>1 DEF Init, TypeOK, Stages, Outcomes, Probe, Connections
<1>. QED
  BY <1>2 DEF Init, InstanceInv, HoldsLock, MarkerIsTrue, SocketHasOwner, LeftByFault,
    PathStaysFree, InUseByFault, Reachable, AnswerWasRaised, FocusedIsOver, FocusedWasRaised,
    Holding, Acquired, Served, Dropping

(* The marks of a run that goes from one stage to the next without a file. *)
Marked == (Acquired \ {"marking"}) \cup Served \cup {"closing"}
Departed == {"unmarking", "unlocking", "exiting"}

(* The steps that touch no file keep what the files say, unless the run gets
   somewhere it has not been. *)
LEMMA FilesKept ==
  ASSUME InstanceInv, NEW p \in Launches, UNCHANGED <<env, files, owned>>,
         faults' \in Nat, faults' >= faults,
         \A q \in Launches \ {p} : stage'[q] = stage[q],
         stage[p] # "gone",
         stage'[p] \in Holding => stage[p] \in Holding,
         stage'[p] \in Marked => stage[p] \in Marked,
         stage'[p] \in Served => stage[p] \in Served,
         stage'[p] \notin Departed,
         stage[p] \in Served \cup Dropping \cup {"exiting"}
           => stage'[p] \in Served \cup Dropping \cup {"exiting"},
         stage'[p] = "binding" => socket[MySocket(p)] = "none",
         stage'[p] = "checking" => faults' > 0
  PROVE  /\ HoldsLock' /\ MarkerIsTrue'
         /\ SocketHasOwner' /\ LeftByFault' /\ PathStaysFree' /\ InUseByFault' /\ Reachable'
<1>0. \A q \in Launches : MySettings(q)' = MySettings(q) /\ MySocket(q)' = MySocket(q)
  BY PathsAreFixed
<1>f. faults \in Nat
  BY DEF InstanceInv, TypeOK
<1>1. HoldsLock' /\ MarkerIsTrue'
  BY <1>0 DEF InstanceInv, HoldsLock, MarkerIsTrue, files, Marked
<1>2. SocketHasOwner'
  BY <1>0 DEF InstanceInv, SocketHasOwner, files
<1>3. LeftByFault' /\ InUseByFault'
  BY <1>0, <1>f DEF InstanceInv, LeftByFault, InUseByFault, files, Departed
<1>4. PathStaysFree' /\ Reachable'
  BY <1>0 DEF InstanceInv, PathStaysFree, Reachable, files
<1>. QED
  BY <1>1, <1>2, <1>3, <1>4

(* The steps that tell nobody anything keep the answers. *)
LEMMA AnswersKept ==
  ASSUME InstanceInv, NEW p \in Launches, stage[p] # "gone",
         \A q \in Launches \ {p} :
           stage'[q] = stage[q] /\ outcome'[q] = outcome[q] /\ reply'[q] = reply[q],
         outcome'[p] = "focused" => stage'[p] = "gone" /\ p \in raised',
         reply'[p] = "focused" => p \in raised',
         raised \ {p} \subseteq raised'
  PROVE  AnswerWasRaised' /\ FocusedIsOver' /\ FocusedWasRaised'
  BY DEF InstanceInv, AnswerWasRaised, FocusedIsOver, FocusedWasRaised

-----------------------------------------------------------------------------
(* What the parts of the actions do. *)
LEMMA MoveFacts ==
  ASSUME TypeOK, NEW p \in Launches, NEW s \in Stages, Moves(p, s)
  PROVE  /\ stage' \in [Launches -> Stages] /\ stage'[p] = s
         /\ \A q \in Launches \ {p} : stage'[q] = stage[q]
  BY DEF TypeOK, Moves

LEMMA BecomeFacts ==
  ASSUME TypeOK, NEW p \in Launches, NEW o \in Outcomes, Becomes(p, o)
  PROVE  /\ outcome' \in [Launches -> Outcomes] /\ outcome'[p] = o
         /\ \A q \in Launches \ {p} : outcome'[q] = outcome[q]
  BY DEF TypeOK, Becomes

LEMMA FaultFacts ==
  ASSUME TypeOK, AFault
  PROVE  faults' \in 0 .. MaxFaults /\ faults' > 0 /\ faults' >= faults
  BY DEF TypeOK, AFault

LEMMA StageFacts ==
  /\ Holding \subseteq Stages /\ Served \subseteq Stages /\ Starting \subseteq Stages
  /\ "idle" \in Stages /\ "gone" \in Stages /\ "exiting" \in Stages
  /\ "none" \in Outcomes /\ "primary" \in Outcomes /\ "refused" \in Outcomes
  /\ "focused" \in Outcomes /\ "notReady" \in Outcomes
  BY DEF Holding, Served, Starting, Stages, Acquired, Dropping, Outcomes

(* A connection is put behind those that wait. *)
LEMMA DialFacts ==
  ASSUME TypeOK, NEW p \in Launches, NEW s \in Stages, Dials(p, s)
  PROVE  /\ backlog' \in [Launches -> Seq(Connections)]
         /\ reply' \in [Launches -> {"none", "focused", "not-ready"}]
         /\ \A q \in Launches \ {p} : reply'[q] = reply[q]
         /\ reply'[p] = "none"
         /\ raised' = raised \ {p}
         /\ stage' \in [Launches -> Stages] /\ stage'[p] = s
         /\ \A q \in Launches \ {p} : stage'[q] = stage[q]
<1>1. <<p, attempt[p]>> \in Connections
  BY DEF TypeOK, Connections
<1>2. backlog' \in [Launches -> Seq(Connections)]
  <2>1. PICK q \in Launches :
          backlog' = [backlog EXCEPT ![q] = Append(@, <<p, attempt[p]>>)]
    BY DEF Dials, Connects
  <2>2. backlog \in [Launches -> Seq(Connections)]
    BY DEF TypeOK
  <2>3. Append(backlog[q], <<p, attempt[p]>>) \in Seq(Connections)
    BY <1>1, <2>2
  <2>. QED
    BY <2>1, <2>2, <2>3
<1>3. Moves(p, s) /\ raised' = raised \ {p} /\ reply' = [reply EXCEPT ![p] = "none"]
  BY DEF Dials
<1>4. /\ reply' \in [Launches -> {"none", "focused", "not-ready"}]
      /\ reply'[p] = "none" /\ \A q \in Launches \ {p} : reply'[q] = reply[q]
  BY <1>3 DEF TypeOK
<1>. QED
  BY <1>2, <1>3, <1>4, MoveFacts

(* The end of a round: another one, or the end of the start. *)
LEMMA RoundFacts ==
  ASSUME TypeOK, NEW p \in Launches, NextRound(p)
  PROVE  /\ attempt' \in [Launches -> 0 .. Probe]
         /\ outcome' \in [Launches -> Outcomes]
         /\ outcome'[p] \in {outcome[p], "notReady"}
         /\ \A q \in Launches \ {p} : outcome'[q] = outcome[q]
         /\ stage' \in [Launches -> Stages] /\ stage'[p] \in {"locking", "gone"}
         /\ \A q \in Launches \ {p} : stage'[q] = stage[q]
<1>. USE StageFacts
<1>1. CASE attempt[p] < Retries /\ attempt' = [attempt EXCEPT ![p] = @ + 1]
             /\ Moves(p, "locking") /\ UNCHANGED outcome
  <2>1. attempt' \in [Launches -> 0 .. Probe]
    BY <1>1 DEF TypeOK, Probe
  <2>. QED
    BY <1>1, <2>1, MoveFacts DEF TypeOK, Starting
<1>2. CASE attempt' = [attempt EXCEPT ![p] = 0] /\ Moves(p, "gone") /\ Becomes(p, "notReady")
  <2>1. attempt' \in [Launches -> 0 .. Probe]
    BY <1>2 DEF TypeOK, Probe
  <2>. QED
    BY <1>2, <2>1, MoveFacts, BecomeFacts
<1>. QED
  BY <1>1, <1>2 DEF NextRound

(* The end of a process gives its lock back and nothing else that lasts. *)
LEMMA EndFacts ==
  ASSUME TypeOK, NEW p \in Launches, Ends(p)
  PROVE  /\ stage' \in [Launches -> Stages] /\ stage'[p] = "gone"
         /\ \A q \in Launches \ {p} : stage'[q] = stage[q]
         /\ lock' \in [Settings -> Launches \cup {Nobody}]
         /\ \A s \in Settings : \A q \in Launches \ {p} : lock[s] = q => lock'[s] = q
         /\ backlog' \in [Launches -> Seq(Connections)]
         /\ owned' = owned \ {p} /\ window' \subseteq Launches
         /\ attempt' \in [Launches -> 0 .. Probe]
<1>1. Moves(p, "gone")
  BY DEF Ends
<1>2. lock' \in [Settings -> Launches \cup {Nobody}]
      /\ \A s \in Settings : \A q \in Launches \ {p} : lock[s] = q => lock'[s] = q
  BY DEF Ends, TypeOK
<1>3. backlog' \in [Launches -> Seq(Connections)]
  BY DEF Ends, TypeOK
<1>4. owned' = owned \ {p} /\ window' \subseteq Launches /\ attempt' \in [Launches -> 0 .. Probe]
  BY DEF Ends, TypeOK, Probe
<1>. QED
  BY <1>1, <1>2, <1>3, <1>4, MoveFacts, StageFacts

(* The pieces of the invariant. *)
LEMMA Assembled ==
  ASSUME TypeOK',
         HoldsLock' /\ MarkerIsTrue',
         SocketHasOwner' /\ LeftByFault' /\ PathStaysFree' /\ InUseByFault' /\ Reachable',
         AnswerWasRaised' /\ FocusedIsOver' /\ FocusedWasRaised'
  PROVE  InstanceInv'
  BY DEF InstanceInv

(* A run starts, or cannot. *)
LEMMA LaunchKeepsInv ==
  ASSUME InstanceInv, NEW p \in Launches, Launch(p)
  PROVE  InstanceInv'
<1>t. TypeOK
  BY DEF InstanceInv
<1>s. stage' \in [Launches -> Stages]
      /\ stage[p] = "idle" /\ stage'[p] \in {"locking", "gone"}
      /\ \A q \in Launches \ {p} : stage'[q] = stage[q]
  BY <1>t, MoveFacts, StageFacts DEF Launch, Starting
<1>f. faults' \in 0 .. MaxFaults /\ faults' >= faults
  BY <1>t, FaultFacts DEF Launch, TypeOK
<1>o. outcome' \in [Launches -> Outcomes]
      /\ outcome'[p] \in {outcome[p], "refused"}
      /\ \A q \in Launches \ {p} : outcome'[q] = outcome[q]
  BY <1>t, BecomeFacts, StageFacts DEF Launch, TypeOK
<1>c. UNCHANGED <<attempt, talk>>
  BY DEF Launch
<1>1. TypeOK'
  BY <1>t, <1>s, <1>f, <1>o, <1>c DEF TypeOK, Launch, files, talk
<1>2. HoldsLock' /\ MarkerIsTrue' /\ SocketHasOwner' /\ LeftByFault' /\ PathStaysFree'
     /\ InUseByFault' /\ Reachable'
  <2>1. UNCHANGED <<env, files, owned>>
    BY DEF Launch, files
  <2>2. faults' \in Nat
    BY <1>f
  <2>. QED
    BY <2>1, <2>2, <1>s, <1>f, FilesKept
      DEF Marked, Departed, Holding, Acquired, Served, Dropping, Starting
<1>3. AnswerWasRaised' /\ FocusedIsOver' /\ FocusedWasRaised'
  BY <1>s, <1>o, <1>c, AnswersKept
    DEF InstanceInv, AnswerWasRaised, FocusedIsOver, Launch, files, talk
<1>. QED
  BY <1>1, <1>2, <1>3, Assembled

(* The window is closed. *)
LEMMA CloseWindowKeepsInv ==
  ASSUME InstanceInv, NEW p \in Launches, CloseWindow(p)
  PROVE  InstanceInv'
<1>t. TypeOK
  BY DEF InstanceInv
<1>s. stage' \in [Launches -> Stages]
      /\ stage[p] \in {"open"} /\ stage'[p] = "ending"
      /\ \A q \in Launches \ {p} : stage'[q] = stage[q]
  BY <1>t, MoveFacts, StageFacts DEF CloseWindow, Served, Holding
<1>f. faults' \in 0 .. MaxFaults /\ faults' >= faults
  BY <1>t DEF CloseWindow, TypeOK
<1>o. outcome' \in [Launches -> Outcomes] /\ outcome' = outcome
  BY <1>t DEF CloseWindow, TypeOK
<1>c. UNCHANGED <<attempt, talk>>
  BY DEF CloseWindow
<1>1. TypeOK'
  BY <1>t, <1>s, <1>f, <1>o, <1>c DEF TypeOK, CloseWindow, files, talk
<1>2. HoldsLock' /\ MarkerIsTrue' /\ SocketHasOwner' /\ LeftByFault' /\ PathStaysFree'
     /\ InUseByFault' /\ Reachable'
  <2>1. UNCHANGED <<env, files, owned>>
    BY DEF CloseWindow, files
  <2>2. faults' \in Nat
    BY <1>f
  <2>. QED
    BY <2>1, <2>2, <1>s, <1>f, FilesKept
      DEF Marked, Departed, Holding, Acquired, Served, Dropping, Starting
<1>3. AnswerWasRaised' /\ FocusedIsOver' /\ FocusedWasRaised'
  BY <1>s, <1>o, <1>c, AnswersKept
    DEF InstanceInv, AnswerWasRaised, FocusedIsOver, CloseWindow, files, talk
<1>. QED
  BY <1>1, <1>2, <1>3, Assembled

(* The application ends orderly. *)
LEMMA QuitKeepsInv ==
  ASSUME InstanceInv, NEW p \in Launches, Quit(p)
  PROVE  InstanceInv'
<1>t. TypeOK
  BY DEF InstanceInv
<1>s. stage' \in [Launches -> Stages]
      /\ stage[p] \in {"open", "ending"} /\ stage'[p] = "closing"
      /\ \A q \in Launches \ {p} : stage'[q] = stage[q]
  BY <1>t, MoveFacts, StageFacts DEF Quit, Served, Holding
<1>f. faults' \in 0 .. MaxFaults /\ faults' >= faults
  BY <1>t DEF Quit, TypeOK
<1>o. outcome' \in [Launches -> Outcomes] /\ outcome' = outcome
  BY <1>t DEF Quit, TypeOK
<1>c. UNCHANGED <<attempt, talk>>
  BY DEF Quit
<1>1. TypeOK'
  BY <1>t, <1>s, <1>f, <1>o, <1>c DEF TypeOK, Quit, files, talk
<1>2. HoldsLock' /\ MarkerIsTrue' /\ SocketHasOwner' /\ LeftByFault' /\ PathStaysFree'
     /\ InUseByFault' /\ Reachable'
  <2>1. UNCHANGED <<env, files, owned>>
    BY DEF Quit, files
  <2>2. faults' \in Nat
    BY <1>f
  <2>. QED
    BY <2>1, <2>2, <1>s, <1>f, FilesKept
      DEF Marked, Departed, Holding, Acquired, Served, Dropping, Starting
<1>3. AnswerWasRaised' /\ FocusedIsOver' /\ FocusedWasRaised'
  BY <1>s, <1>o, <1>c, AnswersKept
    DEF InstanceInv, AnswerWasRaised, FocusedIsOver, Quit, files, talk
<1>. QED
  BY <1>1, <1>2, <1>3, Assembled

(* The window is created, or the setup fails. *)
LEMMA OpenKeepsInv ==
  ASSUME InstanceInv, NEW p \in Launches, Open(p)
  PROVE  InstanceInv'
<1>t. TypeOK
  BY DEF InstanceInv
<1>s. stage' \in [Launches -> Stages]
      /\ stage[p] = "setup" /\ stage'[p] \in {"open", "closing"}
      /\ \A q \in Launches \ {p} : stage'[q] = stage[q]
  BY <1>t, MoveFacts, StageFacts DEF Open, SetupFails, Served, Holding
<1>f. faults' \in 0 .. MaxFaults /\ faults' >= faults
  BY <1>t DEF Open, TypeOK
<1>o. outcome' \in [Launches -> Outcomes]
      /\ outcome'[p] \in {outcome[p], "refused"}
      /\ \A q \in Launches \ {p} : outcome'[q] = outcome[q]
  BY <1>t, BecomeFacts, StageFacts DEF Open, SetupFails, TypeOK
<1>c. UNCHANGED <<attempt, talk>>
  BY DEF Open
<1>1. TypeOK'
  BY <1>t, <1>s, <1>f, <1>o, <1>c DEF TypeOK, Open, files, talk
<1>2. HoldsLock' /\ MarkerIsTrue' /\ SocketHasOwner' /\ LeftByFault' /\ PathStaysFree'
     /\ InUseByFault' /\ Reachable'
  <2>1. UNCHANGED <<env, files, owned>>
    BY DEF Open, files
  <2>2. faults' \in Nat
    BY <1>f
  <2>. QED
    BY <2>1, <2>2, <1>s, <1>f, FilesKept
      DEF Marked, Departed, Holding, Acquired, Served, Dropping, Starting
<1>3. AnswerWasRaised' /\ FocusedIsOver' /\ FocusedWasRaised'
  BY <1>s, <1>o, <1>c, AnswersKept
    DEF InstanceInv, AnswerWasRaised, FocusedIsOver, Open, files, talk
<1>. QED
  BY <1>1, <1>2, <1>3, Assembled

(* The socket is asked for its owner's window. *)
LEMMA AskKeepsInv ==
  ASSUME InstanceInv, NEW p \in Launches, Ask(p)
  PROVE  InstanceInv'
<1>t. TypeOK
  BY DEF InstanceInv
<1>s. stage' \in [Launches -> Stages]
      /\ stage[p] = "asking" /\ stage'[p] \in {"awaiting", "locking", "gone"}
      /\ \A q \in Launches \ {p} : stage'[q] = stage[q]
  BY <1>t, DialFacts, RoundFacts, StageFacts DEF Ask, Starting
<1>f. faults' \in 0 .. MaxFaults /\ faults' >= faults
  BY <1>t DEF Ask, TypeOK
<1>o. outcome' \in [Launches -> Outcomes]
      /\ outcome'[p] \in {outcome[p], "notReady"}
      /\ \A q \in Launches \ {p} : outcome'[q] = outcome[q]
  BY <1>t, RoundFacts DEF Ask, TypeOK
<1>c. /\ attempt' \in [Launches -> 0 .. Probe]
      /\ backlog' \in [Launches -> Seq(Connections)]
      /\ reply' \in [Launches -> {"none", "focused", "not-ready"}]
      /\ raised' \subseteq Launches /\ raised \ {p} \subseteq raised'
      /\ reply'[p] = "focused" => p \in raised'
      /\ \A q \in Launches \ {p} : reply'[q] = reply[q]
  <2>1. CASE Dials(p, "awaiting") /\ UNCHANGED <<attempt, outcome>>
    BY <2>1, <1>t, DialFacts, StageFacts DEF TypeOK, Starting
  <2>2. CASE NextRound(p) /\ UNCHANGED talk
    BY <2>2, <1>t, RoundFacts DEF TypeOK, talk, InstanceInv, AnswerWasRaised
  <2>. QED
    BY <2>1, <2>2 DEF Ask
<1>1. TypeOK'
  BY <1>t, <1>s, <1>f, <1>o, <1>c DEF TypeOK, Ask, files, talk
<1>2. HoldsLock' /\ MarkerIsTrue' /\ SocketHasOwner' /\ LeftByFault' /\ PathStaysFree'
     /\ InUseByFault' /\ Reachable'
  <2>1. UNCHANGED <<env, files, owned>>
    BY DEF Ask, files
  <2>2. faults' \in Nat
    BY <1>f
  <2>. QED
    BY <2>1, <2>2, <1>s, <1>f, FilesKept
      DEF Marked, Departed, Holding, Acquired, Served, Dropping, Starting
<1>3. AnswerWasRaised' /\ FocusedIsOver' /\ FocusedWasRaised'
  BY <1>s, <1>o, <1>c, AnswersKept DEF InstanceInv, AnswerWasRaised, FocusedIsOver, Ask, files, talk
<1>. QED
  BY <1>1, <1>2, <1>3, Assembled

(* An answer, or the end of the wait. *)
LEMMA AnsweredKeepsInv ==
  ASSUME InstanceInv, NEW p \in Launches, Answered(p)
  PROVE  InstanceInv'
<1>t. TypeOK
  BY DEF InstanceInv
<1>s. stage' \in [Launches -> Stages]
      /\ stage[p] = "awaiting" /\ stage'[p] \in {"locking", "gone"}
      /\ \A q \in Launches \ {p} : stage'[q] = stage[q]
  BY <1>t, MoveFacts, RoundFacts, StageFacts DEF Answered
<1>o. /\ outcome' \in [Launches -> Outcomes]
      /\ attempt' \in [Launches -> 0 .. Probe]
      /\ \A q \in Launches \ {p} : outcome'[q] = outcome[q]
      /\ outcome'[p] = "focused" => stage'[p] = "gone" /\ p \in raised
  <2>1. CASE reply[p] = "focused" /\ attempt' = [attempt EXCEPT ![p] = 0]
               /\ Moves(p, "gone") /\ Becomes(p, "focused")
    <3>1. attempt' \in [Launches -> 0 .. Probe]
      BY <2>1, <1>t DEF TypeOK, Probe
    <3>. QED
      BY <3>1, <2>1, <1>t, MoveFacts, BecomeFacts, StageFacts DEF InstanceInv, AnswerWasRaised
  <2>2. CASE NextRound(p)
    BY <2>2, <1>t, <1>s, RoundFacts DEF InstanceInv, FocusedIsOver
  <2>. QED
    BY <2>1, <2>2 DEF Answered
<1>r. reply' \in [Launches -> {"none", "focused", "not-ready"}]
      /\ reply'[p] = "none" /\ \A q \in Launches \ {p} : reply'[q] = reply[q]
  BY <1>t DEF Answered, TypeOK
<1>1. TypeOK'
  BY <1>t, <1>s, <1>o, <1>r DEF TypeOK, Answered, files, talk
<1>2. HoldsLock' /\ MarkerIsTrue' /\ SocketHasOwner' /\ LeftByFault' /\ PathStaysFree'
     /\ InUseByFault' /\ Reachable'
  <2>1. UNCHANGED <<env, files, owned, faults>> /\ faults \in Nat
    BY <1>t DEF Answered, files, TypeOK
  <2>. QED
    BY <2>1, <1>s, FilesKept DEF Marked, Departed, Holding, Acquired, Served, Dropping, Starting
<1>3. AnswerWasRaised' /\ FocusedIsOver' /\ FocusedWasRaised'
  <2>1. raised' = raised
    BY DEF Answered
  <2>. QED
    BY <2>1, <1>s, <1>o, <1>r, AnswersKept
<1>. QED
  BY <1>1, <1>2, <1>3, Assembled

(* Somebody listens at the holder's own path. *)
LEMMA EndpointInUseKeepsInv ==
  ASSUME InstanceInv, NEW p \in Launches, EndpointInUse(p)
  PROVE  InstanceInv'
<1>t. TypeOK
  BY DEF InstanceInv
<1>s. stage' \in [Launches -> Stages]
      /\ stage[p] = "checking" /\ stage'[p] = "closing"
      /\ \A q \in Launches \ {p} : stage'[q] = stage[q]
  BY <1>t, MoveFacts, StageFacts DEF EndpointInUse, SetupFails, Holding
<1>f. faults' \in 0 .. MaxFaults /\ faults' >= faults
  BY <1>t DEF EndpointInUse, TypeOK
<1>o. outcome' \in [Launches -> Outcomes]
      /\ outcome'[p] = "refused"
      /\ \A q \in Launches \ {p} : outcome'[q] = outcome[q]
  BY <1>t, BecomeFacts, StageFacts DEF EndpointInUse, SetupFails
<1>c. /\ attempt' \in [Launches -> 0 .. Probe]
      /\ backlog' \in [Launches -> Seq(Connections)]
      /\ reply' \in [Launches -> {"none", "focused", "not-ready"}]
      /\ raised' \subseteq Launches /\ raised \ {p} \subseteq raised'
      /\ reply'[p] = "focused" => p \in raised'
      /\ \A q \in Launches \ {p} : reply'[q] = reply[q]
  BY <1>t DEF EndpointInUse, TypeOK
<1>1. TypeOK'
  BY <1>t, <1>s, <1>f, <1>o, <1>c DEF TypeOK, EndpointInUse, files, talk
<1>2. HoldsLock' /\ MarkerIsTrue' /\ SocketHasOwner' /\ LeftByFault' /\ PathStaysFree'
     /\ InUseByFault' /\ Reachable'
  <2>1. UNCHANGED <<env, files, owned>>
    BY DEF EndpointInUse, files
  <2>2. faults' \in Nat
    BY <1>f
  <2>. QED
    BY <2>1, <2>2, <1>s, <1>f, FilesKept
      DEF Marked, Departed, Holding, Acquired, Served, Dropping, Starting
<1>3. AnswerWasRaised' /\ FocusedIsOver' /\ FocusedWasRaised'
  BY <1>s, <1>o, <1>c, AnswersKept
    DEF InstanceInv, AnswerWasRaised, FocusedIsOver, EndpointInUse, files, talk
<1>. QED
  BY <1>1, <1>2, <1>3, Assembled

(* The holder looks at its socket: who listens there could not remove it. *)
LEMMA CheckSocketKeepsInv ==
  ASSUME InstanceInv, NEW p \in Launches, CheckSocket(p)
  PROVE  InstanceInv'
<1>t. TypeOK
  BY DEF InstanceInv
<1>s. stage' \in [Launches -> Stages]
      /\ stage[p] = "probing" /\ stage'[p] \in {"checking", "binding", "removing", "closing"}
      /\ \A q \in Launches \ {p} : stage'[q] = stage[q]
  BY <1>t, DialFacts, MoveFacts, StageFacts DEF CheckSocket, SetupFails, Holding, Acquired
<1>o. outcome' \in [Launches -> Outcomes]
      /\ outcome'[p] \in {outcome[p], "refused"}
      /\ \A q \in Launches \ {p} : outcome'[q] = outcome[q]
  BY <1>t, BecomeFacts, StageFacts DEF CheckSocket, SetupFails, TypeOK
<1>c. /\ backlog' \in [Launches -> Seq(Connections)]
      /\ reply' \in [Launches -> {"none", "focused", "not-ready"}]
      /\ raised' \subseteq Launches /\ raised \ {p} \subseteq raised'
      /\ reply'[p] = "focused" => p \in raised'
      /\ \A q \in Launches \ {p} : reply'[q] = reply[q]
  <2>1. CASE Dials(p, "checking")
    BY <2>1, <1>t, DialFacts, StageFacts DEF TypeOK, Holding, Acquired
  <2>2. CASE UNCHANGED talk
    BY <2>2, <1>t DEF TypeOK, talk, InstanceInv, AnswerWasRaised
  <2>. QED
    BY <2>1, <2>2 DEF CheckSocket
<1>l. stage'[p] = "checking" => faults > 0
  <2>. SUFFICES ASSUME stage'[p] = "checking" PROVE faults > 0
    OBVIOUS
  <2>1. Dials(p, "checking")
    BY <1>t, MoveFacts, StageFacts DEF CheckSocket, SetupFails, Holding, Acquired
  <2>2. PICK q \in Launches : socket[MySocket(p)] = q /\ Listening(q)
    BY <2>1 DEF Dials, Connects
  <2>3. MySocket(q) = MySocket(p) /\ MySettings(q) = MySettings(p)
    BY <2>2, <1>t, PathsAreKnown, PathNamesSettings DEF InstanceInv, SocketHasOwner
  <2>4. stage[q] \notin Holding
    BY <2>2, <2>3, <1>s, OneHolder DEF Holding, Acquired, Listening, Served, Dropping
  <2>5. stage[q] = "exiting"
    BY <2>2, <2>4 DEF Listening, Holding, Dropping
  <2>. QED
    BY <2>2, <2>3, <2>5 DEF InstanceInv, LeftByFault
<1>p. stage'[p] = "binding" => socket[MySocket(p)] = "none"
  BY <1>t, MoveFacts, DialFacts, StageFacts DEF CheckSocket, SetupFails, Holding, Acquired
<1>1. TypeOK'
  BY <1>t, <1>s, <1>o, <1>c DEF TypeOK, CheckSocket, files, talk
<1>2. HoldsLock' /\ MarkerIsTrue' /\ SocketHasOwner' /\ LeftByFault' /\ PathStaysFree'
     /\ InUseByFault' /\ Reachable'
  <2>1. UNCHANGED <<env, files, owned, faults>> /\ faults \in Nat
    BY <1>t DEF CheckSocket, files, TypeOK
  <2>. QED
    BY <2>1, <1>s, <1>l, <1>p, FilesKept
      DEF Marked, Departed, Holding, Acquired, Served, Dropping, Starting
<1>3. AnswerWasRaised' /\ FocusedIsOver' /\ FocusedWasRaised'
  BY <1>s, <1>o, <1>c, AnswersKept DEF InstanceInv, FocusedIsOver
<1>. QED
  BY <1>1, <1>2, <1>3, Assembled

(* The lock is free, or held. *)
LEMMA TryLockKeepsInv ==
  ASSUME InstanceInv, NEW p \in Launches, TryLock(p)
  PROVE  InstanceInv'
<1>t. TypeOK
  BY DEF InstanceInv
<1>0. \A q \in Launches : MySettings(q)' = MySettings(q) /\ MySocket(q)' = MySocket(q)
  BY PathsAreFixed DEF TryLock
<1>s. /\ stage' \in [Launches -> Stages]
      /\ stage[p] = "locking" /\ stage'[p] \in {"marking", "asking"}
      /\ stage'[p] = "marking" => lock[MySettings(p)] = Nobody /\ lock'[MySettings(p)] = p
      /\ \A q \in Launches \ {p} : stage'[q] = stage[q]
  BY <1>t, MoveFacts, StageFacts, PathsAreKnown DEF TryLock, TypeOK, Starting, Holding, Acquired
<1>k. /\ lock' \in [Settings -> Launches \cup {Nobody}]
      /\ \A q \in Launches : \A s \in Settings : lock[s] = q => lock'[s] = q
  BY <1>t, PathsAreKnown DEF TryLock, TypeOK
<1>1. TypeOK'
  BY <1>t, <1>s, <1>k DEF TypeOK, TryLock, talk
<1>2. HoldsLock' /\ MarkerIsTrue'
  BY <1>t, <1>0, <1>s, <1>k, PathsAreKnown
    DEF InstanceInv, HoldsLock, MarkerIsTrue, TryLock, Holding, Acquired, Served, Dropping
<1>3. SocketHasOwner' /\ LeftByFault' /\ PathStaysFree' /\ InUseByFault' /\ Reachable'
  BY <1>t, <1>0, <1>s
    DEF InstanceInv, SocketHasOwner, LeftByFault, PathStaysFree, InUseByFault, Reachable, TryLock,
      Served, Dropping
<1>4. AnswerWasRaised' /\ FocusedIsOver' /\ FocusedWasRaised'
  BY <1>s, AnswersKept DEF InstanceInv, AnswerWasRaised, FocusedIsOver, TryLock, talk
<1>. QED
  BY <1>1, <1>2, <1>3, <1>4, Assembled

(* The holder writes the marker, or ends. *)
LEMMA MarkKeepsInv ==
  ASSUME InstanceInv, NEW p \in Launches, Mark(p)
  PROVE  InstanceInv'
<1>t. TypeOK
  BY DEF InstanceInv
<1>0. \A q \in Launches : MySettings(q)' = MySettings(q) /\ MySocket(q)' = MySocket(q)
  BY PathsAreFixed DEF Mark
<1>s. /\ stage' \in [Launches -> Stages]
      /\ stage[p] = "marking" /\ stage'[p] \in {"probing", "gone"}
      /\ \A q \in Launches \ {p} : stage'[q] = stage[q]
  BY <1>t, MoveFacts, EndFacts, StageFacts DEF Mark, Holding, Acquired
<1>o. /\ outcome' \in [Launches -> Outcomes]
      /\ outcome'[p] \in {"primary", "refused"}
      /\ \A q \in Launches \ {p} : outcome'[q] = outcome[q]
  BY <1>t, BecomeFacts, StageFacts DEF Mark
<1>k. /\ lock' \in [Settings -> Launches \cup {Nobody}]
      /\ \A q \in Launches \ {p} : \A s \in Settings : lock[s] = q => lock'[s] = q
      /\ stage'[p] = "probing" => lock' = lock
  BY <1>t, MoveFacts, EndFacts, StageFacts DEF Mark, TypeOK
<1>w. /\ owner' \in [Settings -> Launches \cup {Nobody}]
      /\ \A q \in Launches : MySettings(q) = MySettings(p) \/ owner'[MySettings(q)] = owner[MySettings(q)]
      /\ stage'[p] = "probing" => owner'[MySettings(p)] = p
  <2>1. CASE owner' = [owner EXCEPT ![MySettings(p)] = p] /\ Moves(p, "probing")
    BY <2>1, <1>t, PathsAreKnown DEF TypeOK
  <2>2. CASE Ends(p) /\ UNCHANGED owner
    <3>1. stage'[p] = "gone"
      BY <2>2, <1>t, EndFacts
    <3>. QED
      BY <2>2, <3>1, <1>t DEF TypeOK
  <2>. QED
    BY <2>1, <2>2 DEF Mark
<1>c. /\ faults' \in 0 .. MaxFaults /\ faults' >= faults
      /\ attempt' \in [Launches -> 0 .. Probe]
      /\ backlog' \in [Launches -> Seq(Connections)]
      /\ owned' \subseteq Launches /\ owned \ {p} \subseteq owned' /\ window' \subseteq Launches
      /\ UNCHANGED <<env, socket, reply, raised>>
  <2>1. CASE stage'[p] = "gone"
    <3>1. Ends(p)
      BY <2>1, <1>t, MoveFacts, StageFacts DEF Mark, Holding, Acquired
    <3>2. faults' \in 0 .. MaxFaults /\ faults' >= faults
      BY <1>t, FaultFacts DEF Mark, TypeOK
    <3>3. UNCHANGED <<env, socket, reply, raised>>
      BY DEF Mark
    <3>4. owned' \subseteq Launches
      BY <3>1, <1>t, EndFacts DEF TypeOK
    <3>. QED
      BY <3>1, <3>2, <3>3, <3>4, <1>t, EndFacts
  <2>2. CASE stage'[p] = "probing"
    <3>1. attempt' = [attempt EXCEPT ![p] = Probe] /\ UNCHANGED <<backlog, owned, window, faults>>
      BY <2>2, <1>t, EndFacts DEF Mark
    <3>. QED
      BY <3>1, <1>t DEF Mark, TypeOK, Probe
  <2>. QED
    BY <2>1, <2>2, <1>s
<1>1. TypeOK'
  BY <1>t, <1>s, <1>o, <1>k, <1>w, <1>c DEF TypeOK
<1>2. HoldsLock' /\ MarkerIsTrue'
  <2>1. HoldsLock'
    BY <1>t, <1>0, <1>s, <1>k, PathsAreKnown
      DEF InstanceInv, HoldsLock, Holding, Acquired, Served, Dropping
  <2>2. ASSUME NEW q \in Launches, stage'[q] \in Marked
        PROVE  lock'[MySettings(q)] = q /\ owner'[MySettings(q)] = q
    <3>1. CASE q = p
      BY <3>1, <2>2, <1>s, <1>k, <1>w DEF InstanceInv, HoldsLock, Holding, Acquired, Marked, Served
    <3>2. CASE q # p
      <4>1. stage[q] \in Holding /\ stage[p] \in Holding
        BY <3>2, <2>2, <1>s DEF Marked, Holding, Acquired
      <4>2. MySettings(q) # MySettings(p)
        BY <3>2, <4>1, OneHolder
      <4>. QED
        BY <3>2, <2>2, <4>2, <1>t, <1>s, <1>k, <1>w, PathsAreKnown
          DEF InstanceInv, MarkerIsTrue, Marked
    <3>. QED
      BY <3>1, <3>2
  <2>. QED
    BY <2>1, <2>2, <1>0 DEF MarkerIsTrue, Marked
<1>3. SocketHasOwner' /\ LeftByFault' /\ PathStaysFree' /\ InUseByFault' /\ Reachable'
  <2>1. SocketHasOwner'
    <3>1. \A q \in Launches : \A x \in Sockets : socket[x] = q => q # p
      BY <1>s DEF InstanceInv, SocketHasOwner, Served, Dropping
    <3>2. socket' = socket /\ \A q \in Launches \ {p} : q \in owned => q \in owned'
      BY <1>c
    <3>. QED
      BY <3>1, <3>2, <1>0, <1>s DEF InstanceInv, SocketHasOwner
  <2>2. LeftByFault'
    BY <1>t, <1>0, <1>s, <1>c DEF InstanceInv, TypeOK, LeftByFault
  <2>3. InUseByFault'
    BY <1>t, <1>s, <1>c DEF InstanceInv, TypeOK, InUseByFault
  <2>4. PathStaysFree' /\ Reachable'
    BY <1>0, <1>s, <1>c DEF InstanceInv, PathStaysFree, Reachable, Served
  <2>. QED
    BY <2>1, <2>2, <2>3, <2>4
<1>4. AnswerWasRaised' /\ FocusedIsOver' /\ FocusedWasRaised'
  BY <1>s, <1>o, <1>c, AnswersKept DEF InstanceInv, AnswerWasRaised
<1>. QED
  BY <1>1, <1>2, <1>3, <1>4, Assembled

(* The stale socket goes. *)
LEMMA RemoveStaleKeepsInv ==
  ASSUME InstanceInv, NEW p \in Launches, RemoveStale(p)
  PROVE  InstanceInv'
<1>t. TypeOK
  BY DEF InstanceInv
<1>0. \A q \in Launches : MySettings(q)' = MySettings(q) /\ MySocket(q)' = MySocket(q)
  BY PathsAreFixed DEF RemoveStale
<1>s. /\ stage' \in [Launches -> Stages]
      /\ stage[p] = "removing" /\ stage'[p] \in {"binding", "closing"}
      /\ \A q \in Launches \ {p} : stage'[q] = stage[q]
  BY <1>t, MoveFacts, StageFacts DEF RemoveStale, SetupFails, Holding, Acquired
<1>o. /\ outcome' \in [Launches -> Outcomes]
      /\ outcome'[p] \in {outcome[p], "refused"}
      /\ \A q \in Launches \ {p} : outcome'[q] = outcome[q]
  BY <1>t, BecomeFacts, StageFacts DEF RemoveStale, SetupFails, TypeOK
<1>x. /\ socket' \in [Sockets -> Launches \cup {"none", "left", "file", "foreign"}]
      /\ \A x \in Sockets : socket'[x] \in {socket[x], "none"}
      /\ \A x \in Sockets : x # MySocket(p) => socket'[x] = socket[x]
      /\ stage'[p] = "binding" => socket'[MySocket(p)] = "none"
  <2>1. CASE socket' = [socket EXCEPT ![MySocket(p)] = "none"] /\ Moves(p, "binding")
    BY <2>1, <1>t, PathsAreKnown DEF TypeOK
  <2>2. CASE SetupFails(p) /\ UNCHANGED socket
    <3>1. stage'[p] = "closing"
      BY <2>2, <1>t, MoveFacts, StageFacts DEF SetupFails, Holding
    <3>. QED
      BY <2>2, <3>1, <1>t DEF TypeOK
  <2>. QED
    BY <2>1, <2>2 DEF RemoveStale
<1>f. faults' \in 0 .. MaxFaults /\ faults' >= faults
  BY <1>t, FaultFacts DEF RemoveStale, TypeOK
<1>1. TypeOK'
  BY <1>t, <1>s, <1>o, <1>x, <1>f DEF TypeOK, RemoveStale, talk
<1>2. HoldsLock' /\ MarkerIsTrue'
  BY <1>0, <1>s
    DEF InstanceInv, HoldsLock, MarkerIsTrue, RemoveStale, Holding, Acquired, Served, Dropping
<1>3. SocketHasOwner' /\ LeftByFault' /\ PathStaysFree' /\ InUseByFault' /\ Reachable'
  <2>1. \A q \in Launches : stage[q] \in Holding /\ q # p => MySocket(q) # MySocket(p)
    BY <1>s, OneHolder, PathNamesSettings DEF Holding, Acquired
  <2>2. SocketHasOwner' /\ LeftByFault' /\ InUseByFault'
    <3>1. UNCHANGED owned /\ "none" \notin Launches
      BY DEF RemoveStale
    <3>2. SocketHasOwner'
      BY <3>1, <1>0, <1>s, <1>x DEF InstanceInv, SocketHasOwner, Served, Dropping
    <3>3. LeftByFault'
      BY <3>1, <1>t, <1>0, <1>s, <1>x, <1>f, PathsAreKnown DEF InstanceInv, TypeOK, LeftByFault
    <3>4. InUseByFault'
      BY <1>t, <1>s, <1>f DEF InstanceInv, TypeOK, InUseByFault
    <3>. QED
      BY <3>2, <3>3, <3>4
  <2>3. PathStaysFree' /\ Reachable'
    BY <2>1, <1>t, <1>0, <1>s, <1>x, PathsAreKnown
      DEF InstanceInv, PathStaysFree, Reachable, Holding, Acquired, Served
  <2>. QED
    BY <2>2, <2>3
<1>4. AnswerWasRaised' /\ FocusedIsOver' /\ FocusedWasRaised'
  BY <1>s, <1>o, AnswersKept DEF InstanceInv, AnswerWasRaised, FocusedIsOver, RemoveStale, talk
<1>. QED
  BY <1>1, <1>2, <1>3, <1>4, Assembled

(* The socket is bound, or the setup fails. *)
LEMMA BindKeepsInv ==
  ASSUME InstanceInv, NEW p \in Launches, Bind(p)
  PROVE  InstanceInv'
<1>t. TypeOK
  BY DEF InstanceInv
<1>0. \A q \in Launches : MySettings(q)' = MySettings(q) /\ MySocket(q)' = MySocket(q)
  BY PathsAreFixed DEF Bind
<1>s. /\ stage' \in [Launches -> Stages]
      /\ stage[p] = "binding" /\ stage'[p] \in {"setup", "closing"}
      /\ \A q \in Launches \ {p} : stage'[q] = stage[q]
  BY <1>t, MoveFacts, StageFacts DEF Bind, SetupFails, Holding, Acquired, Served
<1>o. /\ outcome' \in [Launches -> Outcomes]
      /\ outcome'[p] \in {outcome[p], "refused"}
      /\ \A q \in Launches \ {p} : outcome'[q] = outcome[q]
  BY <1>t, BecomeFacts, StageFacts DEF Bind, SetupFails, TypeOK
<1>x. /\ socket' \in [Sockets -> Launches \cup {"none", "left", "file", "foreign"}]
      /\ \A x \in Sockets : x # MySocket(p) => socket'[x] = socket[x]
      /\ owned \subseteq owned' /\ owned' \subseteq Launches
      /\ stage'[p] = "setup" => socket'[MySocket(p)] = p /\ p \in owned'
      /\ stage'[p] = "closing" => socket' = socket
  <2>1. CASE socket' = [socket EXCEPT ![MySocket(p)] = p] /\ owned' = owned \cup {p} /\ Moves(p,
       "setup")
    BY <2>1, <1>t, MoveFacts, StageFacts, PathsAreKnown DEF TypeOK, Served
  <2>2. CASE SetupFails(p) /\ UNCHANGED <<socket, owned>>
    BY <2>2, <1>t, MoveFacts, StageFacts DEF TypeOK, SetupFails, Holding
  <2>. QED
    BY <2>1, <2>2 DEF Bind
<1>f. faults' \in 0 .. MaxFaults /\ faults' >= faults
  BY <1>t, FaultFacts DEF Bind, TypeOK
<1>1. TypeOK'
  BY <1>t, <1>s, <1>o, <1>x, <1>f DEF TypeOK, Bind, talk
<1>2. HoldsLock' /\ MarkerIsTrue'
  BY <1>0, <1>s DEF InstanceInv, HoldsLock, MarkerIsTrue, Bind, Holding, Acquired, Served, Dropping
<1>3. SocketHasOwner' /\ LeftByFault' /\ PathStaysFree' /\ InUseByFault' /\ Reachable'
  <2>1. \A q \in Launches : stage[q] \in Holding /\ q # p => MySocket(q) # MySocket(p)
    BY <1>s, OneHolder, PathNamesSettings DEF Holding, Acquired
  <2>2. \A x \in Sockets : \A q \in Launches : socket'[x] = q => socket[x] = q \/ (q = p
       /\ x = MySocket(p) /\ stage'[p] = "setup" /\ p \in owned')
    BY <1>t, <1>s, <1>x, PathsAreKnown DEF TypeOK, InstanceInv, PathStaysFree
  <2>3. SocketHasOwner'
    BY <2>2, <1>t, <1>0, <1>s, <1>x DEF InstanceInv, SocketHasOwner, Served, Dropping
  <2>4. LeftByFault' /\ InUseByFault'
    <3>1. SUFFICES ASSUME NEW q \in Launches, stage'[q] \in {"unmarking", "unlocking", "exiting"},
                          socket'[MySocket(q)] = q
                   PROVE  faults' > 0 /\ InUseByFault'
      BY <1>0, <1>t, <1>s, <1>f DEF InstanceInv, TypeOK, LeftByFault, InUseByFault
    <3>2. q # p /\ stage'[q] = stage[q] /\ socket[MySocket(q)] = q
      BY <3>1, <2>2, <1>t, <1>s, PathsAreKnown
    <3>3. faults > 0 /\ faults \in Nat
      BY <3>1, <3>2, <1>t DEF InstanceInv, TypeOK, LeftByFault
    <3>. QED
      BY <3>3, <1>t, <1>s, <1>f DEF InstanceInv, TypeOK, InUseByFault
  <2>5. PathStaysFree' /\ Reachable'
    BY <2>1, <1>t, <1>0, <1>s, <1>x, PathsAreKnown
      DEF InstanceInv, PathStaysFree, Reachable, Holding, Acquired, Served
  <2>. QED
    BY <2>3, <2>4, <2>5
<1>4. AnswerWasRaised' /\ FocusedIsOver' /\ FocusedWasRaised'
  BY <1>s, <1>o, AnswersKept DEF InstanceInv, AnswerWasRaised, FocusedIsOver, Bind, talk
<1>. QED
  BY <1>1, <1>2, <1>3, <1>4, Assembled

(* The destructor removes the socket, if it can. *)
LEMMA DropSocketKeepsInv ==
  ASSUME InstanceInv, NEW p \in Launches, DropSocket(p)
  PROVE  InstanceInv'
<1>t. TypeOK
  BY DEF InstanceInv
<1>0. \A q \in Launches : MySettings(q)' = MySettings(q) /\ MySocket(q)' = MySocket(q)
  BY PathsAreFixed DEF DropSocket
<1>s. /\ stage' \in [Launches -> Stages]
      /\ stage[p] = "closing" /\ stage'[p] = "unmarking"
      /\ \A q \in Launches \ {p} : stage'[q] = stage[q]
  BY <1>t, MoveFacts, StageFacts DEF DropSocket, Holding
<1>x. /\ socket' \in [Sockets -> Launches \cup {"none", "left", "file", "foreign"}]
      /\ \A x \in Sockets : socket'[x] \in {socket[x], "none"}
      /\ \A x \in Sockets : x # MySocket(p) => socket'[x] = socket[x]
  BY <1>t, PathsAreKnown DEF DropSocket, TypeOK
<1>f. /\ faults' \in 0 .. MaxFaults /\ faults' >= faults
      /\ p \in owned => socket'[MySocket(p)] = "none" \/ faults' > 0
  BY <1>t, FaultFacts, PathsAreKnown DEF DropSocket, TypeOK
<1>1. TypeOK'
  BY <1>t, <1>s, <1>x, <1>f DEF TypeOK, DropSocket, talk
<1>2. HoldsLock' /\ MarkerIsTrue'
  BY <1>0, <1>s
    DEF InstanceInv, HoldsLock, MarkerIsTrue, DropSocket, Holding, Acquired, Served, Dropping
<1>3. SocketHasOwner' /\ LeftByFault' /\ PathStaysFree' /\ InUseByFault' /\ Reachable'
  <2>1. \A q \in Launches : stage[q] \in Holding /\ q # p => MySocket(q) # MySocket(p)
    BY <1>s, OneHolder, PathNamesSettings DEF Holding
  <2>2. SocketHasOwner' /\ InUseByFault'
    BY <1>t, <1>0, <1>s, <1>x, <1>f, PathsAreKnown
      DEF InstanceInv, TypeOK, SocketHasOwner, InUseByFault, DropSocket, Served, Dropping
  <2>3. LeftByFault'
    BY <1>t, <1>0, <1>s, <1>x, <1>f, PathsAreKnown
      DEF InstanceInv, TypeOK, SocketHasOwner, LeftByFault
  <2>4. PathStaysFree' /\ Reachable'
    BY <2>1, <1>t, <1>0, <1>s, <1>x, PathsAreKnown
      DEF InstanceInv, PathStaysFree, Reachable, Holding, Acquired, Served
  <2>. QED
    BY <2>2, <2>3, <2>4
<1>4. AnswerWasRaised' /\ FocusedIsOver' /\ FocusedWasRaised'
  BY <1>s, AnswersKept DEF InstanceInv, AnswerWasRaised, FocusedIsOver, DropSocket, talk
<1>. QED
  BY <1>1, <1>2, <1>3, <1>4, Assembled

(* The marker goes when it is this run's. *)
LEMMA DropMarkerKeepsInv ==
  ASSUME InstanceInv, NEW p \in Launches, DropMarker(p)
  PROVE  InstanceInv'
<1>t. TypeOK
  BY DEF InstanceInv
<1>0. \A q \in Launches : MySettings(q)' = MySettings(q) /\ MySocket(q)' = MySocket(q)
  BY PathsAreFixed DEF DropMarker
<1>s. /\ stage' \in [Launches -> Stages]
      /\ stage[p] = "unmarking" /\ stage'[p] = "unlocking"
      /\ \A q \in Launches \ {p} : stage'[q] = stage[q]
  BY <1>t, MoveFacts, StageFacts DEF DropMarker, Holding
<1>w. /\ owner' \in [Settings -> Launches \cup {Nobody}]
      /\ \A q \in Launches \ {p} : \A s \in Settings : owner[s] = q => owner'[s] = q
  BY <1>t, PathsAreKnown DEF DropMarker, TypeOK
<1>f. faults' \in 0 .. MaxFaults /\ faults' >= faults
  BY <1>t, FaultFacts DEF DropMarker, TypeOK
<1>1. TypeOK'
  BY <1>t, <1>s, <1>w, <1>f DEF TypeOK, DropMarker, talk
<1>2. HoldsLock' /\ MarkerIsTrue'
  BY <1>t, <1>0, <1>s, <1>w, PathsAreKnown
    DEF InstanceInv, HoldsLock, MarkerIsTrue, DropMarker, Holding, Acquired, Served, Dropping
<1>3. SocketHasOwner' /\ LeftByFault' /\ PathStaysFree' /\ InUseByFault' /\ Reachable'
  BY <1>t, <1>0, <1>s, <1>f
    DEF InstanceInv, TypeOK, SocketHasOwner, LeftByFault, PathStaysFree, InUseByFault, Reachable,
      DropMarker, Served, Dropping
<1>4. AnswerWasRaised' /\ FocusedIsOver' /\ FocusedWasRaised'
  BY <1>s, AnswersKept DEF InstanceInv, AnswerWasRaised, FocusedIsOver, DropMarker, talk
<1>. QED
  BY <1>1, <1>2, <1>3, <1>4, Assembled

(* The lock is given back. *)
LEMMA DropLockKeepsInv ==
  ASSUME InstanceInv, NEW p \in Launches, DropLock(p)
  PROVE  InstanceInv'
<1>t. TypeOK
  BY DEF InstanceInv
<1>0. \A q \in Launches : MySettings(q)' = MySettings(q) /\ MySocket(q)' = MySocket(q)
  BY PathsAreFixed DEF DropLock
<1>s. /\ stage' \in [Launches -> Stages]
      /\ stage[p] = "unlocking" /\ stage'[p] = "exiting"
      /\ \A q \in Launches \ {p} : stage'[q] = stage[q]
  BY <1>t, MoveFacts, StageFacts DEF DropLock
<1>k. /\ lock' \in [Settings -> Launches \cup {Nobody}]
      /\ \A q \in Launches \ {p} : \A s \in Settings : lock[s] = q => lock'[s] = q
  BY <1>t, PathsAreKnown DEF DropLock, TypeOK
<1>1. TypeOK'
  BY <1>t, <1>s, <1>k DEF TypeOK, DropLock, talk
<1>2. HoldsLock' /\ MarkerIsTrue'
  BY <1>t, <1>0, <1>s, <1>k, PathsAreKnown
    DEF InstanceInv, HoldsLock, MarkerIsTrue, DropLock, Holding, Acquired, Served, Dropping
<1>3. SocketHasOwner' /\ LeftByFault' /\ PathStaysFree' /\ InUseByFault' /\ Reachable'
  <2>1. UNCHANGED <<socket, owned, faults>>
    BY DEF DropLock
  <2>2. SocketHasOwner'
    BY <2>1, <1>0, <1>s DEF InstanceInv, SocketHasOwner, Served, Dropping
  <2>3. LeftByFault'
    BY <2>1, <1>0, <1>s DEF InstanceInv, LeftByFault
  <2>4. PathStaysFree' /\ InUseByFault' /\ Reachable'
    BY <2>1, <1>0, <1>s DEF InstanceInv, PathStaysFree, InUseByFault, Reachable, Served
  <2>. QED
    BY <2>2, <2>3, <2>4
<1>4. AnswerWasRaised' /\ FocusedIsOver' /\ FocusedWasRaised'
  BY <1>s, AnswersKept DEF InstanceInv, AnswerWasRaised, FocusedIsOver, DropLock, talk
<1>. QED
  BY <1>1, <1>2, <1>3, <1>4, Assembled

(* A connection is answered, and with it perhaps a start. *)
LEMMA AnswerKeepsInv ==
  ASSUME InstanceInv, NEW p \in Launches, Answer(p)
  PROVE  InstanceInv'
<1>t. TypeOK
  BY DEF InstanceInv
<1>0. \A q \in Launches : MySettings(q)' = MySettings(q) /\ MySocket(q)' = MySocket(q)
  BY PathsAreFixed DEF Answer, files
<1>r. /\ reply' \in [Launches -> {"none", "focused", "not-ready"}]
      /\ raised \subseteq raised' /\ raised' \subseteq Launches
      /\ \A q \in Launches : reply'[q] = "focused" => reply[q] = "focused" \/ q \in raised'
  <2>1. PICK c \in Connections, word \in {"focused", "not-ready"}, shown \in BOOLEAN :
          Replies(c, word, shown) /\ (word = "focused" => shown)
    <3>1. Head(backlog[p]) \in Connections
      BY <1>t DEF Answer, TypeOK
    <3>. QED
      BY <3>1 DEF Answer
  <2>2. c[1] \in Launches
    BY DEF Connections
  <2>. QED
    BY <2>1, <2>2, <1>t DEF Replies, TypeOK
<1>b. backlog' \in [Launches -> Seq(Connections)] /\ faults' \in 0 .. MaxFaults /\ faults' >= faults
  <2>1. backlog \in [Launches -> Seq(Connections)] /\ backlog[p] # <<>>
    BY <1>t DEF Answer, TypeOK
  <2>2. Tail(backlog[p]) \in Seq(Connections)
    BY <2>1
  <2>3. backlog' \in [Launches -> Seq(Connections)]
    BY <2>1, <2>2 DEF Answer
  <2>4. faults' \in 0 .. MaxFaults /\ faults' >= faults
    <3>1. AFault \/ UNCHANGED faults
      BY DEF Answer
    <3>. QED
      BY <3>1, <1>t, FaultFacts DEF TypeOK
  <2>. QED
    BY <2>3, <2>4
<1>1. TypeOK'
  BY <1>t, <1>r, <1>b DEF TypeOK, Answer, files
<1>2. HoldsLock' /\ MarkerIsTrue'
  BY <1>0 DEF InstanceInv, HoldsLock, MarkerIsTrue, Answer, files
<1>3. SocketHasOwner' /\ LeftByFault' /\ PathStaysFree' /\ InUseByFault' /\ Reachable'
  BY <1>t, <1>0, <1>b
    DEF InstanceInv, TypeOK, SocketHasOwner, LeftByFault, PathStaysFree, InUseByFault, Reachable,
      Answer, files
<1>4. AnswerWasRaised' /\ FocusedIsOver' /\ FocusedWasRaised'
  BY <1>r DEF InstanceInv, AnswerWasRaised, FocusedIsOver, FocusedWasRaised, Answer
<1>. QED
  BY <1>1, <1>2, <1>3, <1>4, Assembled

(* A process ends anywhere. *)
LEMMA VanishKeepsInv ==
  ASSUME InstanceInv, NEW p \in Launches, Vanish(p)
  PROVE  InstanceInv'
<1>t. TypeOK
  BY DEF InstanceInv
<1>0. \A q \in Launches : MySettings(q)' = MySettings(q) /\ MySocket(q)' = MySocket(q)
  BY PathsAreFixed DEF Vanish
<1>s. /\ stage' \in [Launches -> Stages]
      /\ stage[p] # "gone" /\ stage[p] # "idle" /\ stage'[p] = "gone"
      /\ \A q \in Launches \ {p} : stage'[q] = stage[q]
  BY <1>t, EndFacts DEF Vanish
<1>r. /\ reply' \in [Launches -> {"none", "focused", "not-ready"}]
      /\ reply'[p] = "none" /\ \A q \in Launches \ {p} : reply'[q] = reply[q]
      /\ raised' = raised \ {p}
  BY <1>t DEF Vanish, TypeOK
<1>1. TypeOK'
  BY <1>t, <1>s, <1>r, EndFacts DEF TypeOK, Vanish
<1>2. HoldsLock' /\ MarkerIsTrue'
  <2>1. \A s \in Settings : \A q \in Launches \ {p} : lock[s] = q => lock'[s] = q
    BY <1>t, EndFacts DEF Vanish
  <2>2. owner' = owner
    BY DEF Vanish
  <2>3. HoldsLock'
    BY <2>1, <1>t, <1>0, <1>s, PathsAreKnown DEF InstanceInv, HoldsLock, Holding, Acquired, Served
  <2>4. MarkerIsTrue'
    BY <2>1, <2>2, <1>t, <1>0, <1>s, PathsAreKnown DEF InstanceInv, MarkerIsTrue, Acquired, Served
  <2>. QED
    BY <2>3, <2>4
<1>3. SocketHasOwner' /\ LeftByFault' /\ PathStaysFree' /\ InUseByFault' /\ Reachable'
  <2>1. owned' = owned \ {p} /\ UNCHANGED <<socket, faults>>
    BY <1>t, EndFacts DEF Vanish
  <2>2. SocketHasOwner'
    BY <2>1, <1>t, <1>0, <1>s DEF InstanceInv, SocketHasOwner, TypeOK, Stages, Served, Dropping
  <2>. QED
    BY <2>1, <2>2, <1>t, <1>0, <1>s
      DEF InstanceInv, TypeOK, LeftByFault, PathStaysFree, InUseByFault, Reachable, Served
<1>4. AnswerWasRaised' /\ FocusedIsOver' /\ FocusedWasRaised'
  <2>1. outcome' = outcome
    BY DEF Vanish
  <2>. QED
    BY <2>1, <1>s, <1>r, AnswersKept DEF InstanceInv, FocusedIsOver
<1>. QED
  BY <1>1, <1>2, <1>3, <1>4, Assembled

-----------------------------------------------------------------------------
(* Every step keeps the invariant. *)
LEMMA StepKeepsInv == InstanceInv /\ [Next]_vars => InstanceInv'
<1>. SUFFICES ASSUME InstanceInv, [Next]_vars PROVE InstanceInv'
  OBVIOUS
<1>1. ASSUME NEW p \in Launches, Start(p) PROVE InstanceInv'
  BY <1>1, LaunchKeepsInv, TryLockKeepsInv, MarkKeepsInv, AskKeepsInv, AnsweredKeepsInv DEF Start
<1>2. ASSUME NEW p \in Launches, Setup(p) PROVE InstanceInv'
  BY <1>2, CheckSocketKeepsInv, EndpointInUseKeepsInv, RemoveStaleKeepsInv, BindKeepsInv,
    OpenKeepsInv DEF Setup
<1>3. ASSUME NEW p \in Launches, Leave(p) PROVE InstanceInv'
  BY <1>3, CloseWindowKeepsInv, QuitKeepsInv, DropSocketKeepsInv, DropMarkerKeepsInv,
    DropLockKeepsInv DEF Leave
<1>4. CASE UNCHANGED vars
  <2>1. \A q \in Launches : MySettings(q)' = MySettings(q) /\ MySocket(q)' = MySocket(q)
    BY <1>4, PathsAreFixed DEF vars
  <2>2. TypeOK'
    BY <1>4 DEF InstanceInv, TypeOK, vars
  <2>3. HoldsLock' /\ MarkerIsTrue'
    BY <2>1, <1>4 DEF InstanceInv, HoldsLock, MarkerIsTrue, vars
  <2>4. SocketHasOwner' /\ LeftByFault' /\ PathStaysFree' /\ InUseByFault' /\ Reachable'
    BY <2>1, <1>4
      DEF InstanceInv, SocketHasOwner, LeftByFault, PathStaysFree, InUseByFault, Reachable, vars
  <2>5. AnswerWasRaised' /\ FocusedIsOver' /\ FocusedWasRaised'
    BY <1>4 DEF InstanceInv, AnswerWasRaised, FocusedIsOver, FocusedWasRaised, vars
  <2>. QED
    BY <2>2, <2>3, <2>4, <2>5, Assembled
<1>. QED
  BY <1>1, <1>2, <1>3, <1>4, AnswerKeepsInv, VanishKeepsInv DEF Next

(* The invariant holds for any number of runs, situations and retries. *)
THEOREM InstanceInductive == Spec => []InstanceInv
  BY InitInv, StepKeepsInv, PTL DEF Spec

(* Every variable keeps its type; a start never counts past its last retry. *)
THEOREM InstanceTypeCorrect == Spec => []TypeOK
  BY InstanceInductive, PTL DEF InstanceInv

(* A primary keeps its socket: nobody binds or removes another's. *)
THEOREM PrimaryIsReachable == Spec => []Reachable
  BY InstanceInductive, PTL DEF InstanceInv

(* The marker names the holder of the lock as long as it lives. *)
THEOREM MarkerNamesHolder == Spec => []MarkerIsTrue
  BY InstanceInductive, PTL DEF InstanceInv

(* A start that ends as focused had a window raised for its last question. *)
THEOREM FocusIsReal == Spec => []FocusedWasRaised
  BY InstanceInductive, PTL DEF InstanceInv

(* A holder of the lock is refused its socket only for a file that is not ours
   or after a failing file operation. *)
LEMMA StepRefusesForCause ==
  ASSUME InstanceInv, [Next]_vars, NEW p \in Launches,
         stage[p] \in Acquired, stage'[p] = "closing"
  PROVE  faults' > 0 \/ socket[MySocket(p)] \in {"file", "foreign"}
<1>t. TypeOK
  BY DEF InstanceInv
<1>1. PICK q \in Launches : Start(q) \/ Setup(q) \/ Leave(q) \/ Answer(q) \/ Vanish(q)
  BY DEF Next, vars, Acquired
<1>2. q = p
  BY <1>1, <1>t, MoveFacts, EndFacts, RoundFacts, DialFacts, StageFacts
     DEF Start, Setup, Leave, Launch, TryLock, Mark, Ask, Answered, CheckSocket, EndpointInUse,
         RemoveStale, Bind, Open, CloseWindow, Quit, DropSocket, DropMarker, DropLock, Answer,
           Vanish,
         SetupFails, Acquired, Starting, Holding, Served, Dropping
<1>f. faults \in Nat
  BY <1>t DEF TypeOK
<1>3. CASE EndpointInUse(p)
  BY <1>3, <1>f DEF EndpointInUse, InstanceInv, InUseByFault
<1>4. CASE CheckSocket(p)
  BY <1>4, <1>t, MoveFacts, DialFacts, StageFacts DEF CheckSocket, Holding, Acquired
<1>5. CASE RemoveStale(p)
  BY <1>5, <1>t, MoveFacts, FaultFacts, StageFacts DEF RemoveStale, Holding, Acquired
<1>6. CASE Bind(p)
  <2>1. socket[MySocket(p)] = "none"
    BY <1>6 DEF Bind, InstanceInv, PathStaysFree
  <2>. QED
    BY <2>1, <1>6, <1>t, MoveFacts, FaultFacts, StageFacts DEF Bind, Holding, Served
<1>7. CASE Start(p)
  BY <1>7, <1>t, MoveFacts, EndFacts, RoundFacts, DialFacts, StageFacts
     DEF Start, Launch, TryLock, Mark, Ask, Answered, Acquired, Starting, Holding
<1>8. CASE Open(p) \/ Leave(p) \/ Answer(p) \/ Vanish(p)
  BY <1>8, <1>t, EndFacts
    DEF Open, Leave, CloseWindow, Quit, DropSocket, DropMarker, DropLock, Answer, Vanish, Acquired
<1>. QED
  BY <1>1, <1>2, <1>3, <1>4, <1>5, <1>6, <1>7, <1>8 DEF Setup

(* Nothing a crash or an earlier run left behind refuses a start its socket. *)
THEOREM LeftoversNeverRefuse == Spec => RefusedForCause
<1>1. InstanceInv /\ [Next]_vars => [RefusalHasCause]_vars
  BY StepRefusesForCause DEF RefusalHasCause
<1>. QED
  BY <1>1, InstanceInductive, PTL DEF Spec, RefusedForCause
=============================================================================
