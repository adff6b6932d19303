------------------------- MODULE CloseBridge_proofs -------------------------
(* Proofs about the close bridge, for any number of requests, page mounts    *)
(* and editors, with timeouts, losses and restarts of the sidecar: the       *)
(* coordinator and its waiters agree on what is pending, and the bridge       *)
(* implements CloseProtocol.                                                *)
EXTENDS CloseBridge, TLAPS

USE BoundsAssumption DEF Requests

\* What the waiters and the channels look like before a request begins, and
\* that no answer is there before its question.
Fresh == \A r \in Requests :
           /\ r > asked => waiter[r] = "none"
           /\ waiter[r] = "none" => channel[r] = "none" /\ pending.gen # r

\* The part of the type invariant that the coordinator's steps rely on.
ShellType ==
  /\ pending \in [gen : 0 .. MaxRequests, dispatched : BOOLEAN, fallback : BOOLEAN]
  /\ asked \in 0 .. MaxRequests
  /\ channel \in [Requests -> Decisions \cup {"none", "gone"}]
  /\ waiter \in [Requests -> {"none", "waiting", "decided", "finalizing", "done"}]
  /\ decision \in [Requests -> Decisions]
  /\ closed \in BOOLEAN
  /\ navs \in Seq(Messages)
  /\ page \in 0 .. MaxPages /\ mounts \in 0 .. MaxPages
  /\ moved \in BOOLEAN

IInv == ShellType /\ WaiterHoldsRequest /\ Fresh

-----------------------------------------------------------------------------
(* Lemmas about the operators of CloseCoordinator.                          *)

LEMMA MessageTypes ==
  ASSUME ShellType
  PROVE  /\ \A g \in 0 .. MaxPages : Ready(g) \in Messages /\ NotReady(g) \in Messages
         /\ \A d \in Decisions : Decision(d) \in Messages
         /\ Load \in Messages /\ [Load EXCEPT !.foreign = TRUE] \in Messages
<1>1. ASSUME NEW g \in 0 .. MaxPages PROVE Ready(g) \in Messages /\ NotReady(g) \in Messages
  BY DEF ShellType, Ready, NotReady, Messages, Decisions
<1>2. ASSUME NEW d \in Decisions PROVE Decision(d) \in Messages
  BY BoundsAssumption DEF ShellType, Decision, Messages
<1>3. Load \in Messages
  BY BoundsAssumption DEF ShellType, Load, Messages, Decisions
<1>4. [Load EXCEPT !.foreign = TRUE] \in Messages
  BY <1>3 DEF Messages
<1> QED BY <1>1, <1>2, <1>3, <1>4

LEMMA SendFacts ==
  ASSUME navs \in Seq(Messages), NEW m \in Messages, Send(m)
  PROVE  navs' \in Seq(Messages)
BY DEF Send

LEMMA DecisionFacts ==
  ASSUME ShellType, NEW d \in {"save", "discard", "clean", "cancel"}, Send(Decision(d))
  PROVE  navs' \in Seq(Messages)
BY MessageTypes, SendFacts DEF ShellType, Decisions

LEMMA NoRequestType ==
  NoRequest \in [gen : 0 .. MaxRequests, dispatched : BOOLEAN, fallback : BOOLEAN] /\ NoRequest.gen = 0
BY DEF NoRequest

LEMMA SameRequest ==
  ASSUME ShellType, pending' = Undispatched(pending)
                    \/ pending' = [pending EXCEPT !.dispatched = TRUE, !.fallback = FALSE]
  PROVE  pending'.gen = pending.gen
         /\ pending' \in [gen : 0 .. MaxRequests, dispatched : BOOLEAN, fallback : BOOLEAN]
BY DEF ShellType, Undispatched

\* What a waiter can find in its channel: an answer, or nobody to send one.
Outcomes == Decisions \cup {"gone"}

\* An outcome goes to the channel of the pending request and to no other.
LEMMA ResolveFacts ==
  ASSUME IInv, NEW d \in Outcomes, Resolve(d)
  PROVE  /\ pending'.gen = 0
         /\ pending' \in [gen : 0 .. MaxRequests, dispatched : BOOLEAN, fallback : BOOLEAN]
         /\ channel' \in [Requests -> Decisions \cup {"none", "gone"}]
         /\ \A r \in Requests : channel'[r] = IF pending.gen = r THEN d ELSE channel[r]
BY NoRequestType DEF IInv, ShellType, Resolve, Decisions, Outcomes

\* The event loop's handling of a navigation either leaves the requests alone
\* or answers the pending one.
LEMMA NavigationFacts ==
  ASSUME IInv, HandleNavigation
  PROVE  /\ UNCHANGED <<asked, waiter, decision, closed, moved>>
         /\ navs' \in Seq(Messages) /\ page' \in 0 .. MaxPages /\ mounts' = mounts
         /\ \/ \E d \in Outcomes : Resolve(d)
            \/ /\ channel' = channel /\ pending'.gen = pending.gen
               /\ pending' \in [gen : 0 .. MaxRequests, dispatched : BOOLEAN, fallback : BOOLEAN]
<1> DEFINE m == Head(navs)
<1>1. m \in Messages /\ Tail(navs) \in Seq(Messages) /\ << >> \in Seq(Messages)
  BY DEF HandleNavigation, IInv, ShellType
<1>2. m.decision \in Decisions /\ "cancel" \in Decisions
  BY <1>1 DEF Messages, Decisions
<1>3. UNCHANGED <<asked, waiter, decision, closed, moved>> /\ mounts' = mounts
      /\ navs' \in {Tail(navs), << >>} /\ page' \in {page, 0}
  BY DEF HandleNavigation, pageVars
<1>0. Disconnect /\ pending.gen # 0 => Resolve("gone")
  BY DEF Disconnect, Clear, Resolve
<1>4. \/ Resolve("cancel") \/ Resolve(m.decision) \/ Resolve("gone")
      \/ channel' = channel /\ (\/ UNCHANGED pending \/ pending' = Undispatched(pending)
                                \/ pending' = [pending EXCEPT !.dispatched = TRUE, !.fallback = FALSE])
  BY <1>0 DEF HandleNavigation, BridgeReady, Claims, Dispatch, BridgeNotReady
<1>5. ASSUME \/ pending' = Undispatched(pending) \/ UNCHANGED pending
             \/ pending' = [pending EXCEPT !.dispatched = TRUE, !.fallback = FALSE]
      PROVE  pending'.gen = pending.gen
             /\ pending' \in [gen : 0 .. MaxRequests, dispatched : BOOLEAN, fallback : BOOLEAN]
  BY <1>5, SameRequest DEF IInv, ShellType
<1>6. page \in 0 .. MaxPages /\ 0 \in 0 .. MaxPages
  BY DEF IInv, ShellType
<1>7. navs' \in Seq(Messages) /\ page' \in 0 .. MaxPages
  BY <1>1, <1>3, <1>6
<1> QED BY <1>2, <1>3, <1>4, <1>5, <1>7 DEF Outcomes

-----------------------------------------------------------------------------
(* IInv is inductive.                                                       *)

LEMMA InitIInv == ASSUME Init PROVE IInv
<1>1. ShellType
  <2>1. << >> \in Seq(Messages) /\ 0 \in 0 .. MaxPages /\ 0 \in 0 .. MaxRequests
    OBVIOUS
  <2>2. pending \in [gen : 0 .. MaxRequests, dispatched : BOOLEAN, fallback : BOOLEAN]
    BY NoRequestType DEF Init
  <2>3. /\ channel \in [Requests -> Decisions \cup {"none", "gone"}]
        /\ waiter \in [Requests -> {"none", "waiting", "decided", "finalizing", "done"}]
        /\ decision \in [Requests -> Decisions]
    BY DEF Init, Decisions
  <2>4. asked = 0 /\ navs = << >> /\ page = 0 /\ mounts = 0 /\ closed = FALSE /\ moved = FALSE
    BY DEF Init
  <2> QED BY <2>1, <2>2, <2>3, <2>4 DEF ShellType
<1>2. WaiterHoldsRequest /\ Fresh
  BY NoRequestType DEF Init, WaiterHoldsRequest, Fresh
<1> QED BY <1>1, <1>2 DEF IInv

LEMMA RequestCloseStep == ASSUME IInv, RequestClose PROVE IInv'
<1>1. asked + 1 \in Requests /\ waiter[asked + 1] = "none" /\ channel[asked + 1] = "none"
  BY DEF RequestClose, IInv, ShellType, Fresh
<1>2. CASE UNCHANGED <<pending, waiter, events>>
  BY <1>1, <1>2 DEF RequestClose, IInv, ShellType, Fresh, WaiterHoldsRequest, pageVars
<1>3. CASE /\ pending' = [gen |-> asked', dispatched |-> bridge # 0, fallback |-> bridge = 0]
           /\ waiter' = [waiter EXCEPT ![asked'] = "waiting"]
  BY <1>1, <1>3 DEF RequestClose, IInv, ShellType, Fresh, WaiterHoldsRequest, pageVars
<1> QED BY <1>2, <1>3 DEF RequestClose

LEMMA HandleNavigationStep == ASSUME IInv, HandleNavigation PROVE IInv'
<1>1. ASSUME NEW d \in Outcomes, Resolve(d) PROVE IInv'
  <2>1. /\ pending'.gen = 0 /\ channel' \in [Requests -> Decisions \cup {"none", "gone"}]
        /\ pending' \in [gen : 0 .. MaxRequests, dispatched : BOOLEAN, fallback : BOOLEAN]
        /\ \A r \in Requests : channel'[r] = IF pending.gen = r THEN d ELSE channel[r]
    BY <1>1, ResolveFacts
  <2>2. ShellType'
    BY <2>1, NavigationFacts DEF IInv, ShellType
  <2>3. d # "none"
    BY DEF Decisions, Outcomes
  <2>4. WaiterHoldsRequest' /\ Fresh'
    BY <2>1, <2>3, NavigationFacts DEF IInv, WaiterHoldsRequest, Fresh
  <2> QED BY <2>2, <2>4 DEF IInv
<1>2. CASE channel' = channel /\ pending'.gen = pending.gen
           /\ pending' \in [gen : 0 .. MaxRequests, dispatched : BOOLEAN, fallback : BOOLEAN]
  BY <1>2, NavigationFacts DEF IInv, ShellType, WaiterHoldsRequest, Fresh
<1> QED BY <1>1, <1>2, NavigationFacts

LEMMA WaiterStep == ASSUME IInv, NEW r \in Requests, Waiter(r) PROVE IInv'
<1>1. CASE Receive(r)
  <2>1. decision' \in [Requests -> Decisions]
    BY <1>1 DEF Receive, IInv, ShellType, Decisions
  <2> QED BY <1>1, <2>1 DEF Receive, IInv, ShellType, WaiterHoldsRequest, Fresh, pageVars
<1>2. CASE Timeout(r)
  BY <1>2 DEF Timeout, IInv, ShellType, WaiterHoldsRequest, Fresh, pageVars, Decisions
<1>3. CASE ClearRequest(r)
  BY <1>3, NoRequestType DEF ClearRequest, Clear, IInv, ShellType, WaiterHoldsRequest, Fresh, pageVars
<1>4. CASE Finalize(r)
  BY <1>4 DEF Finalize, IInv, ShellType, WaiterHoldsRequest, Fresh, pageVars
<1> QED BY <1>1, <1>2, <1>3, <1>4 DEF Waiter

\* The page and the web view leave the coordinator's state alone.
PageStep == /\ UNCHANGED <<pending, asked, channel, waiter, decision, closed>>
            /\ navs' \in Seq(Messages) /\ moved' \in BOOLEAN
            /\ page' \in 0 .. MaxPages /\ mounts' \in 0 .. MaxPages

LEMMA PageStepFacts ==
  ASSUME ShellType, LoseNavigation \/ RestartSidecar \/ CloseEvent \/ Saving \/ User \/ UNCHANGED vars
  PROVE  PageStep
<1> USE DEF ShellType, PageStep, shellVars, pageVars
<1>1. CASE LoseNavigation
  <2>1. Tail(navs) \in Seq(Messages)
    BY <1>1 DEF LoseNavigation
  <2> QED BY <1>1, <2>1 DEF LoseNavigation
<1>2. CASE RestartSidecar
  <2>1. navs' \in Seq(Messages)
    BY <1>2, MessageTypes DEF RestartSidecar
  <2> QED BY <1>2, <2>1 DEF RestartSidecar
<1>3. CASE CloseEvent
  BY <1>3, DecisionFacts DEF CloseEvent
<1>4. CASE Saving
  <2>1. CASE Saved
    BY <2>1, DecisionFacts DEF Saved
  <2>2. ASSUME NEW o \in Owners, SaveOwner(o) PROVE PageStep
    BY <2>2, DecisionFacts DEF SaveOwner, SaveFails
  <2> QED BY <1>4, <2>1, <2>2 DEF Saving
<1>5. CASE User
  <2>1. CASE Mount
    <3>1. mounts' \in 0 .. MaxPages /\ navs' \in Seq(Messages)
      BY <2>1, MessageTypes, SendFacts DEF Mount
    <3> QED BY <2>1, <3>1 DEF Mount
  <2>2. CASE Unmount \/ Reload
    BY <2>2, MessageTypes, SendFacts DEF Unmount, Reload
  <2>3. CASE Cancel \/ Discard \/ SaveAll
    BY <2>3, DecisionFacts DEF Cancel, Discard, SaveAll
  <2>4. ASSUME NEW o \in Owners, Edit(o) PROVE PageStep
    BY <2>4 DEF Edit
  <2> QED BY <1>5, <2>1, <2>2, <2>3, <2>4 DEF User
<1>6. CASE UNCHANGED vars
  BY <1>6 DEF vars
<1> QED BY <1>1, <1>2, <1>3, <1>4, <1>5, <1>6

LEMMA PageStepKeeps == ASSUME IInv, PageStep PROVE IInv'
BY DEF PageStep, IInv, ShellType, WaiterHoldsRequest, Fresh

LEMMA NextIInv == ASSUME IInv, [Next]_vars PROVE IInv'
<1>1. CASE EventLoop
  BY <1>1, RequestCloseStep, HandleNavigationStep DEF EventLoop
<1>2. CASE \E r \in Requests : Waiter(r)
  BY <1>2, WaiterStep
<1>3. CASE LoseNavigation \/ RestartSidecar \/ CloseEvent \/ Saving \/ User \/ UNCHANGED vars
  BY <1>3, PageStepFacts, PageStepKeeps DEF IInv
<1> QED BY <1>1, <1>2, <1>3 DEF Next

THEOREM Inductive == Spec => []IInv
BY InitIInv, NextIInv, PTL DEF Spec

\* A request is pending exactly as long as a waiter can still take its answer,
\* whatever the page, the timeouts and the web view do.
THEOREM WaitersHoldRequests == Spec => []WaiterHoldsRequest
<1>1. IInv => WaiterHoldsRequest
  BY DEF IInv
<1> QED BY <1>1, Inductive, PTL

-----------------------------------------------------------------------------
(* What the page holds, and what a save is worth.                           *)

\* The part of the type invariant that only the page and the readiness rely on.
PageType ==
  /\ bridge \in 0 .. MaxPages /\ events \in Nat
  /\ dialog \in {"closed", "open", "saving"}
  /\ dirty \subseteq Owners /\ unsaved \subseteq Owners

\* While the save loop runs, the editors it has been through are clean.
SavedIsClean == dialog = "saving" => dirty \subseteq unsaved

PageInv == PageType /\ SavedIsClean

LEMMA ReadinessKeepsPage ==
  ASSUME IInv, PageInv, HandleNavigation
  PROVE  PageInv'
<1>1. Head(navs) \in Messages
  BY DEF HandleNavigation, IInv, ShellType
<1>2. Head(navs).gen \in 0 .. MaxPages /\ 0 \in 0 .. MaxPages
  BY <1>1, BoundsAssumption DEF Messages
<1>3. bridge' \in {bridge, 0, Head(navs).gen} /\ events' \in {events, events + 1}
  BY DEF HandleNavigation, BridgeReady, Dispatch, Disconnect, BridgeNotReady
<1>4. \/ UNCHANGED pageVars
      \/ dialog' = "closed" /\ dirty' = {} /\ unsaved' = {}
  BY DEF HandleNavigation
<1>5. CASE UNCHANGED pageVars
  BY <1>2, <1>3, <1>5 DEF PageInv, PageType, SavedIsClean, pageVars
<1>6. CASE dialog' = "closed" /\ dirty' = {} /\ unsaved' = {}
  BY <1>2, <1>3, <1>6 DEF PageInv, PageType, SavedIsClean
<1> QED BY <1>4, <1>5, <1>6

LEMMA PageInvStep == ASSUME IInv, PageInv, [Next]_vars PROVE PageInv'
<1> USE DEF PageInv, PageType, SavedIsClean, shellVars, pageVars
<1>1. CASE RequestClose
  BY <1>1 DEF RequestClose
<1>2. CASE HandleNavigation
  BY <1>2, ReadinessKeepsPage
<1>3. CASE \E r \in Requests : Waiter(r)
  BY <1>3 DEF Waiter, Receive, Timeout, ClearRequest, Finalize
<1>4. CASE LoseNavigation \/ RestartSidecar
  BY <1>4 DEF LoseNavigation, RestartSidecar
<1>5. CASE CloseEvent
  BY <1>5 DEF CloseEvent
<1>6. CASE Saved
  BY <1>6 DEF Saved
<1>7. ASSUME NEW o \in Owners, SaveOwner(o) PROVE PageInv'
  BY <1>7 DEF SaveOwner, SaveFails
<1>8. CASE User
  <2>1. CASE Mount \/ Unmount \/ Reload
    BY <2>1 DEF Mount, Unmount, Reload
  <2>2. CASE Cancel \/ Discard \/ SaveAll
    BY <2>2 DEF Cancel, Discard, SaveAll
  <2>3. ASSUME NEW o \in Owners, Edit(o) PROVE PageInv'
    BY <2>3 DEF Edit
  <2> QED BY <1>8, <2>1, <2>2, <2>3 DEF User
<1>9. CASE UNCHANGED vars
  BY <1>9 DEF vars
<1> QED BY <1>1, <1>2, <1>3, <1>4, <1>5, <1>6, <1>7, <1>8, <1>9 DEF Next, EventLoop, Saving

LEMMA PageIsKept == Spec => [](IInv /\ PageInv)
<1>1. Init => PageInv
  BY BoundsAssumption DEF Init, PageInv, PageType, SavedIsClean
<1> QED BY <1>1, InitIInv, NextIInv, PageInvStep, PTL DEF Spec

\* Every variable of the shell and of the page keeps its type.
THEOREM TypeCorrect == Spec => []TypeOK
<1>1. IInv /\ PageInv => TypeOK
  BY DEF IInv, ShellType, PageInv, PageType, TypeOK
<1> QED BY <1>1, PageIsKept, PTL

\* Only the end of the save loop answers "save".
LEMMA SaveIsAnswered ==
  ASSUME IInv, PageInv, [Next]_vars, navs' = Append(navs, Decision("save"))
  PROVE  Saved
<1>1. navs \in Seq(Messages)
  BY DEF IInv, ShellType
<1>2. Decision("save") \in Messages
  BY MessageTypes DEF IInv, Decisions
<1>3. Len(navs') = Len(navs) + 1 /\ navs'[Len(navs')] = Decision("save")
  BY <1>1, <1>2
<1>4. navs' # navs /\ navs' # << >>
  BY <1>1, <1>3
<1>5. navs # << >> => navs' # Tail(navs)
  BY <1>1, <1>3
<1>6. \A m \in Messages : navs' = Append(navs, m) => m = Decision("save")
  BY <1>1, <1>3
<1>7. /\ Decision("save") # Decision("clean") /\ Decision("save") # Decision("cancel")
      /\ Decision("save") # Decision("discard") /\ Decision("save").kind = "decision"
  BY DEF Decision
<1>8. \A d \in {"clean", "cancel", "discard"} : ~Send(Decision(d))
  BY <1>6, <1>7, MessageTypes DEF IInv, Send, Decisions
<1>9. \A m \in Messages : m.kind # "decision" => ~Send(m)
  BY <1>6, <1>7 DEF Send
<1>10. ~RequestClose /\ ~HandleNavigation /\ ~LoseNavigation /\ ~UNCHANGED vars
  BY <1>4, <1>5 DEF RequestClose, HandleNavigation, LoseNavigation, vars
<1>11. ~ \E r \in Requests : Waiter(r)
  BY <1>4 DEF Waiter, Receive, Timeout, ClearRequest, Finalize
<1>12. ~RestartSidecar
  <2>1. [Load EXCEPT !.foreign = TRUE] \in Messages /\ [Load EXCEPT !.foreign = TRUE].kind = "load"
    BY MessageTypes DEF IInv, Load
  <2> QED BY <1>9, <2>1 DEF RestartSidecar, Send
<1>13. ~CloseEvent /\ ~Cancel /\ ~Discard /\ ~SaveAll
  BY <1>4, <1>8 DEF CloseEvent, Cancel, Discard, SaveAll
<1>14. ~ \E o \in Owners : SaveOwner(o) \/ Edit(o)
  BY <1>4, <1>8 DEF SaveOwner, SaveFails, Edit
<1>15. ~Mount /\ ~Unmount /\ ~Reload
  <2>1. page \in 0 .. MaxPages /\ (Mount => mounts' \in 0 .. MaxPages)
    BY DEF IInv, ShellType, Mount
  <2>2. \A g \in 0 .. MaxPages : Ready(g).kind # "decision" /\ NotReady(g).kind # "decision"
    BY DEF Ready, NotReady
  <2>3. Load \in Messages /\ Load.kind # "decision"
    BY MessageTypes DEF IInv, Load
  <2>4. \A g \in 0 .. MaxPages : ~Send(Ready(g)) /\ ~Send(NotReady(g))
    BY <1>9, <2>2, MessageTypes DEF IInv
  <2>5. ~Send(Load)
    BY <1>9, <2>3
  <2> QED BY <2>1, <2>4, <2>5 DEF Mount, Unmount, Reload
<1> QED BY <1>10, <1>11, <1>12, <1>13, <1>14, <1>15 DEF Next, EventLoop, Saving, User

\* The page answers "save" only when every editor is saved, however many of them
\* there are and whatever fails on the way.
THEOREM SavesAreTrue == Spec => SaveAnswersAreTrue
<1>1. ASSUME IInv, PageInv, [Next]_vars PROVE [navs' = Append(navs, Decision("save")) => dirty = {}]_vars
  <2>1. Saved => dirty = {}
    BY <1>1 DEF Saved, PageInv, SavedIsClean
  <2> QED BY <1>1, <2>1, SaveIsAnswered
<1> QED BY <1>1, PageIsKept, PTL DEF Spec, SaveAnswersAreTrue

-----------------------------------------------------------------------------
(* CloseBridge implements CloseProtocol: the steps of the event loop and of   *)
(* the waiters are steps of the questions, everything else is a stutter.     *)

Questions == [r \in Requests |-> Question(r)]

LEMMA QuestionStates == ASSUME ShellType PROVE \A r \in Requests : Question(r) \in Protocol!States
BY DEF ShellType, Question, Protocol!States

LEMMA SameQuestions ==
  ASSUME UNCHANGED <<channel, waiter, decision>>
  PROVE  Questions' = Questions
BY DEF Questions, Question

\* What changes for one request only changes its question.
LEMMA OneQuestion ==
  ASSUME NEW r \in Requests,
         \A q \in Requests : q # r => /\ channel'[q] = channel[q] /\ waiter'[q] = waiter[q]
                                      /\ decision'[q] = decision[q]
  PROVE  Questions' = [Questions EXCEPT ![r] = Question(r)']
<1>1. \A q \in Requests : q # r => Question(q)' = Question(q)
  BY DEF Question
<1> QED BY <1>1 DEF Questions

LEMMA InitProtocol == ASSUME Init PROVE Protocol!Init
BY DEF Init, Protocol!Init, Question

LEMMA RequestCloseAsks == ASSUME IInv, RequestClose PROVE [Protocol!Next]_Protocol!vars
<1>1. CASE UNCHANGED waiter
  BY <1>1, SameQuestions DEF RequestClose, Questions, Protocol!vars
<1>2. CASE waiter' = [waiter EXCEPT ![asked'] = "waiting"]
  <2>1. PICK r \in Requests : asked' = r /\ waiter[r] = "none" /\ channel[r] = "none"
        /\ pending.gen = 0
    BY DEF RequestClose, IInv, ShellType, Fresh
  <2>2. UNCHANGED <<channel, decision, closed>> /\ waiter'[r] = "waiting"
        /\ \A q \in Requests : q # r => waiter'[q] = waiter[q]
    BY <1>2, <2>1 DEF RequestClose, IInv, ShellType
  <2>3. Questions' = [Questions EXCEPT ![r] = "waiting"] /\ Questions[r] = "idle"
    <3>1. Question(r)' = "waiting" /\ Question(r) = "idle"
      BY <2>1, <2>2 DEF Question
    <3> QED BY <2>1, <2>2, <3>1, OneQuestion DEF Questions
  <2>4. \A q \in Requests : Questions[q] # "waiting"
    BY <2>1 DEF Questions, Question, IInv, WaiterHoldsRequest, ShellType
  <2>5. Protocol!Ask(r)
    BY <2>2, <2>3, <2>4 DEF Questions, Protocol!Ask, Protocol!Move
  <2> QED BY <2>1, <2>5 DEF Protocol!Next
<1> QED BY <1>1, <1>2 DEF RequestClose

LEMMA AnswerDecides ==
  ASSUME IInv, NEW d \in Outcomes, Resolve(d), UNCHANGED <<waiter, decision, closed>>
  PROVE  [Protocol!Next]_Protocol!vars
<1>1. \A q \in Requests : channel'[q] = IF pending.gen = q THEN d ELSE channel[q]
  BY ResolveFacts
<1>2. CASE \E r \in Requests : pending.gen = r /\ waiter[r] = "waiting"
  <2>1. PICK r \in Requests : pending.gen = r /\ waiter[r] = "waiting"
    BY <1>2
  <2> DEFINE to == IF Closes(d) THEN "closing" ELSE "over"
  <2>2. Question(r) = "waiting" /\ Question(r)' = to
    BY <1>1, <2>1 DEF Question, IInv, WaiterHoldsRequest, Decisions, Outcomes
  <2>3. Questions' = [Questions EXCEPT ![r] = to] /\ Questions[r] = "waiting"
    BY <1>1, <2>1, <2>2, OneQuestion DEF Questions
  <2>4. Protocol!Decide(r, to)
    BY <2>3 DEF Questions, Protocol!Decide, Protocol!Move
  <2> QED BY <2>1, <2>4 DEF Protocol!Next
<1>3. CASE ~ \E r \in Requests : pending.gen = r /\ waiter[r] = "waiting"
  <2>1. \A q \in Requests : Question(q)' = Question(q)
    BY <1>1, <1>3 DEF Question
  <2> QED BY <2>1 DEF Protocol!vars
<1> QED BY <1>2, <1>3

LEMMA NavigationDecides == ASSUME IInv, HandleNavigation PROVE [Protocol!Next]_Protocol!vars
<1>1. ASSUME NEW d \in Outcomes, Resolve(d) PROVE [Protocol!Next]_Protocol!vars
  BY <1>1, NavigationFacts, AnswerDecides
<1>2. CASE channel' = channel
  BY <1>2, NavigationFacts, SameQuestions DEF Questions, Protocol!vars
<1> QED BY <1>1, <1>2, NavigationFacts

LEMMA WaiterMoves == ASSUME IInv, NEW r \in Requests, Waiter(r) PROVE [Protocol!Next]_Protocol!vars
<1>1. \A q \in Requests : q # r => /\ channel'[q] = channel[q] /\ waiter'[q] = waiter[q]
                                   /\ decision'[q] = decision[q]
  BY DEF Waiter, Receive, Timeout, ClearRequest, Finalize, IInv, ShellType
<1>2. Questions' = [Questions EXCEPT ![r] = Question(r)'] /\ Questions[r] = Question(r)
  BY <1>1, OneQuestion DEF Questions
<1>3. CASE Receive(r) \/ ClearRequest(r)
  <2>1. Question(r)' = Question(r) /\ closed' = closed
    BY <1>3 DEF Receive, ClearRequest, Question, Closes, IInv, ShellType
  <2>2. Questions' = Questions
    BY <1>2, <2>1 DEF Questions
  <2> QED BY <2>1, <2>2 DEF Questions, Protocol!vars
<1>4. CASE Timeout(r)
  <2>1. Question(r) = "waiting" /\ Question(r)' = "over" /\ closed' = closed
    BY <1>4 DEF Timeout, Question, Closes, IInv, ShellType
  <2>2. Protocol!Decide(r, "over")
    BY <1>2, <2>1 DEF Questions, Protocol!Decide, Protocol!Move
  <2> QED BY <2>2 DEF Protocol!Next
<1>5. CASE Finalize(r)
  <2>1. Question(r) = "closing" /\ Question(r)' = "over" /\ closed' \in {TRUE, closed}
    BY <1>5 DEF Finalize, Question, IInv, ShellType
  <2>2. Protocol!Close(r) \/ Protocol!GiveUp(r)
    BY <1>2, <2>1 DEF Questions, Protocol!Close, Protocol!GiveUp, Protocol!Move
  <2> QED BY <2>2 DEF Protocol!Next
<1> QED BY <1>3, <1>4, <1>5 DEF Waiter

LEMMA StepImplements == ASSUME IInv, [Next]_vars PROVE [Protocol!Next]_Protocol!vars
<1>1. CASE EventLoop
  BY <1>1, RequestCloseAsks, NavigationDecides DEF EventLoop
<1>2. CASE \E r \in Requests : Waiter(r)
  BY <1>2, WaiterMoves
<1>3. CASE LoseNavigation \/ RestartSidecar \/ CloseEvent \/ Saving \/ User \/ UNCHANGED vars
  BY <1>3, PageStepFacts, SameQuestions DEF PageStep, IInv, Questions, Protocol!vars
<1> QED BY <1>1, <1>2, <1>3 DEF Next

\* The bridge implements the protocol the rest of the shell relies on: one
\* question at a time, each answered or given up once, and only a question that
\* was answered with a close destroys the window.
THEOREM Implements == Spec => ImplementsProtocol
<1>1. Init => Protocol!Init
  BY InitProtocol
<1>2. IInv /\ [Next]_vars => [Protocol!Next]_Protocol!vars
  BY StepImplements
<1> QED BY <1>1, <1>2, Inductive, PTL DEF Spec, ImplementsProtocol, Protocol!Spec

-----------------------------------------------------------------------------
(* What becomes of a question when the page is remounted or reloaded.        *)

\* The ready and not-ready messages under way lead, one by one, from the bridge
\* the shell knows to the page that is mounted.
Bridging(m) == m.kind \in {"ready", "not-ready"}
Before(m) == IF m.kind = "ready" THEN 0 ELSE m.gen
After(m)  == IF m.kind = "ready" THEN m.gen ELSE 0
Leads(f, s) == \A i \in 1 .. Len(s) :
  IF Bridging(s[i]) THEN f[i - 1] = Before(s[i]) /\ f[i] = After(s[i]) ELSE f[i] = f[i - 1]
Chain(s, b, p) ==
  \E f \in [0 .. Len(s) -> 0 .. MaxPages] : f[0] = b /\ f[Len(s)] = p /\ Leads(f, s)

\* Something is under way that shows the dialog, or ends the question or the page.
Moves(m) == m.kind \in {"decision", "load"} \/ (m.kind = "ready" /\ m.gen = page)
UnderWay == \E i \in 1 .. Len(navs) : Moves(navs[i])
Awaited == pending.gen # 0 /\ page # 0 => dialog # "closed" \/ events > 0 \/ UnderWay

AskInv == ~MayLose /\ ~moved =>
  /\ \A i \in 1 .. Len(navs) : ~navs[i].foreign
  /\ Chain(navs, bridge, page)
  /\ pending.dispatched => bridge # 0
  /\ Awaited

LEMMA ChainTail ==
  ASSUME NEW s \in Seq(Messages), s # << >>, NEW b, NEW p, Chain(s, b, p)
  PROVE  \E c \in 0 .. MaxPages :
           /\ Chain(Tail(s), c, p)
           /\ IF Bridging(Head(s)) THEN b = Before(Head(s)) /\ c = After(Head(s)) ELSE c = b
<1>1. PICK f \in [0 .. Len(s) -> 0 .. MaxPages] : f[0] = b /\ f[Len(s)] = p /\ Leads(f, s)
  BY DEF Chain
<1>2. Len(s) \in Nat \ {0} /\ Len(Tail(s)) = Len(s) - 1 /\ Head(s) = s[1]
      /\ \A i \in 1 .. Len(s) - 1 : Tail(s)[i] = s[i + 1]
  OBVIOUS
<1> DEFINE g == [i \in 0 .. Len(Tail(s)) |-> f[i + 1]]
<1>3. g \in [0 .. Len(Tail(s)) -> 0 .. MaxPages] /\ g[0] = f[1] /\ g[Len(Tail(s))] = p
  BY <1>1, <1>2
<1>4. Leads(g, Tail(s))
  <2>1. SUFFICES ASSUME NEW i \in 1 .. Len(Tail(s))
                 PROVE  IF Bridging(Tail(s)[i])
                        THEN g[i - 1] = Before(Tail(s)[i]) /\ g[i] = After(Tail(s)[i])
                        ELSE g[i] = g[i - 1]
    BY DEF Leads
  <2>2. i + 1 \in 1 .. Len(s) /\ Tail(s)[i] = s[i + 1] /\ g[i] = f[i + 1] /\ g[i - 1] = f[i]
    BY <1>2
  <2>3. (i + 1) - 1 = i
    OBVIOUS
  <2> QED BY <1>1, <2>2, <2>3 DEF Leads
<1>5. Chain(Tail(s), f[1], p)
  BY <1>3, <1>4 DEF Chain
<1>6. 1 \in 1 .. Len(s) /\ f[1] \in 0 .. MaxPages /\ f[1 - 1] = b
  BY <1>1, <1>2
<1>7. IF Bridging(s[1]) THEN b = Before(s[1]) /\ f[1] = After(s[1]) ELSE f[1] = b
  BY <1>1, <1>6 DEF Leads
<1> QED BY <1>2, <1>5, <1>6, <1>7

LEMMA ChainAppend ==
  ASSUME NEW s \in Seq(Messages), NEW m \in Messages, NEW b, NEW p, NEW q \in 0 .. MaxPages,
         Chain(s, b, p), IF Bridging(m) THEN p = Before(m) /\ q = After(m) ELSE q = p
  PROVE  Chain(Append(s, m), b, q)
<1>1. PICK f \in [0 .. Len(s) -> 0 .. MaxPages] : f[0] = b /\ f[Len(s)] = p /\ Leads(f, s)
  BY DEF Chain
<1> DEFINE t == Append(s, m)
           n == Len(s)
           g == [i \in 0 .. Len(t) |-> IF i = n + 1 THEN q ELSE f[i]]
<1>2. n \in Nat /\ Len(t) = n + 1 /\ t[n + 1] = m /\ \A i \in 1 .. n : t[i] = s[i]
  OBVIOUS
<1>3. g \in [0 .. Len(t) -> 0 .. MaxPages] /\ g[0] = b /\ g[Len(t)] = q /\ g[n] = p
      /\ \A i \in 0 .. n : g[i] = f[i]
  BY <1>1, <1>2
<1>4. ASSUME NEW i \in 1 .. Len(t)
      PROVE  IF Bridging(t[i]) THEN g[i - 1] = Before(t[i]) /\ g[i] = After(t[i])
                               ELSE g[i] = g[i - 1]
  <2>1. CASE i = n + 1
    <3>1. i - 1 = n
      BY <1>2, <2>1
    <3> QED BY <1>2, <1>3, <2>1, <3>1
  <2>2. CASE i \in 1 .. n
    <3>1. t[i] = s[i] /\ g[i] = f[i] /\ g[i - 1] = f[i - 1]
      BY <1>2, <1>3, <2>2
    <3> QED BY <1>1, <2>2, <3>1 DEF Leads
  <2> QED BY <1>2, <2>1, <2>2
<1>5. Leads(g, t)
  BY <1>4 DEF Leads
<1> QED BY <1>3, <1>5 DEF Chain

LEMMA ChainEmpty == \A b \in 0 .. MaxPages : Chain(<< >>, b, b)
<1> TAKE b \in 0 .. MaxPages
<1> DEFINE f == [i \in 0 .. 0 |-> b]
<1>1. f \in [0 .. Len(<< >>) -> 0 .. MaxPages] /\ f[0] = b /\ f[Len(<< >>)] = b /\ Leads(f, << >>)
  BY DEF Leads
<1> QED BY <1>1 DEF Chain

\* What still moves after the first message is handled, or another is sent.
LEMMA TailMoves ==
  ASSUME navs \in Seq(Messages), navs # << >>,
         UnderWay, page' = page, navs' = Tail(navs), ~Moves(Head(navs))
  PROVE  UnderWay'
<1>0. PICK i \in 1 .. Len(navs) : Moves(navs[i])
  BY DEF UnderWay
<1>1. i # 1 /\ Len(navs) \in Nat /\ Len(navs') = Len(navs) - 1
  BY <1>0
<1>2. i - 1 \in 1 .. Len(navs') /\ navs'[i - 1] = navs[i]
  BY <1>1
<1> QED BY <1>0, <1>2 DEF Moves, UnderWay

LEMMA SendMoves ==
  ASSUME navs \in Seq(Messages), NEW m \in Messages, Send(m), page' = page
  PROVE  UnderWay \/ Moves(m) => UnderWay'
<1>1. Len(navs) \in Nat /\ Len(navs') = Len(navs) + 1 /\ navs'[Len(navs) + 1] = m
      /\ \A i \in 1 .. Len(navs) : navs'[i] = navs[i]
  BY DEF Send
<1>2. Len(navs) + 1 \in 1 .. Len(navs') /\ \A i \in 1 .. Len(navs) : i \in 1 .. Len(navs')
  BY <1>1
<1> QED BY <1>1, <1>2 DEF Moves, UnderWay

\* A message the page sends is the shell's own as long as the sidecar is the first.
LEMMA SendOwn ==
  ASSUME navs \in Seq(Messages), NEW m \in Messages, Send(m), ~m.foreign,
         \A i \in 1 .. Len(navs) : ~navs[i].foreign
  PROVE  \A i \in 1 .. Len(navs') : ~navs'[i].foreign
<1>1. Len(navs) \in Nat /\ Len(navs') = Len(navs) + 1 /\ navs'[Len(navs) + 1] = m
      /\ \A i \in 1 .. Len(navs) : navs'[i] = navs[i]
  BY DEF Send
<1> QED BY <1>1

\* The parts of AskInv.
Asks == /\ \A i \in 1 .. Len(navs) : ~navs[i].foreign
        /\ Chain(navs, bridge, page)
        /\ pending.dispatched => bridge # 0
        /\ Awaited

LEMMA HandleKeepsAsks ==
  ASSUME IInv, PageInv, Asks, ~moved, HandleNavigation
  PROVE  Asks'
<1> DEFINE m == Head(navs)
<1>1. /\ navs \in Seq(Messages) /\ navs # << >> /\ Len(navs) \in Nat \ {0} /\ m = navs[1] /\ m \in Messages
      /\ ~m.foreign
  BY DEF HandleNavigation, IInv, ShellType, Asks
<1>2. CASE m.kind = "load"
  <2>1. navs' = << >> /\ page' = 0 /\ bridge' = 0 /\ pending'.dispatched = FALSE
    BY <1>1, <1>2 DEF HandleNavigation, Undispatched, IInv, ShellType
  <2>2. 0 \in 0 .. MaxPages /\ 1 .. Len(navs') = {}
    BY <2>1, BoundsAssumption
  <2>3. Chain(navs', bridge', page')
    BY <2>1, <2>2, ChainEmpty
  <2> QED BY <2>1, <2>2, <2>3 DEF Asks, Awaited
<1>3. CASE m.kind # "load"
  <2>1. navs' = Tail(navs) /\ page' = page /\ dialog' = dialog
    BY <1>1, <1>3 DEF HandleNavigation, pageVars
  <2>2. \A i \in 1 .. Len(navs') : ~navs'[i].foreign
    <3>1. Len(navs') = Len(navs) - 1 /\ \A i \in 1 .. Len(navs') : navs'[i] = navs[i + 1]
      BY <1>1, <2>1
    <3> QED BY <1>1, <3>1 DEF Asks
  <2>3. PICK c \in 0 .. MaxPages :
          /\ Chain(Tail(navs), c, page)
          /\ IF Bridging(m) THEN bridge = Before(m) /\ c = After(m) ELSE c = bridge
    BY <1>1, ChainTail DEF Asks
  <2>4. CASE m.kind = "decision"
    <3>1. bridge' = bridge /\ pending' = NoRequest
      BY <1>1, <2>4 DEF HandleNavigation, Resolve
    <3> QED BY <2>1, <2>2, <2>3, <2>4, <3>1 DEF Asks, Awaited, NoRequest, Bridging
  <2>5. CASE m.kind = "not-ready"
    <3>1. bridge = m.gen /\ c = 0 /\ bridge' = 0 /\ pending' = Undispatched(pending) /\ events' = events
      BY <1>1, <2>3, <2>5 DEF HandleNavigation, BridgeNotReady, Bridging, Before, After
    <3>2. pending'.gen = pending.gen /\ ~pending'.dispatched
      BY <3>1 DEF Undispatched, IInv, ShellType
    <3>3. ~Moves(m)
      BY <2>5 DEF Moves
    <3> QED BY <1>1, <2>1, <2>2, <2>3, <3>1, <3>2, <3>3, TailMoves DEF Asks, Awaited
  <2>6. CASE m.kind = "ready"
    <3>0. CASE Disconnect /\ pending.gen # 0
      <4>1. bridge = 0 /\ c = m.gen /\ bridge' = m.gen
        BY <1>1, <2>3, <2>6 DEF HandleNavigation, BridgeReady, Bridging, Before, After
      <4>2. pending' = NoRequest
        BY <3>0 DEF Disconnect, Clear
      <4> QED BY <2>1, <2>2, <2>3, <4>1, <4>2 DEF Asks, Awaited, NoRequest
    <3>01. SUFFICES ASSUME ~(Disconnect /\ pending.gen # 0) PROVE Asks'
      BY <3>0
    <3>1. bridge = 0 /\ c = m.gen /\ bridge' = m.gen /\ ~pending.dispatched /\ BridgeReady(m.gen)
      BY <1>1, <2>3, <2>6 DEF HandleNavigation, BridgeReady, Bridging, Before, After, Asks
    <3>2. pending'.gen = pending.gen /\ (pending'.dispatched => bridge' # 0)
          /\ (m.gen # 0 /\ pending.gen # 0 => events' = events + 1) /\ events' \in {events, events + 1}
      BY <3>01, <3>1 DEF BridgeReady, Claims, Dispatch, IInv, ShellType
    <3>3. events \in Nat /\ (page # 0 /\ Moves(m) => m.gen # 0)
      BY <2>6 DEF PageInv, PageType, Moves
    <3>4. Awaited'
      <4>1. CASE page # 0 /\ pending.gen # 0 /\ Moves(m)
        BY <3>2, <3>3, <4>1 DEF Awaited
      <4>2. CASE page # 0 /\ pending.gen # 0 /\ ~Moves(m)
        BY <1>1, <2>1, <3>2, <3>3, <4>2, TailMoves DEF Asks, Awaited
      <4> QED BY <2>1, <3>2, <4>1, <4>2 DEF Awaited
    <3> QED BY <2>1, <2>2, <2>3, <3>1, <3>2, <3>4 DEF Asks
  <2> QED BY <1>1, <1>3, <2>4, <2>5, <2>6 DEF Messages
<1> QED BY <1>2, <1>3

\* A message that says something about the request or the page, and none about the bridge.
LEMMA SendKeepsAsks ==
  ASSUME IInv, Asks, NEW m \in Messages, Send(m), ~m.foreign, UNCHANGED <<bridge, pending, page>>,
         m.kind \in {"decision", "load"}
  PROVE  Asks'
<1>1. navs \in Seq(Messages) /\ page \in 0 .. MaxPages /\ navs' = Append(navs, m)
  BY DEF IInv, ShellType, Send
<1>2. Chain(navs', bridge, page)
  BY <1>1, ChainAppend DEF Asks, Bridging
<1>3. UnderWay'
  BY <1>1, SendMoves DEF Moves
<1> QED BY <1>1, <1>2, <1>3, SendOwn DEF Asks, Awaited

LEMMA MountKeepsAsks ==
  ASSUME IInv, Asks, ~moved, Mount \/ Unmount
  PROVE  Asks'
<1>1. navs \in Seq(Messages) /\ page \in 0 .. MaxPages /\ mounts \in 0 .. MaxPages
      /\ UNCHANGED <<bridge, pending, events, dialog>>
  BY DEF IInv, ShellType, Mount, Unmount, shellVars
<1>2. CASE Mount
  <2> DEFINE g == mounts + 1
             m == Ready(g)
  <2>0. mounts' = g /\ g \in 0 .. MaxPages /\ g # 0
    BY <1>1, <1>2 DEF Mount
  <2>1. page = 0 /\ page' = g /\ g \in 0 .. MaxPages /\ Send(m)
    BY <1>2, <2>0 DEF Mount
  <2>2. m \in Messages /\ m.kind = "ready" /\ m.gen = g /\ ~m.foreign
    <3>1. Ready(g) \in Messages
      BY <2>1, MessageTypes DEF IInv
    <3> QED BY <3>1 DEF Ready
  <2>3. Chain(navs', bridge, g)
    BY <1>1, <2>1, <2>2, ChainAppend DEF Asks, Bridging, Before, After, Send
  <2>4. \E j \in 1 .. Len(navs') : navs'[j] = m
    BY <1>1, <2>1 DEF Send
  <2>5. Awaited'
    <3>1. \E j \in 1 .. Len(navs') : navs'[j].kind = "ready" /\ navs'[j].gen = page'
      BY <2>1, <2>2, <2>4
    <3> QED BY <3>1 DEF Awaited, UnderWay, Moves
  <2> QED BY <1>1, <2>1, <2>2, <2>3, <2>5, SendOwn DEF Asks
<1>3. CASE Unmount
  <2> DEFINE m == NotReady(page)
  <2>1. page # 0 /\ page' = 0 /\ Send(m)
    BY <1>3 DEF Unmount
  <2>2. m \in Messages /\ m.kind = "not-ready" /\ m.gen = page /\ ~m.foreign
    <3>1. NotReady(page) \in Messages
      BY <1>1, MessageTypes DEF IInv
    <3> QED BY <3>1 DEF NotReady
  <2>3. Chain(navs', bridge, 0)
    <3>1. Bridging(m) /\ Before(m) = page /\ After(m) = 0 /\ 0 \in 0 .. MaxPages
      BY <2>2, BoundsAssumption DEF Bridging, Before, After
    <3>2. Chain(Append(navs, m), bridge, 0)
      BY <1>1, <2>2, <3>1, ChainAppend DEF Asks
    <3> QED BY <2>1, <3>2 DEF Send
  <2> QED BY <1>1, <2>1, <2>2, <2>3, SendOwn DEF Asks, Awaited
<1> QED BY <1>2, <1>3

LEMMA QuietKeepsAsks ==
  ASSUME Asks, UNCHANGED <<bridge, page, navs>>, pending' \in {pending, NoRequest},
         (pending.gen # 0 /\ page # 0 /\ (dialog # "closed" \/ events > 0)) => (dialog' # "closed" \/ events' > 0)
  PROVE  Asks'
<1>1. (pending'.gen = 0 /\ ~pending'.dispatched) \/ pending' = pending
  BY DEF NoRequest
<1>2. Awaited'
  BY <1>1 DEF Asks, Awaited, UnderWay, Moves
<1> QED BY <1>1, <1>2 DEF Asks

LEMMA AskStep == ASSUME IInv, PageInv, AskInv, [Next]_vars PROVE AskInv'
<1> SUFFICES ASSUME ~MayLose, ~moved' PROVE Asks'
  BY DEF AskInv, Asks
<1>1. ~moved
  BY NavigationFacts DEF IInv, Next, EventLoop, RequestClose, Waiter, Receive, Timeout, ClearRequest, Finalize, LoseNavigation,
     RestartSidecar, CloseEvent, Saving, Saved, SaveOwner, User, Mount, Unmount, Reload, Cancel, Discard,
     SaveAll, Edit, vars, shellVars
<1>2. Asks
  BY <1>1 DEF AskInv, Asks
<1> USE DEF shellVars, pageVars
<1>m. \A d \in Decisions : /\ Decision(d) \in Messages /\ Decision(d).kind = "decision"
                           /\ ~Decision(d).foreign
  BY <1>1, MessageTypes DEF IInv, Decision
<1>d. \A d \in Decisions : Send(Decision(d)) /\ UNCHANGED <<bridge, pending, page>> => Asks'
  BY <1>2, <1>m, SendKeepsAsks
<1>e. events \in Nat
  BY DEF PageInv, PageType
<1>3. CASE RequestClose
  <2>1. CASE UNCHANGED <<pending, events>>
    BY <1>2, <1>3, <2>1, QuietKeepsAsks DEF RequestClose
  <2>2. CASE /\ pending' = [gen |-> asked', dispatched |-> bridge # 0, fallback |-> bridge = 0]
             /\ events' = events + 1
    <3>1. UNCHANGED <<bridge, navs, page>>
      BY <1>3 DEF RequestClose
    <3>3. events' > 0 /\ pending'.dispatched = (bridge # 0)
      BY <1>e, <2>2
    <3>2. Awaited'
      BY <3>3 DEF Awaited
    <3> QED BY <1>2, <3>3, <3>1, <3>2 DEF Asks
  <2> QED BY <1>3, <2>1, <2>2 DEF RequestClose
<1>4. CASE HandleNavigation
  BY <1>1, <1>2, <1>4, HandleKeepsAsks
<1>5. CASE \E r \in Requests : Waiter(r)
  <2>1. UNCHANGED <<bridge, page, navs, dialog, events>> /\ pending' \in {pending, NoRequest}
    BY <1>5 DEF Waiter, Receive, Timeout, ClearRequest, Clear, Finalize
  <2> QED BY <1>2, <2>1, QuietKeepsAsks
<1>6. CASE CloseEvent
  <2>1. CASE page = 0
    BY <1>2, <1>6, <2>1, QuietKeepsAsks DEF CloseEvent
  <2>2. CASE page # 0 /\ dirty = {}
    BY <1>6, <1>d, <2>2 DEF CloseEvent, Decisions
  <2>3. CASE page # 0 /\ dirty # {}
    BY <1>2, <1>6, <2>3, QuietKeepsAsks DEF CloseEvent
  <2> QED BY <2>1, <2>2, <2>3
<1>7. CASE Saved \/ Cancel
  BY <1>7, <1>d DEF Saved, Cancel, Decisions
<1>8. ASSUME NEW o \in Owners, SaveOwner(o) PROVE Asks'
  <2>1. CASE SaveFails(o)
    BY <1>8, <1>d, <2>1 DEF SaveOwner, SaveFails, Decisions
  <2>2. CASE ~SaveFails(o)
    BY <1>2, <1>8, <2>2, QuietKeepsAsks DEF SaveOwner
  <2> QED BY <2>1, <2>2
<1>9. CASE Discard
  BY <1>9, <1>d DEF Discard, Decisions
<1>10. CASE SaveAll
  BY <1>2, <1>10, QuietKeepsAsks DEF SaveAll
<1>11. CASE Mount \/ Unmount
  BY <1>1, <1>2, <1>11, MountKeepsAsks
<1>12. CASE Reload
  <2>1. Load \in Messages /\ Load.kind = "load" /\ ~Load.foreign
    BY <1>1, MessageTypes DEF IInv, Load
  <2> QED BY <1>2, <1>12, <2>1, SendKeepsAsks DEF Reload
<1>13. ASSUME NEW o \in Owners, Edit(o) PROVE Asks'
  BY <1>2, <1>13, QuietKeepsAsks DEF Edit
<1>14. CASE UNCHANGED vars
  BY <1>2, <1>14, QuietKeepsAsks DEF vars
<1>15. ~LoseNavigation /\ ~RestartSidecar
  BY DEF LoseNavigation, RestartSidecar
<1> QED BY <1>3, <1>4, <1>5, <1>6, <1>7, <1>8, <1>9, <1>10, <1>11, <1>12, <1>13, <1>14, <1>15
        DEF Next, EventLoop, Saving, User

LEMMA InitAskInv == ASSUME Init PROVE AskInv
<1>1. 0 \in 0 .. MaxPages
  BY BoundsAssumption
<1> QED BY <1>1, ChainEmpty DEF Init, AskInv, NoRequest, Awaited

\* A close is not asked into the void, for any number of requests, remounts,
\* reloads and editors: what the shell dispatched before a page was there, or to one
\* that is gone, is dispatched again when the next one says it is ready.
THEOREM QuestionsAreShown == Spec => []QuestionIsShown
<1>1. AskInv => QuestionIsShown
  <2>1. navs = << >> => ~UnderWay
    BY DEF UnderWay
  <2> QED BY <2>1 DEF AskInv, Awaited, QuestionIsShown
<1>2. Spec => [](IInv /\ PageInv /\ AskInv)
  <2>1. IInv /\ PageInv /\ AskInv /\ [Next]_vars => AskInv'
    BY AskStep
  <2>2. Init => AskInv
    BY InitAskInv
  <2> QED BY <2>1, <2>2, PageIsKept, PTL DEF Spec
<1> QED BY <1>1, <1>2, PTL
=============================================================================
