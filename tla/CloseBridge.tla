----------------------------- MODULE CloseBridge -----------------------------
(* How the native shell asks the page whether it may close.  The page has no *)
(* native API: the shell evaluates a script that dispatches a DOM event, and *)
(* the page answers by navigating to a fragment that on_navigation consumes  *)
(* (CloseCoordinator, request_close and handle_navigation in lifecycle.rs;   *)
(* desktop-close-bridge.ts; desktop-close-coordinator.tsx).                  *)
(*                                                                          *)
(* The event loop runs request_close and on_navigation one at a time; each   *)
(* request has a waiter thread with a 120 s timeout; the page runs on its    *)
(* own.  Scripts and navigations are asynchronous and keep their order.      *)
EXTENDS Naturals, Sequences

CONSTANTS
  MaxRequests,   \* bound: close requests of a run
  MaxPages,      \* bound: mounts of the page's close coordinator
  MaxNavs,       \* bound: navigations under way when a discard is refused
  Owners,        \* editors that can hold unsaved work
  Restarts,      \* may a data command restart the sidecar, on a new port?
  TimesOut,      \* may a waiter run into its timeout?
  MayLose        \* may the web view drop a fragment navigation?

ASSUME BoundsAssumption == MaxRequests \in Nat /\ MaxPages \in Nat \ {0} /\ MaxNavs \in Nat
ASSUME FlagsAssumption  == {Restarts, TimesOut, MayLose} \subseteq BOOLEAN

Requests  == 1 .. MaxRequests   \* next_generation counts them
Pages     == 1 .. MaxPages      \* bridge generations, one for each mount
Decisions == {"save", "discard", "clean", "cancel"}
Closes(d) == d \in {"save", "discard", "clean"}
NoRequest == [gen |-> 0, dispatched |-> FALSE, fallback |-> FALSE]

VARIABLES
  pending,   \* CloseCoordinator.pending
  bridge,    \* CloseCoordinator.bridge_generation, 0 for None
  asked,     \* number of requests begun
  channel,   \* what each request's mpsc channel holds, "gone" without a sender
  waiter,    \* each request's waiter thread
  decision,  \* what the waiter took
  closed,    \* is the window destroyed?
  moved,     \* does the sidecar listen on another port than at startup?
  events,    \* close events evaluated in the web view and not run yet
  navs,      \* navigations the page started and on_navigation has not seen
  page,      \* the mounted coordinator's generation, 0 for none
  mounts,    \* number of mounts
  dialog,    \* the page's close dialog
  dirty,     \* owners with unsaved work
  unsaved    \* owners the save loop has not looked at

shellVars == <<pending, bridge, asked, channel, waiter, decision, closed, moved>>
pageVars  == <<page, mounts, dialog, dirty, unsaved>>
vars == <<shellVars, events, navs, pageVars>>

Ready(g)    == [kind |-> "ready", gen |-> g, decision |-> "cancel", foreign |-> moved]
NotReady(g) == [kind |-> "not-ready", gen |-> g, decision |-> "cancel", foreign |-> moved]
Decision(d) == [kind |-> "decision", gen |-> 0, decision |-> d, foreign |-> moved]
Load        == [kind |-> "load", gen |-> 0, decision |-> "cancel", foreign |-> moved]
Messages == [kind : {"ready", "not-ready", "decision", "load"}, gen : 0 .. MaxPages,
             decision : Decisions, foreign : BOOLEAN]

TypeOK ==
  /\ pending \in [gen : 0 .. MaxRequests, dispatched : BOOLEAN, fallback : BOOLEAN]
  /\ bridge \in 0 .. MaxPages /\ asked \in 0 .. MaxRequests
  /\ channel \in [Requests -> Decisions \cup {"none", "gone"}]
  /\ waiter \in [Requests -> {"none", "waiting", "decided", "finalizing", "done"}]
  /\ decision \in [Requests -> Decisions]
  /\ closed \in BOOLEAN /\ moved \in BOOLEAN
  /\ events \in Nat /\ navs \in Seq(Messages)
  /\ page \in 0 .. MaxPages /\ mounts \in 0 .. MaxPages
  /\ dialog \in {"closed", "open", "saving"}
  /\ dirty \subseteq Owners /\ unsaved \subseteq Owners

Init ==
  /\ pending = NoRequest /\ bridge = 0 /\ asked = 0
  /\ channel = [r \in Requests |-> "none"] /\ waiter = [r \in Requests |-> "none"]
  /\ decision = [r \in Requests |-> "cancel"]
  /\ closed = FALSE /\ moved = FALSE
  /\ events = 0 /\ navs = <<>>
  /\ page = 0 /\ mounts = 0 /\ dialog = "closed" /\ dirty = {} /\ unsaved = {}

-----------------------------------------------------------------------------
(* CloseCoordinator, on the state of one request.                           *)

Undispatched(request) == [request EXCEPT !.dispatched = FALSE, !.fallback = FALSE]

\* resolve takes whatever request is pending; no answer names the request it
\* answers.
ResolveKeepsPending(d) == \* mutant
  /\ channel' = IF pending.gen = 0 THEN channel ELSE [channel EXCEPT ![pending.gen] = d]
  /\ UNCHANGED pending
Resolve(d) ==
  /\ channel' = IF pending.gen = 0 THEN channel ELSE [channel EXCEPT ![pending.gen] = d]
  /\ pending' = NoRequest

ClearNone(r) == UNCHANGED pending \* mutant
Clear(r) == pending' = IF pending.gen = r THEN NoRequest ELSE pending

-----------------------------------------------------------------------------
(* The event loop.                                                          *)

\* request_close.  The first request stays authoritative; the event is
\* dispatched to a bridge that is ready, and once as a fallback to one that has
\* not said so; if the script cannot be evaluated the request is cleared.
RequestClose ==
  /\ ~closed /\ pending.gen = 0 /\ asked < MaxRequests
  /\ asked' = asked + 1
  /\ \/ /\ pending' = [gen |-> asked', dispatched |-> bridge # 0, fallback |-> bridge = 0]
        /\ waiter' = [waiter EXCEPT ![asked'] = "waiting"]
        /\ events' = events + 1
     \/ UNCHANGED <<pending, waiter, events>>
  /\ UNCHANGED <<bridge, channel, decision, closed, moved, navs, pageVars>>

\* bridge_ready: a new generation claims the event that no bridge received.
Claims(g) == bridge # g /\ pending.gen # 0 /\ ~pending.dispatched
Dispatch == /\ pending' = [pending EXCEPT !.dispatched = TRUE, !.fallback = FALSE]
            /\ events' = events + 1 /\ UNCHANGED channel

\* The window is missing or its script cannot be evaluated: the request is cleared
\* with its sender, and the waiter finds its channel disconnected.
Disconnect == /\ Clear(pending.gen)
              /\ channel' = [channel EXCEPT ![pending.gen] = "gone"]
              /\ UNCHANGED events

BridgeReady(g) ==
  /\ bridge' = g
  /\ IF Claims(g) THEN Dispatch \/ Disconnect ELSE UNCHANGED <<pending, channel, events>>

\* bridge_not_ready: only the generation that is ready can say so.
NotReadyKeepsFlag(g) == bridge' = (IF bridge = g THEN 0 ELSE bridge) /\ UNCHANGED pending \* mutant
BridgeNotReady(g) ==
  IF bridge = g THEN bridge' = 0 /\ pending' = Undispatched(pending)
  ELSE UNCHANGED <<bridge, pending>>

\* handle_navigation and handle_close_navigation.  A fragment that does not come
\* from the page that was primary at startup counts as Cancel.
HandleNavigation ==
  /\ navs # <<>> /\ ~closed
  /\ LET m == Head(navs) IN
     \/ /\ m.kind # "load" /\ m.foreign
        /\ Resolve("cancel") /\ navs' = Tail(navs)
        /\ UNCHANGED <<bridge, events, pageVars>>
     \/ /\ m.kind = "ready" /\ ~m.foreign
        /\ BridgeReady(m.gen) /\ navs' = Tail(navs)
        /\ UNCHANGED pageVars
     \/ /\ m.kind = "not-ready" /\ ~m.foreign
        /\ BridgeNotReady(m.gen) /\ navs' = Tail(navs)
        /\ UNCHANGED <<channel, events, pageVars>>
     \/ /\ m.kind = "decision" /\ ~m.foreign
        /\ Resolve(m.decision) /\ navs' = Tail(navs)
        /\ UNCHANGED <<bridge, events, pageVars>>
     \/ \* a page load: the page goes with all it holds, without its clean-up code
        /\ m.kind = "load"
        /\ IF m.foreign THEN UNCHANGED <<bridge, pending>>
           ELSE bridge' = 0 /\ pending' = Undispatched(pending)
        /\ navs' = <<>> /\ page' = 0 /\ dialog' = "closed" /\ dirty' = {} /\ unsaved' = {}
        /\ UNCHANGED <<channel, events, mounts>>
  /\ UNCHANGED <<asked, waiter, decision, closed, moved>>

\* The web view may drop a fragment navigation that a newer one overtakes.
LoseNavigation ==
  /\ MayLose /\ Len(navs) > 1 /\ Head(navs).kind # "load"
  /\ navs' = Tail(navs)
  /\ UNCHANGED <<shellVars, events, pageVars>>

\* navigate_to_restarted_runtime: after a data command the sidecar has a new
\* ephemeral port, and the page is replaced by one it serves.
RestartSidecar ==
  /\ Restarts /\ ~moved /\ ~closed
  /\ moved' = TRUE
  /\ navs' = Append(navs, [Load EXCEPT !.foreign = TRUE])
  /\ UNCHANGED <<pending, bridge, asked, channel, waiter, decision, closed, events, pageVars>>

-----------------------------------------------------------------------------
(* The waiter thread of a request.                                          *)

Receive(r) ==
  /\ waiter[r] = "waiting" /\ channel[r] # "none"
  /\ waiter' = [waiter EXCEPT ![r] = "decided"]
  /\ decision' = [decision EXCEPT ![r] = IF channel[r] = "gone" THEN "cancel" ELSE channel[r]]
  /\ UNCHANGED <<pending, bridge, asked, channel, closed, moved, events, navs, pageVars>>

Timeout(r) ==
  /\ TimesOut /\ waiter[r] = "waiting" /\ channel[r] = "none"
  /\ waiter' = [waiter EXCEPT ![r] = "decided"]
  /\ decision' = [decision EXCEPT ![r] = "cancel"]
  /\ UNCHANGED <<pending, bridge, asked, channel, closed, moved, events, navs, pageVars>>

ClearRequest(r) ==
  /\ waiter[r] = "decided"
  /\ Clear(r)
  /\ waiter' = [waiter EXCEPT ![r] = IF Closes(decision[r]) THEN "finalizing" ELSE "done"]
  /\ UNCHANGED <<bridge, asked, channel, decision, closed, moved, events, navs, pageVars>>

\* finalize_close: the window goes, unless the sidecar cannot be stopped.
Finalize(r) ==
  /\ waiter[r] = "finalizing"
  /\ waiter' = [waiter EXCEPT ![r] = "done"]
  /\ closed' \in {TRUE, closed}
  /\ UNCHANGED <<pending, bridge, asked, channel, decision, moved, events, navs, pageVars>>

-----------------------------------------------------------------------------
(* The page.                                                                *)

Send(m) == navs' = Append(navs, m)

Mount ==
  /\ page = 0 /\ mounts < MaxPages /\ ~closed
  /\ \A i \in DOMAIN navs : navs[i].kind # "load"
  /\ mounts' = mounts + 1 /\ page' = mounts'
  /\ Send(Ready(mounts'))
  /\ UNCHANGED <<shellVars, events, dialog, dirty, unsaved>>

\* React remounts the coordinator; it is part of the chrome around every page,
\* and stays mounted while its dialog is open.
Unmount ==
  /\ page # 0 /\ dialog = "closed" /\ ~closed
  /\ page' = 0
  /\ Send(NotReady(page))
  /\ UNCHANGED <<shellVars, events, mounts, dialog, dirty, unsaved>>

\* The user reloads the page.
Reload ==
  /\ page # 0 /\ ~closed /\ mounts < MaxPages
  /\ \A i \in DOMAIN navs : navs[i].kind # "load"
  /\ Send(Load)
  /\ UNCHANGED <<shellVars, events, pageVars>>

\* The dialog is modal: while it is open no editor receives input.
Edit(o) ==
  /\ page # 0 /\ dialog = "closed" /\ ~closed
  /\ dirty' = dirty \cup {o}
  /\ UNCHANGED <<shellVars, events, navs, page, mounts, dialog, unsaved>>

\* The evaluated script runs in whatever page is there; without a listener
\* nothing happens.
CloseEvent ==
  /\ events > 0 /\ ~closed
  /\ events' = events - 1
  /\ \/ page = 0 /\ UNCHANGED <<dialog, navs>>
     \/ page # 0 /\ dirty = {} /\ Send(Decision("clean")) /\ UNCHANGED dialog
     \/ /\ page # 0 /\ dirty # {} /\ UNCHANGED navs
        /\ dialog' = IF dialog = "closed" THEN "open" ELSE dialog
  /\ UNCHANGED <<shellVars, page, mounts, dirty, unsaved>>

Cancel ==
  /\ page # 0 /\ dialog = "open" /\ ~closed
  /\ Send(Decision("cancel")) /\ dialog' = "closed"
  /\ UNCHANGED <<shellVars, events, page, mounts, dirty, unsaved>>

\* discardAndCloseDesktop.  Editors without a discard of their own stay dirty;
\* one whose save is in flight refuses, and then the dialog stays.
Discard ==
  /\ page # 0 /\ dialog = "open" /\ ~closed
  /\ dirty' \in SUBSET dirty
  /\ \/ Send(Decision("discard")) /\ dialog' = "closed"
     \/ Len(navs) < MaxNavs /\ Send(Decision("cancel")) /\ UNCHANGED dialog
  /\ UNCHANGED <<shellVars, events, page, mounts, unsaved>>

\* saveAndCloseDesktop: the dirty owners are saved one after the other.
SaveAll ==
  /\ page # 0 /\ dialog = "open" /\ ~closed
  /\ dialog' = "saving" /\ unsaved' = Owners
  /\ UNCHANGED <<shellVars, events, navs, page, mounts, dirty>>

SaveFailsIgnored(o) == unsaved' = unsaved \ {o} /\ UNCHANGED <<dialog, navs, dirty>> \* mutant
SaveFails(o) == /\ dialog' = "closed" /\ unsaved' = {} /\ Send(Decision("cancel"))
                /\ UNCHANGED dirty
SaveOwner(o) ==
  /\ page # 0 /\ dialog = "saving" /\ o \in unsaved /\ ~closed
  /\ \/ o \notin dirty /\ unsaved' = unsaved \ {o} /\ UNCHANGED <<dialog, navs, dirty>>
     \/ o \in dirty /\ unsaved' = unsaved \ {o} /\ dirty' = dirty \ {o} /\ UNCHANGED <<dialog, navs>>
     \/ o \in dirty /\ SaveFails(o)
  /\ UNCHANGED <<shellVars, events, page, mounts>>

Saved ==
  /\ page # 0 /\ dialog = "saving" /\ unsaved = {} /\ ~closed
  /\ dialog' = "closed" /\ Send(Decision("save"))
  /\ UNCHANGED <<shellVars, events, page, mounts, dirty, unsaved>>

EventLoop == RequestClose \/ HandleNavigation
Waiter(r) == Receive(r) \/ Timeout(r) \/ ClearRequest(r) \/ Finalize(r)
Saving    == Saved \/ \E o \in Owners : SaveOwner(o)
User      == \/ Mount \/ Unmount \/ Reload \/ Cancel \/ Discard \/ SaveAll
             \/ \E o \in Owners : Edit(o)

Next == \/ EventLoop \/ LoseNavigation \/ RestartSidecar \/ CloseEvent \/ Saving \/ User
        \/ \E r \in Requests : Waiter(r)
Spec == Init /\ [][Next]_vars

\* The threads run; the page's mounts and the user's choices are not forced.
Fairness == /\ WF_vars(HandleNavigation) /\ WF_vars(CloseEvent) /\ WF_vars(Saving)
            /\ \A r \in Requests : WF_vars(Waiter(r))
FairSpec == Spec /\ Fairness

-----------------------------------------------------------------------------
(* What must hold.                                                          *)

\* A request is pending exactly as long as a waiter can still take its answer:
\* a pending request whose waiter is gone would refuse every later close, and a
\* waiter whose request was cleared by another could never be answered.
WaiterHoldsRequest ==
  \A r \in Requests :
    /\ pending.gen = r => channel[r] = "none" /\ waiter[r] \in {"waiting", "decided"}
    /\ waiter[r] = "waiting" /\ channel[r] = "none" => pending.gen = r

\* A close is never asked into the void: when nothing is under way, a request
\* that is pending has its dialog on the mounted page, whatever remounts and
\* reloads it has seen.  (As long as the page is the one of the startup.)
QuestionIsShown ==
  ~MayLose /\ ~moved /\ pending.gen # 0 /\ page # 0 /\ navs = <<>> /\ events = 0 =>
    dialog # "closed"

\* The page answers "save" when no editor holds unsaved work any more.
SaveAnswersAreTrue == [][navs' = Append(navs, Decision("save")) => dirty = {}]_vars

\* The shell sees the questions that CloseProtocol promises.
Question(r) ==
  CASE waiter[r] = "none" -> "idle"
    [] waiter[r] = "waiting" /\ channel[r] = "none" -> "waiting"
    [] waiter[r] = "waiting" /\ channel[r] # "none" -> IF Closes(channel[r]) THEN "closing" ELSE "over"
    [] waiter[r] = "decided" -> IF Closes(decision[r]) THEN "closing" ELSE "over"
    [] waiter[r] = "finalizing" -> "closing"
    [] waiter[r] = "done" -> "over"
Protocol == INSTANCE CloseProtocol WITH question <- [r \in Requests |-> Question(r)]
ImplementsProtocol == Protocol!Spec

\* Every request comes to an end, answered or not.
QuestionEnds == pending.gen # 0 ~> pending.gen = 0

\* PRODUCT_SPEC.md:91: the way back, Escape and a click outside the dialog cancel
\* the close; nothing else does.
CancelIsChosen ==
  [][\A r \in Requests : channel[r] = "none" /\ channel'[r] = "cancel" =>
       Head(navs).decision = "cancel" /\ Head(navs).kind = "decision"]_vars
=============================================================================
