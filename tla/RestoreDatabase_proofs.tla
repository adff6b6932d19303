----------------------- MODULE RestoreDatabase_proofs -----------------------
(* The pending-restore directory offers at most one artifact, and a whole    *)
(* one, for any number of helpers that run, fail, die and overlap; what a    *)
(* helper answers is true, and what it replaces is kept.                     *)
EXTENDS RestoreDatabase, TLAPS

\* The steps of a publisher whose entry, if there is one, is its staging directory.
Unpublished == {"idle", "stage", "look", "make", "fill", "check", "publish"}
Consuming == {"mark-consumed", "empty"}

\* Who is where: a publisher at its own entry, a resume at that of another helper.
Places ==
  /\ \A h \in Helpers : pc[h] = "idle" => target[h] = None
  /\ \A h \in Helpers : target[h] # None => name[h] = "none" /\ pc[h] \notin PublishSteps
  /\ \A h \in Helpers : pc[h] \in ClaimSteps \union EndSteps => target[h] # None
  /\ \A h \in Helpers : pc[h] \in {"idle", "stage", "look", "make"} => name[h] = "none"
  /\ \A h \in Helpers : pc[h] \in {"fill", "check", "publish", "discard"} => name[h] = "staging"

\* A consumed artifact has one consumer and keeps its name until that removes it.
Consumers ==
  /\ \A h \in Helpers : pc[h] \in Consuming => name[target[h]] = "consumed"
  /\ \A g, h \in Helpers : pc[g] \in Consuming /\ pc[h] \in Consuming /\ target[g] = target[h]
       => g = h

\* Past its second look, an artifact is alone until it is consumed.
Passed(a) == pc[a] = "publish" \/ name[a] \in {"available", "processing"}
OnePassed == \A a, b \in Helpers : Passed(a) /\ Passed(b) => a = b

Wholeness == \A a \in Helpers :
  pc[a] \in {"check", "publish"} \/ name[a] \in {"available", "processing"}
  => Whole \subseteq files[a]

PInv == PendingType /\ pc \in [Helpers -> Steps] /\ Places /\ Consumers /\ OnePassed /\ Wholeness

----------------------------------------------------------------------------
\* What restoreDesktopDatabase does to the pending directory: it goes on to it.
LEMMA RestoreGoesOn ==
  ASSUME PInv, NEW h \in Helpers, Restoring(h)
  PROVE  /\ UNCHANGED <<app, ver, entries, target>>
         /\ \E s \in Steps \ (Consuming \union {"idle", "stage", "make", "fill", "check", "publish", "discard"}) :
              /\ pc' = [pc EXCEPT ![h] = s]
              /\ s \in PublishSteps => target[h] = None /\ name[h] = "none"
              /\ s \in ClaimSteps \union EndSteps => target[h] # None
PROOF
<1>. USE DEF PInv, PendingType, Restoring, Raise, Continue, Fail, Goto, entries, Resuming,
       PublishSteps, ClaimSteps, EndSteps, Steps, Ended, RestoreSteps, Consuming
<1>1. CASE Stage(h)
  BY <1>1 DEF Stage, Places
<1>2. CASE CheckLive(h)
  BY <1>2 DEF CheckLive
<1>3. CASE SaveLive(h)
  BY <1>3 DEF SaveLive
<1>4. CASE VerifyLive(h)
  BY <1>4 DEF VerifyLive
<1>5. CASE Switch(h)
  BY <1>5 DEF Switch
<1>6. CASE SyncSwitch(h)
  BY <1>6 DEF SyncSwitch
<1>7. CASE ReadBack(h)
  BY <1>7 DEF ReadBack
<1>8. CASE Rollback(h)
  BY <1>8 DEF Rollback
<1>9. CASE VerifyRollback(h)
  BY <1>9 DEF VerifyRollback
<1>10. CASE Cleanup(h)
  <2>1. UNCHANGED <<app, ver, entries, target>>
    OBVIOUS
  <2>2. \E s \in {"end", "consume", "mark", "return"} :
          /\ pc' = [pc EXCEPT ![h] = s]
          /\ s # "end" => target[h] # None
    <3>1. PICK removed \in BOOLEAN :
            pc' = [pc EXCEPT ![h] =
                     CASE ~Resuming(h) -> "end"
                       [] Resuming(h) /\ answer[h] = "restored" /\ removed -> "consume"
                       [] Resuming(h) /\ (flagged[h] \/ (answer[h] = "restored" /\ ~removed)) -> "mark"
                       [] OTHER -> "return"]
      BY <1>10, Zenon DEF Cleanup
    <3>. DEFINE s == CASE ~Resuming(h) -> "end"
                       [] Resuming(h) /\ answer[h] = "restored" /\ removed -> "consume"
                       [] Resuming(h) /\ (flagged[h] \/ (answer[h] = "restored" /\ ~removed)) -> "mark"
                       [] OTHER -> "return"
    <3>2. s \in {"end", "consume", "mark", "return"} /\ (s # "end" => target[h] # None)
      OBVIOUS
    <3>. QED
      BY <3>1, <3>2
  <2>. QED
    BY <2>1, <2>2
<1>. QED
  BY <1>1, <1>2, <1>3, <1>4, <1>5, <1>6, <1>7, <1>8, <1>9, <1>10 DEF RestoreStep

LEMMA RestoreKeepsInv ==
  ASSUME PInv, NEW h \in Helpers, Restoring(h)
  PROVE  PInv'
PROOF
<1>1. UNCHANGED <<app, ver, entries, target>>
  BY RestoreGoesOn
<1>2. PICK s \in Steps \ (Consuming \union {"idle", "stage", "make", "fill", "check", "publish", "discard"}) :
         /\ pc' = [pc EXCEPT ![h] = s]
         /\ s \in PublishSteps => target[h] = None /\ name[h] = "none"
         /\ s \in ClaimSteps \union EndSteps => target[h] # None
  BY RestoreGoesOn
<1>. USE <1>1, <1>2 DEF PInv, entries
<1>3. PendingType' /\ pc' \in [Helpers -> Steps]
  BY DEF PendingType
<1>4. Places'
  BY DEF Places, PublishSteps
<1>5. Consumers'
  BY DEF Consumers
<1>6. OnePassed'
  BY DEF OnePassed, Passed
<1>7. Wholeness'
  BY DEF Wholeness
<1>. QED
  BY <1>3, <1>4, <1>5, <1>6, <1>7

LEMMA BeginKeepsInv ==
  ASSUME PInv, NEW h \in Helpers, Begin(h)
  PROVE  PInv'
PROOF
<1>. USE DEF PInv, PendingType, Begin, Goto, entries
<1>1. PICK s \in {"stage", "inspect"} :
         /\ pc' = [pc EXCEPT ![h] = s]
         /\ s = "stage" => target' = target
         /\ s = "inspect" => \E a \in Helpers : target' = [target EXCEPT ![h] = a]
  OBVIOUS
<1>2. PendingType' /\ pc' \in [Helpers -> Steps]
  BY DEF Steps, RestoreSteps, ClaimSteps
<1>3. Places'
  <2>1. /\ UNCHANGED name
        /\ \A g \in Helpers \ {h} : target'[g] = target[g] /\ pc'[g] = pc[g]
        /\ pc[h] = "idle" /\ pc'[h] = s /\ name[h] = "none"
    BY <1>1 DEF Places
  <2>2. target'[h] # None <=> s = "inspect"
    <3>1. target[h] = None
      BY DEF Places
    <3>. QED
      BY <1>1, <3>1, SchemaAssumption
  <2>. QED
    BY <2>1, <2>2 DEF Places, PublishSteps, ClaimSteps, EndSteps
<1>4. Consumers'
  BY DEF Consumers, Consuming
<1>5. OnePassed'
  BY DEF OnePassed, Passed
<1>6. Wholeness'
  BY DEF Wholeness
<1>. QED
  BY <1>2, <1>3, <1>4, <1>5, <1>6

LEMMA DieKeepsInv ==
  ASSUME PInv, NEW h \in Helpers, Die(h)
  PROVE  PInv'
PROOF
<1>. USE DEF PInv, PendingType, Die, Raise, Goto, entries
<1>1. PendingType' /\ pc' \in [Helpers -> Steps]
  BY DEF Steps, Ended
<1>2. Places'
  BY DEF Places, PublishSteps, ClaimSteps, EndSteps
<1>3. Consumers'
  BY DEF Consumers, Consuming
<1>4. OnePassed' /\ Wholeness'
  BY DEF OnePassed, Passed, Wholeness
<1>. QED
  BY <1>1, <1>2, <1>3, <1>4

\* A publisher changes its own entry only, and is no resume.
LEMMA PublishKeepsInv ==
  ASSUME PInv, NEW h \in Helpers, PublishStep(h), UNCHANGED <<app, ver, target>>
  PROVE  PInv'
PROOF
<1>. USE DEF PInv, PendingType, Raise, Continue, Goto, Rename, entries
<1>1. target[h] = None /\ pc[h] \in PublishSteps
  BY DEF Places, PublishStep, Look, MakeStaging, Fill, CheckRoot, Publish, SyncRoot, Discard,
     PublishSteps
<1>2. PICK s \in PublishSteps \union {"cleanup"} : pc' = [pc EXCEPT ![h] = s]
  BY DEF PublishStep, Look, MakeStaging, Fill, CheckRoot, Publish, SyncRoot, Discard, PublishSteps
<1>3. pc' \in [Helpers -> Steps]
  BY <1>2 DEF Steps, PublishSteps, RestoreSteps
<1>4. PendingType'
  BY DEF PublishStep, Look, MakeStaging, Fill, CheckRoot, Publish, SyncRoot, Discard, Names,
     Kinds, Whole
<1>5. \A a \in Helpers \ {h} : name'[a] = name[a] /\ files'[a] = files[a] /\ pc'[a] = pc[a]
  BY DEF PublishStep, Look, MakeStaging, Fill, CheckRoot, Publish, SyncRoot, Discard
<1>6. Places'
  <2>1. pc'[h] \in {"idle", "stage", "look", "make"} => name'[h] = "none"
    BY DEF Places, PublishStep, Look, MakeStaging, Fill, CheckRoot, Publish, SyncRoot, Discard
  <2>2. pc'[h] \in {"fill", "check", "publish", "discard"} => name'[h] = "staging"
    BY DEF Places, PublishStep, Look, MakeStaging, Fill, CheckRoot, Publish, SyncRoot, Discard
  <2>. QED
    BY <1>1, <1>2, <1>5, <2>1, <2>2 DEF Places, PublishSteps, ClaimSteps, EndSteps
<1>7. Consumers'
  <2>1. \A g \in Helpers : pc'[g] \in Consuming => pc[g] \in Consuming /\ g # h
    BY <1>1, <1>2, <1>5 DEF Consuming, PublishSteps
  <2>2. name[h] = "consumed" => name'[h] = "consumed"
    BY DEF Places, PublishStep, Look, MakeStaging, Fill, CheckRoot, Publish, SyncRoot, Discard
  <2>3. \A a \in Helpers : name[a] = "consumed" => name'[a] = "consumed"
    BY <1>5, <2>2
  <2>4. \A g \in Helpers : pc[g] \in Consuming => target[g] \in Helpers
    BY DEF Places, Consuming, EndSteps
  <2>. QED
    BY <2>1, <2>3, <2>4 DEF Consumers
<1>8. OnePassed'
  <2>1. CASE CheckRoot(h) /\ Entries = {h}
    <3>1. \A a \in Helpers \ {h} : name[a] = "none"
      BY <2>1 DEF Entries
    <3>2. \A a \in Helpers \ {h} : ~Passed(a)
      BY <3>1 DEF Passed, Places
    <3>. QED
      BY <1>5, <3>2 DEF OnePassed, Passed
  <2>2. CASE ~(CheckRoot(h) /\ Entries = {h})
    <3>1. Passed(h)' => Passed(h)
      BY <2>2 DEF Passed, Places, PublishStep, Look, MakeStaging, Fill, CheckRoot, Publish,
         SyncRoot, Discard
    <3>. QED
      BY <1>5, <3>1 DEF OnePassed, Passed
  <2>. QED
    BY <2>1, <2>2
<1>9. Wholeness'
  <2>1. CASE Fill(h)
    BY <1>5, <2>1 DEF Wholeness, Fill, Places
  <2>2. CASE Discard(h)
    BY <1>5, <2>2 DEF Wholeness, Discard, Places
  <2>3. CASE ~Fill(h) /\ ~Discard(h)
    <3>1. UNCHANGED files
      BY <2>3 DEF PublishStep, Look, MakeStaging, Fill, CheckRoot, Publish, SyncRoot, Discard
    <3>2. pc'[h] \in {"check", "publish"} \/ name'[h] \in {"available", "processing"}
          => pc[h] \in {"check", "publish"} \/ name[h] \in {"available", "processing"}
      BY <2>3 DEF PublishStep, Look, MakeStaging, Fill, CheckRoot, Publish, SyncRoot, Discard, Places
    <3>. QED
      BY <1>5, <3>1, <3>2 DEF Wholeness
  <2>. QED
    BY <2>1, <2>2, <2>3
<1>. QED
  BY <1>3, <1>4, <1>6, <1>7, <1>8, <1>9

\* A resume changes the entry of its target only, which has been published.
LEMMA ResumeKeepsInv ==
  ASSUME PInv, NEW h \in Helpers, ResumeStep(h), UNCHANGED <<app, ver, target>>
  PROVE  PInv'
PROOF
<1>. USE DEF PInv, PendingType, Raise, Continue, Goto, Rename, GiveUp, At, Write, WriteFails, entries
<1>. DEFINE t == target[h]
<1>1. t \in Helpers /\ pc[h] \in ClaimSteps \union EndSteps
  BY SchemaAssumption DEF Places, ResumeStep, Inspect, Claim, MarkProcessing, Return, PutBack,
     MarkCleanupRequired, Consume, MarkConsumed, EmptyConsumed, ClaimSteps, EndSteps
<1>2. PICK s \in ClaimSteps \union EndSteps \union {"stage", "end"} : pc' = [pc EXCEPT ![h] = s]
  BY DEF ResumeStep, Inspect, Claim, MarkProcessing, Return, PutBack,
     MarkCleanupRequired, Consume, MarkConsumed, EmptyConsumed, ClaimSteps, EndSteps
<1>3. pc' \in [Helpers -> Steps]
  BY <1>2 DEF Steps, Ended, RestoreSteps
<1>4. PendingType'
  BY <1>1 DEF ResumeStep, Inspect, Claim, MarkProcessing, Return, PutBack,
     MarkCleanupRequired, Consume, MarkConsumed, EmptyConsumed, Names, Kinds, States
<1>5. /\ \A a \in Helpers \ {t} : name'[a] = name[a] /\ files'[a] = files[a]
      /\ \A a \in Helpers \ {h} : pc'[a] = pc[a]
  BY <1>1 DEF ResumeStep, Inspect, Claim, MarkProcessing, Return, PutBack,
     MarkCleanupRequired, Consume, MarkConsumed, EmptyConsumed
<1>6. \/ name'[t] = name[t]
      \/ name[t] = "available" /\ name'[t] = "processing"
      \/ name[t] = "processing" /\ name'[t] \in {"available", "consumed"}
      \/ name[t] = "consumed" /\ name'[t] = "none" /\ pc[h] = "empty"
  BY <1>1 DEF ResumeStep, Inspect, Claim, MarkProcessing, Return, PutBack,
     MarkCleanupRequired, Consume, MarkConsumed, EmptyConsumed, Consumers, Consuming
<1>7. Places'
  <2>1. s = "stage" => target[h] # None
    BY SchemaAssumption, <1>1
  <2>. QED
    BY <1>1, <1>2, <1>5, <1>6, <2>1, SchemaAssumption DEF Places, PublishSteps, ClaimSteps, EndSteps
<1>8. Consumers'
  <2>1. pc'[h] \in Consuming => name'[t] = "consumed"
    BY <1>1 DEF Consuming, Consumers, ResumeStep, Inspect, Claim, MarkProcessing, Return, PutBack,
       MarkCleanupRequired, Consume, MarkConsumed, EmptyConsumed
  <2>2. pc'[h] \in Consuming => pc[h] \in Consuming \/ name[t] = "processing"
    BY <1>1 DEF Consuming, ResumeStep, Inspect, Claim, MarkProcessing, Return, PutBack,
       MarkCleanupRequired, Consume, MarkConsumed, EmptyConsumed
  <2>3. \A g \in Helpers \ {h} : pc[g] \in Consuming /\ target[g] = t => name'[t] = "consumed"
    BY <1>1, <1>6 DEF Consumers, Consuming
  <2>4. \A g \in Helpers : pc[g] \in Consuming => target[g] \in Helpers
    BY DEF Places, Consuming, EndSteps
  <2>5. \A g \in Helpers : pc'[g] \in Consuming => name'[target[g]] = "consumed"
    <3>. TAKE g \in Helpers
    <3>1. CASE g = h
      BY <2>1, <3>1
    <3>2. CASE g # h
      BY <1>5, <2>3, <2>4, <3>2 DEF Consumers
    <3>. QED
      BY <3>1, <3>2
  <2>6. \A g \in Helpers \ {h} : pc'[g] \in Consuming /\ target[g] = t => pc'[h] \notin Consuming
    BY <1>5, <2>2 DEF Consumers
  <2>. QED
    BY <1>5, <2>5, <2>6 DEF Consumers
<1>9. OnePassed'
  <2>1. \A a \in Helpers : Passed(a)' => Passed(a)
    BY <1>1, <1>2, <1>5, <1>6 DEF Passed, ClaimSteps, EndSteps
  <2>. QED
    BY <2>1 DEF OnePassed
<1>10. Wholeness'
  <2>1. pc'[h] \notin {"check", "publish"}
    BY <1>2 DEF ClaimSteps, EndSteps
  <2>2. files[t] \subseteq files'[t] \/ name'[t] = "none"
    BY <1>1 DEF ResumeStep, Inspect, Claim, MarkProcessing, Return, PutBack,
       MarkCleanupRequired, Consume, MarkConsumed, EmptyConsumed
  <2>3. CASE name[t] = "consumed" /\ name'[t] = "none"
    BY <1>1, <1>5, <2>1, <2>3 DEF Wholeness, Places
  <2>4. CASE ~(name[t] = "consumed" /\ name'[t] = "none")
    <3>1. files[t] \subseteq files'[t]
      BY <1>1, <1>6, <2>2, <2>4 DEF ResumeStep, Inspect, Claim, MarkProcessing, Return, PutBack,
         MarkCleanupRequired, Consume, MarkConsumed, EmptyConsumed, Consumers, Consuming
    <3>. QED
      BY <1>1, <1>5, <1>6, <2>1, <3>1 DEF Wholeness
  <2>. QED
    BY <2>3, <2>4
<1>. QED
  BY <1>3, <1>4, <1>7, <1>8, <1>9, <1>10

----------------------------------------------------------------------------
LEMMA InitPInv == Init => PInv
PROOF
  BY SchemaAssumption DEF Init, PendingInit, PInv, PendingType, Places, Consumers, OnePassed, Passed,
     Wholeness, Consuming, Schemas, Names, States, Kinds, Steps, Ended, PublishSteps, ClaimSteps,
     EndSteps

\* Every step of any number of helpers, of which any number may run at once.
THEOREM PendingInductive == Spec => []PInv
<1>1. PInv /\ [Next]_vars => PInv'
  <2>. SUFFICES ASSUME PInv, [Next]_vars PROVE PInv'
    OBVIOUS
  <2>1. CASE UNCHANGED vars
    BY <2>1 DEF vars, entries, PInv, PendingType, Places, Consumers, OnePassed, Passed, Wholeness
  <2>2. CASE Update
    <3>1. app' \in Schemas
      BY <2>2, SchemaAssumption DEF Update, PInv, PendingType, Schemas
    <3>. QED
      BY <2>2, <3>1 DEF Update, entries, PInv, PendingType, Places, Consumers, OnePassed, Passed, Wholeness
  <2>3. ASSUME NEW h \in Helpers, Begin(h) \/ Pending(h) \/ Restoring(h) \/ Die(h)
        PROVE PInv'
    BY <2>3, BeginKeepsInv, PublishKeepsInv, ResumeKeepsInv, RestoreKeepsInv, DieKeepsInv DEF Pending
  <2>. QED
    BY <2>1, <2>2, <2>3 DEF Next
<1>. QED
  BY <1>1, InitPInv, PTL DEF Spec

(* No two artifacts are offered at once (publishPendingRestoreCandidate looks at
   the root again after it has made its own entry). *)
THEOREM OnlyOneOffer == Spec => []OneOffer
<1>1. PInv => OneOffer
  BY DEF PInv, OnePassed, Passed, OneOffer
<1>. QED
  BY <1>1, PendingInductive, PTL

----------------------------------------------------------------------------
\* What holds as long as no two helpers have run at once.
Alone == \A g, h \in Running : g = h

\* From its claim to its end a resume has its artifact under the processing name.
Holding == {"mark-processing", "stage", "check-live", "save", "verify", "switch", "switch-sync",
            "read-back", "rollback", "verify-rollback", "cleanup", "mark", "consume", "put-back"}
Held == \A h \in Helpers : pc[h] \in Holding /\ Resuming(h) => At(h, "processing")

\* The state in the status file.
Stated ==
  /\ \A a \in Helpers : name[a] = "available" => status[a] = "available"
  /\ \A h \in Helpers : pc[h] = "put-back" => status[target[h]] = "available"

\* Where a helper is whose candidate has gone live.
Switched == {"switch-sync", "read-back", "rollback", "cleanup", "mark", "consume", "mark-consumed",
             "empty", "end", "dead"}
Spent(h) ==
  /\ pc[h] \in Switched
  /\ pc[h] = "cleanup" => flagged[h] \/ answer[h] = "restored"
  /\ Resuming(h) => ~At(h, "available")
  /\ \A g \in Running : Resuming(h) /\ target[g] = target[h] => g = h

\* A target is an artifact that was published by a helper other than a resume.
Targets ==
  /\ \A g \in Helpers : Resuming(g) => target[target[g]] = None /\ pc[target[g]] \notin Unpublished
  /\ \A h \in Helpers : pc[h] \in Unpublished /\ ~Resuming(h) => status[h] = "available"

SInv ==
  /\ Targets
  /\ \A h \in applied : pc[h] \in Switched \union {"return", "put-back"}
  /\ ~overlapped => /\ Alone /\ Held /\ Stated
                    /\ \A h \in applied \ unsynced : Spent(h)

HTypes == /\ flagged \in [Helpers -> BOOLEAN] /\ answer \in [Helpers -> Answers \union {None}]
          /\ applied \in SUBSET Helpers /\ unsynced \in SUBSET Helpers
          /\ overlapped \in BOOLEAN

\* The history variables and the answers keep their types.
LEMMA HTypesKept == HTypes /\ PInv /\ [Next]_vars => HTypes'
PROOF
<1>. SUFFICES ASSUME HTypes, PInv, [Next]_vars PROVE HTypes'
  OBVIOUS
<1>. USE DEF HTypes, Raise, Continue, Fail, Answers, PInv, PendingType
<1>1. CASE UNCHANGED vars
  BY <1>1 DEF vars, rvars
<1>2. CASE Update
  BY <1>2 DEF Update, rvars
<1>3. ASSUME NEW h \in Helpers, Begin(h) PROVE HTypes'
  BY <1>3 DEF Begin
<1>4. ASSUME NEW h \in Helpers, Die(h) PROVE HTypes'
  BY <1>4 DEF Die
<1>5. ASSUME NEW h \in Helpers, PublishStep(h), UNCHANGED <<rvars, overlapped>> PROVE HTypes'
  BY <1>5 DEF rvars, PublishStep, Look, MakeStaging, Fill, CheckRoot, Publish, SyncRoot, Discard
<1>6. ASSUME NEW h \in Helpers, ResumeStep(h), UNCHANGED <<rvars, overlapped>> PROVE HTypes'
  BY <1>6 DEF rvars, GiveUp, ResumeStep, Inspect, Claim, MarkProcessing, Return, PutBack,
     MarkCleanupRequired, Consume, MarkConsumed, EmptyConsumed
<1>7. ASSUME NEW h \in Helpers, Restoring(h) PROVE HTypes'
  <2>1. overlapped' = overlapped
    BY <1>7 DEF Restoring
  <2>2. CASE Stage(h) \/ CheckLive(h) \/ SaveLive(h) \/ VerifyLive(h) \/ Switch(h)
    BY <2>1, <2>2 DEF Stage, CheckLive, SaveLive, VerifyLive, Switch
  <2>3. CASE SyncSwitch(h)
    <3>1. (~seen[h].sound) \in BOOLEAN
      OBVIOUS
    <3>. QED
      BY <2>1, <2>3, <3>1 DEF SyncSwitch
  <2>4. CASE ReadBack(h) \/ Rollback(h)
    BY <2>1, <2>4 DEF ReadBack, Rollback
  <2>5. CASE VerifyRollback(h)
    BY <2>1, <2>5 DEF VerifyRollback, Matches
  <2>6. CASE Cleanup(h)
    BY <2>1, <2>6 DEF Cleanup
  <2>. QED
    BY <1>7, <2>2, <2>3, <2>4, <2>5, <2>6 DEF Restoring, RestoreStep
<1>. QED
  BY <1>1, <1>2, <1>3, <1>4, <1>5, <1>6, <1>7 DEF Next, Pending

LEMMA BeginKeepsSpent ==
  ASSUME PInv, HTypes, SInv, NEW h \in Helpers, Begin(h)
  PROVE  SInv'
PROOF
<1>. USE DEF PInv, PendingType, HTypes, Begin, Goto, entries, Resuming, At
<1>1. /\ pc[h] = "idle" /\ target[h] = None /\ name[h] = "none" /\ h \notin applied
      /\ pc'[h] \in {"stage", "inspect"}
      /\ \A g \in Helpers \ {h} : pc'[g] = pc[g] /\ target'[g] = target[g]
      /\ UNCHANGED <<name, status, applied, unsynced, flagged, answer>>
  BY DEF Places, SInv, Switched
<1>2. pc'[h] = "stage" => target'[h] = None
  BY <1>1
<1>3. target'[h] # None =>
        /\ target'[h] \in Helpers \ {h} /\ name[target'[h]] = "available"
        /\ target[target'[h]] = None /\ pc[target'[h]] \notin Unpublished
  <2>1. SUFFICES ASSUME NEW a \in Helpers, Offered(a), target' = [target EXCEPT ![h] = a]
                 PROVE  /\ a # h /\ name[a] = "available"
                        /\ target[a] = None /\ pc[a] \notin Unpublished
    BY <1>1
  <2>. QED
    BY <1>1, <2>1 DEF Offered, Places, Unpublished
<1>4. Targets'
  <2>1. \A g \in Helpers \ {h} : Resuming(g) => target[g] \in Helpers \ {h}
    BY <1>1 DEF SInv, Targets, Unpublished
  <2>2. \A g \in Helpers : pc'[g] \in Unpublished => pc[g] \in Unpublished
    BY <1>1 DEF Unpublished
  <2>. QED
    BY <1>1, <1>3, <2>1, <2>2 DEF SInv, Targets, Unpublished
<1>5. \A g \in applied' : pc'[g] \in Switched \union {"return", "put-back"}
  BY <1>1 DEF SInv
<1>6. ASSUME ~overlapped' PROVE Alone' /\ Held' /\ Stated' /\ \A g \in applied' \ unsynced' : Spent(g)'
  <2>1. ~overlapped /\ Running = {}
    BY <1>6
  <2>2. \A g \in Helpers \ {h} : pc'[g] \in Ended
    BY <1>1, <2>1 DEF Running
  <2>3. Alone' /\ Held' /\ Stated'
    BY <1>1, <1>2, <2>1, <2>2 DEF Alone, Running, Held, Holding, Ended, Stated, SInv
  <2>4. \A g \in applied' \ unsynced' : Spent(g)'
    BY <1>1, <1>3, <2>1, <2>2 DEF Spent, SInv, Running, Ended, Switched
  <2>. QED
    BY <2>3, <2>4
<1>. QED
  BY <1>4, <1>5, <1>6 DEF SInv

LEMMA DieKeepsSpent ==
  ASSUME PInv, HTypes, SInv, NEW h \in Helpers, Die(h)
  PROVE  SInv'
PROOF
<1>. USE DEF PInv, PendingType, HTypes, Die, Raise, Goto, entries, Resuming, At
<1>1. /\ pc' = [pc EXCEPT ![h] = "dead"]
      /\ UNCHANGED <<name, status, target, applied, unsynced, overlapped>>
      /\ \A g \in Helpers \ {h} : flagged'[g] = flagged[g] /\ answer'[g] = answer[g]
  OBVIOUS
<1>2. Targets'
  BY <1>1 DEF SInv, Targets, Unpublished
<1>3. \A g \in applied' : pc'[g] \in Switched \union {"return", "put-back"}
  BY <1>1 DEF SInv, Switched
<1>4. Running' \subseteq Running
  BY <1>1 DEF Running, Ended
<1>5. ASSUME ~overlapped PROVE Alone' /\ Held' /\ Stated' /\ \A g \in applied \ unsynced : Spent(g)'
  <2>1. Alone' /\ Held' /\ Stated'
    BY <1>1, <1>4, <1>5 DEF SInv, Alone, Held, Holding, Stated
  <2>2. \A g \in applied \ unsynced : Spent(g)'
    BY <1>1, <1>4, <1>5 DEF SInv, Spent, Switched
  <2>. QED
    BY <2>1, <2>2
<1>. QED
  BY <1>1, <1>2, <1>3, <1>5 DEF SInv

LEMMA PublishKeepsSpent ==
  ASSUME PInv, HTypes, SInv, NEW h \in Helpers, PublishStep(h),
         UNCHANGED <<app, ver, target, rvars, overlapped>>
  PROVE  SInv'
PROOF
<1>. USE DEF PInv, PendingType, HTypes, Raise, Continue, Goto, Rename, entries, rvars, Resuming, At
<1>1. /\ target[h] = None /\ pc[h] \in PublishSteps /\ status' = status
      /\ h \notin applied
      /\ \A g \in Helpers \ {h} : pc'[g] = pc[g] /\ answer'[g] = answer[g] /\ name'[g] = name[g]
  BY DEF Places, PublishStep, Look, MakeStaging, Fill, CheckRoot, Publish, SyncRoot, Discard,
     PublishSteps, SInv, Switched
<1>2. pc'[h] \in PublishSteps \union {"cleanup"}
  BY DEF PublishStep, Look, MakeStaging, Fill, CheckRoot, Publish, SyncRoot, Discard, PublishSteps
<1>3. pc'[h] \in Unpublished => pc[h] \in Unpublished
  BY DEF PublishStep, Look, MakeStaging, Fill, CheckRoot, Publish, SyncRoot, Discard, Unpublished
<1>4. \/ name'[h] = name[h] \/ name'[h] # "available"
      \/ pc[h] = "publish"
  BY DEF PublishStep, Look, MakeStaging, Fill, CheckRoot, Publish, SyncRoot, Discard
<1>5. Targets'
  BY <1>1, <1>3 DEF SInv, Targets
<1>6. \A g \in applied' : pc'[g] \in Switched \union {"return", "put-back"}
  BY <1>1 DEF SInv
<1>7. Running' = Running /\ h \in Running
  BY <1>1, <1>2 DEF Running, Ended, PublishSteps
<1>8. \A g \in Helpers : Resuming(g) /\ target[g] = h => pc[h] \notin Unpublished
  BY DEF SInv, Targets
<1>9. ASSUME ~overlapped PROVE Alone' /\ Held' /\ Stated' /\ \A g \in applied \ unsynced : Spent(g)'
  <2>1. \A g \in Helpers \ {h} : g \notin Running
    BY <1>7, <1>9 DEF SInv, Alone
  <2>2. Alone' /\ Held'
    BY <1>1, <1>7, <1>9, <2>1 DEF SInv, Alone, Held, Holding, Running, Ended
  <2>3. Stated'
    <3>1. \A g \in Helpers : pc'[g] # "put-back"
      BY <1>1, <1>2, <2>1 DEF Running, Ended, PublishSteps
    <3>2. pc[h] = "publish" => status[h] = "available"
      BY <1>1 DEF SInv, Targets, Unpublished
    <3>. QED
      BY <1>1, <1>4, <1>9, <3>1, <3>2 DEF SInv, Stated
  <2>4. \A g \in applied \ unsynced : Spent(g)'
    <3>1. \A g \in applied \ unsynced : Resuming(g) => name'[target[g]] # "available"
      BY <1>1, <1>4, <1>8, <1>9 DEF SInv, Spent, Unpublished
    <3>. QED
      BY <1>1, <1>7, <1>9, <3>1 DEF SInv, Spent
  <2>. QED
    BY <2>2, <2>3, <2>4
<1>. QED
  BY <1>5, <1>6, <1>9 DEF SInv

LEMMA ResumeKeepsSpent ==
  ASSUME PInv, HTypes, SInv, NEW h \in Helpers, ResumeStep(h),
         UNCHANGED <<app, ver, target, rvars, overlapped>>
  PROVE  SInv'
PROOF
<1>. USE DEF PInv, PendingType, HTypes, Raise, Continue, Goto, Rename, GiveUp, At, Write, WriteFails,
       entries, rvars, Resuming
<1>. DEFINE t == target[h]
<1>1. t \in Helpers /\ t # None /\ pc[h] \in ClaimSteps \union EndSteps
  BY SchemaAssumption DEF Places, ResumeStep, Inspect, Claim, MarkProcessing, Return, PutBack,
     MarkCleanupRequired, Consume, MarkConsumed, EmptyConsumed, ClaimSteps, EndSteps
<1>2. /\ \A g \in Helpers \ {t} : name'[g] = name[g] /\ status'[g] = status[g]
      /\ \A g \in Helpers \ {h} : pc'[g] = pc[g] /\ answer'[g] = answer[g]
      /\ UNCHANGED <<target, flagged, applied, unsynced, overlapped>>
  BY <1>1 DEF ResumeStep, Inspect, Claim, MarkProcessing, Return, PutBack,
     MarkCleanupRequired, Consume, MarkConsumed, EmptyConsumed
<1>3. pc'[h] \in ClaimSteps \union EndSteps \union {"stage", "end"}
  BY DEF ResumeStep, Inspect, Claim, MarkProcessing, Return, PutBack,
     MarkCleanupRequired, Consume, MarkConsumed, EmptyConsumed, ClaimSteps, EndSteps
<1>4. Targets'
  <2>1. /\ \A g \in Helpers : Resuming(g) => g # t /\ target[g] # h
        /\ pc[t] \notin Unpublished
    BY <1>1 DEF SInv, Targets
  <2>2. \A g \in Helpers : pc'[g] \in Unpublished /\ ~Resuming(g) => pc[g] \in Unpublished /\ g # t
    BY <1>1, <1>2, <2>1
  <2>. QED
    BY <1>1, <1>2, <2>1, <2>2 DEF SInv, Targets
<1>5. h \in applied => pc'[h] \in Switched \union {"return", "put-back"}
  BY <1>1 DEF SInv, Switched, ResumeStep, Inspect, Claim, MarkProcessing, Return, PutBack,
     MarkCleanupRequired, Consume, MarkConsumed, EmptyConsumed
<1>6. h \in Running /\ Running' \subseteq Running
  BY <1>1, <1>2 DEF Running, Ended, ClaimSteps, EndSteps
<1>7. ASSUME ~overlapped PROVE Alone' /\ Held' /\ Stated' /\ \A g \in applied \ unsynced : Spent(g)'
  <2>1. \A g \in Helpers \ {h} : pc[g] \in Ended
    BY <1>6, <1>7 DEF SInv, Alone, Running
  <2>2. Alone'
    BY <1>6, <1>7 DEF SInv, Alone
  <2>3. Held'
    <3>1. pc'[h] \in Holding => name'[t] = "processing"
      <4>1. pc[h] \in Holding => name[t] = "processing"
        BY <1>1, <1>7 DEF SInv, Held
      <4>. QED
        BY <1>1, <4>1 DEF Holding, ResumeStep, Inspect, Claim, MarkProcessing, Return, PutBack,
     MarkCleanupRequired, Consume, MarkConsumed, EmptyConsumed
    <3>. QED
      BY <1>2, <2>1, <3>1 DEF Held, Holding, Ended
  <2>4. Stated'
    <3>1. name[t] = "available" => status[t] = "available"
      BY <1>1, <1>7 DEF SInv, Stated
    <3>2. pc[h] = "put-back" => status[t] = "available"
      BY <1>7 DEF SInv, Stated
    <3>3. name'[t] = "available" => status'[t] = "available"
      BY <1>1, <3>1, <3>2 DEF ResumeStep, Inspect, Claim, MarkProcessing, Return, PutBack,
     MarkCleanupRequired, Consume, MarkConsumed, EmptyConsumed
    <3>4. pc'[h] = "put-back" => status'[t] = "available"
      BY <1>1 DEF ResumeStep, Inspect, Claim, MarkProcessing, Return, PutBack,
     MarkCleanupRequired, Consume, MarkConsumed, EmptyConsumed
    <3>. QED
      BY <1>2, <1>7, <2>1, <3>3, <3>4 DEF SInv, Stated, Ended
  <2>5. ASSUME NEW g \in applied \ unsynced PROVE Spent(g)'
    <3>1. Spent(g) /\ g \in Helpers
      BY <1>7 DEF SInv
    <3>2. CASE g = h
      <4>1. pc[h] \in {"mark", "consume", "mark-consumed", "empty"}
        BY <1>1, <3>1, <3>2 DEF Spent, Switched, ClaimSteps, EndSteps
      <4>2. pc'[h] \in {"mark-consumed", "empty", "end"} /\ name'[t] # "available"
        <5>1. name[t] # "available"
          BY <3>1, <3>2, <1>1 DEF Spent
        <5>. QED
          BY <1>1, <4>1, <5>1 DEF ResumeStep, Inspect, Claim, MarkProcessing, Return, PutBack,
     MarkCleanupRequired, Consume, MarkConsumed, EmptyConsumed
      <4>. QED
        BY <1>2, <1>6, <3>1, <3>2, <4>2 DEF Spent, Switched
    <3>3. CASE g # h
      <4>1. Resuming(g) => target[g] # t /\ target[g] \in Helpers
        BY <1>6, <3>1, <3>3 DEF Spent
      <4>. QED
        BY <1>2, <1>6, <3>1, <3>3, <4>1 DEF Spent
    <3>. QED
      BY <3>2, <3>3
  <2>. QED
    BY <1>2, <2>2, <2>3, <2>4, <2>5
<1>. QED
  BY <1>2, <1>4, <1>5, <1>7 DEF SInv

LEMMA RestoreKeepsSpent ==
  ASSUME PInv, HTypes, SInv, NEW h \in Helpers, Restoring(h)
  PROVE  SInv'
PROOF
<1>. USE DEF PInv, PendingType, HTypes, Raise, Continue, Fail, Goto, entries, rvars, Resuming, At
<1>1. UNCHANGED <<name, status, target, overlapped>>
  BY DEF Restoring
<1>2. PICK s \in Steps \ (Consuming \union {"idle", "stage", "make", "fill", "check", "publish", "discard"}) :
         pc' = [pc EXCEPT ![h] = s]
  BY RestoreGoesOn
<1>3. pc[h] \in RestoreSteps
  BY DEF Restoring, RestoreStep, Stage, CheckLive, SaveLive, VerifyLive, Switch, SyncSwitch,
     ReadBack, Rollback, VerifyRollback, Cleanup, RestoreSteps
<1>4. s \in Unpublished => pc[h] \in Unpublished
  BY <1>2 DEF Restoring, RestoreStep, Stage, CheckLive, SaveLive, VerifyLive, Switch, SyncSwitch,
     ReadBack, Rollback, VerifyRollback, Cleanup, Unpublished
<1>5. Targets'
  BY <1>1, <1>2, <1>4 DEF SInv, Targets
<1>6. /\ applied' \subseteq applied \union {h} /\ unsynced' \subseteq unsynced \union {h}
      /\ applied' \ {h} = applied \ {h} /\ unsynced' \ {h} = unsynced \ {h}
      /\ \A g \in Helpers \ {h} : pc'[g] = pc[g] /\ flagged'[g] = flagged[g] /\ answer'[g] = answer[g]
  BY DEF Restoring, RestoreStep, Stage, CheckLive, SaveLive, VerifyLive, Switch, SyncSwitch,
     ReadBack, Rollback, VerifyRollback, Cleanup
<1>7. h \in applied' => s \in Switched \union {"return", "put-back"}
  BY <1>2, <1>3 DEF SInv, Switched, Restoring, RestoreStep, Stage, CheckLive, SaveLive, VerifyLive,
     Switch, SyncSwitch, ReadBack, Rollback, VerifyRollback, Cleanup
<1>8. h \in Running /\ Running' \subseteq Running
  BY <1>2, <1>3 DEF Running, Ended, RestoreSteps
<1>9. ASSUME ~overlapped PROVE Alone' /\ Held' /\ Stated' /\ \A g \in applied' \ unsynced' : Spent(g)'
  <2>1. \A g \in Helpers \ {h} : pc[g] \in Ended
    BY <1>8, <1>9 DEF SInv, Alone, Running
  <2>2. Alone'
    BY <1>8, <1>9 DEF SInv, Alone
  <2>3. pc[h] \in Holding
    BY <1>3 DEF RestoreSteps, Holding
  <2>4. Resuming(h) => name[target[h]] = "processing"
    BY <1>9, <2>3 DEF SInv, Held
  <2>5. Held'
    BY <1>1, <1>2, <2>1, <2>4 DEF Held, Holding, Ended
  <2>6. Stated'
    <3>1. s = "put-back" => FALSE
      BY <1>2 DEF Restoring, RestoreStep, Stage, CheckLive, SaveLive, VerifyLive, Switch, SyncSwitch,
         ReadBack, Rollback, VerifyRollback, Cleanup
    <3>. QED
      BY <1>1, <1>2, <1>9, <3>1 DEF SInv, Stated
  <2>7. ASSUME h \in applied' \ unsynced' PROVE Spent(h)'
    <3>1. s \in Switched /\ (s = "cleanup" => flagged'[h] \/ answer'[h] = "restored")
      <4>1. h \in applied => \/ pc[h] \in {"switch-sync", "read-back", "rollback"}
                             \/ pc[h] = "cleanup" /\ (h \in unsynced \/ flagged[h] \/ answer[h] = "restored")
        BY <1>3, <1>9 DEF SInv, Spent, Switched, RestoreSteps
      <4>2. CASE Stage(h) \/ CheckLive(h) \/ SaveLive(h) \/ VerifyLive(h)
        BY <2>7, <4>1, <4>2 DEF Restoring, Stage, CheckLive, SaveLive, VerifyLive
      <4>3. CASE Switch(h)
        BY <1>2, <2>7, <4>1, <4>3 DEF Switch, Switched
      <4>4. CASE SyncSwitch(h)
        BY <1>2, <2>7, <4>4 DEF SyncSwitch, Switched
      <4>5. CASE ReadBack(h)
        BY <1>2, <2>7, <4>5 DEF ReadBack, Switched
      <4>6. CASE Rollback(h)
        BY <1>2, <2>7, <4>6 DEF Rollback, Switched
      <4>7. CASE VerifyRollback(h)
        BY <2>7, <4>1, <4>7 DEF VerifyRollback
      <4>8. CASE Cleanup(h)
        <5>1. h \in applied /\ h \notin unsynced
          BY <2>7, <4>8 DEF Cleanup
        <5>2. flagged[h] \/ answer[h] = "restored"
          BY <4>1, <4>8, <5>1 DEF Cleanup
        <5>. QED
          BY <1>2, <4>8, <5>2 DEF Cleanup, Switched
      <4>. QED
        BY <4>2, <4>3, <4>4, <4>5, <4>6, <4>7, <4>8 DEF Restoring, RestoreStep
    <3>2. \A g \in Running' : g = h
      BY <1>8, <2>2 , <2>1 DEF Running
    <3>. QED
      BY <1>1, <1>2, <2>4, <3>1, <3>2 DEF Spent
  <2>8. ASSUME NEW g \in applied' \ unsynced', g # h PROVE Spent(g)'
    <3>1. g \in applied \ unsynced /\ g \in Helpers
      BY <1>6, <2>8
    <3>2. Spent(g)
      BY <1>9, <3>1 DEF SInv
    <3>. QED
      BY <1>1, <1>6, <1>8, <2>8, <3>1, <3>2 DEF Spent
  <2>. QED
    BY <2>2, <2>5, <2>6, <2>7, <2>8
<1>10. \A g \in applied' : pc'[g] \in Switched \union {"return", "put-back"}
  BY <1>2, <1>6, <1>7 DEF SInv
<1>. QED
  BY <1>1, <1>5, <1>9, <1>10 DEF SInv

LEMMA InitSInv == Init => HTypes /\ SInv
<1>. SUFFICES ASSUME Init PROVE HTypes /\ SInv
  OBVIOUS
<1>1. HTypes
  BY DEF Init, HTypes, Answers
<1>2. /\ \A h \in Helpers : pc[h] = "idle" /\ name[h] = "none" /\ status[h] = "available"
      /\ \A h \in Helpers : ~Resuming(h)
      /\ applied = {}
  BY DEF Init, PendingInit, Resuming
<1>3. Running = {}
  BY <1>2 DEF Running, Ended
<1>4. Targets /\ Alone /\ Held /\ Stated
  BY <1>2, <1>3 DEF Targets, Alone, Held, Stated
<1>. QED
  BY <1>1, <1>2, <1>4 DEF SInv

LEMMA OthersKeepSpent == PInv /\ HTypes /\ SInv /\ (UNCHANGED vars \/ Update) => SInv'
PROOF
  BY DEF vars, entries, rvars, Update, SInv, Targets, Alone, Held, Stated, Spent, Running, Resuming, At

THEOREM SpentInductive == Spec => [](PInv /\ HTypes /\ SInv)
<1>. DEFINE Inv == PInv /\ HTypes /\ SInv
<1>1. Init => Inv
  BY InitPInv, InitSInv
<1>2. PInv' /\ Inv /\ [Next]_vars => Inv'
  <2>. SUFFICES ASSUME PInv', Inv, [Next]_vars PROVE SInv'
    BY HTypesKept
  <2>1. ASSUME NEW h \in Helpers, Begin(h) \/ Pending(h) \/ Restoring(h) \/ Die(h)
        PROVE SInv'
    BY <2>1, BeginKeepsSpent, PublishKeepsSpent, ResumeKeepsSpent, RestoreKeepsSpent, DieKeepsSpent
       DEF Pending, disk
  <2>. QED
    BY <2>1, OthersKeepSpent DEF Next
<1>. QED
  BY <1>1, <1>2, PendingInductive, PTL DEF Spec

(* The name "available" covers a whole artifact at every step, and one whose
   status file says so unless helpers overlapped (releasePendingRestoreClaim
   writes the status before it renames). *)
THEOREM OffersAreWhole == Spec => []OfferIsWhole
<1>1. PInv /\ HTypes /\ SInv => OfferIsWhole
  BY DEF PInv, Wholeness, SInv, Stated, OfferIsWhole
<1>. QED
  BY <1>1, SpentInductive, PTL

(* Without overlap an artifact whose data went live is not offered again, but for
   the sync failure switchRestoreDatabase does not report. *)
THEOREM AppliedArtifactsAreSpent == Spec => []AppliedIsSpent
<1>1. PInv /\ HTypes /\ SInv => AppliedIsSpent
  BY DEF SInv, Spent, At, AppliedIsSpent
<1>. QED
  BY <1>1, SpentInductive, PTL

----------------------------------------------------------------------------
\* The database files.
Copies == File \union {Missing}
DTypes == /\ live \in Copies /\ saved \in [Helpers -> Copies] /\ seen \in [Helpers -> Copies]
          /\ recovery \in [Helpers -> BOOLEAN]

LEMMA CopyTypes ==
  ASSUME NEW f \in Copies, NEW h \in Helpers, NEW as \in {"live", "candidate", "backup", "rollback"}
  PROVE  Copy(f, h, as) \in Copies
<1>. DEFINE Any == [by : Data, as : {"missing", "live", "candidate", "backup", "rollback"},
                    of : Data, sound : BOOLEAN]
<1>1. f \in Any
  <2>1. Missing \in Any
    BY DEF Missing, Data
  <2>2. CASE f \in File
    BY <2>2 DEF File
  <2>. QED
    BY <2>1, <2>2 DEF Copies
<1>2. h \in Data
  BY DEF Data
<1>3. [f EXCEPT !.by = h, !.as = as] \in File
  <2>1. ASSUME NEW r \in Any PROVE [r EXCEPT !.by = h, !.as = as] \in File
    BY <1>2 DEF File
  <2>. QED
    BY <1>1, <2>1
<1>. QED
  BY <1>3 DEF Copies, Copy

LEMMA CandidateTypes == \A h \in Helpers : PendingType => Candidate(h) \in Copies
BY DEF Copies, Candidate, File, Data, Source, PendingType

LEMMA DTypesKept == DTypes /\ PInv /\ [Next]_vars => DTypes'
PROOF
<1>. SUFFICES ASSUME DTypes, PInv, [Next]_vars PROVE DTypes'
  OBVIOUS
<1>. USE DEF DTypes, Raise, Continue, Fail, disk
<1>1. CASE UNCHANGED vars
  BY <1>1 DEF vars, rvars
<1>2. CASE Update
  BY <1>2 DEF Update, rvars
<1>3. Missing \in Copies
  BY DEF Copies
<1>4. ASSUME NEW h \in Helpers, Begin(h) PROVE DTypes'
  BY <1>4 DEF Begin
<1>5. ASSUME NEW h \in Helpers, Die(h) PROVE DTypes'
  BY <1>3, <1>5 DEF Die, Forget
<1>6. ASSUME NEW h \in Helpers, Pending(h) PROVE DTypes'
  BY <1>6 DEF Pending, rvars
<1>7. ASSUME NEW h \in Helpers, Restoring(h) PROVE DTypes'
  <2>1. CASE Stage(h) \/ CheckLive(h) \/ VerifyLive(h)
    BY <2>1 DEF Stage, CheckLive, VerifyLive
  <2>2. CASE SaveLive(h)
    <3>1. Copy(live, h, "backup") \in Copies
      BY CopyTypes
    <3>. QED
      BY <2>2, <3>1 DEF SaveLive
  <2>3. CASE Switch(h)
    BY <2>3, CandidateTypes DEF Switch, PInv
  <2>4. CASE SyncSwitch(h) \/ ReadBack(h) \/ VerifyRollback(h)
    BY <2>4 DEF SyncSwitch, ReadBack, VerifyRollback
  <2>5. CASE Rollback(h)
    <3>1. Copy(saved[h], h, "rollback") \in Copies
      BY CopyTypes
    <3>. QED
      BY <2>5, <3>1 DEF Rollback
  <2>6. CASE Cleanup(h)
    BY <1>3, <2>6 DEF Cleanup, Forget
  <2>. QED
    BY <1>7, <2>1, <2>2, <2>3, <2>4, <2>5, <2>6 DEF Restoring, RestoreStep
<1>. QED
  BY <1>1, <1>2, <1>4, <1>5, <1>6, <1>7 DEF Next

LEMMA InitDTypes == Init => DTypes
<1>1. \A sound \in BOOLEAN : Original(sound) \in File
  BY DEF Original, File, Data
<1>2. \A sound \in BOOLEAN : Original(sound) \in Copies /\ Missing \in Copies
  BY <1>1 DEF Copies
<1>. QED
  BY <1>2 DEF Init, DTypes

(* Every variable of the helpers and of the directory keeps its type. *)
THEOREM RestoreTypeCorrect == Spec => []TypeOK
<1>1. PInv /\ HTypes /\ DTypes => TypeOK
  BY DEF PInv, HTypes, DTypes, Copies, TypeOK
<1>. QED
  BY <1>1, InitDTypes, DTypesKept, SpentInductive, PTL DEF Spec

----------------------------------------------------------------------------
(* What a helper answers, and what became of its artifact.                   *)

\* Until its switch a helper has answered nothing and left the live file alone.
Before == {"idle", "stage", "inspect", "claim", "mark-processing", "look", "make", "fill", "check",
           "publish", "sync", "check-live", "save", "verify", "switch"}
Result(h) ==
  /\ answer[h] = "restored" => h \in applied
  /\ answer[h] \in {"refused", "claim-failed", "newer", "publish-failed", "restore-failed"}
       => h \notin applied
  /\ answer[h] = "switch-failed" => (h \in applied <=> flagged[h] \/ h \in unsynced)
Outcome(h) ==
  /\ pc[h] \in Before =>
       answer[h] = None /\ h \notin applied /\ h \notin unsynced /\ ~flagged[h]
  /\ pc[h] \in {"switch-sync", "read-back", "rollback"} =>
       answer[h] = None /\ h \in applied /\ h \notin unsynced /\ ~flagged[h]
  /\ pc[h] \in {"verify-rollback", "dead"} => answer[h] = None
  /\ pc[h] = "cleanup" /\ answer[h] = "restored" => ~flagged[h]
  /\ pc[h] = "mark" => flagged[h]
  /\ pc[h] \in {"discard", "mark", "return", "put-back"} => answer[h] # "restored"
  /\ pc[h] \in {"consume", "mark-consumed", "empty"} => answer[h] = "restored"
  /\ Result(h)

\* The artifact of a resume that succeeded is gone, and does not come back.
Used == \A h \in Helpers :
  pc[h] = "end" /\ Resuming(h) /\ answer[h] = "restored" => name[target[h]] = "none"

\* Without overlap a resume finds the publisher of its artifact gone.
Publishers ==
  ~overlapped => \A h \in Helpers : Resuming(h) => pc[target[h]] \in {"end", "dead"}

AInv == (\A h \in Helpers : Outcome(h)) /\ Used /\ Publishers /\ FailedResumeReturnsClaim

\* What a helper keeps of the live file has the content it saw there, and the
\* file is still the one it saw when it is about to replace it.
Unsaved == {"idle", "stage", "inspect", "claim", "mark-processing", "check-live", "save"}
Kept(h) ==
  /\ pc[h] \in Unsaved => saved[h] = Missing
  /\ pc[h] \in {"verify", "switch", "switch-sync", "read-back", "rollback"} =>
       SameContent(saved[h], seen[h]) /\ (seen[h] # Missing => saved[h] # Missing)
  /\ pc[h] = "switch" /\ ~overlapped => live = seen[h]
AllKept == \A h \in Helpers : Kept(h)

----------------------------------------------------------------------------
\* A step of a helper leaves what is known of the others alone.
Alike(g) == /\ pc'[g] = pc[g] /\ answer'[g] = answer[g] /\ flagged'[g] = flagged[g]
            /\ (g \in applied' <=> g \in applied) /\ (g \in unsynced' <=> g \in unsynced)

LEMMA StepsAreOwn ==
  ASSUME PInv, HTypes, NEW h \in Helpers, Begin(h) \/ Pending(h) \/ Restoring(h) \/ Die(h),
         NEW g \in Helpers \ {h}
  PROVE  Alike(g)
PROOF
<1>. USE DEF PInv, HTypes, Alike, Raise, Continue, Fail, Goto
<1>1. CASE Begin(h)
  BY <1>1 DEF Begin
<1>2. CASE Die(h)
  BY <1>2 DEF Die
<1>3. CASE Pending(h)
  <2>1. UNCHANGED <<flagged, applied, unsynced>>
    BY <1>3 DEF Pending, rvars
  <2>2. CASE PublishStep(h)
    BY <2>1, <2>2 DEF PublishStep, Look, MakeStaging, Fill, CheckRoot, Publish, SyncRoot, Discard
  <2>3. CASE ResumeStep(h)
    BY <2>1, <2>3 DEF ResumeStep, GiveUp, Inspect, Claim, MarkProcessing, Return, PutBack,
       MarkCleanupRequired, Consume, MarkConsumed, EmptyConsumed
  <2>. QED
    BY <1>3, <2>2, <2>3 DEF Pending
<1>4. CASE Restoring(h)
  BY <1>4 DEF Restoring, RestoreStep, Stage, CheckLive, SaveLive, VerifyLive, Switch, SyncSwitch,
     ReadBack, Rollback, VerifyRollback, Cleanup
<1>. QED
  BY <1>1, <1>2, <1>3, <1>4

LEMMA AlikeKeepsOutcome == \A g \in Helpers : Alike(g) /\ Outcome(g) => Outcome(g)'
BY DEF Alike, Outcome, Result

\* Nothing said is nothing to be true about.
LEMMA SilenceIsTrue == \A h \in Helpers : answer[h] = None => Result(h)
BY AnswerAssumption DEF Answers, Result

LEMMA PublishKeepsOutcome ==
  ASSUME PInv, HTypes, NEW h \in Helpers, PublishStep(h), UNCHANGED rvars, Outcome(h)
  PROVE  Outcome(h)'
PROOF
<1>. USE AnswerAssumption DEF PInv, HTypes, Answers, rvars, Raise, Continue, Goto, Outcome, Result, Before
<1>1. CASE Look(h)
  BY <1>1 DEF Look
<1>2. CASE MakeStaging(h)
  BY <1>2 DEF MakeStaging
<1>3. CASE Fill(h)
  BY <1>3 DEF Fill
<1>4. CASE CheckRoot(h)
  BY <1>4 DEF CheckRoot
<1>5. CASE Publish(h)
  BY <1>5 DEF Publish
<1>6. CASE SyncRoot(h)
  BY <1>6 DEF SyncRoot
<1>7. CASE Discard(h)
  BY <1>7 DEF Discard
<1>. QED
  BY <1>1, <1>2, <1>3, <1>4, <1>5, <1>6, <1>7 DEF PublishStep

LEMMA ResumeKeepsOutcome ==
  ASSUME PInv, HTypes, NEW h \in Helpers, ResumeStep(h), UNCHANGED rvars, Outcome(h)
  PROVE  Outcome(h)'
PROOF
<1>. USE AnswerAssumption DEF PInv, HTypes, Answers, rvars, Raise, Continue, Goto, GiveUp, Outcome,
       Result, Before
<1>1. CASE Inspect(h)
  BY <1>1 DEF Inspect
<1>2. CASE Claim(h)
  BY <1>2 DEF Claim
<1>3. CASE MarkProcessing(h)
  BY <1>3 DEF MarkProcessing
<1>4. CASE Return(h)
  BY <1>4 DEF Return
<1>5. CASE PutBack(h)
  BY <1>5 DEF PutBack
<1>6. CASE MarkCleanupRequired(h)
  BY <1>6 DEF MarkCleanupRequired
<1>7. CASE Consume(h)
  BY <1>7 DEF Consume
<1>8. CASE MarkConsumed(h)
  BY <1>8 DEF MarkConsumed
<1>9. CASE EmptyConsumed(h)
  BY <1>9 DEF EmptyConsumed
<1>. QED
  BY <1>1, <1>2, <1>3, <1>4, <1>5, <1>6, <1>7, <1>8, <1>9 DEF ResumeStep

LEMMA RestoreKeepsOutcome ==
  ASSUME PInv, HTypes, NEW h \in Helpers, RestoreStep(h), Outcome(h)
  PROVE  Outcome(h)'
PROOF
<1>. USE AnswerAssumption DEF PInv, HTypes, Answers, Raise, Continue, Fail, Goto, Outcome, Result, Before
<1>1. CASE Stage(h)
  BY <1>1 DEF Stage
<1>2. CASE CheckLive(h)
  BY <1>2 DEF CheckLive
<1>3. CASE SaveLive(h)
  BY <1>3 DEF SaveLive
<1>4. CASE VerifyLive(h)
  BY <1>4 DEF VerifyLive
<1>5. CASE Switch(h)
  BY <1>5 DEF Switch
<1>6. CASE SyncSwitch(h)
  BY <1>6 DEF SyncSwitch
<1>7. CASE ReadBack(h)
  BY <1>7 DEF ReadBack
<1>8. CASE Rollback(h)
  BY <1>8 DEF Rollback
<1>9. CASE VerifyRollback(h)
  BY <1>9 DEF VerifyRollback
<1>10. CASE Cleanup(h)
  <2>. USE <1>10
  <2>1. UNCHANGED <<applied, unsynced>> /\ pc[h] = "cleanup"
    BY DEF Cleanup
  <2>2. PICK removed \in BOOLEAN :
          /\ flagged'[h] = (flagged[h] \/ (answer[h] = "restored" /\ ~removed))
          /\ answer'[h] = (IF removed THEN answer[h] ELSE "cleanup-failed")
          /\ pc'[h] = (CASE target[h] = None -> "end"
                       [] target[h] # None /\ answer[h] = "restored" /\ removed -> "consume"
                       [] target[h] # None /\ (flagged[h] \/ (answer[h] = "restored" /\ ~removed))
                            -> "mark"
                       [] OTHER -> "return")
    BY DEF Cleanup, Resuming
  <2>3. \/ pc'[h] = "end"
        \/ pc'[h] = "consume" /\ answer[h] = "restored" /\ removed
        \/ pc'[h] = "mark" /\ flagged'[h] /\ ~(answer[h] = "restored" /\ removed)
        \/ pc'[h] = "return" /\ answer[h] # "restored"
    <3>1. CASE target[h] = None
      BY <2>2, <3>1
    <3>2. CASE target[h] # None /\ answer[h] = "restored" /\ removed
      <4>1. ~flagged[h]
        BY <2>1, <3>2
      <4>. QED
        BY <2>2, <3>2, <4>1
    <3>3. CASE target[h] # None /\ ~(answer[h] = "restored" /\ removed)
      BY <2>2, <3>3
    <3>. QED
      BY <3>1, <3>2, <3>3
  <2>4. Result(h)'
    BY <2>1, <2>2
  <2>. QED
    BY <2>2, <2>3, <2>4
<1>. QED
  BY <1>1, <1>2, <1>3, <1>4, <1>5, <1>6, <1>7, <1>8, <1>9, <1>10 DEF RestoreStep

LEMMA StepKeepsOutcome ==
  ASSUME PInv, HTypes, NEW h \in Helpers, Begin(h) \/ Pending(h) \/ Restoring(h) \/ Die(h),
         NEW g \in Helpers, Outcome(g)
  PROVE  Outcome(g)'
PROOF
<1>1. CASE g # h
  BY <1>1, StepsAreOwn, AlikeKeepsOutcome
<1>2. CASE g = h /\ Begin(h)
  BY <1>2 DEF PInv, Begin, Goto, Outcome, Result, Before
<1>3. CASE g = h /\ Die(h)
  BY <1>3, AnswerAssumption DEF PInv, HTypes, Die, Raise, Goto, Outcome, Result, Before, Answers
<1>4. CASE g = h /\ (Pending(h) \/ Restoring(h))
  BY <1>4, PublishKeepsOutcome, ResumeKeepsOutcome, RestoreKeepsOutcome DEF Pending, Restoring
<1>. QED
  BY <1>1, <1>2, <1>3, <1>4

\* A name that is gone comes back by its publisher only, before it has published.
LEMMA GoneStaysGone ==
  ASSUME PInv, NEW h \in Helpers, Begin(h) \/ Pending(h) \/ Restoring(h) \/ Die(h),
         NEW a \in Helpers, name[a] = "none", pc[a] \notin Unpublished
  PROVE  name'[a] = "none"
PROOF
<1>. USE DEF PInv, PendingType, entries, Rename
<1>1. CASE Begin(h) \/ Restoring(h) \/ Die(h)
  BY <1>1 DEF Begin, Restoring, Die
<1>2. CASE PublishStep(h)
  BY <1>2 DEF PublishStep, Look, MakeStaging, Fill, CheckRoot, Publish, SyncRoot, Discard,
     Unpublished
<1>3. CASE ResumeStep(h)
  BY <1>3 DEF At, ResumeStep, Inspect, Claim, MarkProcessing, Return, PutBack,
     MarkCleanupRequired, Consume, MarkConsumed, EmptyConsumed, Consumers, Consuming
<1>. QED
  BY <1>1, <1>2, <1>3 DEF Pending

\* A helper that has ended takes no step.
LEMMA EndedStay ==
  ASSUME NEW h \in Helpers, Begin(h) \/ Pending(h) \/ Restoring(h) \/ Die(h)
  PROVE  pc[h] \notin {"end", "dead"}
BY DEF Begin, Pending, Restoring, Die, Running, Ended, PublishStep, Look, MakeStaging, Fill, CheckRoot,
   Publish, SyncRoot, Discard, ResumeStep, Inspect, Claim, MarkProcessing, Return, PutBack,
   MarkCleanupRequired, Consume, MarkConsumed, EmptyConsumed, RestoreStep, Stage, CheckLive, SaveLive,
   VerifyLive, Switch, SyncSwitch, ReadBack, Rollback, VerifyRollback, Cleanup

LEMMA UsedStays ==
  ASSUME PInv, HTypes, SInv, \A g \in Helpers : Outcome(g), Used,
         NEW h \in Helpers, Begin(h) \/ Pending(h) \/ Restoring(h) \/ Die(h)
  PROVE  Used'
PROOF
<1>. SUFFICES ASSUME NEW g \in Helpers, pc'[g] = "end", Resuming(g)', answer'[g] = "restored"
              PROVE  name'[target'[g]] = "none"
  BY DEF Used
<1>. USE DEF PInv, PendingType, HTypes, Resuming
<1>1. CASE pc[g] = "end"
  <2>1. UNCHANGED <<pc[g], answer[g], target[g]>> /\ target[g] \in Helpers
    BY <1>1, EndedStay, StepsAreOwn DEF Alike, Begin, Pending, Restoring, Die
  <2>2. name[target[g]] = "none"
    BY <1>1, <2>1 DEF Used
  <2>3. pc[target[g]] \notin Unpublished
    BY <2>1 DEF SInv, Targets
  <2>. QED
    BY <2>1, <2>2, <2>3, GoneStaysGone
<1>2. CASE pc[g] # "end"
  <2>1. g = h
    BY <1>2, StepsAreOwn DEF Alike
  <2>2. UNCHANGED target
    BY <1>2, <2>1 DEF Begin, Goto, Pending, Restoring, Die
  <2>3. CASE ResumeStep(h)
    <3>1. EmptyConsumed(h) /\ name'[target[h]] = "none"
      BY <1>2, <2>1, <2>2, <2>3, AnswerAssumption DEF Answers, Outcome, Raise, Continue, Goto, GiveUp, Rename,
         ResumeStep, Inspect, Claim, MarkProcessing, Return, PutBack, MarkCleanupRequired, Consume,
         MarkConsumed, EmptyConsumed
    <3>. QED
      BY <2>1, <2>2, <3>1
  <2>4. CASE ~ResumeStep(h)
    <3>1. \/ (Begin(h) \/ Die(h)) /\ pc'[h] # "end"
          \/ PublishStep(h) /\ pc'[h] # "end"
          \/ RestoreStep(h) /\ (pc'[h] = "end" => Cleanup(h))
      BY <2>4 DEF Begin, Pending, Restoring, Die, Raise, Continue, Fail, Goto, PublishStep, Look,
         MakeStaging, Fill, CheckRoot, Publish, SyncRoot, Discard, RestoreStep,
         Stage, CheckLive, SaveLive, VerifyLive, Switch, SyncSwitch, ReadBack, Rollback,
         VerifyRollback
    <3>2. Cleanup(h) /\ Resuming(h) => pc'[h] # "end"
      BY DEF Cleanup, Raise, Goto
    <3>. QED
      BY <2>1, <2>2, <3>1, <3>2
  <2>. QED
    BY <2>3, <2>4
<1>. QED
  BY <1>1, <1>2

LEMMA PublishersStay ==
  ASSUME PInv, HTypes, SInv, Publishers,
         NEW h \in Helpers, Begin(h) \/ Pending(h) \/ Restoring(h) \/ Die(h)
  PROVE  Publishers'
PROOF
<1>. USE DEF PInv, PendingType, HTypes, Resuming
<1>1. \A a \in Helpers : pc[a] \in {"end", "dead"} => pc'[a] = pc[a]
  BY EndedStay, StepsAreOwn DEF Alike
<1>2. CASE Begin(h)
  <2>. SUFFICES ASSUME ~overlapped', NEW g \in Helpers, Resuming(g)'
                PROVE  pc'[target'[g]] \in {"end", "dead"}
    BY DEF Publishers
  <2>1. ~overlapped /\ Running = {}
    BY <1>2 DEF Begin
  <2>2. CASE target'[g] = target[g]
    BY <1>1, <2>1, <2>2 DEF Publishers
  <2>3. CASE target'[g] # target[g]
    <3>1. target'[g] \in Helpers /\ Offered(target'[g]) /\ g = h
      BY <1>2, <2>3 DEF Begin
    <3>2. pc[target'[g]] \in Ended \ {"idle"}
      BY <2>1, <3>1 DEF Running, Offered, Places
    <3>. QED
      BY <1>1, <3>1, <3>2 DEF Ended
  <2>. QED
    BY <2>2, <2>3
<1>3. CASE ~Begin(h)
  <2>1. UNCHANGED <<target, overlapped>>
    BY <1>3 DEF Pending, Restoring, Die
  <2>. QED
    BY <1>1, <2>1 DEF Publishers
<1>. QED
  BY <1>2, <1>3

LEMMA ClaimsComeBack ==
  ASSUME PInv, HTypes, SInv, AInv,
         NEW h \in Helpers, Begin(h) \/ Pending(h) \/ Restoring(h) \/ Die(h)
  PROVE  FailedResumeReturnsClaim'
PROOF
<1>. USE DEF PInv, PendingType, HTypes, Resuming
<1>. SUFFICES ASSUME ~overlapped', NEW g \in Helpers, pc'[g] = "end", Resuming(g)',
                     answer'[g] \in {"newer", "restore-failed", "switch-failed"}, ~flagged'[g],
                     \A f \in Helpers \ {g} : target'[f] # target'[g]
              PROVE  name'[target'[g]] = "available" /\ status'[target'[g]] = "available"
  BY DEF FailedResumeReturnsClaim
<1>1. ~overlapped
  BY DEF Begin, Pending, Restoring, Die
<1>2. CASE pc[g] = "end"
  <2>1. g # h
    BY <1>2, EndedStay
  <2>2. Alike(g) /\ target'[g] = target[g] /\ target[g] \in Helpers
    BY <2>1, StepsAreOwn DEF Begin, Pending, Restoring, Die
  <2>3. \A f \in Helpers \ {g} : target[f] # target[g]
    <3>. TAKE f \in Helpers \ {g}
    <3>1. CASE target'[f] = target[f]
      BY <2>2, <3>1
    <3>2. CASE target'[f] # target[f]
      <4>1. f = h /\ pc[f] = "idle"
        BY <3>2 DEF Begin, Pending, Restoring, Die
      <4>. QED
        BY <4>1, <2>2, SchemaAssumption DEF Places
    <3>. QED
      BY <3>1, <3>2
  <2>4. name[target[g]] = "available" /\ status[target[g]] = "available"
    BY <1>1, <1>2, <2>2, <2>3 DEF AInv, FailedResumeReturnsClaim, Alike
  <2>5. pc[target[g]] \in {"end", "dead"}
    BY <1>1, <2>2 DEF AInv, Publishers
  <2>6. CASE PublishStep(h)
    <3>1. target[g] # h
      BY <2>5, <2>6 DEF PublishStep, Look, MakeStaging, Fill, CheckRoot, Publish, SyncRoot, Discard
    <3>. QED
      BY <2>2, <2>4, <2>6, <3>1 DEF PublishStep, Look, MakeStaging, Fill, CheckRoot, Publish, SyncRoot,
         Discard, Rename, entries
  <2>7. CASE ResumeStep(h)
    <3>1. target[g] # target[h]
      BY <2>1, <2>3
    <3>. QED
      BY <2>2, <2>4, <2>7, <3>1 DEF ResumeStep, Inspect, Claim, MarkProcessing, Return, PutBack,
         MarkCleanupRequired, Consume, MarkConsumed, EmptyConsumed, Rename, Write, WriteFails, entries
  <2>8. CASE Begin(h) \/ Restoring(h) \/ Die(h)
    BY <2>2, <2>4, <2>8 DEF Begin, Restoring, Die, entries
  <2>. QED
    BY <2>6, <2>7, <2>8 DEF Pending
<1>3. CASE pc[g] # "end"
  <2>1. g = h
    BY <1>3, StepsAreOwn DEF Alike
  <2>2. UNCHANGED target
    BY <1>3, <2>1 DEF Begin, Goto, Pending, Restoring, Die
  <2>3. CASE ResumeStep(h)
    <3>1. target[h] \in Helpers
      BY <2>1, <2>2
    <3>2. UNCHANGED flagged
      BY <2>3, <1>3 DEF Pending, rvars, Begin, Restoring, Die, ResumeStep, Inspect, Claim, MarkProcessing,
         Return, PutBack, MarkCleanupRequired, Consume, MarkConsumed, EmptyConsumed, RestoreStep,
         Stage, CheckLive, SaveLive, VerifyLive, Switch, SyncSwitch, ReadBack, Rollback,
         VerifyRollback, Cleanup, Running, Ended, Raise, Goto
    <3>3. PutBack(h) /\ name'[target[h]] = "available" /\ UNCHANGED status
      BY <2>1, <2>3, <3>1, <3>2, AnswerAssumption DEF AInv, Answers, Outcome, Raise, Continue, Goto, GiveUp, Rename,
         ResumeStep, Inspect, Claim, MarkProcessing, Return, PutBack, MarkCleanupRequired, Consume,
         MarkConsumed, EmptyConsumed
    <3>4. status[target[h]] = "available"
      BY <1>1, <3>3 DEF SInv, Stated, PutBack
    <3>. QED
      BY <2>1, <2>2, <3>3, <3>4
  <2>4. CASE ~ResumeStep(h)
    <3>1. \/ (Begin(h) \/ Die(h)) /\ pc'[h] # "end"
          \/ PublishStep(h) /\ pc'[h] # "end"
          \/ RestoreStep(h) /\ (pc'[h] = "end" => Cleanup(h))
      BY <2>4 DEF Begin, Pending, Restoring, Die, Raise, Continue, Fail, Goto, PublishStep, Look,
         MakeStaging, Fill, CheckRoot, Publish, SyncRoot, Discard, RestoreStep,
         Stage, CheckLive, SaveLive, VerifyLive, Switch, SyncSwitch, ReadBack, Rollback,
         VerifyRollback
    <3>2. Cleanup(h) /\ Resuming(h) => pc'[h] # "end"
      BY DEF Cleanup, Raise, Goto
    <3>. QED
      BY <2>1, <2>2, <3>1, <3>2
  <2>. QED
    BY <2>3, <2>4
<1>. QED
  BY <1>2, <1>3

LEMMA AnswersKept == AInv /\ PInv /\ HTypes /\ SInv /\ [Next]_vars => AInv'
<1>. SUFFICES ASSUME AInv, PInv, HTypes, SInv, [Next]_vars PROVE AInv'
  OBVIOUS
<1>1. CASE UNCHANGED vars \/ Update
  BY <1>1 DEF vars, rvars, entries, Update, AInv, Outcome, Result, Used, Publishers, Resuming,
     FailedResumeReturnsClaim
<1>2. ASSUME NEW h \in Helpers, Begin(h) \/ Pending(h) \/ Restoring(h) \/ Die(h) PROVE AInv'
  BY <1>2, StepKeepsOutcome, UsedStays, PublishersStay, ClaimsComeBack DEF AInv
<1>. QED
  BY <1>1, <1>2 DEF Next

LEMMA InitAInv == Init => AInv
<1>. SUFFICES ASSUME Init PROVE AInv
  OBVIOUS
<1>1. \A h \in Helpers : /\ pc[h] = "idle" /\ answer[h] = None /\ ~flagged[h] /\ ~Resuming(h)
                         /\ h \notin applied /\ h \notin unsynced
  BY DEF Init, PendingInit, Resuming
<1>. QED
  BY <1>1, SilenceIsTrue DEF AInv, Outcome, Before, Used, Publishers, FailedResumeReturnsClaim

(* What helpers have answered is true at every step. *)
THEOREM AnswersInductive == Spec => []AInv
<1>. QED
  BY InitAInv, AnswersKept, SpentInductive, PTL DEF Spec

(* A restore that answers that it succeeded went live and has used its artifact
   up; one that failed before its switch left the data alone, and one that failed
   in it left it alone unless it says otherwise or could not sync. *)
THEOREM RestoreAnswersAreTrue == Spec => []AnswerIsTrue
<1>1. AInv => AnswerIsTrue
  BY DEF AInv, Outcome, Result, Used, AnswerIsTrue, Resuming
<1>. QED
  BY <1>1, AnswersInductive, PTL

(* A resume that failed before its switch ends with its artifact offered again,
   by a status file that says so (releasePendingRestoreClaim). *)
THEOREM ClaimsAreReturned == Spec => []FailedResumeReturnsClaim
<1>1. AInv => FailedResumeReturnsClaim
  BY DEF AInv
<1>. QED
  BY <1>1, AnswersInductive, PTL

----------------------------------------------------------------------------
\* What a helper keeps of the live file.
LEMMA CopyIsSame ==
  ASSUME NEW f \in Copies, NEW h \in Helpers, NEW as \in {"backup", "rollback"}
  PROVE  SameContent(Copy(f, h, as), f) /\ Copy(f, h, as).by = h /\ Copy(f, h, as).as = as
         /\ Copy(f, h, as) # Missing
<1>. DEFINE Any == [by : Data, as : {"missing", "live", "candidate", "backup", "rollback"},
                    of : Data, sound : BOOLEAN]
<1>1. f \in Any
  <2>1. Missing \in Any
    BY DEF Missing, Data
  <2>2. CASE f \in File
    BY <2>2 DEF File
  <2>. QED
    BY <2>1, <2>2 DEF Copies
<1>2. ASSUME NEW r \in Any
      PROVE  LET c == [r EXCEPT !.by = h, !.as = as]
             IN  c.by = h /\ c.as = as /\ c.of = r.of /\ c.sound = r.sound
  OBVIOUS
<1>3. Missing.as = "missing"
  BY DEF Missing
<1>. QED
  BY <1>1, <1>2, <1>3 DEF Copy, SameContent

LEMMA SameAsItself == \A f : SameContent(f, f)
BY DEF SameContent

LEMMA RestoreKeepsKept ==
  ASSUME PInv, DTypes, NEW h \in Helpers, Restoring(h), Kept(h)
  PROVE  Kept(h)'
PROOF
<1>. USE DEF PInv, DTypes, Raise, Continue, Fail, Goto, Kept, Unsaved, Restoring
<1>1. CASE Stage(h)
  BY <1>1 DEF Stage, disk
<1>2. CASE CheckLive(h)
  BY <1>2 DEF CheckLive, disk
<1>3. CASE SaveLive(h)
  <2>1. saved[h] = Missing /\ pc[h] = "save" /\ seen' = seen /\ live' = live
    BY <1>3 DEF SaveLive
  <2>2. CASE Matches(live, seen[h]) /\ live = Missing /\ saved' = saved
    BY <1>3, <2>1, <2>2, SameAsItself DEF SaveLive, Matches
  <2>3. CASE Matches(live, seen[h]) /\ saved' = [saved EXCEPT ![h] = Copy(live, h, "backup")]
    BY <1>3, <2>1, <2>3, CopyIsSame DEF SaveLive, Matches
  <2>4. CASE pc' = [pc EXCEPT ![h] = "cleanup"]
    BY <1>3, <2>4
  <2>. QED
    BY <1>3, <2>2, <2>3, <2>4 DEF SaveLive
<1>4. CASE VerifyLive(h)
  BY <1>4 DEF VerifyLive, Matches, disk
<1>5. CASE Switch(h)
  BY <1>5 DEF Switch
<1>6. CASE SyncSwitch(h)
  BY <1>6 DEF SyncSwitch, disk
<1>7. CASE ReadBack(h)
  BY <1>7 DEF ReadBack, disk
<1>8. CASE Rollback(h)
  BY <1>8 DEF Rollback
<1>9. CASE VerifyRollback(h)
  BY <1>9 DEF VerifyRollback
<1>10. CASE Cleanup(h)
  <2>1. pc'[h] \in {"end", "consume", "mark", "return"}
    <3>. DEFINE s(removed) == CASE ~Resuming(h) -> "end"
           [] Resuming(h) /\ answer[h] = "restored" /\ removed -> "consume"
           [] Resuming(h) /\ (flagged[h] \/ (answer[h] = "restored" /\ ~removed)) -> "mark"
           [] OTHER -> "return"
    <3>1. PICK removed \in BOOLEAN : pc'[h] = s(removed)
      BY <1>10 DEF Cleanup
    <3>2. s(removed) \in {"end", "consume", "mark", "return"}
      BY DEF Resuming
    <3>. QED
      BY <3>1, <3>2
  <2>. QED
    BY <2>1
<1>. QED
  BY <1>1, <1>2, <1>3, <1>4, <1>5, <1>6, <1>7, <1>8, <1>9, <1>10 DEF RestoreStep

LEMMA PendingKeepsKept ==
  ASSUME PInv, DTypes, NEW h \in Helpers, Begin(h) \/ Pending(h) \/ Die(h), Kept(h)
  PROVE  Kept(h)'
PROOF
<1>. USE DEF PInv, DTypes, Raise, Continue, Goto, Kept, Unsaved, disk, rvars
<1>1. CASE Begin(h)
  BY <1>1 DEF Begin
<1>2. CASE Die(h)
  BY <1>2 DEF Die
<1>3. CASE Pending(h) /\ PublishStep(h)
  BY <1>3 DEF Pending, PublishStep, Look, MakeStaging, Fill, CheckRoot, Publish, SyncRoot, Discard
<1>4. CASE Pending(h) /\ ResumeStep(h)
  BY <1>4 DEF Pending, GiveUp, ResumeStep, Inspect, Claim, MarkProcessing, Return, PutBack,
     MarkCleanupRequired, Consume, MarkConsumed, EmptyConsumed
<1>. QED
  BY <1>1, <1>2, <1>3, <1>4 DEF Pending

LEMMA OthersKeepKept ==
  ASSUME PInv, HTypes, SInv, DTypes, NEW h \in Helpers, Begin(h) \/ Pending(h) \/ Restoring(h) \/ Die(h),
         NEW g \in Helpers \ {h}, Kept(g)
  PROVE  Kept(g)'
PROOF
<1>. USE DEF DTypes
<1>1. pc'[g] = pc[g]
  BY StepsAreOwn DEF Alike
<1>2. saved'[g] = saved[g] /\ seen'[g] = seen[g]
  BY DEF Begin, Pending, Die, Forget, Restoring, RestoreStep, Stage, CheckLive, SaveLive, VerifyLive,
     Switch, SyncSwitch, ReadBack, Rollback, VerifyRollback, Cleanup, disk, rvars
<1>3. ASSUME pc'[g] = "switch", ~overlapped' PROVE ~overlapped /\ live' = live
  <2>0. g \in Running
    BY <1>1, <1>3 DEF Running, Ended
  <2>1. ~overlapped /\ ~Begin(h)
    BY <2>0, <1>3 DEF HTypes, Begin, Pending, Die, Restoring
  <2>2. h \notin Running
    BY <2>0, <2>1 DEF SInv, Alone
  <2>3. ~Restoring(h)
    BY <2>2 DEF Running, Ended, Restoring, RestoreStep, Stage, CheckLive, SaveLive, VerifyLive, Switch,
       SyncSwitch, ReadBack, Rollback, VerifyRollback, Cleanup
  <2>. QED
    BY <2>1, <2>3 DEF Pending, Die, disk
<1>. QED
  BY <1>1, <1>2, <1>3 DEF Kept

LEMMA KeptStays == PInv /\ HTypes /\ SInv /\ DTypes /\ AllKept /\ [Next]_vars => AllKept'
<1>. SUFFICES ASSUME PInv, HTypes, SInv, DTypes, AllKept, [Next]_vars, NEW g \in Helpers
              PROVE  Kept(g)'
  BY DEF AllKept
<1>1. CASE UNCHANGED vars \/ Update
  BY <1>1 DEF vars, disk, rvars, Update, Kept, AllKept
<1>2. ASSUME NEW h \in Helpers, Begin(h) \/ Pending(h) \/ Restoring(h) \/ Die(h) PROVE Kept(g)'
  BY <1>2, OthersKeepKept, RestoreKeepsKept, PendingKeepsKept DEF AllKept
<1>. QED
  BY <1>1, <1>2 DEF Next

LEMMA InitKept == Init => AllKept
BY DEF Init, Kept, AllKept

(* What helpers keep of the live file is what they saw of it. *)
THEOREM KeptInductive == Spec => [](PInv /\ DTypes /\ AllKept)
<1>. QED
  BY InitDTypes, DTypesKept, InitKept, KeptStays, SpentInductive, PTL DEF Spec

\* A rename over the live file, or over the candidate that is rolled back.
LEMMA ReplacementsAreSaved ==
  ASSUME PInv, DTypes, NEW h \in Helpers, Restoring(h), Kept(h), live' # live
  PROVE  \/ live'.as = "rollback" /\ SameContent(live', seen[live'.by])
         \/ live = Missing
         \/ /\ live'.as = "candidate"
            /\ overlapped \/ \E g \in Helpers : saved[g] # Missing /\ SameContent(saved[g], live)
PROOF
<1>. USE DEF DTypes
<1>1. Switch(h) \/ Rollback(h)
  BY DEF Restoring, RestoreStep, Stage, CheckLive, SaveLive, VerifyLive, SyncSwitch, ReadBack,
     VerifyRollback, Cleanup, disk
<1>2. CASE Switch(h)
  <2>1. live'.as = "candidate" /\ pc[h] = "switch"
    BY <1>2 DEF Switch, Candidate
  <2>. QED
    BY <2>1 DEF Kept
<1>3. CASE Rollback(h)
  <2>1. live' = Copy(saved[h], h, "rollback") /\ pc[h] = "rollback"
    BY <1>3 DEF Rollback
  <2>2. SameContent(saved[h], seen[h])
    BY <2>1 DEF Kept
  <2>. QED
    BY <2>1, <2>2, CopyIsSame DEF SameContent
<1>. QED
  BY <1>1, <1>2, <1>3

(* What replaces the live database keeps its content: the safety backup or the
   preserved artifact has it before the switch, as long as no two helpers overlap,
   and a rollback brings back what its own helper replaced. *)
THEOREM ReplacedContentIsSaved == Spec => ReplacedIsSaved
<1>1. PInv /\ DTypes /\ AllKept /\ [Next]_vars =>
        [ live' # live =>
            \/ live'.as = "rollback" /\ SameContent(live', seen[live'.by])
            \/ live = Missing
            \/ /\ live'.as = "candidate"
               /\ overlapped \/ \E h \in Helpers : saved[h] # Missing /\ SameContent(saved[h], live) ]_vars
  <2>. SUFFICES ASSUME PInv, DTypes, AllKept, Next, live' # live
                PROVE  \/ live'.as = "rollback" /\ SameContent(live', seen[live'.by])
                       \/ live = Missing
                       \/ /\ live'.as = "candidate"
                          /\ overlapped \/ \E h \in Helpers :
                                            saved[h] # Missing /\ SameContent(saved[h], live)
    OBVIOUS
  <2>1. PICK h \in Helpers : Restoring(h)
    BY DEF Next, Update, Begin, Pending, Die, disk
  <2>. QED
    BY <2>1, ReplacementsAreSaved DEF AllKept
<1>. QED
  BY <1>1, KeptInductive, PTL DEF Spec, ReplacedIsSaved
=============================================================================
