--------------------------- MODULE PendingRestore ---------------------------
(* The pending-restore directory: a backup that is newer than the            *)
(* application is put aside there, and resumed after an update.  A directory *)
(* entry is one artifact, known by the helper that published it (pendingId); *)
(* what changes is the name it goes by, the files in it and the state in its *)
(* status file.  Every file operation may fail, helpers may overlap.         *)
EXTENDS Naturals, FiniteSets

CONSTANTS
  Helpers,      \* runs of the data helper (launcher.cjs), one per request
  None,         \* no artifact, no answer
  LastSchema    \* newest database schema (number of migrations) there is

ASSUME SchemaAssumption == LastSchema \in Nat \ {0} /\ None \notin Helpers

VARIABLES
  app,      \* schema of the installed application
  ver,      \* schema of the backup a helper was given, and of what it published
  name,     \* what the entry of an artifact is called
  files,    \* the files in it
  status,   \* state in its status.json
  pc,       \* where a helper is
  target,   \* the artifact a helper resumes
  answer    \* what a helper answers, or is about to

entries == <<name, files, status>>

Schemas == 1 .. LastSchema
Names == {"none", "staging", "available", "processing", "consumed", "publish-failed"}
States == {"available", "processing", "cleanup-required", "consumed"}
Whole == {"candidate", "manifest", "status"}
Kinds == Whole \union {"tmp"}

PublishSteps == {"look", "make", "fill", "check", "publish", "sync", "discard"}
ClaimSteps == {"inspect", "claim", "mark-processing", "return", "put-back"}
EndSteps == {"mark", "consume", "mark-consumed", "empty"}

PendingType ==
  /\ app \in Schemas /\ ver \in [Helpers -> Schemas]
  /\ name \in [Helpers -> Names]
  /\ files \in [Helpers -> SUBSET Kinds]
  /\ status \in [Helpers -> States]
  /\ target \in [Helpers -> Helpers \union {None}]

PendingInit ==
  /\ app \in Schemas /\ ver = [h \in Helpers |-> 1]
  /\ name = [h \in Helpers |-> "none"]
  /\ files = [h \in Helpers |-> {}]
  /\ status = [h \in Helpers |-> "available"]
  /\ target = [h \in Helpers |-> None]

----------------------------------------------------------------------------
Entries == {a \in Helpers : name[a] # "none"}

Goto(h, step) == pc' = [pc EXCEPT ![h] = step]
Continue(h, step) == Goto(h, step) /\ UNCHANGED answer
Raise(h, error, step) == Goto(h, step) /\ answer' = [answer EXCEPT ![h] = error]
Rename(a, to) == name' = [name EXCEPT ![a] = to]

\* readPendingRestoreRecord: exactly the three files, a status file that says
\* so, and a candidate this application is not too new for.
Usable(a) == files[a] = Whole /\ status[a] = "available" /\ app <= ver[a]

\* inspectPendingRestoreInternal answers "available".
Offered(a) == Entries = {a} /\ name[a] = "available" /\ Usable(a)

----------------------------------------------------------------------------
(* publishPendingRestoreCandidate.                                           *)

\* The first look at the root: an artifact that is there is never replaced.
Look(h) ==
  /\ pc[h] = "look"
  /\ \/ Entries = {} /\ Continue(h, "make")
     \/ Raise(h, "publish-failed", "cleanup")
  /\ UNCHANGED entries

MakeStaging(h) ==
  /\ pc[h] = "make"
  /\ \/ Rename(h, "staging") /\ Continue(h, "fill")
     \/ UNCHANGED name /\ Raise(h, "publish-failed", "cleanup")
  /\ UNCHANGED <<files, status>>

\* Candidate, manifest and status, in this order; then the record is read back.
Earlier == [candidate |-> {}, manifest |-> {"candidate"}, status |-> {"candidate", "manifest"}]

Fill(h) ==
  /\ pc[h] = "fill"
  /\ \/ /\ \E f \in Whole : /\ files[h] = Earlier[f]
                           /\ files' = [files EXCEPT ![h] = @ \union {f}]
        /\ Continue(h, "fill")
     \/ files[h] = Whole /\ UNCHANGED files /\ Continue(h, "check")
     \/ UNCHANGED files /\ Raise(h, "publish-failed", "discard")
  /\ UNCHANGED <<name, status>>

CheckRootBlindly(h) == pc[h] = "check" /\ Continue(h, "publish") /\ UNCHANGED entries \* mutant

\* The second look: nothing but its own staging directory.
CheckRoot(h) ==
  /\ pc[h] = "check"
  /\ \/ Entries = {h} /\ Continue(h, "publish")
     \/ Raise(h, "publish-failed", "discard")
  /\ UNCHANGED entries

Publish(h) ==
  /\ pc[h] = "publish"
  /\ \/ Rename(h, "available") /\ Continue(h, "sync")
     \/ UNCHANGED name /\ Raise(h, "publish-failed", "discard")
  /\ UNCHANGED <<files, status>>

\* When the root cannot be synced the entry is taken back: renamed to staging
\* and discarded, or else renamed out of the way, or else left.
SyncRoot(h) ==
  /\ pc[h] = "sync"
  /\ \/ UNCHANGED name /\ Raise(h, "newer", "cleanup")
     \/ UNCHANGED name /\ Raise(h, "publish-failed", "cleanup")
     \/ /\ name[h] = "available" /\ Rename(h, "staging")
        /\ Raise(h, "publish-failed", "discard")
     \/ /\ name[h] = "available" /\ Rename(h, "publish-failed")
        /\ Raise(h, "publish-failed", "cleanup")
  /\ UNCHANGED <<files, status>>

\* The staging directory is emptied and removed, or stays where that failed:
\* nobody asks how much is left in a directory under such a name.
Discard(h) ==
  /\ pc[h] = "discard"
  /\ \/ Rename(h, "none") /\ files' = [files EXCEPT ![h] = {}]
     \/ UNCHANGED <<name, files>>
  /\ Continue(h, "cleanup")
  /\ UNCHANGED status

PublishStep(h) == \/ Look(h) \/ MakeStaging(h) \/ Fill(h) \/ CheckRoot(h)
                  \/ Publish(h) \/ SyncRoot(h) \/ Discard(h)

----------------------------------------------------------------------------
(* claimPendingRestore and the three ways a claim ends.  A claim reaches its *)
(* artifact by path: it finds whatever goes by that name now.                *)

At(h, place) == name[target[h]] = place

\* writePendingRestoreJson, replacing: a temporary file, renamed over, synced.
Write(h, state) == status' = [status EXCEPT ![target[h]] = state] /\ UNCHANGED files

\* It fails before the rename, after it, or leaves the temporary file behind.
WriteFails(h, place, state) ==
  \/ UNCHANGED <<files, status>>
  \/ At(h, place) /\ Write(h, state)
  \/ /\ At(h, place)
     /\ files' = [files EXCEPT ![target[h]] = @ \union {"tmp"}]
     /\ UNCHANGED status

Inspect(h) ==
  /\ pc[h] = "inspect"
  /\ \/ Offered(target[h]) /\ Continue(h, "claim")
     \/ Raise(h, "refused", "end")
  /\ UNCHANGED entries

Claim(h) ==
  /\ pc[h] = "claim"
  /\ \/ At(h, "available") /\ Rename(target[h], "processing") /\ Continue(h, "mark-processing")
     \/ At(h, "available") /\ Rename(target[h], "processing") /\ Raise(h, "claim-failed", "return")
     \/ UNCHANGED name /\ Raise(h, "claim-failed", "return")
  /\ UNCHANGED <<files, status>>

MarkProcessing(h) ==
  /\ pc[h] = "mark-processing"
  /\ \/ At(h, "processing") /\ Write(h, "processing") /\ Continue(h, "stage")
     \/ WriteFails(h, "processing", "processing") /\ Raise(h, "claim-failed", "return")
  /\ UNCHANGED name

\* A claim that failed is given back if that works, a released one has to be.
GiveUp(h) == IF answer[h] = "claim-failed" THEN Continue(h, "end")
                                           ELSE Raise(h, "cleanup-required", "end")

\* The status file first: the name "available" never covers another state.
Return(h) ==
  /\ pc[h] = "return"
  /\ \/ At(h, "processing") /\ Write(h, "available") /\ Continue(h, "put-back")
     \/ WriteFails(h, "processing", "available") /\ GiveUp(h)
  /\ UNCHANGED name

PutBack(h) ==
  /\ pc[h] = "put-back"
  /\ \/ At(h, "processing") /\ Rename(target[h], "available") /\ Continue(h, "end")
     \/ At(h, "processing") /\ Rename(target[h], "available") /\ GiveUp(h)
     \/ UNCHANGED name /\ GiveUp(h)
  /\ UNCHANGED <<files, status>>

\* markPendingRestoreCleanupRequired: the entry stays under its processing name.
MarkCleanupRequired(h) ==
  /\ pc[h] = "mark"
  /\ \/ At(h, "processing") /\ Write(h, "cleanup-required") /\ Continue(h, "end")
     \/ WriteFails(h, "processing", "cleanup-required") /\ Raise(h, "cleanup-required", "end")
  /\ UNCHANGED name

\* consumePendingRestoreClaim.
Consume(h) ==
  /\ pc[h] = "consume"
  /\ \/ At(h, "processing") /\ Rename(target[h], "consumed") /\ Continue(h, "mark-consumed")
     \/ At(h, "processing") /\ Rename(target[h], "consumed") /\ Raise(h, "cleanup-required", "end")
     \/ UNCHANGED name /\ Raise(h, "cleanup-required", "end")
  /\ UNCHANGED <<files, status>>

MarkConsumed(h) ==
  /\ pc[h] = "mark-consumed"
  /\ \/ At(h, "consumed") /\ Write(h, "consumed") /\ Continue(h, "empty")
     \/ WriteFails(h, "consumed", "consumed") /\ Raise(h, "cleanup-required", "end")
  /\ UNCHANGED name

\* cleanupPendingRestoreDirectory: all of it, or as far as it comes (as Discard).
EmptyConsumed(h) ==
  /\ pc[h] = "empty"
  /\ \/ /\ files[target[h]] \subseteq Whole
        /\ Rename(target[h], "none") /\ files' = [files EXCEPT ![target[h]] = {}]
        /\ Continue(h, "end")
     \/ UNCHANGED <<name, files>> /\ Raise(h, "cleanup-required", "end")
  /\ UNCHANGED status

ResumeStep(h) == \/ Inspect(h) \/ Claim(h) \/ MarkProcessing(h) \/ Return(h) \/ PutBack(h)
                 \/ MarkCleanupRequired(h) \/ Consume(h) \/ MarkConsumed(h) \/ EmptyConsumed(h)
=============================================================================
