-------------------------- MODULE RestoreDatabase ---------------------------
(* restoreDesktopDatabase and resumePendingRestore: a helper stages its      *)
(* backup, validates it, saves the live database, renames the candidate over *)
(* it, reads it back and, when that fails, rolls back.  A resume does so     *)
(* with the artifact it claimed, and consumes, returns or marks it.  The     *)
(* sidecar is stopped meanwhile (DesktopLifecycle): only helpers write.      *)
EXTENDS PendingRestore

CONSTANTS User,         \* whose data the live database holds at first
          MaxRunning    \* bound on helpers at once: 1 if none outlives its application

ASSUME UserAssumption == User \notin Helpers /\ User # None /\ MaxRunning \in Nat \ {0}

VARIABLES
  live,         \* the live database file
  recovery,     \* the request's recoveryOnly
  seen,         \* the live file as a helper fingerprinted it
  saved,        \* the file a helper keeps of it: safety backup, or preserved artifact
  flagged,      \* restoreLiveSwitchCompleted on the error
  applied,      \* history: helpers whose candidate went live and was not rolled back
  unsynced,     \* history: of these, whose switchRestoreDatabase could not sync
  overlapped    \* history: two helpers have run at once

disk == <<live, saved>>
rvars == <<recovery, seen, flagged, applied, unsynced>>
vars == <<app, ver, entries, pc, target, answer, disk, rvars, overlapped>>

\* What is compared of a file: its inode, that is who made it as what, and its
\* bytes, that is whose data it holds and whether they pass the validation.
Data == Helpers \union {User}
File == [by : Data, as : {"live", "candidate", "backup", "rollback"},
         of : Data, sound : BOOLEAN]
Missing == [by |-> User, as |-> "missing", of |-> User, sound |-> FALSE]
Original(sound) == [by |-> User, as |-> "live", of |-> User, sound |-> sound]

\* restoreFingerprintMatches, restoreFingerprintContentMatches.
Matches(f, g) == f = g
SameContent(f, g) == f.of = g.of /\ f.sound = g.sound

Source(h) == IF target[h] = None THEN h ELSE target[h]
Candidate(h) == [by |-> h, as |-> "candidate", of |-> Source(h), sound |-> TRUE]
Copy(f, h, as) == [f EXCEPT !.by = h, !.as = as]

RestoreSteps == {"stage", "check-live", "save", "verify", "switch", "switch-sync", "read-back",
                 "rollback", "verify-rollback", "cleanup"}
Ended == {"idle", "end", "dead"}
Steps == Ended \union PublishSteps \union ClaimSteps \union EndSteps \union RestoreSteps
Answers == {"restored", "refused", "newer", "publish-failed", "claim-failed",
            "restore-failed", "switch-failed", "reopen-failed", "rollback-failed",
            "cleanup-failed", "cleanup-required"}

\* None is none of them: it says that there is no answer yet.
ASSUME AnswerAssumption == None \notin Answers

TypeOK ==
  /\ PendingType
  /\ pc \in [Helpers -> Steps] /\ answer \in [Helpers -> Answers \union {None}]
  /\ live \in File \union {Missing}
  /\ saved \in [Helpers -> File \union {Missing}]
  /\ seen \in [Helpers -> File \union {Missing}]
  /\ recovery \in [Helpers -> BOOLEAN] /\ flagged \in [Helpers -> BOOLEAN]
  /\ applied \in SUBSET Helpers /\ unsynced \in SUBSET Helpers
  /\ overlapped \in BOOLEAN

Init ==
  /\ PendingInit
  /\ pc = [h \in Helpers |-> "idle"] /\ answer = [h \in Helpers |-> None]
  /\ live \in {Missing, Original(TRUE), Original(FALSE)}
  /\ saved = [h \in Helpers |-> Missing] /\ seen = [h \in Helpers |-> Missing]
  /\ recovery = [h \in Helpers |-> FALSE] /\ flagged = [h \in Helpers |-> FALSE]
  /\ applied = {} /\ unsynced = {}
  /\ overlapped = FALSE

Running == {h \in Helpers : pc[h] \notin Ended}
Resuming(h) == target[h] # None

\* Leaving the try block of restoreDesktopDatabase.
Fail(h, error) == Raise(h, error, "cleanup")

\* restoreDesktopDatabase has returned, or its process is gone.
Forget(h) == /\ seen' = [seen EXCEPT ![h] = Missing]
             /\ recovery' = [recovery EXCEPT ![h] = FALSE]

----------------------------------------------------------------------------
\* A request starts a helper: a file, or the artifact the settings were offered.
\* The recovery screen asks with recoveryOnly; the database may have become sound
\* since it was opened, or damaged since the settings were.
Begin(h) ==
  /\ pc[h] = "idle"
  /\ Cardinality(Running) < MaxRunning
  /\ \/ /\ \E v \in Schemas : ver' = [ver EXCEPT ![h] = v]
        /\ Goto(h, "stage") /\ UNCHANGED target
     \/ /\ \E a \in Helpers : Offered(a) /\ target' = [target EXCEPT ![h] = a]
        /\ Goto(h, "inspect") /\ UNCHANGED ver
  /\ \E mode \in BOOLEAN : recovery' = [recovery EXCEPT ![h] = mode]
  /\ overlapped' = (overlapped \/ Running # {})
  /\ UNCHANGED <<app, entries, answer, disk, seen, flagged, applied, unsynced>>

\* The live file is fingerprinted (recoveryOnly), the source copied into an
\* operation directory of its own, which nobody else reads, and validated there;
\* an older one is migrated.  A newer one is published, unless it comes from the
\* pending directory already.
Stage(h) ==
  /\ pc[h] = "stage"
  /\ seen' = IF recovery[h] THEN [seen EXCEPT ![h] = live] ELSE seen
  /\ \/ /\ Resuming(h) => files[target[h]] = Whole /\ At(h, "processing")
                          /\ status[target[h]] = "processing"
        /\ \/ ver[Source(h)] <= app /\ Continue(h, "check-live")
           \/ ver[Source(h)] > app /\ ~Resuming(h) /\ Continue(h, "look")
           \/ ver[Source(h)] > app /\ Resuming(h) /\ Fail(h, "newer")
     \/ Fail(h, "restore-failed")
  /\ UNCHANGED <<disk, recovery, flagged, applied, unsynced>>

\* validateRestoreLiveDatabase and the checkpoint; a database that does not pass
\* is replaced in recovery mode only, and only if it is still the same.
CheckLive(h) ==
  /\ pc[h] = "check-live"
  /\ \/ /\ live.sound
        /\ recovery[h] => Matches(live, seen[h])
        /\ seen' = [seen EXCEPT ![h] = live] /\ Continue(h, "save")
     \/ /\ ~live.sound /\ recovery[h] /\ Matches(live, seen[h])
        /\ UNCHANGED seen /\ Continue(h, "save")
     \/ UNCHANGED seen /\ Fail(h, "restore-failed")
  /\ UNCHANGED <<disk, recovery, flagged, applied, unsynced>>

SaveSoundOnly(h) == \* mutant
  /\ pc[h] = "save" /\ Matches(live, seen[h])
  /\ saved' = IF live.sound THEN [saved EXCEPT ![h] = Copy(live, h, "backup")] ELSE saved
  /\ Continue(h, "verify")
  /\ UNCHANGED <<live, recovery, seen, flagged, applied, unsynced>>

\* createRestoreSafetyBackup or preserveRestoreLiveArtifacts: the copy becomes
\* visible when it has the bytes of a live file that did not change meanwhile.
SaveLive(h) ==
  /\ pc[h] = "save"
  /\ \/ /\ Matches(live, seen[h])
        /\ saved' = IF live = Missing THEN saved
                    ELSE [saved EXCEPT ![h] = Copy(live, h, "backup")]
        /\ Continue(h, "verify") \/ Fail(h, "restore-failed")
     \/ UNCHANGED saved /\ Fail(h, "restore-failed")
  /\ UNCHANGED <<live, recovery, seen, flagged, applied, unsynced>>

\* The three switches look at the live file once more before they rename.
VerifyLive(h) ==
  /\ pc[h] = "verify"
  /\ \/ Matches(live, seen[h]) /\ Continue(h, "switch")
     \/ Fail(h, "switch-failed")
  /\ UNCHANGED <<disk, recovery, seen, flagged, applied, unsynced>>

\* A rename replaces whatever is there, the link for a missing file does not.
Switch(h) ==
  /\ pc[h] = "switch"
  /\ \/ /\ seen[h] = Missing => live = Missing
        /\ live' = Candidate(h)
        /\ applied' = applied \union {h}
        /\ Continue(h, "switch-sync")
     \/ UNCHANGED <<live, applied>> /\ Fail(h, "switch-failed")
  /\ UNCHANGED <<saved, recovery, seen, flagged, unsynced>>

SyncSwitchSilent(h) == \* mutant
  /\ pc[h] = "switch-sync"
  /\ Continue(h, "read-back") \/ Fail(h, "switch-failed")
  /\ UNCHANGED <<disk, rvars>>

\* After the rename: the directory is synced.  switchRestoreDatabase, alone of
\* the three, does not say that the switch had happened when this fails.
SyncSwitch(h) ==
  /\ pc[h] = "switch-sync"
  /\ \/ Continue(h, "read-back") /\ UNCHANGED <<flagged, unsynced>>
     \/ /\ Fail(h, "switch-failed")
        /\ flagged' = [flagged EXCEPT ![h] = ~seen[h].sound]
        /\ unsynced' = IF seen[h].sound THEN unsynced \union {h} ELSE unsynced
  /\ UNCHANGED <<disk, recovery, seen, applied>>

\* restorePostSwitchReadBack; there is a safety backup of a sound file only.
ReadBack(h) ==
  /\ pc[h] = "read-back"
  /\ \/ Raise(h, "restored", "cleanup") /\ UNCHANGED flagged
     \/ seen[h].sound /\ Continue(h, "rollback") /\ UNCHANGED flagged
     \/ ~seen[h].sound /\ Fail(h, "reopen-failed") /\ flagged' = [flagged EXCEPT ![h] = TRUE]
  /\ UNCHANGED <<disk, recovery, seen, applied, unsynced>>

\* rollbackRestoreDatabase: a copy of the safety backup is renamed over the
\* database this helper switched to.
Rollback(h) ==
  /\ pc[h] = "rollback"
  /\ \/ /\ Matches(live, Candidate(h))
        /\ live' = Copy(saved[h], h, "rollback")
        /\ applied' = applied \ {h}
        /\ Continue(h, "verify-rollback") /\ UNCHANGED flagged
     \/ /\ UNCHANGED <<live, applied>>
        /\ Fail(h, "rollback-failed") /\ flagged' = [flagged EXCEPT ![h] = TRUE]
  /\ UNCHANGED <<saved, recovery, seen, unsynced>>

\* The rolled-back file is compared with the safety backup, inode included: it
\* is another file, so this never succeeds (restoreFingerprintMatches).
VerifyRollback(h) ==
  /\ pc[h] = "verify-rollback"
  /\ \E read \in BOOLEAN :
       LET succeeds == read /\ Matches(live, saved[h])
       IN /\ Fail(h, IF succeeds THEN "reopen-failed" ELSE "rollback-failed")
          /\ flagged' = [flagged EXCEPT ![h] = ~succeeds]
  /\ UNCHANGED <<disk, recovery, seen, applied, unsynced>>

CleanupKeepsClaim(h) == \* mutant
  /\ pc[h] = "cleanup"
  /\ Continue(h, IF Resuming(h) /\ answer[h] = "restored" THEN "consume" ELSE "end")
  /\ Forget(h)
  /\ UNCHANGED <<disk, flagged, applied, unsynced>>

\* The finally block: the operation directory goes, or its error replaces the
\* answer and carries the flag.  Then resumePendingRestore ends the claim.
Cleanup(h) ==
  /\ pc[h] = "cleanup"
  /\ \E removed \in BOOLEAN :
       LET done == answer[h] = "restored"
           changed == flagged[h] \/ (done /\ ~removed)
       IN /\ flagged' = [flagged EXCEPT ![h] = changed]
          /\ Raise(h, IF removed THEN answer[h] ELSE "cleanup-failed",
                   CASE ~Resuming(h) -> "end"
                     [] Resuming(h) /\ done /\ removed -> "consume"
                     [] Resuming(h) /\ changed -> "mark"
                     [] OTHER -> "return")
  /\ Forget(h)
  /\ UNCHANGED <<disk, applied, unsynced>>

RestoreStep(h) == \/ Stage(h) \/ CheckLive(h) \/ SaveLive(h) \/ VerifyLive(h) \/ Switch(h)
                  \/ SyncSwitch(h) \/ ReadBack(h) \/ Rollback(h) \/ VerifyRollback(h)
                  \/ Cleanup(h)

\* A helper is killed, with or without its application.
Die(h) ==
  /\ h \in Running
  /\ Raise(h, None, "dead")
  /\ flagged' = [flagged EXCEPT ![h] = FALSE]
  /\ Forget(h)
  /\ UNCHANGED <<app, ver, entries, target, disk, applied, unsynced, overlapped>>

\* An update brings more migrations and applies them to a sound live database.
Update ==
  /\ Running = {} /\ app < LastSchema
  /\ app' = app + 1
  /\ UNCHANGED <<ver, entries, pc, target, answer, disk, rvars, overlapped>>

Pending(h) == /\ PublishStep(h) \/ ResumeStep(h)
              /\ UNCHANGED <<app, ver, target, disk, rvars, overlapped>>
Restoring(h) == RestoreStep(h) /\ UNCHANGED <<app, ver, target, entries, overlapped>>

Next == Update \/ \E h \in Helpers : Begin(h) \/ Pending(h) \/ Restoring(h) \/ Die(h)

Spec == Init /\ [][Next]_vars

----------------------------------------------------------------------------
(* No two artifacts are ever offered at once, however many helpers publish at
   the same time: each makes its own entry before it looks for others. *)
OneOffer == \A a, b \in Helpers : name[a] = "available" /\ name[b] = "available" => a = b

(* At every point where a helper may be killed, the name "available" covers a
   whole artifact, and one whose status file says so unless helpers overlapped. *)
OfferIsWhole ==
  \A a \in Helpers : name[a] = "available" =>
    Whole \subseteq files[a] /\ (overlapped \/ status[a] = "available")

(* desktop-storage.js:5790: an artifact whose data went live is not offered again
   ("so a later resume cannot double-apply it").  Without overlap, and but for a
   switchRestoreDatabase that could not sync the directory after its rename. *)
AppliedIsSpent ==
  ~overlapped =>
    \A h \in applied \ unsynced : Resuming(h) => name[target[h]] # "available"

(* Whatever replaces the live database, its content is in a safety backup or a
   preserved artifact by then (PRODUCT_SPEC.md:133), or was the candidate that is
   rolled back; and a rollback brings back the content its helper replaced. *)
ReplacedIsSaved ==
  [][ live' # live =>
        \/ live'.as = "rollback" /\ SameContent(live', seen[live'.by])
        \/ live = Missing
        \/ /\ live'.as = "candidate"
           /\ overlapped \/ \E h \in Helpers : saved[h] # Missing /\ SameContent(saved[h], live) ]_vars

(* A resume that failed before its switch gives its claim back: the artifact is
   offered again, not lost to the "processing" name that nothing ever clears. *)
FailedResumeReturnsClaim ==
  ~overlapped =>
    \A h \in Helpers :
      /\ pc[h] = "end" /\ Resuming(h)
      /\ answer[h] \in {"newer", "restore-failed", "switch-failed"} /\ ~flagged[h]
      /\ \A g \in Helpers \ {h} : target[g] # target[h]
      => name[target[h]] = "available" /\ status[target[h]] = "available"

(* A restore that succeeded had its candidate go live and, when resumed, has used
   the artifact up; an answer that is not about the switch left the data alone. *)
AnswerIsTrue ==
  ~overlapped =>
    \A h \in Helpers : pc[h] = "end" =>
      /\ answer[h] = "restored" => h \in applied /\ (Resuming(h) => name[target[h]] = "none")
      /\ answer[h] \in {"refused", "claim-failed", "newer", "publish-failed", "restore-failed"}
         => h \notin applied
      /\ answer[h] = "switch-failed" => (h \in applied <=> flagged[h] \/ h \in unsynced)

(* PRODUCT_SPEC.md:136-137: a backup from a newer application is kept and resumed
   after the update; an older one is migrated.  So once the application is new
   enough, the only entry there is, whole and untouched, can be resumed. *)
ResumableAfterUpdate ==
  \A a \in Helpers :
    /\ Entries = {a} /\ name[a] = "available"
    /\ files[a] = Whole /\ status[a] = "available" /\ ver[a] <= app
    => Offered(a)
=============================================================================
