--------------------------- MODULE UpdateRecovery ---------------------------
(* Applying a verified update: the user asks for it, the program restarts,   *)
(* a helper migrates a copy of the database and puts it in place, the bundle *)
(* is switched, the new program confirms itself and removes what is left of  *)
(* the old one; whatever fails is rolled back.  The program can stop between *)
(* any two steps, and every step that touches the disk can fail.             *)
EXTENDS UpdateState

CONSTANTS
  Candidate,                       \* the update that was verified
  MaxFaults, MaxRequests, MaxEdits \* bounds of the exploration
ASSUME RecoveryAssumption ==
  /\ Candidate \in Candidates
  /\ MaxFaults \in Nat /\ MaxRequests \in Nat /\ MaxEdits \in Nat

VARIABLES
  mem, file, blocked,  \* UpdateStateStore: memory, file, writes_blocked
  pc,        \* where the one start of the application is
  why,       \* what a rollback in progress was called for: "health", "rollback"
  restart,   \* the recovery asked for another restart
  bundle,    \* what is at each path that holds an application bundle
  db, backup, temp,  \* live database, safety backup, restore temporaries
  helper, copy,      \* the migration helper and its copy of the database
  migrates,  \* the candidate's schema is newer
  faults,    \* failures and crashes so far
  past       \* history, which nothing reads but the properties

store == <<mem, file, blocked>>
live == <<db, backup, temp>>
migration == <<helper, copy>>
uvars == <<mem, file, blocked, pc, why, restart, bundle, db, backup, temp,
           helper, copy, migrates, faults, past>>

Places == {"current", "rollback", "switch", "failed", "staged", "package"}
Contents == {"none", "old", "new", "part"}
Database == [schema : {"old", "new"}, edits : 0 .. MaxEdits]
NoBackup == [schema |-> "none", edits |-> 0]

\* requests: times the user asked for the update; claims: migrations begun;
\* saved: edits the user saved; late: some of them after the update was confirmed
\* and not cleaned up; torn: the helper's switch of the database may be
\* unrecorded; orphan: a helper outlived the application; confirmed: the new
\* program began to remove the old one.
Past == [requests : 0 .. MaxRequests, claims : Nat, saved : 0 .. MaxEdits, late : BOOLEAN,
         torn : BOOLEAN, orphan : BOOLEAN, confirmed : BOOLEAN]

Starting == {"load", "handoff", "claim", "migrating", "recover", "revalidate", "health",
             "healthy", "reconcile", "reconcile-health", "retry-health", "confirm", "confirmed",
             "cleanup-health", "switching", "copying", "switch-out", "switch-in", "switched",
             "back", "back-in", "restore", "restoring", "validate", "marker", "rolled-back",
             "cleanup", "cleanup-failed", "cleaned", "fail", "fail-rollback", "boot"}
Serving == {"session", "handing", "recovery-only"}

\* The types; and the state in memory is always one that validate accepts, so
\* that no start discards what another one stored.
TypeOK ==
  /\ mem \in State /\ Valid(mem) /\ file \in File /\ blocked \in BOOLEAN
  /\ pc \in {"off"} \union Starting \union Serving
  /\ why \in {"health", "rollback"} /\ restart \in BOOLEAN
  /\ bundle \in [Places -> Contents]
  /\ db \in Database /\ backup \in Database \union {NoBackup}
  /\ temp \in {"none", "part", "whole"}
  /\ helper \in {"none", "begun", "backed", "copied", "in-place"} /\ copy \in Database
  /\ migrates \in BOOLEAN
  /\ faults \in 0 .. MaxFaults /\ past \in Past

\* An update was downloaded, verified and announced; the old program runs.
Verified ==
  [Initial EXCEPT !.status = "available", !.last = "recent", !.cand = Candidate,
                  !.proof = "signed", !.verified = TRUE, !.pkg = TRUE, !.app = TRUE]
Init ==
  /\ mem = Verified /\ file = Written(Verified) /\ blocked = FALSE
  /\ pc = "session" /\ why = "rollback" /\ restart = FALSE
  /\ bundle = [p \in Places |-> IF p = "current" THEN "old"
                                ELSE IF p \in {"staged", "package"} THEN "new" ELSE "none"]
  /\ db = [schema |-> "old", edits |-> 0] /\ backup = NoBackup /\ temp = "none"
  /\ helper = "none" /\ copy = db /\ migrates \in BOOLEAN
  /\ faults = 0
  /\ past = [requests |-> 0, claims |-> 0, saved |-> 0, late |-> FALSE, torn |-> FALSE,
             orphan |-> FALSE, confirmed |-> FALSE]

At(from) == pc = from
Goto(to) == pc' = to
Fault == faults < MaxFaults /\ faults' = faults + 1
Fine == UNCHANGED faults

\* Storing next: done, or refused by the store or the disk.  A write can fail
\* after its rename: the file then holds what memory was put back from.
Store(next, to, failed) ==
  /\ UNCHANGED blocked
  /\ \/ ~blocked /\ Fine /\ mem' = next /\ file' = Written(next) /\ Goto(to)
     \/ blocked /\ Fine /\ UNCHANGED <<mem, file>> /\ Goto(failed)
     \/ ~blocked /\ Fault /\ UNCHANGED mem /\ file' \in {file, Written(next)} /\ Goto(failed)
\* A mutator that refuses is an error like a failed write.
Record(nexts, to, failed) ==
  \/ \E next \in nexts : Store(next, to, failed)
  \/ nexts = {} /\ UNCHANGED store /\ Fine /\ Goto(failed)

Exists(p) == bundle[p] # "none"
Fits(program) == \* the program can open the live database
  \/ program = "old" /\ db.schema = "old"
  \/ program = "new" /\ (migrates => db.schema = "new")

----------------------------------------------------------------------------
(* The session and its end                                                  *)

Edit ==
  /\ At("session") /\ past.saved < MaxEdits
  /\ db' = [db EXCEPT !.edits = @ + 1]
  /\ past' = [past EXCEPT !.saved = @ + 1, !.late = @ \/ mem.stage = "cleanup-pending"]
  /\ UNCHANGED <<store, pc, why, restart, bundle, backup, temp, migration, migrates, faults>>

\* apply_verified_update_worker: the user asks for it; revalidation needs the
\* network, and the staged files as they were verified.
Staged == bundle["staged"] = "new" /\ bundle["package"] = "new"
Apply ==
  /\ At("session") /\ past.requests < MaxRequests
  /\ mem.status = "available" /\ mem.verified /\ Staged
  /\ Record(BeginApply(mem, Candidate), "handing", "session")
  /\ past' = [past EXCEPT !.requests = @ + 1]
  /\ UNCHANGED <<why, restart, bundle, live, migration, migrates>>

\* request_explicit_update_restart: the exit is allowed after the hand-off is stored.
HandOff ==
  /\ At("handing")
  /\ Record(RecordHandoff(mem), "off", "session")
  /\ UNCHANGED <<why, restart, bundle, live, migration, migrates, past>>

Quit ==
  /\ pc \in {"session", "recovery-only"} /\ Goto("off")
  /\ UNCHANGED <<store, why, restart, bundle, live, migration, migrates, faults, past>>

\* The database is switched and nothing says so yet.
Unrecorded == helper = "in-place" \/ (At("migrating") /\ db.schema = "new")

\* The application is killed or the machine stops; a helper it started lives on
\* when only the application is killed.
Crash ==
  /\ pc \notin {"off", "session", "recovery-only"} /\ Fault /\ Goto("off")
  /\ \E killed \in BOOLEAN :
       /\ helper' = IF killed THEN "none" ELSE helper
       /\ past' = [past EXCEPT !.torn = @ \/ Unrecorded,
                               !.orphan = @ \/ helper' # "none"]
  /\ UNCHANGED <<store, why, restart, bundle, live, copy, migrates>>

----------------------------------------------------------------------------
(* A start: the state file, then the migration that was asked for           *)

\* Without a bundle at its path there is no application to start.
Launch ==
  /\ At("off") /\ bundle["current"] \in {"old", "new"} /\ Goto("load")
  /\ restart' = FALSE
  /\ UNCHANGED <<store, why, bundle, live, migration, migrates, faults, past>>

Load ==
  /\ At("load") /\ Goto("handoff")
  /\ LET read == Loaded(file, TRUE) IN
       /\ mem' = read.st
       /\ \/ ~read.persist /\ blocked' = read.blocked /\ Fine /\ UNCHANGED file
          \/ read.persist /\ blocked' = FALSE /\ Fine /\ file' = Written(read.st)
          \/ read.persist /\ blocked' = TRUE /\ Fault /\ file' \in {file, Written(read.st)}
  /\ UNCHANGED <<why, restart, bundle, live, migration, migrates, past>>

\* run_startup_staged_migration: the candidate is revalidated before the claim.
CheckHandoff ==
  /\ At("handoff")
  /\ \/ ~HasPendingApply(mem) /\ Goto("recover") /\ Fine
     \/ HasPendingApply(mem) /\ Staged /\ Goto("claim") /\ Fine
     \/ HasPendingApply(mem) /\ ~Staged /\ Goto("off") /\ Fine
     \/ HasPendingApply(mem) /\ Goto("off") /\ Fault \* no network, another release
  /\ UNCHANGED <<store, why, restart, bundle, live, migration, migrates, past>>

ClaimIt ==
  /\ At("claim") /\ helper = "none"
  /\ Record(ClaimMigration(mem), "migrating", "off")
  /\ \/ pc' = "migrating" /\ helper' = "begun" /\ past' = [past EXCEPT !.claims = @ + 1]
     \/ pc' # "migrating" /\ UNCHANGED <<helper, past>>
  /\ UNCHANGED <<why, restart, bundle, live, copy, migrates>>

----------------------------------------------------------------------------
(* runStagedUpdateMigration, in its own process                             *)

\* What the application makes of the helper's end, if it still waits for it.
Reports(recorded) ==
  IF At("migrating") THEN Record(recorded, "recover", "off")
  ELSE UNCHANGED store /\ UNCHANGED pc /\ Fine

\* The live database already fits, or an earlier backup no longer equals it.
HelperEnds ==
  /\ helper = "begun" /\ helper' = "none"
  /\ \/ (migrates => db.schema = "new") /\ Reports(RecordNoPending(mem))
     \/ /\ migrates /\ db.schema = "old" /\ backup \notin {NoBackup, db}
        /\ Reports(RecordMigrationFailure(mem))
  /\ UNCHANGED <<why, restart, bundle, live, copy, migrates, past>>

\* createSafetyBackup
BackUpKept == \* mutant: an earlier backup is reused without comparing it
  /\ helper = "begun" /\ migrates /\ db.schema = "old"
  /\ helper' = "backed" /\ backup' = IF backup = NoBackup THEN db ELSE backup
  /\ UNCHANGED <<store, pc, why, restart, bundle, db, temp, copy, migrates, faults, past>>
BackUp ==
  /\ helper = "begun" /\ migrates /\ db.schema = "old" /\ backup \in {NoBackup, db}
  /\ helper' = "backed" /\ backup' = db
  /\ UNCHANGED <<store, pc, why, restart, bundle, db, temp, copy, migrates, faults, past>>

\* createStagedDatabaseCopy and the migration of the copy
MigrateCopy ==
  /\ helper = "backed" /\ helper' = "copied" /\ copy' = [db EXCEPT !.schema = "new"]
  /\ UNCHANGED <<store, pc, why, restart, bundle, live, migrates, faults, past>>

\* switchStagedDatabase
PutInPlace ==
  /\ helper = "copied" /\ helper' = "in-place" /\ db' = copy
  /\ UNCHANGED <<store, pc, why, restart, bundle, backup, temp, copy, migrates, faults, past>>

HelperDone ==
  /\ helper = "in-place" /\ helper' = "none"
  /\ Reports(RecordSwitched(mem))
  /\ past' = [past EXCEPT !.torn = @ \/ pc' # "recover"]
  /\ UNCHANGED <<why, restart, bundle, live, copy, migrates>>

\* It fails before the rename, or at the directory sync after it.
HelperFails ==
  /\ helper # "none" /\ helper' = "none" /\ Fault
  /\ \/ /\ At("migrating")
        /\ \E next \in RecordMigrationFailure(mem) : mem' = next /\ file' = Written(next)
        /\ Goto("recover")
     \/ ~At("migrating") /\ UNCHANGED <<mem, file, pc>>
  /\ past' = [past EXCEPT !.torn = @ \/ helper = "in-place"]
  /\ UNCHANGED <<blocked, why, restart, bundle, live, copy, migrates>>

----------------------------------------------------------------------------
(* run_startup_update_recovery                                              *)

\* By the phase, and for the health check by the checkpoint.  The health check
\* needs the extracted candidate.
Entry ==
  IF mem.phase = "rollback" THEN "back"
  ELSE IF mem.phase = "cleanup"
       THEN IF bundle["current"] = "new" THEN "cleanup-health" ELSE "fail"
  ELSE IF mem.phase # "restart-health-check" THEN "boot"
  ELSE IF bundle["staged"] # "new" THEN "fail"
  ELSE IF mem.stage = "health-pending" THEN "revalidate"
  ELSE IF mem.stage = "bundle-switching" THEN "reconcile"
  ELSE IF bundle["current"] = "new" THEN "confirm" ELSE "fail"
Recover ==
  /\ At("recover") /\ Goto(Entry)
  /\ why' = "rollback"
  /\ UNCHANGED <<store, restart, bundle, live, migration, migrates, faults, past>>

Revalidate ==
  /\ At("revalidate")
  /\ \/ Staged /\ Goto("health") /\ Fine
     \/ ~Staged /\ Goto("fail") /\ Fine
     \/ Goto("fail") /\ Fault
  /\ UNCHANGED <<store, why, restart, bundle, live, migration, migrates, past>>

\* run_candidate_health: the candidate's sidecar answers and its database check
\* passes; else the bundle goes back.
Health(from, healthy) ==
  /\ At(from) /\ why' = "health"
  /\ \/ Fits("new") /\ Goto(healthy) /\ Fine
     \/ ~Fits("new") /\ Goto("back") /\ Fine
     \/ Goto("back") /\ Fault
  /\ UNCHANGED <<store, restart, bundle, live, migration, migrates, past>>

\* The checkpoint is written before the bundle is touched.
HealthPending == Health("health", "healthy")
BeginSwitch ==
  /\ At("healthy")
  /\ Record(RecordSwitching(mem), "switching", "fail")
  /\ UNCHANGED <<why, restart, bundle, live, migration, migrates, past>>

\* A step on the bundles alone.
Bundles(to, b) ==
  /\ bundle' = b /\ Goto(to)
  /\ UNCHANGED <<store, why, restart, live, migration, migrates, past>>

\* reconcile_bundle_switch: a start that finds the switch begun and not recorded.
Reconcile ==
  LET switched == bundle["current"] = "new"
      to == IF switched /\ Exists("rollback") /\ ~Exists("switch") THEN "reconcile-health"
            ELSE IF ~switched /\ ~Exists("rollback") /\ ~Exists("switch") THEN "retry-health"
            ELSE "fail"
  IN /\ At("reconcile") /\ Fine /\ Bundles(to, bundle)
ReconcileHealth == Health("reconcile-health", "switched")

\* handle_health_failure: here no bundle has moved.
RetryHealth ==
  /\ At("retry-health") /\ why' = "health" /\ restart' = FALSE
  /\ \/ Fits("new") /\ Goto("switching") /\ Fine
     \/ ~Fits("new") /\ Goto("restore") /\ Fine
     \/ Goto("restore") /\ Fault
  /\ UNCHANGED <<store, bundle, live, migration, migrates, past>>

----------------------------------------------------------------------------
(* switch_bundle                                                            *)

\* A copy left by an earlier attempt is used when it is complete, else made anew.
PrepareSwitch ==
  /\ At("switching")
  /\ \/ Exists("rollback") /\ Fine /\ Bundles("fail-rollback", bundle)
     \/ /\ ~Exists("rollback")
        /\ \/ bundle["switch"] = "new" /\ Fine /\ Bundles("switch-out", bundle)
           \/ bundle["switch"] # "new" /\ Fine
                /\ Bundles("copying", [bundle EXCEPT !["switch"] = "part"])
           \/ bundle["switch"] # "new" /\ Fault /\ Bundles("fail-rollback", bundle)
CopyBundle ==
  /\ At("copying")
  /\ \/ Fine /\ Bundles("switch-out", [bundle EXCEPT !["switch"] = "new"])
     \/ Fault /\ \E left \in {"none", "part"} :
                   Bundles("fail-rollback", [bundle EXCEPT !["switch"] = left])

Renamed(from, to) == [bundle EXCEPT ![to] = bundle[from], ![from] = "none"]

SwitchOut ==
  /\ At("switch-out")
  /\ \/ Fine /\ Bundles("switch-in", Renamed("current", "rollback"))
     \/ Fault /\ Bundles("fail-rollback", bundle)

\* The second rename fails and the old bundle goes back, or even that fails; or
\* it is done and the directory cannot be synced.
SwitchIn ==
  /\ At("switch-in")
  /\ \/ Fine /\ Bundles("switched", Renamed("switch", "current"))
     \/ Fault /\ \E b \in {Renamed("rollback", "current"), bundle, Renamed("switch", "current")} :
                   Bundles("fail-rollback", b)

Switched ==
  /\ At("switched") /\ restart' = TRUE
  /\ Record(RecordBundleSwitched(mem), "boot", "fail")
  /\ UNCHANGED <<why, bundle, live, migration, migrates, past>>

----------------------------------------------------------------------------
(* finish_switched_candidate and recover_cleanup                            *)

Confirm == Health("confirm", "confirmed")
Confirmed ==
  /\ At("confirmed")
  /\ Record(RecordCleanupPending(mem), "cleanup", "fail")
  /\ UNCHANGED <<why, restart, bundle, live, migration, migrates, past>>
CleanupHealth == Health("cleanup-health", "cleanup")

\* cleanup_after_success removes them in this order, the safety backup last.
CleanupOrder == <<"rollback", "switch", "failed", "staged", "package">>
Cleanup ==
  /\ At("cleanup") /\ temp' = "none"
  /\ \/ /\ \E i \in DOMAIN CleanupOrder :
             LET p == CleanupOrder[i] IN
               /\ Exists(p) /\ \A j \in 1 .. i - 1 : ~Exists(CleanupOrder[j])
               /\ \/ Fine /\ bundle' = [bundle EXCEPT ![p] = "none"] /\ Goto("cleanup")
                  \/ /\ Fault /\ bundle' \in {bundle, [bundle EXCEPT ![p] = "part"]}
                     /\ pc' \in {"cleanup-failed", "off"}
        /\ UNCHANGED backup
     \/ /\ \A i \in DOMAIN CleanupOrder : ~Exists(CleanupOrder[i])
        /\ \/ Fine /\ backup' = NoBackup /\ Goto("cleaned")
           \/ Fault /\ UNCHANGED backup /\ Goto("cleanup-failed")
        /\ UNCHANGED bundle
  /\ past' = [past EXCEPT !.confirmed = TRUE]
  /\ UNCHANGED <<store, why, restart, db, migration, migrates>>

CleanupFailed ==
  /\ At("cleanup-failed") /\ restart' = FALSE
  /\ Record(RecordRecoveryFailure(mem, "cleanup-pending", mem.db), "boot", "fail")
  /\ UNCHANGED <<why, bundle, live, migration, migrates, past>>
Cleaned ==
  /\ At("cleaned") /\ restart' = FALSE
  /\ Record(CompleteUpdate(mem), "boot", "fail")
  /\ UNCHANGED <<why, bundle, live, migration, migrates, past>>

----------------------------------------------------------------------------
(* recover_rollback and rollback_after_health_failure                        *)

\* Only the latter records its failure whatever was recorded before.
BackFails == IF why = "health" THEN "fail-rollback" ELSE "fail"

\* rollback_bundle_if_needed
Back ==
  /\ At("back")
  /\ LET candidate == bundle["current"] = "new"
         stuck == IF candidate THEN ~Exists("rollback") \/ Exists("failed")
                  ELSE Exists("rollback")
     IN \/ stuck /\ Fine /\ restart' = restart /\ bundle' = bundle /\ Goto(BackFails)
        \/ /\ ~stuck /\ ~candidate
           /\ Fine /\ restart' = FALSE /\ bundle' = bundle /\ Goto("restore")
        \/ /\ ~stuck /\ candidate
           /\ \/ Fine /\ bundle' = Renamed("current", "failed") /\ Goto("back-in")
              \/ Fault /\ bundle' = bundle /\ Goto(BackFails)
           /\ restart' = TRUE
  /\ UNCHANGED <<store, why, live, migration, migrates, past>>
BackIn ==
  /\ At("back-in")
  /\ \/ Fine /\ Bundles("restore", Renamed("rollback", "current"))
     \/ Fault /\ \E b \in {Renamed("failed", "current"), bundle, Renamed("rollback", "current")} :
                   Bundles(BackFails, b)

RestoreStale == \* mutant: a copy left by an earlier attempt stays in the way
  /\ At("restore") /\ Fine
  /\ \/ mem.db # "yes" /\ Goto("marker") /\ UNCHANGED temp
     \/ mem.db = "yes" /\ temp = "part" /\ Goto("fail-rollback") /\ UNCHANGED temp
     \/ mem.db = "yes" /\ temp # "part" /\ temp' = "part" /\ Goto("restoring")
  /\ UNCHANGED <<store, why, restart, bundle, db, backup, migration, migrates, past>>
\* database_switch_was_proven, restore_database_if_needed: only a recorded switch of the database is undone.
ProvenByBackup == backup # NoBackup \* mutant: a backup is taken for evidence of the switch
Proven == mem.db = "yes"
Restore ==
  /\ At("restore") /\ Fine
  /\ \/ ~Proven /\ Goto("marker") /\ UNCHANGED temp
     \/ Proven /\ backup = NoBackup /\ Goto("fail-rollback") /\ UNCHANGED temp
     \/ Proven /\ backup = db /\ Goto("validate") /\ temp' = "none"
     \/ /\ Proven /\ backup \notin {NoBackup, db}
        /\ \/ temp = "part" /\ temp' = "none" /\ Goto("fail-rollback")
           \/ temp # "part" /\ temp' = "part" /\ Goto("restoring")
  /\ UNCHANGED <<store, why, restart, bundle, db, backup, migration, migrates, past>>

RestoringCompared == \* mutant: a rollback is done when the copies are made
  /\ At("restoring") /\ Fine /\ temp' = "whole" /\ Goto("marker")
  /\ UNCHANGED <<store, why, restart, bundle, db, backup, migration, migrates, past>>
\* atomic_restore_database: copies of both databases, then one rename.
Restoring ==
  /\ At("restoring")
  /\ \/ Fine /\ db' = backup /\ temp' = "whole" /\ Goto("validate")
     \/ Fault /\ UNCHANGED db /\ temp' = "none" /\ Goto("fail-rollback")
  /\ UNCHANGED <<store, why, restart, bundle, backup, migration, migrates, past>>
Validate ==
  /\ At("validate") /\ temp' = "none"
  /\ \/ Fits(bundle["current"]) /\ Fine /\ Goto("marker")
     \/ ~Fits(bundle["current"]) /\ Fine /\ Goto("fail-rollback")
     \/ Fault /\ Goto("fail-rollback")
  /\ UNCHANGED <<store, why, restart, bundle, db, backup, migration, migrates, past>>

MarkerKept == \* mutant: the failed bundle stays
  /\ At("marker") /\ Fine /\ temp' = "none" /\ Goto("rolled-back")
  /\ UNCHANGED <<store, why, restart, bundle, db, backup, migration, migrates, past>>
\* cleanup_failed_marker_before_rollback_completion
Marker ==
  /\ At("marker")
  /\ \/ Fine /\ temp' = "none" /\ bundle' = [bundle EXCEPT !["failed"] = "none"]
             /\ Goto("rolled-back")
     \/ Fault /\ temp' \in {temp, "none"} /\ pc' \in {"fail-rollback", "off"}
              /\ \/ UNCHANGED bundle
                 \/ Exists("failed") /\ bundle' = [bundle EXCEPT !["failed"] = "part"]
  /\ UNCHANGED <<store, why, restart, db, backup, migration, migrates, past>>

RolledBack ==
  LET code == IF why = "health" \/ mem.failure = "none" THEN "other" ELSE mem.failure IN
  /\ At("rolled-back")
  /\ Record(RecordRollbackCompleted(mem, code), "boot", "fail")
  /\ UNCHANGED <<why, restart, bundle, live, migration, migrates, past>>

\* record_unhandled_recovery_failure, then the start gives up.
GiveUp ==
  /\ At("fail")
  /\ IF mem.failure # "none" \/ mem.phase \notin Applying \ {"apply-preparation"}
     THEN Fine /\ UNCHANGED store /\ Goto("off")
     ELSE LET stage == IF mem.phase = "cleanup" THEN "cleanup-pending" ELSE "rollback-pending"
          IN Record(RecordRecoveryFailure(mem, stage, mem.db), "off", "off")
  /\ UNCHANGED <<why, restart, bundle, live, migration, migrates, past>>
GiveUpRollback ==
  /\ At("fail-rollback")
  /\ Record(RecordRecoveryFailure(mem, "rollback-pending", mem.db), "off", "fail")
  /\ UNCHANGED <<why, restart, bundle, live, migration, migrates, past>>

----------------------------------------------------------------------------
(* The rest of the start: bootstrap, the sidecar, the window                *)

\* A database the program at `current` cannot open leads to the recovery page,
\* where the restart that was asked for is forgotten.
Boot ==
  /\ At("boot")
  /\ Goto(IF bundle["current"] \notin {"old", "new"} THEN "off"
          ELSE IF ~Fits(bundle["current"]) THEN "recovery-only"
          ELSE IF restart THEN "off" ELSE "session")
  /\ UNCHANGED <<store, why, restart, bundle, live, migration, migrates, faults, past>>

Recovery ==
  \/ Recover \/ Revalidate \/ HealthPending \/ BeginSwitch \/ Reconcile \/ ReconcileHealth
  \/ RetryHealth \/ PrepareSwitch \/ CopyBundle \/ SwitchOut \/ SwitchIn \/ Switched
  \/ Confirm \/ Confirmed \/ CleanupHealth \/ Cleanup \/ CleanupFailed \/ Cleaned
  \/ Back \/ BackIn \/ Restore \/ Restoring \/ Validate \/ Marker \/ RolledBack
  \/ GiveUp \/ GiveUpRollback \/ Boot
Helping == HelperEnds \/ BackUp \/ MigrateCopy \/ PutInPlace \/ HelperDone \/ HelperFails
Start == Launch \/ Load \/ CheckHandoff \/ ClaimIt \/ Recovery
Next == Edit \/ Apply \/ HandOff \/ Quit \/ Crash \/ Start \/ Helping

\* The program and its helper go on unless they are stopped; the user starts the
\* application again.
Fairness == WF_uvars(Start) /\ WF_uvars(HandOff) /\ WF_uvars(Helping)
Spec == Init /\ [][Next]_uvars /\ Fairness

----------------------------------------------------------------------------
(* What applying an update promises                                         *)

\* Whatever fails, the application never ends on the recovery page, where no
\* note can be read: the program at its path can open the database, unless the
\* helper switched the database and was stopped before that was recorded.
NeverLockedOut == At("recovery-only") => past.torn \/ past.orphan

\* Until the new program confirmed itself the old one is whole at one of the
\* two paths, and a database that was migrated has its backup.
Unconfirmed == ~past.confirmed /\ mem.phase \in {"restart-health-check", "rollback"}
WayBack ==
  /\ Unconfirmed => \E p \in {"current", "rollback"} : bundle[p] = "old"
  /\ Unconfirmed /\ migrates /\ mem.db = "yes" /\ db.schema = "new" =>
       backup = [db EXCEPT !.schema = "old"]

\* No edit that was saved is lost or brought back.
EditsKept == db.edits = past.saved \/ past.late \/ past.orphan

\* The migration runs once for each time the user asked for the update.
NoRerun == past.claims <= past.requests

\* A candidate that was rolled back is offered again beside the old program and
\* its database, with nothing in the way of the next attempt.
RollbackIsWhole ==
  At("session") /\ mem.status = "available" =>
    /\ bundle["current"] = "old" /\ (db.schema = "old" \/ ~migrates \/ past.torn \/ past.orphan)
    /\ ~Exists("rollback") /\ ~Exists("failed")

\* The application comes back after every stop, once the failures cease: no start
\* gives up for ever.  Two ends are known: a stop between the two renames of a
\* switch or of its rollback leaves no bundle at the application's path, and a
\* health check that fails once the cleanup is recorded calls for a rollback with
\* nothing to go back to, or one that stops before it is recorded.
Dead ==
  \/ bundle["current"] \notin {"old", "new"}
  \/ past.confirmed /\ mem.phase = "rollback"
  \/ mem.phase = "cleanup" /\ bundle["current"] = "old"
ServedAgain == []<>(pc \in Serving \/ Dead)

=============================================================================
