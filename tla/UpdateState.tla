---------------------------- MODULE UpdateState -----------------------------
(* The update state: one record, in settings/update-state.json and in        *)
(* memory, that every operation of the updater reads and moves.  A mutator   *)
(* of UpdateStateStore is a set here: the state it would store, or nothing   *)
(* when it refuses.  Timestamps are kept as the age of the last check.       *)
EXTENDS Naturals

CONSTANTS Candidates, None
ASSUME CandidatesAssumption == None \notin Candidates

Statuses == {"not-checked", "checking", "no-update", "available", "failed"}
Phases == {"none", "manifest-check", "package-verification", "apply-preparation",
           "restart-health-check", "rollback", "cleanup"}
Handoffs == {"none", "requested", "migration-started"}
Stages == {"none", "health-pending", "bundle-switching", "bundle-switched",
           "cleanup-pending", "rollback-pending"}
\* Failure codes: load_or_default looks for those of a staged migration.
Failures == {"none", "staged-migration", "other"}

\* proof: what the candidate is bound to (nothing, a digest, a signed identity);
\* pkg, app: its paths are recorded.
State ==
  [status : Statuses, phase : Phases, handoff : Handoffs, last : {"never", "recent", "old"},
   cand : Candidates \union {None}, proof : {"none", "digest", "signed"}, verified : BOOLEAN,
   pkg : BOOLEAN, app : BOOLEAN, failure : Failures, notified : BOOLEAN,
   stage : Stages, db : {"unknown", "no", "yes"}]

Initial ==
  [status |-> "not-checked", phase |-> "none", handoff |-> "none", last |-> "never",
   cand |-> None, proof |-> "none", verified |-> FALSE, pkg |-> FALSE, app |-> FALSE,
   failure |-> "none", notified |-> FALSE, stage |-> "none", db |-> "unknown"]

Applying == {"apply-preparation", "restart-health-check", "rollback", "cleanup"}
StagePhase(stage) ==
  CASE stage = "cleanup-pending" -> "cleanup"
    [] stage = "rollback-pending" -> "rollback"
    [] OTHER -> "restart-health-check"

\* PendingUpdate::validate
ValidPending(s) ==
  /\ s.cand = None => s.proof = "none" /\ ~s.verified /\ ~s.notified
  /\ s.verified => s.proof = "signed" /\ s.pkg /\ s.app
  /\ s.pkg \/ s.app => s.proof # "none"

\* UpdateState::validate, in its order
Valid(s) ==
  /\ ValidPending(s)
  /\ s.status = "checking" <=> s.phase # "none"
  /\ s.phase \in Applying \union {"package-verification"} => s.cand # None
  /\ s.phase \in Applying => s.verified
  /\ s.handoff # "none" => s.phase = "apply-preparation" /\ s.failure = "none"
  /\ s.stage # "none" => s.cand # None /\ s.phase = StagePhase(s.stage)
  /\ s.stage = "none" => s.db = "unknown"
  /\ s.status \in {"not-checked", "no-update"} => s.cand = None /\ s.failure = "none"
  /\ s.status = "checking" =>
       s.last # "never" /\ (s.failure # "none" => s.phase \in {"rollback", "cleanup"})
  /\ s.status = "available" => s.cand # None
  /\ s.status = "failed" => s.cand = None /\ s.failure # "none"

\* What a mutator stores: `next` if `guard` lets it.
Stores(guard, next) == IF guard THEN {next} ELSE {}

NoCandidate(s) ==
  [s EXCEPT !.cand = None, !.proof = "none", !.verified = FALSE, !.pkg = FALSE,
            !.app = FALSE, !.notified = FALSE]
Unverified(s) == [s EXCEPT !.verified = FALSE, !.pkg = FALSE, !.app = FALSE]
Settled(s, status, failure) ==
  [s EXCEPT !.status = status, !.phase = "none", !.failure = failure,
            !.handoff = "none", !.stage = "none", !.db = "unknown"]

\* candidate_identity_matches: without a signed identity nothing matches.
SameCandidate(s, c) == s.cand = c /\ s.proof = "signed"

----------------------------------------------------------------------------
(* Checking for an update                                                   *)

AutomaticIsDue(s) == s.last # "recent"

BeginCheck(s, trigger) ==
  Stores(s.status # "checking" /\ (trigger = "automatic" => AutomaticIsDue(s)),
         [s EXCEPT !.status = "checking", !.phase = "manifest-check", !.last = "recent",
                   !.failure = "none", !.handoff = "none", !.stage = "none", !.db = "unknown"])

RecordNoUpdate(s) ==
  Stores(s.status = "checking", Settled(NoCandidate(s), "no-update", "none"))

\* The same candidate keeps its verification and its notification.
WithCandidate(s, c) ==
  IF SameCandidate(s, c) THEN s ELSE [NoCandidate(s) EXCEPT !.cand = c, !.proof = "signed"]
RecordAvailable(s, c) ==
  Stores(s.status = "checking", Settled(WithCandidate(s, c), "available", "none"))

ReplaceAvailable(s, c) ==
  Stores(s.status = "available",
         [Settled(WithCandidate(s, c), "available", "none") EXCEPT !.notified = FALSE])

RecordRevalidatedNoUpdate(s) ==
  Stores(s.status = "available", Settled(NoCandidate(s), "no-update", "none"))

RecordFailureNote(s) == \* mutant: the state goes on saying that it checks
  Stores(s.status = "checking", s)
RecordFailureDrop(s) == \* mutant: the candidate is dropped
  Stores(s.status = "checking", Settled(NoCandidate(s), "failed", "other"))
RecordFailure(s) ==
  Stores(s.status = "checking",
         Settled(s, IF s.cand = None THEN "failed" ELSE "available", "other"))

RecordVerificationFailure(s) ==
  Stores(s.status \in {"available", "checking"}, Settled(NoCandidate(s), "failed", "other"))

ClaimNotification(s) ==
  Stores(s.status = "available" /\ ~s.notified, [s EXCEPT !.notified = TRUE])

----------------------------------------------------------------------------
(* Verifying the package                                                    *)

BeginPackageVerification(s, c) ==
  Stores(s.status = "available" /\ SameCandidate(s, c),
         [Unverified(s) EXCEPT !.status = "checking", !.phase = "package-verification",
                               !.failure = "none", !.handoff = "none"])

RecordPackage(s, c) ==
  Stores(s.phase = "package-verification" /\ SameCandidate(s, c),
         [Unverified(s) EXCEPT !.pkg = TRUE])

RecordExtraction(s, c) ==
  Stores(s.phase = "package-verification" /\ s.pkg /\ SameCandidate(s, c),
         [s EXCEPT !.app = TRUE, !.verified = FALSE])

RecordVerified(s, c) ==
  Stores(s.phase = "package-verification" /\ s.pkg /\ s.app /\ SameCandidate(s, c),
         [s EXCEPT !.status = "available", !.phase = "none", !.verified = TRUE,
                   !.failure = "none", !.handoff = "none"])

----------------------------------------------------------------------------
(* Applying it                                                              *)

BeginApply(s, c) ==
  Stores(s.status = "available" /\ SameCandidate(s, c) /\ s.verified,
         [s EXCEPT !.status = "checking", !.phase = "apply-preparation",
                   !.failure = "none", !.handoff = "none"])

HasPendingApply(s) ==
  s.phase = "apply-preparation" /\ s.failure = "none" /\ s.handoff # "none" /\ s.verified

RecordHandoff(s) ==
  Stores(s.phase = "apply-preparation" /\ s.failure = "none" /\ s.verified
           /\ s.handoff # "migration-started",
         [s EXCEPT !.handoff = "requested"])

ClaimMigration(s) ==
  Stores(s.phase = "apply-preparation" /\ s.failure = "none" /\ s.verified
           /\ s.handoff = "requested",
         [s EXCEPT !.handoff = "migration-started"])

Recovering(s, stage, db, failure) ==
  [s EXCEPT !.phase = StagePhase(stage), !.stage = stage, !.db = db,
            !.failure = failure, !.handoff = "none"]

Claimed(s) == s.phase = "apply-preparation" /\ s.handoff = "migration-started"
RecordNoPending(s) ==
  Stores(Claimed(s) /\ s.verified, Recovering(s, "health-pending", "no", "none"))
RecordSwitched(s) ==
  Stores(Claimed(s) /\ s.verified, Recovering(s, "health-pending", "yes", "none"))
RecordMigrationFailure(s) ==
  Stores(Claimed(s), Recovering(s, "rollback-pending", "no", "staged-migration"))

MergeEvidence(old, new) ==
  IF "yes" \in {old, new} THEN "yes" ELSE IF "no" \in {old, new} THEN "no" ELSE "unknown"

RecordSwitching(s) ==
  Stores(s.phase = "restart-health-check" /\ s.verified, [s EXCEPT !.stage = "bundle-switching"])

RecordBundleSwitched(s) ==
  Stores(s.phase = "restart-health-check" /\ s.verified
           /\ s.stage \in {"bundle-switching", "bundle-switched"},
         [s EXCEPT !.stage = "bundle-switched"])

RecordCleanupPending(s) ==
  Stores(s.phase = "restart-health-check" /\ s.stage = "bundle-switched",
         [s EXCEPT !.phase = "cleanup", !.stage = "cleanup-pending"])

RecordRecoveryFailure(s, stage, db) ==
  Stores(s.status = "checking" /\ s.cand # None,
         Recovering(s, stage, MergeEvidence(s.db, db), "other"))

\* The code of the failure that led here is kept.
RecordRollbackCompleted(s, failure) ==
  Stores(s.phase \in {"restart-health-check", "rollback", "cleanup"} /\ s.verified
           /\ s.stage # "none",
         Settled(s, "available", failure))

CompleteUpdate(s) ==
  IF s.status = "no-update" /\ s.cand = None THEN {s}
  ELSE Stores(s.phase = "cleanup" /\ s.stage = "cleanup-pending",
              Settled(NoCandidate(s), "no-update", "none"))

----------------------------------------------------------------------------
(* Loading the file: load_or_default_at                                      *)

\* What the file may hold: a state of this or of the first schema, or nothing
\* usable.  An older program wrote verified candidates without an identity.
File == [form : {"missing", "symlink", "unreadable", "empty", "invalid", "newer", "v1", "v2"},
         st : State]
Written(s) == [form |-> "v2", st |-> s]

\* downgrade_unbound_verified_candidate
DowngradeUnbound(s) == IF s.verified /\ s.proof # "signed" THEN Unverified(s) ELSE s

\* validate_legacy_state and migrate_legacy_state: a candidate keeps its name only.
ValidLegacy(s) ==
  /\ s.status \in {"not-checked", "no-update"} => s.cand = None /\ s.failure = "none"
  /\ s.status = "checking" => s.last # "never" /\ s.failure = "none"
  /\ s.status = "available" => s.cand # None /\ s.failure = "none"
  /\ s.status = "failed" => s.cand = None /\ s.failure # "none"
  /\ s.notified => s.cand # None
MigrateLegacy(s) ==
  IF s.status = "checking" THEN Settled(NoCandidate(s), "failed", "other")
  ELSE [Settled(Unverified(s), s.status, s.failure) EXCEPT !.proof = "none"]

\* parse_state
Parsed(file) ==
  IF file.form = "v1" THEN MigrateLegacy(file.st) ELSE DowngradeUnbound(file.st)
Usable(file) ==
  \/ file.form = "v1" /\ ValidLegacy(file.st) /\ Valid(MigrateLegacy(file.st))
  \/ file.form = "v2" /\ Valid(DowngradeUnbound(file.st))

\* recover_persisted_staged_migration_failure
ResumeStagedFailure(s) ==
  IF s.status = "available" /\ s.failure = "staged-migration" /\ s.verified
  THEN [Recovering(s, "rollback-pending", "no", s.failure) EXCEPT !.status = "checking"]
  ELSE s

\* recover_interrupted_check
Interrupted(s) ==
  s.phase \in {"manifest-check", "package-verification", "apply-preparation"}
  /\ s.handoff # "requested"
RecoverInterrupted(s) ==
  IF ~Interrupted(s) THEN s
  ELSE IF s.phase = "apply-preparation"
       THEN Recovering(s, "rollback-pending", "unknown", "other")
  ELSE IF s.phase = "manifest-check" /\ s.cand # None
       THEN [s EXCEPT !.status = "available", !.phase = "none", !.failure = "other"]
  ELSE [NoCandidate(s) EXCEPT !.status = "failed", !.phase = "none", !.failure = "other"]

\* ensure_recovery_checkpoint
EnsureCheckpoint(s) ==
  IF s.cand = None \/ s.stage # "none" THEN s
  ELSE CASE s.phase = "restart-health-check" -> [s EXCEPT !.stage = "health-pending"]
         [] s.phase = "rollback" -> [s EXCEPT !.stage = "rollback-pending"]
         [] s.phase = "cleanup" -> [s EXCEPT !.stage = "cleanup-pending"]
         [] OTHER -> s

\* The state a start works with, whether it may write it, and whether it must.
\* `sound`: the recorded paths hold no symlink (validate_paths_at, put off while
\* an update is applied).
Loaded(file, sound) ==
  LET read == ResumeStagedFailure(Parsed(file))
      trusted == Usable(file) /\ (sound \/ read.phase \in Applying)
      st == IF trusted THEN EnsureCheckpoint(RecoverInterrupted(read)) ELSE Initial
  IN [st |-> st,
      blocked |-> file.form \in {"symlink", "newer"},
      issue |-> file.form # "missing" /\ ~trusted,
      persist |-> trusted /\ file # Written(st)]

=============================================================================
