------------------------- MODULE UpdateRecovery_proofs -------------------------
(* An update applied with any number of failures, crashes, requests and edits:  *)
(* the state that is stored is always one the next start accepts, a migration   *)
(* runs once for each request, the old program is whole until the new one       *)
(* confirmed itself, no saved edit is lost, a rollback leaves nothing behind,   *)
(* and the recovery page is reached only after an unrecorded switch.            *)
EXTENDS UpdateRecovery, TLAPS

-----------------------------------------------------------------------------
(* The state and its mutators.                                             *)

\* A state the recovery works with: validate accepts it, and it is one of applying.
Sound(s) ==
  s \in State /\ Valid(s) /\ s.last # "never" /\ s.phase \in Applying \union {"none"}

\* A migration the user has asked for and that has not begun.
Credit(s) == s.phase = "apply-preparation" /\ s.handoff # "migration-started"

\* What a mutator does that neither asks for a migration nor records its switch.
Tame(s, n) == Sound(n) /\ ~Credit(n) /\ (n.db = "yes" => s.db = "yes")

LEMMA Words ==
  /\ {"checking", "available", "no-update", "failed"} \subseteq Statuses
  /\ {"none", "apply-preparation", "restart-health-check", "rollback", "cleanup"} \subseteq Phases
  /\ {"none", "requested", "migration-started"} \subseteq Handoffs
  /\ {"none", "health-pending", "bundle-switching", "bundle-switched", "cleanup-pending",
      "rollback-pending"} \subseteq Stages
  /\ {"none", "staged-migration", "other"} \subseteq Failures
  /\ \A stage \in Stages : StagePhase(stage) \in Phases
  BY DEF Statuses, Phases, Handoffs, Stages, Failures, StagePhase

(* What the mutators need of a sound state. *)
LEMMA SoundFacts ==
  ASSUME NEW s, Sound(s)
  PROVE  /\ s \in State
         /\ s.status = "checking" <=> s.phase # "none"
         /\ s.phase # "none" => s.cand # None /\ s.verified
         /\ s.stage # "none" => s.phase = StagePhase(s.stage)
         /\ s.stage = "none" => s.db = "unknown"
         /\ s.handoff # "none" => s.phase = "apply-preparation"
         /\ s.status \in {"available", "no-update"} =>
              s.phase = "none" /\ s.stage = "none" /\ s.handoff = "none" /\ s.db = "unknown"
         /\ s.phase = "apply-preparation" => s.stage = "none" /\ s.db = "unknown"
         /\ s.failure # "none" => s.phase \in {"none", "rollback", "cleanup"}
  BY DEF Sound, Valid, Applying, StagePhase

LEMMA BeginApplySound ==
  ASSUME NEW s, Sound(s), NEW c, NEW n \in BeginApply(s, c)
  PROVE  Sound(n) /\ Credit(n) /\ n.stage = "none" /\ n.db # "yes"
<1>1. /\ s \in State /\ s.status = "available" /\ s.verified
      /\ n = [s EXCEPT !.status = "checking", !.phase = "apply-preparation", !.failure = "none",
                       !.handoff = "none"]
  BY SoundFacts DEF BeginApply, Stores
<1>2. n \in State
  BY <1>1, SoundFacts, Words DEF State
<1>3. /\ n.status = "checking" /\ n.phase = "apply-preparation" /\ n.handoff = "none"
      /\ n.last = s.last /\ n.cand = s.cand /\ n.proof = s.proof /\ n.verified = s.verified
      /\ n.pkg = s.pkg /\ n.app = s.app /\ n.failure = "none" /\ n.notified = s.notified
      /\ n.stage = s.stage /\ n.db = s.db
  BY <1>1 DEF State
<1>4. Valid(n)
  BY <1>1, <1>3, SoundFacts DEF Sound, Valid, ValidPending, Applying, StagePhase
<1>. QED
  BY <1>1, <1>2, <1>3, <1>4, SoundFacts DEF Sound, Tame, Credit, Applying

LEMMA HandoffSound ==
  ASSUME NEW s, Sound(s), NEW n \in RecordHandoff(s)
  PROVE  Sound(n) /\ Credit(s) /\ n.db # "yes"
<1>1. /\ s \in State /\ s.phase = "apply-preparation" /\ s.failure = "none" /\ s.verified
      /\ s.handoff # "migration-started"
      /\ n = [s EXCEPT !.handoff = "requested"]
  BY SoundFacts DEF RecordHandoff, Stores
<1>2. n \in State
  BY <1>1, SoundFacts, Words DEF State
<1>3. /\ n.status = s.status /\ n.phase = s.phase /\ n.handoff = "requested" /\ n.last = s.last
      /\ n.cand = s.cand /\ n.proof = s.proof /\ n.verified = s.verified /\ n.pkg = s.pkg
      /\ n.app = s.app /\ n.failure = s.failure /\ n.notified = s.notified /\ n.stage = s.stage
      /\ n.db = s.db
  BY <1>1 DEF State
<1>4. Valid(n)
  BY <1>1, <1>3, SoundFacts DEF Sound, Valid, ValidPending, Applying, StagePhase
<1>. QED
  BY <1>1, <1>2, <1>3, <1>4, SoundFacts DEF Sound, Tame, Credit, Applying

LEMMA ClaimSound ==
  ASSUME NEW s, Sound(s), NEW n \in ClaimMigration(s)
  PROVE  Sound(n) /\ Credit(s) /\ ~Credit(n) /\ s.db # "yes" /\ n.db # "yes"
<1>1. /\ s \in State /\ s.phase = "apply-preparation" /\ s.failure = "none" /\ s.verified
      /\ s.handoff = "requested"
      /\ n = [s EXCEPT !.handoff = "migration-started"]
  BY SoundFacts DEF ClaimMigration, Stores
<1>2. n \in State
  BY <1>1, SoundFacts, Words DEF State
<1>3. /\ n.status = s.status /\ n.phase = s.phase /\ n.handoff = "migration-started"
      /\ n.last = s.last /\ n.cand = s.cand /\ n.proof = s.proof /\ n.verified = s.verified
      /\ n.pkg = s.pkg /\ n.app = s.app /\ n.failure = s.failure /\ n.notified = s.notified
      /\ n.stage = s.stage /\ n.db = s.db
  BY <1>1 DEF State
<1>4. Valid(n)
  BY <1>1, <1>3, SoundFacts DEF Sound, Valid, ValidPending, Applying, StagePhase
<1>. QED
  BY <1>1, <1>2, <1>3, <1>4, SoundFacts DEF Sound, Tame, Credit, Applying

(* A state that is moved to a stage of the recovery. *)
LEMMA RecoveringSound ==
  ASSUME NEW s, Sound(s), s.phase # "none", NEW stage \in Stages \ {"none"},
         NEW known \in {"unknown", "no", "yes"}, NEW failure \in Failures,
         failure # "none" => StagePhase(stage) \in {"rollback", "cleanup"},
         NEW n, n = Recovering(s, stage, known, failure)
  PROVE  Sound(n) /\ ~Credit(n) /\ n.db = known /\ n.stage = stage
<1>1. s \in State /\ n = [s EXCEPT !.phase = StagePhase(stage), !.stage = stage, !.db = known,
                                   !.failure = failure, !.handoff = "none"]
  BY SoundFacts DEF Recovering
<1>2. n \in State
  <2>1. StagePhase(stage) \in Phases /\ stage \in Stages /\ "none" \in Handoffs
    BY Words
  <2>. QED
    BY <1>1, <2>1 DEF State
<1>3. /\ n.status = s.status /\ n.phase = StagePhase(stage) /\ n.handoff = "none"
      /\ n.last = s.last /\ n.cand = s.cand /\ n.proof = s.proof /\ n.verified = s.verified
      /\ n.pkg = s.pkg /\ n.app = s.app /\ n.failure = failure /\ n.notified = s.notified
      /\ n.stage = stage /\ n.db = known
  BY <1>1 DEF State
<1>4. StagePhase(stage) \in {"restart-health-check", "rollback", "cleanup"}
  BY DEF StagePhase
<1>5. Valid(n)
  <2>1. ValidPending(n)
    BY <1>3 DEF Sound, Valid, ValidPending
  <2>2. n.status = "checking" /\ n.last # "never" /\ n.cand # None /\ n.verified
    BY <1>1, <1>3, SoundFacts DEF Sound
  <2>. QED
    BY <1>3, <1>4, <2>1, <2>2 DEF Valid, Applying
<1>. QED
  BY <1>2, <1>3, <1>4, <1>5 DEF Sound, Credit, Applying

LEMMA NoPendingSound ==
  ASSUME NEW s, Sound(s), NEW n \in RecordNoPending(s)
  PROVE  Tame(s, n)
<1>1. s.phase # "none" /\ n = Recovering(s, "health-pending", "no", "none")
  BY DEF RecordNoPending, Stores, Claimed
<1>2. /\ "health-pending" \in Stages /\ "none" \in Failures
      /\ ("none" # "none" => StagePhase("health-pending") \in {"rollback", "cleanup"})
  BY DEF Stages, Failures, StagePhase
<1>. QED
  BY <1>1, <1>2, RecoveringSound DEF Tame

LEMMA SwitchedSound ==
  ASSUME NEW s, Sound(s), NEW n \in RecordSwitched(s)
  PROVE  Sound(n) /\ ~Credit(n) /\ n.db = "yes"
<1>1. s.phase # "none" /\ n = Recovering(s, "health-pending", "yes", "none")
  BY DEF RecordSwitched, Stores, Claimed
<1>2. /\ "health-pending" \in Stages /\ "none" \in Failures
      /\ ("none" # "none" => StagePhase("health-pending") \in {"rollback", "cleanup"})
  BY DEF Stages, Failures, StagePhase
<1>. QED
  BY <1>1, <1>2, RecoveringSound DEF Tame

LEMMA MigrationFailureSound ==
  ASSUME NEW s, Sound(s), NEW n \in RecordMigrationFailure(s)
  PROVE  Tame(s, n)
<1>1. s.phase # "none" /\ n = Recovering(s, "rollback-pending", "no", "staged-migration")
  BY DEF RecordMigrationFailure, Stores, Claimed
<1>2. /\ "rollback-pending" \in Stages /\ "staged-migration" \in Failures
      /\ ("staged-migration" # "none" => StagePhase("rollback-pending") \in {"rollback", "cleanup"})
  BY DEF Stages, Failures, StagePhase
<1>. QED
  BY <1>1, <1>2, RecoveringSound DEF Tame

LEMMA RecoveryFailureSound ==
  ASSUME NEW s, Sound(s), NEW stage \in {"cleanup-pending", "rollback-pending"},
         NEW n \in RecordRecoveryFailure(s, stage, s.db)
  PROVE  Tame(s, n) /\ n.stage = stage
<1>1. s.phase # "none" /\ n = Recovering(s, stage, MergeEvidence(s.db, s.db), "other")
  BY SoundFacts DEF RecordRecoveryFailure, Stores
<1>2. s.db \in {"unknown", "no", "yes"}
  BY DEF Sound, State
<1>3. MergeEvidence(s.db, s.db) = s.db
  BY <1>2 DEF MergeEvidence
<1>4. stage \in Stages \ {"none"} /\ "other" \in Failures
      /\ StagePhase(stage) \in {"rollback", "cleanup"}
  BY DEF Stages, Failures, StagePhase
<1>. QED
  BY <1>1, <1>2, <1>3, <1>4, RecoveringSound DEF Tame

LEMMA SwitchingSound ==
  ASSUME NEW s, Sound(s), NEW n \in RecordSwitching(s)
  PROVE  Tame(s, n)
<1>1. /\ s \in State /\ s.phase = "restart-health-check" /\ s.verified
      /\ n = [s EXCEPT !.stage = "bundle-switching"]
  BY SoundFacts DEF RecordSwitching, Stores
<1>2. n \in State
  BY <1>1, SoundFacts, Words DEF State
<1>3. /\ n.status = s.status /\ n.phase = s.phase /\ n.handoff = s.handoff /\ n.last = s.last
      /\ n.cand = s.cand /\ n.proof = s.proof /\ n.verified = s.verified /\ n.pkg = s.pkg
      /\ n.app = s.app /\ n.failure = s.failure /\ n.notified = s.notified
      /\ n.stage = "bundle-switching" /\ n.db = s.db
  BY <1>1 DEF State
<1>4. Valid(n)
  BY <1>1, <1>3, SoundFacts DEF Sound, Valid, ValidPending, Applying, StagePhase
<1>. QED
  BY <1>1, <1>2, <1>3, <1>4, SoundFacts DEF Sound, Tame, Credit, Applying

LEMMA BundleSwitchedSound ==
  ASSUME NEW s, Sound(s), NEW n \in RecordBundleSwitched(s)
  PROVE  Tame(s, n)
<1>1. /\ s \in State /\ s.phase = "restart-health-check" /\ s.verified
      /\ n = [s EXCEPT !.stage = "bundle-switched"]
  BY SoundFacts DEF RecordBundleSwitched, Stores
<1>2. n \in State
  BY <1>1, SoundFacts, Words DEF State
<1>3. /\ n.status = s.status /\ n.phase = s.phase /\ n.handoff = s.handoff /\ n.last = s.last
      /\ n.cand = s.cand /\ n.proof = s.proof /\ n.verified = s.verified /\ n.pkg = s.pkg
      /\ n.app = s.app /\ n.failure = s.failure /\ n.notified = s.notified
      /\ n.stage = "bundle-switched" /\ n.db = s.db
  BY <1>1 DEF State
<1>4. Valid(n)
  BY <1>1, <1>3, SoundFacts DEF Sound, Valid, ValidPending, Applying, StagePhase
<1>. QED
  BY <1>1, <1>2, <1>3, <1>4, SoundFacts DEF Sound, Tame, Credit, Applying

LEMMA CleanupPendingSound ==
  ASSUME NEW s, Sound(s), NEW n \in RecordCleanupPending(s)
  PROVE  Tame(s, n)
<1>1. /\ s \in State /\ s.phase = "restart-health-check"
      /\ n = [s EXCEPT !.phase = "cleanup", !.stage = "cleanup-pending"]
  BY SoundFacts DEF RecordCleanupPending, Stores
<1>2. n \in State
  BY <1>1, SoundFacts, Words DEF State
<1>3. /\ n.status = s.status /\ n.phase = "cleanup" /\ n.handoff = s.handoff /\ n.last = s.last
      /\ n.cand = s.cand /\ n.proof = s.proof /\ n.verified = s.verified /\ n.pkg = s.pkg
      /\ n.app = s.app /\ n.failure = s.failure /\ n.notified = s.notified
      /\ n.stage = "cleanup-pending" /\ n.db = s.db
  BY <1>1 DEF State
<1>4. Valid(n)
  BY <1>1, <1>3, SoundFacts DEF Sound, Valid, ValidPending, Applying, StagePhase
<1>. QED
  BY <1>1, <1>2, <1>3, <1>4, SoundFacts DEF Sound, Tame, Credit, Applying

LEMMA RollbackCompletedSound ==
  ASSUME NEW s, Sound(s), NEW failure \in Failures, NEW n \in RecordRollbackCompleted(s, failure)
  PROVE  Tame(s, n) /\ n.stage = "none"
<1>1. /\ s \in State /\ s.verified /\ s.cand # None
      /\ n = [s EXCEPT !.status = "available", !.phase = "none", !.failure = failure,
                       !.handoff = "none", !.stage = "none", !.db = "unknown"]
  BY SoundFacts DEF RecordRollbackCompleted, Stores, Settled
<1>2. n \in State
  BY <1>1, SoundFacts, Words DEF State
<1>3. /\ n.status = "available" /\ n.phase = "none" /\ n.handoff = "none" /\ n.last = s.last
      /\ n.cand = s.cand /\ n.proof = s.proof /\ n.verified = s.verified /\ n.pkg = s.pkg
      /\ n.app = s.app /\ n.failure = failure /\ n.notified = s.notified /\ n.stage = "none"
      /\ n.db = "unknown"
  BY <1>1 DEF State
<1>4. Valid(n)
  BY <1>1, <1>3, SoundFacts DEF Sound, Valid, ValidPending, Applying, StagePhase
<1>. QED
  BY <1>1, <1>2, <1>3, <1>4, SoundFacts DEF Sound, Tame, Credit, Applying

LEMMA CompleteCleanupSound ==
  ASSUME NEW s, Sound(s), NEW n, n = Settled(NoCandidate(s), "no-update", "none")
  PROVE  Tame(s, n) /\ n.stage = "none"
<1>1. /\ s \in State /\ n = [s EXCEPT !.status = "no-update", !.phase = "none",
                                      !.failure = "none", !.handoff = "none", !.stage = "none",
                                      !.db = "unknown", !.cand = None, !.proof = "none",
                                      !.verified = FALSE, !.pkg = FALSE, !.app = FALSE,
                                      !.notified = FALSE]
  BY SoundFacts DEF Settled, NoCandidate, State
<1>2. n \in State
  <2>1. /\ "no-update" \in Statuses /\ "none" \in Phases /\ "none" \in Failures
        /\ "none" \in Handoffs
        /\ "none" \in Stages
    BY Words
  <2>2. NoCandidate(s) \in State
    BY <1>1 DEF NoCandidate, State
  <2>. QED
    BY <2>1, <2>2 DEF Settled, State
<1>3. /\ n.status = "no-update" /\ n.phase = "none" /\ n.handoff = "none" /\ n.last = s.last
      /\ n.cand = None /\ n.proof = "none" /\ n.verified = FALSE /\ n.pkg = FALSE /\ n.app = FALSE
      /\ n.failure = "none" /\ n.notified = FALSE /\ n.stage = "none" /\ n.db = "unknown"
  BY <1>1 DEF State
<1>4. Valid(n)
  BY <1>1, <1>3, SoundFacts DEF Sound, Valid, ValidPending, Applying, StagePhase
<1>. QED
  BY <1>1, <1>2, <1>3, <1>4, SoundFacts DEF Sound, Tame, Credit, Applying

LEMMA CompleteSound ==
  ASSUME NEW s, Sound(s), NEW n \in CompleteUpdate(s)
  PROVE  Tame(s, n) /\ n.stage = "none"
<1>1. CASE s.status = "no-update" /\ s.cand = None
  BY <1>1, SoundFacts DEF CompleteUpdate, Tame, Credit
<1>2. CASE ~(s.status = "no-update" /\ s.cand = None)
  BY <1>2, CompleteCleanupSound DEF CompleteUpdate, Stores
<1>. QED
  BY <1>1, <1>2

-----------------------------------------------------------------------------
(* Loading a sound state.                                                  *)

\* What a start makes of the state it read.
Kept(s, n) ==
  Sound(n) /\ (Credit(n) => Credit(s)) /\ (n.db = "yes" <=> s.db = "yes")

LEMMA ResumedKept ==
  ASSUME NEW s, Sound(s), NEW n, n = ResumeStagedFailure(s)
  PROVE  Kept(s, n)
<1>1. CASE ~(s.status = "available" /\ s.failure = "staged-migration" /\ s.verified)
  BY <1>1 DEF ResumeStagedFailure, Kept
<1>2. CASE s.status = "available" /\ s.failure = "staged-migration" /\ s.verified
  <2>1. /\ s \in State /\ s.cand # None /\ s.db = "unknown"
        /\ n = [s EXCEPT !.phase = "rollback", !.stage = "rollback-pending", !.db = "no",
                         !.handoff = "none", !.status = "checking"]
    <3>1. s \in State /\ s.cand # None /\ s.db = "unknown"
      BY <1>2, SoundFacts DEF Sound, Valid
    <3>2. [[s EXCEPT !.phase = "rollback", !.stage = "rollback-pending", !.db = "no",
                     !.failure = s.failure, !.handoff = "none"] EXCEPT !.status = "checking"]
          = [s EXCEPT !.phase = "rollback", !.stage = "rollback-pending", !.db = "no",
                      !.handoff = "none", !.status = "checking"]
      BY <3>1 DEF State
    <3>. QED
      BY <1>2, <3>1, <3>2 DEF ResumeStagedFailure, Recovering, StagePhase
  <2>2. n \in State
    <3>1. "checking" \in Statuses /\ "rollback" \in Phases /\ "rollback-pending" \in Stages
          /\ "none" \in Handoffs
      BY Words
    <3>. QED
      BY <2>1, <3>1 DEF State
  <2>3. /\ n.status = "checking" /\ n.phase = "rollback" /\ n.handoff = "none" /\ n.last = s.last
        /\ n.cand = s.cand /\ n.proof = s.proof /\ n.verified = s.verified /\ n.pkg = s.pkg
        /\ n.app = s.app /\ n.failure = s.failure /\ n.notified = s.notified
        /\ n.stage = "rollback-pending" /\ n.db = "no"
    BY <2>1 DEF State
  <2>4. Valid(n)
    BY <1>2, <2>1, <2>3, SoundFacts DEF Sound, Valid, ValidPending, Applying, StagePhase
  <2>. QED
    BY <2>1, <2>2, <2>3, <2>4 DEF Sound, Kept, Credit, Applying
<1>. QED
  BY <1>1, <1>2

LEMMA InterruptedKeeps ==
  ASSUME NEW s, Sound(s), NEW n, n = RecoverInterrupted(s)
  PROVE  Kept(s, n)
<1>1. CASE ~Interrupted(s)
  BY <1>1 DEF RecoverInterrupted, Kept
<1>2. CASE Interrupted(s)
  <2>1. s.phase = "apply-preparation" /\ s.db = "unknown"
    BY <1>2, SoundFacts DEF Interrupted, Sound, Applying
  <2>2. n = Recovering(s, "rollback-pending", "unknown", "other")
    BY <1>2, <2>1 DEF RecoverInterrupted
  <2>3. "rollback-pending" \in Stages \ {"none"} /\ "other" \in Failures
        /\ StagePhase("rollback-pending") \in {"rollback", "cleanup"}
    BY DEF Stages, Failures, StagePhase
  <2>. QED
    BY <2>1, <2>2, <2>3, RecoveringSound DEF Kept
<1>. QED
  BY <1>1, <1>2

LEMMA CheckpointKept ==
  ASSUME NEW s, Sound(s), NEW n, n = EnsureCheckpoint(s)
  PROVE  Kept(s, n)
<1>1. CASE s.cand = None \/ s.stage # "none"
              \/ s.phase \notin {"restart-health-check", "rollback", "cleanup"}
  BY <1>1 DEF EnsureCheckpoint, Kept
<1>2. CASE /\ s.cand # None /\ s.stage = "none"
           /\ s.phase \in {"restart-health-check", "rollback", "cleanup"}
  <2>1. PICK stage \in {"health-pending", "rollback-pending", "cleanup-pending"} :
          n = [s EXCEPT !.stage = stage] /\ s.phase = StagePhase(stage)
    BY <1>2 DEF EnsureCheckpoint, StagePhase
  <2>2. n \in State
    BY <2>1, SoundFacts DEF State, Stages
  <2>3. /\ n.status = s.status /\ n.phase = s.phase /\ n.handoff = s.handoff /\ n.last = s.last
        /\ n.cand = s.cand /\ n.proof = s.proof /\ n.verified = s.verified /\ n.pkg = s.pkg
        /\ n.app = s.app /\ n.failure = s.failure /\ n.notified = s.notified /\ n.stage = stage
        /\ n.db = s.db
    BY <2>1, SoundFacts DEF State
  <2>4. Valid(n)
    <3>1. ValidPending(n)
      BY <2>3 DEF Sound, Valid, ValidPending
    <3>. QED
      BY <1>2, <2>1, <2>3, <3>1, SoundFacts DEF Sound, Valid, Applying
  <2>. QED
    BY <1>2, <2>2, <2>3, <2>4 DEF Sound, Kept, Credit
<1>. QED
  BY <1>1, <1>2

(* A start trusts what was stored, and goes on where it says. *)
LEMMA LoadedKept ==
  ASSUME Sound(file.st), file = Written(file.st), NEW n, n = Loaded(file, TRUE).st
  PROVE  Kept(file.st, n)
<1>1. file.form = "v2"
  BY DEF Written
<1>2. Parsed(file) = file.st /\ Usable(file)
  BY <1>1 DEF Parsed, Usable, DowngradeUnbound, Sound, Valid, ValidPending
<1>. DEFINE read == ResumeStagedFailure(file.st)
            calm == RecoverInterrupted(read)
<1>3. n = EnsureCheckpoint(calm)
  BY <1>2 DEF Loaded
<1>4. Kept(file.st, read)
  BY ResumedKept
<1>5. Kept(read, calm)
  BY <1>4, InterruptedKeeps DEF Kept
<1>6. Kept(calm, n)
  BY <1>3, <1>5, CheckpointKept DEF Kept
<1>. QED
  BY <1>4, <1>5, <1>6 DEF Kept

-----------------------------------------------------------------------------
(* The inductive invariant.                                                *)

StoreInv ==
  /\ Sound(mem) /\ Sound(file.st) /\ file = Written(file.st) /\ blocked \in BOOLEAN
  /\ faults \in 0 .. MaxFaults

\* No database holds an edit that was not saved.
DiskType ==
  /\ bundle \in [Places -> Contents]
  /\ db \in Database /\ copy \in Database /\ db.edits <= past.saved /\ copy.edits <= past.saved
  /\ backup = NoBackup \/ (backup \in Database /\ backup.edits <= past.saved
                                                /\ backup.schema = "old")
  /\ temp \in {"none", "part", "whole"}
  /\ helper \in {"none", "begun", "backed", "copied", "in-place"}

ControlType ==
  /\ pc \in {"off"} \union Starting \union Serving
  /\ why \in {"health", "rollback"} /\ restart \in BOOLEAN
  /\ migrates \in BOOLEAN /\ past \in Past

\* A migration that was asked for and has not begun is one request more.
CreditInv ==
  /\ past.claims <= past.requests
  /\ Credit(mem) \/ Credit(file.st) => past.claims + 1 <= past.requests

\* Where the old program is while the bundles are moved.
BundleInv ==
  ~past.confirmed =>
    /\ \/ bundle["current"] = "old" /\ bundle["rollback"] = "none"
       \/ bundle["rollback"] = "old" /\ bundle["current"] \in {"none", "new"}
    /\ pc \in {"copying", "switch-out"} => bundle["rollback"] = "none"
    /\ pc \in {"switch-out", "switch-in"} => bundle["switch"] = "new"
    /\ pc \in {"switch-in", "back-in"} => bundle["rollback"] = "old"
    /\ pc = "back-in" => bundle["failed"] = "new"

\* What a session may find recorded: nothing of an update, or its cleanup.
SessionInv ==
  /\ pc \in {"session", "handing", "boot"} =>
       \/ mem.stage = "none"
       \/ mem.stage = "cleanup-pending" /\ past.confirmed
       \/ pc = "boot" /\ restart
  /\ pc \in {"cleaned", "cleanup-failed"} \/ past.late => past.confirmed
  /\ pc = "restoring" => mem.db = "yes" /\ backup # NoBackup

\* Memory is behind the file only when the application is about to end.
SwitchKnown == mem.db = "yes" \/ file.st.db = "yes"
MigrationInv ==
  /\ pc \notin {"off", "load"} /\ file.st.db = "yes" => mem.db = "yes"
  /\ helper # "none" => ~SwitchKnown /\ (pc = "migrating" \/ past.orphan)
  /\ pc = "migrating" /\ helper \in {"backed", "copied"} => backup = db
  /\ pc = "migrating" /\ helper = "copied" => copy = [db EXCEPT !.schema = "new"]
  /\ pc = "migrating" /\ helper = "in-place" => backup = [db EXCEPT !.schema = "old"]

\* A database whose switch was recorded has its backup until the cleanup.
BackupInv ==
  SwitchKnown => \/ past.late
                 \/ past.confirmed /\ backup = NoBackup
                 \/ backup = [db EXCEPT !.schema = "old"]
EditsInv == past.late \/ past.orphan \/ db.edits = past.saved

UpdateInv ==
  /\ StoreInv /\ DiskType /\ ControlType /\ CreditInv /\ BundleInv /\ SessionInv
  /\ MigrationInv /\ BackupInv /\ EditsInv

-----------------------------------------------------------------------------
(* Steps that neither ask for a migration nor record its switch.           *)

TameStep ==
  /\ StoreInv'
  /\ Credit(mem') \/ Credit(file'.st) => Credit(mem) \/ Credit(file.st)
  /\ SwitchKnown' => SwitchKnown
  /\ (file.st.db = "yes" => mem.db = "yes") => (file'.st.db = "yes" => mem'.db = "yes")

LEMMA FaultCounts ==
  ASSUME StoreInv, Fine \/ Fault
  PROVE  faults' \in 0 .. MaxFaults
  BY RecoveryAssumption DEF StoreInv, Fine, Fault

LEMMA UnchangedStoreIsTame ==
  ASSUME StoreInv, UNCHANGED store, Fine \/ Fault
  PROVE  TameStep
  BY FaultCounts DEF StoreInv, store, TameStep, SwitchKnown

(* A mutation is stored, or the file alone may have it, or nothing has.    *)
LEMMA RecordCases ==
  ASSUME NEW nexts, NEW to, NEW failed, Record(nexts, to, failed)
  PROVE  /\ Fine \/ Fault
         /\ blocked' = blocked
         /\ \/ pc' = to /\ mem' \in nexts /\ file' = Written(mem')
            \/ pc' = failed /\ mem' = mem /\ file' = file
            \/ pc' = failed /\ mem' = mem /\ \E n \in nexts : file' = Written(n)
  BY DEF Record, Store, Goto, store

LEMMA RecordSound ==
  ASSUME StoreInv, NEW nexts, NEW to, NEW failed, Record(nexts, to, failed),
         \A n \in nexts : Sound(n)
  PROVE  StoreInv'
<1>1. faults' \in 0 .. MaxFaults /\ blocked' \in BOOLEAN
  BY RecordCases, FaultCounts DEF StoreInv
<1>2. \A n : Written(n).st = n
  BY DEF Written
<1>3. CASE mem' \in nexts /\ file' = Written(mem')
  BY <1>1, <1>2, <1>3 DEF StoreInv
<1>4. CASE mem' = mem /\ file' = file
  BY <1>1, <1>4 DEF StoreInv
<1>5. CASE mem' = mem /\ \E n \in nexts : file' = Written(n)
  BY <1>1, <1>2, <1>5 DEF StoreInv
<1>. QED
  BY <1>3, <1>4, <1>5, RecordCases

LEMMA RecordIsTame ==
  ASSUME StoreInv, NEW nexts, NEW to, NEW failed, Record(nexts, to, failed),
         \A n \in nexts : Tame(mem, n)
  PROVE  /\ TameStep
         /\ \/ pc' = to /\ mem' \in nexts
            \/ pc' = failed /\ mem' = mem
<1>1. StoreInv'
  BY RecordSound DEF Tame
<1>2. \A n : Written(n).st = n
  BY DEF Written
<1>3. CASE pc' = to /\ mem' \in nexts /\ file' = Written(mem')
  <2>1. Tame(mem, mem') /\ file'.st = mem'
    BY <1>2, <1>3
  <2>. QED
    BY <1>1, <1>3, <2>1 DEF TameStep, Tame, SwitchKnown, Credit
<1>4. CASE pc' = failed /\ mem' = mem /\ file' = file
  BY <1>1, <1>4 DEF TameStep, SwitchKnown, Credit
<1>5. CASE pc' = failed /\ mem' = mem /\ \E n \in nexts : file' = Written(n)
  <2>1. PICK n \in nexts : file' = Written(n)
    BY <1>5
  <2>2. Tame(mem, n) /\ file'.st = n
    BY <1>2, <2>1
  <2>. QED
    BY <1>1, <1>5, <2>2 DEF TameStep, Tame, SwitchKnown, Credit
<1>. QED
  BY <1>3, <1>4, <1>5, RecordCases

(* A tame step that leaves the databases alone keeps the invariant, if it  *)
(* keeps what is claimed of the bundles and of the place it comes to.      *)
LEMMA PlainStep ==
  ASSUME UpdateInv, TameStep,
         UNCHANGED <<db, backup, migration, migrates, past>>,
         temp' \in {"none", "part", "whole"}, why' \in {"health", "rollback"},
         restart' \in BOOLEAN, bundle' \in [Places -> Contents],
         pc' \in {"off"} \union Starting \union Serving,
         pc # "migrating", pc' # "migrating", pc \in {"off", "load"} => pc' \in {"off", "load"},
         SessionInv', BundleInv'
  PROVE  UpdateInv'
<1>1. StoreInv' /\ DiskType' /\ ControlType'
  BY DEF UpdateInv, TameStep, DiskType, ControlType, migration
<1>2. CreditInv' /\ BackupInv' /\ EditsInv'
  BY DEF UpdateInv, TameStep, CreditInv, BackupInv, EditsInv
<1>3. MigrationInv'
  BY DEF UpdateInv, TameStep, MigrationInv, migration
<1>. QED
  BY <1>1, <1>2, <1>3 DEF UpdateInv

\* Where the bundles are known to be part of the way.
Moving == {"copying", "switch-out", "switch-in", "back-in"}

(* The same for a step that moves no bundle either.                        *)
LEMMA QuietStep ==
  ASSUME UpdateInv, TameStep,
         UNCHANGED <<bundle, db, backup, migration, migrates, past>>,
         temp' \in {"none", "part", "whole"}, why' \in {"health", "rollback"},
         restart' \in BOOLEAN, pc' \in ({"off"} \union Starting \union Serving) \ Moving,
         pc # "migrating", pc' # "migrating", pc \in {"off", "load"} => pc' \in {"off", "load"},
         SessionInv'
  PROVE  UpdateInv'
<1>1. bundle' \in [Places -> Contents]
  BY DEF UpdateInv, DiskType
<1>2. BundleInv'
  BY DEF UpdateInv, BundleInv, Moving
<1>. QED
  BY <1>1, <1>2, PlainStep

\* Places of which SessionInv says nothing.
Ordinary ==
  ({"off"} \union Starting \union Serving)
    \ (Moving \union {"migrating", "off", "load", "session", "handing", "boot", "cleaned",
                      "cleanup-failed", "restoring"})

LEMMA OrdinaryStep ==
  ASSUME UpdateInv, TameStep,
         UNCHANGED <<bundle, db, backup, migration, migrates, past>>,
         temp' \in {"none", "part", "whole"}, why' \in {"health", "rollback"},
         restart' \in BOOLEAN, pc' \in Ordinary \union {"off"}, pc \notin {"migrating", "off",
           "load"}
  PROVE  UpdateInv'
<1>1. SessionInv'
  BY DEF UpdateInv, SessionInv, Ordinary
<1>. QED
  BY <1>1, QuietStep DEF Ordinary, Moving

-----------------------------------------------------------------------------
(* The recovery, step by step.                                             *)

LEMMA PlacesApart ==
  /\ {"fail", "fail-rollback", "health", "healthy", "switching", "switched", "back", "restore",
      "confirmed", "cleanup", "marker", "reconcile-health", "retry-health", "claim", "recover",
      "validate", "rolled-back", "revalidate", "reconcile", "confirm", "cleanup-health"}
       \subseteq Ordinary
  /\ {"off", "load", "handoff", "boot", "session", "recovery-only", "handing", "restoring",
      "cleaned", "cleanup-failed", "migrating", "copying", "switch-out", "switch-in", "back-in",
      "claim", "recover"} \subseteq {"off"} \union Starting \union Serving
  /\ Ordinary \subseteq {"off"} \union Starting \union Serving
  BY DEF Ordinary, Moving, Starting, Serving

(* Checks: nothing is written. *)
LEMMA CheckKeeps ==
  ASSUME UpdateInv,
         \/ Revalidate \/ HealthPending \/ Reconcile \/ ReconcileHealth \/ RetryHealth
         \/ Confirm \/ CleanupHealth \/ Validate
  PROVE  UpdateInv'
<1>1. /\ UNCHANGED store /\ (Fine \/ Fault)
      /\ UNCHANGED <<bundle, db, backup, migration, migrates, past>>
      /\ temp' \in {temp, "none"} /\ why' \in {why, "health"} /\ restart' \in {restart, FALSE}
      /\ pc \in Ordinary /\ pc' \in Ordinary
  BY PlacesApart DEF Revalidate, HealthPending, Reconcile, ReconcileHealth, RetryHealth, Confirm,
    CleanupHealth, Validate, Health, Bundles, At, Goto, live
<1>2. TameStep
  BY <1>1, UnchangedStoreIsTame DEF UpdateInv
<1>3. /\ temp' \in {"none", "part", "whole"} /\ why' \in {"health", "rollback"}
      /\ restart' \in BOOLEAN
  BY <1>1 DEF UpdateInv, DiskType, ControlType
<1>4. pc \notin {"migrating", "off", "load"}
  BY <1>1 DEF Ordinary
<1>. QED
  BY <1>1, <1>2, <1>3, <1>4, OrdinaryStep

(* Records that lead from one part of the recovery to another. *)
LEMMA RecordKeeps ==
  ASSUME UpdateInv, BeginSwitch \/ Confirmed \/ GiveUp \/ GiveUpRollback
  PROVE  UpdateInv'
<1>1. Sound(mem) /\ StoreInv
  BY DEF UpdateInv, StoreInv
<1>2. /\ UNCHANGED <<bundle, db, backup, temp, migration, migrates, past, why, restart>>
      /\ pc \in {"healthy", "confirmed", "fail", "fail-rollback"}
  BY DEF BeginSwitch, Confirmed, GiveUp, GiveUpRollback, live, At
<1>3. TameStep /\ pc' \in {"switching", "fail", "cleanup", "off"}
  <2>1. CASE BeginSwitch
    BY <1>1, <2>1, SwitchingSound, RecordIsTame DEF BeginSwitch
  <2>2. CASE Confirmed
    BY <1>1, <2>2, CleanupPendingSound, RecordIsTame DEF Confirmed
  <2>3. CASE GiveUpRollback
    BY <1>1, <2>3, RecoveryFailureSound, RecordIsTame DEF GiveUpRollback
  <2>4. CASE GiveUp /\ UNCHANGED store /\ Fine /\ Goto("off")
    BY <1>1, <2>4, UnchangedStoreIsTame DEF Goto
  <2>5. CASE \E stage \in {"cleanup-pending", "rollback-pending"} :
               Record(RecordRecoveryFailure(mem, stage, mem.db), "off", "off")
    BY <1>1, <2>5, RecoveryFailureSound, RecordIsTame
  <2>. QED
    BY <2>1, <2>2, <2>3, <2>4, <2>5 DEF GiveUp
<1>4. pc' \in Ordinary \union {"off"}
  BY <1>3, PlacesApart
<1>5. /\ temp' \in {"none", "part", "whole"} /\ why' \in {"health", "rollback"}
      /\ restart' \in BOOLEAN
  BY <1>2 DEF UpdateInv, DiskType, ControlType
<1>. QED
  BY <1>2, <1>3, <1>4, <1>5, OrdinaryStep

(* Records after which the start goes on to its session. *)
LEMMA RecordBootKeeps ==
  ASSUME UpdateInv, Switched \/ CleanupFailed \/ Cleaned \/ RolledBack
  PROVE  UpdateInv'
<1>1. Sound(mem) /\ StoreInv
  BY DEF UpdateInv, StoreInv
<1>2. /\ UNCHANGED <<bundle, db, backup, temp, migration, migrates, past, why>>
      /\ restart' \in {restart, TRUE, FALSE}
      /\ pc \in {"switched", "cleanup-failed", "cleaned", "rolled-back"}
  BY DEF Switched, CleanupFailed, Cleaned, RolledBack, live, At
<1>3. /\ TameStep
      /\ \/ pc' = "fail"
         \/ pc' = "boot" /\ \/ mem'.stage = "none"
                            \/ mem'.stage = "cleanup-pending" /\ pc = "cleanup-failed"
                            \/ restart'
  <2>1. CASE Switched
    BY <1>1, <2>1, BundleSwitchedSound, RecordIsTame DEF Switched
  <2>2. CASE CleanupFailed
    BY <1>1, <2>2, RecoveryFailureSound, RecordIsTame DEF CleanupFailed, At
  <2>3. CASE Cleaned
    BY <1>1, <2>3, CompleteSound, RecordIsTame DEF Cleaned
  <2>4. CASE RolledBack
    <3>. DEFINE code == IF why = "health" \/ mem.failure = "none" THEN "other" ELSE mem.failure
    <3>1. code \in Failures
      BY <1>1, Words DEF Sound, State
    <3>2. Record(RecordRollbackCompleted(mem, code), "boot", "fail")
      BY <2>4 DEF RolledBack
    <3>. HIDE DEF code
    <3>. QED
      BY <1>1, <3>1, <3>2, RollbackCompletedSound, RecordIsTame
  <2>. QED
    BY <2>1, <2>2, <2>3, <2>4
<1>4. SessionInv'
  BY <1>2, <1>3 DEF UpdateInv, SessionInv
<1>5. /\ temp' \in {"none", "part", "whole"} /\ why' \in {"health", "rollback"}
      /\ restart' \in BOOLEAN
  BY <1>2 DEF UpdateInv, DiskType, ControlType
<1>6. pc' \in ({"off"} \union Starting \union Serving) \ Moving
  BY <1>3 DEF Starting, Moving
<1>. QED
  BY <1>2, <1>3, <1>4, <1>5, <1>6, QuietStep

(* The start begins, decides where to go, and ends. *)
LEMMA ControlKeeps ==
  ASSUME UpdateInv, Quit \/ Launch \/ CheckHandoff \/ Recover \/ Boot \/ Restore
  PROVE  UpdateInv'
<1>1. /\ UNCHANGED store /\ (Fine \/ Fault)
      /\ UNCHANGED <<bundle, db, backup, migration, migrates, past>>
      /\ temp' \in {temp, "none", "part"} /\ why' \in {why, "rollback"}
      /\ restart' \in {restart, FALSE}
  BY DEF Quit, Launch, CheckHandoff, Recover, Boot, Restore, live, store, Fine, Goto
<1>2. TameStep
  BY <1>1, UnchangedStoreIsTame DEF UpdateInv
<1>3. /\ pc \notin {"migrating", "load"} /\ (pc = "off" => pc' = "load")
      /\ pc' # "migrating" /\ pc' \in ({"off"} \union Starting \union Serving) \ Moving
  BY DEF Quit, Launch, CheckHandoff, Recover, Entry, Boot, Restore, At, Goto, Starting, Serving,
    Moving
<1>4. SessionInv'
  <2>1. mem' = mem /\ past' = past /\ backup' = backup
    BY <1>1 DEF store
  <2>2. CASE Quit \/ Launch \/ CheckHandoff
    BY <2>1, <2>2 DEF UpdateInv, SessionInv, Quit, Launch, CheckHandoff, Goto
  <2>3. CASE Recover
    BY <2>1, <2>3, SoundFacts
      DEF UpdateInv, StoreInv, SessionInv, Recover, Entry, Goto, StagePhase
  <2>4. CASE Boot
    BY <2>1, <2>4 DEF UpdateInv, SessionInv, Boot, At, Goto
  <2>5. CASE Restore
    BY <2>1, <2>5 DEF UpdateInv, SessionInv, Restore, Proven, Goto
  <2>. QED
    BY <2>2, <2>3, <2>4, <2>5
<1>5. /\ temp' \in {"none", "part", "whole"} /\ why' \in {"health", "rollback"}
      /\ restart' \in BOOLEAN
  BY <1>1 DEF UpdateInv, DiskType, ControlType
<1>. QED
  BY <1>1, <1>2, <1>3, <1>4, <1>5, QuietStep

-----------------------------------------------------------------------------
(* Moving bundles.                                                         *)

LEMMA RenamedType ==
  ASSUME DiskType, NEW from \in Places, NEW to \in Places, from # to
  PROVE  /\ Renamed(from, to) \in [Places -> Contents]
         /\ Renamed(from, to)[to] = bundle[from] /\ Renamed(from, to)[from] = "none"
         /\ \A p \in Places \ {from, to} : Renamed(from, to)[p] = bundle[p]
  BY DEF DiskType, Renamed, Contents

LEMMA PlacesNamed ==
  {"current", "rollback", "switch", "failed", "staged", "package"} \subseteq Places
  BY DEF Places

\* Where the bundles are moved from and to.
Switching == {"switching", "copying", "switch-out", "switch-in", "back", "back-in", "marker"}
Moved == Switching \union {"fail", "fail-rollback", "switched", "restore", "rolled-back", "off"}

(* A step on the bundles that keeps the way back. *)
LEMMA BundleStep ==
  ASSUME UpdateInv, UNCHANGED store, Fine \/ Fault,
         UNCHANGED <<db, backup, migration, migrates, past, why>>,
         temp' \in {temp, "none"}, restart' \in {restart, TRUE, FALSE},
         bundle' \in [Places -> Contents], pc \in Switching, pc' \in Moved, BundleInv'
  PROVE  UpdateInv'
<1>1. TameStep
  BY UnchangedStoreIsTame DEF UpdateInv
<1>2. SessionInv'
  BY DEF UpdateInv, SessionInv, Moved, Switching
<1>3. /\ temp' \in {"none", "part", "whole"} /\ why' \in {"health", "rollback"}
      /\ restart' \in BOOLEAN
  BY DEF UpdateInv, DiskType, ControlType
<1>4. /\ pc' \in {"off"} \union Starting \union Serving
      /\ pc # "migrating" /\ pc' # "migrating" /\ pc \notin {"off", "load"}
  BY DEF Moved, Switching, Starting, Serving
<1>. QED
  BY <1>1, <1>2, <1>3, <1>4, PlainStep

LEMMA PrepareSwitchKeeps ==
  ASSUME UpdateInv, PrepareSwitch
  PROVE  UpdateInv'
<1>1. /\ UNCHANGED store /\ (Fine \/ Fault)
      /\ UNCHANGED <<db, backup, migration, migrates, past, why, temp, restart>>
      /\ pc \in Switching /\ pc' \in Moved
  BY DEF PrepareSwitch, Bundles, live, At, Goto, Switching, Moved
<1>2. bundle' \in [Places -> Contents] /\ BundleInv'
  BY PlacesNamed
    DEF UpdateInv, DiskType, BundleInv, PrepareSwitch, Bundles, At, Goto, Exists, Contents
<1>. QED
  BY <1>1, <1>2, BundleStep

LEMMA CopyBundleKeeps ==
  ASSUME UpdateInv, CopyBundle
  PROVE  UpdateInv'
<1>1. /\ UNCHANGED store /\ (Fine \/ Fault)
      /\ UNCHANGED <<db, backup, migration, migrates, past, why, temp, restart>>
      /\ pc \in Switching /\ pc' \in Moved
  BY DEF CopyBundle, Bundles, live, At, Goto, Switching, Moved
<1>2. bundle' \in [Places -> Contents] /\ BundleInv'
  BY PlacesNamed DEF UpdateInv, DiskType, BundleInv, CopyBundle, Bundles, At, Goto, Contents
<1>. QED
  BY <1>1, <1>2, BundleStep

LEMMA SwitchOutKeeps ==
  ASSUME UpdateInv, SwitchOut
  PROVE  UpdateInv'
<1>1. /\ UNCHANGED store /\ (Fine \/ Fault)
      /\ UNCHANGED <<db, backup, migration, migrates, past, why, temp, restart>>
      /\ pc \in Switching /\ pc' \in Moved
  BY DEF SwitchOut, Bundles, live, At, Goto, Switching, Moved
<1>. DEFINE b == Renamed("current", "rollback")
<1>2. /\ b \in [Places -> Contents] /\ b["rollback"] = bundle["current"] /\ b["current"] = "none"
      /\ b["switch"] = bundle["switch"]
  BY PlacesNamed, RenamedType DEF UpdateInv
<1>3. past' = past /\ \/ bundle' = b /\ pc' = "switch-in"
                      \/ bundle' = bundle /\ pc' = "fail-rollback"
  BY DEF SwitchOut, Bundles, Goto
<1>. HIDE DEF b
<1>4. bundle' \in [Places -> Contents] /\ BundleInv'
  BY <1>2, <1>3 DEF UpdateInv, DiskType, BundleInv, SwitchOut, At
<1>. QED
  BY <1>1, <1>4, BundleStep

LEMMA SwitchInKeeps ==
  ASSUME UpdateInv, SwitchIn
  PROVE  UpdateInv'
<1>1. /\ UNCHANGED store /\ (Fine \/ Fault)
      /\ UNCHANGED <<db, backup, migration, migrates, past, why, temp, restart>>
      /\ pc \in Switching /\ pc' \in Moved
  BY DEF SwitchIn, Bundles, live, At, Goto, Switching, Moved
<1>. DEFINE in == Renamed("switch", "current")
            out == Renamed("rollback", "current")
<1>2. /\ in \in [Places -> Contents] /\ in["current"] = bundle["switch"]
      /\ in["rollback"] = bundle["rollback"]
      /\ out \in [Places -> Contents] /\ out["current"] = bundle["rollback"]
      /\ out["rollback"] = "none"
  BY PlacesNamed, RenamedType DEF UpdateInv
<1>3. past' = past /\ bundle' \in {in, out, bundle} /\ pc' \in {"switched", "fail-rollback"}
  BY DEF SwitchIn, Bundles, Goto
<1>. HIDE DEF in, out
<1>4. bundle' \in [Places -> Contents] /\ BundleInv'
  BY <1>2, <1>3 DEF UpdateInv, DiskType, BundleInv, SwitchIn, At
<1>. QED
  BY <1>1, <1>4, BundleStep

LEMMA BackKeeps ==
  ASSUME UpdateInv, Back
  PROVE  UpdateInv'
<1>1. /\ UNCHANGED store /\ (Fine \/ Fault)
      /\ UNCHANGED <<db, backup, migration, migrates, past, why, temp>>
      /\ restart' \in {restart, TRUE, FALSE} /\ pc \in Switching /\ pc' \in Moved
  BY DEF Back, BackFails, live, At, Goto, Switching, Moved
<1>. DEFINE b == Renamed("current", "failed")
<1>2. /\ b \in [Places -> Contents] /\ b["failed"] = bundle["current"] /\ b["current"] = "none"
      /\ b["rollback"] = bundle["rollback"]
  BY PlacesNamed, RenamedType DEF UpdateInv
<1>3. /\ past' = past
      /\ \/ /\ bundle' = b /\ pc' = "back-in"
            /\ bundle["current"] = "new" /\ bundle["rollback"] # "none"
         \/ bundle' = bundle /\ pc' \in {"fail-rollback", "fail", "restore"}
  BY DEF Back, BackFails, Goto, Exists
<1>. HIDE DEF b
<1>4. bundle' \in [Places -> Contents] /\ BundleInv'
  BY <1>2, <1>3 DEF UpdateInv, DiskType, BundleInv
<1>. QED
  BY <1>1, <1>4, BundleStep

LEMMA BackInKeeps ==
  ASSUME UpdateInv, BackIn
  PROVE  UpdateInv'
<1>1. /\ UNCHANGED store /\ (Fine \/ Fault)
      /\ UNCHANGED <<db, backup, migration, migrates, past, why, temp, restart>>
      /\ pc \in Switching /\ pc' \in Moved
  BY DEF BackIn, BackFails, Bundles, live, At, Goto, Switching, Moved
<1>. DEFINE back == Renamed("rollback", "current")
            again == Renamed("failed", "current")
<1>2. /\ back \in [Places -> Contents] /\ back["current"] = bundle["rollback"]
      /\ back["rollback"] = "none"
      /\ again \in [Places -> Contents] /\ again["current"] = bundle["failed"]
      /\ again["rollback"] = bundle["rollback"]
  BY PlacesNamed, RenamedType DEF UpdateInv
<1>3. past' = past /\ bundle' \in {back, again, bundle}
      /\ pc' \in {"restore", "fail-rollback", "fail"}
  BY DEF BackIn, BackFails, Bundles, Goto
<1>. HIDE DEF back, again
<1>4. bundle' \in [Places -> Contents] /\ BundleInv'
  BY <1>2, <1>3 DEF UpdateInv, DiskType, BundleInv, BackIn, At
<1>. QED
  BY <1>1, <1>4, BundleStep

LEMMA MarkerKeeps ==
  ASSUME UpdateInv, Marker
  PROVE  UpdateInv'
<1>1. /\ UNCHANGED store /\ (Fine \/ Fault)
      /\ UNCHANGED <<db, backup, migration, migrates, past, why, restart>>
      /\ temp' \in {temp, "none"}
      /\ pc \in Switching /\ pc' \in Moved /\ pc' \notin Moving
  BY DEF Marker, live, At, Goto, Switching, Moved, Moving
<1>2. /\ bundle' \in [Places -> Contents]
      /\ bundle'["current"] = bundle["current"] /\ bundle'["rollback"] = bundle["rollback"]
  BY PlacesNamed DEF UpdateInv, DiskType, Marker, Contents
<1>3. BundleInv'
  BY <1>1, <1>2 DEF UpdateInv, BundleInv, Moving
<1>. QED
  BY <1>1, <1>2, <1>3, BundleStep

-----------------------------------------------------------------------------
(* The session, the request and the start that takes it up.                *)

LEMMA EditKeeps ==
  ASSUME UpdateInv, Edit
  PROVE  UpdateInv'
<1>1. /\ UNCHANGED <<mem, file, blocked, pc, why, restart, bundle, backup, temp, helper, copy,
                     migrates, faults>>
      /\ pc = "session" /\ past.saved < MaxEdits
      /\ db \in Database /\ past \in Past /\ MaxEdits \in Nat
      /\ db' = [db EXCEPT !.edits = db.edits + 1]
      /\ past' = [past EXCEPT !.saved = past.saved + 1,
                              !.late = past.late \/ mem.stage = "cleanup-pending"]
  BY RecoveryAssumption DEF Edit, At, store, migration, UpdateInv, DiskType, ControlType
<1>2. /\ past'.saved = past.saved + 1 /\ past'.saved \in 0 .. MaxEdits
      /\ past'.late = (past.late \/ mem.stage = "cleanup-pending")
      /\ past'.orphan = past.orphan /\ past'.confirmed = past.confirmed
      /\ past'.claims = past.claims /\ past'.requests = past.requests
      /\ db'.edits = db.edits + 1 /\ db'.schema = db.schema
  BY <1>1 DEF Past, Database
<1>3. past' \in Past
  BY <1>1, <1>2 DEF Past
<1>4. DiskType'
  <2>1. /\ db.edits \in Nat /\ db.edits <= past.saved /\ past.saved \in Nat
        /\ db.schema \in {"old", "new"}
    BY <1>1 DEF UpdateInv, DiskType, Database, Past
  <2>2. db.edits + 1 \in 0 .. MaxEdits
    BY <1>1, <2>1
  <2>3. db' = [schema |-> db.schema, edits |-> db.edits + 1]
    BY <1>1 DEF Database
  <2>4. db' \in Database
    BY <2>1, <2>2, <2>3 DEF Database
  <2>5. /\ copy' \in Database /\ copy'.edits <= past'.saved
        /\ backup' = NoBackup \/ (backup' \in Database /\ backup'.edits <= past'.saved
                                                       /\ backup'.schema = "old")
    BY <1>1, <1>2, <2>1 DEF UpdateInv, DiskType, Database
  <2>. QED
    BY <1>1, <1>2, <2>1, <2>4, <2>5 DEF UpdateInv, DiskType
<1>5. StoreInv' /\ ControlType' /\ CreditInv' /\ BundleInv'
  BY <1>1, <1>2, <1>3 DEF UpdateInv, StoreInv, ControlType, CreditInv, BundleInv, Credit
<1>6. SessionInv'
  BY <1>1, <1>2 DEF UpdateInv, SessionInv
<1>7. mem.stage = "none" \/ mem.stage = "cleanup-pending"
  BY <1>1 DEF UpdateInv, SessionInv
<1>8. BackupInv'
  <2>1. CASE mem.stage = "cleanup-pending"
    BY <1>2, <2>1 DEF BackupInv
  <2>2. CASE mem.stage = "none"
    BY <1>1, <2>2, SoundFacts DEF UpdateInv, StoreInv, MigrationInv, BackupInv, SwitchKnown
  <2>. QED
    BY <1>7, <2>1, <2>2
<1>9. MigrationInv' /\ EditsInv'
  BY <1>1, <1>2 DEF UpdateInv, DiskType, Database, Past, MigrationInv, SwitchKnown, EditsInv
<1>. QED
  BY <1>4, <1>5, <1>6, <1>8, <1>9 DEF UpdateInv

LEMMA ApplyKeeps ==
  ASSUME UpdateInv, Apply
  PROVE  UpdateInv'
<1>1. /\ UNCHANGED <<why, restart, bundle, db, backup, temp, helper, copy, migrates>>
      /\ pc = "session" /\ past.requests < MaxRequests
      /\ past \in Past /\ MaxRequests \in Nat
      /\ past' = [past EXCEPT !.requests = past.requests + 1]
      /\ Record(BeginApply(mem, Candidate), "handing", "session")
  BY RecoveryAssumption DEF Apply, At, live, migration, UpdateInv, ControlType
<1>2. /\ past'.requests = past.requests + 1 /\ past'.claims = past.claims
      /\ past'.saved = past.saved /\ past'.late = past.late /\ past'.orphan = past.orphan
      /\ past'.confirmed = past.confirmed /\ past' \in Past
  BY <1>1 DEF Past
<1>3. /\ StoreInv'
      /\ \/ pc' = "handing" /\ mem'.stage = "none" /\ mem'.db # "yes" /\ file'.st = mem'
         \/ pc' = "session" /\ mem' = mem
              /\ (file' = file \/ file'.st.db # "yes")
  <2>1. StoreInv /\ Sound(mem)
    BY DEF UpdateInv, StoreInv
  <2>2. \A n \in BeginApply(mem, Candidate) :
          Sound(n) /\ n.stage = "none" /\ n.db # "yes" /\ Written(n).st = n
    BY <2>1, BeginApplySound DEF Written
  <2>. QED
    BY <1>1, <2>1, <2>2, RecordSound, RecordCases
<1>4. DiskType' /\ ControlType' /\ CreditInv'
  BY <1>1, <1>2, <1>3
    DEF UpdateInv, DiskType, ControlType, CreditInv, Past, Starting, Serving
<1>5. BundleInv' /\ SessionInv'
  BY <1>1, <1>2, <1>3 DEF UpdateInv, BundleInv, SessionInv
<1>6. MigrationInv' /\ BackupInv' /\ EditsInv'
  BY <1>1, <1>2, <1>3 DEF UpdateInv, MigrationInv, BackupInv, EditsInv, SwitchKnown
<1>. QED
  BY <1>3, <1>4, <1>5, <1>6 DEF UpdateInv

LEMMA HandOffKeeps ==
  ASSUME UpdateInv, HandOff
  PROVE  UpdateInv'
<1>1. /\ UNCHANGED <<why, restart, bundle, db, backup, temp, helper, copy, migrates, past>>
      /\ pc = "handing" /\ Record(RecordHandoff(mem), "off", "session")
      /\ StoreInv /\ Sound(mem)
  BY DEF HandOff, At, live, migration, UpdateInv, StoreInv
<1>2. \A n \in RecordHandoff(mem) :
        Sound(n) /\ Credit(mem) /\ n.db # "yes" /\ Written(n).st = n
  BY <1>1, HandoffSound DEF Written
<1>3. /\ StoreInv'
      /\ \/ pc' = "off" /\ Credit(mem) /\ mem'.db # "yes" /\ file'.st = mem'
         \/ pc' = "session" /\ mem' = mem
              /\ (file' = file \/ (Credit(mem) /\ file'.st.db # "yes"))
  BY <1>1, <1>2, RecordSound, RecordCases
<1>4. DiskType' /\ ControlType' /\ CreditInv'
  BY <1>1, <1>3 DEF UpdateInv, DiskType, ControlType, CreditInv, Starting, Serving, Credit
<1>5. BundleInv' /\ SessionInv'
  BY <1>1, <1>3 DEF UpdateInv, BundleInv, SessionInv
<1>6. MigrationInv' /\ BackupInv' /\ EditsInv'
  BY <1>1, <1>3 DEF UpdateInv, MigrationInv, BackupInv, EditsInv, SwitchKnown
<1>. QED
  BY <1>3, <1>4, <1>5, <1>6 DEF UpdateInv

LEMMA ClaimKeeps ==
  ASSUME UpdateInv, ClaimIt
  PROVE  UpdateInv'
<1>1. /\ UNCHANGED <<why, restart, bundle, db, backup, temp, copy, migrates>>
      /\ pc = "claim" /\ helper = "none" /\ Record(ClaimMigration(mem), "migrating", "off")
      /\ StoreInv /\ Sound(mem) /\ past \in Past
      /\ \/ pc' = "migrating" /\ helper' = "begun"
              /\ past' = [past EXCEPT !.claims = past.claims + 1]
         \/ pc' # "migrating" /\ helper' = helper /\ past' = past
  BY DEF ClaimIt, At, live, UpdateInv, StoreInv, ControlType
<1>2. \A n \in ClaimMigration(mem) :
        Sound(n) /\ Credit(mem) /\ ~Credit(n) /\ n.db # "yes" /\ Written(n).st = n
  BY <1>1, ClaimSound DEF Written
<1>3. CASE pc' = "migrating"
  <2>1. /\ StoreInv' /\ Credit(mem) /\ ~Credit(mem') /\ mem'.db # "yes" /\ file'.st = mem'
    BY <1>1, <1>2, <1>3, RecordSound, RecordCases
  <2>2. /\ past'.claims = past.claims + 1 /\ past'.requests = past.requests
        /\ past'.saved = past.saved /\ past'.late = past.late /\ past'.orphan = past.orphan
        /\ past'.confirmed = past.confirmed /\ past' \in Past
    BY <1>1, <1>3 DEF Past
  <2>3. DiskType' /\ ControlType'
    BY <1>1, <1>3, <2>2 DEF UpdateInv, DiskType, ControlType, Starting
  <2>4. CreditInv'
    BY <2>1, <2>2 DEF UpdateInv, CreditInv
  <2>5. BundleInv' /\ SessionInv'
    BY <1>1, <1>3, <2>2 DEF UpdateInv, BundleInv, SessionInv
  <2>6. MigrationInv' /\ BackupInv' /\ EditsInv'
    BY <1>1, <1>3, <2>1, <2>2 DEF UpdateInv, MigrationInv, BackupInv, EditsInv, SwitchKnown
  <2>. QED
    BY <2>1, <2>3, <2>4, <2>5, <2>6 DEF UpdateInv
<1>4. CASE pc' # "migrating"
  <2>1. /\ StoreInv' /\ mem' = mem /\ pc' = "off"
        /\ (file' = file \/ (Credit(mem) /\ file'.st.db # "yes"))
    BY <1>1, <1>2, <1>4, RecordSound, RecordCases
  <2>2. past' = past /\ helper' = helper
    BY <1>1, <1>4
  <2>3. DiskType' /\ ControlType' /\ CreditInv'
    BY <1>1, <2>1, <2>2 DEF UpdateInv, DiskType, ControlType, CreditInv, Credit
  <2>4. BundleInv' /\ SessionInv'
    BY <1>1, <2>1, <2>2 DEF UpdateInv, BundleInv, SessionInv
  <2>5. MigrationInv' /\ BackupInv' /\ EditsInv'
    BY <1>1, <2>1, <2>2 DEF UpdateInv, MigrationInv, BackupInv, EditsInv, SwitchKnown
  <2>. QED
    BY <2>1, <2>3, <2>4, <2>5 DEF UpdateInv
<1>. QED
  BY <1>3, <1>4

LEMMA LoadKeeps ==
  ASSUME UpdateInv, Load
  PROVE  UpdateInv'
<1>. DEFINE n == Loaded(file, TRUE).st
<1>1. /\ UNCHANGED <<why, restart, bundle, db, backup, temp, helper, copy, migrates, past>>
      /\ pc = "load" /\ pc' = "handoff" /\ (Fine \/ Fault)
      /\ mem' = n /\ file' \in {file, Written(n)}
      /\ blocked' \in {TRUE, FALSE, Loaded(file, TRUE).blocked}
  BY DEF Load, At, Goto, live, migration
<1>2. Loaded(file, TRUE).blocked \in BOOLEAN
  BY DEF Loaded
<1>3. Kept(file.st, n) /\ Written(n).st = n
  BY LoadedKept DEF UpdateInv, StoreInv, Written
<1>4. StoreInv'
  BY <1>1, <1>2, <1>3, FaultCounts DEF UpdateInv, StoreInv, Kept
<1>. HIDE DEF n
<1>5. /\ Credit(mem') \/ Credit(file'.st) => Credit(file.st)
      /\ mem'.db = "yes" \/ file'.st.db = "yes" <=> file.st.db = "yes"
      /\ file'.st.db = "yes" => mem'.db = "yes"
  BY <1>1, <1>3 DEF Kept
<1>6. DiskType' /\ ControlType' /\ CreditInv'
  BY <1>1, <1>5 DEF UpdateInv, DiskType, ControlType, CreditInv, Starting
<1>7. BundleInv' /\ SessionInv'
  BY <1>1 DEF UpdateInv, BundleInv, SessionInv
<1>8. MigrationInv' /\ BackupInv' /\ EditsInv'
  BY <1>1, <1>5 DEF UpdateInv, MigrationInv, BackupInv, EditsInv, SwitchKnown
<1>. QED
  BY <1>4, <1>6, <1>7, <1>8 DEF UpdateInv

LEMMA CrashKeeps ==
  ASSUME UpdateInv, Crash
  PROVE  UpdateInv'
<1>1. /\ UNCHANGED <<mem, file, blocked, why, restart, bundle, db, backup, temp, copy, migrates>>
      /\ pc' = "off" /\ Fault /\ helper' \in {"none", helper} /\ past \in Past
      /\ \E torn \in BOOLEAN :
           past' = [past EXCEPT !.torn = torn, !.orphan = past.orphan \/ helper' # "none"]
  BY DEF Crash, Unrecorded, Goto, store, live, UpdateInv, ControlType, Past
<1>2. /\ past'.requests = past.requests /\ past'.claims = past.claims
      /\ past'.saved = past.saved /\ past'.late = past.late
      /\ past'.orphan = (past.orphan \/ helper' # "none")
      /\ past'.confirmed = past.confirmed /\ past' \in Past
  BY <1>1 DEF Past
<1>3. StoreInv'
  BY <1>1, FaultCounts DEF UpdateInv, StoreInv
<1>4. DiskType' /\ ControlType'
  BY <1>1, <1>2 DEF UpdateInv, DiskType, ControlType
<1>5. CreditInv' /\ BundleInv' /\ SessionInv'
  BY <1>1, <1>2 DEF UpdateInv, CreditInv, BundleInv, SessionInv, Credit
<1>6. MigrationInv' /\ BackupInv' /\ EditsInv'
  BY <1>1, <1>2 DEF UpdateInv, MigrationInv, BackupInv, EditsInv, SwitchKnown
<1>. QED
  BY <1>3, <1>4, <1>5, <1>6 DEF UpdateInv

-----------------------------------------------------------------------------
(* The helper.                                                             *)

\* What stays as it is when nothing is reported.
LEMMA SilentHelper ==
  ASSUME UpdateInv, UNCHANGED store, UNCHANGED pc, Fine \/ Fault,
         UNCHANGED <<why, restart, bundle, migrates, past>>
  PROVE  StoreInv' /\ ControlType' /\ CreditInv' /\ BundleInv' /\ (SwitchKnown' <=> SwitchKnown)
<1>1. StoreInv'
  BY FaultCounts DEF UpdateInv, StoreInv, store
<1>2. ControlType' /\ CreditInv' /\ BundleInv' /\ (SwitchKnown' <=> SwitchKnown)
  BY DEF UpdateInv, store, ControlType, CreditInv, BundleInv, SwitchKnown, Credit
<1>. QED
  BY <1>1, <1>2

LEMMA BackUpKeeps ==
  ASSUME UpdateInv, BackUp
  PROVE  UpdateInv'
<1>1. /\ UNCHANGED store /\ pc' = pc /\ (Fine \/ Fault)
      /\ UNCHANGED <<why, restart, bundle, migrates, past, db, temp, copy>>
      /\ helper = "begun" /\ helper' = "backed" /\ db.schema = "old" /\ backup' = db
  BY DEF BackUp, Fine
<1>2. StoreInv' /\ ControlType' /\ CreditInv' /\ BundleInv' /\ (SwitchKnown' <=> SwitchKnown)
  BY <1>1, SilentHelper
<1>3. DiskType'
  BY <1>1 DEF UpdateInv, DiskType
<1>4. SessionInv'
  BY <1>1 DEF UpdateInv, SessionInv, MigrationInv, SwitchKnown, store
<1>5. MigrationInv' /\ BackupInv' /\ EditsInv'
  BY <1>1, <1>2 DEF UpdateInv, MigrationInv, BackupInv, EditsInv, SwitchKnown, store
<1>. QED
  BY <1>2, <1>3, <1>4, <1>5 DEF UpdateInv

LEMMA MigrateCopyKeeps ==
  ASSUME UpdateInv, MigrateCopy
  PROVE  UpdateInv'
<1>1. /\ UNCHANGED store /\ pc' = pc /\ (Fine \/ Fault)
      /\ UNCHANGED <<why, restart, bundle, migrates, past, db, temp, backup>>
      /\ helper = "backed" /\ helper' = "copied" /\ copy' = [db EXCEPT !.schema = "new"]
  BY DEF MigrateCopy, Fine, live
<1>2. StoreInv' /\ ControlType' /\ CreditInv' /\ BundleInv' /\ (SwitchKnown' <=> SwitchKnown)
  BY <1>1, SilentHelper
<1>3. DiskType'
  BY <1>1 DEF UpdateInv, DiskType, Database
<1>4. SessionInv'
  BY <1>1 DEF UpdateInv, SessionInv, store
<1>5. MigrationInv' /\ BackupInv' /\ EditsInv'
  BY <1>1, <1>2 DEF UpdateInv, MigrationInv, BackupInv, EditsInv, SwitchKnown, store
<1>. QED
  BY <1>2, <1>3, <1>4, <1>5 DEF UpdateInv

LEMMA PutInPlaceKeeps ==
  ASSUME UpdateInv, PutInPlace
  PROVE  UpdateInv'
<1>1. /\ UNCHANGED store /\ pc' = pc /\ (Fine \/ Fault)
      /\ UNCHANGED <<why, restart, bundle, migrates, past, backup, temp, copy>>
      /\ helper = "copied" /\ helper' = "in-place" /\ db' = copy
  BY DEF PutInPlace, Fine
<1>2. StoreInv' /\ ControlType' /\ CreditInv' /\ BundleInv' /\ (SwitchKnown' <=> SwitchKnown)
  BY <1>1, SilentHelper
<1>3. DiskType'
  BY <1>1 DEF UpdateInv, DiskType
<1>4. SessionInv'
  BY <1>1 DEF UpdateInv, SessionInv, store
<1>5. ~SwitchKnown /\ ~SwitchKnown' /\ (pc = "migrating" \/ past.orphan)
  BY <1>1, <1>2 DEF UpdateInv, MigrationInv
<1>6. ASSUME pc = "migrating"
      PROVE  /\ backup = db /\ db \in Database /\ db.schema = "old"
             /\ db' = [db EXCEPT !.schema = "new"]
  BY <1>1, <1>6 DEF UpdateInv, MigrationInv, DiskType, Database, NoBackup
<1>7. MigrationInv'
  <2>1. ASSUME pc = "migrating"
        PROVE  backup' = [db' EXCEPT !.schema = "old"]
    BY <1>1, <1>6, <2>1 DEF Database
  <2>. QED
    BY <1>1, <1>5, <2>1 DEF UpdateInv, MigrationInv, SwitchKnown, store
<1>8. EditsInv'
  BY <1>1, <1>5, <1>6 DEF UpdateInv, EditsInv, Database
<1>. QED
  BY <1>2, <1>3, <1>4, <1>5, <1>7, <1>8 DEF UpdateInv, BackupInv

(* The helper ends without a switch, and says so to whoever waits for it.  *)
LEMMA EndKeeps ==
  ASSUME UpdateInv, helper' = "none", pc' = pc \/ pc' \in {"recover", "off"},
         TameStep, UNCHANGED <<why, restart, bundle, db, backup, temp, copy, migrates>>,
         past' \in Past, past'.requests = past.requests, past'.claims = past.claims,
         past'.saved = past.saved, past'.late = past.late, past'.orphan = past.orphan,
         past'.confirmed = past.confirmed, pc' = pc => mem' = mem,
         pc \notin {"off", "load"} \/ pc' = pc
  PROVE  UpdateInv'
<1>1. StoreInv' /\ DiskType' /\ ControlType' /\ CreditInv'
  BY DEF UpdateInv, TameStep, DiskType, ControlType, CreditInv, Starting
<1>2. BundleInv' /\ SessionInv' /\ BackupInv' /\ EditsInv'
  BY DEF UpdateInv, BundleInv, SessionInv, TameStep, BackupInv, EditsInv
<1>3. MigrationInv'
  BY DEF UpdateInv, TameStep, MigrationInv
<1>. QED
  BY <1>1, <1>2, <1>3 DEF UpdateInv

LEMMA ReportsIsTame ==
  ASSUME UpdateInv, NEW nexts, Reports(nexts), \A n \in nexts : Tame(mem, n)
  PROVE  /\ TameStep /\ (pc' = pc \/ pc' \in {"recover", "off"})
         /\ pc' = pc => mem' = mem
         /\ pc \notin {"off", "load"} \/ pc' = pc
<1>1. CASE pc = "migrating"
  <2>1. Record(nexts, "recover", "off") /\ StoreInv
    BY <1>1 DEF Reports, At, UpdateInv
  <2>. QED
    BY <1>1, <2>1, RecordIsTame
<1>2. CASE pc # "migrating"
  BY <1>2, UnchangedStoreIsTame DEF Reports, At, UpdateInv, store
<1>. QED
  BY <1>1, <1>2

LEMMA HelperEndsKeeps ==
  ASSUME UpdateInv, HelperEnds
  PROVE  UpdateInv'
<1>1. /\ UNCHANGED <<why, restart, bundle, db, backup, temp, copy, migrates, past>>
      /\ helper' = "none" /\ past \in Past /\ Sound(mem)
  BY DEF HelperEnds, live, UpdateInv, ControlType, StoreInv
<1>2. \/ Reports(RecordNoPending(mem))
      \/ Reports(RecordMigrationFailure(mem))
  BY DEF HelperEnds
<1>3. /\ TameStep /\ (pc' = pc \/ pc' \in {"recover", "off"})
      /\ pc' = pc => mem' = mem
      /\ pc \notin {"off", "load"} \/ pc' = pc
  BY <1>1, <1>2, NoPendingSound, MigrationFailureSound, ReportsIsTame
<1>. QED
  BY <1>1, <1>3, EndKeeps

LEMMA HelperFailsKeeps ==
  ASSUME UpdateInv, HelperFails
  PROVE  UpdateInv'
<1>1. /\ UNCHANGED <<blocked, why, restart, bundle, db, backup, temp, copy, migrates>>
      /\ helper' = "none" /\ Fault /\ past \in Past /\ Sound(mem) /\ StoreInv
      /\ \E torn \in BOOLEAN : past' = [past EXCEPT !.torn = torn]
  BY DEF HelperFails, live, UpdateInv, ControlType, StoreInv, Past
<1>2. /\ past'.requests = past.requests /\ past'.claims = past.claims
      /\ past'.saved = past.saved /\ past'.late = past.late /\ past'.orphan = past.orphan
      /\ past'.confirmed = past.confirmed /\ past' \in Past
  BY <1>1 DEF Past
<1>3. CASE pc # "migrating"
  <2>1. UNCHANGED store /\ pc' = pc /\ mem' = mem
    BY <1>1, <1>3 DEF HelperFails, At, store
  <2>2. TameStep
    BY <1>1, <2>1, UnchangedStoreIsTame
  <2>. QED
    BY <1>1, <1>2, <2>1, <2>2, EndKeeps
<1>4. CASE pc = "migrating"
  <2>1. PICK n \in RecordMigrationFailure(mem) :
          mem' = n /\ file' = Written(n) /\ pc' = "recover"
    BY <1>4 DEF HelperFails, At, Goto
  <2>2. Tame(mem, n) /\ Written(n).st = n
    BY <1>1, MigrationFailureSound DEF Written
  <2>3. StoreInv'
    BY <1>1, <2>1, <2>2, FaultCounts DEF StoreInv, Tame
  <2>4. TameStep
    BY <2>1, <2>2, <2>3 DEF TameStep, Tame, SwitchKnown
  <2>. QED
    BY <1>1, <1>2, <1>4, <2>1, <2>4, EndKeeps
<1>. QED
  BY <1>3, <1>4

LEMMA HelperDoneKeeps ==
  ASSUME UpdateInv, HelperDone
  PROVE  UpdateInv'
<1>1. /\ UNCHANGED <<why, restart, bundle, db, backup, temp, copy, migrates>>
      /\ helper = "in-place" /\ helper' = "none" /\ past \in Past /\ Sound(mem) /\ StoreInv
      /\ \E torn \in BOOLEAN : past' = [past EXCEPT !.torn = torn]
      /\ Reports(RecordSwitched(mem))
  BY DEF HelperDone, live, UpdateInv, ControlType, StoreInv, Past
<1>2. /\ past'.requests = past.requests /\ past'.claims = past.claims
      /\ past'.saved = past.saved /\ past'.late = past.late /\ past'.orphan = past.orphan
      /\ past'.confirmed = past.confirmed /\ past' \in Past
  BY <1>1 DEF Past
<1>3. CASE pc # "migrating"
  <2>1. UNCHANGED store /\ pc' = pc /\ mem' = mem /\ Fine
    BY <1>1, <1>3 DEF Reports, At, store
  <2>2. TameStep
    BY <1>1, <2>1, UnchangedStoreIsTame
  <2>. QED
    BY <1>1, <1>2, <2>1, <2>2, EndKeeps
<1>4. CASE pc = "migrating"
  <2>1. Record(RecordSwitched(mem), "recover", "off")
    BY <1>1, <1>4 DEF Reports, At
  <2>2. \A n \in RecordSwitched(mem) :
          Sound(n) /\ ~Credit(n) /\ n.db = "yes" /\ Written(n).st = n
    BY <1>1, SwitchedSound DEF Written
  <2>3. /\ StoreInv'
        /\ \/ pc' = "recover" /\ ~Credit(mem') /\ mem'.db = "yes" /\ file'.st = mem'
           \/ pc' = "off" /\ mem' = mem /\ (file' = file \/ ~Credit(file'.st))
    BY <1>1, <2>1, <2>2, RecordSound, RecordCases
  <2>4. backup = [db EXCEPT !.schema = "old"]
    BY <1>1, <1>4 DEF UpdateInv, MigrationInv
  <2>5. DiskType' /\ ControlType' /\ CreditInv'
    BY <1>1, <1>2, <2>3 DEF UpdateInv, DiskType, ControlType, CreditInv, Starting, Credit
  <2>6. BundleInv' /\ SessionInv'
    BY <1>1, <1>2, <2>3 DEF UpdateInv, BundleInv, SessionInv
  <2>7. MigrationInv' /\ BackupInv' /\ EditsInv'
    BY <1>1, <1>2, <2>3, <2>4 DEF UpdateInv, MigrationInv, BackupInv, EditsInv, SwitchKnown
  <2>. QED
    BY <2>3, <2>5, <2>6, <2>7 DEF UpdateInv
<1>. QED
  BY <1>3, <1>4

-----------------------------------------------------------------------------
(* The database put back, and the old one removed.                         *)

LEMMA RestoringKeeps ==
  ASSUME UpdateInv, Restoring
  PROVE  UpdateInv'
<1>1. /\ UNCHANGED store /\ (Fine \/ Fault) /\ mem' = mem /\ file' = file
      /\ UNCHANGED <<why, restart, bundle, backup, migrates, past, helper, copy>>
      /\ pc = "restoring" /\ temp' \in {"none", "whole"}
      /\ \/ db' = backup /\ pc' = "validate"
         \/ db' = db /\ pc' = "fail-rollback"
  BY DEF Restoring, At, Goto, migration, store
<1>2. TameStep
  BY <1>1, UnchangedStoreIsTame DEF UpdateInv
<1>3. /\ mem.db = "yes" /\ backup # NoBackup /\ SwitchKnown /\ helper = "none"
      /\ backup \in Database /\ backup.schema = "old" /\ backup.edits <= past.saved
  BY <1>1 DEF UpdateInv, SessionInv, DiskType, SwitchKnown, MigrationInv
<1>4. past.late \/ backup = [db EXCEPT !.schema = "old"]
  BY <1>3 DEF UpdateInv, BackupInv
<1>5. DiskType' /\ ControlType' /\ CreditInv'
  BY <1>1, <1>2, <1>3 DEF UpdateInv, DiskType, ControlType, CreditInv, Starting, TameStep
<1>6. BundleInv' /\ SessionInv' /\ MigrationInv'
  BY <1>1, <1>3 DEF UpdateInv, BundleInv, SessionInv, MigrationInv
<1>7. backup = [backup EXCEPT !.schema = "old"]
  BY <1>3 DEF Database
<1>8. BackupInv'
  BY <1>1, <1>2, <1>7 DEF UpdateInv, BackupInv, TameStep
<1>9. EditsInv'
  BY <1>1, <1>4 DEF UpdateInv, EditsInv, DiskType, Database
<1>. QED
  BY <1>2, <1>5, <1>6, <1>8, <1>9 DEF UpdateInv, TameStep

LEMMA CleanupKeeps ==
  ASSUME UpdateInv, Cleanup
  PROVE  UpdateInv'
<1>1. /\ UNCHANGED store /\ (Fine \/ Fault) /\ mem' = mem /\ file' = file
      /\ UNCHANGED <<why, restart, db, migrates, helper, copy>>
      /\ pc = "cleanup" /\ pc' \in {"cleanup", "cleanup-failed", "off", "cleaned"}
      /\ temp' = "none" /\ backup' \in {backup, NoBackup} /\ past \in Past
      /\ past' = [past EXCEPT !.confirmed = TRUE]
  BY DEF Cleanup, At, Goto, migration, store, UpdateInv, ControlType
<1>2. /\ past'.requests = past.requests /\ past'.claims = past.claims
      /\ past'.saved = past.saved /\ past'.late = past.late /\ past'.orphan = past.orphan
      /\ past'.confirmed /\ past' \in Past
  BY <1>1 DEF Past
<1>3. TameStep
  BY <1>1, UnchangedStoreIsTame DEF UpdateInv
<1>4. bundle' \in [Places -> Contents]
  <2>1. \/ bundle' = bundle
        \/ \E p, c : p \in Places /\ c \in Contents /\ bundle' = [bundle EXCEPT ![p] = c]
    <3>1. \A i \in DOMAIN CleanupOrder : CleanupOrder[i] \in Places
      BY DEF CleanupOrder, Places
    <3>2. {"none", "part"} \subseteq Contents
      BY DEF Contents
    <3>. QED
      BY <3>1, <3>2 DEF Cleanup
  <2>. QED
    BY <2>1 DEF UpdateInv, DiskType
<1>5. DiskType' /\ ControlType' /\ CreditInv'
  BY <1>1, <1>2, <1>3, <1>4 DEF UpdateInv, DiskType, ControlType, CreditInv, Starting, TameStep
<1>6. BundleInv' /\ SessionInv'
  BY <1>1, <1>2 DEF UpdateInv, BundleInv, SessionInv
<1>7. MigrationInv' /\ BackupInv' /\ EditsInv'
  BY <1>1, <1>2 DEF UpdateInv, MigrationInv, BackupInv, EditsInv, SwitchKnown
<1>. QED
  BY <1>3, <1>5, <1>6, <1>7 DEF UpdateInv, TameStep

-----------------------------------------------------------------------------
(* The invariant and the theorems.                                         *)

LEMMA InitUpdateInv == Init => UpdateInv
<1>. SUFFICES ASSUME Init PROVE UpdateInv
  OBVIOUS
<1>1. /\ Verified.status = "available" /\ Verified.phase = "none" /\ Verified.handoff = "none"
      /\ Verified.last = "recent" /\ Verified.cand = Candidate /\ Verified.proof = "signed"
      /\ Verified.verified = TRUE /\ Verified.pkg = TRUE /\ Verified.app = TRUE
      /\ Verified.failure = "none" /\ Verified.notified = FALSE /\ Verified.stage = "none"
      /\ Verified.db = "unknown"
  BY DEF Verified, Initial
<1>2. Verified \in State
  BY RecoveryAssumption
    DEF Verified, Initial, State, Statuses, Phases, Handoffs, Failures, Stages
<1>3. Valid(Verified)
  BY <1>1, RecoveryAssumption, CandidatesAssumption DEF Valid, ValidPending, Applying
<1>4. mem = Verified /\ file = Written(mem) /\ file.st = mem
  BY DEF Init, Written
<1>5. StoreInv
  <2>1. Sound(mem)
    BY <1>1, <1>2, <1>3, <1>4 DEF Sound
  <2>2. blocked \in BOOLEAN
    BY DEF Init
  <2>3. faults \in 0 .. MaxFaults
    BY RecoveryAssumption DEF Init
  <2>. QED
    BY <1>4, <2>1, <2>2, <2>3 DEF StoreInv
<1>6. DiskType
  <2>1. bundle \in [Places -> Contents]
    BY DEF Init, Contents
  <2>2. db \in Database /\ copy = db /\ db.edits = 0 /\ past.saved = 0
    BY RecoveryAssumption DEF Init, Database
  <2>. QED
    BY <2>1, <2>2 DEF Init, DiskType
<1>7. ControlType
  <2>1. past \in Past
    BY RecoveryAssumption DEF Init, Past
  <2>2. pc \in Serving /\ why \in {"health", "rollback"}
    BY DEF Init, Serving
  <2>3. restart \in BOOLEAN /\ migrates \in BOOLEAN
    BY DEF Init
  <2>. QED
    BY <2>1, <2>2, <2>3 DEF ControlType
<1>8. CreditInv /\ SessionInv /\ MigrationInv /\ BackupInv /\ EditsInv
  BY <1>1, <1>4
    DEF Init, CreditInv, Credit, SessionInv, MigrationInv, SwitchKnown, BackupInv, EditsInv
<1>9. BundleInv
  BY PlacesNamed DEF Init, BundleInv
<1>. QED
  BY <1>5, <1>6, <1>7, <1>8, <1>9 DEF UpdateInv

LEMMA StepUpdateInv == UpdateInv /\ [Next]_uvars => UpdateInv'
<1>. SUFFICES ASSUME UpdateInv, [Next]_uvars PROVE UpdateInv'
  OBVIOUS
<1>1. CASE UNCHANGED uvars
  <2>1. StoreInv' /\ DiskType' /\ ControlType' /\ CreditInv'
    BY <1>1 DEF uvars, UpdateInv, StoreInv, DiskType, ControlType, CreditInv, Credit
  <2>2. BundleInv' /\ SessionInv' /\ MigrationInv' /\ BackupInv' /\ EditsInv'
    BY <1>1 DEF uvars, UpdateInv, BundleInv, SessionInv, MigrationInv, BackupInv, EditsInv,
      SwitchKnown
  <2>. QED
    BY <2>1, <2>2 DEF UpdateInv
<1>2. CASE Edit \/ Apply \/ HandOff \/ Quit \/ Crash
  BY <1>2, EditKeeps, ApplyKeeps, HandOffKeeps, ControlKeeps, CrashKeeps
<1>3. CASE Helping
  BY <1>3, HelperEndsKeeps, BackUpKeeps, MigrateCopyKeeps, PutInPlaceKeeps, HelperDoneKeeps,
    HelperFailsKeeps DEF Helping
<1>4. CASE Launch \/ Load \/ CheckHandoff \/ ClaimIt
  BY <1>4, ControlKeeps, LoadKeeps, ClaimKeeps
<1>5. CASE Recovery
  BY <1>5, CheckKeeps, RecordKeeps, RecordBootKeeps, ControlKeeps, PrepareSwitchKeeps,
    CopyBundleKeeps, SwitchOutKeeps, SwitchInKeeps, BackKeeps, BackInKeeps, MarkerKeeps,
    RestoringKeeps, CleanupKeeps DEF Recovery
<1>. QED
  BY <1>1, <1>2, <1>3, <1>4, <1>5 DEF Next, Start

(* The invariant holds with any number of failures, requests and edits. *)
THEOREM UpdateInductive == Spec => []UpdateInv
  BY InitUpdateInv, StepUpdateInv, PTL DEF Spec

(* Every variable keeps its type, and what is stored is a state that the next *)
(* start accepts: no mutator of the state writes what validate would refuse.  *)
THEOREM UpdateTypeCorrect == Spec => []TypeOK
<1>1. UpdateInv => TypeOK
  <2>. SUFFICES ASSUME UpdateInv PROVE TypeOK
    OBVIOUS
  <2>1. mem \in State /\ Valid(mem) /\ blocked \in BOOLEAN /\ faults \in 0 .. MaxFaults
    BY DEF UpdateInv, StoreInv, Sound
  <2>2. file \in File
    BY DEF UpdateInv, StoreInv, Sound, Written, File
  <2>. QED
    BY <2>1, <2>2 DEF UpdateInv, DiskType, ControlType, TypeOK
<1>. QED
  BY <1>1, UpdateInductive, PTL

(* A migration is begun once at most for each time the user asked for the     *)
(* update, wherever a start was stopped and whatever write of the state failed. *)
THEOREM OneMigrationPerRequest == Spec => []NoRerun
<1>1. UpdateInv => NoRerun
  BY DEF UpdateInv, CreditInv, NoRerun
<1>. QED
  BY <1>1, UpdateInductive, PTL

(* Until the new program confirmed itself the old one is whole at one of its  *)
(* two paths, and a database whose switch was recorded has its backup.        *)
THEOREM OldProgramIsThere == Spec => []WayBack
<1>1. UpdateInv => WayBack
  <2>. SUFFICES ASSUME UpdateInv, Unconfirmed PROVE
         /\ \E p \in {"current", "rollback"} : bundle[p] = "old"
         /\ migrates /\ mem.db = "yes" /\ db.schema = "new" =>
              backup = [db EXCEPT !.schema = "old"]
    BY DEF WayBack
  <2>1. \E p \in {"current", "rollback"} : bundle[p] = "old"
    BY DEF UpdateInv, BundleInv, Unconfirmed
  <2>2. mem.db = "yes" => backup = [db EXCEPT !.schema = "old"]
    BY DEF UpdateInv, SessionInv, BackupInv, SwitchKnown, Unconfirmed
  <2>. QED
    BY <2>1, <2>2
<1>. QED
  BY <1>1, UpdateInductive, PTL

(* No saved edit is lost or brought back by a migration or a rollback, unless *)
(* it was made between the confirmation and the end of the cleanup, or a      *)
(* helper outlived the application.                                           *)
THEOREM SavedEditsAreKept == Spec => []EditsKept
<1>1. UpdateInv => EditsKept
  BY DEF UpdateInv, EditsInv, EditsKept
<1>. QED
  BY <1>1, UpdateInductive, PTL

-----------------------------------------------------------------------------
(* Where the bundles and the schema are, by what is recorded.              *)

\* The history without a switch of the database that nobody recorded.
Clean == ~past.torn /\ ~past.orphan

\* States recorded before the bundles are moved, and after the cleanup.
Early(s) ==
  \/ s.status = "available" \/ s.phase = "apply-preparation"
  \/ s.phase = "restart-health-check" /\ s.stage \in {"none", "health-pending"}
Done(s) == s.status = "no-update"
Untouched ==
  bundle["current"] \in {"old", "part"} /\ bundle["rollback"] = "none" /\ bundle["failed"] = "none"

\* Memory is behind the file only when the start is about to end, or when it
\* rolls back what it was to go on with.
RecordedInv ==
  /\ {mem.status, file.st.status} \subseteq {"available", "checking", "no-update"}
  /\ Early(file.st) => Early(mem) \/ mem.phase = "rollback" \/ pc \in {"off", "load", "fail"}
  /\ Done(file.st) => Done(mem) \/ pc \in {"off", "load", "fail"}
  /\ Done(mem) =>
       pc \in {"boot", "session", "recovery-only", "off", "load", "handoff", "recover"}

\* A start is where the recorded phase sends it.
PhaseInv ==
  /\ pc = "handoff" /\ mem.phase = "apply-preparation" => mem.handoff = "requested"
  /\ pc = "recover" => mem.phase # "apply-preparation"
  /\ pc \in {"revalidate", "health", "healthy"} => mem.phase = "restart-health-check"
  /\ pc \in {"switching", "copying", "switch-out", "switch-in", "switched", "reconcile",
             "reconcile-health", "retry-health", "confirm", "confirmed"} =>
       mem.phase = "restart-health-check" /\ ~Early(mem)
  /\ pc \in {"cleanup-health", "cleanup", "cleaned", "cleanup-failed"} => mem.phase = "cleanup"

EarlyInv == Early(mem) \/ Early(file.st) => Untouched
DoneInv ==
  Done(mem) \/ Done(file.st) => bundle["current"] = "new" /\ (Clean => Fits("new"))

\* A new schema is recorded, or was just put in place.
SchemaInv ==
  Clean /\ db.schema = "new" =>
    \/ helper = "in-place"
    \/ (mem.db = "yes" \/ Done(mem)) /\ (file.st.db = "yes" \/ Done(file.st))

\* The bundle at the application's path, by the place of the start.
CurrentInv ==
  /\ pc \in {"load", "handoff", "claim", "migrating", "recover", "reconcile", "back", "session",
             "handing"} => bundle["current"] \in {"old", "new"}
  /\ pc \in {"revalidate", "health", "healthy", "retry-health", "switching", "copying",
             "switch-out"} => bundle["current"] = "old"
  /\ pc \in {"reconcile-health", "switched", "confirm", "confirmed", "cleanup-health", "cleanup",
             "cleaned", "cleanup-failed"} => bundle["current"] = "new"
  /\ pc \in {"restore", "restoring", "validate", "marker", "rolled-back"} =>
       bundle["current"] \in {"old", "part"} /\ bundle["rollback"] = "none"

\* The bundle kept to go back to is never the new one, and not kept twice.
RollbackInv ==
  /\ bundle["rollback"] # "new"
  /\ bundle["current"] = "old" => bundle["rollback"] = "none"
  /\ pc = "switch-out" => bundle["switch"] = "new"
  /\ pc = "switch-in" => bundle["switch"] = "new" /\ bundle["rollback"] = "old"
  /\ pc = "back-in" => bundle["failed"] = "new" /\ bundle["rollback"] \in {"old", "part"}
  /\ pc = "rolled-back" => bundle["failed"] = "none"

\* What was found healthy, or put back, fits the database.
FitInv ==
  /\ Clean /\ pc \in {"healthy", "switching", "copying", "switch-out", "switch-in", "switched",
                      "confirmed", "cleanup", "cleaned", "cleanup-failed"} => Fits("new")
  /\ Clean /\ pc \in {"marker", "rolled-back"} => db.schema = "old"
  /\ Clean /\ pc = "boot" /\ bundle["current"] \in {"old", "new"} => Fits(bundle["current"])
  /\ pc = "recovery-only" => ~Clean

WholeInv ==
  /\ RecordedInv /\ PhaseInv /\ EarlyInv /\ DoneInv /\ SchemaInv /\ CurrentInv /\ RollbackInv
  /\ FitInv

(* What a stored state says of itself. *)
LEMMA StoredFacts ==
  ASSUME UpdateInv
  PROVE  /\ mem.status = "checking" <=> mem.phase # "none"
         /\ mem.status \in {"available", "no-update"} =>
              mem.phase = "none" /\ mem.stage = "none" /\ mem.db = "unknown"
         /\ mem.phase = "apply-preparation" => mem.stage = "none" /\ mem.db = "unknown"
         /\ mem.phase = "apply-preparation" => mem.failure = "none" /\ mem.verified
         /\ mem.phase \in {"none", "apply-preparation", "restart-health-check", "rollback",
                           "cleanup"}
         /\ file.st.status = "checking" <=> file.st.phase # "none"
         /\ file.st.status \in {"available", "no-update"} =>
              file.st.phase = "none" /\ file.st.db = "unknown"
         /\ file.st.phase = "apply-preparation" => file.st.db = "unknown"
<1>1. Sound(mem) /\ Sound(file.st)
  BY DEF UpdateInv, StoreInv
<1>2. mem.phase \in {"none", "apply-preparation", "restart-health-check", "rollback", "cleanup"}
  BY <1>1 DEF Sound, Applying
<1>. QED
  BY <1>1, <1>2, SoundFacts

(* A step that changes neither what is stored nor what is on the disk.     *)
LEMMA DiskStill ==
  ASSUME WholeInv, UNCHANGED <<mem, file, bundle, db, helper, past, migrates>>
  PROVE  EarlyInv' /\ DoneInv' /\ SchemaInv'
  BY DEF WholeInv, EarlyInv, DoneInv, SchemaInv, Untouched, Clean, Fits

(* A step of the start that only decides where to go. *)
LEMMA StillWhole ==
  ASSUME UpdateInv, WholeInv,
         Quit \/ Launch \/ CheckHandoff \/ Revalidate \/ HealthPending \/ Reconcile
           \/ ReconcileHealth \/ RetryHealth \/ Confirm \/ CleanupHealth \/ Restore \/ Validate
           \/ Recover \/ Boot
  PROVE  WholeInv'
<1>1. UNCHANGED <<mem, file, bundle, db, helper, past, migrates>>
  BY DEF Quit, Launch, CheckHandoff, Revalidate, HealthPending, Reconcile, ReconcileHealth,
    RetryHealth, Confirm, CleanupHealth, Restore, Validate, Recover, Boot, Health, Bundles,
    store, live, migration
<1>2. EarlyInv' /\ DoneInv' /\ SchemaInv'
  BY <1>1, DiskStill
<1>3. RecordedInv'
  BY <1>1, StoredFacts
    DEF WholeInv, RecordedInv, PhaseInv, Early, Done, Quit, Launch, CheckHandoff, Revalidate,
      HealthPending, Reconcile, ReconcileHealth, RetryHealth, Confirm, CleanupHealth, Restore,
      Validate, Recover, Entry, Boot, Health, Bundles, At, Goto, HasPendingApply
<1>4. PhaseInv'
  BY <1>1, StoredFacts
    DEF WholeInv, RecordedInv, PhaseInv, EarlyInv, Untouched, Early, Quit, Launch, CheckHandoff, Revalidate,
      HealthPending, Reconcile, ReconcileHealth, RetryHealth, Confirm, CleanupHealth, Restore,
      Validate, Recover, Entry, Boot, Health, Bundles, At, Goto, HasPendingApply
<1>5. CurrentInv' /\ RollbackInv'
  BY <1>1, StoredFacts
    DEF WholeInv, PhaseInv, EarlyInv, Untouched, CurrentInv, RollbackInv, Early, Quit, Launch,
      CheckHandoff, Revalidate, HealthPending, Reconcile, ReconcileHealth, RetryHealth, Confirm,
      CleanupHealth, Restore, Validate, Recover, Entry, Boot, Health, Bundles, At, Goto, Exists
<1>6. FitInv'
  <2>1. CASE Boot
    BY <1>1, <2>1 DEF WholeInv, FitInv, Boot, At, Goto, Fits, Clean
  <2>2. CASE Recover
    <3>1. pc' # "boot" => UNCHANGED Clean
      BY <1>1 DEF Clean
    <3>2. ASSUME pc' = "boot", Clean, bundle["current"] \in {"old", "new"}
          PROVE  Fits(bundle["current"])
      <4>1. mem.phase = "none"
        BY <2>2, <3>2, StoredFacts DEF WholeInv, PhaseInv, Recover, At, Goto, Entry
      <4>2. CASE Done(mem)
        BY <3>2, <4>2 DEF WholeInv, DoneInv
      <4>3. CASE Early(mem)
        <5>1. bundle["current"] = "old"
          BY <3>2, <4>3 DEF WholeInv, EarlyInv, Untouched
        <5>2. db.schema # "new"
          BY <2>2, <3>2, <4>1, <4>3, StoredFacts
            DEF WholeInv, SchemaInv, Early, Done, UpdateInv, MigrationInv, Clean, Recover, At
        <5>. QED
          BY <5>1, <5>2 DEF Fits, UpdateInv, DiskType, Database
      <4>. QED
        BY <4>1, <4>2, <4>3, StoredFacts DEF WholeInv, RecordedInv, Early, Done
    <3>. QED
      BY <1>1, <2>2, <3>2 DEF WholeInv, FitInv, Recover, At, Goto, Entry, Fits, Clean
  <2>3. CASE Restore \/ Validate
    BY <1>1, <2>3
      DEF WholeInv, SchemaInv, RecordedInv, CurrentInv, FitInv, Restore, Validate, Proven, At,
        Goto, Fits, Clean, UpdateInv, MigrationInv, DiskType, Database, Done
  <2>4. CASE HealthPending \/ ReconcileHealth \/ RetryHealth \/ Confirm \/ CleanupHealth
    BY <1>1, <2>4
      DEF WholeInv, FitInv, HealthPending, ReconcileHealth, RetryHealth, Confirm, CleanupHealth,
        Health, At, Goto, Fits, Clean
  <2>5. CASE Quit \/ Launch \/ CheckHandoff \/ Revalidate \/ Reconcile
    BY <1>1, <2>5
      DEF WholeInv, FitInv, Quit, Launch, CheckHandoff, Revalidate, Reconcile, Bundles, At, Goto,
        Fits, Clean
  <2>. QED
    BY <2>1, <2>2, <2>3, <2>4, <2>5
<1>. QED
  BY <1>2, <1>3, <1>4, <1>5, <1>6 DEF WholeInv

(* A step that moves bundles alone. *)
LEMMA MovingWhole ==
  ASSUME UpdateInv, WholeInv,
         PrepareSwitch \/ CopyBundle \/ SwitchOut \/ SwitchIn \/ Back \/ BackIn \/ Marker
  PROVE  WholeInv'
<1>1. UNCHANGED <<mem, file, db, helper, past, migrates>>
  BY DEF PrepareSwitch, CopyBundle, SwitchOut, SwitchIn, Back, BackIn, Marker, Bundles, store,
    live, migration
<1>2. /\ pc \in {"switching", "copying", "switch-out", "switch-in", "back", "back-in", "marker"}
      /\ pc' \in {"fail", "fail-rollback", "switch-out", "copying", "switch-in", "switched",
                  "restore", "back-in", "rolled-back", "off"}
      /\ pc' \in {"copying", "switch-out", "switch-in", "switched"} =>
           pc \in {"switching", "copying", "switch-out", "switch-in"}
  BY DEF PrepareSwitch, CopyBundle, SwitchOut, SwitchIn, Back, BackIn, BackFails, Marker, Bundles,
    At, Goto
<1>3. RecordedInv' /\ PhaseInv' /\ SchemaInv'
  BY <1>1, <1>2
    DEF WholeInv, RecordedInv, PhaseInv, SchemaInv, Clean, Early, Done
<1>4. ~Done(mem) /\ ~Done(file.st)
  BY <1>2 DEF WholeInv, RecordedInv
<1>5. DoneInv'
  BY <1>1, <1>4 DEF DoneInv
<1>6. bundle \in [Places -> Contents] /\ DiskType
  BY DEF UpdateInv, DiskType
<1>7. EarlyInv' /\ CurrentInv' /\ RollbackInv'
  <2>1. CASE PrepareSwitch \/ CopyBundle
    BY <1>1, <1>2, <1>6, <2>1, PlacesNamed
      DEF WholeInv, RecordedInv, PhaseInv, EarlyInv, Untouched, CurrentInv, RollbackInv, PrepareSwitch,
        CopyBundle, Bundles, At, Goto, Exists
  <2>2. CASE SwitchOut
    <3>1. /\ Renamed("current", "rollback")["current"] = "none"
          /\ Renamed("current", "rollback")["rollback"] = bundle["current"]
          /\ Renamed("current", "rollback")["switch"] = bundle["switch"]
      BY <1>6, PlacesNamed, RenamedType
    <3>. QED
      BY <1>1, <1>2, <2>2, <3>1
        DEF WholeInv, RecordedInv, PhaseInv, EarlyInv, CurrentInv, RollbackInv, Early, SwitchOut,
          Bundles, At, Goto
  <2>3. CASE SwitchIn
    <3>1. /\ Renamed("rollback", "current")["current"] = bundle["rollback"]
          /\ Renamed("rollback", "current")["rollback"] = "none"
          /\ Renamed("switch", "current")["current"] = bundle["switch"]
          /\ Renamed("switch", "current")["rollback"] = bundle["rollback"]
      BY <1>6, PlacesNamed, RenamedType
    <3>. QED
      BY <1>1, <1>2, <2>3, <3>1
        DEF WholeInv, RecordedInv, PhaseInv, EarlyInv, CurrentInv, RollbackInv, Early, SwitchIn,
          Bundles, At, Goto
  <2>4. CASE Back
    <3>1. /\ Renamed("current", "failed")["current"] = "none"
          /\ Renamed("current", "failed")["failed"] = bundle["current"]
          /\ Renamed("current", "failed")["rollback"] = bundle["rollback"]
      BY <1>6, PlacesNamed, RenamedType
    <3>2. bundle["rollback"] \in Contents
      BY <1>6, PlacesNamed
    <3>. QED
      BY <1>1, <1>2, <2>4, <3>1, <3>2
        DEF WholeInv, EarlyInv, Untouched, CurrentInv, RollbackInv, Back,
          BackFails, At, Goto, Exists, Contents
  <2>5. CASE BackIn
    <3>1. /\ Renamed("rollback", "current")["current"] = bundle["rollback"]
          /\ Renamed("rollback", "current")["rollback"] = "none"
          /\ Renamed("failed", "current")["current"] = bundle["failed"]
          /\ Renamed("failed", "current")["rollback"] = bundle["rollback"]
      BY <1>6, PlacesNamed, RenamedType
    <3>. QED
      BY <1>1, <1>2, <2>5, <3>1
        DEF WholeInv, EarlyInv, Untouched, CurrentInv, RollbackInv, BackIn, BackFails, Bundles,
          At, Goto
  <2>6. CASE Marker
    BY <1>1, <1>2, <1>6, <2>6, PlacesNamed
      DEF WholeInv, EarlyInv, Untouched, CurrentInv, RollbackInv, Marker, At, Goto, Exists
  <2>. QED
    BY <2>1, <2>2, <2>3, <2>4, <2>5, <2>6
<1>8. FitInv'
  <2>1. Fits("new")' <=> Fits("new")
    BY <1>1 DEF Fits
  <2>2. pc' = "rolled-back" => pc = "marker"
    BY DEF PrepareSwitch, CopyBundle, SwitchOut, SwitchIn, Back, BackIn, BackFails, Marker,
      Bundles, At, Goto
  <2>. QED
    BY <1>1, <1>2, <2>1, <2>2 DEF WholeInv, FitInv, Clean
<1>. QED
  BY <1>3, <1>5, <1>7, <1>8 DEF WholeInv

(* The cleanup removes what is not at the application's path. *)
LEMMA CleanupWhole ==
  ASSUME UpdateInv, WholeInv, Cleanup
  PROVE  WholeInv'
<1>1. /\ UNCHANGED <<mem, file, db, helper, migrates>> /\ past \in Past
      /\ past' = [past EXCEPT !.confirmed = TRUE]
      /\ pc = "cleanup" /\ pc' \in {"cleanup", "cleanup-failed", "off", "cleaned"}
  BY DEF Cleanup, At, Goto, migration, store, UpdateInv, ControlType
<1>2. past'.torn = past.torn /\ past'.orphan = past.orphan
  BY <1>1 DEF Past
<1>3. mem.phase = "cleanup" /\ bundle["current"] = "new"
  BY <1>1 DEF WholeInv, PhaseInv, CurrentInv
<1>4. /\ mem.status = "checking" /\ ~Early(mem) /\ ~Early(file.st)
      /\ ~Done(mem) /\ ~Done(file.st)
  BY <1>1, <1>3, StoredFacts DEF WholeInv, RecordedInv, Early, Done
<1>5. bundle'["current"] = "new" /\ bundle'["rollback"] # "new"
  <2>1. \A i \in DOMAIN CleanupOrder : CleanupOrder[i] # "current" /\ CleanupOrder[i] \in Places
    BY DEF CleanupOrder, Places
  <2>2. \/ bundle' = bundle
        \/ \E p, c : p \in Places /\ p # "current" /\ c \in {"none", "part"}
                     /\ bundle' = [bundle EXCEPT ![p] = c]
    BY <2>1 DEF Cleanup
  <2>. QED
    BY <1>3, <2>2, PlacesNamed DEF WholeInv, RollbackInv, UpdateInv, DiskType
<1>6. RecordedInv' /\ PhaseInv' /\ EarlyInv' /\ DoneInv' /\ CurrentInv' /\ RollbackInv'
  BY <1>1, <1>3, <1>4, <1>5
    DEF WholeInv, RecordedInv, PhaseInv, EarlyInv, DoneInv, CurrentInv, RollbackInv
<1>7. SchemaInv' /\ FitInv'
  BY <1>1, <1>2 DEF WholeInv, SchemaInv, FitInv, Fits, Clean
<1>. QED
  BY <1>6, <1>7 DEF WholeInv

(* The database put back has the old schema. *)
LEMMA RestoringWhole ==
  ASSUME UpdateInv, WholeInv, Restoring
  PROVE  WholeInv'
<1>1. /\ UNCHANGED <<mem, file, bundle, helper, past, migrates>>
      /\ pc = "restoring"
      /\ \/ db' = backup /\ pc' = "validate"
         \/ db' = db /\ pc' = "fail-rollback"
  BY DEF Restoring, At, Goto, migration, store
<1>2. backup.schema = "old"
  BY <1>1 DEF UpdateInv, SessionInv, DiskType
<1>3. RecordedInv' /\ PhaseInv' /\ EarlyInv' /\ CurrentInv' /\ RollbackInv' /\ FitInv'
  BY <1>1
    DEF WholeInv, RecordedInv, PhaseInv, EarlyInv, Untouched, CurrentInv, RollbackInv, FitInv
<1>4. DoneInv' /\ SchemaInv'
  BY <1>1, <1>2 DEF WholeInv, RecordedInv, DoneInv, SchemaInv, Clean
<1>. QED
  BY <1>3, <1>4 DEF WholeInv

(* An edit changes neither schema nor bundle. *)
LEMMA EditWhole ==
  ASSUME UpdateInv, WholeInv, Edit
  PROVE  WholeInv'
<1>1. /\ UNCHANGED <<mem, file, pc, bundle, helper, migrates>>
      /\ db' = [db EXCEPT !.edits = db.edits + 1] /\ db \in Database /\ past \in Past
      /\ past' = [past EXCEPT !.saved = past.saved + 1,
                              !.late = past.late \/ mem.stage = "cleanup-pending"]
  BY DEF Edit, store, migration, UpdateInv, DiskType, ControlType
<1>2. db'.schema = db.schema /\ past'.torn = past.torn /\ past'.orphan = past.orphan
  BY <1>1 DEF Database, Past
<1>3. RecordedInv' /\ PhaseInv' /\ EarlyInv' /\ CurrentInv' /\ RollbackInv'
  BY <1>1 DEF WholeInv, RecordedInv, PhaseInv, EarlyInv, Untouched, CurrentInv, RollbackInv
<1>4. DoneInv' /\ SchemaInv' /\ FitInv'
  BY <1>1, <1>2 DEF WholeInv, DoneInv, SchemaInv, FitInv, Clean, Fits
<1>. QED
  BY <1>3, <1>4 DEF WholeInv

(* A stop forgets where the start was, and may leave a switch unrecorded. *)
LEMMA CrashWhole ==
  ASSUME UpdateInv, WholeInv, Crash
  PROVE  WholeInv'
<1>1. /\ UNCHANGED <<mem, file, bundle, db, migrates>> /\ pc' = "off" /\ past \in Past
      /\ helper' \in {"none", helper}
      /\ past' = [past EXCEPT !.torn = past.torn \/ Unrecorded,
                              !.orphan = past.orphan \/ helper' # "none"]
  BY DEF Crash, Goto, store, live, UpdateInv, ControlType
<1>2. /\ past'.torn = (past.torn \/ Unrecorded)
      /\ past'.orphan = (past.orphan \/ helper' # "none")
  BY <1>1 DEF Past
<1>3. RecordedInv' /\ PhaseInv' /\ EarlyInv' /\ CurrentInv' /\ RollbackInv' /\ FitInv'
  BY <1>1 DEF WholeInv, RecordedInv, PhaseInv, EarlyInv, Untouched, CurrentInv, RollbackInv, FitInv
<1>4. Clean' => Clean /\ helper # "in-place"
  BY <1>2 DEF Clean, Unrecorded
<1>5. DoneInv' /\ SchemaInv'
  BY <1>1, <1>4 DEF WholeInv, DoneInv, SchemaInv, Fits
<1>. QED
  BY <1>3, <1>5 DEF WholeInv

-----------------------------------------------------------------------------
(* What the mutators do to what WholeInv reads.                            *)

\* The records of a step of the recovery leave the status and the evidence.
Keeps(s, n) == n.status = s.status /\ n.db = s.db

(* A request stays one of an untouched installation. *)
LEMMA AskingDoes ==
  ASSUME NEW s \in State
  PROVE  /\ \A c : \A n \in BeginApply(s, c) :
              s.status = "available" /\ n.status = "checking" /\ n.phase = "apply-preparation"
              /\ n.db = s.db
         /\ \A n \in RecordHandoff(s) \union ClaimMigration(s) :
              s.phase = "apply-preparation" /\ n.phase = s.phase /\ Keeps(s, n)
<1>1. \A c : \A n \in BeginApply(s, c) :
        s.status = "available" /\ n.status = "checking" /\ n.phase = "apply-preparation"
        /\ n.db = s.db
  BY DEF BeginApply, Stores, State
<1>2. \A n \in RecordHandoff(s) :
        s.phase = "apply-preparation" /\ n.phase = s.phase /\ Keeps(s, n)
  BY DEF RecordHandoff, Stores, State, Keeps
<1>3. \A n \in ClaimMigration(s) :
        s.phase = "apply-preparation" /\ n.phase = s.phase /\ Keeps(s, n)
  BY DEF ClaimMigration, Stores, State, Keeps
<1>. QED
  BY <1>1, <1>2, <1>3

(* The end of the helper, as recorded. *)
LEMMA MigrationDoes ==
  ASSUME NEW s \in State
  PROVE  /\ \A n \in RecordNoPending(s) \union RecordSwitched(s) :
              s.phase = "apply-preparation" /\ n.status = s.status
              /\ n.phase = "restart-health-check" /\ n.stage = "health-pending"
         /\ \A n \in RecordSwitched(s) : n.db = "yes"
         /\ \A n \in RecordMigrationFailure(s) :
              s.phase = "apply-preparation" /\ n.status = s.status /\ n.phase = "rollback"
<1>1. \A n \in RecordNoPending(s) :
        s.phase = "apply-preparation" /\ n.status = s.status
        /\ n.phase = "restart-health-check" /\ n.stage = "health-pending"
  BY DEF RecordNoPending, Claimed, Recovering, StagePhase, Stores, State
<1>2. \A n \in RecordSwitched(s) :
        s.phase = "apply-preparation" /\ n.status = s.status
        /\ n.phase = "restart-health-check" /\ n.stage = "health-pending" /\ n.db = "yes"
  BY DEF RecordSwitched, Claimed, Recovering, StagePhase, Stores, State
<1>3. \A n \in RecordMigrationFailure(s) :
        s.phase = "apply-preparation" /\ n.status = s.status /\ n.phase = "rollback"
  BY DEF RecordMigrationFailure, Claimed, Recovering, StagePhase, Stores, State
<1>. QED
  BY <1>1, <1>2, <1>3

(* The checkpoints of the switch. *)
LEMMA SwitchingDoes ==
  ASSUME NEW s \in State
  PROVE  /\ \A n \in RecordSwitching(s) :
              n.phase = "restart-health-check" /\ n.stage = "bundle-switching" /\ Keeps(s, n)
         /\ \A n \in RecordBundleSwitched(s) :
              n.phase = "restart-health-check" /\ n.stage = "bundle-switched" /\ Keeps(s, n)
         /\ \A n \in RecordCleanupPending(s) : n.phase = "cleanup" /\ Keeps(s, n)
<1>1. \A n \in RecordSwitching(s) :
        n.phase = "restart-health-check" /\ n.stage = "bundle-switching" /\ Keeps(s, n)
  BY DEF RecordSwitching, Stores, State, Keeps
<1>2. \A n \in RecordBundleSwitched(s) :
        n.phase = "restart-health-check" /\ n.stage = "bundle-switched" /\ Keeps(s, n)
  BY DEF RecordBundleSwitched, Stores, State, Keeps
<1>3. \A n \in RecordCleanupPending(s) : n.phase = "cleanup" /\ Keeps(s, n)
  BY DEF RecordCleanupPending, Stores, State, Keeps
<1>. QED
  BY <1>1, <1>2, <1>3

(* A failure keeps the evidence. *)
LEMMA FailureDoes ==
  ASSUME NEW s \in State, NEW stage \in {"cleanup-pending", "rollback-pending"},
         NEW n \in RecordRecoveryFailure(s, stage, s.db)
  PROVE  n.phase = StagePhase(stage) /\ Keeps(s, n)
<1>1. n = [s EXCEPT !.phase = StagePhase(stage), !.stage = stage,
                    !.db = MergeEvidence(s.db, s.db), !.failure = "other", !.handoff = "none"]
  BY DEF RecordRecoveryFailure, Recovering, Stores
<1>2. MergeEvidence(s.db, s.db) = s.db
  BY DEF MergeEvidence, State
<1>. QED
  BY <1>1, <1>2 DEF State, Keeps

(* The two ends of an update. *)
LEMMA EndDoes ==
  ASSUME NEW s \in State
  PROVE  /\ \A failure : \A n \in RecordRollbackCompleted(s, failure) :
              n.status = "available" /\ n.phase = "none" /\ n.db = "unknown"
         /\ \A n \in CompleteUpdate(s) : n.status = "no-update" /\ (n = s \/ n.phase = "none")
  BY DEF RecordRollbackCompleted, CompleteUpdate, NoCandidate, Settled, Stores, State

(* What a record must be for the invariant, wherever its writing stops.    *)
LEMMA RecordWhole ==
  ASSUME UpdateInv, WholeInv, NEW nexts, NEW to, NEW failed, Record(nexts, to, failed),
         UNCHANGED <<bundle, db, migrates>>, Clean' => Clean, ~Done(mem),
         pc \in {"off", "load", "fail"} => failed \in {"off", "load", "fail"},
         \A n \in nexts :
           /\ n.status \in {"available", "checking", "no-update"}
           /\ Early(n) => Untouched /\ (Early(mem) \/ failed \in {"off", "load", "fail"})
           /\ Done(n) => /\ bundle["current"] = "new" /\ (Clean => Fits("new"))
                         /\ to = "boot" /\ failed = "fail"
  PROVE  RecordedInv' /\ EarlyInv' /\ DoneInv'
<1>1. /\ Untouched' <=> Untouched
      /\ Fits("new")' <=> Fits("new")
  BY DEF Untouched, Fits
<1>2. \A n : Written(n).st = n
  BY DEF Written
<1>3. CASE pc' = to /\ mem' \in nexts /\ file' = Written(mem')
  BY <1>1, <1>2, <1>3 DEF RecordedInv, EarlyInv, DoneInv
<1>4. CASE pc' = failed /\ mem' = mem /\ file' = file
  BY <1>1, <1>4 DEF WholeInv, RecordedInv, EarlyInv, DoneInv
<1>5. CASE pc' = failed /\ mem' = mem /\ \E n \in nexts : file' = Written(n)
  <2>1. PICK n \in nexts : file' = Written(n)
    BY <1>5
  <2>. QED
    BY <1>1, <1>2, <1>5, <2>1 DEF WholeInv, RecordedInv, EarlyInv, DoneInv
<1>. QED
  BY <1>3, <1>4, <1>5, RecordCases

(* What a record must keep of the evidence of the switch. *)
LEMMA RecordSchema ==
  ASSUME WholeInv, NEW nexts, NEW to, NEW failed, Record(nexts, to, failed),
         db' = db, Clean' => Clean, helper' = helper, ~Done(mem),
         \A n \in nexts : Clean /\ db.schema = "new" /\ mem.db = "yes" => n.db = "yes" \/ Done(n)
  PROVE  SchemaInv'
<1>1. \A n : Written(n).st = n
  BY DEF Written
<1>. QED
  BY <1>1, RecordCases DEF WholeInv, SchemaInv

(* The request, and its hand-off to the next start. *)
LEMMA AskWhole ==
  ASSUME UpdateInv, WholeInv, Apply \/ HandOff
  PROVE  WholeInv'
<1>1. /\ UNCHANGED <<bundle, db, helper, migrates>> /\ past \in Past
      /\ past'.torn = past.torn /\ past'.orphan = past.orphan /\ mem \in State
      /\ pc \in {"session", "handing"} /\ pc' \in {"session", "handing", "off"}
  BY RecordCases
    DEF Apply, HandOff, At, live, migration, UpdateInv, ControlType, Past, StoreInv, Sound
<1>2. PICK nexts \in {BeginApply(mem, Candidate), RecordHandoff(mem)},
           to \in {"handing", "off"} : Record(nexts, to, "session")
  BY DEF Apply, HandOff
<1>3. \A n \in nexts : /\ Early(mem) /\ Early(n) /\ n.db = mem.db
                       /\ n.status = "checking" /\ ~Done(n)
  BY <1>1, <1>2, AskingDoes, StoredFacts DEF Early, Done, Keeps
<1>4. Clean' <=> Clean
  BY <1>1 DEF Clean
<1>5. SchemaInv' /\ RecordedInv' /\ EarlyInv' /\ DoneInv'
  <2>1. CASE nexts = {}
    <3>1. UNCHANGED <<mem, file>> /\ pc' = "session"
      BY <1>2, <2>1 DEF Record, store, Goto
    <3>. QED
      BY <1>1, <1>4, <3>1
        DEF WholeInv, RecordedInv, EarlyInv, DoneInv, SchemaInv, Untouched, Fits, Early, Done
  <2>2. CASE nexts # {}
    <3>1. Early(mem) /\ Untouched /\ ~Done(mem)
      BY <1>3, <2>2, StoredFacts DEF WholeInv, EarlyInv, Early, Done
    <3>2. SchemaInv'
      BY <1>1, <1>2, <1>3, <1>4, <3>1, RecordSchema
    <3>. QED
      BY <1>1, <1>2, <1>3, <1>4, <3>1, <3>2, RecordWhole
  <2>. QED
    BY <2>1, <2>2
<1>6. PhaseInv' /\ CurrentInv' /\ RollbackInv' /\ FitInv'
  BY <1>1, <1>4 DEF WholeInv, PhaseInv, CurrentInv, RollbackInv, FitInv
<1>. QED
  BY <1>5, <1>6 DEF WholeInv

(* A migration is claimed before its helper starts. *)
LEMMA ClaimWhole ==
  ASSUME UpdateInv, WholeInv, ClaimIt
  PROVE  WholeInv'
<1>1. /\ UNCHANGED <<bundle, db, migrates>> /\ past \in Past
      /\ past'.torn = past.torn /\ past'.orphan = past.orphan /\ mem \in State
      /\ pc = "claim" /\ pc' \in {"migrating", "off"} /\ helper = "none"
      /\ helper' \in {"none", "begun"}
      /\ Record(ClaimMigration(mem), "migrating", "off")
  BY RecordCases DEF ClaimIt, At, live, UpdateInv, ControlType, Past, StoreInv, Sound
<1>2. \A n \in ClaimMigration(mem) : /\ Early(mem) /\ Early(n) /\ n.db = mem.db
                                     /\ n.status = mem.status /\ mem.status = "checking"
  BY <1>1, AskingDoes, StoredFacts DEF Early, Keeps
<1>3. Clean' <=> Clean
  BY <1>1 DEF Clean
<1>4. ~Done(mem)
  BY <1>1 DEF WholeInv, RecordedInv
<1>5. RecordedInv' /\ EarlyInv' /\ DoneInv'
  BY <1>1, <1>2, <1>3, <1>4, RecordWhole DEF WholeInv, EarlyInv, Done
<1>6. SchemaInv'
  <2>1. \A n : Written(n).st = n
    BY DEF Written
  <2>. QED
    BY <1>1, <1>2, <1>3, <1>4, <2>1, RecordCases DEF WholeInv, SchemaInv
<1>7. PhaseInv' /\ CurrentInv' /\ RollbackInv' /\ FitInv'
  BY <1>1, <1>3 DEF WholeInv, PhaseInv, CurrentInv, RollbackInv, FitInv
<1>. QED
  BY <1>5, <1>6, <1>7 DEF WholeInv

(* Records that move the recovery on. *)
LEMMA SwitchingWhole ==
  ASSUME UpdateInv, WholeInv, BeginSwitch \/ Switched \/ Confirmed
  PROVE  WholeInv'
<1>1. /\ UNCHANGED <<bundle, db, helper, migrates, past>> /\ mem \in State
      /\ pc \in {"healthy", "switched", "confirmed"}
  BY DEF BeginSwitch, Switched, Confirmed, At, live, migration, UpdateInv, StoreInv, Sound
<1>2. /\ Clean' <=> Clean
      /\ Fits("new")' <=> Fits("new")
  BY <1>1 DEF Clean, Fits
<1>3. PICK nexts, to : /\ Record(nexts, to, "fail")
                       /\ \/ pc = "healthy" /\ nexts = RecordSwitching(mem) /\ to = "switching"
                          \/ pc = "switched" /\ nexts = RecordBundleSwitched(mem) /\ to = "boot"
                          \/ pc = "confirmed" /\ nexts = RecordCleanupPending(mem)
                               /\ to = "cleanup"
  BY DEF BeginSwitch, Switched, Confirmed, At
<1>4. mem.phase = "restart-health-check" /\ ~Done(mem) /\ mem.status = "checking"
  BY <1>1, StoredFacts DEF WholeInv, PhaseInv, Done
<1>5. \A n \in nexts :
        /\ n.status = "checking" /\ n.db = mem.db /\ ~Early(n) /\ ~Done(n)
        /\ n.phase = IF pc = "confirmed" THEN "cleanup" ELSE "restart-health-check"
  BY <1>1, <1>3, <1>4, SwitchingDoes DEF Keeps, Early, Done
<1>6. RecordedInv' /\ EarlyInv' /\ DoneInv'
  BY <1>1, <1>2, <1>3, <1>4, <1>5, RecordWhole
<1>7. SchemaInv'
  BY <1>1, <1>2, <1>3, <1>4, <1>5, RecordSchema
<1>8. PhaseInv' /\ CurrentInv' /\ RollbackInv' /\ FitInv'
  BY <1>1, <1>2, <1>3, <1>5, RecordCases
    DEF WholeInv, PhaseInv, CurrentInv, RollbackInv, FitInv
<1>. QED
  BY <1>6, <1>7, <1>8 DEF WholeInv

(* A failure is recorded: the next start rolls back, or cleans up. *)
LEMMA FailedWhole ==
  ASSUME UpdateInv, WholeInv, GiveUp \/ GiveUpRollback \/ CleanupFailed
  PROVE  WholeInv'
<1>1. /\ UNCHANGED <<bundle, db, helper, migrates, past>> /\ mem \in State
      /\ pc \in {"fail", "fail-rollback", "cleanup-failed"}
  BY DEF GiveUp, GiveUpRollback, CleanupFailed, At, live, migration, UpdateInv, StoreInv, Sound
<1>2. /\ Clean' <=> Clean
      /\ Fits("new")' <=> Fits("new")
  BY <1>1 DEF Clean, Fits
<1>3. ~Done(mem)
  BY <1>1 DEF WholeInv, RecordedInv
<1>4. CASE UNCHANGED store /\ pc' = "off"
  BY <1>1, <1>2, <1>4
    DEF WholeInv, RecordedInv, PhaseInv, EarlyInv, DoneInv, SchemaInv, CurrentInv, RollbackInv,
      FitInv, Untouched, store
<1>5. CASE \E to, failed : \E stage \in {"cleanup-pending", "rollback-pending"} :
             /\ Record(RecordRecoveryFailure(mem, stage, mem.db), to, failed)
             /\ \/ to = "off" /\ failed \in {"off", "fail"} /\ (pc = "fail" => failed = "off")
                \/ pc = "cleanup-failed" /\ to = "boot" /\ failed = "fail"
  <2>9. PICK stage \in {"cleanup-pending", "rollback-pending"} : \E to, failed :
             /\ Record(RecordRecoveryFailure(mem, stage, mem.db), to, failed)
             /\ \/ to = "off" /\ failed \in {"off", "fail"} /\ (pc = "fail" => failed = "off")
                \/ pc = "cleanup-failed" /\ to = "boot" /\ failed = "fail"
    BY <1>5
  <2>1. PICK to, failed :
             /\ Record(RecordRecoveryFailure(mem, stage, mem.db), to, failed)
             /\ \/ to = "off" /\ failed \in {"off", "fail"} /\ (pc = "fail" => failed = "off")
                \/ pc = "cleanup-failed" /\ to = "boot" /\ failed = "fail"
    BY <2>9
  <2>. DEFINE nexts == RecordRecoveryFailure(mem, stage, mem.db)
  <2>2. mem.status = "checking" \/ nexts = {}
    BY DEF RecordRecoveryFailure, Stores
  <2>3. \A n \in nexts : n.status = "checking" /\ n.db = mem.db /\ n.phase \in {"cleanup", "rollback"}
    BY <1>1, <2>1, <2>2, FailureDoes DEF Keeps, StagePhase
  <2>4. \A n \in nexts : ~Early(n) /\ ~Done(n)
    BY <2>3 DEF Early, Done
  <2>5. Record(nexts, to, failed)
    BY <2>1
  <2>. HIDE DEF nexts
  <2>6. RecordedInv' /\ EarlyInv' /\ DoneInv'
    BY <1>1, <1>2, <1>3, <2>1, <2>3, <2>4, <2>5, RecordWhole
  <2>7. SchemaInv'
    BY <1>1, <1>2, <1>3, <2>3, <2>5, RecordSchema
  <2>8. PhaseInv' /\ CurrentInv' /\ RollbackInv' /\ FitInv'
    BY <1>1, <1>2, <2>1, <2>5, RecordCases
      DEF WholeInv, PhaseInv, CurrentInv, RollbackInv, FitInv, Fits
  <2>. QED
    BY <2>6, <2>7, <2>8 DEF WholeInv
<1>. QED
  BY <1>4, <1>5 DEF GiveUp, GiveUpRollback, CleanupFailed, At, Goto

(* The end of an update, and of a rollback. *)
LEMMA EndWhole ==
  ASSUME UpdateInv, WholeInv, Cleaned \/ RolledBack
  PROVE  WholeInv'
<1>1. /\ UNCHANGED <<bundle, db, helper, migrates, past>> /\ mem \in State
      /\ pc \in {"cleaned", "rolled-back"} /\ pc' \in {"boot", "fail"}
  BY RecordCases
    DEF Cleaned, RolledBack, At, live, migration, UpdateInv, StoreInv, Sound
<1>2. /\ Clean' <=> Clean
      /\ Fits("new")' <=> Fits("new")
      /\ Fits("old")' <=> Fits("old")
  BY <1>1 DEF Clean, Fits
<1>3. PICK nexts : /\ Record(nexts, "boot", "fail")
                   /\ \/ pc = "cleaned" /\ nexts = CompleteUpdate(mem)
                      \/ /\ pc = "rolled-back"
                         /\ \E code : nexts = RecordRollbackCompleted(mem, code)
  BY DEF Cleaned, RolledBack, At
<1>4. ~Done(mem)
  BY <1>1 DEF WholeInv, RecordedInv
<1>5. \A n \in nexts :
        \/ pc = "cleaned" /\ n.status = "no-update" /\ n.phase = "none"
        \/ pc = "rolled-back" /\ n.status = "available" /\ n.phase = "none"
  BY <1>1, <1>3, <1>4, EndDoes DEF Done
<1>6. RecordedInv' /\ EarlyInv' /\ DoneInv'
  <2>1. \A n \in nexts :
          /\ n.status \in {"available", "checking", "no-update"}
          /\ Early(n) => Untouched /\ (Early(mem) \/ "fail" \in {"off", "load", "fail"})
          /\ Done(n) => /\ bundle["current"] = "new" /\ (Clean => Fits("new"))
                        /\ "boot" = "boot" /\ "fail" = "fail"
    BY <1>1, <1>5 DEF WholeInv, CurrentInv, RollbackInv, FitInv, Early, Done, Untouched
  <2>. QED
    BY <1>1, <1>2, <1>3, <1>4, <2>1, RecordWhole
<1>7. SchemaInv'
  <2>1. \A n \in nexts : Clean /\ db.schema = "new" /\ mem.db = "yes" => n.db = "yes" \/ Done(n)
    BY <1>5 DEF WholeInv, FitInv, Done
  <2>. QED
    BY <1>1, <1>2, <1>3, <1>4, <2>1, RecordSchema
<1>8. PhaseInv' /\ CurrentInv' /\ RollbackInv'
  BY <1>1 DEF WholeInv, PhaseInv, CurrentInv, RollbackInv
<1>9. FitInv'
  BY <1>1, <1>2 DEF WholeInv, CurrentInv, FitInv, Fits
<1>. QED
  BY <1>6, <1>7, <1>8, <1>9 DEF WholeInv

-----------------------------------------------------------------------------
(* The start that takes up what was recorded, and the helper.              *)

(* A recorded failure of the migration is rolled back. *)
LEMMA ResumedShows ==
  ASSUME NEW s, Sound(s), NEW n, n = ResumeStagedFailure(s)
  PROVE  /\ Sound(n)
         /\ \/ n = s
            \/ s.status = "available" /\ n.status = "checking" /\ n.phase = "rollback"
<1>1. Sound(n) /\ n \in State /\ s \in State
  BY ResumedKept DEF Kept, Sound
<1>2. CASE s.status = "available" /\ s.failure = "staged-migration" /\ s.verified
  <2>. DEFINE r == Recovering(s, "rollback-pending", "no", s.failure)
  <2>1. r.phase = "rollback" /\ n = [r EXCEPT !.status = "checking"]
        /\ DOMAIN r = DOMAIN s
    BY <1>1, <1>2 DEF ResumeStagedFailure, Recovering, StagePhase, State
  <2>2. "status" \in DOMAIN s
    BY <1>1 DEF State
  <2>3. r = [s EXCEPT !.phase = "rollback", !.stage = "rollback-pending", !.db = "no",
                      !.failure = s.failure, !.handoff = "none"]
    BY DEF Recovering, StagePhase
  <2>. HIDE DEF r
  <2>4. n.status = "checking" /\ n.phase = "rollback"
    BY <1>1, <2>1, <2>2, <2>3 DEF State
  <2>. QED
    BY <1>1, <1>2, <2>4
<1>3. CASE ~(s.status = "available" /\ s.failure = "staged-migration" /\ s.verified)
  BY <1>1, <1>3 DEF ResumeStagedFailure
<1>. QED
  BY <1>2, <1>3

(* So is a request that was interrupted. *)
LEMMA InterruptedShows ==
  ASSUME NEW s, Sound(s), NEW n, n = RecoverInterrupted(s)
  PROVE  /\ Sound(n)
         /\ \/ n = s /\ ~Interrupted(s)
            \/ s.phase = "apply-preparation" /\ n.phase = "rollback" /\ n.status = s.status
<1>1. Sound(n) /\ s \in State
  BY InterruptedKeeps DEF Kept, Sound
<1>2. Interrupted(s) => s.phase = "apply-preparation"
  BY DEF Interrupted, Sound, Applying
<1>3. CASE Interrupted(s)
  <2>1. n = Recovering(s, "rollback-pending", "unknown", "other")
    BY <1>2, <1>3 DEF RecoverInterrupted
  <2>. QED
    BY <1>1, <1>2, <1>3, <2>1 DEF Recovering, StagePhase, State
<1>4. CASE ~Interrupted(s)
  BY <1>1, <1>4 DEF RecoverInterrupted
<1>. QED
  BY <1>3, <1>4

(* A checkpoint is added where none was recorded. *)
LEMMA CheckpointShows ==
  ASSUME NEW s, Sound(s), NEW n, n = EnsureCheckpoint(s)
  PROVE  /\ n.status = s.status /\ n.phase = s.phase /\ n.handoff = s.handoff
         /\ \/ n.stage = s.stage
            \/ n.phase = "restart-health-check" /\ n.stage = "health-pending" /\ s.stage = "none"
            \/ n.phase \in {"rollback", "cleanup"}
<1>1. s \in State
  BY DEF Sound
<1>2. CASE n = s
  BY <1>2
<1>3. CASE /\ s.stage = "none" /\ s.phase = "restart-health-check"
           /\ n = [s EXCEPT !.stage = "health-pending"]
  BY <1>1, <1>3 DEF State
<1>4. CASE s.phase \in {"rollback", "cleanup"} /\ \E stage : n = [s EXCEPT !.stage = stage]
  BY <1>1, <1>4 DEF State
<1>. QED
  BY <1>2, <1>3, <1>4 DEF EnsureCheckpoint

(* What a start makes of the state it read, for what WholeInv reads. *)
LEMMA LoadedWhole ==
  ASSUME Sound(file.st), file = Written(file.st), NEW n, n = Loaded(file, TRUE).st
  PROVE  /\ Done(n) <=> Done(file.st)
         /\ Early(n) => Early(file.st)
         /\ Early(file.st) => Early(n) \/ n.phase = "rollback"
         /\ file.st.status \in {"available", "checking", "no-update"} =>
              n.status \in {"available", "checking", "no-update"}
         /\ n.phase = "apply-preparation" => n.handoff = "requested"
<1>1. file.form = "v2"
  BY DEF Written
<1>2. Parsed(file) = file.st /\ Usable(file)
  BY <1>1 DEF Parsed, Usable, DowngradeUnbound, Sound, Valid, ValidPending
<1>3. PICK read, calm : /\ read = ResumeStagedFailure(file.st)
                        /\ calm = RecoverInterrupted(read)
                        /\ n = EnsureCheckpoint(calm)
  BY <1>2 DEF Loaded
<1>4. /\ Sound(read)
      /\ \/ read = file.st
         \/ file.st.status = "available" /\ read.status = "checking" /\ read.phase = "rollback"
  BY <1>3, ResumedShows
<1>5. /\ Sound(calm)
      /\ \/ calm = read /\ ~Interrupted(read)
         \/ /\ read.phase = "apply-preparation" /\ calm.phase = "rollback"
            /\ calm.status = read.status
  BY <1>3, <1>4, InterruptedShows
<1>6. /\ n.status = calm.status /\ n.phase = calm.phase /\ n.handoff = calm.handoff
      /\ \/ n.stage = calm.stage
         \/ n.phase = "restart-health-check" /\ n.stage = "health-pending" /\ calm.stage = "none"
         \/ n.phase \in {"rollback", "cleanup"}
  BY <1>3, <1>5, CheckpointShows
<1>7. n.phase = "apply-preparation" => n.handoff = "requested"
  BY <1>5, <1>6 DEF Interrupted
<1>8. /\ file.st.status = "checking" <=> file.st.phase # "none"
      /\ read.status = "checking" <=> read.phase # "none"
      /\ calm.status = "checking" <=> calm.phase # "none"
  BY <1>4, <1>5, SoundFacts
<1>. QED
  BY <1>4, <1>5, <1>6, <1>7, <1>8 DEF Done, Early

(* A start goes on where the file says. *)
LEMMA LoadWhole ==
  ASSUME UpdateInv, WholeInv, Load
  PROVE  WholeInv'
<1>. DEFINE n == Loaded(file, TRUE).st
<1>1. /\ UNCHANGED <<bundle, db, helper, migrates, past>>
      /\ pc = "load" /\ pc' = "handoff"
      /\ mem' = n /\ file' \in {file, Written(n)}
  BY DEF Load, At, Goto, live, migration
<1>2. Written(n).st = n
  BY DEF Written
<1>3. n.db = "yes" <=> file.st.db = "yes"
  <2>1. Kept(file.st, n)
    BY LoadedKept DEF UpdateInv, StoreInv
  <2>. QED
    BY <2>1 DEF Kept
<1>4. /\ Done(n) <=> Done(file.st)
      /\ Early(n) => Early(file.st)
      /\ Early(file.st) => Early(n) \/ n.phase = "rollback"
      /\ n.status \in {"available", "checking", "no-update"}
      /\ n.phase = "apply-preparation" => n.handoff = "requested"
  BY LoadedWhole DEF UpdateInv, StoreInv, WholeInv, RecordedInv
<1>. HIDE DEF n
<1>5. (Untouched' <=> Untouched) /\ (Clean' <=> Clean) /\ (Fits("new")' <=> Fits("new"))
  BY <1>1 DEF Untouched, Clean, Fits
<1>6. RecordedInv' /\ EarlyInv' /\ DoneInv' /\ SchemaInv'
  BY <1>1, <1>2, <1>3, <1>4, <1>5
    DEF WholeInv, RecordedInv, EarlyInv, DoneInv, SchemaInv
<1>7. PhaseInv' /\ CurrentInv' /\ RollbackInv' /\ FitInv'
  BY <1>1, <1>2, <1>4 DEF WholeInv, PhaseInv, CurrentInv, RollbackInv, FitInv
<1>. QED
  BY <1>6, <1>7 DEF WholeInv

(* A helper works while its start waits for it, or outlived it.            *)
LEMMA HelperAtWork ==
  ASSUME UpdateInv, WholeInv, helper # "none"
  PROVE  /\ mem.db # "yes" /\ file.st.db # "yes" /\ (Clean => pc = "migrating")
         /\ pc = "migrating" => ~Done(mem) /\ ~Done(file.st)
         /\ Clean /\ db.schema = "new" => helper = "in-place"
<1>1. /\ mem.db # "yes" /\ file.st.db # "yes" /\ (Clean => pc = "migrating")
  BY DEF UpdateInv, MigrationInv, SwitchKnown, Clean
<1>2. pc = "migrating" => ~Done(mem) /\ ~Done(file.st)
  BY DEF WholeInv, RecordedInv
<1>. QED
  BY <1>1, <1>2 DEF WholeInv, SchemaInv

(* The helper changes the database while its start waits for it. *)
LEMMA HelperWorksWhole ==
  ASSUME UpdateInv, WholeInv, BackUp \/ MigrateCopy \/ PutInPlace
  PROVE  WholeInv'
<1>1. /\ UNCHANGED <<mem, file, pc, bundle, migrates, past>> /\ helper # "none"
      /\ \/ db' = db /\ helper # "in-place"
         \/ helper' = "in-place"
  BY DEF BackUp, MigrateCopy, PutInPlace, store, live
<1>2. Clean' <=> Clean
  BY <1>1 DEF Clean
<1>3. Clean => /\ pc = "migrating" /\ ~Done(mem) /\ ~Done(file.st)
               /\ (db.schema = "new" => helper = "in-place")
  BY <1>1, HelperAtWork
<1>4. RecordedInv' /\ PhaseInv' /\ EarlyInv' /\ CurrentInv' /\ RollbackInv'
  BY <1>1 DEF WholeInv, RecordedInv, PhaseInv, EarlyInv, Untouched, CurrentInv, RollbackInv
<1>5. DoneInv' /\ SchemaInv' /\ FitInv'
  BY <1>1, <1>2, <1>3 DEF WholeInv, DoneInv, SchemaInv, FitInv
<1>. QED
  BY <1>4, <1>5 DEF WholeInv

(* The helper ends, and its start records how. *)
LEMMA HelperEndsWhole ==
  ASSUME UpdateInv, WholeInv, HelperEnds \/ HelperDone \/ HelperFails
  PROVE  WholeInv'
<1>1. /\ UNCHANGED <<bundle, db, migrates>> /\ helper # "none" /\ helper' = "none"
      /\ past \in Past /\ mem \in State
      /\ \/ past' = past
         \/ \E torn \in BOOLEAN : past' = [past EXCEPT !.torn = past.torn \/ torn]
  BY DEF HelperEnds, HelperDone, HelperFails, live, UpdateInv, ControlType, StoreInv, Sound, Past
<1>2. Clean' => Clean
  BY <1>1 DEF Clean, Past
<1>3. /\ Clean => pc = "migrating"
      /\ Clean /\ db.schema = "new" => helper = "in-place"
      /\ pc = "migrating" => ~Done(mem) /\ ~Done(file.st)
  BY <1>1, HelperAtWork
<1>4. CASE pc # "migrating"
  <2>1. UNCHANGED <<mem, file, pc>>
    BY <1>4 DEF HelperEnds, HelperDone, HelperFails, Reports, At, store
  <2>2. ~Clean /\ ~Clean'
    BY <1>2, <1>3, <1>4
  <2>. QED
    BY <1>1, <2>1, <2>2
      DEF WholeInv, RecordedInv, PhaseInv, EarlyInv, DoneInv, SchemaInv, CurrentInv, RollbackInv,
        FitInv, Untouched
<1>5. CASE pc = "migrating"
  <2>1. PICK nexts \in {RecordNoPending(mem), RecordSwitched(mem), RecordMigrationFailure(mem)} :
          /\ \/ Record(nexts, "recover", "off")
             \/ /\ pc' = "recover" /\ mem' \in nexts /\ file' = Written(mem')
                /\ nexts = RecordMigrationFailure(mem)
          /\ Clean' => (helper = "in-place" => nexts = RecordSwitched(mem) /\ pc' = "recover")
    <3>1. CASE HelperEnds
      BY <1>5, <3>1 DEF HelperEnds, Reports, At
    <3>2. CASE HelperDone
      BY <1>1, <1>5, <3>2 DEF HelperDone, Reports, At, Clean, Past
    <3>3. CASE HelperFails
      BY <1>1, <1>5, <3>3 DEF HelperFails, At, Goto, Clean, Past
    <3>. QED
      BY <3>1, <3>2, <3>3
  <2>2. \A n \in nexts :
          /\ n.status = mem.status /\ mem.phase = "apply-preparation" /\ mem.status = "checking"
          /\ n.phase \in {"restart-health-check", "rollback"}
          /\ nexts = RecordSwitched(mem) => n.db = "yes"
    BY <1>1, MigrationDoes, StoredFacts
  <2>3. \A n \in nexts : n.status = "checking" /\ Early(mem) /\ Untouched /\ ~Done(n)
    BY <2>2 DEF WholeInv, EarlyInv, Early, Done
  <2>4. \A n : Written(n).st = n
    BY DEF Written
  <2>5. Untouched' <=> Untouched
    BY <1>1 DEF Untouched
  <2>6. \/ pc' = "recover" /\ mem' \in nexts /\ file' = Written(mem')
        \/ pc' = "off" /\ mem' = mem /\ file' = file
        \/ pc' = "off" /\ mem' = mem /\ \E n \in nexts : file' = Written(n)
    BY <2>1, RecordCases
  <2>7. RecordedInv' /\ EarlyInv' /\ DoneInv'
    <3>1. CASE pc' = "recover" /\ mem' \in nexts /\ file' = Written(mem')
      BY <2>3, <2>4, <2>5, <3>1 DEF RecordedInv, EarlyInv, DoneInv
    <3>2. CASE pc' = "off" /\ mem' = mem /\ file' = file
      BY <1>3, <1>5, <2>5, <3>2 DEF WholeInv, RecordedInv, EarlyInv, DoneInv
    <3>3. CASE pc' = "off" /\ mem' = mem /\ \E n \in nexts : file' = Written(n)
      BY <1>3, <1>5, <2>3, <2>4, <2>5, <3>3 DEF WholeInv, RecordedInv, EarlyInv, DoneInv
    <3>. QED
      BY <2>6, <3>1, <3>2, <3>3
  <2>8. SchemaInv'
    BY <1>1, <1>2, <1>3, <2>1, <2>2, <2>4, <2>6 DEF SchemaInv
  <2>9. PhaseInv' /\ CurrentInv' /\ RollbackInv' /\ FitInv'
    BY <1>1, <1>5, <2>2, <2>6
      DEF WholeInv, PhaseInv, CurrentInv, RollbackInv, FitInv
  <2>. QED
    BY <2>7, <2>8, <2>9 DEF WholeInv
<1>. QED
  BY <1>4, <1>5

-----------------------------------------------------------------------------

LEMMA InitWhole == Init => WholeInv
<1>. SUFFICES ASSUME Init PROVE WholeInv
  OBVIOUS
<1>1. /\ mem.status = "available" /\ mem.phase = "none" /\ file.st = mem
      /\ bundle["current"] = "old" /\ bundle["rollback"] = "none" /\ bundle["failed"] = "none"
      /\ db.schema = "old" /\ pc = "session"
  BY PlacesNamed DEF Init, Verified, Initial, Written
<1>. QED
  BY <1>1
    DEF WholeInv, RecordedInv, PhaseInv, EarlyInv, DoneInv, SchemaInv, CurrentInv, RollbackInv,
      FitInv, Early, Done, Untouched

LEMMA StepWhole == UpdateInv /\ WholeInv /\ [Next]_uvars => WholeInv'
<1>. SUFFICES ASSUME UpdateInv, WholeInv, [Next]_uvars PROVE WholeInv'
  OBVIOUS
<1>1. CASE UNCHANGED uvars
  BY <1>1
    DEF uvars, WholeInv, RecordedInv, PhaseInv, EarlyInv, DoneInv, SchemaInv, CurrentInv,
      RollbackInv, FitInv, Untouched, Clean, Fits
<1>2. CASE Edit \/ Apply \/ HandOff \/ Quit \/ Crash
  BY <1>2, EditWhole, AskWhole, StillWhole, CrashWhole
<1>3. CASE Helping
  BY <1>3, HelperWorksWhole, HelperEndsWhole DEF Helping
<1>4. CASE Launch \/ Load \/ CheckHandoff \/ ClaimIt
  BY <1>4, StillWhole, LoadWhole, ClaimWhole
<1>5. CASE Recovery
  BY <1>5, StillWhole, MovingWhole, CleanupWhole, RestoringWhole, SwitchingWhole, FailedWhole,
    EndWhole DEF Recovery
<1>. QED
  BY <1>1, <1>2, <1>3, <1>4, <1>5 DEF Next, Start

(* What is recorded says where the bundles and the schema are, with any number *)
(* of failures, requests and edits.                                            *)
THEOREM WholeInductive == Spec => []WholeInv
  BY InitWhole, StepWhole, UpdateInductive, PTL DEF Spec

(* A start ends on the recovery page, where no note can be read, only after    *)
(* the helper switched the database and was stopped before that was recorded.  *)
THEOREM RecoveryPageIsKnown == Spec => []NeverLockedOut
<1>1. WholeInv => NeverLockedOut
  BY DEF WholeInv, FitInv, NeverLockedOut, At, Clean
<1>. QED
  BY <1>1, WholeInductive, PTL

(* A candidate that was rolled back is offered again beside the old program    *)
(* and its database, with nothing in the way of the next attempt.              *)
THEOREM RolledBackIsWhole == Spec => []RollbackIsWhole
<1>1. UpdateInv /\ WholeInv => RollbackIsWhole
  <2>. SUFFICES ASSUME UpdateInv, WholeInv, pc = "session", mem.status = "available"
                PROVE  /\ bundle["current"] = "old" /\ (db.schema = "old" \/ ~Clean)
                       /\ bundle["rollback"] = "none" /\ bundle["failed"] = "none"
    BY DEF RollbackIsWhole, At, Exists, Clean
  <2>1. Untouched /\ bundle["current"] \in {"old", "new"}
    BY DEF WholeInv, EarlyInv, Early, CurrentInv
  <2>2. Clean => db.schema # "new"
    BY StoredFacts DEF UpdateInv, MigrationInv, WholeInv, SchemaInv, Done, Clean
  <2>. QED
    BY <2>1, <2>2 DEF Untouched, UpdateInv, DiskType, Database
<1>. QED
  BY <1>1, WholeInductive, UpdateInductive, PTL
=============================================================================
