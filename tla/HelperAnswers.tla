--------------------------- MODULE HelperAnswers ---------------------------
(***************************************************************************)
(* What the shell believes of the helpers it runs (runtime.rs).  A helper  *)
(* is a run of the launcher with one command; its answer is a line of JSON *)
(* on its standard output, between whatever else it prints.  The shell     *)
(* takes the last line that parses as an answer of that command and checks *)
(* it against the protocol and against the request.                        *)
(***************************************************************************)
EXTENDS Naturals, Sequences, SequencesExt

CONSTANTS
  NoSnapshot,
  Snapshots    \* the recovery snapshots a helper may send

\* The commands of the launcher that the shell runs for a data command.
DataOps == {"export", "restore", "delete"}
Ops == DataOps \cup {"resume", "probe", "catalog", "status", "boot"}

-----------------------------------------------------------------------------
(* validate_database_recovery_snapshot.                                    *)

States == {"first-run", "restore-available", "diagnostic-required", "restore-unavailable"}

HasSource(s) == s.managed \/ s.pending

Coherent(s) ==
  /\ s.known /\ s.state \in States
  /\ s.empty = (s.state = "first-run")
  /\ s.state = "restore-available" => HasSource(s)
  /\ s.state = "restore-unavailable" => ~HasSource(s)

ASSUME SnapshotAssumption ==
  /\ \A s \in Snapshots : s.known \in BOOLEAN /\ s.managed \in BOOLEAN
                           /\ s.pending \in BOOLEAN /\ s.empty \in BOOLEAN
  /\ NoSnapshot \notin Snapshots

-----------------------------------------------------------------------------
(* The answers.  `known` stands for the kind and the version of the        *)
(* protocol, `about` for the operation or the operation id, `pending` for  *)
(* the pending restore's id, `detail` for the result, the list of backups, *)
(* the pending restore or the storage layout.                              *)

NoDetail == "none"

Noise == [known |-> FALSE, about |-> "noise", pending |-> "this", status |-> "none",
          phase |-> "other", ok |-> FALSE, error |-> FALSE, detail |-> NoDetail,
          snapshot |-> NoSnapshot]

\* Does a line parse as an answer at all?
Parses(a) == a # Noise

WorkPhases == {"request", "validation", "operation", "complete"}

\* parse_data_backup_operation_message.
\* mutant: the status is taken at its word
StatusAlone(op, a) ==
  /\ a.known /\ a.about = "this" /\ a.phase \in WorkPhases
  /\ a.status \in {"success", "cancelled", "error"}

ValidData(op, a) ==
  /\ a.known /\ a.about = "this" /\ a.phase \in WorkPhases
  /\ a.detail # NoDetail => op = "export" /\ a.detail = "good"
  /\ \/ a.status = "success" /\ a.ok /\ ~a.error /\ (op = "export" => a.detail # NoDetail)
     \/ a.status = "cancelled" /\ ~a.ok /\ ~a.error /\ a.detail = NoDetail
     \/ a.status = "error" /\ ~a.ok /\ a.error /\ a.detail = NoDetail

\* parse_pending_restore_resume_message.
ValidResume(a) ==
  /\ a.known /\ a.about = "this" /\ a.pending = "this" /\ a.phase \in WorkPhases
  /\ a.detail # NoDetail => a.detail \in {"good", "unsaved"}
  /\ \/ a.status = "success" /\ a.ok /\ ~a.error /\ a.detail # NoDetail /\ a.phase = "complete"
     \/ a.status = "error" /\ ~a.ok /\ a.error /\ a.detail = NoDetail

\* parse_backup_recovery_message.
ValidProbe(a) ==
  /\ a.known /\ a.phase = "preflight"
  /\ \/ a.status = "ready" /\ ~a.error /\ a.snapshot = NoSnapshot
     \/ a.status = "recovery-required" /\ ~a.error /\ a.snapshot # NoSnapshot
     \/ a.status = "not-recovered" /\ a.error /\ a.snapshot = NoSnapshot
  /\ a.snapshot # NoSnapshot => Coherent(a.snapshot)

\* parse_managed_backup_catalog_message: a list is only taken with safe names,
\* each once, newest first.
ValidCatalog(a) ==
  /\ a.known /\ a.phase = "catalog"
  /\ \/ a.status = "ready" /\ ~a.error /\ a.detail = "good"
     \/ a.status = "empty" /\ ~a.error /\ a.detail = NoDetail
     \/ a.status = "error" /\ a.error /\ a.detail = NoDetail

\* parse_pending_restore_status_message.
ValidStatus(a) ==
  /\ a.known /\ a.phase = "status" /\ a.about = "none"
  /\ \/ a.status = "none" /\ ~a.error /\ a.detail = NoDetail
     \/ a.status = "available" /\ ~a.error /\ a.detail = "good"
     \/ a.status = "invalid" /\ a.error /\ a.detail = NoDetail

\* run_bootstrap_with_storage and storage_layout_from_message.
ValidBoot(a) ==
  /\ a.known
  /\ \/ a.status = "recovery" /\ a.detail = NoDetail /\ a.snapshot # NoSnapshot
     \/ a.status = "ready" /\ a.detail = "good"
  /\ a.snapshot # NoSnapshot => Coherent(a.snapshot)

Valid(op, a) ==
  CASE op \in DataOps -> ValidData(op, a)
    [] op = "resume"  -> ValidResume(a)
    [] op = "probe"   -> ValidProbe(a)
    [] op = "catalog" -> ValidCatalog(a)
    [] op = "status"  -> ValidStatus(a)
    [] op = "boot"    -> ValidBoot(a)

\* The operations whose exit status counts beside the answer.
\* run_data_backup_operation_with_restore_mode and the resume and status commands
\* read the answer alone.
ReadsExit(op) == op \in {"probe", "catalog", "boot"}

-----------------------------------------------------------------------------
(* From the output to the reply.                                           *)

\* What the shell goes by: the status, whether the request itself was refused,
\* whether a resumed restore names a safety backup, and the snapshot.
Failed(phase) ==
  [status |-> "error", refused |-> phase = "validation", saved |-> TRUE,
   snapshot |-> NoSnapshot]

Reply(a) ==
  [status |-> a.status, refused |-> a.phase = "validation", saved |-> a.detail # "unsaved",
   snapshot |-> a.snapshot]

Replies(statuses) ==
  [status : statuses, refused : BOOLEAN, saved : BOOLEAN, snapshot : Snapshots \cup {NoSnapshot}]

\* The last line that parses is the answer.  Anything that is not one is an error
\* of the operation ("protocol-error", "sidecar-unavailable").
ReplyOf(op, output) ==
  LET parsing == {i \in DOMAIN output.lines : Parses(output.lines[i])}
      answer == output.lines[Max(parsing)]
  IN  IF parsing # {} /\ Valid(op, answer) /\ (ReadsExit(op) => output.exitOk)
      THEN Reply(answer)
      ELSE Failed("operation")

-----------------------------------------------------------------------------
(* What a helper may print (sidecar/launcher.cjs, as far as this shell may  *)
(* know): the honest answer, or one that differs from it in a field.        *)

Honest(op, phase, status, ok, error, detail, snapshot) ==
  [known |-> TRUE, about |-> IF op = "status" THEN "none" ELSE "this", pending |-> "this",
   status |-> status, phase |-> phase, ok |-> ok, error |-> error, detail |-> detail,
   snapshot |-> snapshot]

HonestAnswers ==
  [op \in Ops |->
    CASE op \in DataOps ->
           {Honest(op, "complete", "success", TRUE, FALSE,
                   IF op = "export" THEN "good" ELSE NoDetail, NoSnapshot),
            Honest(op, "operation", "cancelled", FALSE, FALSE, NoDetail, NoSnapshot)}
             \cup {Honest(op, phase, "error", FALSE, TRUE, NoDetail, NoSnapshot) :
                     phase \in {"validation", "operation"}}
      [] op = "resume" ->
           {Honest(op, "complete", "success", TRUE, FALSE, detail, NoSnapshot) :
              detail \in {"good", "unsaved"}}
             \cup {Honest(op, "operation", "error", FALSE, TRUE, NoDetail, NoSnapshot)}
      [] op = "probe" ->
           {Honest(op, "preflight", "ready", TRUE, FALSE, NoDetail, NoSnapshot),
            Honest(op, "preflight", "not-recovered", FALSE, TRUE, NoDetail, NoSnapshot)}
             \cup {Honest(op, "preflight", "recovery-required", FALSE, FALSE, NoDetail, s) :
                     s \in {x \in Snapshots : Coherent(x)}}
      [] op = "catalog" ->
           {Honest(op, "catalog", "ready", TRUE, FALSE, "good", NoSnapshot),
            Honest(op, "catalog", "empty", TRUE, FALSE, NoDetail, NoSnapshot),
            Honest(op, "catalog", "error", FALSE, TRUE, NoDetail, NoSnapshot)}
      [] op = "status" ->
           {Honest(op, "status", "none", TRUE, FALSE, NoDetail, NoSnapshot),
            Honest(op, "status", "available", TRUE, FALSE, "good", NoSnapshot),
            Honest(op, "status", "invalid", FALSE, TRUE, NoDetail, NoSnapshot)}
      [] op = "boot" ->
           {Honest(op, "none", "ready", TRUE, FALSE, "good", NoSnapshot),
            Honest(op, "none", "failed", FALSE, TRUE, NoDetail, NoSnapshot)}
             \cup {Honest(op, "none", "recovery", FALSE, FALSE, NoDetail, s) :
                     s \in {x \in Snapshots : Coherent(x)}}]

Statuses(op) == {a.status : a \in HonestAnswers[op]}

\* One field wrong: another protocol or version, another operation or request,
\* a status that contradicts the rest, a result or snapshot that is missing or
\* not usable.  Only the fields the message of the operation has.
Fields(op) ==
  {"known", "status"}
    \cup (IF op \in DataOps \cup {"resume"} THEN {"ok"} ELSE {})
    \cup (IF op \in DataOps \cup {"resume", "status"} THEN {"about"} ELSE {})
    \cup (IF op = "resume" THEN {"pending"} ELSE {})
    \cup (IF op # "boot" THEN {"phase", "error"} ELSE {})
    \cup (IF op # "probe" THEN {"detail"} ELSE {})
    \cup (IF op \in {"probe", "boot"} THEN {"snapshot"} ELSE {})

WrongValues(op, a) ==
  [known |-> {FALSE}, about |-> {"other"}, pending |-> {"other"}, phase |-> {"other"},
   ok |-> {~a.ok}, error |-> {~a.error}, status |-> Statuses(op) \cup {"other"},
   detail |-> {NoDetail, "bad"}, snapshot |-> {s \in Snapshots : ~Coherent(s)} \cup {NoSnapshot}]

Skewed ==
  [op \in Ops |->
     UNION {{[a EXCEPT ![f] = v] : v \in WrongValues(op, a)[f] \ {a[f]}} :
              a \in HonestAnswers[op], f \in Fields(op)}
       \ HonestAnswers[op]]

\* The outputs of a helper whose honest answer is a.
Outputs ==
  [op \in Ops |-> [a \in HonestAnswers[op] |->
     [lines : {<<>>, <<Noise>>} \cup {<<Noise, b>> : b \in {a} \cup Skewed[op]}
                \cup {<<b, a, Noise>> : b \in Skewed[op]},
      exitOk : BOOLEAN]]]
=============================================================================
