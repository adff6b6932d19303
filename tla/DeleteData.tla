----------------------------- MODULE DeleteData -----------------------------
(* deleteDesktopData: the helper of the complete deletion.  It plans the     *)
(* files to delete, renames each one into a staging directory, and only when *)
(* all are there unlinks them.  A failure before the first unlink renames    *)
(* everything back in reverse order.  Any file operation may fail and the    *)
(* helper may be killed before any of them.  Before each rename it looks at  *)
(* what it is about to move, and a start may come between.  The journal in   *)
(* the staging directory is written and never read.                          *)
EXTENDS StorageFiles

CONSTANT MaxDeletes     \* bound on deletion requests

ASSUME BoundsAssumption == MaxDeletes \in Nat

VARIABLES
  pc,         \* where the helper is
  plan,       \* collectDeletePlan: every file as lstat saw it
  moved,      \* records: files renamed into staging and not renamed back
  unlinked,   \* files unlinked, deletedFileCount
  staging,    \* a .desktop-delete-* directory exists
  code,       \* the error being handled
  result,     \* the answer to the last request
  requests,   \* counts the requests
  replaced    \* history: a rename back has replaced a file

dvars == <<pc, plan, moved, unlinked, staging, code, result, requests, replaced>>

\* The error codes that deleteOperationPhase calls "validation" are "refused".
Errors == {"refused", "source-changed", "delete-failed", "staging-failed"}
Results == Errors \union {"none", "deleted", "staging-conflict", "rollback-failed",
                          "cleanup-required", "partial", "killed"}
Steps == {"idle", "create", "journal", "moving", "take", "rollback", "return", "unstage",
          "unlinking", "finish"}

DeleteType ==
  /\ pc \in Steps
  /\ plan \in [Files -> File]
  /\ moved \in SUBSET Files
  /\ unlinked \in SUBSET Files
  /\ staging \in BOOLEAN
  /\ code \in Errors
  /\ result \in Results
  /\ requests \in 0 .. MaxDeletes
  /\ replaced \in BOOLEAN

DeleteInit ==
  /\ pc = "idle"
  /\ plan = [f \in Files |-> Absent]
  /\ moved = {} /\ unlinked = {}
  /\ staging = FALSE
  /\ code = "refused"
  /\ result = "none"
  /\ requests = 0
  /\ replaced = FALSE

Planned == {f \in Files : Exists(plan[f])}
First(S) == {f \in S : \A g \in S : f <= g}
Final(S) == {f \in S : \A g \in S : g <= f}

Answer(r) == pc' = "idle" /\ result' = r
Continue(to) == pc' = to /\ UNCHANGED result

\* collectDeletePlan and the two ways deleteDesktopData ends without staging.
Plan ==
  /\ pc = "idle" /\ requests < MaxDeletes
  /\ requests' = requests + 1
  /\ plan' = home
  /\ moved' = {} /\ unlinked' = {}
  /\ \/ staging /\ Answer("staging-conflict")
     \/ Answer("refused")
     \/ ~staging /\ (\A f \in Files : ~Exists(home[f])) /\ Answer("deleted")
     \/ ~staging /\ (\E f \in Files : Exists(home[f])) /\ Continue("create")
  /\ UNCHANGED <<home, staged, staging, code, replaced>>

\* createDeleteStaging: the directory and one category per group, or neither,
\* unless the removal of what was made fails too.
CreateStaging ==
  /\ pc = "create"
  /\ \/ staging' = TRUE /\ Continue("journal")
     \/ staging' = FALSE /\ Answer("staging-failed")
     \/ staging' = TRUE /\ Answer("cleanup-required")
  /\ UNCHANGED <<home, staged, plan, moved, unlinked, code, requests, replaced>>

\* removeDeleteStaging refuses while anything is staged.
EmptyStaging == \A f \in Files : ~Exists(staged[f])
RemoveStaging == EmptyStaging /\ staging' = FALSE
KeepStaging == UNCHANGED staging

WriteJournal ==
  /\ pc = "journal"
  /\ \/ Continue("moving") /\ KeepStaging
     \/ RemoveStaging /\ Answer("staging-failed")
     \/ KeepStaging /\ Answer("cleanup-required")
  /\ UNCHANGED <<home, staged, plan, moved, unlinked, code, requests, replaced>>

\* With a record there is something to rename back, without only to clean up.
Undo(records, error) ==
  /\ code' = error
  /\ Continue(IF records = {} THEN "unstage" ELSE "rollback")

\* deleteDesktopDatabaseFiles, first loop: the file is the one of the plan ...
LookBefore(f) ==
  /\ pc = "moving" /\ f \in First(Planned \ moved)
  /\ home[f] = plan[f]
  /\ Continue("take")
  /\ UNCHANGED <<home, staged, plan, moved, unlinked, staging, code, requests, replaced>>

\* ... then it is renamed, recorded, compared once more and synced.
Move(f) ==
  /\ pc = "take" /\ f \in First(Planned \ moved) /\ Exists(home[f])
  /\ home' = [home EXCEPT ![f] = Absent]
  /\ staged' = [staged EXCEPT ![f] = home[f]]
  /\ moved' = moved \union {f}
  /\ \/ home[f] = plan[f] /\ Continue("moving") /\ UNCHANGED code
     \/ Undo(moved', IF home[f] = plan[f] THEN "staging-failed" ELSE "source-changed")
  /\ UNCHANGED <<plan, unlinked, staging, requests, replaced>>

MoveFails(f) ==
  /\ pc \in {"moving", "take"} /\ f \in First(Planned \ moved)
  /\ IF pc = "take" \/ home[f] = plan[f] THEN Undo(moved, "delete-failed")
     ELSE Undo(moved, IF Exists(home[f]) THEN "source-changed" ELSE "refused")
  /\ UNCHANGED <<home, staged, plan, moved, unlinked, staging, requests, replaced>>

AllMovedEarly == \* mutant: staged files are unlinked as they come
  /\ pc = "moving" /\ moved # {}
  /\ Continue("unlinking")
  /\ UNCHANGED <<home, staged, plan, moved, unlinked, staging, code, requests, replaced>>
AllMoved ==
  /\ pc = "moving" /\ Planned \subseteq moved
  /\ Continue("unlinking")
  /\ UNCHANGED <<home, staged, plan, moved, unlinked, staging, code, requests, replaced>>

\* rollbackDeleteRecords: last record first.  It looks that the staged file is the
\* one it moved and that its place is free ...
LatestForwards == First(moved) \* mutant
Latest == Final(moved)

LookBack(f) ==
  /\ pc = "rollback" /\ f \in Latest
  /\ staged[f] = plan[f] /\ ~Exists(home[f])
  /\ Continue("return")
  /\ UNCHANGED <<home, staged, plan, moved, unlinked, staging, code, requests, replaced>>

\* ... and renames it, over whatever is in its place by then.
Rollback(f) ==
  /\ pc = "return" /\ f \in Latest
  /\ home' = [home EXCEPT ![f] = staged[f]]
  /\ staged' = [staged EXCEPT ![f] = Absent]
  /\ moved' = moved \ {f}
  /\ replaced' = (replaced \/ Exists(home[f]))
  /\ (staged[f] = plan[f] /\ Continue("rollback")) \/ Answer("rollback-failed")
  /\ UNCHANGED <<plan, unlinked, staging, code, requests>>

RollbackFails ==
  /\ pc \in {"rollback", "return"} /\ moved # {}
  /\ Answer("rollback-failed")
  /\ UNCHANGED <<home, staged, plan, moved, unlinked, staging, code, requests, replaced>>

\* After the rollback (or without a record) the staging directory goes, and the
\* error that started it is the answer.
Undone ==
  /\ pc = "unstage" \/ (pc = "rollback" /\ moved = {})
  /\ \/ RemoveStaging /\ Answer(code)
     \/ KeepStaging /\ pc = "unstage" /\ Answer("cleanup-required")
     \/ (RemoveStaging \/ KeepStaging) /\ pc = "rollback" /\ Answer("rollback-failed")
  /\ UNCHANGED <<home, staged, plan, moved, unlinked, code, requests, replaced>>

\* Second loop.  Nothing unlinked yet: roll back; otherwise a partial deletion.
\* (A start that writes between the look and the unlink writes to the same file.)
UnlinkErrorPlain(gone, error) == \* mutant
  IF gone = {} THEN Undo(moved, error) ELSE Answer(error) /\ UNCHANGED code
UnlinkError(gone, error) ==
  IF gone = {} THEN Undo(moved, error)
  ELSE Answer("partial") /\ UNCHANGED code

Unlink(f) ==
  /\ pc = "unlinking" /\ f \in First(moved \ unlinked)
  /\ staged[f] = plan[f]
  /\ staged' = [staged EXCEPT ![f] = Absent]
  /\ unlinked' = unlinked \union {f}
  /\ \/ Continue("unlinking") /\ UNCHANGED code
     \/ UnlinkError(unlinked', "staging-failed")
  /\ UNCHANGED <<home, plan, moved, staging, requests, replaced>>

UnlinkFails(f) ==
  /\ pc = "unlinking" /\ f \in First(moved \ unlinked)
  /\ UnlinkError(unlinked, IF staged[f] = plan[f] THEN "delete-failed" ELSE "source-changed")
  /\ UNCHANGED <<home, staged, plan, moved, unlinked, staging, requests, replaced>>

AllUnlinked ==
  /\ pc = "unlinking" /\ moved = unlinked
  /\ Continue("finish")
  /\ UNCHANGED <<home, staged, plan, moved, unlinked, staging, code, requests, replaced>>

\* Everything is deleted; removing the directory or the last sync may still fail.
Finish ==
  /\ pc = "finish"
  /\ \/ RemoveStaging /\ Answer("deleted")
     \/ RemoveStaging /\ Answer("staging-failed")
     \/ KeepStaging /\ Answer("cleanup-required")
  /\ UNCHANGED <<home, staged, plan, moved, unlinked, code, requests, replaced>>

\* The helper is killed or the machine stops.
Kill ==
  /\ pc # "idle"
  /\ Answer("killed")
  /\ UNCHANGED <<home, staged, plan, moved, unlinked, staging, code, requests, replaced>>

HelperStep ==
  \/ CreateStaging \/ WriteJournal \/ AllMoved \/ RollbackFails \/ Undone
  \/ AllUnlinked \/ Finish \/ Kill
  \/ \E f \in Files : \/ LookBefore(f) \/ Move(f) \/ MoveFails(f)
                      \/ LookBack(f) \/ Rollback(f)
                      \/ Unlink(f) \/ UnlinkFails(f)
=============================================================================
