---------------------------- MODULE DataStorage -----------------------------
(* Starts and complete deletions over the same files.  A deletion is asked   *)
(* for in an application that has started; a start follows a deletion that   *)
(* has ended, or, with Orphans, overlaps the helper an application that was  *)
(* killed has left behind (and the other way round).                         *)
EXTENDS Bootstrap, DeleteData

CONSTANT Orphans        \* whether helpers outlive their application

VARIABLE owned          \* history: the user's files at the beginning

vars == <<files, starts, dvars, owned>>

DataType == TypeOK /\ DeleteType /\ owned \in SUBSET Files

DataInit == Init /\ DeleteInit /\ owned = {f \in Files : home[f] = UserFile}

\* Only the settings of an application that started offer the deletion.
Started == \E s \in Starts : phase[s] = "ready"
Quiet == \A s \in Starts : phase[s] \notin Running

Request == Started /\ (Orphans \/ Quiet) /\ Plan /\ UNCHANGED <<starts, owned>>

Helper == HelperStep /\ UNCHANGED <<starts, owned>>

Start(s) == (Orphans \/ (pc = "idle" /\ Quiet)) /\ Begin(s) /\ UNCHANGED <<dvars, owned>>

StartStep(s) == Work(s) /\ UNCHANGED <<dvars, owned>>

DataNext == Request \/ Helper \/ \E s \in Starts : Start(s) \/ StartStep(s)

DataSpec == DataInit /\ [][DataNext]_vars

----------------------------------------------------------------------------
(* The user's data directory is never half deleted: as long as one of the
   user's files has really gone, none of them is left at its place.  Whatever
   fails, whenever the helper is killed, whatever a start creates meanwhile;
   but for a start that creates a file between the rollback's look at its place
   and its rename, whose clean-up can then unlink the user's database. *)
NeverHalfDeleted ==
  ~replaced /\ (\E f \in owned : home[f] # UserFile /\ staged[f] # UserFile)
  => \A f \in owned : home[f] # UserFile

(* The initialization marker is the last of the user's files to leave and the
   first to return: while a file before it is in place, the marker is too, so
   an interrupted deletion is a start with a missing database (recovery), not a
   first use beside old backups. *)
MarkerGoesLast ==
  Marker \in owned /\ home[Marker] # UserFile
  => \A f \in owned : f < Marker => home[f] # UserFile

(* What a finished deletion answers is what it did: "deleted" with every planned
   file unlinked and no staging directory; an error that is not about the clean-up
   with everything renamed back.  ("staging-failed" is both: see README.) *)
AnswerIsTrue ==
  pc = "idle" =>
    /\ result = "deleted" => moved = Planned /\ unlinked = Planned /\ ~staging
    /\ result \in {"refused", "source-changed", "delete-failed"} => moved = {} /\ unlinked = {}
    /\ result = "partial" => moved = Planned /\ unlinked # {} /\ staging

(* desktop-storage.js:3646: a rollback whose target is occupied fails.  It is
   checked in a system call before the rename. *)
NothingReplaced == ~replaced

(* PRODUCT_SPEC.md:150: with a record of earlier use no empty database is
   created; here, while the user's database is still in the staging directory. *)
NoEmptyBesideStaged ==
  ~(staged[Db] = UserFile /\ \E s \in Starts : phase[s] = "ready" /\ home[Db].by = s)

=============================================================================
