----------------------------- MODULE Bootstrap ------------------------------
(* bootstrapDesktopStorage: the helper every start of the application runs   *)
(* before the sidecar.  It inspects marker and database (two reads), creates *)
(* the first database by an exclusive open followed by a Prisma migration,   *)
(* and leaves the initialization marker.  Two helpers can overlap: killing   *)
(* the application does not kill its helper.                                 *)
EXTENDS StorageFiles

VARIABLES
  phase,    \* where each start is in bootstrapDesktopStorage
  purpose,  \* which of its four inspections it is in
  seen,     \* what the inspection read of the marker
  faulted   \* history: starts that crashed or met a failure

starts == <<phase, purpose, seen, faulted>>
bvars == <<home, staged, phase, purpose, seen, faulted>>

Running == {"marker", "database", "claim", "migrate", "migrating", "failed",
            "unlink", "finalize", "create", "fill"}
Ended == {"ready", "recovery", "dead"}
Purposes == {"first", "raced", "failed", "created"}

BootType ==
  /\ phase \in [Starts -> {"idle"} \union Running \union Ended]
  /\ purpose \in [Starts -> Purposes]
  /\ seen \in [Starts -> {"absent", "empty", "partial", "complete"}]
  /\ faulted \in SUBSET Starts

TypeOK == FilesType /\ BootType

BootInit ==
  /\ phase = [s \in Starts |-> "idle"]
  /\ purpose = [s \in Starts |-> "first"]
  /\ seen = [s \in Starts |-> "absent"]
  /\ faulted = {}

Goto(s, from, to) == phase[s] = from /\ phase' = [phase EXCEPT ![s] = to]

Begin(s) ==
  /\ Goto(s, "idle", "marker")
  /\ UNCHANGED <<home, staged, purpose, seen, faulted>>

\* inspectDesktopDatabase reads the marker, then the database.
ReadMarker(s) ==
  /\ phase[s] = "marker"
  /\ seen' = [seen EXCEPT ![s] = home[Marker].is]
  /\ phase' = [phase EXCEPT ![s] = "database"]
  /\ UNCHANGED <<home, staged, purpose, faulted>>

\* The status inspectDesktopDatabase returns.  An unfinished migration is
\* migration-required, an empty file unusable; every caller treats both alike.
StatusUnmarked(s) == \* mutant: the marker is not consulted
  IF ~Exists(home[Db]) THEN "initialization-required"
  ELSE IF home[Db].is = "complete" THEN "ready" ELSE "unusable"
Status(s) ==
  IF seen[s] \in {"empty", "partial"} THEN "unusable"
  ELSE IF ~Exists(home[Db])
       THEN IF seen[s] = "complete" THEN "missing" ELSE "initialization-required"
       ELSE IF home[Db].is = "complete" THEN "ready" ELSE "unusable"

\* What bootstrapDesktopStorage does with it.  After a failed migration a ready
\* database is reported as it is, without the marker.
VerdictGivesUp(s) == \* mutant: a raced or created database is not accepted
  IF Status(s) = "ready" /\ purpose[s] = "first" THEN "finalize"
  ELSE IF Status(s) = "initialization-required" /\ purpose[s] = "first" THEN "claim"
  ELSE "recovery"
Verdict(s) ==
  IF Status(s) = "ready" THEN (IF purpose[s] = "failed" THEN "ready" ELSE "finalize")
  ELSE IF Status(s) = "initialization-required" /\ purpose[s] = "first" THEN "claim"
  ELSE "recovery"

ReadDatabase(s) ==
  /\ phase[s] = "database"
  /\ phase' = [phase EXCEPT ![s] = Verdict(s)]
  /\ UNCHANGED <<home, staged, purpose, seen, faulted>>

\* claimNewDatabaseFile: open "wx".  Losing the race means inspecting again.
Claim(s) ==
  /\ phase[s] = "claim"
  /\ UNCHANGED <<staged, seen, faulted>>
  /\ \/ /\ ~Exists(home[Db])
        /\ home' = [home EXCEPT ![Db] = Made(s, "empty")]
        /\ phase' = [phase EXCEPT ![s] = "migrate"]
        /\ UNCHANGED purpose
     \/ /\ Exists(home[Db])
        /\ phase' = [phase EXCEPT ![s] = "marker"]
        /\ purpose' = [purpose EXCEPT ![s] = "raced"]
        /\ UNCHANGED home

\* The open fails for another reason.
ClaimFails(s) ==
  /\ Goto(s, "claim", "recovery")
  /\ faulted' = faulted \union {s}
  /\ UNCHANGED <<home, staged, purpose, seen>>

\* applyInitialMigrations: only into the claimed, still empty file.
Migrate(s) ==
  /\ phase[s] = "migrate"
  /\ UNCHANGED <<purpose, seen, faulted>>
  /\ \/ /\ home[Db] = Made(s, "empty")
        /\ WriteThrough(Db, s, "partial")
        /\ phase' = [phase EXCEPT ![s] = "migrating"]
     \/ /\ home[Db] # Made(s, "empty")
        /\ phase' = [phase EXCEPT ![s] = "failed"]
        /\ UNCHANGED files

Migrated(s) ==
  /\ phase[s] = "migrating"
  /\ WriteThrough(Db, s, "complete")
  /\ phase' = [phase EXCEPT ![s] = "marker"]
  /\ purpose' = [purpose EXCEPT ![s] = "created"]
  /\ UNCHANGED <<seen, faulted>>

\* Prisma does not start, stops on the way, or ends with an error after the work.
MigrationFails(s) ==
  /\ \/ phase[s] = "migrate" /\ UNCHANGED files
     \/ phase[s] = "migrating" /\ (UNCHANGED files \/ WriteThrough(Db, s, "complete"))
  /\ phase' = [phase EXCEPT ![s] = "failed"]
  /\ faulted' = faulted \union {s}
  /\ UNCHANGED <<purpose, seen>>

LookAtClaimAny(s) == \* mutant: the claimed file is removed whatever became of it
  /\ Goto(s, "failed", "unlink")
  /\ purpose' = [purpose EXCEPT ![s] = "failed"]
  /\ UNCHANGED <<home, staged, seen, faulted>>
\* cleanupClaimedDatabaseFile looks whether the claimed file is there and empty ...
LookAtClaim(s) ==
  /\ phase[s] = "failed"
  /\ \E to \in {"unlink", "marker"} :
       /\ to = "unlink" => home[Db] = Made(s, "empty")
       /\ phase' = [phase EXCEPT ![s] = to]
  /\ purpose' = [purpose EXCEPT ![s] = "failed"]
  /\ UNCHANGED <<home, staged, seen, faulted>>

\* ... and unlinks what is at the path then, if it can; the database is inspected
\* once more.
Cleanup(s) ==
  /\ Goto(s, "unlink", "marker")
  /\ home' = [home EXCEPT ![Db] = Absent] \/ UNCHANGED home
  /\ UNCHANGED <<staged, purpose, seen, faulted>>

\* ensureDatabaseInitializationMarker looks, then writeDatabaseInitializationMarker
\* opens "wx"; on EEXIST it reads what is there.
MarkerFound(s) ==
  /\ phase[s] \in {"finalize", "create"}
  /\ Exists(home[Marker])
  /\ phase' = [phase EXCEPT ![s] = IF home[Marker].is = "complete" THEN "ready" ELSE "recovery"]
  /\ UNCHANGED <<home, staged, purpose, seen, faulted>>

MarkerMissing(s) ==
  /\ Goto(s, "finalize", "create")
  /\ ~Exists(home[Marker])
  /\ UNCHANGED <<home, staged, purpose, seen, faulted>>

CreateMarker(s) ==
  /\ Goto(s, "create", "fill")
  /\ ~Exists(home[Marker])
  /\ home' = [home EXCEPT ![Marker] = Made(s, "empty")]
  /\ UNCHANGED <<staged, purpose, seen, faulted>>

FillMarker(s) ==
  /\ Goto(s, "fill", "ready")
  /\ WriteThrough(Marker, s, "complete")
  /\ UNCHANGED <<purpose, seen, faulted>>

\* Creating or writing the marker fails; a file that was created stays.
MarkerFails(s) ==
  /\ phase[s] \in {"create", "fill"}
  /\ phase' = [phase EXCEPT ![s] = "recovery"]
  /\ faulted' = faulted \union {s}
  /\ UNCHANGED <<home, staged, purpose, seen>>

Die(s) ==
  /\ phase[s] \in Running
  /\ phase' = [phase EXCEPT ![s] = "dead"]
  /\ faulted' = faulted \union {s}
  /\ UNCHANGED <<home, staged, purpose, seen>>

Work(s) ==
  \/ ReadMarker(s) \/ ReadDatabase(s) \/ Claim(s) \/ ClaimFails(s)
  \/ Migrate(s) \/ Migrated(s) \/ MigrationFails(s) \/ LookAtClaim(s) \/ Cleanup(s)
  \/ MarkerFound(s) \/ MarkerMissing(s) \/ CreateMarker(s) \/ FillMarker(s)
  \/ MarkerFails(s) \/ Die(s)

----------------------------------------------------------------------------
(* The bootstrap by itself: any number of starts that overlap as they like. *)

\* First use, an installation in use, one whose marker was never written, one
\* that lost its database, and one that lost its marker's contents.
Installations ==
  {[f \in Files |-> Absent],
   [f \in Files |-> UserFile],
   [f \in Files |-> IF f = Marker THEN Absent ELSE UserFile],
   [f \in Files |-> IF f = Db THEN Absent ELSE UserFile],
   [f \in Files |-> IF f = Marker THEN [by |-> User, is |-> "empty"] ELSE UserFile]}

Init ==
  /\ home \in Installations
  /\ staged = [f \in Files |-> Absent]
  /\ BootInit

Next == \E s \in Starts : Begin(s) \/ Work(s)

Spec == Init /\ [][Next]_bvars

(* A start never changes or removes a database that is complete, whoever made
   it, nor any file of the user (exclusive open, identity check, cleanup of
   the empty claimed file only). *)
CompleteStays ==
  [][/\ home[Db].is = "complete" => home'[Db] = home[Db]
     /\ \A f \in Files : home[f] = UserFile => home'[f] = UserFile]_bvars

(* While a start migrates, the file it writes is the one it claimed: no two
   starts ever initialize one database. *)
ClaimIsExclusive ==
  \A s \in Starts : phase[s] \in {"migrate", "migrating"} => home[Db].by = s

(* With a record of earlier use (the marker, even a broken one) and no database
   no start creates an empty one (PRODUCT_SPEC.md:150). *)
NoEmptyAfterUse ==
  [][Exists(home[Marker]) /\ ~Exists(home[Db]) => ~Exists(home'[Db])]_bvars

(* On first use, or over a complete database with a sound marker or none, starts
   that overlap without any failure do not talk each other into recovery: when
   all have ended, one of them is ready. *)
SomeoneIsReady ==
  (/\ faulted = {}
   /\ \A s \in Starts : phase[s] \in Ended
   /\ ~\E f \in {Db, Marker} : home[f].by = User /\ home[f].is = "empty"
   /\ ~(home[Db] = Absent /\ home[Marker] = UserFile))
  => \E s \in Starts : phase[s] = "ready"

=============================================================================
