------------------------- MODULE DataStorage_proofs -------------------------
(* Overlapping starts, any number of them: one database is initialized by    *)
(* one start, a complete one is never touched, and a record of earlier use   *)
(* is never answered with an empty database.  The complete deletion beside   *)
(* them: the user's files are never half deleted, and the initialization     *)
(* marker leaves last and returns first.                                     *)
EXTENDS DataStorage, TLAPS

-----------------------------------------------------------------------------
(* Starts alone.                                                             *)

\* An existing marker and a database a start made: the database is complete,
\* because the marker is the last thing a start writes.
MarkerIsLast ==
  Exists(home[Marker]) /\ home[Db].by # User => home[Db].is = "complete"

\* A start that goes on to the marker has seen a complete database.
FinalizesComplete ==
  \A s \in Starts : phase[s] \in {"finalize", "create", "fill"} => home[Db].is = "complete"

\* A start that has read "no marker" will not create a database beside one.
NoMarkerStillTrue ==
  \A s \in Starts :
    \/ phase[s] = "database" /\ seen[s] = "absent"
    \/ phase[s] = "claim"
    => ~Exists(home[Marker]) \/ Exists(home[Db])

\* What a migrating start claimed is there and its own.
OwnsClaim ==
  \A s \in Starts : phase[s] \in {"migrate", "migrating"} =>
     home[Db].by = s /\ Exists(home[Db])

\* A start about to unlink its claimed file still finds it at its place.
UnlinksClaim == \A s \in Starts : phase[s] = "unlink" => home[Db] = Made(s, "empty")

\* Nothing is absent that somebody owns.
AbsentIsPlain == \A f \in Files : ~Exists(home[f]) => home[f] = Absent

BootInv == /\ TypeOK /\ AbsentIsPlain
           /\ OwnsClaim /\ MarkerIsLast /\ FinalizesComplete /\ NoMarkerStillTrue
           /\ UnlinksClaim

USE FilesAssumption

-----------------------------------------------------------------------------
(* The two files are different, and both are among the files. *)
LEMMA FileFacts == Db \in Files /\ Marker \in Files /\ Db # Marker
  BY SMT DEF Files, Db

(* Every start's files are told apart from the user's. *)
LEMMA MakerFacts == \A s \in Starts : s # User /\ s \in Makers /\ User \in Makers
  BY DEF Makers

(* The files of StorageFiles. *)
LEMMA FileValues ==
  /\ Absent \in File /\ UserFile \in File /\ Absent # UserFile
  /\ Absent.by = User /\ Absent.is = "absent"
  /\ UserFile.by = User /\ UserFile.is = "complete"
  /\ \A s \in Starts : \A how \in {"absent", "empty", "partial", "complete"} :
       /\ Made(s, how) \in File
       /\ Made(s, how).by = s /\ Made(s, how).is = how
  BY DEF Absent, UserFile, Made, File, Makers

(* What writing through a descriptor does to the files at their place. *)
LEMMA WriteThroughHome ==
  ASSUME FilesType, NEW f \in Files, NEW s \in Starts,
         NEW how \in {"partial", "complete"}, WriteThrough(f, s, how)
  PROVE  /\ FilesType'
         /\ \A g \in Files : g # f \/ home[g].by # s => home'[g] = home[g]
         /\ home[f].by = s => home'[f] = Made(s, how)
         /\ \A g \in Files : home'[g] = home[g] \/ (home[g].by = s /\ home'[g] = Made(s, how))
         /\ \A g \in Files : staged'[g] = staged[g] \/ (staged[g].by = s /\ staged'[g] = Made(s, how))
<1>1. Made(s, how) \in File
  BY FileValues
<1>. QED
  BY <1>1 DEF WriteThrough, FilesType

(* The steps that do not touch a file. *)
LEMMA PhaseOnly ==
  ASSUME BootInv, NEW s \in Starts, UNCHANGED <<home, staged>>,
         NEW to \in Running \union Ended,
         phase' = [phase EXCEPT ![s] = to],
         purpose' \in [Starts -> Purposes],
         seen' \in [Starts -> {"absent", "empty", "partial", "complete"}],
         \A t \in Starts \ {s} : seen'[t] = seen[t],
         faulted' \in SUBSET Starts,
         to \in {"migrate", "migrating"} => phase[s] \in {"migrate", "migrating"},
         to \in {"finalize", "create", "fill"} => home[Db].is = "complete",
         to = "unlink" => home[Db] = Made(s, "empty"),
         to = "claim" \/ (to = "database" /\ seen'[s] = "absent")
           => ~Exists(home[Marker]) \/ Exists(home[Db])
  PROVE  BootInv'
<1>1. TypeOK'
  BY DEF BootInv, TypeOK, FilesType, BootType
<1>2. AbsentIsPlain' /\ MarkerIsLast'
  BY DEF BootInv, AbsentIsPlain, MarkerIsLast, Exists
<1>3. \A t \in Starts : phase'[t] = IF t = s THEN to ELSE phase[t]
  BY DEF BootInv, TypeOK, BootType
<1>4. OwnsClaim'
  BY <1>3 DEF BootInv, OwnsClaim, Exists
<1>5. FinalizesComplete'
  BY <1>3 DEF BootInv, FinalizesComplete
<1>6. NoMarkerStillTrue'
  BY <1>3 DEF BootInv, NoMarkerStillTrue, Exists
<1>7. UnlinksClaim'
  BY <1>3 DEF BootInv, UnlinksClaim, Made
<1>. QED
  BY <1>1, <1>2, <1>4, <1>5, <1>6, <1>7 DEF BootInv

(* The steps of the migration, which write the claimed database. *)
LEMMA WriteKeepsInv ==
  ASSUME BootInv, NEW s \in Starts, NEW how \in {"partial", "complete"},
         WriteThrough(Db, s, how),
         how = "complete" \/ home[Db] = Made(s, "empty"),
         phase[s] \in {"migrate", "migrating"},
         NEW to \in {"migrating", "marker", "failed"},
         phase' = [phase EXCEPT ![s] = to],
         purpose' \in [Starts -> Purposes], seen' = seen,
         faulted' \in SUBSET Starts
  PROVE  BootInv'
<1>. USE FileFacts, MakerFacts, FileValues
<1>t. FilesType /\ BootType
  BY DEF BootInv, TypeOK
<1>1. home[Db].by = s /\ home[Db].is # "absent"
  BY DEF BootInv, OwnsClaim, Exists
<1>2. /\ home'[Db] = Made(s, how) /\ home'[Marker] = home[Marker]
      /\ \A f \in Files \ {Db} : home'[f] = home[f]
      /\ FilesType'
  BY <1>t, <1>1, WriteThroughHome DEF WriteThrough, FilesType
<1>3. /\ TypeOK'
      /\ \A t \in Starts : phase'[t] = IF t = s THEN to ELSE phase[t]
  BY <1>t, <1>2 DEF TypeOK, BootType, Running
<1>4. AbsentIsPlain' /\ NoMarkerStillTrue'
  BY <1>2 DEF BootInv, AbsentIsPlain, NoMarkerStillTrue, Exists
<1>5. MarkerIsLast'
  BY <1>2 DEF BootInv, MarkerIsLast, Exists
<1>6. OwnsClaim'
  BY <1>1, <1>2, <1>3 DEF BootInv, OwnsClaim, Exists
<1>7. FinalizesComplete'
  BY <1>2, <1>3 DEF BootInv, FinalizesComplete
<1>8. UnlinksClaim'
  BY <1>1, <1>3 DEF BootInv, UnlinksClaim
<1>. QED
  BY <1>3, <1>4, <1>5, <1>6, <1>7, <1>8 DEF BootInv

(* The invariant survives every step of every start. *)
LEMMA WorkKeepsInv ==
  ASSUME BootInv, NEW s \in Starts, Begin(s) \/ Work(s)
  PROVE  BootInv'
<1>. USE FileFacts, MakerFacts, FileValues
<1>t. /\ FilesType /\ BootType /\ TypeOK
      /\ AbsentIsPlain /\ OwnsClaim /\ MarkerIsLast /\ FinalizesComplete /\ NoMarkerStillTrue
      /\ UnlinksClaim
  BY DEF BootInv, TypeOK
<1>1. CASE Begin(s)
  BY <1>1, <1>t, PhaseOnly DEF Begin, Goto, Running, BootType
<1>2. CASE ReadMarker(s)
  <2>1. home[Marker].is \in {"absent", "empty", "partial", "complete"}
    BY <1>t DEF FilesType, File
  <2>2. seen'[s] = home[Marker].is
    BY <1>2, <1>t DEF ReadMarker, BootType
  <2>3. /\ seen' \in [Starts -> {"absent", "empty", "partial", "complete"}]
        /\ \A t \in Starts \ {s} : seen'[t] = seen[t]
    BY <1>2, <1>t, <2>1 DEF ReadMarker, BootType
  <2>4. seen'[s] = "absent" => ~Exists(home[Marker])
    BY <2>2 DEF Exists
  <2>5. /\ phase' = [phase EXCEPT ![s] = "database"]
        /\ UNCHANGED <<home, staged>> /\ purpose' = purpose /\ faulted' = faulted
    BY <1>2 DEF ReadMarker
  <2>6. "database" \in Running \union Ended
    BY DEF Running
  <2>. HIDE DEF Exists
  <2>. QED
    BY <1>t, <2>3, <2>4, <2>5, <2>6, PhaseOnly DEF BootType
<1>3. CASE ReadDatabase(s)
  <2>1. Verdict(s) \in {"ready", "finalize", "claim", "recovery"}
    BY DEF Verdict
  <2>2. Verdict(s) = "finalize" => home[Db].is = "complete"
    BY DEF Verdict, Status, Exists
  <2>3. Verdict(s) = "claim" => seen[s] = "absent"
    BY <1>t DEF Verdict, Status, BootType
  <2>4. Verdict(s) = "claim" => ~Exists(home[Marker]) \/ Exists(home[Db])
    BY <1>3, <1>t, <2>3 DEF NoMarkerStillTrue, ReadDatabase
  <2>. QED
    BY <1>3, <1>t, <2>1, <2>2, <2>4, PhaseOnly DEF ReadDatabase, Running, Ended, BootType
<1>4. CASE Claim(s)
  <2>1. CASE Exists(home[Db])
    <3>1. /\ phase' = [phase EXCEPT ![s] = "marker"] /\ purpose' = [purpose EXCEPT ![s] = "raced"]
          /\ UNCHANGED <<home, staged, seen, faulted>>
      BY <1>4, <2>1 DEF Claim
    <3>2. "marker" \in Running \union Ended /\ purpose' \in [Starts -> Purposes]
      BY <1>t, <3>1 DEF Running, Purposes, BootType
    <3>. QED
      BY <1>t, <3>1, <3>2, PhaseOnly DEF BootType
  <2>2. CASE ~Exists(home[Db])
    <3>1. ~Exists(home[Marker])
      BY <1>4, <1>t, <2>2 DEF Claim, NoMarkerStillTrue
    <3>2. /\ home'[Db] = Made(s, "empty") /\ Exists(home'[Db])
          /\ home'[Marker] = home[Marker]
          /\ \A f \in Files \ {Db} : home'[f] = home[f]
          /\ FilesType'
      BY <1>4, <1>t, <2>2 DEF Claim, FilesType, Exists
    <3>3. /\ TypeOK'
          /\ \A t \in Starts : phase'[t] = IF t = s THEN "migrate" ELSE phase[t]
      BY <1>4, <1>t, <2>2, <3>2 DEF Claim, TypeOK, BootType, Running
    <3>4. AbsentIsPlain' /\ MarkerIsLast'
      BY <1>t, <3>1, <3>2 DEF AbsentIsPlain, MarkerIsLast, Exists
    <3>5. OwnsClaim'
      BY <1>t, <2>2, <3>2, <3>3 DEF OwnsClaim
    <3>6. FinalizesComplete'
      BY <1>t, <2>2, <3>2, <3>3 DEF FinalizesComplete, Exists
    <3>7. NoMarkerStillTrue'
      BY <3>2 DEF NoMarkerStillTrue
    <3>8. UnlinksClaim'
      BY <1>t, <2>2, <3>3 DEF UnlinksClaim, Exists
    <3>. QED
      BY <3>3, <3>4, <3>5, <3>6, <3>7, <3>8 DEF BootInv
  <2>. QED
    BY <2>1, <2>2
<1>5. CASE ClaimFails(s)
  BY <1>5, <1>t, PhaseOnly DEF ClaimFails, Goto, Ended, BootType
<1>6. CASE Migrate(s) /\ UNCHANGED files
  BY <1>6, <1>t, PhaseOnly DEF Migrate, files, Running, BootType
<1>7. CASE Migrate(s) /\ ~UNCHANGED files
  BY <1>7, <1>t, WriteKeepsInv DEF Migrate, files, BootType
<1>8. CASE Migrated(s)
  BY <1>8, <1>t, WriteKeepsInv DEF Migrated, BootType, Purposes
<1>9. CASE MigrationFails(s) /\ UNCHANGED files
  BY <1>9, <1>t, PhaseOnly DEF MigrationFails, files, Running, BootType
<1>10. CASE MigrationFails(s) /\ ~UNCHANGED files
  BY <1>10, <1>t, WriteKeepsInv DEF MigrationFails, files, BootType
<1>19. CASE LookAtClaim(s)
  <2>1. PICK to \in {"unlink", "marker"} : /\ to = "unlink" => home[Db] = Made(s, "empty")
                                           /\ phase' = [phase EXCEPT ![s] = to]
    BY <1>19 DEF LookAtClaim
  <2>2. /\ UNCHANGED <<home, staged, seen, faulted>>
        /\ purpose' \in [Starts -> Purposes] /\ to \in Running
    BY <1>19, <1>t DEF LookAtClaim, Running, Purposes, BootType
  <2>. QED
    BY <1>t, <2>1, <2>2, PhaseOnly DEF BootType
<1>11. CASE Cleanup(s) /\ UNCHANGED home
  BY <1>11, <1>t, PhaseOnly DEF Cleanup, Goto, Running, BootType
<1>12. CASE Cleanup(s) /\ ~UNCHANGED home
  <2>1. /\ home[Db] = Made(s, "empty") /\ home' = [home EXCEPT ![Db] = Absent]
        /\ phase[s] = "unlink" /\ phase' = [phase EXCEPT ![s] = "marker"]
        /\ UNCHANGED <<staged, purpose, seen, faulted>>
    BY <1>12, <1>t DEF Cleanup, Goto, UnlinksClaim
  <2>2. /\ home'[Db] = Absent /\ home'[Marker] = home[Marker]
        /\ \A f \in Files \ {Db} : home'[f] = home[f]
        /\ FilesType'
    BY <1>t, <2>1 DEF FilesType
  <2>3. ~Exists(home[Marker])
    BY <1>t, <2>1 DEF MarkerIsLast
  <2>4. /\ TypeOK'
        /\ \A t \in Starts : phase'[t] = IF t = s THEN "marker" ELSE phase[t]
    BY <1>t, <2>1, <2>2 DEF TypeOK, BootType, Running
  <2>5. AbsentIsPlain' /\ MarkerIsLast'
    BY <1>t, <2>2 DEF AbsentIsPlain, MarkerIsLast
  <2>6. OwnsClaim'
    BY <1>t, <2>1, <2>4 DEF OwnsClaim
  <2>7. FinalizesComplete'
    BY <1>t, <2>1, <2>4 DEF FinalizesComplete
  <2>8. NoMarkerStillTrue'
    BY <2>2, <2>3 DEF NoMarkerStillTrue, Exists
  <2>9. UnlinksClaim'
    BY <1>t, <2>1, <2>4 DEF UnlinksClaim
  <2>. QED
    BY <2>4, <2>5, <2>6, <2>7, <2>8, <2>9 DEF BootInv
<1>13. CASE MarkerFound(s)
  <2>1. PICK to \in {"ready", "recovery"} : phase' = [phase EXCEPT ![s] = to]
    BY <1>13 DEF MarkerFound
  <2>2. UNCHANGED <<home, staged, purpose, seen, faulted>>
    BY <1>13 DEF MarkerFound
  <2>3. /\ to \in Running \union Ended
        /\ to \notin {"migrate", "migrating", "finalize", "create", "fill", "unlink", "claim",
                     "database"}
    BY <2>1 DEF Ended
  <2>4. /\ purpose' \in [Starts -> Purposes] /\ faulted' \in SUBSET Starts
        /\ seen' \in [Starts -> {"absent", "empty", "partial", "complete"}]
        /\ \A t \in Starts \ {s} : seen'[t] = seen[t]
    BY <1>t, <2>2 DEF BootType
  <2>. QED
    BY <2>1, <2>2, <2>3, <2>4, PhaseOnly
<1>14. CASE MarkerMissing(s)
  BY <1>14, <1>t, PhaseOnly DEF MarkerMissing, Goto, Running, BootType, FinalizesComplete
<1>15. CASE CreateMarker(s)
  <2>1. /\ phase[s] = "create" /\ ~Exists(home[Marker])
        /\ home' = [home EXCEPT ![Marker] = Made(s, "empty")]
        /\ phase' = [phase EXCEPT ![s] = "fill"]
        /\ UNCHANGED <<staged, purpose, seen, faulted>>
    BY <1>15 DEF CreateMarker, Goto
  <2>2. home[Db].is = "complete" /\ Exists(home[Db])
    BY <1>t, <2>1 DEF FinalizesComplete, Exists
  <2>3. /\ home'[Marker] = Made(s, "empty") /\ home'[Db] = home[Db]
        /\ \A f \in Files \ {Marker} : home'[f] = home[f]
        /\ FilesType'
    BY <1>t, <2>1 DEF FilesType
  <2>4. /\ TypeOK'
        /\ \A t \in Starts : phase'[t] = IF t = s THEN "fill" ELSE phase[t]
    BY <1>t, <2>1, <2>3 DEF TypeOK, BootType, Running
  <2>. QED
    BY <1>t, <2>2, <2>3, <2>4
    DEF BootInv, AbsentIsPlain, MarkerIsLast, OwnsClaim, FinalizesComplete,
        NoMarkerStillTrue, UnlinksClaim, Exists
<1>16. CASE FillMarker(s)
  <2>1. /\ phase[s] = "fill" /\ WriteThrough(Marker, s, "complete")
        /\ phase' = [phase EXCEPT ![s] = "ready"]
        /\ UNCHANGED <<purpose, seen, faulted>>
    BY <1>16 DEF FillMarker, Goto
  <2>2. home[Db].is = "complete" /\ Exists(home[Db])
    BY <1>t, <2>1 DEF FinalizesComplete, Exists
  <2>3. /\ home'[Db] = home[Db] /\ FilesType'
        /\ \A f \in Files : home'[f] = home[f] \/ home'[f] = Made(s, "complete")
    BY <1>t, <2>1, WriteThroughHome DEF WriteThrough, FilesType
  <2>4. /\ TypeOK'
        /\ \A t \in Starts : phase'[t] = IF t = s THEN "ready" ELSE phase[t]
    BY <1>t, <2>1, <2>3 DEF TypeOK, BootType, Ended
  <2>. QED
    BY <1>t, <2>2, <2>3, <2>4
    DEF BootInv, AbsentIsPlain, MarkerIsLast, OwnsClaim, FinalizesComplete,
        NoMarkerStillTrue, UnlinksClaim, Exists
<1>17. CASE MarkerFails(s)
  BY <1>17, <1>t, PhaseOnly DEF MarkerFails, Ended, BootType
<1>18. CASE Die(s)
  <2>1. /\ phase' = [phase EXCEPT ![s] = "dead"] /\ faulted' = faulted \union {s}
        /\ UNCHANGED <<home, staged, purpose, seen>>
    BY <1>18 DEF Die
  <2>2. "dead" \in Running \union Ended /\ faulted' \in SUBSET Starts
    BY <1>t, <2>1 DEF Ended, BootType
  <2>. QED
    BY <1>t, <2>1, <2>2, PhaseOnly DEF BootType
<1>. QED
  BY <1>1, <1>2, <1>3, <1>4, <1>5, <1>6, <1>7, <1>8, <1>9, <1>10, <1>11, <1>12,
     <1>13, <1>14, <1>15, <1>16, <1>17, <1>18, <1>19 DEF Work

-----------------------------------------------------------------------------
LEMMA InitInv == Init => BootInv
<1>. SUFFICES ASSUME Init PROVE BootInv
  OBVIOUS
<1>. USE FileFacts, MakerFacts, FileValues
<1>1. [by |-> User, is |-> "empty"] \in File
  BY DEF File, Makers
<1>2. FilesType /\ AbsentIsPlain /\ home[Db].by = User
  BY <1>1 DEF Init, Installations, FilesType, AbsentIsPlain, Exists
<1>3. BootType /\ \A s \in Starts : phase[s] = "idle"
  BY DEF Init, BootInit, BootType, Purposes
<1>. QED
  BY <1>2, <1>3 
  DEF BootInv, TypeOK, OwnsClaim, MarkerIsLast, FinalizesComplete, NoMarkerStillTrue, UnlinksClaim

(* The inductive invariant holds in every behaviour of any number of starts. *)
THEOREM BootInductive == Spec => []BootInv
<1>1. BootInv /\ [Next]_bvars => BootInv'
  <2>. SUFFICES ASSUME BootInv, [Next]_bvars PROVE BootInv'
    OBVIOUS
  <2>1. CASE UNCHANGED bvars
    BY <2>1 DEF bvars, BootInv, TypeOK, FilesType, BootType, AbsentIsPlain, OwnsClaim,
        MarkerIsLast, FinalizesComplete, NoMarkerStillTrue, UnlinksClaim, Exists
  <2>2. CASE Next
    BY <2>2, WorkKeepsInv DEF Next
  <2>. QED
    BY <2>1, <2>2
<1>. QED
  BY InitInv, <1>1, PTL DEF Spec

(* While a start migrates, the file it writes is the one it claimed
   (claimNewDatabaseFile, applyInitialMigrations). *)
THEOREM OneInitializer == Spec => [](TypeOK /\ ClaimIsExclusive)
<1>1. BootInv => TypeOK /\ ClaimIsExclusive
  BY DEF BootInv, OwnsClaim, ClaimIsExclusive
<1>. QED
  BY <1>1, BootInductive, PTL

(* No start creates an empty database where a marker records earlier use
   (PRODUCT_SPEC.md:150), for any number of overlapping starts. *)
THEOREM NeverEmptyAfterUse == Spec => NoEmptyAfterUse
<1>. DEFINE Step == Exists(home[Marker]) /\ ~Exists(home[Db]) => ~Exists(home'[Db])
<1>1. BootInv /\ [Next]_bvars => [Step]_bvars
  <2>. SUFFICES ASSUME BootInv, [Next]_bvars, Exists(home[Marker]), ~Exists(home[Db])
                PROVE ~Exists(home'[Db])
    OBVIOUS
  <2>. USE FileFacts, MakerFacts, FileValues
  <2>1. home[Db] = Absent /\ FilesType
    BY DEF BootInv, AbsentIsPlain, TypeOK
  <2>2. CASE UNCHANGED home
    BY <2>2
  <2>3. ASSUME NEW s \in Starts, Claim(s) PROVE FALSE
    BY <2>3 DEF BootInv, NoMarkerStillTrue, Claim
  <2>4. ASSUME NEW s \in Starts, Cleanup(s) PROVE home'[Db] = home[Db]
    BY <2>1, <2>4 DEF Cleanup, FilesType
  <2>5. ASSUME NEW s \in Starts, CreateMarker(s) PROVE home'[Db] = home[Db]
    BY <2>1, <2>5 DEF CreateMarker, FilesType
  <2>6. ASSUME NEW s \in Starts, NEW f \in Files, NEW how \in {"partial", "complete"},
               WriteThrough(f, s, how)
        PROVE home'[Db] = home[Db]
    BY <2>1, <2>6 DEF WriteThrough, FilesType
  <2>. QED
    BY <2>2, <2>3, <2>4, <2>5, <2>6
    DEF Next, Begin, Work, ReadMarker, ReadDatabase, ClaimFails, Migrate, Migrated,
        MigrationFails, LookAtClaim, MarkerFound, MarkerMissing, FillMarker, MarkerFails, Die, bvars, files
<1>. QED
  BY <1>1, BootInductive, PTL DEF Spec, NoEmptyAfterUse

(* No start changes a complete database, nor a file of the user. *)
THEOREM NothingOverwritten == Spec => CompleteStays
<1>. DEFINE Step == /\ home[Db].is = "complete" => home'[Db] = home[Db]
                    /\ \A f \in Files : home[f] = UserFile => home'[f] = UserFile
<1>1. BootInv /\ [Next]_bvars => [Step]_bvars
  <2>. SUFFICES ASSUME BootInv, [Next]_bvars PROVE Step
    OBVIOUS
  <2>. USE FileFacts, MakerFacts, FileValues
  <2>1. FilesType
    BY DEF BootInv, TypeOK
  <2>2. CASE UNCHANGED home
    BY <2>2
  <2>3. ASSUME NEW s \in Starts, Claim(s) PROVE Step
    BY <2>1, <2>3 DEF Claim, FilesType, Exists
  <2>4. ASSUME NEW s \in Starts, Cleanup(s) PROVE Step
    BY <2>1, <2>4 DEF Cleanup, Goto, BootInv, UnlinksClaim, FilesType
  <2>5. ASSUME NEW s \in Starts, CreateMarker(s) PROVE Step
    BY <2>1, <2>5 DEF CreateMarker, FilesType, Exists
  <2>6. ASSUME NEW s \in Starts, WriteThrough(Marker, s, "complete") PROVE Step
    BY <2>1, <2>6 DEF WriteThrough, FilesType
  <2>7. ASSUME NEW s \in Starts, NEW how \in {"partial", "complete"}, WriteThrough(Db, s, how),
               how = "complete" \/ home[Db] = Made(s, "empty")
        PROVE Step
    <3>1. home[Db].is = "complete" => home'[Db] = home[Db]
      <4>1. home[Db] = [by |-> home[Db].by, is |-> home[Db].is]
        BY <2>1 DEF FilesType, File
      <4>. QED
        BY <2>1, <2>7, <4>1 DEF WriteThrough, FilesType, Made
    <3>. QED
      BY <2>1, <2>7, <3>1 DEF WriteThrough, FilesType
  <2>. QED
    BY <2>2, <2>3, <2>4, <2>5, <2>6, <2>7
    DEF Next, Begin, Work, ReadMarker, ReadDatabase, ClaimFails, Migrate, Migrated,
        MigrationFails, LookAtClaim, MarkerFound, MarkerMissing, FillMarker, MarkerFails, Die, bvars, files
<1>. QED
  BY <1>1, BootInductive, PTL DEF Spec, CompleteStays

-----------------------------------------------------------------------------
(* Starts without failures over an installation that was not damaged.      *)

Undamaged ==
  /\ faulted = {}
  /\ ~\E f \in {Db, Marker} : home[f].by = User /\ home[f].is = "empty"
  /\ ~(home[Db] = Absent /\ home[Marker] = UserFile)

Migrates(s) == phase[s] \in {"migrate", "migrating"}
Finishes(s) == phase[s] \in {"fill", "ready"}
\* Started with a database of its own making, and not at its end.
GoesOn(s) == purpose[s] = "created" /\ phase[s] \in {"marker", "database", "finalize", "create"}

\* Somebody will be ready.
Hope == \E s \in Starts : Migrates(s) \/ Finishes(s) \/ GoesOn(s)

\* What a start without failures claims, writes and finds.
OwnFiles ==
  \A s \in Starts :
    /\ phase[s] \notin {"failed", "unlink", "dead"} /\ purpose[s] # "failed"
    /\ phase[s] = "migrate" => home[Db] = Made(s, "empty")
    /\ phase[s] = "migrating" => home[Db] = Made(s, "partial")
    /\ phase[s] = "fill" => home[Marker] = Made(s, "empty")
    /\ purpose[s] = "created" => home[Db].is = "complete"
    /\ purpose[s] # "first" => Exists(home[Db])
    /\ phase[s] = "database" /\ seen[s] \in {"empty", "partial"} => \E t \in Starts : Finishes(t)
    /\ phase[s] = "database" /\ seen[s] # "absent" => Exists(home[Marker])

\* An unfinished file has somebody at work on it.
UnfinishedIsOwned ==
  /\ Exists(home[Db]) /\ home[Db].is # "complete" => \E s \in Starts : Migrates(s)
  /\ Exists(home[Marker]) /\ home[Marker].is # "complete" => \E s \in Starts : phase[s] = "fill"
  /\ Exists(home[Marker]) => Exists(home[Db])

RefusalHasHope == (\E s \in Starts : phase[s] = "recovery") => Hope

HopeInv == OwnFiles /\ UnfinishedIsOwned /\ RefusalHasHope

\* A failure and a damage stay.
LEMMA UndamagedBefore ==
  ASSUME BootInv, NEW s \in Starts, Begin(s) \/ Work(s), Undamaged'
  PROVE  Undamaged
<1>. USE FileFacts, MakerFacts, FileValues
<1>t. FilesType /\ BootType /\ AbsentIsPlain /\ NoMarkerStillTrue /\ OwnsClaim
      /\ UnlinksClaim
  BY DEF BootInv, TypeOK
<1>1. faulted = {}
  BY <1>t DEF Undamaged, Begin, Work, ReadMarker, ReadDatabase, Claim, ClaimFails, Migrate,
    Migrated, MigrationFails, LookAtClaim, Cleanup, MarkerFound, MarkerMissing, CreateMarker, FillMarker,
    MarkerFails, Die, BootType
<1>2. \A f \in Files : Exists(home[f]) /\ home[f].by = User => home'[f] = home[f]
  <2>1. CASE UNCHANGED home
    BY <2>1
  <2>2. CASE Claim(s)
    BY <1>t, <2>2 DEF Claim, FilesType
  <2>3. CASE Cleanup(s)
    BY <1>t, <2>3 DEF Cleanup, Goto, UnlinksClaim, FilesType
  <2>4. CASE CreateMarker(s)
    BY <1>t, <2>4 DEF CreateMarker, FilesType
  <2>5. ASSUME NEW f \in {Db, Marker}, NEW how \in {"partial", "complete"},
               WriteThrough(f, s, how)
        PROVE  \A g \in Files : Exists(home[g]) /\ home[g].by = User => home'[g] = home[g]
    BY <1>t, <2>5, WriteThroughHome
  <2>. QED
    BY <2>1, <2>2, <2>3, <2>4, <2>5
    DEF Begin, Work, ReadMarker, ReadDatabase, ClaimFails, Migrate, Migrated, MigrationFails,
      LookAtClaim, MarkerFound, MarkerMissing, FillMarker, MarkerFails, Die, files
<1>3. home[Db] = Absent /\ home[Marker] = UserFile => home'[Db] = Absent
  <2>. SUFFICES ASSUME home[Db] = Absent, home[Marker] = UserFile PROVE home'[Db] = Absent
    OBVIOUS
  <2>1. CASE UNCHANGED home
    BY <2>1
  <2>2. CASE Claim(s)
    BY <1>t, <2>2 DEF Claim, FilesType, NoMarkerStillTrue, Exists
  <2>3. CASE Cleanup(s)
    BY <1>t, <2>3 DEF Cleanup, FilesType
  <2>4. CASE CreateMarker(s)
    BY <1>t, <2>4 DEF CreateMarker, FilesType
  <2>5. ASSUME NEW f \in {Db, Marker}, NEW how \in {"partial", "complete"},
               WriteThrough(f, s, how)
        PROVE  home'[Db] = Absent
    <3>1. f \in Files /\ home[Db].by # s
      OBVIOUS
    <3>2. \A g \in Files : home[g].by # s => home'[g] = home[g]
      BY <1>t, <2>5, <3>1, WriteThroughHome
    <3>. QED
      BY <3>1, <3>2
  <2>. QED
    BY <2>1, <2>2, <2>3, <2>4, <2>5
    DEF Begin, Work, ReadMarker, ReadDatabase, ClaimFails, Migrate, Migrated, MigrationFails,
      LookAtClaim, MarkerFound, MarkerMissing, FillMarker, MarkerFails, Die, files
<1>4. Exists(UserFile) /\ (\A f \in Files : home[f].is = "empty" => Exists(home[f]))
  BY DEF Exists
<1>. QED
  BY <1>1, <1>2, <1>3, <1>4 DEF Undamaged

\* What is known at every step without a failure.
LEMMA HopeFacts ==
  ASSUME BootInv, HopeInv, Undamaged
  PROVE  /\ FilesType /\ BootType /\ OwnFiles /\ UnfinishedIsOwned /\ RefusalHasHope
         /\ \A s \in Starts : /\ phase[s] \in {"idle", "ready", "recovery", "marker", "database",
                                   "claim", "migrate", "migrating", "finalize", "create", "fill"}
                              /\ purpose[s] \in {"first", "raced", "created"}
                              /\ seen[s] \in {"absent", "empty", "partial", "complete"}
  BY DEF BootInv, TypeOK, HopeInv, OwnFiles, BootType, Running, Ended, Purposes

\* A step that leaves the files alone: what it must find, and whom it must not lose.
LEMMA HopeQuietStep ==
  ASSUME BootInv, HopeInv, Undamaged, NEW s \in Starts,
         UNCHANGED <<home, staged, faulted>>,
         NEW to \in {"marker", "database", "claim", "finalize", "create", "ready", "recovery"},
         phase' = [phase EXCEPT ![s] = to],
         NEW aim \in {purpose[s], "raced"}, purpose' = [purpose EXCEPT ![s] = aim],
         NEW read \in {seen[s], home[Marker].is}, seen' = [seen EXCEPT ![s] = read],
         ~Migrates(s), ~Finishes(s),
         aim = "raced" => Exists(home[Db]),
         to = "database" => read = home[Marker].is,
         to = "recovery" => Hope',
         Hope => Hope'
  PROVE  HopeInv'
<1>. USE FileFacts, MakerFacts, FileValues
<1>t. /\ FilesType /\ BootType /\ OwnFiles /\ UnfinishedIsOwned /\ RefusalHasHope
  BY HopeFacts
<1>1. /\ \A t \in Starts : /\ phase'[t] = IF t = s THEN to ELSE phase[t]
                           /\ purpose'[t] = IF t = s THEN aim ELSE purpose[t]
                           /\ seen'[t] = IF t = s THEN read ELSE seen[t]
  BY <1>t DEF BootType
<1>2. \A t \in Starts : Finishes(t) => Finishes(t)' /\ (phase[t] = "fill" => phase'[t] = "fill")
  BY <1>1 DEF Finishes
<1>3. \A t \in Starts : Migrates(t) => Migrates(t)'
  BY <1>1 DEF Migrates
<1>4. UnfinishedIsOwned'
  BY <1>t, <1>1, <1>2, <1>3 DEF UnfinishedIsOwned, Exists, Finishes
<1>5. RefusalHasHope'
  BY <1>t, <1>1 DEF RefusalHasHope
<1>6. home[Marker].is \in {"empty", "partial"} => \E t \in Starts : Finishes(t)
  BY <1>t DEF UnfinishedIsOwned, Exists, Finishes
<1>7. OwnFiles'
  BY <1>t, <1>1, <1>2, <1>6 DEF OwnFiles, Exists
<1>. QED
  BY <1>4, <1>5, <1>7 DEF HopeInv

\* The step of s leaves the others' hope alone.
LEMMA HopeOfOthers ==
  ASSUME BootInv, NEW s \in Starts, NEW to, phase' = [phase EXCEPT ![s] = to],
         NEW aim, purpose' = [purpose EXCEPT ![s] = aim],
         Hope, Migrates(s) \/ Finishes(s) \/ GoesOn(s) => Hope'
  PROVE  Hope'
<1>1. \A t \in Starts \ {s} : phase'[t] = phase[t] /\ purpose'[t] = purpose[t]
  BY DEF BootInv, TypeOK, BootType
<1>. QED
  BY <1>1 DEF Hope, Migrates, Finishes, GoesOn

\* Any start at work on a file other than s gives hope.
LEMMA OthersGiveHope ==
  ASSUME BootInv, NEW s \in Starts, NEW to, phase' = [phase EXCEPT ![s] = to],
         NEW t \in Starts, Migrates(t) \/ Finishes(t), ~Migrates(s) /\ ~Finishes(s)
  PROVE  Hope'
<1>1. t # s /\ phase'[t] = phase[t]
  BY DEF BootInv, TypeOK, BootType
<1>. QED
  BY <1>1 DEF Hope, Migrates, Finishes

LEMMA BeginAndReadKeepHope ==
  ASSUME BootInv, HopeInv, Undamaged, NEW s \in Starts, Begin(s) \/ ReadMarker(s)
  PROVE  HopeInv'
<1>. USE FileFacts, MakerFacts, FileValues
<1>t. FilesType /\ BootType /\ OwnFiles /\ UnfinishedIsOwned
  BY HopeFacts
<1>1. CASE Begin(s)
  <2>1. /\ UNCHANGED <<home, staged, faulted>> /\ phase[s] = "idle"
        /\ phase' = [phase EXCEPT ![s] = "marker"]
        /\ purpose' = [purpose EXCEPT ![s] = purpose[s]]
        /\ seen' = [seen EXCEPT ![s] = seen[s]]
    BY <1>1, <1>t DEF Begin, Goto, BootType
  <2>2. Hope => Hope'
    BY <2>1, HopeOfOthers DEF Migrates, Finishes, GoesOn
  <2>3. ~Migrates(s) /\ ~Finishes(s)
    BY <2>1 DEF Migrates, Finishes
  <2>4. purpose[s] = "raced" => Exists(home[Db])
    BY <1>t DEF OwnFiles
  <2>. QED
    BY <2>1, <2>2, <2>3, <2>4, HopeQuietStep
<1>2. CASE ReadMarker(s)
  <2>1. /\ UNCHANGED <<home, staged, faulted>> /\ phase[s] = "marker"
        /\ phase' = [phase EXCEPT ![s] = "database"]
        /\ purpose' = [purpose EXCEPT ![s] = purpose[s]]
        /\ seen' = [seen EXCEPT ![s] = home[Marker].is]
    BY <1>2, <1>t DEF ReadMarker, BootType
  <2>2. GoesOn(s) => Hope'
    BY <1>t, <2>1 DEF GoesOn, Hope, BootType
  <2>3. ~Migrates(s) /\ ~Finishes(s)
    BY <2>1 DEF Migrates, Finishes
  <2>4. Hope => Hope'
    BY <2>1, <2>2, <2>3, HopeOfOthers
  <2>5. purpose[s] = "raced" => Exists(home[Db])
    BY <1>t DEF OwnFiles
  <2>. QED
    BY <2>1, <2>3, <2>4, <2>5, HopeQuietStep
<1>. QED
  BY <1>1, <1>2

LEMMA VerdictKeepsHope ==
  ASSUME BootInv, HopeInv, Undamaged, NEW s \in Starts, ReadDatabase(s)
  PROVE  HopeInv'
<1>. USE FileFacts, MakerFacts, FileValues
<1>t. FilesType /\ BootType /\ OwnFiles /\ UnfinishedIsOwned
      /\ purpose[s] \in {"first", "raced", "created"}
      /\ seen[s] \in {"absent", "empty", "partial", "complete"}
  BY HopeFacts
<1>1. /\ UNCHANGED <<home, staged, faulted>> /\ phase[s] = "database"
      /\ phase' = [phase EXCEPT ![s] = Verdict(s)]
      /\ purpose' = [purpose EXCEPT ![s] = purpose[s]]
      /\ seen' = [seen EXCEPT ![s] = seen[s]]
  BY <1>t DEF ReadDatabase, BootType
<1>2. ~Migrates(s) /\ ~Finishes(s)
  BY <1>1 DEF Migrates, Finishes
<1>3. seen[s] \in {"empty", "partial"} => Hope'
  BY <1>t, <1>1, <1>2, OthersGiveHope DEF OwnFiles
<1>4. Exists(home[Db]) /\ home[Db].is # "complete" => Hope'
  BY <1>t, <1>1, <1>2, OthersGiveHope DEF UnfinishedIsOwned
<1>5. seen[s] = "complete" \/ purpose[s] # "first" => Exists(home[Db])
  BY <1>t, <1>1 DEF OwnFiles, UnfinishedIsOwned
<1>6. Verdict(s) \in {"claim", "finalize", "recovery"}
  BY <1>t DEF Verdict
<1>7. Verdict(s) = "recovery" => Hope'
  BY <1>t, <1>3, <1>4, <1>5 DEF Verdict, Status
<1>8. GoesOn(s) => Hope'
  <2>. SUFFICES ASSUME GoesOn(s), seen[s] \notin {"empty", "partial"} PROVE Hope'
    BY <1>3
  <2>1. purpose[s] = "created" /\ home[Db].is = "complete"
    BY <1>t DEF GoesOn, OwnFiles
  <2>2. Verdict(s) = "finalize"
    BY <2>1 DEF Verdict, Status, Exists
  <2>. QED
    BY <1>t, <1>1, <2>1, <2>2 DEF Hope, GoesOn, BootType
<1>9. Hope => Hope'
  BY <1>1, <1>2, <1>8, HopeOfOthers
<1>10. purpose[s] = "raced" => Exists(home[Db])
  BY <1>t DEF OwnFiles
<1>. QED
  BY <1>1, <1>2, <1>6, <1>7, <1>9, <1>10, HopeQuietStep

LEMMA MarkerKeepsHope ==
  ASSUME BootInv, HopeInv, Undamaged, NEW s \in Starts, MarkerFound(s) \/ MarkerMissing(s)
  PROVE  HopeInv'
<1>. USE FileFacts, MakerFacts, FileValues
<1>t. FilesType /\ BootType /\ OwnFiles /\ UnfinishedIsOwned
  BY HopeFacts
<1>. DEFINE to == IF MarkerMissing(s) THEN "create"
                  ELSE IF home[Marker].is = "complete" THEN "ready" ELSE "recovery"
<1>1. /\ UNCHANGED <<home, staged, faulted>> /\ phase[s] \in {"finalize", "create"}
      /\ phase' = [phase EXCEPT ![s] = to]
      /\ purpose' = [purpose EXCEPT ![s] = purpose[s]]
      /\ seen' = [seen EXCEPT ![s] = seen[s]]
  BY <1>t DEF MarkerFound, MarkerMissing, Goto, BootType
<1>2. ~Migrates(s) /\ ~Finishes(s)
  BY <1>1 DEF Migrates, Finishes
<1>3. to = "recovery" => Hope'
  <2>. SUFFICES ASSUME to = "recovery" PROVE Hope'
    OBVIOUS
  <2>1. Exists(home[Marker]) /\ home[Marker].is # "complete"
    BY DEF MarkerFound
  <2>2. PICK t \in Starts : phase[t] = "fill"
    BY <1>t, <2>1 DEF UnfinishedIsOwned
  <2>. QED
    BY <1>1, <1>2, <2>2, OthersGiveHope DEF Finishes
<1>4. GoesOn(s) => Hope'
  <2>1. phase'[s] = to /\ purpose'[s] = purpose[s]
    BY <1>t, <1>1 DEF BootType
  <2>2. CASE to = "recovery"
    BY <1>3, <2>2
  <2>3. CASE to \in {"ready", "create"}
    BY <2>1, <2>3 DEF Hope, GoesOn, Finishes
  <2>. QED
    BY <2>2, <2>3
<1>5. Hope => Hope'
  BY <1>1, <1>2, <1>4, HopeOfOthers
<1>6. purpose[s] = "raced" => Exists(home[Db])
  BY <1>t DEF OwnFiles
<1>7. to \in {"create", "ready", "recovery"}
  OBVIOUS
<1>. HIDE DEF to
<1>. QED
  BY <1>1, <1>2, <1>3, <1>5, <1>6, <1>7, HopeQuietStep

LEMMA ClaimKeepsHope ==
  ASSUME BootInv, HopeInv, Undamaged, NEW s \in Starts, Claim(s)
  PROVE  HopeInv'
<1>. USE FileFacts, MakerFacts, FileValues
<1>t. /\ FilesType /\ BootType /\ OwnFiles /\ UnfinishedIsOwned /\ RefusalHasHope
      /\ phase[s] = "claim" /\ purpose[s] \in {"first", "raced", "created"}
  BY HopeFacts DEF Claim
<1>1. ~Migrates(s) /\ ~Finishes(s) /\ ~GoesOn(s)
  BY <1>t DEF Migrates, Finishes, GoesOn
<1>2. CASE Exists(home[Db])
  <2>1. /\ UNCHANGED <<home, staged, faulted>>
        /\ phase' = [phase EXCEPT ![s] = "marker"]
        /\ purpose' = [purpose EXCEPT ![s] = "raced"]
        /\ seen' = [seen EXCEPT ![s] = seen[s]]
    BY <1>t, <1>2 DEF Claim, BootType
  <2>2. Hope => Hope'
    BY <1>1, <2>1, HopeOfOthers
  <2>. QED
    BY <1>1, <1>2, <2>1, <2>2, HopeQuietStep
<1>3. CASE ~Exists(home[Db])
  <2>1. /\ home' = [home EXCEPT ![Db] = Made(s, "empty")]
        /\ phase' = [phase EXCEPT ![s] = "migrate"]
        /\ UNCHANGED <<staged, seen, faulted, purpose>>
    BY <1>3, <1>t DEF Claim
  <2>2. /\ home'[Db] = Made(s, "empty") /\ home'[Marker] = home[Marker]
        /\ \A t \in Starts : phase'[t] = IF t = s THEN "migrate" ELSE phase[t]
    BY <1>t, <2>1 DEF FilesType, BootType
  <2>3. \A t \in Starts : /\ phase[t] \notin {"migrate", "migrating"} /\ purpose[t] = "first"
                          /\ phase[t] # "fill"
    BY <1>t, <1>3 DEF OwnFiles, UnfinishedIsOwned, Exists
  <2>4. Hope' /\ UnfinishedIsOwned'
    BY <1>t, <1>3, <2>2, <2>3 DEF Hope, Migrates, UnfinishedIsOwned, Exists
  <2>5. OwnFiles'
    BY <1>t, <1>3, <2>1, <2>2, <2>3 DEF OwnFiles, Exists, Finishes
  <2>. QED
    BY <2>4, <2>5 DEF HopeInv, RefusalHasHope
<1>. QED
  BY <1>2, <1>3

\* A step of the migration: the database is that of s alone.
LEMMA MigrationKeepsHope ==
  ASSUME BootInv, HopeInv, Undamaged, NEW s \in Starts, Migrate(s) \/ Migrated(s), faulted' = {}
  PROVE  HopeInv'
<1>. USE FileFacts, MakerFacts, FileValues
<1>t. /\ FilesType /\ BootType /\ OwnFiles /\ UnfinishedIsOwned /\ RefusalHasHope /\ OwnsClaim
      /\ \A t \in Starts : purpose[t] \in {"first", "raced", "created"}
  BY HopeFacts DEF BootInv
<1>. DEFINE how == IF Migrate(s) THEN "partial" ELSE "complete"
            to == IF Migrate(s) THEN "migrating" ELSE "marker"
            aim == IF Migrate(s) THEN purpose[s] ELSE "created"
<1>1. /\ WriteThrough(Db, s, how) /\ Migrates(s)
      /\ phase' = [phase EXCEPT ![s] = to] /\ purpose' = [purpose EXCEPT ![s] = aim]
      /\ UNCHANGED <<seen, faulted>>
  BY <1>t DEF Migrate, Migrated, OwnFiles, BootType, Migrates
<1>2. home[Db].by = s /\ Exists(home[Db])
  BY <1>t, <1>1 DEF OwnsClaim, Migrates
<1>3. home'[Db] = Made(s, how) /\ home'[Marker] = home[Marker]
  BY <1>t, <1>1, <1>2, WriteThroughHome DEF WriteThrough, FilesType
<1>4. /\ \A t \in Starts : /\ phase'[t] = IF t = s THEN to ELSE phase[t]
                           /\ purpose'[t] = IF t = s THEN aim ELSE purpose[t]
  BY <1>t, <1>1 DEF BootType
<1>5. \A t \in Starts : t # s => phase[t] \notin {"migrate", "migrating"} /\ purpose[t] # "created"
  <2>1. home[Db].is # "complete"
    BY <1>t, <1>1 DEF OwnFiles, Migrates
  <2>. QED
    BY <1>t, <1>2, <2>1 DEF OwnsClaim, OwnFiles
<1>6. Hope'
  BY <1>4 DEF Hope, Migrates, GoesOn
<1>7. \A t \in Starts : Finishes(t) => Finishes(t)' /\ (phase[t] = "fill" => phase'[t] = "fill")
  BY <1>1, <1>4 DEF Finishes, Migrates
<1>8. UnfinishedIsOwned'
  <2>1. /\ home'[Db].is = how /\ how \in {"partial", "complete"}
        /\ how = "partial" => phase'[s] = "migrating"
    BY <1>3, <1>4
  <2>. HIDE DEF to, how, aim
  <2>. QED
    BY <1>t, <1>2, <1>3, <1>7, <2>1 DEF UnfinishedIsOwned, Exists, Migrates, Finishes
<1>9. OwnFiles'
  <2>1. to \in {"migrating", "marker"} /\ (to = "migrating" => how = "partial" /\ aim = purpose[s])
        /\ (to = "marker" => how = "complete" /\ aim = "created")
    OBVIOUS
  <2>2. Exists(home'[Db])
    BY <1>3 DEF Exists
  <2>3. \A t \in Starts : t # s => purpose'[t] = purpose[t] /\ phase'[t] = phase[t]
    BY <1>4
  <2>4. purpose[s] # "created"
    BY <1>t, <1>1 DEF OwnFiles, Migrates
  <2>. HIDE DEF to, how, aim
  <2>. QED
    BY <1>t, <1>1, <1>3, <1>4, <1>5, <1>7, <2>1, <2>2, <2>4 DEF OwnFiles
<1>. QED
  BY <1>6, <1>8, <1>9 DEF HopeInv, RefusalHasHope

\* A step that creates or fills the marker: its start will be ready.
LEMMA FinishKeepsHope ==
  ASSUME BootInv, HopeInv, Undamaged, NEW s \in Starts, CreateMarker(s) \/ FillMarker(s)
  PROVE  HopeInv'
<1>. USE FileFacts, MakerFacts, FileValues
<1>t. /\ FilesType /\ BootType /\ OwnFiles /\ UnfinishedIsOwned /\ FinalizesComplete
  BY HopeFacts DEF BootInv
<1>. DEFINE how == IF CreateMarker(s) THEN "empty" ELSE "complete"
            to == IF CreateMarker(s) THEN "fill" ELSE "ready"
<1>1. /\ phase[s] \in {"create", "fill"} /\ phase' = [phase EXCEPT ![s] = to]
      /\ UNCHANGED <<purpose, seen, faulted>>
  BY DEF CreateMarker, FillMarker, Goto
<1>2. home[Db].is = "complete"
  BY <1>t, <1>1 DEF FinalizesComplete
<1>3. home'[Marker] = Made(s, how)
  <2>1. CASE CreateMarker(s)
    BY <1>t, <2>1 DEF CreateMarker, FilesType
  <2>2. CASE ~CreateMarker(s)
    <3>1. phase[s] = "fill" /\ WriteThrough(Marker, s, "complete")
      BY <2>2 DEF FillMarker, Goto
    <3>2. home[Marker].by = s
      BY <1>t, <3>1 DEF OwnFiles
    <3>. QED
      BY <1>t, <2>2, <3>1, <3>2 DEF WriteThrough, FilesType
  <2>. QED
    BY <2>1, <2>2
<1>4. home'[Db].is = "complete"
  <2>1. CASE CreateMarker(s)
    BY <1>t, <1>2, <2>1 DEF CreateMarker, FilesType
  <2>2. CASE ~CreateMarker(s)
    <3>1. WriteThrough(Marker, s, "complete")
      BY <2>2 DEF FillMarker
    <3>. QED
      BY <1>t, <1>2, <3>1 DEF WriteThrough, FilesType
  <2>. QED
    BY <2>1, <2>2
<1>5. \A t \in Starts : phase'[t] = IF t = s THEN to ELSE phase[t]
  BY <1>t, <1>1 DEF BootType
<1>6. Finishes(s)' /\ \A t \in Starts : Finishes(t) => Finishes(t)'
  BY <1>5 DEF Finishes
<1>7. \A t \in Starts : phase[t] \notin {"migrate", "migrating"} /\ (t # s => phase[t] # "fill")
  <2>1. ~Exists(home[Marker]) \/ home[Marker] = Made(s, "empty")
    BY <1>t DEF CreateMarker, FillMarker, Goto, OwnFiles
  <2>. QED
    BY <1>t, <1>2, <2>1 DEF OwnFiles, Exists
<1>8. Hope' /\ UnfinishedIsOwned'
  BY <1>3, <1>4, <1>5, <1>6 DEF Hope, UnfinishedIsOwned, Exists
<1>9. OwnFiles'
  BY <1>t, <1>1, <1>3, <1>4, <1>5, <1>6, <1>7 DEF OwnFiles, Exists
<1>. QED
  BY <1>8, <1>9 DEF HopeInv, RefusalHasHope

(* Every step of starts that meet no failure. *)
LEMMA HopeStep ==
  ASSUME BootInv, Undamaged => HopeInv, [Next]_bvars, Undamaged'
  PROVE  HopeInv'
<1>1. CASE UNCHANGED bvars
  BY <1>1 DEF bvars, Undamaged, HopeInv, OwnFiles, UnfinishedIsOwned, RefusalHasHope, Hope,
    Migrates, Finishes, GoesOn, Exists
<1>2. ASSUME NEW s \in Starts, Begin(s) \/ Work(s) PROVE HopeInv'
  <2>1. Undamaged /\ HopeInv /\ faulted' = {}
    BY <1>2, UndamagedBefore DEF Undamaged
  <2>2. s \notin faulted' /\ phase[s] \notin {"failed", "unlink"}
    BY <2>1, HopeFacts
  <2>. QED
    BY <1>2, <2>1, <2>2, BeginAndReadKeepHope, VerdictKeepsHope, MarkerKeepsHope, ClaimKeepsHope,
      MigrationKeepsHope, FinishKeepsHope
    DEF Work, ClaimFails, MigrationFails, LookAtClaim, Cleanup, Goto, MarkerFails, Die
<1>. QED
  BY <1>1, <1>2 DEF Next

(* Starts that overlap without any failure do not talk each other into recovery:
   when all have ended one of them is ready, for any number of them. *)
THEOREM HealthyStartsEndReady ==
  ASSUME Starts # {}
  PROVE  Spec => []SomeoneIsReady
<1>1. Init => (Undamaged => HopeInv)
  <2>. SUFFICES ASSUME Init, Undamaged PROVE HopeInv
    OBVIOUS
  <2>. USE FileFacts, MakerFacts, FileValues
  <2>1. OwnFiles /\ RefusalHasHope
    BY DEF Init, BootInit, OwnFiles, RefusalHasHope
  <2>2. UnfinishedIsOwned
    BY DEF Init, Installations, Undamaged, UnfinishedIsOwned, Exists
  <2>. QED
    BY <2>1, <2>2 DEF HopeInv
<1>2. BootInv /\ (Undamaged => HopeInv) /\ [Next]_bvars => (Undamaged => HopeInv)'
  BY HopeStep
<1>3. BootInv /\ (Undamaged => HopeInv) => SomeoneIsReady
  <2>. SUFFICES ASSUME BootInv, Undamaged, HopeInv, \A s \in Starts : phase[s] \in Ended
                PROVE  \E s \in Starts : phase[s] = "ready"
    BY DEF SomeoneIsReady, Undamaged
  <2>1. \A s \in Starts : phase[s] \in {"ready", "recovery"}
    BY HopeFacts DEF Ended
  <2>. QED
    BY <2>1 DEF HopeInv, RefusalHasHope, Hope, Migrates, Finishes, GoesOn
<1>. QED
  BY <1>1, <1>2, <1>3, BootInductive, PTL DEF Spec

-----------------------------------------------------------------------------
(* Starts and a deletion.                                                    *)

Theirs(f) == home[f] = UserFile
Held(f) == staged[f] = UserFile

\* Only the user's files of the beginning are ever found as the user's.
OnlyOwned == \A f \in Files : Theirs(f) \/ Held(f) => f \in owned

\* Outside a deletion's staging directory nothing is staged; within a deletion
\* only what it has moved.
StagedIsMoved ==
  /\ pc \notin {"idle", "create"} => staging
  /\ ~staging => \A f \in Files : staged[f] = Absent
  /\ pc # "idle" => \A f \in Files \ moved : staged[f] = Absent
  /\ \A f \in Files : ~Exists(staged[f]) => staged[f] = Absent

\* During a deletion the user's files at their place are those still to be moved
\* (a start can have unlinked the database if a rename replaced its file), and
\* the file about to return is the one that left.
PlanIsCurrent ==
  /\ pc # "idle" =>
       \A f \in Files :
         /\ Theirs(f) => plan[f] = UserFile /\ f \notin moved
         /\ plan[f] = UserFile /\ f \notin moved /\ (f # Db \/ ~replaced) => Theirs(f)
  /\ pc = "return" => \A f \in Latest : Held(f) <=> plan[f] = UserFile

\* The plan respects the order of the marker, and unlinking starts complete.
PlanIsOrdered ==
  /\ pc # "idle" /\ Marker \in owned /\ plan[Marker] # UserFile
     => \A f \in owned : f < Marker => plan[f] # UserFile
  /\ pc \in {"unlinking", "finish"} => Planned \subseteq moved
  /\ pc \in {"create", "journal"} => moved = {}
  /\ pc \in {"create", "journal", "moving", "take", "rollback", "return", "unstage"}
     => unlinked = {}

Kept == \A f \in owned : Theirs(f) \/ Held(f)
AllOff == \A f \in owned : ~Theirs(f)

\* Either every file of the user still exists, or none is at its place and no
\* step to come will bring one back.
Purge ==
  ~replaced =>
    Kept \/ (AllOff /\ (\/ \A f \in Files : ~Held(f)
                        \/ pc = "idle"
                        \/ pc \in {"unlinking", "finish"} /\ unlinked # {}))

\* As long as no rename has replaced a file, a start about to unlink its claimed
\* database unlinks none of the user's, and finds its own while theirs is staged.
UnlinksNoneOfTheirs ==
  ~replaced => \A s \in Starts : phase[s] = "unlink" =>
                 ~Theirs(Db) /\ (Held(Db) => home[Db] = Made(s, "empty"))

DataInv == /\ DataType /\ OnlyOwned /\ StagedIsMoved
           /\ PlanIsCurrent /\ PlanIsOrdered /\ Purge /\ MarkerGoesLast
           /\ UnlinksNoneOfTheirs

USE FilesAssumption, BoundsAssumption

-----------------------------------------------------------------------------
(* Starts. *)

(* A start keeps the types, whatever files it finds. *)
LEMMA WorkType == ASSUME TypeOK, NEW s \in Starts, Begin(s) \/ Work(s) PROVE TypeOK'
<1>. USE FileFacts, MakerFacts, FileValues
<1>t. FilesType /\ BootType
  BY DEF TypeOK
<1>1. FilesType'
  <2>1. ASSUME NEW f \in Files, NEW how \in {"partial", "complete"}, WriteThrough(f, s, how)
        PROVE FilesType'
    BY <1>t, <2>1, WriteThroughHome
  <2>2. CASE UNCHANGED <<home, staged>>
    BY <1>t, <2>2 DEF FilesType
  <2>3. CASE Claim(s)
    BY <1>t, <2>3 DEF Claim, FilesType
  <2>4. CASE Cleanup(s)
    BY <1>t, <2>4 DEF Cleanup, FilesType
  <2>5. CASE CreateMarker(s)
    BY <1>t, <2>5 DEF CreateMarker, FilesType
  <2>. QED
    BY <2>1, <2>2, <2>3, <2>4, <2>5
    DEF Begin, Work, ReadMarker, ReadDatabase, ClaimFails, Migrate, Migrated,
        MigrationFails, LookAtClaim, MarkerFound, MarkerMissing, FillMarker, MarkerFails, Die, files
<1>2. BootType'
  <2>1. Verdict(s) \in Running \union Ended
    BY DEF Verdict, Running, Ended
  <2>2. home[Marker].is \in {"absent", "empty", "partial", "complete"}
    BY <1>t DEF FilesType, File
  <2>3. /\ purpose' \in [Starts -> Purposes]
        /\ seen' \in [Starts -> {"absent", "empty", "partial", "complete"}]
        /\ faulted' \in SUBSET Starts
    BY <1>t, <2>2
    DEF Begin, Work, ReadMarker, ReadDatabase, Claim, ClaimFails, Migrate, Migrated,
        MigrationFails, LookAtClaim, Cleanup, MarkerFound, MarkerMissing, CreateMarker, FillMarker,
        MarkerFails, Die, BootType, Purposes
  <2>4. \E to \in Running \union Ended : phase' = [phase EXCEPT ![s] = to]
    BY <2>1
    DEF Begin, Work, ReadMarker, ReadDatabase, Claim, ClaimFails, Migrate, Migrated,
        MigrationFails, LookAtClaim, Cleanup, MarkerFound, MarkerMissing, CreateMarker, FillMarker,
        MarkerFails, Die, Goto, Running, Ended
  <2>. QED
    BY <1>t, <2>3, <2>4 DEF BootType
<1>. QED
  BY <1>1, <1>2 DEF TypeOK

(* A start makes no file of the user and stages nothing; it takes one only by
   unlinking what is in the place of its claimed database. *)
LEMMA WorkKeepsUser ==
  ASSUME TypeOK, NEW s \in Starts, Begin(s) \/ Work(s)
  PROVE  /\ \A f \in Files :
              /\ Theirs(f)' => Theirs(f)
              /\ Theirs(f) /\ (f # Db \/ phase[s] # "unlink") => Theirs(f)'
              /\ Held(f)' <=> Held(f)
              /\ staged[f] = Absent => staged'[f] = Absent
              /\ ~Exists(staged'[f]) => staged'[f] = staged[f]
<1>. USE FileFacts, MakerFacts, FileValues
<1>t. FilesType
  BY DEF TypeOK
<1>. DEFINE Goal == \A f \in Files :
              /\ Theirs(f)' => Theirs(f)
              /\ Theirs(f) /\ (f # Db \/ phase[s] # "unlink") => Theirs(f)'
              /\ Held(f)' <=> Held(f)
              /\ staged[f] = Absent => staged'[f] = Absent
              /\ ~Exists(staged'[f]) => staged'[f] = staged[f]
<1>1. ASSUME NEW f \in Files, NEW how \in {"partial", "complete"}, WriteThrough(f, s, how)
      PROVE Goal
  BY <1>t, <1>1, WriteThroughHome DEF Theirs, Held, Exists
<1>2. CASE UNCHANGED <<home, staged>>
  BY <1>2 DEF Theirs, Held
<1>3. CASE Claim(s)
  BY <1>t, <1>3 DEF Claim, FilesType, Theirs, Held, Exists
<1>4. CASE Cleanup(s)
  BY <1>t, <1>4 DEF Cleanup, Goto, FilesType, Theirs, Held
<1>5. CASE CreateMarker(s)
  BY <1>t, <1>5 DEF CreateMarker, FilesType, Theirs, Held, Exists
<1>. QED
  BY <1>1, <1>2, <1>3, <1>4, <1>5
  DEF Begin, Work, ReadMarker, ReadDatabase, ClaimFails, Migrate, Migrated,
      MigrationFails, LookAtClaim, MarkerFound, MarkerMissing, FillMarker, MarkerFails, Die, files

(* What another start is about to unlink, it leaves alone. *)
LEMMA WorkKeepsClaims ==
  ASSUME TypeOK, NEW s \in Starts, Begin(s) \/ Work(s), NEW t \in Starts, phase'[t] = "unlink"
  PROVE  \/ home'[Db] = Made(t, "empty")
         \/ /\ phase[t] = "unlink"
            /\ home[Db] = Made(t, "empty") => phase[s] = "unlink" /\ s # t
<1>. USE FileFacts, MakerFacts, FileValues
<1>t. FilesType /\ BootType
  BY DEF TypeOK
<1>1. CASE LookAtClaim(s)
  BY <1>t, <1>1 DEF LookAtClaim, BootType
<1>2. CASE Cleanup(s)
  BY <1>t, <1>2 DEF Cleanup, Goto, BootType
<1>3. CASE ~LookAtClaim(s) /\ ~Cleanup(s)
  <2>1. \E to \in (Running \union Ended) \ {"unlink"} : phase' = [phase EXCEPT ![s] = to]
    <3>1. Verdict(s) \in {"ready", "finalize", "claim", "recovery"}
      BY DEF Verdict
    <3>. QED
      BY <1>3, <3>1
      DEF Begin, Work, ReadMarker, ReadDatabase, Claim, ClaimFails, Migrate, Migrated,
        MigrationFails, MarkerFound, MarkerMissing, CreateMarker, FillMarker,
        MarkerFails, Die, Goto, Running, Ended
  <2>2. t # s /\ phase[t] = "unlink"
    BY <1>t, <2>1 DEF BootType
  <2>3. CASE home[Db] = Made(t, "empty")
    <3>1. home[Db].by # s /\ Exists(home[Db])
      BY <2>2, <2>3 DEF Exists
    <3>2. ASSUME NEW f \in Files, NEW how \in {"partial", "complete"}, WriteThrough(f, s, how)
          PROVE  home'[Db] = home[Db]
      <4>1. \A g \in Files : home[g].by # s => home'[g] = home[g]
        BY <1>t, <3>2, WriteThroughHome
      <4>. QED
        BY <3>1, <4>1
    <3>3. CASE Claim(s) \/ CreateMarker(s)
      BY <1>t, <2>3, <3>1, <3>3 DEF Claim, CreateMarker, FilesType
    <3>. QED
      BY <1>3, <2>3, <3>2, <3>3
      DEF Begin, Work, ReadMarker, ReadDatabase, ClaimFails, Migrate, Migrated,
        MigrationFails, MarkerFound, MarkerMissing, FillMarker, MarkerFails, Die, files
  <2>. QED
    BY <2>2, <2>3
<1>. QED
  BY <1>1, <1>2, <1>3

(* So no start disturbs the invariant of the deletion. *)
LEMMA StartKeepsData ==
  ASSUME DataInv, NEW s \in Starts, Begin(s) \/ Work(s), UNCHANGED <<dvars, owned>>
  PROVE  DataInv'
<1>. USE FileFacts
<1>t. /\ DataType /\ TypeOK /\ OnlyOwned /\ StagedIsMoved /\ PlanIsCurrent /\ PlanIsOrdered
      /\ Purge /\ MarkerGoesLast /\ UnlinksNoneOfTheirs /\ owned \subseteq Files
  BY DEF DataInv, DataType
<1>1. DataType'
  BY WorkType DEF DataInv, DataType, DeleteType, dvars
<1>2. \A f \in Files :
         /\ Theirs(f)' => Theirs(f)
         /\ Theirs(f) /\ (f # Db \/ phase[s] # "unlink") => Theirs(f)'
         /\ Held(f)' <=> Held(f)
         /\ staged[f] = Absent => staged'[f] = Absent
         /\ ~Exists(staged'[f]) => staged'[f] = staged[f]
  BY <1>t, WorkKeepsUser
<1>3. \A f \in Files : Theirs(f) /\ (f # Db \/ ~replaced) => Theirs(f)'
  BY <1>t, <1>2 DEF UnlinksNoneOfTheirs
<1>4. OnlyOwned' /\ StagedIsMoved'
  BY <1>t, <1>2 DEF OnlyOwned, StagedIsMoved, dvars
<1>5. PlanIsCurrent'
  BY <1>t, <1>2, <1>3 DEF PlanIsCurrent, Latest, Final, dvars, DataType, DeleteType
<1>6. PlanIsOrdered'
  BY <1>t DEF PlanIsOrdered, dvars, Planned
<1>7. Purge'
  BY <1>t, <1>2, <1>3 DEF Purge, Kept, AllOff, dvars
<1>8. MarkerGoesLast'
  BY <1>t, <1>2, <1>3 DEF MarkerGoesLast, Theirs, dvars
<1>9. UnlinksNoneOfTheirs'
  <2>. SUFFICES ASSUME ~replaced, NEW t \in Starts, phase'[t] = "unlink"
                PROVE  ~Theirs(Db)' /\ (Held(Db)' => home'[Db] = Made(t, "empty"))
    BY DEF UnlinksNoneOfTheirs, dvars
  <2>1. CASE home'[Db] = Made(t, "empty")
    BY <2>1, MakerFacts, FileValues DEF Theirs
  <2>2. CASE /\ phase[t] = "unlink"
             /\ home[Db] = Made(t, "empty") => phase[s] = "unlink" /\ s # t
    <3>1. ~Theirs(Db)'
      BY <1>t, <1>2, <2>2 DEF UnlinksNoneOfTheirs
    <3>2. ~Held(Db)
      <4>. SUFFICES ASSUME Held(Db) PROVE FALSE
        OBVIOUS
      <4>1. home[Db] = Made(t, "empty")
        BY <1>t, <2>2 DEF UnlinksNoneOfTheirs
      <4>2. home[Db] = Made(s, "empty") /\ s # t
        BY <1>t, <2>2, <4>1 DEF UnlinksNoneOfTheirs
      <4>3. Made(s, "empty").by = s /\ Made(t, "empty").by = t
        BY FileValues
      <4>. QED
        BY <4>1, <4>2, <4>3
    <3>. QED
      BY <1>2, <3>1, <3>2
  <2>. QED
    BY <1>t, <2>1, <2>2, WorkKeepsClaims
<1>. QED
  BY <1>1, <1>4, <1>5, <1>6, <1>7, <1>8, <1>9 DEF DataInv

-----------------------------------------------------------------------------
(* The deletion. *)

(* The steps of the deletion that rename and unlink nothing. *)
LEMMA NoFileMoves ==
  ASSUME DataInv, DeleteType', pc # "idle",
         UNCHANGED <<home, staged, starts, plan, moved, unlinked, replaced, owned>>,
         ~staging' => \A f \in Files : staged[f] = Absent,
         pc' \notin {"idle", "create"} => staging',
         pc' \in {"unlinking", "finish"} => Planned \subseteq moved,
         pc' \in {"create", "journal"} => moved = {},
         pc' \in {"create", "journal", "moving", "take", "rollback", "return", "unstage"}
           => unlinked = {},
         pc' = "return" => \A f \in Latest : Held(f) <=> plan[f] = UserFile
  PROVE  DataInv'
<1>1. DataType'
  BY DEF DataInv, DataType, TypeOK, FilesType, BootType, starts
<1>2. OnlyOwned' /\ StagedIsMoved' /\ PlanIsOrdered' /\ MarkerGoesLast'
  BY DEF DataInv, OnlyOwned, StagedIsMoved, PlanIsOrdered, MarkerGoesLast,
         Theirs, Held, Planned, Exists
<1>3. Purge'
  BY DEF DataInv, Purge, Kept, AllOff, Theirs, Held, DeleteType, Steps
<1>4. PlanIsCurrent'
  BY DEF DataInv, PlanIsCurrent, Latest, Final, Theirs, Held
<1>5. UnlinksNoneOfTheirs'
  BY DEF DataInv, UnlinksNoneOfTheirs, Theirs, Held, starts
<1>. QED
  BY <1>1, <1>2, <1>3, <1>4, <1>5 DEF DataInv

LEMMA UndoType ==
  ASSUME NEW records, NEW error \in Errors, Undo(records, error), result \in Results
  PROVE  pc' \in {"unstage", "rollback"} /\ code' \in Errors /\ result' \in Results
  BY DEF Undo, Continue

LEMMA QuietStepKeepsInv ==
  ASSUME DataInv, UNCHANGED <<starts, owned>>,
         \/ CreateStaging \/ WriteJournal \/ AllMoved \/ RollbackFails \/ Undone
         \/ AllUnlinked \/ Finish \/ Kill
         \/ \E f \in Files : \/ LookBefore(f) \/ MoveFails(f) \/ LookBack(f)
                             \/ UnlinkFails(f)
  PROVE  DataInv'
<1>t. /\ DeleteType /\ StagedIsMoved /\ PlanIsOrdered
      /\ Errors \subseteq Results /\ "idle" \in Steps
      /\ {"create", "journal", "moving", "take", "rollback", "return", "unstage", "unlinking",
          "finish"} \subseteq Steps
      /\ {"deleted", "staging-failed", "cleanup-required", "rollback-failed", "killed", "partial"}
           \subseteq Results
      /\ {"refused", "source-changed", "delete-failed", "staging-failed"} \subseteq Errors
  BY DEF DataInv, DataType, Errors, Results, Steps
<1>e. EmptyStaging => \A f \in Files : staged[f] = Absent
  BY <1>t DEF EmptyStaging, StagedIsMoved
<1>1. CASE CreateStaging
  <2>1. moved = {} /\ unlinked = {} /\ pc # "idle" /\ \A f \in Files : staged[f] = Absent
    BY <1>1, <1>t DEF CreateStaging, PlanIsOrdered, StagedIsMoved
  <2>. QED
    BY <1>1, <1>t, <2>1, NoFileMoves DEF CreateStaging, Continue, Answer, DeleteType
<1>2. CASE WriteJournal
  <2>1. moved = {} /\ unlinked = {} /\ pc # "idle"
    BY <1>2, <1>t DEF WriteJournal, PlanIsOrdered
  <2>. QED
    BY <1>2, <1>t, <1>e, <2>1, NoFileMoves
    DEF WriteJournal, Continue, Answer, KeepStaging, RemoveStaging, DeleteType, StagedIsMoved
<1>3. CASE AllMoved
  BY <1>3, <1>t, NoFileMoves DEF AllMoved, Continue, DeleteType, StagedIsMoved
<1>4. CASE RollbackFails
  BY <1>4, <1>t, NoFileMoves DEF RollbackFails, Answer, DeleteType, StagedIsMoved
<1>5. CASE Undone
  BY <1>5, <1>t, <1>e, NoFileMoves
  DEF Undone, Answer, KeepStaging, RemoveStaging, DeleteType, StagedIsMoved
<1>6. CASE AllUnlinked
  BY <1>6, <1>t, NoFileMoves DEF AllUnlinked, Continue, DeleteType, StagedIsMoved, PlanIsOrdered
<1>7. CASE Finish
  BY <1>7, <1>t, <1>e, NoFileMoves
  DEF Finish, Answer, KeepStaging, RemoveStaging, DeleteType, StagedIsMoved
<1>8. CASE Kill
  BY <1>8, <1>t, NoFileMoves DEF Kill, Answer, DeleteType, StagedIsMoved
<1>9. ASSUME NEW f \in Files, MoveFails(f) PROVE DataInv'
  <2>1. pc \in {"moving", "take"} /\ unlinked = {}
    BY <1>9, <1>t DEF MoveFails, PlanIsOrdered
  <2>2. /\ pc' \in {"unstage", "rollback"} /\ code' \in Errors /\ result' \in Results
        /\ UNCHANGED <<home, staged, plan, moved, unlinked, staging, requests, replaced>>
    BY <1>9, <1>t, UndoType DEF MoveFails, DeleteType
  <2>. QED
    BY <1>t, <2>1, <2>2, NoFileMoves DEF DeleteType, StagedIsMoved
<1>10. ASSUME NEW f \in Files, UnlinkFails(f) PROVE DataInv'
  <2>1. /\ pc = "unlinking"
        /\ UNCHANGED <<home, staged, plan, moved, unlinked, staging, requests, replaced>>
    BY <1>10 DEF UnlinkFails
  <2>2. CASE unlinked = {}
    <3>1. pc' \in {"unstage", "rollback"} /\ code' \in Errors /\ result' \in Results
      BY <1>10, <1>t, <2>2, UndoType DEF UnlinkFails, UnlinkError, DeleteType
    <3>. QED
      BY <1>t, <2>1, <2>2, <3>1, NoFileMoves DEF DeleteType, StagedIsMoved
  <2>3. CASE unlinked # {}
    BY <1>10, <1>t, <2>1, <2>3, NoFileMoves
    DEF UnlinkFails, UnlinkError, Answer, DeleteType, StagedIsMoved
  <2>. QED
    BY <2>2, <2>3
<1>11. ASSUME NEW f \in Files, LookBefore(f) PROVE DataInv'
  <2>1. /\ pc = "moving" /\ pc' = "take" /\ unlinked = {}
        /\ UNCHANGED <<home, staged, plan, moved, unlinked, staging, code, result, requests,
                       replaced>>
    BY <1>11, <1>t DEF LookBefore, Continue, PlanIsOrdered
  <2>. QED
    BY <1>t, <2>1, NoFileMoves DEF DeleteType, StagedIsMoved
<1>12. ASSUME NEW f \in Files, LookBack(f) PROVE DataInv'
  <2>1. /\ pc = "rollback" /\ pc' = "return" /\ unlinked = {}
        /\ UNCHANGED <<home, staged, plan, moved, unlinked, staging, code, result, requests,
                       replaced>>
    BY <1>12, <1>t DEF LookBack, Continue, PlanIsOrdered
  <2>2. \A g \in Latest : g = f
    BY <1>12, <1>t DEF LookBack, Latest, Final, DeleteType, Files
  <2>3. \A g \in Latest : Held(g) <=> plan[g] = UserFile
    BY <1>12, <2>2 DEF LookBack, Held
  <2>. QED
    BY <1>t, <2>1, <2>3, NoFileMoves DEF DeleteType, StagedIsMoved
<1>. QED
  BY <1>1, <1>2, <1>3, <1>4, <1>5, <1>6, <1>7, <1>8, <1>9, <1>10, <1>11, <1>12

(* A new request: the plan is what is there, and nothing is staged if it goes on. *)
LEMMA PlanKeepsInv ==
  ASSUME DataInv, Plan, UNCHANGED <<starts, owned>> PROVE DataInv'
<1>t. /\ DataType /\ StagedIsMoved /\ Purge /\ MarkerGoesLast /\ OnlyOwned
      /\ UnlinksNoneOfTheirs /\ owned \subseteq Files
  BY DEF DataInv, DataType
<1>1. /\ pc = "idle" /\ plan' = home /\ moved' = {} /\ unlinked' = {}
      /\ UNCHANGED <<home, staged, staging, code, replaced>>
      /\ pc' \in {"idle", "create"}
      /\ pc' = "create" => ~staging
  BY DEF Plan, Answer, Continue
<1>2. DataType'
  BY <1>t, <1>1
  DEF Plan, Answer, Continue, DataType, TypeOK, FilesType, BootType, starts, DeleteType,
      Results, Errors, Steps
<1>3. OnlyOwned' /\ StagedIsMoved' /\ PlanIsCurrent' /\ MarkerGoesLast'
  BY <1>t, <1>1
  DEF OnlyOwned, StagedIsMoved, PlanIsCurrent, MarkerGoesLast, Theirs, Held, Exists
<1>4. PlanIsOrdered'
  BY <1>t, <1>1 DEF PlanIsOrdered, MarkerGoesLast
<1>5. Purge'
  <2>1. pc' = "create" => \A f \in Files : ~Held(f)
    BY <1>t, <1>1, FileValues DEF StagedIsMoved, Held
  <2>. QED
    BY <1>t, <1>1, <2>1 DEF Purge, Kept, AllOff, Theirs, Held
<1>6. UnlinksNoneOfTheirs'
  BY <1>t, <1>1 DEF UnlinksNoneOfTheirs, Theirs, Held, starts
<1>. QED
  BY <1>2, <1>3, <1>4, <1>5, <1>6 DEF DataInv

(* A rename into the staging directory. *)
LEMMA MoveKeepsInv ==
  ASSUME DataInv, NEW f \in Files, Move(f), UNCHANGED <<starts, owned>> PROVE DataInv'
<1>. USE FileFacts
<1>t. /\ DataType /\ StagedIsMoved /\ Purge /\ MarkerGoesLast /\ OnlyOwned
      /\ PlanIsCurrent /\ PlanIsOrdered /\ UnlinksNoneOfTheirs /\ owned \subseteq Files
      /\ FilesType /\ DeleteType
  BY DEF DataInv, DataType, TypeOK
<1>1. /\ pc = "take" /\ f \in Planned \ moved /\ Exists(home[f])
      /\ \A g \in Planned \ moved : f <= g
      /\ moved' = moved \union {f}
      /\ UNCHANGED <<plan, unlinked, staging, requests, replaced>>
      /\ unlinked = {}
  BY <1>t DEF Move, First, PlanIsOrdered
<1>2. /\ home'[f] = Absent /\ staged'[f] = home[f]
      /\ \A g \in Files \ {f} : home'[g] = home[g] /\ staged'[g] = staged[g]
      /\ FilesType'
  BY <1>t, <1>1, FileValues DEF Move, FilesType
<1>3. pc' \in {"moving", "rollback", "unstage"} /\ code' \in Errors /\ result' \in Results
  <2>1. CASE pc' = "moving"
    BY <1>t, <2>1 DEF Move, Continue, Undo, DeleteType, Errors
  <2>2. ASSUME NEW error \in Errors, Undo(moved', error)
        PROVE  pc' \in {"rollback", "unstage"} /\ code' \in Errors /\ result' \in Results
    BY <1>t, <2>2, UndoType DEF DeleteType
  <2>. QED
    BY <2>1, <2>2 DEF Move, Continue, Errors
<1>4. DataType'
  BY <1>t, <1>1, <1>2, <1>3 DEF DataType, TypeOK, BootType, starts, DeleteType, Steps
<1>5. Exists(staged'[f]) /\ staged[f] = Absent
  BY <1>t, <1>1, <1>2 DEF StagedIsMoved
<1>6. \A g \in Files : /\ Theirs(g)' <=> Theirs(g) /\ g # f
                       /\ Held(g)' <=> Held(g) \/ (g = f /\ Theirs(f))
  <2>1. ~Theirs(f)' /\ ~Held(f) /\ (Held(f)' <=> Theirs(f))
    BY <1>2, <1>5, FileValues DEF Theirs, Held
  <2>2. \A g \in Files \ {f} : (Theirs(g)' <=> Theirs(g)) /\ (Held(g)' <=> Held(g))
    BY <1>2 DEF Theirs, Held
  <2>. QED
    BY <2>1, <2>2
<1>7. OnlyOwned'
  BY <1>t, <1>6 DEF OnlyOwned
<1>8. StagedIsMoved'
  BY <1>t, <1>1, <1>2, <1>3, <1>5 DEF StagedIsMoved, Exists
<1>9. PlanIsCurrent'
  BY <1>t, <1>1, <1>3, <1>6 DEF PlanIsCurrent
<1>10. PlanIsOrdered'
  BY <1>t, <1>1, <1>3 DEF PlanIsOrdered
<1>11. Purge'
  <2>. SUFFICES ASSUME ~replaced PROVE Purge'
    BY <1>1 DEF Purge
  <2>1. CASE Kept
    BY <1>t, <1>6, <2>1 DEF Purge, Kept
  <2>2. CASE AllOff /\ \A g \in Files : ~Held(g)
    BY <1>t, <1>1, <1>6, <2>2 DEF Purge, AllOff, OnlyOwned
  <2>. QED
    BY <1>t, <1>1, <2>1, <2>2 DEF Purge
<1>12. MarkerGoesLast'
  <2>. SUFFICES ASSUME Marker \in owned, ~Theirs(Marker)', NEW g \in owned, g < Marker, Theirs(g)'
                PROVE  FALSE
    BY DEF MarkerGoesLast, Theirs
  <2>1. Theirs(g) /\ g \in Files /\ Marker \in Files
    BY <1>t, <1>6
  <2>2. Theirs(Marker)
    BY <1>t, <2>1 DEF MarkerGoesLast, Theirs
  <2>3. f = Marker
    BY <1>6, <2>1, <2>2
  <2>4. g \in Planned \ moved
    BY <1>t, <1>1, <2>1, FileValues DEF PlanIsCurrent, Planned, Exists
  <2>. QED
    BY <1>1, <2>1, <2>3, <2>4 DEF Files
<1>13. UnlinksNoneOfTheirs'
  <2>. SUFFICES ASSUME ~replaced, NEW s \in Starts, phase[s] = "unlink"
                PROVE  ~Theirs(Db)' /\ (Held(Db)' => home'[Db] = Made(s, "empty"))
    BY <1>1 DEF UnlinksNoneOfTheirs, starts
  <2>1. ~Theirs(Db) /\ (Held(Db) => home[Db] = Made(s, "empty"))
    BY <1>t DEF UnlinksNoneOfTheirs
  <2>2. Held(f) => FALSE
    BY <1>5, FileValues DEF Held
  <2>. QED
    BY <1>2, <1>6, <2>1, <2>2
<1>. QED
  BY <1>4, <1>7, <1>8, <1>9, <1>10, <1>11, <1>12, <1>13 DEF DataInv

(* A rename back. *)
LEMMA RollbackKeepsInv ==
  ASSUME DataInv, NEW f \in Files, Rollback(f), UNCHANGED <<starts, owned>> PROVE DataInv'
<1>. USE FileFacts
<1>t. /\ DataType /\ StagedIsMoved /\ Purge /\ MarkerGoesLast /\ OnlyOwned
      /\ PlanIsCurrent /\ PlanIsOrdered /\ UnlinksNoneOfTheirs /\ owned \subseteq Files
      /\ FilesType /\ DeleteType
  BY DEF DataInv, DataType, TypeOK
<1>1. /\ pc = "return" /\ f \in Latest /\ f \in moved
      /\ \A g \in moved : g <= f
      /\ moved' = moved \ {f}
      /\ replaced' = (replaced \/ Exists(home[f]))
      /\ UNCHANGED <<plan, unlinked, staging, code, requests>>
      /\ unlinked = {}
  BY <1>t DEF Rollback, Latest, Final, PlanIsOrdered
<1>2. /\ home'[f] = staged[f] /\ staged'[f] = Absent
      /\ \A g \in Files \ {f} : home'[g] = home[g] /\ staged'[g] = staged[g]
      /\ FilesType'
  BY <1>t, <1>1, FileValues DEF Rollback, FilesType
<1>3. pc' \in {"idle", "rollback"} /\ result' \in Results
  BY <1>t DEF Rollback, Continue, Answer, DeleteType, Results
<1>4. DataType'
  <2>1. replaced' \in BOOLEAN
    BY <1>1
  <2>. QED
    BY <1>t, <1>1, <1>2, <1>3, <2>1 DEF DataType, TypeOK, BootType, starts, DeleteType, Steps
<1>5. ~Theirs(f) /\ (Held(f) <=> plan[f] = UserFile)
  BY <1>t, <1>1 DEF PlanIsCurrent
<1>6. \A g \in Files : /\ Theirs(g)' <=> Theirs(g) \/ (g = f /\ Held(f))
                       /\ Held(g)' <=> Held(g) /\ g # f
  <2>1. ~Held(f)' /\ (Theirs(f)' <=> Held(f))
    BY <1>2, FileValues DEF Theirs, Held
  <2>2. \A g \in Files \ {f} : (Theirs(g)' <=> Theirs(g)) /\ (Held(g)' <=> Held(g))
    BY <1>2 DEF Theirs, Held
  <2>. QED
    BY <1>5, <2>1, <2>2
<1>7. OnlyOwned'
  BY <1>t, <1>6 DEF OnlyOwned
<1>8. StagedIsMoved'
  BY <1>t, <1>1, <1>2, <1>3 DEF StagedIsMoved, Exists
<1>9. PlanIsCurrent'
  BY <1>t, <1>1, <1>3, <1>5, <1>6 DEF PlanIsCurrent
<1>10. PlanIsOrdered'
  BY <1>t, <1>1, <1>3 DEF PlanIsOrdered
<1>11. Purge'
  BY <1>t, <1>1, <1>6 DEF Purge, Kept, AllOff
<1>12. MarkerGoesLast'
  <2>. SUFFICES ASSUME Marker \in owned, ~Theirs(Marker)', NEW g \in owned, g < Marker, Theirs(g)'
                PROVE  FALSE
    BY DEF MarkerGoesLast, Theirs
  <2>1. ~Theirs(Marker) /\ ~Theirs(g) /\ g \in Files /\ Marker \in Files
    BY <1>t, <1>6 DEF MarkerGoesLast, Theirs
  <2>2. g = f /\ plan[g] = UserFile
    BY <1>5, <1>6, <2>1
  <2>3. plan[Marker] = UserFile
    BY <1>t, <1>1, <2>2 DEF PlanIsOrdered
  <2>4. Marker \in moved
    BY <1>t, <1>1, <2>1, <2>3 DEF PlanIsCurrent
  <2>. QED
    BY <1>1, <2>1, <2>2, <2>4 DEF Files
<1>13. UnlinksNoneOfTheirs'
  <2>. SUFFICES ASSUME ~replaced', NEW s \in Starts, phase[s] = "unlink"
                PROVE  ~Theirs(Db)' /\ (Held(Db)' => home'[Db] = Made(s, "empty"))
    BY DEF UnlinksNoneOfTheirs, starts
  <2>1. ~replaced /\ ~Exists(home[f])
    BY <1>1
  <2>2. ~Theirs(Db) /\ (Held(Db) => home[Db] = Made(s, "empty"))
    BY <1>t, <2>1 DEF UnlinksNoneOfTheirs
  <2>3. Exists(Made(s, "empty"))
    BY FileValues DEF Exists
  <2>4. f = Db => ~Held(Db)
    BY <2>1, <2>2, <2>3
  <2>. QED
    BY <1>2, <1>6, <2>2, <2>4
<1>. QED
  BY <1>4, <1>7, <1>8, <1>9, <1>10, <1>11, <1>12, <1>13 DEF DataInv

(* An unlink: everything that was planned is off its place by now. *)
LEMMA UnlinkKeepsInv ==
  ASSUME DataInv, NEW f \in Files, Unlink(f), UNCHANGED <<starts, owned>> PROVE DataInv'
<1>t. /\ DataType /\ StagedIsMoved /\ Purge /\ MarkerGoesLast /\ OnlyOwned
      /\ PlanIsCurrent /\ PlanIsOrdered /\ UnlinksNoneOfTheirs /\ owned \subseteq Files
      /\ FilesType /\ DeleteType
  BY DEF DataInv, DataType, TypeOK
<1>1. /\ pc = "unlinking" /\ Planned \subseteq moved
      /\ unlinked' = unlinked \union {f}
      /\ UNCHANGED <<home, plan, moved, staging, requests, replaced>>
  BY <1>t DEF Unlink, PlanIsOrdered
<1>2. /\ staged'[f] = Absent
      /\ \A g \in Files \ {f} : staged'[g] = staged[g]
      /\ FilesType'
  BY <1>t, <1>1, FileValues DEF Unlink, FilesType
<1>3. pc' \in {"idle", "unlinking"} /\ code' \in Errors /\ result' \in Results
  BY <1>t, <1>1 DEF Unlink, Continue, UnlinkError, Answer, DeleteType, Results
<1>4. DataType'
  BY <1>t, <1>1, <1>2, <1>3 DEF DataType, TypeOK, BootType, starts, DeleteType, Steps
<1>5. \A g \in Files : /\ Theirs(g)' <=> Theirs(g)
                       /\ Held(g)' => Held(g)
  BY <1>1, <1>2, FileValues DEF Theirs, Held
<1>6. AllOff
  BY <1>t, <1>1, FileValues DEF AllOff, PlanIsCurrent, Planned, Exists
<1>7. OnlyOwned'
  BY <1>t, <1>5 DEF OnlyOwned
<1>8. StagedIsMoved'
  BY <1>t, <1>1, <1>2, <1>3 DEF StagedIsMoved, Exists
<1>9. PlanIsCurrent' /\ PlanIsOrdered' /\ MarkerGoesLast'
  BY <1>t, <1>1, <1>3, <1>5 DEF PlanIsCurrent, PlanIsOrdered, MarkerGoesLast, Theirs, Planned
<1>10. Purge'
  BY <1>t, <1>1, <1>3, <1>5, <1>6 DEF Purge, AllOff
<1>11. UnlinksNoneOfTheirs'
  BY <1>t, <1>1, <1>5, FileFacts DEF UnlinksNoneOfTheirs, starts
<1>. QED
  BY <1>4, <1>7, <1>8, <1>9, <1>10, <1>11 DEF DataInv

-----------------------------------------------------------------------------
LEMMA DataInitInv == DataInit => DataInv
<1>. SUFFICES ASSUME DataInit PROVE DataInv
  OBVIOUS
<1>. USE FileFacts, MakerFacts, FileValues
<1>1. TypeOK /\ DataType
  <2>1. TypeOK
    BY InitInv DEF DataInit, BootInv
  <2>2. DeleteType
    <3>1. DeleteInit
      BY DEF DataInit
    <3>2. requests \in 0 .. MaxDeletes /\ plan \in [Files -> File]
      BY <3>1 DEF DeleteInit
    <3>. QED
      BY <3>1, <3>2 DEF DeleteInit, DeleteType, Steps, Results, Errors
  <2>. QED
    BY <2>1, <2>2 DEF DataInit, DataType
<1>2. /\ \A f \in Files : staged[f] = Absent
      /\ pc = "idle" /\ unlinked = {} /\ moved = {} /\ ~staging
      /\ owned = {f \in Files : Theirs(f)}
  BY DEF DataInit, Init, DeleteInit, Theirs
<1>3. MarkerGoesLast
  BY <1>2 DEF MarkerGoesLast, Theirs
<1>. QED
  BY <1>1, <1>2, <1>3
  DEF DataInv, OnlyOwned, StagedIsMoved, PlanIsCurrent, PlanIsOrdered, Purge, Kept, Held,
      UnlinksNoneOfTheirs, DataInit, Init, BootInit

(* The inductive invariant of deletions and starts. *)
THEOREM DataInductive == DataSpec => []DataInv
<1>1. DataInv /\ [DataNext]_vars => DataInv'
  <2>. SUFFICES ASSUME DataInv, [DataNext]_vars PROVE DataInv'
    OBVIOUS
  <2>1. CASE UNCHANGED vars
    BY <2>1
    DEF vars, files, starts, dvars, DataInv, DataType, TypeOK, FilesType, BootType, DeleteType,
        OnlyOwned, StagedIsMoved, PlanIsCurrent, PlanIsOrdered, Purge, Kept, AllOff,
        MarkerGoesLast, Theirs, Held, Planned, Latest, Final, UnlinksNoneOfTheirs, Exists
  <2>2. CASE Request
    BY <2>2, PlanKeepsInv DEF Request
  <2>3. CASE Helper
    BY <2>3, QuietStepKeepsInv, MoveKeepsInv, RollbackKeepsInv, UnlinkKeepsInv
    DEF Helper, HelperStep
  <2>4. ASSUME NEW s \in Starts, Start(s) \/ StartStep(s) PROVE DataInv'
    BY <2>4, StartKeepsData DEF Start, StartStep
  <2>. QED
    BY <2>1, <2>2, <2>3, <2>4 DEF DataNext
<1>. QED
  BY DataInitInv, <1>1, PTL DEF DataSpec

(* Whatever fails and whenever the helper is killed: if one of the user's files
   is gone, none is left at its place (deleteDesktopDatabaseFiles,
   rollbackDeleteRecords). *)
THEOREM UserNeverHalfDeleted == DataSpec => []NeverHalfDeleted
<1>1. DataInv => NeverHalfDeleted
  BY DEF DataInv, Purge, Kept, AllOff, Theirs, Held, NeverHalfDeleted
<1>. QED
  BY <1>1, DataInductive, PTL

(* An interrupted deletion never looks like a first use while the user's
   database or backups are in place. *)
THEOREM MarkerLeavesLast == DataSpec => []MarkerGoesLast
  BY DataInductive, PTL DEF DataInv

(* Type correctness of starts and deletions. *)
THEOREM DataTypeCorrect == DataSpec => []DataType
  BY DataInductive, PTL DEF DataInv

-----------------------------------------------------------------------------
(* Answers. *)

\* What the records say while a deletion runs, and after it.
RecordsAreTrue ==
  /\ unlinked \subseteq moved /\ moved \subseteq Planned
  /\ pc = "unstage" => moved = {}
  /\ pc = "finish" => unlinked = moved

AnswerInv == RecordsAreTrue /\ AnswerIsTrue

(* The error handling records nothing. *)
LEMMA UndoAnswers ==
  ASSUME NEW records, NEW error, Undo(records, error)
  PROVE  pc' = (IF records = {} THEN "unstage" ELSE "rollback")
BY DEF Undo, Continue

LEMMA AnswerStep == ASSUME DataInv, AnswerInv, [DataNext]_vars PROVE AnswerInv'
<1>. USE DEF AnswerInv, RecordsAreTrue, AnswerIsTrue, Planned, Answer, Continue
<1>t. /\ DeleteType /\ StagedIsMoved /\ PlanIsOrdered
      /\ unlinked \subseteq Files /\ moved \subseteq Files
  BY DEF DataInv, DataType, DeleteType
<1>1. CASE UNCHANGED dvars
  BY <1>1 DEF dvars
<1>2. CASE Plan
  BY <1>2 DEF Plan
<1>3. CASE \/ CreateStaging \/ WriteJournal \/ RollbackFails \/ AllUnlinked \/ AllMoved \/ Kill
           \/ \E f \in Files : LookBefore(f) \/ LookBack(f)
  BY <1>3 DEF CreateStaging, WriteJournal, RollbackFails, AllUnlinked, AllMoved, Kill,
    LookBefore, LookBack
<1>4. ASSUME NEW f \in Files, Move(f) PROVE AnswerInv'
  BY <1>t, <1>4, UndoAnswers DEF Move, First, PlanIsOrdered
<1>5. ASSUME NEW f \in Files, MoveFails(f) PROVE AnswerInv'
  BY <1>5, UndoAnswers DEF MoveFails
<1>6. ASSUME NEW f \in Files, Rollback(f) PROVE AnswerInv'
  BY <1>t, <1>6 DEF Rollback, PlanIsOrdered
<1>7. CASE Undone
  BY <1>t, <1>7 DEF Undone, PlanIsOrdered, DeleteType, Errors
<1>8. ASSUME NEW f \in Files, Unlink(f) PROVE AnswerInv'
  <2>1. unlinked' = unlinked \union {f} /\ f \in moved /\ UNCHANGED <<moved, plan, staging>>
    BY <1>8 DEF Unlink, First
  <2>2. pc' = "unlinking" \/ (pc' = "idle" /\ result' = "partial")
    BY <1>8, <2>1 DEF Unlink, UnlinkError
  <2>. QED
    BY <1>t, <1>8, <2>1, <2>2 DEF Unlink, StagedIsMoved, PlanIsOrdered
<1>9. ASSUME NEW f \in Files, UnlinkFails(f) PROVE AnswerInv'
  <2>1. UNCHANGED <<unlinked, moved, plan, staging>>
    BY <1>9 DEF UnlinkFails
  <2>2. \/ pc' \in {"rollback", "unstage"} /\ (pc' = "unstage" => moved = {})
        \/ unlinked # {} /\ pc' = "idle" /\ result' = "partial"
    BY <1>9, UndoAnswers DEF UnlinkFails, UnlinkError
  <2>. QED
    BY <1>t, <1>9, <2>1, <2>2 DEF UnlinkFails, StagedIsMoved, PlanIsOrdered
<1>10. CASE Finish
  BY <1>t, <1>10 DEF Finish, RemoveStaging, KeepStaging, PlanIsOrdered
<1>. QED
  BY <1>1, <1>2, <1>3, <1>4, <1>5, <1>6, <1>7, <1>8, <1>9, <1>10
  DEF DataNext, Request, Helper, HelperStep, Start, StartStep, vars

(* What a deletion answers is what became of the planned files. *)
THEOREM DeletionAnswersAreTrue == DataSpec => []AnswerIsTrue
<1>1. DataInit => AnswerInv
  BY DEF DataInit, DeleteInit, AnswerInv, RecordsAreTrue, AnswerIsTrue
<1>2. AnswerInv => AnswerIsTrue
  BY DEF AnswerInv
<1>. QED
  BY <1>1, <1>2, AnswerStep, DataInductive, PTL DEF DataSpec
=============================================================================
