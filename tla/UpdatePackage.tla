--------------------------- MODULE UpdatePackage ----------------------------
(* From the published manifest to the bundle in service: the check, the      *)
(* verification that downloads, unpacks and looks at a package, the          *)
(* revalidation before it is applied, and the copy that is switched to.      *)
(* Only one of them runs at a time (try_acquire_operation); failures, and a  *)
(* crash with the start that follows, may come between any two steps.        *)
EXTENDS UpdateState, UpdateFetch, BundleCopy

CONSTANTS
  Webs,         \* what the network may answer at one time
  Publications, \* what may have been published: digest -> archive
  Current,      \* the installed version
  System        \* the version of the system

ASSUME DigestsAssumption == Absent \notin Digests
\* An archive lists its entries; a candidate has a digest.
ASSUME PublicationsAssumption ==
  \A p \in Publications : \A d \in Digests : p[d].entries \in Seq(ToSet(p[d].entries))
ASSUME PayloadsAssumption == \A c \in Candidates : c.payload.sha256 \in Digests

VARIABLES
  published, \* the archive behind each digest
  mem, file, \* the update state, in memory and on disk
  offer,     \* the release that is being verified or applied, or Absent
  parts,     \* digests with a file in incoming/
  package,   \* digest -> what packages/ holds: "none", "right" or "wrong" bytes
  unpacked,  \* digest -> entries unpacked in extract/<digest>.tmp, -1 without it
  ready,     \* digest -> the tree in extract/<digest>, or Absent
  erred,     \* an operation has given up without recording how it ended
  lost       \* the staged files of the verified candidate were removed or changed

stageVars == <<parts, package, unpacked, ready, lost>>
stateVars == <<mem, file, erred>>
vars == <<pc, faults, copyVars, published, offer, stateVars, stageVars>>

EmptyTree == <<>>
Entries(d) == published[d].entries
Steps == {"idle", "down", "check", "verify", "recover", "cache", "create", "cleanup", "sign",
          "package", "extract", "unpack", "ready", "record", "bundle", "fail", "apply",
          "handoff", "exit", "switch", "copy", "promote", "switched", "failed", "live"}

Init ==
  /\ published \in Publications
  /\ mem = Initial /\ file = [form |-> "missing", st |-> Initial]
  /\ pc = "idle" /\ faults = 0 /\ erred = FALSE /\ lost = FALSE /\ offer = Absent
  /\ parts = {} /\ package = [d \in Digests |-> "none"]
  /\ unpacked = [d \in Digests |-> -1] /\ ready = [d \in Digests |-> Absent]
  /\ copy = [d \in Digests |-> Absent] /\ writing = Absent /\ live = Absent

----------------------------------------------------------------------------
(* Records                                                                   *)

\* A mutator writes the file, and takes the state back when that fails.  It may
\* fail once the file has its new content (sync_directory after the rename).
Record(nexts, to) ==
  \E next \in nexts :
    \/ mem' = next /\ file' = Written(next) /\ Goto(to) /\ Fine /\ UNCHANGED erred
    \/ /\ Fault /\ Goto("idle") /\ erred' = TRUE
       /\ UNCHANGED mem /\ file' \in {file, Written(next)}

\* cleanup_discarded_verified_artifacts: the files of a verified candidate that
\* is about to be replaced, unless its replacement has the same digest.
Discarded(d) ==
  /\ package' = [package EXCEPT ![d] = "none"]
  /\ ready' = [ready EXCEPT ![d] = IF @ = Absent THEN Absent ELSE EmptyTree]
DiscardsInPart(d) ==
  /\ \/ UNCHANGED <<package, ready>>
     \/ /\ package' = [package EXCEPT ![d] = "none"]
        /\ ready' \in {ready, [ready EXCEPT ![d] = IF @ = Absent THEN @ ELSE RootOnly]}
  /\ lost' = (lost \/ package' # package \/ ready' # ready)
RecordReplacing(nexts, kept) ==
  LET d == mem.cand.payload.sha256
      discards == mem.verified /\ d # kept
  IN /\ UNCHANGED <<parts, unpacked>>
     /\ \/ /\ Record(nexts, "idle")
           /\ IF discards THEN Discarded(d) /\ lost' = (mem' = mem)
              ELSE UNCHANGED <<package, ready, lost>>
        \/ /\ discards /\ DiscardsInPart(d)
           /\ Fault /\ Goto("idle") /\ erred' = TRUE /\ UNCHANGED <<mem, file>>

----------------------------------------------------------------------------
(* The check: run_update_check                                               *)

\* What a fetch comes to: no manifest, or a selection.
Selections ==
  {{SelectUpdate(releases, Current, System) : releases \in FetchManifest(web)} : web \in Webs}
Offers == {selection.release : selection \in (UNION Selections) \ {Nothing, Ambiguous}}
ASSUME OffersAssumption == \A r \in Offers : Identity(r) \in Candidates

BeginsCheck(trigger) ==
  /\ pc = "idle" /\ Record(BeginCheck(mem, trigger), "check")
  /\ UNCHANGED <<copyVars, published, offer, stageVars>>

Checks ==
  /\ pc = "check" /\ UNCHANGED <<copyVars, published, offer>>
  /\ \E fetched \in Selections :
       \/ /\ fetched \subseteq {Ambiguous}
          /\ Record(RecordFailure(mem), "idle") /\ UNCHANGED stageVars
       \/ /\ fetched = {Nothing}
          /\ RecordReplacing(RecordNoUpdate(mem), Absent)
       \/ \E selection \in fetched \ {Nothing, Ambiguous} :
            LET r == selection.release
            IN RecordReplacing(RecordAvailable(mem, Identity(r)),
                 IF SameCandidate(mem, Identity(r)) THEN mem.cand.payload.sha256 ELSE r.sha256)

\* Beside whatever runs.
ClaimsNotification ==
  /\ pc # "down"
  /\ \E next \in ClaimNotification(mem) :
       /\ file' = Written(next)
       /\ \/ mem' = next /\ Fine
          \/ UNCHANGED mem /\ Fault
  /\ UNCHANGED <<pc, erred, copyVars, published, offer, stageVars>>

----------------------------------------------------------------------------
(* The verification: UpdateVerificationCoordinator::run                      *)

\* recover_staging_artifacts
SweptParts == \* mutant: the temporary folders of the extraction stay
  parts' = {} /\ UNCHANGED unpacked
Swept == parts' = {} /\ unpacked' = [d \in Digests |-> -1]
SweepsLeftovers ==
  /\ pc = "idle" /\ mem.status \notin {"checking", "available"} /\ Swept
  /\ UNCHANGED <<pc, faults, copyVars, published, offer, stateVars, package, ready, lost>>

BeginsVerification ==
  /\ pc = "idle" /\ mem.status = "available" /\ Goto("verify")
  /\ UNCHANGED <<faults, copyVars, published, offer, stateVars, stageVars>>

Verifies ==
  /\ pc = "verify" /\ UNCHANGED <<copyVars, published>>
  /\ \E fetched \in Selections :
       \/ /\ fetched \subseteq {Ambiguous} /\ Goto("fail")
          /\ UNCHANGED <<faults, offer, stateVars, stageVars>>
       \/ /\ fetched = {Nothing}
          /\ RecordReplacing(RecordRevalidatedNoUpdate(mem), Absent) /\ UNCHANGED offer
       \/ \E selection \in fetched \ {Nothing, Ambiguous} :
            LET r == selection.release
            IN IF SameCandidate(mem, Identity(r))
               THEN /\ Record(BeginPackageVerification(mem, Identity(r)), "recover")
                    /\ offer' = r /\ UNCHANGED stageVars
               ELSE RecordReplacing(ReplaceAvailable(mem, Identity(r)), r.sha256) /\ UNCHANGED offer

Failing == Goto("fail") /\ Fault
Recovers ==
  /\ pc = "recover" /\ UNCHANGED <<copyVars, published, offer, stateVars, package, ready, lost>>
  /\ \/ Swept /\ Goto("cache") /\ Fine
     \/ Failing /\ parts' \in {parts, {}} /\ UNCHANGED unpacked

\* revalidate_cached_artifact, remove_invalid_cached_artifact
LooksForPackage ==
  LET d == offer.sha256
  IN /\ pc = "cache" /\ UNCHANGED <<copyVars, published, offer, stateVars, parts, unpacked, ready, lost>>
     /\ \/ /\ package[d] = "right" /\ Signed(offer)
           /\ Goto("package") /\ UNCHANGED <<faults, package>>
        \/ /\ package[d] # "right" \/ ~Signed(offer)
           /\ Goto("create") /\ Fine /\ package' = [package EXCEPT ![d] = "none"]
        \/ Failing /\ UNCHANGED package

\* download_and_verify_artifact, up to the last byte of the answer
Downloads ==
  LET d == offer.sha256
  IN /\ pc = "create" /\ UNCHANGED <<copyVars, published, offer, stateVars, package, unpacked, ready, lost>>
     /\ \E web \in Webs, later \in Webs :
          LET pages == FetchPackage(web, later, offer)
          IN \/ /\ pages = {} \/ package[d] # "none" \/ d \in parts
                /\ Goto("fail") /\ UNCHANGED <<faults, parts>>
             \/ /\ package[d] = "none" /\ d \notin parts /\ parts' = parts \union {d}
                /\ \E page \in pages :
                     \/ Goto(IF ArrivesWhole(page, offer) THEN "sign" ELSE "cleanup") /\ Fine
                     \/ Goto("cleanup") /\ Fault

\* cleanup_part: a part that cannot be removed stays.
CleansUp ==
  /\ pc = "cleanup" /\ Goto("fail")
  /\ \/ parts' = parts \ {offer.sha256} /\ Fine
     \/ UNCHANGED parts /\ Fault
  /\ UNCHANGED <<copyVars, published, offer, stateVars, package, unpacked, ready, lost>>

KeepsPackage ==
  LET d == offer.sha256
  IN /\ pc = "sign" /\ UNCHANGED <<copyVars, published, offer, stateVars, unpacked, ready, lost>>
     /\ \/ /\ Signed(offer) /\ Goto("package") /\ Fine
           /\ package' = [package EXCEPT ![d] = "right"] /\ parts' = parts \ {d}
        \/ ~Signed(offer) /\ Goto("cleanup") /\ UNCHANGED <<faults, package, parts>>
        \/ Goto("cleanup") /\ Fault /\ UNCHANGED <<package, parts>>

RecordsPackage ==
  /\ pc = "package" /\ Record(RecordPackage(mem, Identity(offer)), "extract")
  /\ UNCHANGED <<copyVars, published, offer, stageVars>>

\* extract_or_revalidate removes what is there; extract_verified_archive then
\* looks at the whole archive before it creates the folders.
BeginsExtraction ==
  LET d == offer.sha256
      accepted == package[d] = "right" /\ Preflight(published[d]) /\ unpacked[d] = -1
  IN /\ pc = "extract" /\ UNCHANGED <<copyVars, published, offer, stateVars, parts, package, lost>>
     /\ \/ /\ ready' = [ready EXCEPT ![d] = Absent] /\ Fine
           /\ Goto(IF accepted THEN "unpack" ELSE "fail")
           /\ unpacked' = [unpacked EXCEPT ![d] = IF accepted THEN 0 ELSE @]
        \/ Failing /\ UNCHANGED <<ready, unpacked>>

UnpacksShort == \* mutant: the last step is missed
  LET d == offer.sha256
  IN /\ pc = "unpack" /\ UNCHANGED <<copyVars, published, offer, stateVars, parts, package, ready, lost>>
     /\ unpacked' = [unpacked EXCEPT ![d] = @ + 1] /\ Fine
     /\ Goto(IF unpacked'[d] = Len(Entries(d)) THEN "ready" ELSE "unpack")
\* An error removes the temporary folder, as long as that succeeds.
Unpacks ==
  LET d == offer.sha256
  IN /\ pc = "unpack" /\ UNCHANGED <<copyVars, published, offer, stateVars, parts, package, ready, lost>>
     /\ \/ /\ unpacked' = [unpacked EXCEPT ![d] = @ + 1] /\ Fine
           /\ Goto(IF unpacked[d] = Len(Entries(d)) THEN "ready" ELSE "unpack")
        \/ Failing /\ unpacked' \in {unpacked, [unpacked EXCEPT ![d] = -1]}

MakesReady ==
  LET d == offer.sha256
  IN /\ pc = "ready" /\ UNCHANGED <<copyVars, published, offer, stateVars, parts, package, lost>>
     /\ \/ /\ package[d] = "right" /\ ready[d] = Absent /\ Goto("record") /\ Fine
           /\ ready' = [ready EXCEPT ![d] = TreeAfter(Entries(d), unpacked[d])]
           /\ unpacked' = [unpacked EXCEPT ![d] = -1]
        \/ /\ UNCHANGED ready /\ unpacked' = [unpacked EXCEPT ![d] = -1]
           /\ Failing

RecordsExtraction ==
  /\ pc = "record" /\ Record(RecordExtraction(mem, Identity(offer)), "bundle")
  /\ UNCHANGED <<copyVars, published, offer, stageVars>>

\* validate_extracted_app_bundle and bundle_matches_candidate, the package once
\* more, and record_verified; or cleanup_ready_directory.
RecordsVerified ==
  LET d == offer.sha256
      stands == AppBundle(ready[d], offer.version) /\ package[d] = "right"
  IN /\ pc = "bundle" /\ UNCHANGED <<copyVars, published, offer, parts, package, unpacked>>
     /\ \/ /\ stands /\ Record(RecordVerified(mem, Identity(offer)), "idle")
           /\ lost' = FALSE /\ UNCHANGED ready
        \/ /\ ~stands /\ Goto("fail") /\ UNCHANGED <<stateVars, lost>>
           /\ \/ ready' = [ready EXCEPT ![d] = Absent] /\ Fine
              \/ UNCHANGED ready /\ Fault

\* fail(): the candidate is dropped, its files are not.
Fails ==
  /\ pc = "fail" /\ Record(RecordVerificationFailure(mem), "idle")
  /\ UNCHANGED <<copyVars, published, offer, stageVars>>

----------------------------------------------------------------------------
(* Applying it                                                               *)

\* revalidate_verified_candidate and validate_extracted_bundle, with what a
\* fetch selects.
Stands(s) ==
  \E r \in Offers :
    LET d == r.sha256
    IN /\ SameCandidate(s, Identity(r)) /\ package[d] = "right" /\ Signed(r)
       /\ ready[d] # Absent /\ AppBundle(ready[d], r.version)
       /\ Preflight(published[d]) /\ Matches(ready[d], Entries(d))

\* apply_verified_update_worker
BeginsApply ==
  /\ pc = "idle" /\ mem.status = "available" /\ mem.verified
  /\ VersionLess(Current, mem.cand.payload.version)
  /\ Stands(mem)
  /\ Record(BeginApply(mem, mem.cand), "handoff")
  /\ UNCHANGED <<copyVars, published, offer, stageVars>>
HandsOff ==
  /\ pc = "handoff" /\ Record(RecordHandoff(mem), "exit")
  /\ UNCHANGED <<copyVars, published, offer, stageVars>>

Digest == mem.cand.payload.sha256
Version == mem.cand.payload.version
\* One mutator after another.
Then(nexts, Mutator(_)) == UNION {Mutator(s) : s \in nexts}
\* record_recovery_failure and record_rollback_completed, the database and the
\* bundle of the installed version being in place.
RolledBack(s) ==
  Then(RecordRecoveryFailure(s, "rollback-pending", "unknown"),
       LAMBDA t : RecordRollbackCompleted(t, "other"))
\* record_staged_migration_no_pending to record_bundle_switching, the candidate
\* being healthy; record_bundle_switched to complete_update.
Migrated(s) == Then(Then(ClaimMigration(s), RecordNoPending), RecordSwitching)
Promoted(s) == Then(Then(RecordBundleSwitched(s), RecordCleanupPending), CompleteUpdate)

\* A start: load_or_default_at, and what the recovery makes of an update that
\* was being applied.  An explicit hand-off is looked at once more
\* (revalidate_staged_candidate), and the start is given up when it no longer
\* stands, or when no release can be fetched; a copy that was interrupted is taken
\* up again; anything else goes back.
Starts ==
  LET st == Loaded(file, TRUE).st
      Becomes(nexts, step) == \E next \in nexts : mem' = next /\ file' = Written(next) /\ Goto(step)
  IN /\ pc \in {"down", "exit"} /\ erred' = FALSE
     /\ UNCHANGED <<faults, copyVars, published, offer, stageVars>>
     /\ IF HasPendingApply(st)
        THEN \/ Stands(st) /\ Becomes(Migrated(st), "switch")
             \/ Becomes({st}, "down")
        ELSE IF st.stage = "bundle-switching" THEN Becomes({st}, "switch")
        ELSE IF st.status = "checking" THEN Becomes(RolledBack(st), "idle")
        ELSE Becomes({st}, "idle")

Switches ==
  /\ \/ PrepareCopy(Digest, ready[Digest], Version)
     \/ BeginCopy(Digest, ready[Digest])
     \/ CopyNode(Digest, ready[Digest])
     \/ CopyBytes(Digest, ready[Digest])
     \/ CopyMode(Digest, ready[Digest])
     \/ CopyFails(Digest)
     \/ EndCopy(Digest, ready[Digest], Version)
     \/ Promote(Digest, Version)
  /\ UNCHANGED <<published, offer, stateVars, stageVars>>

\* Once the switch is recorded the candidate is the installed version.
EndsSwitch ==
  /\ \/ /\ pc = "switched" /\ Goto("live") /\ \E next \in Promoted(mem) : mem' = next
     \/ /\ pc = "failed" /\ Goto("idle") /\ \E next \in RolledBack(mem) : mem' = next
  /\ file' = Written(mem')
  /\ UNCHANGED <<faults, copyVars, published, offer, erred, stageVars>>

----------------------------------------------------------------------------
(* The environment                                                           *)

Crashes ==
  /\ pc \notin {"down", "exit", "live", "switched", "failed"} /\ Fault /\ Goto("down")
  /\ writing' = Absent
  /\ UNCHANGED <<copy, live, published, offer, stateVars, stageVars>>

\* Staged files change while no operation runs: the package, or a file of the tree.
Damages ==
  /\ pc = "idle" /\ Fault /\ lost' = TRUE
  /\ \E d \in Digests :
       \/ package[d] = "right" /\ package' = [package EXCEPT ![d] = "wrong"] /\ UNCHANGED ready
       \/ /\ ready[d] # Absent /\ UNCHANGED package
          /\ \E path \in DOMAIN ready[d] :
               /\ ready[d][path].kind = "file"
               /\ ready' \in {[ready EXCEPT ![d][path].mode = "600"],
                              [ready EXCEPT ![d] = [p \in DOMAIN @ \ {path} |-> @[p]]]}
               /\ ready' # ready
  /\ UNCHANGED <<pc, copyVars, published, offer, stateVars, parts, unpacked>>

Quits ==
  /\ pc = "idle" /\ Goto("down")
  /\ UNCHANGED <<faults, copyVars, published, offer, stateVars, stageVars>>
Finished == pc = "live" /\ UNCHANGED vars \* the new version goes on from here

Works ==
  \/ Checks \/ Verifies \/ Recovers \/ LooksForPackage \/ Downloads \/ CleansUp \/ KeepsPackage
  \/ RecordsPackage \/ BeginsExtraction \/ Unpacks \/ MakesReady \/ RecordsExtraction
  \/ RecordsVerified \/ Fails \/ HandsOff \/ Switches \/ EndsSwitch
Requests ==
  \/ \E trigger \in {"manual", "automatic"} : BeginsCheck(trigger)
  \/ ClaimsNotification \/ SweepsLeftovers \/ BeginsVerification \/ BeginsApply
Next == Works \/ Requests \/ Starts \/ Crashes \/ Quits \/ Damages \/ Finished

Spec == Init /\ [][Next]_vars

----------------------------------------------------------------------------
(* Properties                                                                *)

Nodes(tree) == tree = Absent \/ \A path \in DOMAIN tree : tree[path].kind \in {"dir", "file", "link"}

\* The types; and the state in memory is always one that validate accepts.
TypeOK ==
  /\ mem \in State /\ Valid(mem) /\ file \in File
  /\ pc \in Steps /\ faults \in 0 .. MaxFaults /\ erred \in BOOLEAN /\ lost \in BOOLEAN
  /\ DOMAIN published = Digests
  /\ offer = Absent \/ Identity(offer) \in Candidates
  /\ parts \subseteq Digests /\ package \in [Digests -> {"none", "right", "wrong"}]
  /\ \A d \in Digests : unpacked[d] \in -1 .. Len(Entries(d)) + 1 /\ Nodes(ready[d]) /\ Nodes(copy[d])
  /\ Nodes(live) /\ writing # Absent => writing \in DOMAIN copy[Digest]

\* A number, for versions short enough to have one.
Number(text) == FoldLeft(LAMBDA n, digit : 10 * n + digit, 0, text)
Rank(v) == (Number(v.core[1]) * 1000 + Number(v.core[2])) * 1000 + Number(v.core[3])
Major(text) == Number(text[1])
Suits(r) ==
  /\ r.channel = Channel /\ r.architecture = Architecture /\ r.format = Format /\ r.version.pre = <<>>
  /\ Rank(r.version) > Rank(Current)
  /\ Major(r.min) <= Major(System) /\ (Ranged(r) => Major(System) < Major(r.max))
\* What a check offers is, counted in numbers, the one newest release that suits
\* the machine among all those of a manifest it may have read: not one that sorts
\* last as a text, is for another system, or was picked out of several.
OffersNewest ==
  [][pc = "check" /\ mem'.status = "available" /\ mem'.failure = "none" =>
       \E web \in Webs :
         \E page \in {p \in {web[at] : at \in DOMAIN web} : p.body.type = "manifest"} :
           LET releases == page.body.manifest.releases
               fits == {i \in DOMAIN releases : Suits(releases[i])}
           IN \E i \in fits : /\ mem'.cand = Identity(releases[i])
                              /\ \A j \in fits \ {i} :
                                   Rank(releases[j].version) < Rank(releases[i].version)]_vars

\* The state says that an operation runs only while one does, or after one gave
\* up because the state could not be written; a start puts that right.
CheckingIsWorking == pc = "idle" /\ mem.status = "checking" => erred

\* A verified candidate was signed with a key in force.  What it needs is there
\* and whole, however the downloads and extractions before it ended, unless
\* something removed or changed it since; and that is a tree the recovery would
\* copy: extraction and recovery, each with a check of its own, have the same
\* idea of a safe link.
VerifiedIsStaged ==
  mem.verified /\ ~lost =>
    /\ IsTrusted(mem.cand.key)
    /\ package[Digest] = "right"
    /\ ready[Digest] = TreeAfter(Entries(Digest), Len(Entries(Digest)) + 1)
    /\ SafeTree(ready[Digest])

\* Nothing an interrupted verification left behind refuses the next one: its
\* files are created where there are none.
LeftoversNeverBlock ==
  /\ pc = "create" => offer.sha256 \notin parts /\ package[offer.sha256] = "none"
  /\ pc = "extract" => unpacked[offer.sha256] = -1

\* The record on disk, which is what the next start has, gives a verified candidate
\* up only when a check has found something else, when its verification is asked
\* for again, or once it is in service, and that whether or not the write that does
\* so is reported as a failure: not by a check that fails, a crash, a start, or an
\* application that was rolled back.
VerifiedIsKept ==
  [][file.st.verified /\ ~file'.st.verified =>
       \/ pc = "check" /\ file'.st.cand # file.st.cand /\ file'.st.failure = "none"
       \/ pc \in {"verify", "fail", "switched"}]_vars

\* The bundle that goes in service is the published one, to the last entry,
\* however many times its copy was interrupted and taken up again.
LiveIsCandidate ==
  pc = "switched" =>
    /\ SameBundle(TreeAfter(Entries(Digest), Len(Entries(Digest)) + 1), live)
    /\ AppBundle(live, Version)

\* Its programs can be run: the permissions are those of the candidate, too.
LiveRuns ==
  pc = "switched" =>
    \A path \in DOMAIN live : live[path].kind = "file" => live[path].mode = ready[Digest][path].mode
=============================================================================
