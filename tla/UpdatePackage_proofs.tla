------------------------- MODULE UpdatePackage_proofs -------------------------
(* A package from the manifest to the bundle in service, for every network,   *)
(* publication and number of failures: the state says what runs, what a       *)
(* verified candidate needs stays whole, leftovers block nothing, and the     *)
(* bundle that goes in service is the published one.                          *)
EXTENDS UpdatePackage, WellFoundedInduction, TLAPS

-----------------------------------------------------------------------------
(* The invariants.                                                           *)

\* A state in memory or on disk is one that validate accepts.  A candidate comes
\* from a check, and is not verified while it is being verified.
Good(s) ==
  /\ s \in State /\ Valid(s)
  /\ s.cand # None => s.last # "never"
  /\ s.phase = "package-verification" => ~s.verified
StoreInv ==
  /\ Good(mem) /\ Good(file.st)
  /\ file = Written(file.st) \/ (file.form = "missing" /\ file.st = Initial)

\* The two differ after a write that failed behind its rename.  A candidate that
\* is verified on disk is verified in memory, or what it needs is staged and memory
\* still has its verification, which cannot go on; a switch is never begun on disk
\* alone.
Staged(s) ==
  LET d == s.cand.payload.sha256
  IN /\ IsTrusted(s.cand.key) /\ package[d] = "right"
     /\ ready[d] = TreeAfter(Entries(d), Len(Entries(d)) + 1) /\ SafeTree(ready[d])
Stopped == pc \in {"idle", "down"} /\ mem.status = "checking"
DiskInv ==
  /\ file.st.verified =>
       \/ mem.verified /\ mem.cand = file.st.cand
       \/ ~mem.verified /\ Stopped /\ (~lost => Staged(file.st))
  /\ file.st.stage = "bundle-switching" => file = Written(mem)

StageType ==
  /\ published \in Publications
  /\ package \in [Digests -> {"none", "right", "wrong"}] /\ unpacked \in [Digests -> Int]
  /\ DOMAIN ready = Digests

\* What a verification has reached at each of its steps.
Verifying == {"recover", "cache", "create", "cleanup", "sign", "package", "extract", "unpack",
              "ready", "record", "bundle"}
VerifyInv ==
  /\ pc \in Verifying => offer \in Offers /\ ~mem.verified
  /\ pc \in {"cache", "create", "sign", "package", "extract"} =>
       \A d \in Digests : unpacked[d] = -1
  /\ pc \in {"cache", "create"} => parts = {}
  /\ pc = "create" => package[offer.sha256] = "none"
  /\ pc \in {"package", "extract", "unpack", "ready", "record", "bundle"} => Signed(offer)
  /\ pc \in {"unpack", "ready", "record", "bundle"} => Preflight(published[offer.sha256])
  /\ pc = "unpack" => unpacked[offer.sha256] \in 0 .. Len(Entries(offer.sha256))
  /\ pc = "ready" => unpacked[offer.sha256] = Len(Entries(offer.sha256)) + 1
  /\ pc \in {"record", "bundle"} =>
       ready[offer.sha256] = TreeAfter(Entries(offer.sha256), Len(Entries(offer.sha256)) + 1)

\* A tree that was once extracted has the folders its archive implies: what is
\* taken from it later are files, or everything but the root.
HasFolders(tree, entries) == \A path \in Implied(entries) : IsFolder(tree, path)
TreesInv ==
  \A d \in Digests :
    \/ ready[d] \in {Absent, EmptyTree, RootOnly}
    \/ Preflight(published[d]) /\ HasFolders(ready[d], Entries(d))

\* While the bundles are switched the staged tree is the published one, and a
\* complete copy is equal to it.
Whole(d) == TreeAfter(Entries(d), Len(Entries(d)) + 1)
Switching == {"switch", "copy", "promote", "switched", "failed"}
SwitchInv ==
  /\ pc \in Switching => mem.stage = "bundle-switching"
  /\ mem.stage = "bundle-switching" =>
       pc \in Switching \union {"down"} /\ SameBundle(Whole(Digest), ready[Digest])
  /\ pc = "promote" => SameBundle(ready[Digest], copy[Digest])

PackageInv ==
  /\ StoreInv /\ DiskInv /\ StageType /\ VerifyInv /\ TreesInv /\ SwitchInv
  /\ CheckingIsWorking /\ VerifiedIsStaged /\ LiveIsCandidate

-----------------------------------------------------------------------------
(* Archives and the trees they become.                                       *)

(* A set of numbers has a least one. *)
LEMMA Least ==
  ASSUME NEW S, S \subseteq Nat, S # {}
  PROVE  \E n \in S : \A m \in S : n <= m
<1>1. \E n \in S : \A m \in S : <<m, n>> \notin OpToRel(<, Nat)
  BY WFMin, NatLessThanWellFounded
<1>2. PICK n \in S : \A m \in S : <<m, n>> \notin OpToRel(<, Nat)
  BY <1>1
<1>3. \A m \in S : ~(m < n)
  BY <1>2 DEF OpToRel
<1>. QED
  BY <1>3

(* A link that leads, in the end, to what is no link leads to another link or
   there at once. *)
LEMMA FirstHop ==
  ASSUME NEW links, NEW link \in DOMAIN links, Destination(links, link) \notin DOMAIN links
  PROVE  \/ Resolved(link, links[link]) \in DOMAIN links
         \/ Destination(links, link) = Resolved(link, links[link])
<1>. DEFINE r == Resolved(link, links[link])
            Hop(p) == IF p \in DOMAIN links THEN Resolved(p, links[p]) ELSE p
            Walk(f) == [n \in 0 .. MaxHops |-> IF n = 0 THEN link ELSE Hop(f[n - 1])]
            g == [n \in 0 .. MaxHops |-> IF n = 0 THEN link ELSE r]
            a == CHOOSE f : f = Walk(f)
<1>. SUFFICES ASSUME r \notin DOMAIN links PROVE Destination(links, link) = r
  OBVIOUS
<1>1. g = Walk(g)
  <2>1. ASSUME NEW n \in 0 .. MaxHops PROVE g[n] = IF n = 0 THEN link ELSE Hop(g[n - 1])
    <3>1. CASE n = 0
      BY <3>1
    <3>2. CASE n = 1
      <4>1. g[0] = link /\ g[1] = r
        BY HopsAssumption, <3>2
      <4>. QED
        BY <3>2, <4>1
    <3>3. CASE n > 1
      <4>1. g[n - 1] = r /\ g[n] = r
        BY HopsAssumption, <3>3
      <4>. QED
        BY <3>3, <4>1
    <3>. QED
      BY <3>1, <3>2, <3>3
  <2>. HIDE DEF Hop
  <2>. QED
    BY <2>1
<1>2. a = Walk(a)
  <2>. HIDE DEF Walk, g
  <2>. QED
    BY <1>1
<1>3. Destination(links, link) = a[MaxHops]
  BY DEF Destination
<1>4. \A n \in 0 .. MaxHops : a[n] = IF n = 0 THEN link ELSE Hop(a[n - 1])
  <2>. HIDE DEF a, Hop
  <2>. QED
    BY <1>2
<1>. HIDE DEF a
<1>5. ASSUME NEW n \in 1 .. MaxHops, a[n] # r PROVE FALSE
  <2>. DEFINE S == {k \in 1 .. MaxHops : a[k] # r}
  <2>1. PICK k \in S : \A m \in S : k <= m
    <3>1. S \subseteq Nat /\ S # {}
      BY <1>5, HopsAssumption
    <3>. HIDE DEF S
    <3>. QED
      BY <3>1, Least
  <2>2. CASE k = 1
    BY <1>4, <2>1, <2>2, HopsAssumption
  <2>3. CASE k # 1
    <3>1. k - 1 \in 1 .. MaxHops /\ k - 1 \notin S
      BY <2>1, <2>3, HopsAssumption
    <3>2. a[k - 1] = r
      BY <3>1
    <3>. QED
      BY <1>4, <2>1, <2>3, <3>2, HopsAssumption
  <2>. QED
    BY <2>2, <2>3
<1>6. CASE MaxHops = 0
  BY <1>3, <1>4, <1>6
<1>. QED
  BY <1>3, <1>5, <1>6, HopsAssumption

IsList(entries) == entries \in Seq(ToSet(entries))

LEMMA Listing ==
  ASSUME NEW entries
  PROVE  /\ DOMAIN ByPath(entries) = Listed(entries)
         /\ \A path \in Listed(entries) : \E i \in DOMAIN entries :
              ByPath(entries)[path] = entries[i] /\ entries[i].path = path
<1>1. ASSUME NEW path \in Listed(entries)
      PROVE  \E i \in DOMAIN entries : ByPath(entries)[path] = entries[i] /\ entries[i].path = path
  <2>. DEFINE i == CHOOSE k \in DOMAIN entries : entries[k].path = path
  <2>1. i \in DOMAIN entries /\ entries[i].path = path
    BY DEF Listed
  <2>2. ByPath(entries)[path] = entries[i]
    BY DEF ByPath
  <2>. QED
    BY <2>1, <2>2
<1>. QED
  BY <1>1 DEF ByPath

(* The tree of a whole archive: its entries, and the folders they imply. *)
LEMMA WholeTree ==
  ASSUME NEW entries, IsList(entries), NEW tree, tree = TreeAfter(entries, Len(entries) + 1)
  PROVE  /\ DOMAIN tree = Listed(entries) \union Implied(entries)
         /\ \A path \in Listed(entries) : tree[path] = Extracted(ByPath(entries)[path])
         /\ \A path \in DOMAIN tree \ Listed(entries) : tree[path] = UmaskFolder
<1>. DEFINE all == {entries[i].path : i \in
                      {j \in DOMAIN entries : j <= Len(entries) + 1
                         /\ (entries[j].kind = "dir" => Len(entries) + 1 > Len(entries))}}
<1>1. all = Listed(entries)
  <2>1. \A j \in DOMAIN entries : j <= Len(entries) + 1 /\ Len(entries) + 1 > Len(entries)
    BY DEF IsList
  <2>. QED
    BY <2>1 DEF Listed
<1>2. tree = [path \in all \union Prepared(entries) |->
                IF path \in all THEN Extracted(ByPath(entries)[path]) ELSE UmaskFolder]
  BY DEF TreeAfter
<1>. HIDE DEF all
<1>3. Listed(entries) \union Prepared(entries) = Listed(entries) \union Implied(entries)
  BY DEF Prepared, Listed
<1>. QED
  BY <1>1, <1>2, <1>3

LEMMA NodeFacts ==
  /\ \A e : Extracted(e).kind = e.kind /\ Extracted(e).to = e.to /\ Extracted(e).data = e.data
  /\ UmaskFolder.kind = "dir"
BY DEF Extracted, Node, UmaskFolder

(* What an accepted archive implies to be a folder is one. *)
LEMMA ImpliedAreFolders ==
  ASSUME NEW entries, IsList(entries), Structured(entries)
  PROVE  HasFolders(TreeAfter(entries, Len(entries) + 1), entries)
<1>. DEFINE tree == TreeAfter(entries, Len(entries) + 1)
<1>1. /\ DOMAIN tree = Listed(entries) \union Implied(entries)
      /\ \A path \in Listed(entries) : tree[path] = Extracted(ByPath(entries)[path])
      /\ \A path \in DOMAIN tree \ Listed(entries) : tree[path] = UmaskFolder
  BY WholeTree
<1>2. ASSUME NEW folder \in Implied(entries) PROVE IsFolder(tree, folder)
  <2>1. PICK path \in Listed(entries) : folder \in Folders(path)
    BY DEF Implied
  <2>2. CASE folder \in Listed(entries)
    <3>1. IsFolder(ByPath(entries), folder)
      BY <2>1, <2>2 DEF Structured
    <3>. HIDE DEF tree
    <3>. QED
      BY <1>1, <2>2, <3>1, NodeFacts DEF IsFolder
  <2>3. CASE folder \notin Listed(entries)
    <3>. HIDE DEF tree
    <3>. QED
      BY <1>1, <2>3, NodeFacts DEF IsFolder
  <2>. QED
    BY <2>2, <2>3
<1>. QED
  BY <1>2 DEF HasFolders

(* What the extraction accepts the recovery will copy: two checks of links that
   are written twice agree. *)
LEMMA PreflightIsSafe ==
  ASSUME NEW a, IsList(a.entries), Preflight(a)
  PROVE  SafeTree(TreeAfter(a.entries, Len(a.entries) + 1))
<1>. DEFINE entries == a.entries
            listing == ByPath(entries)
            tree == TreeAfter(entries, Len(entries) + 1)
<1>0. Structured(entries) /\ \A i \in DOMAIN entries : Inspected(entries[i])
  BY DEF Preflight
<1>1. /\ DOMAIN tree = Listed(entries) \union Implied(entries)
      /\ \A path \in Listed(entries) : tree[path] = Extracted(listing[path])
      /\ \A path \in DOMAIN tree \ Listed(entries) : tree[path] = UmaskFolder
  BY WholeTree
<1>2. HasFolders(tree, entries)
  BY <1>0, ImpliedAreFolders
<1>3. /\ DOMAIN listing = Listed(entries)
      /\ \A path \in Listed(entries) : \E i \in DOMAIN entries : listing[path] = entries[i]
  BY Listing
<1>. HIDE DEF tree, listing, entries
<1>4. /\ \A path \in Listed(entries) : tree[path].kind = listing[path].kind /\ tree[path].to = listing[path].to
      /\ \A path \in DOMAIN tree \ Listed(entries) : tree[path].kind = "dir"
  BY <1>1, NodeFacts
<1>5. \A path \in Listed(entries) : Inspected(listing[path])
  BY <1>0, <1>3
<1>6. Links(tree) = Links(listing)
  <2>1. {p \in DOMAIN tree : tree[p].kind = "link"} = {p \in DOMAIN listing : listing[p].kind = "link"}
    BY <1>1, <1>3, <1>4
  <2>. QED
    BY <1>1, <1>3, <1>4, <2>1 DEF Links
<1>7. IsFolder(tree, <<Root>>)
  BY <1>0, <1>1, <1>3, <1>4 DEF Structured, IsFolder, listing
<1>8. ASSUME NEW path \in DOMAIN tree PROVE tree[path].kind \in {"dir", "file", "link"}
  BY <1>4, <1>5 DEF Inspected
<1>9. ASSUME NEW path \in DOMAIN tree, tree[path].kind = "link"
      PROVE  /\ IsTarget(tree[path].to) /\ Ends(tree, path)
             /\ \A folder \in Folders(Resolved(path, tree[path].to)) : IsFolder(tree, folder)
  <2>. DEFINE links == Links(tree)
              r == Resolved(path, tree[path].to)
  <2>1. path \in Listed(entries) /\ listing[path].kind = "link"
    BY <1>4, <1>9
  <2>2. IsTarget(tree[path].to)
    BY <1>4, <1>5, <2>1 DEF Inspected
  <2>3. Ends(listing, path)
    BY <1>0, <2>1 DEF Structured, listing
  <2>4. Ends(tree, path)
    BY <1>1, <1>3, <1>6, <2>3 DEF Ends
  <2>5. path \in DOMAIN links /\ links[path] = tree[path].to /\ DOMAIN links \subseteq Listed(entries)
    BY <1>4, <1>9 DEF Links
  <2>6. r \in Listed(entries)
    <3>1. Destination(links, path) \in DOMAIN listing \ DOMAIN links
      BY <1>6, <2>3 DEF Ends
    <3>. HIDE DEF links
    <3>2. r \in DOMAIN links \/ Destination(links, path) = r
      BY <2>5, <3>1, FirstHop
    <3>. QED
      BY <1>3, <2>5, <3>1, <3>2
  <2>7. Folders(r) \subseteq Implied(entries)
    BY <2>6 DEF Implied
  <2>. QED
    BY <1>2, <2>2, <2>4, <2>7 DEF HasFolders
<1>. QED
  BY <1>7, <1>8, <1>9 DEF SafeTree, tree, entries

-----------------------------------------------------------------------------
(* The mutators of the state.                                                *)

LEMMA Words ==
  /\ {"not-checked", "checking", "no-update", "available", "failed"} \subseteq Statuses
  /\ {"none", "manifest-check", "package-verification", "apply-preparation", "restart-health-check",
      "rollback", "cleanup"} \subseteq Phases
  /\ {"none", "requested", "migration-started"} \subseteq Handoffs
  /\ {"none", "health-pending", "bundle-switching", "bundle-switched", "cleanup-pending",
      "rollback-pending"} \subseteq Stages
  /\ {"none", "other"} \subseteq Failures
BY DEF Statuses, Phases, Handoffs, Stages, Failures

LEMMA GoodFacts ==
  ASSUME NEW s, Good(s)
  PROVE  /\ s \in State
         /\ s.status = "checking" <=> s.phase # "none"
         /\ s.verified => s.proof = "signed" /\ s.cand # None
         /\ s.phase \in Applying => s.verified
         /\ s.stage # "none" => s.phase = StagePhase(s.stage) /\ s.cand # None
         /\ s.handoff # "none" => s.phase = "apply-preparation" /\ s.failure = "none"
         /\ s.status \in {"available", "no-update", "failed", "not-checked"} =>
              s.phase = "none" /\ s.stage = "none" /\ s.handoff = "none" /\ s.db = "unknown"
BY DEF Good, Valid, ValidPending, Applying, StagePhase

LEMMA SettledIs ==
  ASSUME NEW s \in State, NEW status \in {"no-update", "available", "failed"},
         NEW failure \in Failures, NEW n, n = Settled(s, status, failure), ValidPending(s),
         s.cand # None => s.last # "never",
         status = "no-update" => s.cand = None /\ failure = "none",
         status = "available" => s.cand # None,
         status = "failed" => s.cand = None /\ failure # "none"
  PROVE  /\ Good(n) /\ n.status = status /\ n.stage = "none" /\ n.phase = "none" /\ n.failure = failure
         /\ n.cand = s.cand /\ n.verified = s.verified
<1>1. n = [s EXCEPT !.status = status, !.phase = "none", !.failure = failure,
                    !.handoff = "none", !.stage = "none", !.db = "unknown"]
  BY DEF Settled
<1>2. n \in State
  <2>1. /\ status \in Statuses /\ "none" \in Phases /\ "none" \in Handoffs /\ "none" \in Stages
        /\ "unknown" \in {"unknown", "no", "yes"}
    BY Words
  <2>. QED
    BY <1>1, <2>1 DEF State
<1>3. /\ n.status = status /\ n.phase = "none" /\ n.handoff = "none" /\ n.last = s.last
      /\ n.cand = s.cand /\ n.proof = s.proof /\ n.verified = s.verified /\ n.pkg = s.pkg
      /\ n.app = s.app /\ n.failure = failure /\ n.notified = s.notified /\ n.stage = "none"
      /\ n.db = "unknown"
  BY <1>1 DEF State
<1>4. ValidPending(n)
  BY <1>3 DEF ValidPending
<1>5. Valid(n)
  BY <1>3, <1>4 DEF Valid, Applying
<1>. QED
  BY <1>2, <1>3, <1>5 DEF Good

LEMMA NoCandidateIs ==
  ASSUME NEW s \in State, NEW n, n = NoCandidate(s)
  PROVE  n \in State /\ ValidPending(n) /\ n.cand = None /\ ~n.verified /\ n.last = s.last
<1>1. n = [s EXCEPT !.cand = None, !.proof = "none", !.verified = FALSE, !.pkg = FALSE,
                    !.app = FALSE, !.notified = FALSE]
  BY DEF NoCandidate
<1>2. n \in State
  BY <1>1 DEF State
<1>3. /\ n.cand = None /\ n.proof = "none" /\ ~n.verified /\ ~n.pkg /\ ~n.app /\ ~n.notified
      /\ n.last = s.last
  BY <1>1 DEF State
<1>. QED
  BY <1>2, <1>3 DEF ValidPending

LEMMA WithCandidateIs ==
  ASSUME NEW s, Good(s), NEW c \in Candidates, NEW n, n = WithCandidate(s, c)
  PROVE  /\ n \in State /\ ValidPending(n) /\ n.cand = c /\ n.last = s.last
         /\ n.verified => s.verified /\ SameCandidate(s, c)
         /\ SameCandidate(s, c) => n = s
<1>1. CASE SameCandidate(s, c)
  BY <1>1, GoodFacts DEF WithCandidate, SameCandidate, Good, Valid
<1>2. CASE ~SameCandidate(s, c)
  <2>. DEFINE m == NoCandidate(s)
  <2>1. m \in State /\ m.last = s.last
    BY NoCandidateIs, GoodFacts
  <2>2. /\ ~m.verified /\ ~m.pkg /\ ~m.app /\ ~m.notified
    BY GoodFacts DEF NoCandidate, State
  <2>3. n = [m EXCEPT !.cand = c, !.proof = "signed"]
    BY <1>2 DEF WithCandidate
  <2>. HIDE DEF m
  <2>4. n \in State
    BY <2>1, <2>3 DEF State
  <2>5. /\ n.cand = c /\ n.proof = "signed" /\ ~n.verified /\ ~n.pkg /\ ~n.app /\ ~n.notified
        /\ n.last = s.last
    BY <2>1, <2>2, <2>3 DEF State
  <2>. QED
    BY <1>2, <2>4, <2>5, CandidatesAssumption DEF ValidPending
<1>. QED
  BY <1>1, <1>2

\* A mutator that verifies nothing, keeps or drops the candidate, and begins no switch.
Moves(s, n) ==
  /\ Good(n)
  /\ n.verified => s.verified /\ n.cand = s.cand
  /\ n.stage = "bundle-switching" => s.stage = "bundle-switching"
Rests(s, n) == Moves(s, n) /\ n.status # "checking"

LEMMA DropsCandidate ==
  ASSUME NEW s, Good(s), NEW n,
         n \in RecordNoUpdate(s) \union RecordRevalidatedNoUpdate(s)
               \union RecordVerificationFailure(s)
  PROVE  /\ Rests(s, n) /\ ~n.verified /\ n.cand = None
         /\ n \notin RecordVerificationFailure(s) => n.failure = "none"
<1>. DEFINE m == NoCandidate(s)
<1>1. m \in State /\ ValidPending(m) /\ m.cand = None /\ ~m.verified
  BY NoCandidateIs, GoodFacts
<1>2. n = Settled(m, "no-update", "none") \/ n = Settled(m, "failed", "other")
  BY DEF RecordNoUpdate, RecordRevalidatedNoUpdate, RecordVerificationFailure, Stores
<1>3. n \notin RecordVerificationFailure(s) => n = Settled(m, "no-update", "none")
  BY DEF RecordNoUpdate, RecordRevalidatedNoUpdate, RecordVerificationFailure, Stores
<1>. HIDE DEF m
<1>4. "none" \in Failures /\ "other" \in Failures
  BY Words
<1>5. CASE n = Settled(m, "no-update", "none")
  BY <1>1, <1>4, <1>5, SettledIs DEF Rests, Moves
<1>6. CASE n = Settled(m, "failed", "other")
  BY <1>1, <1>3, <1>4, <1>6, SettledIs DEF Rests, Moves
<1>. QED
  BY <1>2, <1>5, <1>6

LEMMA OffersCandidate ==
  ASSUME NEW s, Good(s), NEW c \in Candidates, NEW n,
         n \in RecordAvailable(s, c) \union ReplaceAvailable(s, c)
  PROVE  /\ Rests(s, n) /\ n.cand = c /\ n.failure = "none"
         /\ n.verified <=> s.verified /\ SameCandidate(s, c)
<1>. DEFINE m == WithCandidate(s, c)
            k == Settled(m, "available", "none")
<1>1. /\ m \in State /\ ValidPending(m) /\ m.cand = c /\ m.last = s.last
      /\ m.verified => s.verified /\ SameCandidate(s, c)
      /\ SameCandidate(s, c) => m = s
  BY WithCandidateIs
<1>2. (n = k \/ n = [k EXCEPT !.notified = FALSE]) /\ s.last # "never"
  BY DEF RecordAvailable, ReplaceAvailable, Stores, Good, Valid
<1>. HIDE DEF m
<1>3. /\ Good(k) /\ k.status = "available" /\ k.stage = "none" /\ k.phase = "none" /\ k.failure = "none"
      /\ k.cand = m.cand /\ k.verified = m.verified
  BY <1>1, <1>2, Words, CandidatesAssumption, SettledIs
<1>. HIDE DEF k
<1>4. /\ Good(n) /\ n.status = "available" /\ n.stage = "none" /\ n.failure = "none"
      /\ n.cand = k.cand /\ n.verified = k.verified
  <2>1. CASE n = k
    BY <1>3, <2>1
  <2>2. CASE n = [k EXCEPT !.notified = FALSE]
    <3>1. k \in State
      BY <1>3 DEF Good
    <3>2. n \in State
      BY <2>2, <3>1 DEF State
    <3>3. /\ n.status = k.status /\ n.phase = k.phase /\ n.handoff = k.handoff /\ n.last = k.last
          /\ n.cand = k.cand /\ n.proof = k.proof /\ n.verified = k.verified /\ n.pkg = k.pkg
          /\ n.app = k.app /\ n.failure = k.failure /\ n.stage = k.stage /\ n.db = k.db /\ ~n.notified
      BY <2>2, <3>1 DEF State
    <3>4. Valid(n)
      BY <1>3, <3>3 DEF Good, Valid, ValidPending, Applying
    <3>. QED
      BY <1>3, <3>2, <3>3, <3>4 DEF Good
  <2>. QED
    BY <1>2, <2>1, <2>2
<1>5. SameCandidate(s, c) => c = s.cand
  BY DEF SameCandidate
<1>. QED
  BY <1>1, <1>3, <1>4, <1>5 DEF Rests, Moves

LEMMA FailsCheck ==
  ASSUME NEW s, Good(s), NEW n \in RecordFailure(s)
  PROVE  Rests(s, n) /\ n.verified = s.verified
<1>1. n = Settled(s, IF s.cand = None THEN "failed" ELSE "available", "other")
  BY DEF RecordFailure, Stores
<1>2. s \in State /\ ValidPending(s) /\ "other" \in Failures /\ (s.cand # None => s.last # "never")
  BY Words DEF Good, Valid
<1>. QED
  BY <1>1, <1>2, SettledIs DEF Rests, Moves

LEMMA BeginCheckMoves ==
  ASSUME NEW s, Good(s), NEW trigger, NEW n \in BeginCheck(s, trigger)
  PROVE  Moves(s, n) /\ n.verified = s.verified
<1>1. s \in State /\ n = [s EXCEPT !.status = "checking", !.phase = "manifest-check", !.last = "recent",
                   !.failure = "none", !.handoff = "none", !.stage = "none", !.db = "unknown"]
  BY GoodFacts DEF BeginCheck, Stores
<1>2. n \in State
  BY <1>1, Words DEF State
<1>3. /\ n.status = "checking" /\ n.phase = "manifest-check" /\ n.handoff = "none" /\ n.last = "recent"
      /\ n.cand = s.cand /\ n.proof = s.proof /\ n.verified = s.verified /\ n.pkg = s.pkg
      /\ n.app = s.app /\ n.failure = "none" /\ n.notified = s.notified /\ n.stage = "none"
      /\ n.db = "unknown"
  BY <1>1 DEF State
<1>4. Valid(n)
  BY <1>3 DEF Good, Valid, ValidPending, Applying
<1>. QED
  BY <1>2, <1>3, <1>4 DEF Moves, Good

LEMMA ClaimNotificationMoves ==
  ASSUME NEW s, Good(s), NEW n \in ClaimNotification(s)
  PROVE  Rests(s, n) /\ n.verified = s.verified
<1>1. s \in State /\ s.status = "available" /\ n = [s EXCEPT !.notified = TRUE]
  BY GoodFacts DEF ClaimNotification, Stores
<1>2. n \in State
  BY <1>1 DEF State
<1>3. /\ n.status = s.status /\ n.phase = s.phase /\ n.handoff = s.handoff /\ n.last = s.last
      /\ n.cand = s.cand /\ n.proof = s.proof /\ n.verified = s.verified /\ n.pkg = s.pkg
      /\ n.app = s.app /\ n.failure = s.failure /\ n.stage = s.stage /\ n.db = s.db
  BY <1>1 DEF State
<1>4. Valid(n)
  BY <1>1, <1>3 DEF Good, Valid, ValidPending, Applying
<1>. QED
  BY <1>1, <1>2, <1>3, <1>4 DEF Rests, Moves, Good

LEMMA BeginVerificationMoves ==
  ASSUME NEW s, Good(s), NEW c, NEW n \in BeginPackageVerification(s, c)
  PROVE  Moves(s, n) /\ ~n.verified
<1>1. s \in State /\ SameCandidate(s, c) /\ s.status = "available"
      /\ n = [Unverified(s) EXCEPT !.status = "checking", !.phase = "package-verification",
                               !.failure = "none", !.handoff = "none"]
  BY GoodFacts DEF BeginPackageVerification, Stores
<1>2. n \in State
  BY <1>1, Words DEF State, Unverified
<1>3. /\ n.status = "checking" /\ n.phase = "package-verification" /\ n.handoff = "none"
      /\ n.last = s.last /\ n.cand = s.cand /\ n.proof = s.proof /\ ~n.verified /\ ~n.pkg
      /\ ~n.app /\ n.failure = "none" /\ n.notified = s.notified /\ n.stage = s.stage
      /\ n.db = s.db
  BY <1>1 DEF State, Unverified
<1>4. s.cand # None /\ s.stage = "none" /\ s.last # "never"
  BY <1>1, GoodFacts DEF Good, Valid, ValidPending, SameCandidate
<1>5. Valid(n)
  BY <1>1, <1>3, <1>4, GoodFacts DEF Good, Valid, ValidPending, Applying
<1>. QED
  BY <1>2, <1>3, <1>4, <1>5 DEF Moves, Good

LEMMA RecordPackageMoves ==
  ASSUME NEW s, Good(s), NEW c, NEW n \in RecordPackage(s, c) \union RecordExtraction(s, c)
  PROVE  Moves(s, n) /\ ~n.verified
<1>1. s \in State /\ SameCandidate(s, c) /\ s.phase = "package-verification"
  BY GoodFacts DEF RecordPackage, RecordExtraction, Stores
<1>2. \/ n = [Unverified(s) EXCEPT !.pkg = TRUE]
      \/ n = [s EXCEPT !.app = TRUE, !.verified = FALSE]
  BY DEF RecordPackage, RecordExtraction, Stores
<1>3. n \in State
  BY <1>1, <1>2 DEF State, Unverified
<1>4. /\ n.status = s.status /\ n.phase = s.phase /\ n.handoff = s.handoff
      /\ n.last = s.last /\ n.cand = s.cand /\ n.proof = s.proof /\ ~n.verified
      /\ n.failure = s.failure /\ n.notified = s.notified /\ n.stage = s.stage
      /\ n.db = s.db
  BY <1>1, <1>2 DEF State, Unverified
<1>5. s.proof = "signed" /\ s.cand # None
  BY <1>1 DEF SameCandidate, Good, Valid, ValidPending
<1>6. Valid(n)
  BY <1>1, <1>4, <1>5 DEF Good, Valid, ValidPending, Applying
<1>. QED
  BY <1>3, <1>4, <1>6 DEF Moves, Good

LEMMA RecordVerifiedIs ==
  ASSUME NEW s, Good(s), NEW c, NEW n \in RecordVerified(s, c)
  PROVE  Good(n) /\ n.verified /\ n.cand = c /\ n.status = "available" /\ n.stage = "none"
<1>1. s \in State /\ SameCandidate(s, c) /\ s.phase = "package-verification" /\ s.pkg /\ s.app
      /\ n = [s EXCEPT !.status = "available", !.phase = "none", !.verified = TRUE,
                   !.failure = "none", !.handoff = "none"]
  BY GoodFacts DEF RecordVerified, Stores
<1>2. n \in State
  BY <1>1, Words DEF State
<1>3. /\ n.status = "available" /\ n.phase = "none" /\ n.handoff = "none"
      /\ n.last = s.last /\ n.cand = s.cand /\ n.proof = s.proof /\ n.verified /\ n.pkg = s.pkg
      /\ n.app = s.app /\ n.failure = "none" /\ n.notified = s.notified /\ n.stage = s.stage
      /\ n.db = s.db
  BY <1>1 DEF State
<1>4. s.cand = c /\ s.cand # None /\ s.proof = "signed" /\ s.stage = "none"
  BY <1>1, GoodFacts DEF Good, Valid, ValidPending, SameCandidate, StagePhase
<1>5. Valid(n)
  BY <1>1, <1>3, <1>4, GoodFacts DEF Good, Valid, ValidPending, Applying
<1>. QED
  BY <1>2, <1>3, <1>4, <1>5 DEF Good

LEMMA BeginApplyMoves ==
  ASSUME NEW s, Good(s), NEW c, NEW n \in BeginApply(s, c)
  PROVE  Moves(s, n) /\ n.verified = s.verified
<1>1. s \in State /\ s.status = "available" /\ s.verified /\ SameCandidate(s, c)
      /\ n = [s EXCEPT !.status = "checking", !.phase = "apply-preparation",
                   !.failure = "none", !.handoff = "none"]
  BY GoodFacts DEF BeginApply, Stores
<1>2. n \in State
  BY <1>1, Words DEF State
<1>3. /\ n.status = "checking" /\ n.phase = "apply-preparation" /\ n.handoff = "none"
      /\ n.last = s.last /\ n.cand = s.cand /\ n.proof = s.proof /\ n.verified = s.verified
      /\ n.pkg = s.pkg /\ n.app = s.app /\ n.failure = "none" /\ n.notified = s.notified
      /\ n.stage = s.stage /\ n.db = s.db
  BY <1>1 DEF State
<1>4. s.cand # None /\ s.stage = "none" /\ s.last # "never"
  BY <1>1, GoodFacts DEF Good, Valid
<1>5. Valid(n)
  BY <1>1, <1>3, <1>4, GoodFacts DEF Good, Valid, ValidPending, Applying
<1>. QED
  BY <1>2, <1>3, <1>4, <1>5 DEF Moves, Good

LEMMA HandoffMoves ==
  ASSUME NEW s, Good(s), NEW n \in RecordHandoff(s) \union ClaimMigration(s)
  PROVE  Moves(s, n) /\ n.verified = s.verified /\ n.cand = s.cand /\ n.phase = "apply-preparation"
<1>1. PICK word \in {"requested", "migration-started"} :
        s \in State /\ s.phase = "apply-preparation" /\ s.failure = "none" /\ s.verified
        /\ n = [s EXCEPT !.handoff = word]
  BY GoodFacts DEF RecordHandoff, ClaimMigration, Stores
<1>2. n \in State
  BY <1>1, Words DEF State
<1>3. /\ n.status = s.status /\ n.phase = s.phase /\ n.handoff = word
      /\ n.last = s.last /\ n.cand = s.cand /\ n.proof = s.proof /\ n.verified = s.verified
      /\ n.pkg = s.pkg /\ n.app = s.app /\ n.failure = s.failure /\ n.notified = s.notified
      /\ n.stage = s.stage /\ n.db = s.db
  BY <1>1 DEF State
<1>4. Valid(n)
  BY <1>1, <1>3, GoodFacts DEF Good, Valid, ValidPending, Applying
<1>. QED
  BY <1>1, <1>2, <1>3, <1>4 DEF Moves, Good

(* A state that is moved to a stage of the recovery. *)
LEMMA RecoveringIs ==
  ASSUME NEW s, s \in State, ValidPending(s), s.status = "checking", s.last # "never", s.verified,
         NEW stage \in Stages \ {"none"}, NEW known \in {"unknown", "no", "yes"},
         NEW failure \in Failures,
         failure # "none" => StagePhase(stage) \in {"rollback", "cleanup"},
         NEW n, n = Recovering(s, stage, known, failure)
  PROVE  /\ Good(n) /\ n.stage = stage /\ n.phase = StagePhase(stage) /\ n.verified = s.verified
         /\ n.cand = s.cand /\ n.status = "checking"
<1>1. n = [s EXCEPT !.phase = StagePhase(stage), !.stage = stage, !.db = known,
                    !.failure = failure, !.handoff = "none"]
  BY DEF Recovering
<1>2. StagePhase(stage) \in {"restart-health-check", "rollback", "cleanup"}
  BY DEF StagePhase
<1>3. n \in State
  <2>1. StagePhase(stage) \in Phases /\ "none" \in Handoffs
    BY <1>2, Words
  <2>. QED
    BY <1>1, <2>1 DEF State
<1>4. /\ n.status = s.status /\ n.phase = StagePhase(stage) /\ n.handoff = "none"
      /\ n.last = s.last /\ n.cand = s.cand /\ n.proof = s.proof /\ n.verified = s.verified
      /\ n.pkg = s.pkg /\ n.app = s.app /\ n.failure = failure /\ n.notified = s.notified
      /\ n.stage = stage /\ n.db = known
  BY <1>1 DEF State
<1>5. Valid(n)
  <2>1. ValidPending(n)
    BY <1>4 DEF ValidPending
  <2>2. n.cand # None
    BY <1>4 DEF ValidPending
  <2>. QED
    BY <1>2, <1>4, <2>1, <2>2 DEF Valid, Applying
<1>. QED
  BY <1>2, <1>3, <1>4, <1>5 DEF Good

(* The stages of a switch, and its end. *)
LEMMA MigratedIs ==
  ASSUME NEW s, Good(s), NEW n \in Migrated(s)
  PROVE  Good(n) /\ n.verified = s.verified /\ n.cand = s.cand /\ n.stage = "bundle-switching"
<1>1. PICK a, b : a \in ClaimMigration(s) /\ b \in RecordNoPending(a) /\ n \in RecordSwitching(b)
  BY DEF Migrated, Then
<1>2. Good(a) /\ a.verified = s.verified /\ a.cand = s.cand
  BY <1>1, HandoffMoves DEF Moves
<1>3. b = Recovering(a, "health-pending", "no", "none") /\ a.verified /\ Claimed(a)
  BY <1>1 DEF RecordNoPending, Stores
<1>4. a \in State /\ ValidPending(a) /\ a.status = "checking" /\ a.last # "never"
  BY <1>2, <1>3, GoodFacts DEF Claimed, Good, Valid
<1>5. /\ Good(b) /\ b.stage = "health-pending" /\ b.verified = a.verified /\ b.cand = a.cand
      /\ b.phase = "restart-health-check"
  <2>1. "health-pending" \in Stages \ {"none"} /\ "none" \in Failures
    BY DEF Stages, Failures
  <2>2. StagePhase("health-pending") = "restart-health-check"
    BY DEF StagePhase
  <2>3. "no" \in {"unknown", "no", "yes"}
    OBVIOUS
  <2>4. Good(b)
    BY <1>3, <1>4, <2>1, <2>2, <2>3, RecoveringIs
  <2>. QED
    BY <1>3, <1>4, <2>2, <2>4 DEF Recovering, State
<1>6. b \in State /\ b.phase = "restart-health-check" /\ n = [b EXCEPT !.stage = "bundle-switching"]
  BY <1>1, <1>5 DEF RecordSwitching, Stores, Good
<1>7. n \in State
  BY <1>6, Words DEF State
<1>8. /\ n.status = b.status /\ n.phase = b.phase /\ n.handoff = b.handoff /\ n.last = b.last
      /\ n.cand = b.cand /\ n.proof = b.proof /\ n.verified = b.verified /\ n.pkg = b.pkg
      /\ n.app = b.app /\ n.failure = b.failure /\ n.notified = b.notified
      /\ n.stage = "bundle-switching" /\ n.db = b.db
  BY <1>6 DEF State
<1>9. Valid(n)
  BY <1>5, <1>6, <1>8 DEF Good, Valid, ValidPending, Applying, StagePhase
<1>. QED
  BY <1>2, <1>5, <1>6, <1>7, <1>8, <1>9 DEF Good

LEMMA RolledBackRests ==
  ASSUME NEW s, Good(s), NEW n \in RolledBack(s)
  PROVE  Rests(s, n) /\ n.verified = s.verified /\ n.stage = "none"
<1>1. PICK m \in RecordRecoveryFailure(s, "rollback-pending", "unknown") :
        n \in RecordRollbackCompleted(m, "other")
  BY DEF RolledBack, Then
<1>2. /\ s.status = "checking" /\ s.cand # None
      /\ m = Recovering(s, "rollback-pending", MergeEvidence(s.db, "unknown"), "other")
  BY <1>1 DEF RecordRecoveryFailure, Stores
<1>3. m.verified /\ n = Settled(m, "available", "other")
  BY <1>1 DEF RecordRollbackCompleted, Stores
<1>4. s \in State /\ ValidPending(s) /\ s.last # "never" /\ s.verified
  <2>1. s \in State /\ m.verified = s.verified
    BY <1>2, GoodFacts DEF Recovering, State
  <2>. QED
    BY <1>2, <1>3, <2>1 DEF Good, Valid
<1>5. MergeEvidence(s.db, "unknown") \in {"unknown", "no", "yes"}
  BY DEF MergeEvidence
<1>6. Good(m) /\ m.verified = s.verified /\ m.cand = s.cand
  <2>1. "rollback-pending" \in Stages \ {"none"} /\ "other" \in Failures
    BY DEF Stages, Failures
  <2>2. StagePhase("rollback-pending") \in {"rollback", "cleanup"}
    BY DEF StagePhase
  <2>3. Good(m)
    BY <1>2, <1>4, <1>5, <2>1, <2>2, RecoveringIs
  <2>. QED
    BY <1>2, <1>4, <2>3 DEF Recovering, State
<1>7. m \in State /\ ValidPending(m) /\ (m.cand # None => m.last # "never") /\ "other" \in Failures
  BY <1>6, Words DEF Good, Valid
<1>. QED
  BY <1>2, <1>3, <1>6, <1>7, SettledIs DEF Rests, Moves

LEMMA PromotedRests ==
  ASSUME NEW s, Good(s), NEW n \in Promoted(s)
  PROVE  Rests(s, n) /\ ~n.verified /\ n.stage = "none"
<1>1. PICK a, b : /\ a \in RecordBundleSwitched(s) /\ b \in RecordCleanupPending(a)
                   /\ n \in CompleteUpdate(b)
  BY DEF Promoted, Then
<1>2. s \in State /\ s.verified /\ s.phase = "restart-health-check" /\ s.stage # "none"
      /\ a = [s EXCEPT !.stage = "bundle-switched"]
  BY <1>1, GoodFacts DEF RecordBundleSwitched, Stores
<1>3. a \in State /\ a.phase = s.phase /\ a.last = s.last /\ a.status = s.status
  BY <1>2, Words DEF State
<1>4. b = [a EXCEPT !.phase = "cleanup", !.stage = "cleanup-pending"]
  BY <1>1 DEF RecordCleanupPending, Stores
<1>5. b \in State /\ b.phase = "cleanup" /\ b.last = s.last /\ b.status = s.status
  BY <1>3, <1>4, Words DEF State
<1>6. s.status = "checking"
  BY <1>2, GoodFacts
<1>7. n = Settled(NoCandidate(b), "no-update", "none")
  BY <1>1, <1>5, <1>6 DEF CompleteUpdate, Stores
<1>8. NoCandidate(b) \in State /\ ValidPending(NoCandidate(b)) /\ NoCandidate(b).cand = None
      /\ ~NoCandidate(b).verified
  BY <1>5, NoCandidateIs
<1>9. Good(n) /\ n.status = "no-update" /\ n.stage = "none" /\ n.verified = NoCandidate(b).verified
  <2>. DEFINE m == NoCandidate(b)
  <2>1. m \in State /\ ValidPending(m) /\ m.cand = None /\ n = Settled(m, "no-update", "none")
        /\ "none" \in Failures
    BY <1>7, <1>8, Words
  <2>. HIDE DEF m
  <2>2. Good(n) /\ n.status = "no-update" /\ n.stage = "none" /\ n.verified = m.verified
    BY <2>1, SettledIs
  <2>. QED
    BY <2>2 DEF m
<1>. QED
  BY <1>8, <1>9 DEF Rests, Moves

-----------------------------------------------------------------------------
(* The state a start reads.                                                  *)

LEMMA InterruptedIs ==
  ASSUME NEW s, Good(s), NEW n, n = RecoverInterrupted(s)
  PROVE  Moves(s, n) /\ n.verified = s.verified
<1>0. s \in State
  BY GoodFacts
<1>1. CASE ~Interrupted(s)
  BY <1>1 DEF RecoverInterrupted, Moves
<1>2. CASE Interrupted(s) /\ s.phase = "apply-preparation"
  <2>1. n = Recovering(s, "rollback-pending", "unknown", "other")
    BY <1>2 DEF RecoverInterrupted
  <2>2. ValidPending(s) /\ s.status = "checking" /\ s.last # "never" /\ s.verified
    BY <1>2, GoodFacts DEF Good, Valid, Applying
  <2>3. "rollback-pending" \in Stages \ {"none"} /\ "other" \in Failures
    BY DEF Stages, Failures
  <2>4. StagePhase("rollback-pending") \in {"rollback", "cleanup"}
    BY DEF StagePhase
  <2>5. "unknown" \in {"unknown", "no", "yes"}
    OBVIOUS
  <2>6. Good(n)
    BY <1>0, <2>1, <2>2, <2>3, <2>4, <2>5, RecoveringIs
  <2>7. n.stage = "rollback-pending" /\ n.verified = s.verified /\ n.cand = s.cand
    BY <1>0, <2>1 DEF Recovering, State
  <2>. QED
    BY <2>6, <2>7 DEF Moves
<1>3. CASE s.phase = "manifest-check" /\ s.cand # None /\ Interrupted(s)
  <2>1. n = [s EXCEPT !.status = "available", !.phase = "none", !.failure = "other"]
    BY <1>3 DEF RecoverInterrupted
  <2>2. n \in State
    BY <1>0, <2>1, Words DEF State
  <2>3. /\ n.status = "available" /\ n.phase = "none" /\ n.handoff = s.handoff /\ n.last = s.last
        /\ n.cand = s.cand /\ n.proof = s.proof /\ n.verified = s.verified /\ n.pkg = s.pkg
        /\ n.app = s.app /\ n.failure = "other" /\ n.notified = s.notified /\ n.stage = s.stage
        /\ n.db = s.db
    BY <1>0, <2>1 DEF State
  <2>4. s.handoff = "none" /\ s.stage = "none"
    BY <1>3, GoodFacts DEF StagePhase
  <2>5. Valid(n)
    BY <1>3, <2>3, <2>4 DEF Good, Valid, ValidPending, Applying
  <2>. QED
    BY <2>2, <2>3, <2>4, <2>5 DEF Moves, Good
<1>4. CASE /\ Interrupted(s) /\ s.phase # "apply-preparation"
           /\ ~(s.phase = "manifest-check" /\ s.cand # None)
  <2>. DEFINE m == NoCandidate(s)
  <2>1. n = [m EXCEPT !.status = "failed", !.phase = "none", !.failure = "other"]
    BY <1>4 DEF RecoverInterrupted
  <2>2. m \in State /\ m.cand = None /\ ~m.verified /\ ValidPending(m)
    BY <1>0, NoCandidateIs
  <2>3. m.stage = s.stage /\ m.handoff = s.handoff /\ m.db = s.db
    BY <1>0 DEF NoCandidate, State
  <2>. HIDE DEF m
  <2>4. n \in State
    BY <2>1, <2>2, Words DEF State
  <2>5. /\ n.status = "failed" /\ n.phase = "none" /\ n.handoff = m.handoff /\ n.last = m.last
        /\ n.cand = m.cand /\ n.proof = m.proof /\ n.verified = m.verified /\ n.pkg = m.pkg
        /\ n.app = m.app /\ n.failure = "other" /\ n.notified = m.notified /\ n.stage = m.stage
        /\ n.db = m.db
    BY <2>1, <2>2 DEF State
  <2>6. s.handoff = "none" /\ s.stage = "none" /\ ~s.verified
    BY <1>4, GoodFacts DEF StagePhase, Interrupted, Good
  <2>7. s.db = "unknown" /\ ValidPending(n)
    BY <2>2, <2>5, <2>6 DEF Good, Valid, ValidPending
  <2>8. Valid(n)
    BY <2>2, <2>3, <2>5, <2>6, <2>7 DEF Valid, Applying
  <2>9. n.verified \in BOOLEAN /\ s.verified \in BOOLEAN
    BY <1>0, <2>4 DEF State
  <2>. QED
    BY <2>2, <2>3, <2>4, <2>5, <2>6, <2>8, <2>9 DEF Moves, Good
<1>. QED
  BY <1>1, <1>2, <1>3, <1>4

LEMMA CheckpointIs ==
  ASSUME NEW s, Good(s), NEW n, n = EnsureCheckpoint(s)
  PROVE  Moves(s, n) /\ n.verified = s.verified
<1>1. CASE n = s
  BY <1>1 DEF Moves
<1>2. CASE n # s
  <2>1. PICK stage \in {"health-pending", "rollback-pending", "cleanup-pending"} :
          s.phase = StagePhase(stage) /\ s.cand # None /\ n = [s EXCEPT !.stage = stage]
    BY <1>2 DEF EnsureCheckpoint, StagePhase
  <2>2. s \in State /\ n \in State
    BY <2>1, Words, GoodFacts DEF State
  <2>3. /\ n.status = s.status /\ n.phase = s.phase /\ n.handoff = s.handoff /\ n.last = s.last
        /\ n.cand = s.cand /\ n.proof = s.proof /\ n.verified = s.verified /\ n.pkg = s.pkg
        /\ n.app = s.app /\ n.failure = s.failure /\ n.notified = s.notified /\ n.stage = stage
        /\ n.db = s.db
    BY <2>1, <2>2 DEF State
  <2>4. Valid(n)
    BY <2>1, <2>3 DEF Good, Valid, ValidPending, Applying
  <2>. QED
    BY <2>2, <2>3, <2>4 DEF Moves, Good
<1>. QED
  BY <1>1, <1>2

LEMMA StagedFailureIs ==
  ASSUME NEW s, Good(s), NEW n, n = ResumeStagedFailure(s)
  PROVE  Moves(s, n) /\ n.verified = s.verified
<1>1. CASE n = s
  BY <1>1 DEF Moves
<1>2. CASE n # s
  <2>1. /\ s.status = "available" /\ s.failure = "staged-migration" /\ s.verified
        /\ n = [Recovering(s, "rollback-pending", "no", s.failure) EXCEPT !.status = "checking"]
    BY <1>2 DEF ResumeStagedFailure
  <2>2. s \in State /\ s.cand # None /\ s.last # "never" /\ s.verified \in BOOLEAN
    BY <2>1, GoodFacts DEF Good, State
  <2>. DEFINE r == [s EXCEPT !.phase = "rollback", !.stage = "rollback-pending", !.db = "no",
                             !.failure = s.failure, !.handoff = "none"]
  <2>3. r \in State
    BY <2>2, Words DEF State
  <2>4. n = [r EXCEPT !.status = "checking"]
    BY <2>1 DEF Recovering, StagePhase
  <2>5. /\ r.last = s.last /\ r.cand = s.cand /\ r.proof = s.proof /\ r.verified = s.verified
        /\ r.pkg = s.pkg /\ r.app = s.app /\ r.notified = s.notified /\ r.phase = "rollback"
        /\ r.handoff = "none" /\ r.failure = s.failure /\ r.stage = "rollback-pending" /\ r.db = "no"
    BY <2>2 DEF State
  <2>. HIDE DEF r
  <2>6. n \in State
    BY <2>3, <2>4, Words DEF State
  <2>7. /\ n.status = "checking" /\ n.phase = r.phase /\ n.handoff = r.handoff /\ n.last = r.last
        /\ n.cand = r.cand /\ n.proof = r.proof /\ n.verified = r.verified /\ n.pkg = r.pkg
        /\ n.app = r.app /\ n.failure = r.failure /\ n.notified = r.notified /\ n.stage = r.stage
        /\ n.db = r.db
    BY <2>3, <2>4 DEF State
  <2>8. ValidPending(n)
    BY <2>5, <2>7 DEF Good, Valid, ValidPending
  <2>9. Valid(n)
    BY <2>1, <2>2, <2>5, <2>7, <2>8 DEF Valid, Applying, StagePhase
  <2>. QED
    BY <2>1, <2>2, <2>5, <2>6, <2>7, <2>9 DEF Moves, Good
<1>. QED
  BY <1>1, <1>2

LEMMA InitialIsGood == Good(Initial) /\ ~Initial.verified /\ Initial.stage = "none"
                       /\ Initial.cand = None /\ Initial.status = "not-checked"
<1>1. Initial \in State
  BY Words DEF Initial, State
<1>. QED
  BY <1>1 DEF Initial, Good, Valid, ValidPending, Applying

LEMMA MovesOn ==
  ASSUME NEW a, NEW b, NEW c, Moves(a, b), Moves(b, c)
  PROVE  Moves(a, c)
BY DEF Moves

(* What was stored is what the next start works with: a verified candidate stays
   one, and a switch is only taken up that was begun. *)
LEMMA LoadedIs ==
  ASSUME StoreInv, NEW n, n = Loaded(file, TRUE).st
  PROVE  Moves(file.st, n) /\ n.verified = file.st.verified
<1>. DEFINE s == file.st
<1>1. CASE file = Written(s)
  <2>1. file.form = "v2" /\ Good(s)
    BY <1>1 DEF Written, StoreInv
  <2>2. Parsed(file) = s
    BY <2>1, GoodFacts DEF Parsed, DowngradeUnbound
  <2>3. Usable(file)
    BY <2>1, <2>2 DEF Usable, Parsed, Good
  <2>. DEFINE read == ResumeStagedFailure(s)
              kept == RecoverInterrupted(read)
  <2>4. n = EnsureCheckpoint(kept)
    BY <2>2, <2>3 DEF Loaded
  <2>. HIDE DEF s
  <2>5. Moves(s, read) /\ read.verified = s.verified
    BY <2>1, StagedFailureIs
  <2>. HIDE DEF read
  <2>6. Moves(read, kept) /\ kept.verified = read.verified
    BY <2>5, InterruptedIs DEF Moves
  <2>. HIDE DEF kept
  <2>7. Moves(kept, n) /\ n.verified = kept.verified
    BY <2>4, <2>6, CheckpointIs DEF Moves
  <2>8. Moves(s, n) /\ n.verified = s.verified
    BY <2>5, <2>6, <2>7, MovesOn
  <2>. QED
    BY <2>8 DEF s
<1>2. CASE file.form = "missing" /\ s = Initial
  <2>1. n = Initial
    BY <1>2 DEF Loaded, Usable
  <2>. QED
    BY <1>2, <2>1, InitialIsGood DEF Moves
<1>. QED
  BY <1>1, <1>2 DEF StoreInv

(* Facts about one state. *)
LEMMA SameBundleTrans ==
  ASSUME NEW a, NEW b, NEW c, SameBundle(a, b), SameBundle(b, c)
  PROVE  SameBundle(a, c)
BY DEF SameBundle

LEMMA OfferFacts ==
  ASSUME NEW r \in Offers
  PROVE  /\ Identity(r) \in Candidates /\ r.sha256 \in Digests
         /\ Identity(r).payload.sha256 = r.sha256 /\ Identity(r).key = r.key
<1>1. Identity(r) \in Candidates
  BY OffersAssumption
<1>2. Identity(r).payload.sha256 = r.sha256 /\ Identity(r).key = r.key
  BY DEF Identity, Payload
<1>. QED
  BY <1>1, <1>2, PayloadsAssumption

LEMMA SelectionOffers ==
  ASSUME NEW fetched \in Selections, NEW selection \in fetched \ {Nothing, Ambiguous}
  PROVE  selection.release \in Offers
<1>1. selection \in (UNION Selections) \ {Nothing, Ambiguous}
  OBVIOUS
<1>. QED
  BY <1>1 DEF Offers

LEMMA ListingOf ==
  ASSUME StageType, NEW d \in Digests
  PROVE  IsList(Entries(d)) /\ Len(Entries(d)) \in Nat
<1>1. Entries(d) \in Seq(ToSet(Entries(d)))
  BY PublicationsAssumption DEF StageType, Entries
<1>. QED
  BY <1>1 DEF IsList

LEMMA VerifiedHasDigest ==
  ASSUME Good(mem), mem.verified
  PROVE  mem.cand \in Candidates /\ Digest \in Digests
<1>1. mem.cand # None /\ mem \in State
  BY GoodFacts
<1>2. mem.cand \in Candidates
  BY <1>1 DEF State
<1>. QED
  BY <1>2, PayloadsAssumption DEF Digest

(* What is looked at before a switch begins makes the staged tree the published
   one: the listed entries with nothing beside them, which are all there is when
   the implied folders are among them. *)
LEMMA StandingIsWhole ==
  ASSUME StageType, TreesInv, NEW s, Stands(s)
  PROVE  LET d == s.cand.payload.sha256 IN SameBundle(Whole(d), ready[d])
<1>1. PICK r \in Offers :
        /\ SameCandidate(s, Identity(r)) /\ ready[r.sha256] # Absent
        /\ AppBundle(ready[r.sha256], r.version) /\ Matches(ready[r.sha256], Entries(r.sha256))
  BY DEF Stands
<1>. DEFINE d == r.sha256
<1>2. s.cand.payload.sha256 = d /\ d \in Digests
  BY <1>1, OfferFacts DEF SameCandidate
<1>3. IsFolder(ready[d], Contents)
  BY <1>1 DEF AppBundle
<1>4. ready[d] # EmptyTree
  BY <1>3 DEF IsFolder, EmptyTree
<1>5. ready[d] # RootOnly
  <2>1. Contents # <<Root>>
    BY DEF Contents
  <2>. QED
    BY <1>3, <2>1 DEF IsFolder, RootOnly
<1>6. HasFolders(ready[d], Entries(d))
  BY <1>1, <1>2, <1>4, <1>5 DEF TreesInv
<1>7. Implied(Entries(d)) \subseteq Listed(Entries(d))
  BY <1>1, <1>6 DEF HasFolders, IsFolder, Matches
<1>8. /\ DOMAIN Whole(d) = Listed(Entries(d)) \union Implied(Entries(d))
      /\ \A path \in Listed(Entries(d)) : Whole(d)[path] = Extracted(ByPath(Entries(d))[path])
  BY <1>2, ListingOf, WholeTree DEF Whole
<1>9. SameBundle(Whole(d), ready[d])
  BY <1>1, <1>7, <1>8 DEF Matches, SameBundle
<1>. QED
  BY <1>2, <1>9

-----------------------------------------------------------------------------
(* What most steps have in common.                                           *)

Elsewhere == pc \notin Switching \union {"down"} /\ pc' \notin Switching

(* Away from the switch the stage only has to stay away from it. *)
LEMMA NoSwitch ==
  ASSUME SwitchInv, Elsewhere, mem'.stage = "bundle-switching" => mem.stage = "bundle-switching"
  PROVE  SwitchInv' /\ LiveIsCandidate'
BY DEF SwitchInv, LiveIsCandidate, Elsewhere, Switching

(* What is staged stays as long as the candidate does. *)
LEMMA TreesStay ==
  ASSUME TreesInv, UNCHANGED <<published, ready>>
  PROVE  TreesInv'
BY DEF TreesInv, Entries

LEMMA StagedStays ==
  ASSUME VerifiedIsStaged, Moves(mem, mem'), UNCHANGED <<published, package, ready, lost>>
  PROVE  VerifiedIsStaged'
BY DEF VerifiedIsStaged, Moves, Digest, Entries

\* What a mutator does to memory and disk, whether or not it reports a failure.
Recorded(nexts) ==
  \/ mem' \in nexts /\ file' = Written(mem')
  \/ mem' = mem /\ (file' = file \/ \E n \in nexts : file' = Written(n))

LEMMA RecordGives ==
  ASSUME StoreInv, NEW nexts, NEW to, Record(nexts, to), \A n \in nexts : Good(n)
  PROVE  /\ StoreInv' /\ Recorded(nexts)
         /\ \/ mem' \in nexts /\ pc' = to /\ UNCHANGED erred
            \/ mem' = mem /\ pc' = "idle" /\ erred'
<1>. PICK n \in nexts :
       \/ mem' = n /\ file' = Written(n) /\ pc' = to /\ UNCHANGED erred
       \/ mem' = mem /\ file' \in {file, Written(n)} /\ pc' = "idle" /\ erred' = TRUE
  BY DEF Record, Goto
<1>1. StoreInv'
  <2>1. Written(n).st = n
    BY DEF Written
  <2>. QED
    BY <2>1 DEF StoreInv
<1>2. Recorded(nexts)
  BY DEF Recorded
<1>. QED
  BY <1>1, <1>2

LEMMA StoreStays ==
  ASSUME StoreInv, UNCHANGED stateVars
  PROVE  StoreInv' /\ Moves(mem, mem')
BY DEF StoreInv, stateVars, Moves

LEMMA DiskStays ==
  ASSUME DiskInv, UNCHANGED stateVars,
         Stopped => pc' \in {"idle", "down"} /\ (lost' \/ UNCHANGED <<published, package, ready, lost>>)
  PROVE  DiskInv'
<1>1. mem' = mem /\ file' = file
  BY DEF stateVars
<1>2. Stopped => Stopped'
  BY <1>1 DEF Stopped
<1>3. Stopped /\ ~lost' /\ Staged(file.st) => Staged(file.st)'
  BY <1>1 DEF Staged, Entries
<1>4. Stopped /\ ~lost' => ~lost
  OBVIOUS
<1>. QED
  BY <1>1, <1>2, <1>3, <1>4 DEF DiskInv

(* What memory and disk have in common while a mutator may run. *)
LEMMA DiskAgrees ==
  ASSUME DiskInv, ~Stopped, file.st.verified
  PROVE  mem.verified /\ mem.cand = file.st.cand
BY DEF DiskInv

LEMMA DiskRecorded ==
  ASSUME DiskInv, SwitchInv, NEW nexts, Recorded(nexts), \A n \in nexts : Moves(mem, n),
         ~Stopped, pc \notin Switching \union {"down"}
  PROVE  DiskInv'
<1>1. mem.stage # "bundle-switching"
  BY DEF SwitchInv
<1>2. CASE mem' \in nexts /\ file' = Written(mem')
  BY <1>2 DEF DiskInv, Written
<1>3. CASE mem' = mem /\ file' = file
  BY <1>3, DiskAgrees DEF DiskInv
<1>4. ASSUME NEW n \in nexts, mem' = mem, file' = Written(n) PROVE DiskInv'
  <2>1. file'.st = n
    BY <1>4 DEF Written
  <2>. QED
    BY <1>1, <1>4, <2>1 DEF DiskInv, Moves
<1>. QED
  BY <1>2, <1>3, <1>4 DEF Recorded

(* A recorded step that leaves the staged files alone, and does not verify. *)
LEMMA RecordedStep ==
  ASSUME PackageInv, NEW nexts, NEW to, Record(nexts, to), ~Stopped,
         \A n \in nexts : Moves(mem, n) /\ (to = "idle" => n.status # "checking"),
         pc \notin Switching \union {"down"}, to \notin Switching,
         UNCHANGED <<published, stageVars>>
  PROVE  /\ StoreInv' /\ DiskInv' /\ StageType' /\ TreesInv' /\ SwitchInv'
         /\ CheckingIsWorking' /\ VerifiedIsStaged' /\ LiveIsCandidate'
         /\ \/ mem' \in nexts /\ pc' = to
            \/ mem' = mem /\ pc' = "idle"
<1>1. \A n \in nexts : Good(n)
  BY DEF Moves
<1>2. /\ StoreInv' /\ Recorded(nexts)
      /\ \/ mem' \in nexts /\ pc' = to /\ UNCHANGED erred
         \/ mem' = mem /\ pc' = "idle" /\ erred'
  BY <1>1, RecordGives DEF PackageInv
<1>3. Moves(mem, mem')
  BY <1>2 DEF Moves, PackageInv, StoreInv
<1>4. StageType' /\ TreesInv' /\ VerifiedIsStaged'
  BY <1>3, TreesStay, StagedStays DEF PackageInv, StageType, stageVars
<1>5. Elsewhere
  BY <1>2 DEF Elsewhere, Switching
<1>6. SwitchInv' /\ LiveIsCandidate'
  BY <1>3, <1>5, NoSwitch DEF PackageInv, Moves
<1>7. CheckingIsWorking'
  BY <1>2 DEF CheckingIsWorking
<1>8. DiskInv'
  BY <1>2, DiskRecorded DEF PackageInv
<1>. QED
  BY <1>2, <1>4, <1>6, <1>7, <1>8

(* A step of the verification, which records nothing. *)
LEMMA VerifyingStep ==
  ASSUME PackageInv, pc \in Verifying, pc' \notin Switching \union {"idle"},
         UNCHANGED <<published, stateVars>>
  PROVE  /\ StoreInv' /\ DiskInv' /\ SwitchInv' /\ CheckingIsWorking' /\ VerifiedIsStaged'
         /\ LiveIsCandidate' /\ ~mem.verified
<1>1. ~mem.verified /\ mem' = mem
  BY DEF PackageInv, VerifyInv, stateVars
<1>2. StoreInv'
  BY StoreStays DEF PackageInv
<1>3. Elsewhere /\ ~Stopped
  BY DEF Elsewhere, Verifying, Switching, Stopped
<1>4. SwitchInv' /\ LiveIsCandidate'
  BY <1>1, <1>3, NoSwitch DEF PackageInv
<1>5. CheckingIsWorking' /\ VerifiedIsStaged'
  BY <1>1 DEF CheckingIsWorking, VerifiedIsStaged
<1>6. DiskInv'
  BY <1>3, DiskStays DEF PackageInv
<1>. QED
  BY <1>1, <1>2, <1>4, <1>5, <1>6

LEMMA NotVerifying ==
  ASSUME pc' \notin Verifying
  PROVE  VerifyInv'
BY DEF VerifyInv, Verifying

(* The steps, one by one. *)
LEMMA InitKeeps == Init => PackageInv
<1>. SUFFICES ASSUME Init PROVE PackageInv
  OBVIOUS
<1>1. StoreInv
  BY InitialIsGood DEF Init, StoreInv
<1>2. StageType /\ TreesInv
  BY DEF Init, StageType, TreesInv
<1>3. VerifyInv /\ SwitchInv /\ DiskInv
  BY InitialIsGood DEF DiskInv, Init, VerifyInv, SwitchInv, Verifying, Switching
<1>4. CheckingIsWorking /\ VerifiedIsStaged /\ LiveIsCandidate
  BY InitialIsGood DEF Init, CheckingIsWorking, VerifiedIsStaged, LiveIsCandidate
<1>. QED
  BY <1>1, <1>2, <1>3, <1>4 DEF PackageInv

LEMMA StutterKeeps == PackageInv /\ UNCHANGED vars => PackageInv'
<1>. SUFFICES ASSUME PackageInv, UNCHANGED vars PROVE PackageInv'
  OBVIOUS
<1>1. UNCHANGED <<pc, published, mem, file, offer, parts, package, unpacked, ready, copy, live, lost, erred>>
  BY DEF vars, copyVars, stateVars, stageVars
<1>2. StoreInv' /\ DiskInv' /\ StageType' /\ TreesInv'
  <2>1. DiskInv'
    BY <1>1, DiskStays DEF PackageInv, Stopped, stateVars
  <2>. QED
    BY <1>1, <2>1, TreesStay DEF PackageInv, StoreInv, StageType
<1>3. VerifyInv'
  BY <1>1 DEF PackageInv, VerifyInv, Entries
<1>4. SwitchInv' /\ LiveIsCandidate'
  BY <1>1 DEF PackageInv, SwitchInv, LiveIsCandidate, Digest, Version, Whole, Entries
<1>5. CheckingIsWorking' /\ VerifiedIsStaged'
  BY <1>1 DEF PackageInv, CheckingIsWorking, VerifiedIsStaged, Digest, Entries
<1>. QED
  BY <1>2, <1>3, <1>4, <1>5 DEF PackageInv

LEMMA RecordNeeds ==
  ASSUME NEW nexts, NEW to, Record(nexts, to) PROVE nexts # {}
BY DEF Record

LEMMA BeginsCheckKeeps ==
  ASSUME PackageInv, NEW trigger, BeginsCheck(trigger) PROVE PackageInv'
<1>1. /\ pc = "idle" /\ Record(BeginCheck(mem, trigger), "check")
      /\ UNCHANGED <<published, stageVars>>
  BY DEF BeginsCheck
<1>2. \A n \in BeginCheck(mem, trigger) : Moves(mem, n)
  BY BeginCheckMoves DEF PackageInv, StoreInv
<1>3. /\ StoreInv' /\ DiskInv' /\ StageType' /\ TreesInv' /\ SwitchInv'
      /\ CheckingIsWorking' /\ VerifiedIsStaged' /\ LiveIsCandidate' /\ pc' \in {"check", "idle"}
  <2>1. ~Stopped
    BY <1>1, RecordNeeds DEF BeginCheck, Stores, Stopped
  <2>. QED
    BY <1>1, <1>2, <2>1, RecordedStep DEF Switching
<1>4. VerifyInv'
  BY <1>3, NotVerifying DEF Verifying
<1>. QED
  BY <1>3, <1>4 DEF PackageInv

LEMMA ClaimsNotificationKeeps ==
  ASSUME PackageInv, ClaimsNotification PROVE PackageInv'
<1>. PICK n \in ClaimNotification(mem) : file' = Written(n) /\ mem' \in {n, mem}
  BY DEF ClaimsNotification
<1>1. pc # "down" /\ pc' = pc /\ UNCHANGED <<published, offer, erred, stageVars>>
  BY DEF ClaimsNotification
<1>2. \A m \in ClaimNotification(mem) : Rests(mem, m) /\ m.verified = mem.verified
  BY ClaimNotificationMoves DEF PackageInv, StoreInv
<1>3. mem.status = "available"
  BY DEF ClaimNotification, Stores
<1>4. mem.stage = "none" /\ ~Stopped
  BY <1>3, GoodFacts DEF PackageInv, StoreInv, Stopped
<1>5. pc \notin Switching \union {"down"}
  BY <1>1, <1>4 DEF PackageInv, SwitchInv
<1>6. Moves(mem, mem') /\ mem'.verified = mem.verified /\ mem'.status # "checking"
  BY <1>2, <1>3 DEF Rests, Moves, PackageInv, StoreInv
<1>7. StoreInv' /\ DiskInv'
  <2>1. Recorded(ClaimNotification(mem))
    BY DEF Recorded
  <2>2. DiskInv'
    BY <1>2, <1>4, <1>5, <2>1, DiskRecorded DEF PackageInv, Rests
  <2>3. Written(n).st = n /\ Good(n)
    BY <1>2 DEF Written, Rests, Moves
  <2>4. Good(mem')
    BY <1>6 DEF Moves
  <2>. QED
    BY <2>2, <2>3, <2>4 DEF StoreInv
<1>8. StageType' /\ TreesInv' /\ VerifiedIsStaged'
  BY <1>1, <1>6, TreesStay, StagedStays DEF PackageInv, StageType, stageVars
<1>9. SwitchInv' /\ LiveIsCandidate' /\ CheckingIsWorking'
  <2>1. Elsewhere
    BY <1>1, <1>5 DEF Elsewhere
  <2>. QED
    BY <1>6, <2>1, NoSwitch DEF PackageInv, Moves, CheckingIsWorking
<1>10. VerifyInv'
  <2>1. UNCHANGED <<pc, published, offer, parts, package, unpacked, ready>>
    BY <1>1 DEF stageVars
  <2>. QED
    BY <1>6, <2>1 DEF PackageInv, VerifyInv, Entries
<1>. QED
  BY <1>7, <1>8, <1>9, <1>10 DEF PackageInv

LEMMA SweepsLeftoversKeeps ==
  ASSUME PackageInv, SweepsLeftovers PROVE PackageInv'
<1>1. /\ pc = "idle" /\ UNCHANGED <<pc, published, mem, file, erred, package, ready, lost>>
      /\ unpacked' = [d \in Digests |-> -1]
  BY DEF SweepsLeftovers, Swept, stateVars
<1>2. StoreInv' /\ Moves(mem, mem')
  BY <1>1, StoreStays DEF PackageInv, stateVars
<1>3. StageType' /\ TreesInv' /\ VerifiedIsStaged'
  BY <1>1, <1>2, TreesStay, StagedStays DEF PackageInv, StageType
<1>6. DiskInv'
  BY <1>1, DiskStays DEF PackageInv, stateVars
<1>4. SwitchInv' /\ LiveIsCandidate'
  BY <1>1, NoSwitch DEF PackageInv, Elsewhere, Switching
<1>5. VerifyInv' /\ CheckingIsWorking'
  BY <1>1, NotVerifying DEF PackageInv, CheckingIsWorking, Verifying
<1>. QED
  BY <1>2, <1>3, <1>4, <1>5, <1>6 DEF PackageInv

LEMMA BeginsVerificationKeeps ==
  ASSUME PackageInv, BeginsVerification PROVE PackageInv'
<1>1. /\ pc = "idle" /\ pc' = "verify" /\ mem.status = "available"
      /\ UNCHANGED <<published, mem, file, erred, package, unpacked, ready, lost>>
  BY DEF BeginsVerification, stateVars, stageVars, Goto
<1>2. StoreInv' /\ Moves(mem, mem')
  BY <1>1, StoreStays DEF PackageInv, stateVars
<1>3. StageType' /\ TreesInv' /\ VerifiedIsStaged'
  BY <1>1, <1>2, TreesStay, StagedStays DEF PackageInv, StageType
<1>6. DiskInv'
  BY <1>1, DiskStays DEF PackageInv, Stopped, stateVars
<1>4. SwitchInv' /\ LiveIsCandidate'
  BY <1>1, NoSwitch DEF PackageInv, Elsewhere, Switching
<1>5. VerifyInv' /\ CheckingIsWorking'
  BY <1>1, NotVerifying DEF CheckingIsWorking, Verifying
<1>. QED
  BY <1>2, <1>3, <1>4, <1>5, <1>6 DEF PackageInv

LEMMA QuitsKeeps ==
  ASSUME PackageInv, Quits PROVE PackageInv'
<1>1. /\ pc = "idle" /\ pc' = "down"
      /\ UNCHANGED <<published, mem, file, erred, package, unpacked, ready, lost>>
  BY DEF Quits, stateVars, stageVars, Goto
<1>2. StoreInv' /\ Moves(mem, mem')
  BY <1>1, StoreStays DEF PackageInv, stateVars
<1>3. StageType' /\ TreesInv' /\ VerifiedIsStaged'
  BY <1>1, <1>2, TreesStay, StagedStays DEF PackageInv, StageType
<1>6. DiskInv'
  BY <1>1, DiskStays DEF PackageInv, stateVars
<1>4. SwitchInv' /\ LiveIsCandidate'
  BY <1>1, NoSwitch DEF PackageInv, Elsewhere, Switching
<1>5. VerifyInv' /\ CheckingIsWorking'
  BY <1>1, NotVerifying DEF CheckingIsWorking, Verifying
<1>. QED
  BY <1>2, <1>3, <1>4, <1>5, <1>6 DEF PackageInv

LEMMA FailsKeeps ==
  ASSUME PackageInv, Fails PROVE PackageInv'
<1>1. /\ pc = "fail" /\ Record(RecordVerificationFailure(mem), "idle")
      /\ UNCHANGED <<published, stageVars>>
  BY DEF Fails
<1>2. \A n \in RecordVerificationFailure(mem) : Rests(mem, n)
  BY DropsCandidate DEF PackageInv, StoreInv
<1>3. /\ StoreInv' /\ DiskInv' /\ StageType' /\ TreesInv' /\ SwitchInv'
      /\ CheckingIsWorking' /\ VerifiedIsStaged' /\ LiveIsCandidate' /\ pc' = "idle"
  BY <1>1, <1>2, RecordedStep DEF Switching, Rests, Stopped
<1>4. VerifyInv'
  BY <1>3, NotVerifying DEF Verifying
<1>. QED
  BY <1>3, <1>4 DEF PackageInv

LEMMA BeginsApplyKeeps ==
  ASSUME PackageInv, BeginsApply PROVE PackageInv'
<1>1. /\ pc = "idle" /\ mem.status = "available" /\ Record(BeginApply(mem, mem.cand), "handoff")
      /\ UNCHANGED <<published, stageVars>>
  BY DEF BeginsApply
<1>2. \A n \in BeginApply(mem, mem.cand) : Moves(mem, n)
  BY BeginApplyMoves DEF PackageInv, StoreInv
<1>3. /\ StoreInv' /\ DiskInv' /\ StageType' /\ TreesInv' /\ SwitchInv'
      /\ CheckingIsWorking' /\ VerifiedIsStaged' /\ LiveIsCandidate' /\ pc' \in {"handoff", "idle"}
  BY <1>1, <1>2, RecordedStep DEF Switching, Stopped
<1>4. VerifyInv'
  BY <1>3, NotVerifying DEF Verifying
<1>. QED
  BY <1>3, <1>4 DEF PackageInv

LEMMA HandsOffKeeps ==
  ASSUME PackageInv, HandsOff PROVE PackageInv'
<1>1. /\ pc = "handoff" /\ Record(RecordHandoff(mem), "exit")
      /\ UNCHANGED <<published, stageVars>>
  BY DEF HandsOff
<1>2. \A n \in RecordHandoff(mem) : Moves(mem, n)
  BY HandoffMoves DEF PackageInv, StoreInv
<1>3. /\ StoreInv' /\ DiskInv' /\ StageType' /\ TreesInv' /\ SwitchInv'
      /\ CheckingIsWorking' /\ VerifiedIsStaged' /\ LiveIsCandidate' /\ pc' \in {"exit", "idle"}
  BY <1>1, <1>2, RecordedStep DEF Switching, Stopped
<1>4. VerifyInv'
  BY <1>3, NotVerifying DEF Verifying
<1>. QED
  BY <1>3, <1>4 DEF PackageInv

(* A candidate that is replaced takes its files with it, or is lost for good. *)
LEMMA ReplacingStep ==
  ASSUME PackageInv, NEW nexts, NEW kept, RecordReplacing(nexts, kept),
         \A n \in nexts : Rests(mem, n) /\ (n.verified => kept = Digest),
         pc \notin Switching \union {"down"}, ~Stopped, UNCHANGED published
  PROVE  PackageInv' /\ (mem' \in nexts \/ mem' = mem)
<1>. DEFINE d == mem.cand.payload.sha256
            discards == mem.verified /\ d # kept
<1>1. \/ /\ Record(nexts, "idle")
         /\ IF discards THEN Discarded(d) /\ lost' = (mem' = mem) ELSE UNCHANGED <<package, ready, lost>>
      \/ /\ discards /\ DiscardsInPart(d)
         /\ Goto("idle") /\ erred' = TRUE /\ UNCHANGED <<mem, file>>
  BY DEF RecordReplacing
<1>2. UNCHANGED <<parts, unpacked>>
  BY DEF RecordReplacing
<1>3. \A n \in nexts : Good(n)
  BY DEF Rests, Moves
<1>4. /\ StoreInv' /\ Recorded(nexts) /\ pc' = "idle"
      /\ (mem' \in nexts /\ UNCHANGED erred) \/ (mem' = mem /\ erred')
  <2>1. CASE Record(nexts, "idle")
    BY <1>3, <2>1, RecordGives DEF PackageInv
  <2>2. CASE Goto("idle") /\ erred' = TRUE /\ UNCHANGED <<mem, file>>
    BY <2>2 DEF PackageInv, StoreInv, Recorded, Goto
  <2>. QED
    BY <1>1, <2>1, <2>2
<1>5. Moves(mem, mem')
  BY <1>4 DEF Rests, Moves, PackageInv, StoreInv
<1>6. SwitchInv' /\ LiveIsCandidate'
  BY <1>4, <1>5, NoSwitch DEF PackageInv, Elsewhere, Moves, Switching
<1>7. VerifyInv'
  BY <1>4, NotVerifying DEF Verifying
<1>8. CheckingIsWorking'
  BY <1>4 DEF CheckingIsWorking, Rests
<1>9. /\ \A e \in Digests : ready'[e] = ready[e] \/ ready'[e] \in {Absent, EmptyTree, RootOnly}
      /\ DOMAIN ready' = DOMAIN ready
      /\ package' = package \/ package' = [package EXCEPT ![d] = "none"]
  BY <1>1 DEF PackageInv, StageType, Discarded, DiscardsInPart
<1>10. StageType'
  BY <1>2, <1>9 DEF PackageInv, StageType
<1>11. TreesInv'
  BY <1>9 DEF PackageInv, TreesInv, Entries
<1>12. VerifiedIsStaged'
  <2>. SUFFICES ASSUME mem'.verified, ~lost' PROVE VerifiedIsStaged'
    BY DEF VerifiedIsStaged
  <2>1. mem.verified /\ mem'.cand = mem.cand
    BY <1>5 DEF Moves
  <2>2. UNCHANGED <<package, ready>> /\ ~lost
    <3>1. CASE Record(nexts, "idle") /\ ~discards
      BY <1>1, <3>1 DEF DiscardsInPart
    <3>2. CASE discards /\ Discarded(d) /\ lost' = (mem' = mem)
      BY <1>4, <3>2 DEF Digest
    <3>3. CASE DiscardsInPart(d)
      BY <3>3 DEF DiscardsInPart
    <3>. QED
      BY <1>1, <3>1, <3>2, <3>3
  <2>. QED
    BY <2>1, <2>2 DEF PackageInv, VerifiedIsStaged, Digest, Entries
<1>13. DiskInv'
  BY <1>4, DiskRecorded DEF PackageInv, Rests
<1>. QED
  BY <1>4, <1>6, <1>7, <1>8, <1>10, <1>11, <1>12, <1>13 DEF PackageInv

LEMMA ChecksKeeps ==
  ASSUME PackageInv, Checks PROVE PackageInv'
<1>1. pc = "check" /\ UNCHANGED <<published, copyVars, offer>>
  BY DEF Checks
<1>. PICK fetched \in Selections :
       \/ /\ fetched \subseteq {Ambiguous}
          /\ Record(RecordFailure(mem), "idle") /\ UNCHANGED stageVars
       \/ /\ fetched = {Nothing}
          /\ RecordReplacing(RecordNoUpdate(mem), Absent)
       \/ \E selection \in fetched \ {Nothing, Ambiguous} :
            LET r == selection.release
            IN RecordReplacing(RecordAvailable(mem, Identity(r)),
                 IF SameCandidate(mem, Identity(r)) THEN mem.cand.payload.sha256 ELSE r.sha256)
  BY DEF Checks
<1>2. Good(mem)
  BY DEF PackageInv, StoreInv
<1>3. CASE Record(RecordFailure(mem), "idle") /\ UNCHANGED stageVars
  <2>1. \A n \in RecordFailure(mem) : Rests(mem, n)
    BY <1>2, FailsCheck
  <2>2. /\ StoreInv' /\ DiskInv' /\ StageType' /\ TreesInv' /\ SwitchInv'
        /\ CheckingIsWorking' /\ VerifiedIsStaged' /\ LiveIsCandidate' /\ pc' = "idle"
    BY <1>1, <1>3, <2>1, RecordedStep DEF Stopped, Switching, Rests
  <2>3. VerifyInv'
    BY <2>2, NotVerifying DEF Verifying
  <2>. QED
    BY <2>2, <2>3 DEF PackageInv
<1>4. CASE RecordReplacing(RecordNoUpdate(mem), Absent)
  <2>1. \A n \in RecordNoUpdate(mem) : Rests(mem, n) /\ ~n.verified
    BY <1>2, DropsCandidate
  <2>. QED
    BY <1>1, <1>4, <2>1, ReplacingStep DEF Switching, Stopped
<1>5. ASSUME NEW selection \in fetched \ {Nothing, Ambiguous}, NEW kept,
             kept = IF SameCandidate(mem, Identity(selection.release))
                    THEN mem.cand.payload.sha256 ELSE selection.release.sha256,
             RecordReplacing(RecordAvailable(mem, Identity(selection.release)), kept)
      PROVE  PackageInv'
  <2>. DEFINE c == Identity(selection.release)
  <2>1. c \in Candidates
    BY SelectionOffers, OfferFacts
  <2>2. \A n \in RecordAvailable(mem, c) : Rests(mem, n) /\ (n.verified => SameCandidate(mem, c))
    BY <1>2, <2>1, OffersCandidate
  <2>3. SameCandidate(mem, c) => kept = Digest
    BY <1>5 DEF Digest
  <2>. HIDE DEF c
  <2>. QED
    BY <1>1, <1>5, <2>2, <2>3, ReplacingStep DEF Switching, Stopped, c
<1>. QED
  BY <1>3, <1>4, <1>5

LEMMA VerifiesKeeps ==
  ASSUME PackageInv, Verifies PROVE PackageInv'
<1>1. pc = "verify" /\ UNCHANGED <<published, copyVars>>
  BY DEF Verifies
<1>. PICK fetched \in Selections :
       \/ /\ fetched \subseteq {Ambiguous} /\ Goto("fail")
          /\ UNCHANGED <<faults, offer, stateVars, stageVars>>
       \/ /\ fetched = {Nothing}
          /\ RecordReplacing(RecordRevalidatedNoUpdate(mem), Absent) /\ UNCHANGED offer
       \/ \E selection \in fetched \ {Nothing, Ambiguous} :
            LET r == selection.release
            IN IF SameCandidate(mem, Identity(r))
               THEN /\ Record(BeginPackageVerification(mem, Identity(r)), "recover")
                    /\ offer' = r /\ UNCHANGED stageVars
               ELSE RecordReplacing(ReplaceAvailable(mem, Identity(r)), r.sha256) /\ UNCHANGED offer
  BY DEF Verifies
<1>2. Good(mem)
  BY DEF PackageInv, StoreInv
<1>3. CASE Goto("fail") /\ UNCHANGED <<stateVars, stageVars>>
  <2>1. /\ pc' = "fail"
        /\ UNCHANGED <<published, mem, file, erred, package, unpacked, ready, lost>>
    BY <1>1, <1>3 DEF stateVars, stageVars, Goto
  <2>2. StoreInv' /\ Moves(mem, mem')
    BY <2>1, StoreStays DEF PackageInv, stateVars
  <2>3. StageType' /\ TreesInv' /\ VerifiedIsStaged'
    BY <2>1, <2>2, TreesStay, StagedStays DEF PackageInv, StageType
  <2>6. DiskInv'
    BY <1>1, <1>3, DiskStays DEF PackageInv, Stopped
  <2>4. SwitchInv' /\ LiveIsCandidate'
    BY <1>1, <2>1, NoSwitch DEF PackageInv, Elsewhere, Switching
  <2>5. VerifyInv' /\ CheckingIsWorking'
    BY <2>1, NotVerifying DEF CheckingIsWorking, Verifying
  <2>. QED
    BY <2>2, <2>3, <2>4, <2>5, <2>6 DEF PackageInv
<1>4. CASE RecordReplacing(RecordRevalidatedNoUpdate(mem), Absent)
  <2>1. \A n \in RecordRevalidatedNoUpdate(mem) : Rests(mem, n) /\ ~n.verified
    BY <1>2, DropsCandidate
  <2>. QED
    BY <1>1, <1>4, <2>1, ReplacingStep DEF Switching, Stopped
<1>5. ASSUME NEW selection \in fetched \ {Nothing, Ambiguous},
             Record(BeginPackageVerification(mem, Identity(selection.release)), "recover"),
             offer' = selection.release, UNCHANGED stageVars
      PROVE  PackageInv'
  <2>1. \A n \in BeginPackageVerification(mem, Identity(selection.release)) : Moves(mem, n) /\ ~n.verified
    BY <1>2, BeginVerificationMoves
  <2>2. /\ StoreInv' /\ DiskInv' /\ StageType' /\ TreesInv' /\ SwitchInv'
        /\ CheckingIsWorking' /\ VerifiedIsStaged' /\ LiveIsCandidate'
        /\ (pc' = "recover" /\ ~mem'.verified) \/ pc' = "idle"
    BY <1>1, <1>5, <2>1, RecordedStep DEF Stopped, Switching
  <2>3. offer' \in Offers
    BY <1>5, SelectionOffers
  <2>4. VerifyInv'
    BY <2>2, <2>3 DEF VerifyInv, Verifying
  <2>. QED
    BY <2>2, <2>4 DEF PackageInv
<1>6. ASSUME NEW selection \in fetched \ {Nothing, Ambiguous},
             ~SameCandidate(mem, Identity(selection.release)),
             RecordReplacing(ReplaceAvailable(mem, Identity(selection.release)), selection.release.sha256)
      PROVE  PackageInv'
  <2>. DEFINE c == Identity(selection.release)
  <2>1. c \in Candidates
    BY SelectionOffers, OfferFacts
  <2>2. \A n \in ReplaceAvailable(mem, c) : Rests(mem, n) /\ ~n.verified
    BY <1>2, <1>6, <2>1, OffersCandidate
  <2>. HIDE DEF c
  <2>. QED
    BY <1>1, <1>6, <2>2, ReplacingStep DEF Switching, Stopped, c
<1>. QED
  BY <1>3, <1>4, <1>5, <1>6

LEMMA RecoversKeeps ==
  ASSUME PackageInv, Recovers PROVE PackageInv'
<1>1. /\ pc = "recover" /\ UNCHANGED <<published, offer, stateVars, package, ready>>
      /\ \/ pc' = "cache" /\ parts' = {} /\ unpacked' = [d \in Digests |-> -1]
         \/ pc' = "fail" /\ UNCHANGED unpacked
  BY DEF Recovers, Swept, Failing, Goto
<1>2. /\ StoreInv' /\ DiskInv' /\ SwitchInv' /\ CheckingIsWorking' /\ VerifiedIsStaged'
      /\ LiveIsCandidate'
      /\ ~mem.verified
  BY <1>1, VerifyingStep DEF Verifying, Switching
<1>3. StageType' /\ TreesInv'
  BY <1>1, TreesStay DEF PackageInv, StageType
<1>4. VerifyInv'
  BY <1>1 DEF PackageInv, VerifyInv, Verifying, stateVars
<1>. QED
  BY <1>2, <1>3, <1>4 DEF PackageInv

LEMMA LooksForPackageKeeps ==
  ASSUME PackageInv, LooksForPackage PROVE PackageInv'
<1>. DEFINE d == offer.sha256
<1>1. /\ pc = "cache" /\ UNCHANGED <<published, offer, stateVars, parts, unpacked, ready>>
      /\ \/ Signed(offer) /\ pc' = "package" /\ UNCHANGED package
         \/ pc' = "create" /\ package' = [package EXCEPT ![d] = "none"]
         \/ pc' = "fail" /\ UNCHANGED package
  BY DEF LooksForPackage, Failing, Goto
<1>2. /\ StoreInv' /\ DiskInv' /\ SwitchInv' /\ CheckingIsWorking' /\ VerifiedIsStaged'
      /\ LiveIsCandidate'
      /\ ~mem.verified
  BY <1>1, VerifyingStep DEF Verifying, Switching
<1>3. d \in Digests
  BY <1>1, OfferFacts DEF PackageInv, VerifyInv, Verifying
<1>4. StageType' /\ TreesInv'
  BY <1>1, TreesStay DEF PackageInv, StageType
<1>5. VerifyInv'
  BY <1>1, <1>3 DEF PackageInv, VerifyInv, Verifying, StageType, stateVars
<1>. QED
  BY <1>2, <1>4, <1>5 DEF PackageInv

LEMMA DownloadsKeeps ==
  ASSUME PackageInv, Downloads PROVE PackageInv'
<1>1. /\ pc = "create" /\ UNCHANGED <<published, offer, stateVars, package, unpacked, ready>>
      /\ pc' \in {"fail", "sign", "cleanup"}
  BY DEF Downloads, Goto
<1>2. /\ StoreInv' /\ DiskInv' /\ SwitchInv' /\ CheckingIsWorking' /\ VerifiedIsStaged'
      /\ LiveIsCandidate'
      /\ ~mem.verified
  BY <1>1, VerifyingStep DEF Verifying, Switching
<1>3. StageType' /\ TreesInv'
  BY <1>1, TreesStay DEF PackageInv, StageType
<1>4. VerifyInv'
  BY <1>1 DEF PackageInv, VerifyInv, Verifying, stateVars
<1>. QED
  BY <1>2, <1>3, <1>4 DEF PackageInv

LEMMA CleansUpKeeps ==
  ASSUME PackageInv, CleansUp PROVE PackageInv'
<1>1. /\ pc = "cleanup" /\ pc' = "fail" /\ UNCHANGED <<published, stateVars, package, unpacked, ready>>
  BY DEF CleansUp, Goto
<1>2. /\ StoreInv' /\ DiskInv' /\ SwitchInv' /\ CheckingIsWorking' /\ VerifiedIsStaged'
      /\ LiveIsCandidate'
      /\ ~mem.verified
  BY <1>1, VerifyingStep DEF Verifying, Switching
<1>3. StageType' /\ TreesInv' /\ VerifyInv'
  BY <1>1, TreesStay, NotVerifying DEF PackageInv, StageType, Verifying
<1>. QED
  BY <1>2, <1>3 DEF PackageInv

LEMMA KeepsPackageKeeps ==
  ASSUME PackageInv, KeepsPackage PROVE PackageInv'
<1>1. /\ pc = "sign" /\ UNCHANGED <<published, offer, stateVars, unpacked, ready>>
      /\ \/ Signed(offer) /\ pc' = "package" /\ package' = [package EXCEPT ![offer.sha256] = "right"]
         \/ pc' = "cleanup" /\ UNCHANGED package
  BY DEF KeepsPackage, Goto
<1>2. /\ StoreInv' /\ DiskInv' /\ SwitchInv' /\ CheckingIsWorking' /\ VerifiedIsStaged'
      /\ LiveIsCandidate'
      /\ ~mem.verified
  BY <1>1, VerifyingStep DEF Verifying, Switching
<1>3. StageType' /\ TreesInv'
  BY <1>1, TreesStay DEF PackageInv, StageType
<1>4. VerifyInv'
  BY <1>1 DEF PackageInv, VerifyInv, Verifying, stateVars
<1>. QED
  BY <1>2, <1>3, <1>4 DEF PackageInv

LEMMA RecordsPackageKeeps ==
  ASSUME PackageInv, RecordsPackage PROVE PackageInv'
<1>1. /\ pc = "package" /\ Record(RecordPackage(mem, Identity(offer)), "extract")
      /\ UNCHANGED <<published, offer, stageVars>>
  BY DEF RecordsPackage
<1>2. \A n \in RecordPackage(mem, Identity(offer)) : Moves(mem, n) /\ ~n.verified
  BY RecordPackageMoves DEF PackageInv, StoreInv
<1>3. /\ StoreInv' /\ DiskInv' /\ StageType' /\ TreesInv' /\ SwitchInv'
      /\ CheckingIsWorking' /\ VerifiedIsStaged' /\ LiveIsCandidate'
      /\ (pc' = "extract" /\ ~mem'.verified) \/ pc' = "idle"
  BY <1>1, <1>2, RecordedStep DEF Switching, Stopped
<1>4. VerifyInv'
  BY <1>1, <1>3 DEF PackageInv, VerifyInv, Verifying, stageVars
<1>. QED
  BY <1>3, <1>4 DEF PackageInv

LEMMA RecordsExtractionKeeps ==
  ASSUME PackageInv, RecordsExtraction PROVE PackageInv'
<1>1. /\ pc = "record" /\ Record(RecordExtraction(mem, Identity(offer)), "bundle")
      /\ UNCHANGED <<published, offer, stageVars>>
  BY DEF RecordsExtraction
<1>2. \A n \in RecordExtraction(mem, Identity(offer)) : Moves(mem, n) /\ ~n.verified
  BY RecordPackageMoves DEF PackageInv, StoreInv
<1>3. /\ StoreInv' /\ DiskInv' /\ StageType' /\ TreesInv' /\ SwitchInv'
      /\ CheckingIsWorking' /\ VerifiedIsStaged' /\ LiveIsCandidate'
      /\ (pc' = "bundle" /\ ~mem'.verified) \/ pc' = "idle"
  BY <1>1, <1>2, RecordedStep DEF Switching, Stopped
<1>4. VerifyInv'
  BY <1>1, <1>3 DEF PackageInv, VerifyInv, Verifying, stageVars, Entries
<1>. QED
  BY <1>3, <1>4 DEF PackageInv

LEMMA BeginsExtractionKeeps ==
  ASSUME PackageInv, BeginsExtraction PROVE PackageInv'
<1>. DEFINE d == offer.sha256
            accepted == package[d] = "right" /\ Preflight(published[d]) /\ unpacked[d] = -1
<1>1. /\ pc = "extract" /\ UNCHANGED <<published, offer, stateVars, parts, package>>
      /\ \/ /\ ready' = [ready EXCEPT ![d] = Absent] /\ accepted /\ pc' = "unpack"
            /\ unpacked' = [unpacked EXCEPT ![d] = 0]
         \/ /\ ready' = [ready EXCEPT ![d] = Absent] /\ pc' = "fail" /\ unpacked' = unpacked
         \/ pc' = "fail" /\ UNCHANGED <<ready, unpacked>>
  <2>1. /\ pc = "extract" /\ UNCHANGED <<published, offer, stateVars, parts, package>>
        /\ \/ /\ ready' = [ready EXCEPT ![d] = Absent]
              /\ pc' = IF accepted THEN "unpack" ELSE "fail"
              /\ unpacked' = [unpacked EXCEPT ![d] = IF accepted THEN 0 ELSE @]
           \/ pc' = "fail" /\ UNCHANGED <<ready, unpacked>>
    BY DEF BeginsExtraction, Failing, Goto
  <2>. HIDE DEF accepted
  <2>2. ~accepted => [unpacked EXCEPT ![d] = IF accepted THEN 0 ELSE @] = unpacked
    BY DEF PackageInv, StageType
  <2>3. accepted => [unpacked EXCEPT ![d] = IF accepted THEN 0 ELSE @] = [unpacked EXCEPT ![d] = 0]
    OBVIOUS
  <2>. QED
    BY <2>1, <2>2, <2>3
<1>2. /\ StoreInv' /\ DiskInv' /\ SwitchInv' /\ CheckingIsWorking' /\ VerifiedIsStaged'
      /\ LiveIsCandidate'
      /\ ~mem.verified
  BY <1>1, VerifyingStep DEF Verifying, Switching
<1>3. d \in Digests
  BY <1>1, OfferFacts DEF PackageInv, VerifyInv, Verifying
<1>4. StageType'
  BY <1>1 DEF PackageInv, StageType
<1>5. TreesInv'
  BY <1>1 DEF PackageInv, StageType, TreesInv, Entries
<1>6. VerifyInv'
  <2>1. pc' = "unpack" => Preflight(published'[d]) /\ unpacked'[d] = 0
    BY <1>1, <1>3 DEF PackageInv, StageType
  <2>2. Len(Entries(d)) \in Nat /\ Len(Entries(d))' = Len(Entries(d))
    BY <1>1, <1>3, ListingOf DEF PackageInv, Entries
  <2>3. pc' = "unpack" => unpacked'[d] \in 0 .. Len(Entries(d))'
    BY <2>1, <2>2
  <2>. QED
    BY <1>1, <2>1, <2>3 DEF PackageInv, VerifyInv, Verifying, stateVars
<1>. QED
  BY <1>2, <1>4, <1>5, <1>6 DEF PackageInv

LEMMA UnpacksKeeps ==
  ASSUME PackageInv, Unpacks PROVE PackageInv'
<1>. DEFINE d == offer.sha256
<1>1. /\ pc = "unpack" /\ UNCHANGED <<published, offer, stateVars, parts, package, ready>>
      /\ \/ /\ unpacked' = [unpacked EXCEPT ![d] = @ + 1]
            /\ pc' = IF unpacked[d] = Len(Entries(d)) THEN "ready" ELSE "unpack"
         \/ pc' = "fail" /\ unpacked' \in {unpacked, [unpacked EXCEPT ![d] = -1]}
  BY DEF Unpacks, Failing, Goto
<1>2. /\ StoreInv' /\ DiskInv' /\ SwitchInv' /\ CheckingIsWorking' /\ VerifiedIsStaged'
      /\ LiveIsCandidate'
      /\ ~mem.verified
  BY <1>1, VerifyingStep DEF Verifying, Switching
<1>3. d \in Digests
  BY <1>1, OfferFacts DEF PackageInv, VerifyInv, Verifying
<1>4. StageType' /\ TreesInv'
  BY <1>1, TreesStay DEF PackageInv, StageType
<1>5. VerifyInv'
  <2>1. Len(Entries(d)) \in Nat /\ Entries(d)' = Entries(d)
    BY <1>1, <1>3, ListingOf DEF PackageInv, Entries
  <2>2. unpacked[d] \in 0 .. Len(Entries(d))
    BY <1>1 DEF PackageInv, VerifyInv
  <2>3. pc' # "fail" => unpacked'[d] = unpacked[d] + 1
    BY <1>1, <1>3 DEF PackageInv, StageType
  <2>4. pc' = "unpack" => unpacked'[d] \in 0 .. Len(Entries(d))
    BY <1>1, <2>1, <2>2, <2>3
  <2>5. pc' = "ready" => unpacked'[d] = Len(Entries(d)) + 1
    BY <1>1, <2>3
  <2>. QED
    BY <1>1, <2>1, <2>4, <2>5 DEF PackageInv, VerifyInv, Verifying, stateVars
<1>. QED
  BY <1>2, <1>4, <1>5 DEF PackageInv

LEMMA MakesReadyKeeps ==
  ASSUME PackageInv, MakesReady PROVE PackageInv'
<1>. DEFINE d == offer.sha256
<1>1. /\ pc = "ready" /\ UNCHANGED <<published, offer, stateVars, parts, package>>
      /\ \/ pc' = "record" /\ ready' = [ready EXCEPT ![d] = TreeAfter(Entries(d), unpacked[d])]
         \/ pc' = "fail" /\ UNCHANGED ready
      /\ unpacked' = [unpacked EXCEPT ![d] = -1]
  BY DEF MakesReady, Failing, Goto
<1>2. /\ StoreInv' /\ DiskInv' /\ SwitchInv' /\ CheckingIsWorking' /\ VerifiedIsStaged'
      /\ LiveIsCandidate'
      /\ ~mem.verified
  BY <1>1, VerifyingStep DEF Verifying, Switching
<1>3. d \in Digests /\ Entries(d)' = Entries(d) /\ Preflight(published[d])
  BY <1>1, OfferFacts DEF PackageInv, VerifyInv, Verifying, Entries
<1>4. pc' = "record" => ready'[d] = Whole(d)
  BY <1>1, <1>3 DEF PackageInv, StageType, VerifyInv, Whole
<1>5. StageType'
  <2>1. unpacked' \in [Digests -> Int]
    <3>1. unpacked' = [unpacked EXCEPT ![d] = -1]
      BY <1>1
    <3>2. unpacked \in [Digests -> Int] /\ -1 \in Int
      BY DEF PackageInv, StageType
    <3>. HIDE DEF d
    <3>. QED
      BY <3>1, <3>2
  <2>2. DOMAIN ready' = DOMAIN ready
    BY <1>1
  <2>. QED
    BY <1>1, <2>1, <2>2 DEF PackageInv, StageType
<1>6. TreesInv'
  <2>1. HasFolders(Whole(d), Entries(d))
    BY <1>3, ListingOf, ImpliedAreFolders DEF PackageInv, Preflight, Whole, Entries
  <2>2. \A e \in Digests \ {d} : ready'[e] = ready[e]
    BY <1>1 DEF PackageInv, StageType
  <2>3. ready'[d] = ready[d] \/ ready'[d] = Whole(d)
    BY <1>1, <1>4
  <2>. QED
    BY <1>1, <1>3, <2>1, <2>2, <2>3 DEF PackageInv, TreesInv, Entries
<1>7. VerifyInv'
  BY <1>1, <1>3, <1>4 DEF PackageInv, VerifyInv, Verifying, stateVars, Whole
<1>. QED
  BY <1>2, <1>5, <1>6, <1>7 DEF PackageInv

LEMMA RecordsVerifiedKeeps ==
  ASSUME PackageInv, RecordsVerified PROVE PackageInv'
<1>. DEFINE d == offer.sha256
            nexts == RecordVerified(mem, Identity(offer))
<1>1. /\ pc = "bundle" /\ UNCHANGED <<published, offer, package, unpacked>>
      /\ \/ package[d] = "right" /\ Record(nexts, "idle") /\ UNCHANGED ready
         \/ /\ pc' = "fail" /\ UNCHANGED stateVars
            /\ ready' \in {ready, [ready EXCEPT ![d] = Absent]}
  BY DEF RecordsVerified, Goto
<1>2. StageType' /\ TreesInv'
  BY <1>1 DEF PackageInv, StageType, TreesInv, Entries
<1>3. CASE pc' = "fail" /\ UNCHANGED stateVars
  <2>1. /\ StoreInv' /\ DiskInv' /\ SwitchInv' /\ CheckingIsWorking' /\ VerifiedIsStaged'
        /\ LiveIsCandidate'
    BY <1>1, <1>3, VerifyingStep DEF Verifying, Switching
  <2>. QED
    BY <1>2, <1>3, <2>1, NotVerifying DEF PackageInv, Verifying
<1>4. CASE package[d] = "right" /\ Record(nexts, "idle") /\ UNCHANGED ready
  <2>1. \A n \in nexts : Good(n) /\ n.cand = Identity(offer) /\ n.status = "available" /\ n.stage = "none"
    BY RecordVerifiedIs DEF PackageInv, StoreInv
  <2>2. /\ StoreInv' /\ Recorded(nexts) /\ pc' = "idle"
        /\ mem' \in nexts \/ (mem' = mem /\ erred')
    <3>. HIDE DEF nexts
    <3>. QED
      BY <1>4, <2>1, RecordGives DEF PackageInv
  <2>3. SwitchInv' /\ LiveIsCandidate'
    <3>1. Elsewhere
      BY <1>1, <2>2 DEF Elsewhere, Switching
    <3>2. mem'.stage = "bundle-switching" => mem.stage = "bundle-switching"
      BY <2>1, <2>2
    <3>. QED
      BY <3>1, <3>2, NoSwitch DEF PackageInv
  <2>4. VerifyInv' /\ CheckingIsWorking'
    BY <2>1, <2>2, NotVerifying DEF CheckingIsWorking, Verifying
  <2>5. ~mem.verified
    BY <1>1 DEF PackageInv, VerifyInv, Verifying
  <2>6. ASSUME NEW s, s.cand = Identity(offer) PROVE Staged(s)'
    <3>1. offer \in Offers /\ Signed(offer) /\ Preflight(published[d]) /\ ready[d] = Whole(d)
      BY <1>1 DEF PackageInv, VerifyInv, Verifying, Whole
    <3>2. d \in Digests /\ Identity(offer).payload.sha256 = d /\ IsTrusted(Identity(offer).key)
      BY <3>1, OfferFacts DEF Signed
    <3>3. SafeTree(ready[d])
      BY <3>1, <3>2, ListingOf, PreflightIsSafe DEF PackageInv, Whole, Entries
    <3>4. Entries(d)' = Entries(d) /\ ready' = ready /\ package' = package
      BY <1>1, <1>4 DEF Entries
    <3>5. s.cand.payload.sha256 = d /\ IsTrusted(s.cand.key)
      BY <2>6, <3>2
    <3>. PICK e : e = d
      OBVIOUS
    <3>6. package'[e] = "right" /\ SafeTree(ready'[e])
      BY <1>4, <3>3, <3>4
    <3>7. Entries(e)' = Entries(e)
      BY <1>1 DEF Entries
    <3>8. ready'[e] = TreeAfter(Entries(e)', Len(Entries(e)') + 1)
      BY <3>1, <3>4, <3>7 DEF Whole
    <3>9. s.cand.payload.sha256 = e
      BY <3>5
    <3>. HIDE DEF d
    <3>. QED
      BY <3>5, <3>6, <3>8, <3>9 DEF Staged
  <2>7. VerifiedIsStaged'
    <3>1. mem'.verified => Staged(mem)'
      <4>1. CASE mem' = mem
        BY <2>5, <4>1
      <4>2. CASE mem' \in nexts
        <5>1. mem'.cand = Identity(offer)
          BY <2>1, <4>2
        <5>. PICK s : s = mem'
          OBVIOUS
        <5>2. Staged(s)'
          BY <2>6, <5>1
        <5>. QED
          BY <5>2 DEF Staged
      <4>. QED
        BY <2>2, <4>1, <4>2
    <3>. QED
      BY <3>1 DEF VerifiedIsStaged, Staged, Digest
  <2>8. DiskInv'
    <3>1. ~file.st.verified
      BY <1>1, <2>5 DEF PackageInv, DiskInv, Stopped
    <3>2. mem.stage # "bundle-switching"
      BY <1>1 DEF PackageInv, SwitchInv, Switching
    <3>3. CASE mem' \in nexts /\ file' = Written(mem')
      BY <3>3 DEF DiskInv, Written
    <3>4. CASE mem' = mem /\ file' = file
      BY <3>1, <3>4 DEF PackageInv, DiskInv
    <3>5. ASSUME NEW n \in nexts, mem' = mem, file' = Written(n) PROVE DiskInv'
      <4>1. file'.st = n /\ n.stage = "none" /\ n.cand = Identity(offer)
        BY <2>1, <3>5 DEF Written
      <4>2. mem.status = "checking"
        BY GoodFacts DEF PackageInv, StoreInv, RecordVerified, Stores
      <4>3. Stopped' /\ ~mem'.verified
        BY <2>2, <2>5, <3>5, <4>2 DEF Stopped
      <4>4. Staged(file.st)'
        BY <2>6, <4>1 DEF Staged
      <4>. QED
        BY <4>1, <4>3, <4>4 DEF DiskInv
    <3>. QED
      BY <2>2, <3>3, <3>4, <3>5 DEF Recorded
  <2>. QED
    BY <1>2, <2>2, <2>3, <2>4, <2>7, <2>8 DEF PackageInv
<1>. QED
  BY <1>1, <1>3, <1>4

-----------------------------------------------------------------------------
(* The start and the switch.                                                 *)

LEMMA StartsKeeps ==
  ASSUME PackageInv, Starts PROVE PackageInv'
<1>. DEFINE st == Loaded(file, TRUE).st
<1>1. pc \in {"down", "exit"} /\ UNCHANGED <<copyVars, published, offer, stageVars>>
  BY DEF Starts
<1>2. Moves(file.st, st) /\ st.verified = file.st.verified
  BY LoadedIs DEF PackageInv
<1>3. \/ /\ Stands(st)
         /\ \E next \in Migrated(st) : mem' = next /\ file' = Written(next) /\ pc' = "switch"
      \/ HasPendingApply(st) /\ mem' = st /\ file' = Written(st) /\ pc' = "down"
      \/ st.stage = "bundle-switching" /\ mem' = st /\ file' = Written(st) /\ pc' = "switch"
      \/ \E next \in RolledBack(st) : mem' = next /\ file' = Written(next) /\ pc' = "idle"
      \/ /\ st.stage # "bundle-switching" /\ st.status # "checking"
         /\ mem' = st /\ file' = Written(st) /\ pc' = "idle"
  BY DEF Starts, Goto
<1>. HIDE DEF st
<1>4. Good(st)
  BY <1>2 DEF Moves
<1>5. /\ Good(mem') /\ file' = Written(mem') /\ mem'.verified = st.verified
      /\ pc' = "idle" => mem'.status # "checking"
      /\ pc' # "switch" => mem'.stage # "bundle-switching"
      /\ pc' \in {"idle", "switch", "down"}
      /\ mem'.verified => mem'.cand = st.cand
  <2>1. CASE \E next \in Migrated(st) : mem' = next /\ file' = Written(next) /\ pc' = "switch"
    BY <1>4, <2>1, MigratedIs
  <2>2. CASE mem' = st /\ file' = Written(st)
    <3>1. HasPendingApply(st) => st.stage # "bundle-switching"
      BY <1>4, GoodFacts DEF HasPendingApply, StagePhase
    <3>2. ~(\E next \in RolledBack(st) : mem' = next) \/ (st.status # "checking" /\ st.stage = "none")
      BY <1>4, <2>2, RolledBackRests DEF Rests
    <3>. QED
      BY <1>3, <1>4, <2>2, <3>1, <3>2
  <2>3. CASE \E next \in RolledBack(st) : mem' = next /\ file' = Written(next) /\ pc' = "idle"
    BY <1>4, <2>3, RolledBackRests DEF Rests, Moves
  <2>. QED
    BY <1>3, <2>1, <2>2, <2>3
<1>6. StoreInv' /\ DiskInv' /\ StageType' /\ TreesInv'
  <2>1. file'.st = mem'
    BY <1>5 DEF Written
  <2>. QED
    BY <1>1, <1>5, <2>1, TreesStay DEF PackageInv, StoreInv, DiskInv, StageType, stageVars
<1>7. VerifyInv' /\ CheckingIsWorking' /\ LiveIsCandidate'
  BY <1>5, NotVerifying DEF Verifying, CheckingIsWorking, LiveIsCandidate
<1>8. VerifiedIsStaged'
  <2>. SUFFICES ASSUME mem'.verified, ~lost PROVE Staged(mem)'
    BY <1>1 DEF VerifiedIsStaged, Staged, Digest, stageVars
  <2>1. file.st.verified /\ mem'.cand = file.st.cand
    BY <1>2, <1>5 DEF Moves
  <2>2. Staged(file.st)
    <3>1. CASE mem.verified /\ mem.cand = file.st.cand
      BY <3>1 DEF PackageInv, VerifiedIsStaged, Staged, Digest
    <3>2. CASE Staged(file.st)
      BY <3>2
    <3>. QED
      BY <2>1, <3>1, <3>2 DEF PackageInv, DiskInv
  <2>. QED
    BY <1>1, <2>1, <2>2 DEF Staged, Entries, stageVars
<1>9. SwitchInv'
  <2>1. CASE pc' # "switch"
    BY <1>5, <2>1 DEF SwitchInv, Switching
  <2>2. CASE pc' = "switch"
    <3>1. mem'.stage = "bundle-switching" /\ SameBundle(Whole(Digest), ready[Digest])'
      <4>1. CASE Stands(st) /\ \E next \in Migrated(st) : mem' = next
        <5>1. mem'.stage = "bundle-switching" /\ mem'.cand = st.cand
          BY <1>4, <4>1, MigratedIs
        <5>. PICK e : e = st.cand.payload.sha256
          OBVIOUS
        <5>2. SameBundle(Whole(e), ready[e])
          BY <4>1, StandingIsWhole DEF PackageInv
        <5>3. Digest' = e /\ Whole(e)' = Whole(e) /\ ready' = ready
          BY <1>1, <5>1 DEF Digest, Whole, Entries, stageVars
        <5>. QED
          BY <5>1, <5>2, <5>3
      <4>2. CASE st.stage = "bundle-switching" /\ mem' = st
        <5>1. file.st.stage = "bundle-switching" /\ st.verified
          BY <1>2, <1>4, <4>2, GoodFacts DEF Moves, StagePhase, Applying
        <5>2. mem = file.st
          BY <5>1 DEF PackageInv, DiskInv, Written
        <5>3. mem'.cand = mem.cand
          BY <1>2, <4>2, <5>1, <5>2 DEF Moves
        <5>4. SameBundle(Whole(Digest), ready[Digest])
          BY <5>1, <5>2 DEF PackageInv, SwitchInv
        <5>5. Digest' = Digest /\ Whole(Digest)' = Whole(Digest) /\ ready' = ready
          BY <1>1, <5>3 DEF Digest, Whole, Entries, stageVars
        <5>. QED
          BY <4>2, <5>4, <5>5
      <4>. QED
        BY <1>3, <2>2, <4>1, <4>2
    <3>. QED
      BY <2>2, <3>1 DEF SwitchInv, Switching
  <2>. QED
    BY <2>1, <2>2
<1>. QED
  BY <1>6, <1>7, <1>8, <1>9 DEF PackageInv

(* The copy is promoted only when it is complete, and then goes in service. *)
LEMMA SwitchesKeeps ==
  ASSUME PackageInv, Switches PROVE PackageInv'
<1>. DEFINE d == Digest
<1>1. UNCHANGED <<published, mem, file, erred, parts, package, unpacked, ready, lost>>
  BY DEF Switches, stateVars, stageVars
<1>2. pc \in {"switch", "copy", "promote"} /\ pc' \in Switching
  BY DEF Switches, PrepareCopy, BeginCopy, CopyNode, CopyBytes, CopyMode, CopyFails, EndCopy,
         Promote, Goto, Switching
<1>3. pc' = "promote" => SameBundle(ready[d], copy[d]) /\ UNCHANGED copy
  <2>. SUFFICES ASSUME pc' = "promote" PROVE SameBundle(ready[d], copy[d]) /\ UNCHANGED copy
    OBVIOUS
  <2>1. \/ PrepareCopy(d, ready[d], Version)
        \/ EndCopy(d, ready[d], Version)
    BY DEF Switches, BeginCopy, CopyNode, CopyBytes, CopyMode, CopyFails, Promote, Goto
  <2>. QED
    BY <2>1 DEF PrepareCopy, EndCopy, IsComplete, Goto
<1>4. pc' = "switched" => pc = "promote" /\ AppBundle(copy[d], Version) /\ live' = copy[d]
  <2>. SUFFICES ASSUME pc' = "switched"
                PROVE  pc = "promote" /\ AppBundle(copy[d], Version) /\ live' = copy[d]
    OBVIOUS
  <2>1. Promote(d, Version)
    BY DEF Switches, PrepareCopy, BeginCopy, CopyNode, CopyBytes, CopyMode, CopyFails, EndCopy, Goto
  <2>. QED
    BY <2>1 DEF Promote, Goto
<1>5. mem.stage = "bundle-switching" /\ SameBundle(Whole(d), ready[d])
  BY <1>2 DEF PackageInv, SwitchInv, Switching
<1>6. Digest' = Digest /\ Version' = Version /\ \A e : Whole(e)' = Whole(e) /\ Entries(e)' = Entries(e)
  BY <1>1 DEF Digest, Version, Whole, Entries
<1>7. StoreInv' /\ StageType' /\ TreesInv'
  BY <1>1, TreesStay DEF PackageInv, StoreInv, StageType
<1>11. DiskInv'
  BY <1>1, <1>2, DiskStays DEF PackageInv, Stopped, stateVars
<1>8. VerifyInv' /\ CheckingIsWorking' /\ VerifiedIsStaged'
  <2>1. VerifyInv' /\ CheckingIsWorking'
    BY <1>2, NotVerifying DEF Verifying, Switching, CheckingIsWorking
  <2>2. VerifiedIsStaged'
    BY <1>1 DEF PackageInv, VerifiedIsStaged, Digest, Entries
  <2>. QED
    BY <2>1, <2>2
<1>9. SwitchInv'
  BY <1>1, <1>2, <1>3, <1>5, <1>6 DEF SwitchInv
<1>10. LiveIsCandidate'
  <2>. SUFFICES ASSUME pc' = "switched" PROVE SameBundle(Whole(d), copy[d])
    BY <1>4, <1>6 DEF LiveIsCandidate, Whole
  <2>1. SameBundle(ready[d], copy[d])
    BY <1>4 DEF PackageInv, SwitchInv
  <2>. QED
    BY <1>5, <2>1, SameBundleTrans
<1>. QED
  BY <1>7, <1>8, <1>9, <1>10, <1>11 DEF PackageInv

LEMMA EndsSwitchKeeps ==
  ASSUME PackageInv, EndsSwitch PROVE PackageInv'
<1>1. /\ file' = Written(mem') /\ UNCHANGED <<published, parts, package, unpacked, ready, lost>>
      /\ \/ pc = "switched" /\ pc' = "live" /\ mem' \in Promoted(mem)
         \/ pc = "failed" /\ pc' = "idle" /\ mem' \in RolledBack(mem)
  BY DEF EndsSwitch, stageVars, Goto
<1>2. Rests(mem, mem') /\ mem'.stage = "none"
  BY <1>1, PromotedRests, RolledBackRests DEF PackageInv, StoreInv
<1>6. file'.st = mem'
  BY <1>1 DEF Written
<1>3. StoreInv' /\ StageType' /\ TreesInv' /\ VerifiedIsStaged'
  BY <1>1, <1>2, <1>6, TreesStay, StagedStays DEF PackageInv, StoreInv, StageType, Rests, Moves
<1>7. DiskInv'
  BY <1>1, <1>6 DEF DiskInv
<1>4. VerifyInv' /\ CheckingIsWorking' /\ LiveIsCandidate'
  BY <1>1, <1>2, NotVerifying DEF Verifying, CheckingIsWorking, LiveIsCandidate, Rests
<1>5. SwitchInv'
  BY <1>1, <1>2 DEF SwitchInv, Switching
<1>. QED
  BY <1>3, <1>4, <1>5, <1>7 DEF PackageInv

LEMMA CrashesKeeps ==
  ASSUME PackageInv, Crashes PROVE PackageInv'
<1>1. /\ pc' = "down"
      /\ UNCHANGED <<published, mem, file, erred, parts, package, unpacked, ready, lost>>
  BY DEF Crashes, stateVars, stageVars, Goto
<1>2. StoreInv' /\ Moves(mem, mem')
  BY <1>1, StoreStays DEF PackageInv, stateVars
<1>3. StageType' /\ TreesInv' /\ VerifiedIsStaged'
  BY <1>1, <1>2, TreesStay, StagedStays DEF PackageInv, StageType
<1>6. DiskInv'
  BY <1>1, DiskStays DEF PackageInv, stateVars
<1>4. VerifyInv' /\ CheckingIsWorking' /\ LiveIsCandidate'
  BY <1>1, NotVerifying DEF Verifying, CheckingIsWorking, LiveIsCandidate
<1>5. SwitchInv'
  <2>1. Digest' = Digest /\ \A e : Whole(e)' = Whole(e)
    BY <1>1 DEF Digest, Whole, Entries
  <2>. QED
    BY <1>1, <2>1 DEF PackageInv, SwitchInv, Switching
<1>. QED
  BY <1>2, <1>3, <1>4, <1>5, <1>6 DEF PackageInv

LEMMA DamagesKeeps ==
  ASSUME PackageInv, Damages PROVE PackageInv'
<1>1. pc = "idle" /\ pc' = "idle" /\ lost' /\ UNCHANGED <<published, stateVars, unpacked>>
  BY DEF Damages
<1>2. PICK d \in Digests :
       \/ package' = [package EXCEPT ![d] = "wrong"] /\ UNCHANGED ready
       \/ /\ ready[d] # Absent /\ UNCHANGED package
          /\ \E path \in DOMAIN ready[d] :
               /\ ready[d][path].kind = "file"
               /\ ready' \in {[ready EXCEPT ![d][path].mode = "600"],
                              [ready EXCEPT ![d] = [p \in DOMAIN @ \ {path} |-> @[p]]]}
  BY DEF Damages
<1>3. StoreInv' /\ VerifyInv' /\ VerifiedIsStaged'
  BY <1>1, StoreStays, NotVerifying DEF PackageInv, VerifiedIsStaged, Verifying
<1>8. DiskInv'
  BY <1>1, DiskStays DEF PackageInv
<1>4. SwitchInv' /\ LiveIsCandidate'
  BY <1>1, NoSwitch DEF PackageInv, Elsewhere, Switching, stateVars
<1>5. CheckingIsWorking'
  BY <1>1 DEF PackageInv, CheckingIsWorking, stateVars
<1>6. StageType'
  BY <1>1, <1>2 DEF PackageInv, StageType
<1>7. TreesInv'
  <2>1. CASE UNCHANGED ready
    BY <1>1, <2>1, TreesStay DEF PackageInv
  <2>2. ASSUME NEW path \in DOMAIN ready[d], ready[d] # Absent, ready[d][path].kind = "file",
               ready' \in {[ready EXCEPT ![d][path].mode = "600"],
                           [ready EXCEPT ![d] = [p \in DOMAIN @ \ {path} |-> @[p]]]}
        PROVE  TreesInv'
    <3>1. ready[d] # EmptyTree
      BY <2>2 DEF EmptyTree
    <3>2. ready[d] # RootOnly
      BY <2>2, NodeFacts DEF RootOnly
    <3>3. Preflight(published[d]) /\ HasFolders(ready[d], Entries(d))
      BY <2>2, <3>1, <3>2 DEF PackageInv, TreesInv
    <3>4. \A p \in DOMAIN ready[d] \ {path} :
            p \in DOMAIN ready'[d] /\ ready'[d][p] = ready[d][p]
      BY <2>2 DEF PackageInv, StageType
    <3>5. HasFolders(ready'[d], Entries(d))
      BY <2>2, <3>3, <3>4 DEF HasFolders, IsFolder
    <3>6. \A e \in Digests \ {d} : ready'[e] = ready[e]
      BY <2>2 DEF PackageInv, StageType
    <3>. QED
      BY <1>1, <3>3, <3>5, <3>6 DEF PackageInv, TreesInv, Entries
  <2>. QED
    BY <1>2, <2>1, <2>2
<1>. QED
  BY <1>3, <1>4, <1>5, <1>6, <1>7, <1>8 DEF PackageInv

LEMMA NextKeeps == PackageInv /\ [Next]_vars => PackageInv'
<1>. SUFFICES ASSUME PackageInv, [Next]_vars PROVE PackageInv'
  OBVIOUS
<1>1. CASE Works
  BY <1>1, ChecksKeeps, VerifiesKeeps, RecoversKeeps, LooksForPackageKeeps, DownloadsKeeps,
     CleansUpKeeps, KeepsPackageKeeps, RecordsPackageKeeps, BeginsExtractionKeeps, UnpacksKeeps,
     MakesReadyKeeps, RecordsExtractionKeeps, RecordsVerifiedKeeps, FailsKeeps, HandsOffKeeps,
     SwitchesKeeps, EndsSwitchKeeps DEF Works
<1>2. CASE Requests
  BY <1>2, BeginsCheckKeeps, ClaimsNotificationKeeps, SweepsLeftoversKeeps, BeginsVerificationKeeps,
     BeginsApplyKeeps DEF Requests
<1>3. CASE Starts \/ Crashes \/ Quits \/ Damages
  BY <1>3, StartsKeeps, CrashesKeeps, QuitsKeeps, DamagesKeeps
<1>4. CASE Finished \/ UNCHANGED vars
  BY <1>4, StutterKeeps DEF Finished
<1>. QED
  BY <1>1, <1>2, <1>3, <1>4 DEF Next

-----------------------------------------------------------------------------
(* The theorems.                                                             *)

(* The invariant that the rest follows from, whatever is published and answered,
   and however often a step fails, a write fails once it is done, or the application
   dies: what memory and disk hold is valid, and they agree on what is verified and
   on a switch that has begun, or what the disk alone has verified is staged; a
   verification has what its step needs, a staged tree has the folders of its
   archive, and a switch only copies the published tree. *)
THEOREM PackageInductive == Spec => []PackageInv
<1>1. Init => PackageInv
  BY InitKeeps
<1>2. PackageInv /\ [Next]_vars => PackageInv'
  BY NextKeeps
<1>. QED
  BY <1>1, <1>2, PTL DEF Spec

(* While no operation runs the state does not say that one does, unless one gave
   up because it could not write how it ended. *)
THEOREM ChecksAreWork == Spec => []CheckingIsWorking
<1>1. PackageInv => CheckingIsWorking
  BY DEF PackageInv
<1>. QED
  BY <1>1, PackageInductive, PTL

(* A verified candidate was signed with a key in force, and its package and its
   tree are there and whole until something removes or changes them; and that
   tree, which the extraction accepted, passes the recovery's own check of links. *)
THEOREM VerifiedAreStaged == Spec => []VerifiedIsStaged
<1>1. PackageInv => VerifiedIsStaged
  BY DEF PackageInv
<1>. QED
  BY <1>1, PackageInductive, PTL

(* A verification never meets a file or a folder that an earlier one left: the
   sweep that begins it comes before everything it creates. *)
THEOREM LeftoversBlockNothing == Spec => []LeftoversNeverBlock
<1>1. PackageInv => LeftoversNeverBlock
  <2>. SUFFICES ASSUME PackageInv PROVE LeftoversNeverBlock
    OBVIOUS
  <2>1. CASE pc = "create"
    BY <2>1 DEF PackageInv, VerifyInv, LeftoversNeverBlock
  <2>2. CASE pc = "extract"
    <3>1. offer.sha256 \in Digests
      BY <2>2, OfferFacts DEF PackageInv, VerifyInv, Verifying
    <3>. QED
      BY <2>2, <3>1 DEF PackageInv, VerifyInv, LeftoversNeverBlock
  <2>. QED
    BY <2>1, <2>2 DEF LeftoversNeverBlock
<1>. QED
  BY <1>1, PackageInductive, PTL

(* What goes in service is the published bundle to the last entry, and one that
   can run, however often its copy was interrupted and taken up again. *)
THEOREM PublishedGoesLive == Spec => []LiveIsCandidate
<1>1. PackageInv => LiveIsCandidate
  BY DEF PackageInv
<1>. QED
  BY <1>1, PackageInductive, PTL

(* What a recorded step leaves of a verified candidate. *)
LEMMA RecordKeeps ==
  ASSUME NEW nexts, NEW to, Record(nexts, to), file.st.verified, ~file'.st.verified,
         \A n \in nexts : n.verified
  PROVE  FALSE
<1>. PICK n \in nexts : file' \in {file, Written(n)}
  BY DEF Record
<1>. QED
  BY DEF Written

LEMMA ReplacingKeeps ==
  ASSUME NEW nexts, NEW kept, RecordReplacing(nexts, kept), file.st.verified, ~file'.st.verified
  PROVE  file'.st \in nexts
<1>1. Record(nexts, "idle")
  BY DEF RecordReplacing
<1>2. PICK n \in nexts : file' \in {file, Written(n)}
  BY <1>1 DEF Record
<1>. QED
  BY <1>2 DEF Written

(* The steps that may give a verified candidate up. *)
LEMMA GivesUp ==
  ASSUME PackageInv, Next, file.st.verified, ~file'.st.verified
  PROVE  \/ pc = "check" /\ file'.st.cand # file.st.cand /\ file'.st.failure = "none"
         \/ pc \in {"verify", "fail", "switched"}
<1>. DEFINE Goal == \/ pc = "check" /\ file'.st.cand # file.st.cand /\ file'.st.failure = "none"
                    \/ pc \in {"verify", "fail", "switched"}
<1>0. Good(mem) /\ file' # file
  BY DEF PackageInv, StoreInv
<1>11. ~Stopped => /\ mem.verified /\ mem.cand = file.st.cand /\ mem.proof = "signed"
                   /\ mem.cand # None
  BY <1>0, DiskAgrees, GoodFacts DEF PackageInv
<1>1. pc \notin Verifying
  BY <1>11 DEF PackageInv, VerifyInv, Stopped, Verifying
<1>2. CASE Checks
  <2>. PICK fetched \in Selections :
         \/ Record(RecordFailure(mem), "idle")
         \/ RecordReplacing(RecordNoUpdate(mem), Absent)
         \/ \E selection \in fetched \ {Nothing, Ambiguous} :
              LET r == selection.release
              IN RecordReplacing(RecordAvailable(mem, Identity(r)),
                   IF SameCandidate(mem, Identity(r)) THEN mem.cand.payload.sha256 ELSE r.sha256)
    BY <1>2 DEF Checks
  <2>0. ~Stopped
    BY <1>2 DEF Checks, Stopped
  <2>1. CASE Record(RecordFailure(mem), "idle")
    BY <1>0, <1>11, <2>0, <2>1, FailsCheck, RecordKeeps
  <2>2. CASE RecordReplacing(RecordNoUpdate(mem), Absent)
    <3>1. file'.st \in RecordNoUpdate(mem)
      BY <2>2, ReplacingKeeps
    <3>2. file'.st = Settled(NoCandidate(mem), "no-update", "none")
      BY <3>1 DEF RecordNoUpdate, Stores
    <3>3. file'.st.cand = None
      BY <1>0, <3>1, DropsCandidate
    <3>4. file'.st.failure = "none"
      BY <1>0, <3>2, GoodFacts DEF Settled, NoCandidate, State
    <3>. QED
      BY <1>2, <1>11, <2>0, <3>3, <3>4 DEF Checks
  <2>3. ASSUME NEW selection \in fetched \ {Nothing, Ambiguous}, NEW kept,
               RecordReplacing(RecordAvailable(mem, Identity(selection.release)), kept)
        PROVE  Goal
    <3>. DEFINE c == Identity(selection.release)
    <3>1. c \in Candidates
      BY SelectionOffers, OfferFacts
    <3>2. file'.st \in RecordAvailable(mem, c)
      BY <2>3, ReplacingKeeps
    <3>3. file'.st.cand = c /\ file'.st.failure = "none" /\ ~SameCandidate(mem, c)
      BY <1>0, <1>11, <2>0, <3>1, <3>2, OffersCandidate
    <3>. QED
      BY <1>2, <1>11, <2>0, <3>3 DEF Checks, SameCandidate
  <2>. QED
    BY <2>1, <2>2, <2>3
<1>3. CASE Verifies \/ Fails \/ EndsSwitch
  <2>1. ASSUME pc = "failed", mem' \in RolledBack(mem), file' = Written(mem') PROVE FALSE
    BY <1>0, <1>11, <2>1, RolledBackRests DEF Stopped, Written
  <2>. QED
    BY <1>3, <2>1 DEF Verifies, Fails, EndsSwitch
<1>4. CASE HandsOff
  BY <1>0, <1>4, <1>11, HandoffMoves, RecordKeeps DEF HandsOff, Stopped
<1>5. CASE \/ Recovers \/ LooksForPackage \/ Downloads \/ CleansUp \/ KeepsPackage \/ RecordsPackage
           \/ BeginsExtraction \/ Unpacks \/ MakesReady \/ RecordsExtraction \/ RecordsVerified
  BY <1>0, <1>1, <1>5 DEF Recovers, LooksForPackage, Downloads, CleansUp, KeepsPackage, RecordsPackage,
       BeginsExtraction, Unpacks, MakesReady, RecordsExtraction, RecordsVerified, Verifying
<1>6. CASE Switches \/ SweepsLeftovers \/ BeginsVerification \/ Crashes \/ Quits \/ Damages \/ Finished
  BY <1>0, <1>6 DEF Switches, SweepsLeftovers, BeginsVerification, Crashes, Quits, Damages, Finished,
       stateVars, vars
<1>7. ASSUME NEW trigger \in {"manual", "automatic"}, BeginsCheck(trigger) PROVE FALSE
  <2>1. Record(BeginCheck(mem, trigger), "check")
    BY <1>7 DEF BeginsCheck
  <2>2. mem.status # "checking"
    BY <2>1, RecordNeeds DEF BeginCheck, Stores
  <2>3. \A n \in BeginCheck(mem, trigger) : n.verified
    BY <1>0, <1>11, <2>2, BeginCheckMoves DEF Stopped
  <2>. QED
    BY <2>1, <2>3, RecordKeeps
<1>8. CASE ClaimsNotification
  <2>1. PICK n \in ClaimNotification(mem) : file' = Written(n)
    BY <1>8 DEF ClaimsNotification
  <2>2. mem.status # "checking"
    BY <2>1 DEF ClaimNotification, Stores
  <2>3. n.verified = mem.verified
    BY <1>0, ClaimNotificationMoves
  <2>. QED
    BY <1>11, <2>1, <2>2, <2>3 DEF Stopped, Written
<1>9. CASE BeginsApply
  <2>1. Record(BeginApply(mem, mem.cand), "handoff") /\ mem.verified
    BY <1>9 DEF BeginsApply
  <2>2. \A n \in BeginApply(mem, mem.cand) : n.verified
    BY <1>0, <2>1, BeginApplyMoves
  <2>. QED
    BY <2>1, <2>2, RecordKeeps
<1>10. CASE Starts
  <2>. DEFINE st == Loaded(file, TRUE).st
  <2>1. Good(st) /\ st.verified
    BY LoadedIs DEF PackageInv, Moves
  <2>2. file'.st \in Migrated(st) \/ file'.st = st \/ file'.st \in RolledBack(st)
    <3>1. \/ \E next \in Migrated(st) : file' = Written(next)
          \/ file' = Written(st)
          \/ \E next \in RolledBack(st) : file' = Written(next)
      BY <1>10 DEF Starts, Goto
    <3>. HIDE DEF st
    <3>. QED
      BY <3>1 DEF Written
  <2>. HIDE DEF st
  <2>. QED
    BY <2>1, <2>2, MigratedIs, RolledBackRests
<1>. QED
  BY <1>2, <1>3, <1>4, <1>5, <1>6, <1>7, <1>8, <1>9, <1>10 DEF Next, Works, Requests

(* The record on disk gives a verified candidate up only when a check found something
   else, when it is verified again, or once it is in service, writes included that
   fail once they are done: no failing check, crash, start or application that is
   rolled back loses it. *)
THEOREM VerifiedAreKept == Spec => VerifiedIsKept
<1>1. PackageInv /\ [Next]_vars =>
        [ file.st.verified /\ ~file'.st.verified =>
            \/ pc = "check" /\ file'.st.cand # file.st.cand /\ file'.st.failure = "none"
            \/ pc \in {"verify", "fail", "switched"} ]_vars
  BY GivesUp
<1>. QED
  BY <1>1, PackageInductive, PTL DEF Spec, VerifiedIsKept
=============================================================================
