----------------------------- MODULE BundleCopy -----------------------------
(* Putting a candidate bundle in service: the copy beside the bundle in      *)
(* service, made node by node by a recovery that may stop anywhere and be    *)
(* run again, and the switch to it.  What the database and the records of    *)
(* the switch do meanwhile is UpdateRecovery's.                              *)
EXTENDS BundleTree

CONSTANTS Digests, Absent, MaxFaults

VARIABLES
  pc,      \* the step of the operation that runs, "idle" or "down"
  faults,  \* failures and crashes so far
  copy,    \* digest -> the tree of its switch_temp, Absent when there is none
  writing, \* the file that is being copied, or Absent
  live     \* the tree in service, Absent for the bundle of the installed version

copyVars == <<copy, writing, live>>
Goto(step) == pc' = step
Fine == UNCHANGED faults
Fault == faults < MaxFaults /\ faults' = faults + 1

\* validate_complete_switch_temp; the permissions of the copy are not looked at.
PartIsComplete(d, source, version) == \* mutant: what is missing is not noticed
  /\ AppBundle(source, version) /\ SafeTree(source) /\ SafeTree(copy[d])
  /\ SameBundle([path \in DOMAIN copy[d] |-> source[path]], copy[d])
IsComplete(d, source, version) ==
  /\ AppBundle(source, version) /\ SafeTree(source)
  /\ SafeTree(copy[d]) /\ SameBundle(source, copy[d])

\* prepare_switch_temp: a copy that an earlier attempt left is used or discarded,
\* and one that cannot be discarded is left as it is, or in part.
PrepareCopy(d, source, version) ==
  /\ pc = "switch" /\ UNCHANGED <<writing, live>>
  /\ \/ copy[d] = Absent /\ Goto("copy") /\ UNCHANGED <<copy, faults>>
     \/ /\ copy[d] # Absent /\ IsComplete(d, source, version)
        /\ Goto("promote") /\ UNCHANGED <<copy, faults>>
     \/ /\ copy[d] # Absent /\ ~IsComplete(d, source, version)
        /\ \/ copy' = [copy EXCEPT ![d] = Absent] /\ Goto("copy") /\ Fine
           \/ \E rest \in {copy[d], RootOnly} :
                copy' = [copy EXCEPT ![d] = rest] /\ Goto("failed") /\ Fault

\* copy_bundle_tree
BeginCopy(d, source) ==
  /\ pc = "copy" /\ copy[d] = Absent /\ UNCHANGED <<writing, live>>
  /\ \/ /\ SafeTree(source) /\ copy' = [copy EXCEPT ![d] = RootOnly]
        /\ UNCHANGED <<pc, faults>>
     \/ ~SafeTree(source) /\ Goto("failed") /\ UNCHANGED <<copy, faults>>
     \/ Goto("failed") /\ Fault /\ UNCHANGED copy

\* copy_tree_preserving_safe_symlinks goes to the bottom of a folder before it
\* goes on with the next entry of the one above, in the order read_dir has.
Missing(d, source) == DOMAIN source \ DOMAIN copy[d]
Upcoming(d, source) ==
  {path \in Missing(d, source) :
     /\ Front(path) \in DOMAIN copy[d]
     /\ \A open \in DOMAIN copy[d] :
          (IsFolder(copy[d], open) /\ \E m \in Missing(d, source) : IsPrefix(open, m))
            => IsPrefix(open, path)}
Put(d, path, node) == copy' = [copy EXCEPT ![d] = (path :> node) @@ @]

CopyNode(d, source) ==
  /\ pc = "copy" /\ copy[d] # Absent /\ writing = Absent /\ UNCHANGED <<pc, faults, live>>
  /\ \E path \in Upcoming(d, source) :
       CASE source[path].kind = "file" ->
              Put(d, path, Node("file", "600", NoData, <<>>)) /\ writing' = path
         [] source[path].kind = "dir" -> Put(d, path, UmaskFolder) /\ UNCHANGED writing
         [] OTHER -> Put(d, path, source[path]) /\ UNCHANGED writing

\* copy_regular_file_no_follow: created, then written and synced, then its permissions.
CopyBytes(d, source) ==
  /\ pc = "copy" /\ writing # Absent /\ copy[d][writing].data # source[writing].data
  /\ copy' = [copy EXCEPT ![d][writing].data = source[writing].data]
  /\ UNCHANGED <<pc, faults, writing, live>>
CopyMode(d, source) ==
  /\ pc = "copy" /\ writing # Absent /\ copy[d][writing].data = source[writing].data
  /\ copy' = [copy EXCEPT ![d][writing].mode = source[writing].mode] /\ writing' = Absent
  /\ UNCHANGED <<pc, faults, live>>
\* An error removes what was copied, unless the removal fails too.
CopyFails(d) ==
  /\ pc = "copy" /\ copy[d] # Absent /\ Goto("failed")
  /\ \/ copy' = [copy EXCEPT ![d] = Absent] /\ Fault
     \/ UNCHANGED copy /\ faults + 1 < MaxFaults /\ faults' = faults + 2
  /\ writing' = Absent /\ UNCHANGED live

EndCopy(d, source, version) ==
  /\ pc = "copy" /\ copy[d] # Absent /\ writing = Absent /\ Missing(d, source) = {}
  /\ UNCHANGED <<faults, writing, live>>
  /\ IF IsComplete(d, source, version) THEN Goto("promote") /\ UNCHANGED copy
     ELSE Goto("failed") /\ copy' = [copy EXCEPT ![d] = Absent]

\* switch_bundle: the renames, and the bundle that is then in service is looked
\* at once more.  The recovery puts the installed version back on an error.
Promote(d, version) ==
  /\ pc = "promote" /\ UNCHANGED writing
  /\ \/ /\ AppBundle(copy[d], version) /\ SafeTree(copy[d]) /\ live' = copy[d]
        /\ copy' = [copy EXCEPT ![d] = Absent] /\ Goto("switched") /\ Fine
     \/ /\ ~(AppBundle(copy[d], version) /\ SafeTree(copy[d]))
        /\ copy' = [copy EXCEPT ![d] = Absent] /\ Goto("failed") /\ Fine /\ UNCHANGED live
     \/ Goto("failed") /\ Fault /\ UNCHANGED <<copy, live>>
=============================================================================
