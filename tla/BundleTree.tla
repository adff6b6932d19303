----------------------------- MODULE BundleTree -----------------------------
(* An application bundle, as the entries of an archive and as the tree it    *)
(* becomes: what the extraction accepts, what it writes, and the checks of   *)
(* the tree that are made before it is put in service.  A path is the        *)
(* sequence of its components; a node of a tree has a kind, permissions,     *)
(* data and, for a symbolic link, the path it points to.                     *)
EXTENDS UpdateManifest, TLC

CONSTANTS MaxHops, MaxEntries, MaxFile, MaxExpanded, MaxCompressed, MaxPlist, MaxCommands

ASSUME HopsAssumption == MaxHops \in Nat

Root == "Cornell Method Notebook.app"
Contents == <<Root, "Contents">>
InfoPlist == <<Root, "Contents", "Info.plist">>
MacOSFolder == <<Root, "Contents", "MacOS">>
OtherApp == "Other.app" \* any other component that ends in .app

NoData == [type |-> "none", size |-> 0]
IsName(component) == component \notin {"", ".", "..", Control} \* is_safe_archive_component
Folders(path) == {SubSeq(path, 1, n) : n \in 1 .. Len(path) - 1}
IsFolder(tree, path) == path \in DOMAIN tree /\ tree[path].kind = "dir"

----------------------------------------------------------------------------
(* Symbolic links                                                            *)

\* normalize_relative_symlink_target: an absolute target begins with "".
IsTarget(to) == to # <<>> /\ ToSet(to) \intersect {"", ".", Control} = {}
\* resolve_relative_symlink_path: <<>> once the path has left the bundle.
Resolved(link, to) ==
  LET step(folder, name) ==
        IF folder = <<>> THEN <<>> ELSE IF name = ".." THEN Front(folder) ELSE Append(folder, name)
  IN FoldLeft(step, Front(link), to)
\* resolve_symlink: at most MaxHops links are gone through, to what is no link.
Links(nodes) == [path \in {p \in DOMAIN nodes : nodes[p].kind = "link"} |-> nodes[path].to]
Destination(links, link) ==
  LET after[n \in 0 .. MaxHops] ==
        IF n = 0 THEN link
        ELSE LET path == after[n - 1]
             IN IF path \in DOMAIN links THEN Resolved(path, links[path]) ELSE path
  IN after[MaxHops]
Ends(nodes, link) == Destination(Links(nodes), link) \in DOMAIN nodes \ DOMAIN Links(nodes)

----------------------------------------------------------------------------
(* The archive                                                               *)

\* inspect_entry.  mode: "execute" for the owner; "shared" for the bits that
\* are refused (other writers, set-id, sticky).  pax: its numbers are in range.
Inspected(e) ==
  /\ e.pax
  /\ e.path # <<>> /\ \A i \in DOMAIN e.path : IsName(e.path[i])
  /\ e.slash => e.kind = "dir"
  /\ e.kind \in {"dir", "file", "link"}
  /\ e.kind # "link" => "shared" \notin e.mode
  /\ e.kind = "file" /\ IsStrictPrefix(MacOSFolder, e.path) => "execute" \in e.mode
  /\ e.kind # "file" => e.data = NoData
  /\ e.data.size <= MaxFile
  /\ e.kind = "link" => IsTarget(e.to)

Listed(entries) == {entries[i].path : i \in DOMAIN entries}
ByPath(entries) ==
  [path \in Listed(entries) |-> entries[CHOOSE i \in DOMAIN entries : entries[i].path = path]]
\* validate_archive_structure: a folder that is not listed is implied.
Structured(entries) ==
  LET listing == ByPath(entries)
  IN /\ Cardinality(Listed(entries)) = Len(entries) /\ IsFolder(listing, <<Root>>)
     /\ \A path \in Listed(entries) :
          /\ Head(path) = Root /\ OtherApp \notin ToSet(Tail(path))
          /\ \A folder \in Folders(path) \intersect Listed(entries) : IsFolder(listing, folder)
          /\ listing[path].kind = "link" => Ends(listing, path)

Expanded(entries) == MapThenSumSet(LAMBDA i : entries[i].data.size, DOMAIN entries)
\* preflight_archive.  intact: it unpacks, and as tar to the end; trailer: what
\* follows the last entry ("zeros" is two empty blocks or more, and nothing else).
Preflight(a) ==
  /\ a.size <= MaxCompressed /\ a.format \in {"gzip", "tar"} /\ a.intact
  /\ Len(a.entries) <= MaxEntries /\ Expanded(a.entries) <= MaxExpanded
  /\ \A i \in DOMAIN a.entries : Inspected(a.entries[i])
  /\ Structured(a.entries) /\ a.trailer = "zeros"

----------------------------------------------------------------------------
(* The tree an archive becomes                                               *)

Node(kind, mode, data, to) == [kind |-> kind, mode |-> mode, data |-> data, to |-> to]
UmaskFolder == Node("dir", "umask", NoData, <<>>) \* as create_dir leaves it
RootOnly == [path \in {<<Root>>} |-> UmaskFolder]
SafeMode(e) ==
  IF e.kind = "link" THEN "none" ELSE IF e.kind = "dir" \/ "execute" \in e.mode THEN "700" ELSE "600"
Extracted(e) == Node(e.kind, SafeMode(e), e.data, e.to)

\* prepare_directory_tree: every folder, listed or implied.
Implied(entries) == UNION {Folders(path) : path \in Listed(entries)}
Prepared(entries) ==
  {entries[i].path : i \in {j \in DOMAIN entries : entries[j].kind = "dir"}} \union Implied(entries)
\* extract_archive, once n entries are there.  The permissions of the listed
\* folders come after the last one, those of an implied folder never.
TreeAfter(entries, n) ==
  LET done == {entries[i].path : i \in
                 {j \in DOMAIN entries : j <= n /\ (entries[j].kind = "dir" => n > Len(entries))}}
  IN [path \in done \union Prepared(entries) |->
        IF path \in done THEN Extracted(ByPath(entries)[path]) ELSE UmaskFolder]

\* compare_extracted_tree_shape, compare_archive_to_extracted_tree
Matches(tree, entries) ==
  DOMAIN tree = Listed(entries) /\ \A path \in DOMAIN tree : tree[path] = Extracted(ByPath(entries)[path])

----------------------------------------------------------------------------
(* The bundle: validate_extracted_app_bundle                                 *)

Header == 32
LoadCommand == 8
\* validate_thin_macho_64.  commands: the sizes of the load commands it counts.
IsThinMacho(d, main) ==
  /\ d.size >= Header /\ d.cpu = "arm64" /\ (main => d.filetype = "execute")
  /\ Len(d.commands) <= MaxCommands /\ Header + d.bytes <= d.size
  /\ \A i \in DOMAIN d.commands : d.commands[i] >= LoadCommand
  /\ FoldLeft(LAMBDA a, b : a + b, 0, d.commands) = d.bytes
\* inspect_macho_reader
MayStay(d, main) ==
  CASE d.type = "macho" -> IsThinMacho(d, main)
    [] d.type = "universal" -> FALSE
    [] OTHER -> ~main

\* read_bundle_metadata: the version is written without its build.
IsMetadata(node, version) ==
  /\ node.kind = "file" /\ node.data.type = "plist" /\ node.data.size <= MaxPlist
  /\ node.data.identifier = Product
  /\ node.data.version = [core |-> version.core, pre |-> version.pre]
  /\ IsName(node.data.executable)
\* validate_main_executable: one executable file, and it is the one named.
Executables(tree) ==
  {path \in DOMAIN tree : IsStrictPrefix(MacOSFolder, path) /\ Len(path) = Len(MacOSFolder) + 1
                          /\ tree[path].kind = "file" /\ tree[path].mode = "700"}
AppBundle(tree, version) ==
  /\ \A folder \in {<<Root>>, Contents, MacOSFolder} : IsFolder(tree, folder)
  /\ InfoPlist \in DOMAIN tree /\ IsMetadata(tree[InfoPlist], version)
  /\ LET main == Append(MacOSFolder, tree[InfoPlist].data.executable)
     IN Executables(tree) = {main} /\ MayStay(tree[main].data, TRUE)
  /\ \A path \in DOMAIN tree :
       IsPrefix(Contents, path) /\ tree[path].kind = "file" => MayStay(tree[path].data, FALSE)

----------------------------------------------------------------------------
(* The checks of a tree that is copied or put in service: recovery           *)

\* validate_tree_with_safe_symlinks, validate_internal_symlink
SafeTree(tree) ==
  /\ IsFolder(tree, <<Root>>)
  /\ \A path \in DOMAIN tree :
       /\ tree[path].kind \in {"dir", "file", "link"}
       /\ tree[path].kind = "link" =>
            /\ IsTarget(tree[path].to) /\ Ends(tree, path)
            /\ \A folder \in Folders(Resolved(path, tree[path].to)) : IsFolder(tree, folder)

\* compare_bundle_trees: entries, kinds, links and bytes, whatever the permissions.
SameBundle(source, copy) ==
  /\ DOMAIN source = DOMAIN copy
  /\ \A path \in DOMAIN source :
       /\ source[path].kind = copy[path].kind /\ source[path].to = copy[path].to
       /\ source[path].data = copy[path].data
=============================================================================
