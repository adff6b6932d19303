----------------------------- MODULE MCPackage ------------------------------
(* Small publications and networks: two packages, one of which may be any of *)
(* the archives below, and manifests that offer one, several or none.        *)
EXTENDS UpdatePackage

CONSTANTS d1, d2

MCCurrent == [core |-> <<<<1>>, <<9>>, <<0>>>>, pre |-> <<>>, build |-> <<>>]
V110 == [core |-> <<<<1>>, <<1, 0>>, <<0>>>>, pre |-> <<>>, build |-> <<>>]
V195 == [core |-> <<<<1>>, <<9>>, <<5>>>>, pre |-> <<>>, build |-> <<>>]
V200 == [core |-> <<<<2>>, <<0>>, <<0>>>>, pre |-> <<>>, build |-> <<>>]
MCSystem == <<<<1, 5>>, <<1>>>>

Https == {"https", "host"}
Release(version, digest, at, proof) ==
  [channel |-> Channel, architecture |-> Architecture, version |-> version,
   min |-> <<<<1, 2>>>>, max |-> <<>>, id |-> "app", format |-> Format,
   url |-> [at |-> at, parts |-> Https], size |-> 5, sha256 |-> digest,
   key |-> "key-1", proof |-> proof]
R1 == Release(V110, d1, "one", "p1")
R1Again == [R1 EXCEPT !.proof = "p1b"]
R1Retired == [R1 EXCEPT !.key = "key-0", !.proof = "p0"]
R2 == Release(V200, d2, "two", "p2")
Older == Release(V195, d2, "two", "p3")
TooNew == [Release(V200, d2, "two", "p4") EXCEPT !.max = <<<<1, 4>>>>]
Twin == [R1 EXCEPT !.min = <<<<1, 3>>>>, !.proof = "p5"]
Releases == {R1, R1Again, R1Retired, R2, Older, TooNew, Twin}
MCIssued == {Identity(r) : r \in Releases}
MCCandidates == {Identity(r) : r \in Releases}
MCKeyStatus == ("key-1" :> "current") @@ ("key-0" :> "retired")

Nowhere == [at |-> "", parts |-> {}]
Page(status, location, type, body) ==
  [addresses |-> {"public"}, status |-> status, location |-> location, type |-> type,
   length |-> -1, body |-> body, cut |-> FALSE]
Answer(type, body) == Page(200, Nowhere, type, body)
Manifest(releases) ==
  Answer("application/json",
    [type |-> "manifest", size |-> 3,
     manifest |-> [schema |-> 1, product |-> Product, releases |-> releases]])
Package(digest) == Answer("application/gzip", [type |-> "package", size |-> 5, sha256 |-> digest])
Web(releases) ==
  ("latest.json" :> Manifest(releases)) @@ ("one" :> Package(d1))
Offline == <<>>
Moved == \* the manifest and the package are behind a redirect
  ("latest.json" :> Page(302, [at |-> "cdn", parts |-> Https], "", [type |-> "junk"]))
  @@ ("cdn" :> Manifest(<<R1>>))
  @@ ("one" :> Page(302, [at |-> "store", parts |-> Https], "", [type |-> "junk"]))
  @@ ("store" :> [Package(d1) EXCEPT !.length = 5])
Private == [Web(<<R1>>) EXCEPT !["latest.json"].addresses = {"public", "private"}]
Garbled == [Web(<<R1>>) EXCEPT !["one"].body.sha256 = d2]
Short == [Web(<<R1>>) EXCEPT !["one"].cut = TRUE]
MCWebs ==
  {Offline, Web(<<>>), Web(<<R1>>), Web(<<R1Again>>), Web(<<R1Retired>>), Web(<<R1, R2>>),
   Web(<<Older, R1>>), Web(<<R1, TooNew>>), Web(<<R1, Twin>>), Moved, Private, Garbled, Short}

Entry(path, kind, mode, data, to) ==
  [path |-> path, slash |-> kind = "dir", kind |-> kind, mode |-> mode, data |-> data, to |-> to,
   pax |-> TRUE]
Folder(path) == Entry(path, "dir", {"execute"}, NoData, <<>>)
Plist(version) ==
  [type |-> "plist", size |-> 1, identifier |-> Product,
   version |-> [core |-> version.core, pre |-> version.pre], executable |-> "app"]
Macho == [type |-> "macho", size |-> 48, cpu |-> "arm64", filetype |-> "execute",
          commands |-> <<8, 8>>, bytes |-> 16]
Resources == Append(Contents, "Resources")
Tool == Entry(Append(Resources, "node"), "file", {"execute"}, Macho, <<>>)
Link(to) == Entry(Append(Resources, "current"), "link", {}, NoData, to)
Onward == Entry(Append(Contents, "latest"), "link", {}, NoData, <<"Resources", "current">>)
Main(data) == Entry(Append(MacOSFolder, "app"), "file", {"execute"}, data, <<>>)
Bundle(version) ==
  <<Folder(<<Root>>), Folder(Contents), Folder(MacOSFolder), Folder(Resources),
    Entry(InfoPlist, "file", {}, Plist(version), <<>>), Main(Macho), Tool, Link(<<"node">>)>>
Archive(entries) ==
  [size |-> 5, format |-> "gzip", intact |-> TRUE, entries |-> entries, trailer |-> "zeros"]
Good == Archive(Bundle(V110))
\* One thing is wrong with each of these.
Bad ==
  {[Good EXCEPT !.intact = FALSE], Archive(Bundle(V195)),
   Archive([Bundle(V110) EXCEPT ![6] = Main([Macho EXCEPT !.cpu = "x86_64"])]),
   Archive([Bundle(V110) EXCEPT ![7].mode = {"execute", "shared"}]),
   Archive([Bundle(V110) EXCEPT ![8] = Link(<<"..", "..", "..", "elsewhere">>)]),
   Archive([Bundle(V110) EXCEPT ![8] = Link(<<"absent">>)]),
   Archive(Append(Bundle(V110), Folder(Resources))),
   Archive(Append(Bundle(V110), Folder(Append(Contents, OtherApp))))}
\* Accepted, though a folder is only implied, and a link leads to a link.
Odd == {Archive(Append(RemoveAt(Bundle(V110), 4), Onward))}
MCPublications == {(d1 :> a) @@ (d2 :> Archive(Bundle(V200))) : a \in {Good} \union Bad \union Odd}
=============================================================================
