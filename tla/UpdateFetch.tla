---------------------------- MODULE UpdateFetch -----------------------------
(* What comes over the network: the manifest and the package of a release,   *)
(* through redirects, and the signature a package carries.  A URL has a      *)
(* place and the parts that can be read off it; a web gives, for each place, *)
(* the page that answers there.                                              *)
EXTENDS UpdateManifest

CONSTANTS MaxManifestHops, MaxManifest, MaxPackageHops, MaxPackage, KeyStatus, Issued

Provider == [at |-> "latest.json", parts |-> {"https", "host"}]
RedirectStatuses == {301, 302, 303, 307, 308}
ManifestTypes == {"application/json", "application/octet-stream"}
PackageTypes == {"application/gzip", "application/octet-stream"}

\* What a URL on the way must not have.
ManifestRefuses == {"user", "fragment"} \* is_safe_https_url
PackageRefuses == {"user", "query", "fragment"} \* is_safe_artifact_url
IsSafe(url, refused) ==
  url.parts \intersect ({"https", "host"} \union refused) = {"https", "host"}
\* classify_public_addresses, of the addresses a host has at the time
IsPublic(web, url) == url.at \in DOMAIN web /\ web[url.at].addresses = {"public"}

\* get_until: the pages gone through, <<>> when a redirect is refused.  A
\* redirect leads somewhere new, and at most `max` are followed.
Trail(web, url, refused, max) ==
  LET walk[n \in 0 .. max] ==
        IF n = 0 THEN IF IsSafe(url, refused) /\ IsPublic(web, url) THEN <<url>> ELSE <<>>
        ELSE LET trail == walk[n - 1]
             IN IF trail = <<>> \/ web[Last(trail).at].status \notin RedirectStatuses THEN trail
                ELSE LET next == web[Last(trail).at].location
                     IN IF IsSafe(next, refused) /\ IsPublic(web, next) /\ next \notin ToSet(trail)
                        THEN Append(trail, next) ELSE <<>>
  IN walk[max]

\* validate_redirect_trace goes through the pages again.  Those of a manifest
\* have the addresses that were pinned, those of a package the ones of `later`.
Retraced(later, trail) == \A i \in DOMAIN trail : IsPublic(later, trail[i])

\* The answer at the end of a trail, if it is one; `length` is -1 when it is not said.
Answers(web, trail, types, lengths) ==
  IF trail = <<>> THEN {}
  ELSE {page \in {web[Last(trail).at]} :
          page.status = 200 /\ page.type \in types /\ page.length \in lengths}

\* fetch_manifest: the releases it offers, or nothing.  A body that is no JSON
\* is "junk".
FetchManifest(web) ==
  LET trail == Trail(web, Provider, ManifestRefuses, MaxManifestHops)
      pages == Answers(web, trail, ManifestTypes, -1 .. MaxManifest)
  IN {Offered(page.body.manifest) : page \in
        {p \in pages : p.body.type = "manifest" /\ p.body.size <= MaxManifest
                       /\ NormalManifest(p.body.manifest)}}

\* validate_selected_release, and the artifact's get with validate_artifact_response
FetchPackage(web, later, r) ==
  LET trail == Trail(web, r.url, PackageRefuses, MaxPackageHops)
  IN IF r.format = Format /\ r.size \in 1 .. MaxPackage /\ Retraced(later, trail)
     THEN Answers(web, trail, PackageTypes, {-1, r.size}) ELSE {}

\* stream_package_bytes: a body that is longer than announced is cut off.
ArrivesWhole(page, r) ==
  ~page.cut /\ page.body.type = "package" /\ page.body.size = r.size /\ page.body.sha256 = r.sha256

----------------------------------------------------------------------------
(* Signatures.  Issued: the proofs the holders of the keys have made, each   *)
(* with its key and what it signs.                                           *)

\* encode_signature_payload: neither the URL nor the key.
Payload(r) ==
  [version |-> r.version, channel |-> r.channel, architecture |-> r.architecture,
   min |-> MacOs(r.min), max |-> IF Ranged(r) THEN MacOs(r.max) ELSE <<>>, id |-> r.id,
   format |-> r.format, size |-> r.size, sha256 |-> r.sha256]
\* signed_release_identity_sha256
Identity(r) == [payload |-> Payload(r), key |-> r.key, proof |-> r.proof]

IsTrusted(key) == key \in DOMAIN KeyStatus /\ KeyStatus[key] \in {"current", "next"} \* lookup
\* verify_selected_package, once the digest and the size are those of the release
Signed(r) == IsTrusted(r.key) /\ Identity(r) \in Issued
=============================================================================
