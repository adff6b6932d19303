--------------------------- MODULE UpdateManifest ---------------------------
(* What a published manifest offers this application: the versions it is     *)
(* written in, the checks that refuse a manifest as a whole, and the choice  *)
(* of one release.  A number is the sequence of its digits, for it may be    *)
(* longer than any integer type; a text is a name, and "" or Control.        *)
EXTENDS Integers, FiniteSets, Sequences, FiniteSetsExt, SequencesExt

Control == "control character"
IsText(text) == text \notin {"", Control} \* validate_non_empty_text
Product == "com.cornellmethod.notebook"
Channel == "stable"
Architecture == "aarch64-apple-darwin"
Format == "app-archive"

\* s is before t: at the first difference, or as a prefix of it.
LexLess(Less(_, _), s, t) ==
  \/ \E i \in DOMAIN s \intersect DOMAIN t :
       Less(s[i], t[i]) /\ \A j \in 1 .. i - 1 : s[j] = t[j]
  \/ Len(s) < Len(t) /\ \A j \in DOMAIN s : s[j] = t[j]

----------------------------------------------------------------------------
(* Versions.  A character is the rank of its byte: -1 is the hyphen, 0 to 9  *)
(* the digits, then the letters, and Stray whatever else was written.        *)

Digits == 0 .. 9
Stray == 100
IdentifierChars == -1 .. 61

IsDecimal(text, leadingZero) ==
  /\ text # <<>> /\ ToSet(text) \subseteq Digits
  /\ leadingZero \/ Len(text) = 1 \/ text[1] # 0
Stripped(text) == \* without leading zeros, and at least one digit
  LET nonZero == {i \in DOMAIN text : text[i] # 0}
  IN SubSeq(text, IF nonZero = {} THEN Len(text) ELSE Min(nonZero), Len(text))

ByteLess(x, y) == x < y
BytesLess(s, t) == LexLess(ByteLess, s, t)
DecimalLess(d, e) == Len(d) < Len(e) \/ (Len(d) = Len(e) /\ BytesLess(d, e))

IsNumeric(identifier) == ToSet(identifier) \subseteq Digits
IdentifierLess(a, b) ==
  CASE IsNumeric(a) /\ IsNumeric(b) -> DecimalLess(a, b)
    [] IsNumeric(a) /\ ~IsNumeric(b) -> TRUE
    [] ~IsNumeric(a) /\ IsNumeric(b) -> FALSE
    [] OTHER -> BytesLess(a, b)

\* A version text is what stands between the dots: its core, and the
\* identifiers of its prerelease and of its build, <<>> when it has none.
IsIdentifier(text) == text # <<>> /\ ToSet(text) \subseteq IdentifierChars
IsPreRelease(pre) ==
  \A i \in DOMAIN pre :
    IsIdentifier(pre[i]) /\ (IsNumeric(pre[i]) => IsDecimal(pre[i], FALSE))
IsVersion(v) ==
  /\ Len(v.core) = 3 /\ \A i \in 1 .. 3 : IsDecimal(v.core[i], FALSE)
  /\ IsPreRelease(v.pre)
  /\ \A i \in DOMAIN v.build : IsIdentifier(v.build[i])

\* A version without a prerelease comes after those with one.
PreReleaseLess(p, q) ==
  IF p = <<>> \/ q = <<>> THEN p # <<>> /\ q = <<>> ELSE LexLess(IdentifierLess, p, q)
VersionAsText(v, w) == \* mutant: the components are compared as texts
  LexLess(BytesLess, v.core, w.core) \/ (v.core = w.core /\ PreReleaseLess(v.pre, w.pre))
VersionLess(v, w) ==
  \/ LexLess(DecimalLess, v.core, w.core)
  \/ v.core = w.core /\ PreReleaseLess(v.pre, w.pre)
SameVersion(v, w) == v.core = w.core /\ v.pre = w.pre \* the build is not compared

----------------------------------------------------------------------------
(* Versions of the system: any number of components, zeros at either end     *)

IsMacOs(text) == text # <<>> /\ \A i \in DOMAIN text : IsDecimal(text[i], TRUE)
MacOs(text) ==
  [i \in 1 .. Max({1} \union {j \in DOMAIN text : Stripped(text[j]) # <<0>>}) |-> Stripped(text[i])]
Part(v, i) == IF i \in DOMAIN v THEN v[i] ELSE <<0>>
MacOsLess(v, w) ==
  \E i \in DOMAIN v \union DOMAIN w :
    DecimalLess(Part(v, i), Part(w, i)) /\ \A j \in 1 .. i - 1 : Part(v, j) = Part(w, j)

----------------------------------------------------------------------------
(* The manifest                                                              *)

\* What can be read off a URL once it is parsed.
UrlParts == {"https", "host", "user", "query", "fragment"}
IsPublicUrl(written) == written \intersect UrlParts = {"https", "host"}

Ranged(r) == r.max # <<>>
NormalRelease(r) ==
  /\ IsText(r.channel) /\ IsText(r.architecture) /\ IsVersion(r.version)
  /\ IsMacOs(r.min)
  /\ Ranged(r) => IsMacOs(r.max) /\ MacOsLess(MacOs(r.min), MacOs(r.max))
NormalArtifact(r) ==
  /\ IsText(r.id) /\ IsText(r.format) /\ IsPublicUrl(r.url.parts)
  /\ r.size > 0 /\ r.sha256 # "malformed"
NormalSignature(r) == IsText(r.key) /\ IsText(r.proof)

\* DuplicateTarget: two releases for the same machines and of the same version,
\* whoever they are for.
SameTarget(r, s) ==
  /\ r.channel = s.channel /\ r.architecture = s.architecture
  /\ SameVersion(r.version, s.version) /\ MacOs(r.min) = MacOs(s.min)
  /\ Ranged(r) = Ranged(s) /\ (Ranged(r) => MacOs(r.max) = MacOs(s.max))

NormalManifest(m) ==
  /\ m.schema = 1 /\ IsText(m.product) /\ m.product = Product
  /\ \A i \in DOMAIN m.releases :
       /\ NormalRelease(m.releases[i]) /\ NormalArtifact(m.releases[i])
       /\ NormalSignature(m.releases[i])
       /\ \A j \in 1 .. i - 1 : ~SameTarget(m.releases[j], m.releases[i])

Targeted(r) ==
  /\ r.channel = Channel /\ r.version.pre = <<>>
  /\ r.architecture = Architecture /\ r.format = Format
Offered(m) == SelectSeq(m.releases, Targeted)

----------------------------------------------------------------------------
(* The choice                                                                *)

Compatible(r, current, macos) ==
  /\ Targeted(r) /\ VersionLess(current, r.version)
  /\ ~MacOsLess(macos, MacOs(r.min))
  /\ Ranged(r) => MacOsLess(macos, MacOs(r.max))

\* The positions of the compatible releases none of which is newer.
Highest(releases, current, macos) ==
  LET fits == {i \in DOMAIN releases : Compatible(releases[i], current, macos)}
  IN {i \in fits : \A j \in fits : ~VersionLess(releases[i].version, releases[j].version)}

Nothing == [kind |-> "no-update"]
Ambiguous == [kind |-> "ambiguous"]
Selected(r) == [kind |-> "selected", release |-> r]
SelectUpdate(releases, current, macos) ==
  LET highest == Highest(releases, current, macos)
  IN CASE highest = {} -> Nothing
       [] Cardinality(highest) = 1 -> Selected(releases[CHOOSE i \in highest : TRUE])
       [] OTHER -> Ambiguous

=============================================================================
