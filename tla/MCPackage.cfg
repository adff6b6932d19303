\* Two packages, thirteen networks and ten publications, with two failures or crashes.
CONSTANTS
  d1 = d1
  d2 = d2
  None = None
  Absent = Absent
  Digests = {d1, d2}
  Candidates <- MCCandidates
  Webs <- MCWebs
  Publications <- MCPublications
  Current <- MCCurrent
  System <- MCSystem
  KeyStatus <- MCKeyStatus
  Issued <- MCIssued
  MaxManifestHops = 2
  MaxManifest = 4
  MaxPackageHops = 2
  MaxPackage = 8
  MaxHops = 3
  MaxEntries = 9
  MaxFile = 50
  MaxExpanded = 200
  MaxCompressed = 8
  MaxPlist = 2
  MaxCommands = 4
  MaxFaults = 2
SPECIFICATION Spec
INVARIANTS
  CheckingIsWorking
  VerifiedIsStaged
  LeftoversNeverBlock
  LiveIsCandidate
PROPERTIES
  OffersNewest
  VerifiedIsKept
