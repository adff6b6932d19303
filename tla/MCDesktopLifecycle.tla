------------------------- MODULE MCDesktopLifecycle -------------------------
EXTENDS DesktopLifecycle, TLC
CONSTANTS s1, s2, s3, v1, v2, c1, c2
\* Bound: after an application that ended in the middle of a command, or crashed,
\* the next start is followed as far as its first sidecar.
Untainted == ~tainted \/ app # "up"
Symmetry == Permutations(SidecarIds) \cup Permutations(Versions) \cup Permutations(Closers)
=============================================================================
