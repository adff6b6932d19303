---------------------------- MODULE MCBootstrap -----------------------------
\* Three overlapping starts over one database, one backup and the marker.
EXTENDS Bootstrap, TLC
Symmetry == Permutations(Starts)
=============================================================================
