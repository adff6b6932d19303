--------------------------- MODULE MCDataStorage ----------------------------
\* A database, one backup and the marker; two starts; two deletion requests.
EXTENDS DataStorage, TLC
Symmetry == Permutations(Starts)
=============================================================================
