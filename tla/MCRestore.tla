----------------------------- MODULE MCRestore ------------------------------
\* Three helpers: one publishes, two resume, or any other mix of the requests.
EXTENDS RestoreDatabase, TLC
Symmetry == Permutations(Helpers)
\* Bound: helpers that have overlapped are followed to their ends, and no other
\* is started after them.
NoneAfterOverlap == overlapped => \A h \in Helpers : pc[h] = "idle" => pc'[h] = "idle"
=============================================================================
