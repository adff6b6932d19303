---------------------------- MODULE MCCloseBridge ----------------------------
EXTENDS CloseBridge, TLC
CONSTANTS o1, o2
Symmetry == Permutations(Owners)
=============================================================================
