--------------------------- MODULE MCLifecycleLive ---------------------------
EXTENDS DesktopLifecycle, TLC
CONSTANTS s1, v1, c1
\* Bound of the liveness runs: one run of the application, from its launch to its
\* end, which is as far as what they ask of a command or a close reaches.
VARIABLE launched
LiveInit == Init /\ launched = FALSE
LiveNext == /\ Next
            /\ ~(launched /\ Launch)
            /\ launched' = (launched \/ Launch)
LiveSpec == LiveInit /\ [][LiveNext]_<<vars, launched>> /\ Fairness
=============================================================================
