----------------------------- MODULE MCInstance -----------------------------
(* Three runs of the program.  They share one environment; or the second   *)
(* has a temporary directory too long for a socket path and the third a    *)
(* home that is not usable, or one that was left by an older release.      *)
EXTENDS InstanceLock

CONSTANTS p1, p2, p3, nobody

Plain == [home |-> "h", override |-> FALSE, temp |-> "t"]
Odd(home) == [p \in Launches |->
  IF p = p1 THEN Plain
  ELSE IF p = p2 THEN [Plain EXCEPT !.temp = "deep"]
  ELSE [Plain EXCEPT !.home = home]]

MCSituations == {[p \in Launches |-> Plain], Odd("relative"), Odd("old")}
=============================================================================
