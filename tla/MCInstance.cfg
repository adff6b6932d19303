\* Three starts, three situations, one retry, one failing file operation.
CONSTANTS
  p1 = p1
  p2 = p2
  p3 = p3
  nobody = nobody
  Launches = {p1, p2, p3}
  Nobody = nobody
  Situations <- MCSituations
  DeepTemps = {"deep"}
  LegacyHomes = {"old"}
  DebugBuild = FALSE
  Litter = {"left", "file"}
  Retries = 1
  MaxFaults = 1
SPECIFICATION Spec
CHECK_DEADLOCK FALSE
INVARIANTS
  Reachable
  FocusedWasRaised
PROPERTIES
  EveryStartEnds
