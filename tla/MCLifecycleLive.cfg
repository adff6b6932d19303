\* Every command and every confirmed close comes to an end.
CONSTANTS
  s1 = s1  v1 = v1  c1 = c1
  SidecarIds = {s1}
  Versions = {v1}
  Deleted = Deleted
  Unknown = Unknown
  Kinds = {"restore", "resume", "delete", "probe", "export"}
  Closers = {c1}
  StopCanFail = TRUE
  CanCrash = FALSE
  None = None
SPECIFICATION LiveSpec
\* The run ends with the application.
CHECK_DEADLOCK FALSE
PROPERTIES
  CommandEnds
  CloseEnds
