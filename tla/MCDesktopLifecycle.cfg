\* Every command against two close waiters, updates, recoveries, relaunches and crashes.
CONSTANTS
  s1 = s1  s2 = s2  s3 = s3
  v1 = v1  v2 = v2
  c1 = c1  c2 = c2
  SidecarIds = {s1, s2}
  Versions = {v1, v2}
  Deleted = Deleted
  Unknown = Unknown
  Kinds = {"restore", "resume", "delete", "probe", "export"}
  Closers = {c1, c2}
  StopCanFail = TRUE
  CanCrash = TRUE
  None = None
SPECIFICATION Spec
CONSTRAINT Untainted
SYMMETRY Symmetry
INVARIANTS
  NoMutationUnderSidecar
  OneWriter
  PromptNotBypassed
  DeletedStaysStopped
  AnswerIsTrue
