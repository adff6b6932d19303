\* One verified update, asked for twice, with three failures or crashes and two edits.
CONSTANTS
  c1 = c1
  Candidates = {c1}
  Candidate = c1
  None = None
  MaxFaults = 3
  MaxRequests = 2
  MaxEdits = 2
SPECIFICATION Spec
CHECK_DEADLOCK FALSE
INVARIANTS
  NeverLockedOut
  WayBack
  EditsKept
  RollbackIsWhole
PROPERTIES
  ServedAgain
