\* After a restart of the sidecar every answer counts as Cancel.
CONSTANTS
  o1 = o1  o2 = o2
  MaxRequests = 1
  MaxPages = 2
  MaxNavs = 1
  Owners = {o1}
  Restarts = TRUE
  TimesOut = FALSE
  MayLose = FALSE
SPECIFICATION Spec
CHECK_DEADLOCK FALSE
PROPERTIES
  CancelIsChosen
