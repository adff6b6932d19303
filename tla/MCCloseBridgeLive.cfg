\* Every request comes to an end, with navigations that are lost and a restarted sidecar.
CONSTANTS
  o1 = o1  o2 = o2
  MaxRequests = 1
  MaxPages = 2
  MaxNavs = 1
  Owners = {o1}
  Restarts = TRUE
  TimesOut = TRUE
  MayLose = TRUE
SPECIFICATION FairSpec
CHECK_DEADLOCK FALSE
PROPERTIES
  QuestionEnds
