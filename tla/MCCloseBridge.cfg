\* Two close requests, two editors, remounts, reloads and timeouts.
CONSTANTS
  o1 = o1  o2 = o2
  MaxRequests = 2
  MaxPages = 2
  MaxNavs = 1
  Owners = {o1, o2}
  Restarts = FALSE
  TimesOut = TRUE
  MayLose = FALSE
SPECIFICATION Spec
CHECK_DEADLOCK FALSE
SYMMETRY Symmetry
INVARIANTS
  QuestionIsShown
PROPERTIES
  SaveAnswersAreTrue
  ImplementsProtocol
