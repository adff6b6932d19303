\* Three restores or resumes, of which the last two to start may overlap.
CONSTANTS
  Helpers = {h1, h2, h3}
  None = none
  User = user
  LastSchema = 2
  MaxRunning = 2
SPECIFICATION Spec
ACTION_CONSTRAINT NoneAfterOverlap
SYMMETRY Symmetry
INVARIANTS
  OneOffer
  FailedResumeReturnsClaim
  AnswerIsTrue
PROPERTY
  ReplacedIsSaved
CHECK_DEADLOCK FALSE
