\* Three overlapping starts; a database, one backup and the marker.
CONSTANTS
  Starts = {s1, s2, s3}
  User = user
  Last = 3
  Marker = 3
SPECIFICATION Spec
SYMMETRY Symmetry
INVARIANTS
  SomeoneIsReady
PROPERTIES
  CompleteStays
  NoEmptyAfterUse
CHECK_DEADLOCK FALSE
