\* Two commands after the setup, four starts and stops, one change of the chosen path.
CONSTANTS
  none = none
  NoSnapshot = none
  Snapshots <- MCSnapshots
  MaxCalls = 4
  MaxCommands = 2
  MaxEdits = 1
SPECIFICATION CommandSpec
CHECK_DEADLOCK FALSE
INVARIANTS
  ReplyIsTrue
  RuntimeIsQuiet
  RecoveryHasSnapshot
PROPERTIES
  KeepsContract
  CallsEnd
