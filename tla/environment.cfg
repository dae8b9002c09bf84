CONSTANTS
  none = none
  Names <- MCNames
  Values <- MCValues
  NoValue = none
  FirstLine = "1"
  Empty = ""
  Places <- MCPlaces
  Nowhere = none
  SearchPath <- MCSearchPath
  StandardPath = "bin"
  Dirs <- MCDirs
  Scripts <- MCScripts
  MaxCommands = 5
  MaxCalls = 2
  MaxAssignments = 2
SPECIFICATION Spec
INVARIANTS TypeOK EnvpIsCurrent MruIsLive TemporariesUndone PathCacheIsFresh
PROPERTY ReadonlyKeepsItsValue
\* The bound on commands ends the script.
CHECK_DEADLOCK FALSE
