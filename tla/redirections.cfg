SPECIFICATION Spec
CONSTANTS
  FirstSaved = 3
  LastFd = 4
  file = file
  lost = lost
  Files = {file, lost}
  Unreachable = {lost}
  Sessions <- SessionsOfScripts
  MaxRedirs = 2
  MaxDepth = 3
INVARIANTS
  SavedAreOwned
  Restored
  AppliedAsMeant
CHECK_DEADLOCK FALSE
