SPECIFICATION Spec
CONSTANTS
  Functions = {"f"}
  \* blocks of two units, doubled for what does not fit, where there is then
  \* room for another thing
  Sizes = {2, 3}
  BlockSize = 2
  MaxFrames = 4
  MaxBlocks = 2
  MaxHeld = 1
INVARIANTS
  UsedIsLive
PROPERTIES
  ProgramsLast
  MarksAreRestored
