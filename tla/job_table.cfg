CONSTANTS
  c1 = c1
  Pids <- MCPids
  Commands <- MCCommands
  Values <- MCValues
  MaxProcs = 2
  MaxSerial = 5
SPECIFICATION Spec
INVARIANTS TypeOK KeysDistinct StoppedFlagAgrees CompletedJobHasStatus
PROPERTY ImplementsBook
CHECK_DEADLOCK FALSE
