CONSTANTS
  c1 = c1
  Pids <- MCPids
  Codes <- MCCodes
  Commands <- MCCommands
  Sessions <- MCSessions
  Operands <- MCOperands
  MaxMembers = 3
  MaxCommands = 5
  MaxSignals = 2
SPECIFICATION FairSpec
INVARIANTS TableAgreesWithKernel EveryChildIsTracked
PROPERTIES JobStatusIsRightmost FgReportsInOrder WaitJobFindsItsChild PromptReturns
\* The bounds on commands, signals and pids end the session.
CHECK_DEADLOCK FALSE
