CONSTANTS
  c1 = c1
  Pids <- MCPids
  Codes <- MCCodes
  Commands <- MCCommands
  Sessions <- MCAstSession
  Operands <- MCFirstJob
  MaxMembers = 2
  MaxCommands = 2
  MaxSignals = 1
SPECIFICATION Spec
PROPERTY FgReportsTheJob
\* The bounds on commands, signals and pids end the session.
CHECK_DEADLOCK FALSE
