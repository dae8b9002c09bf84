SPECIFICATION Spec
CONSTANTS
  Inputs <- MCInputs
  Commands <- MCCommands
  Patience = 40
  Fuel = 2
INVARIANTS
  FailureEndsTheShell
\* The script ends and with it the shell.
CHECK_DEADLOCK FALSE
