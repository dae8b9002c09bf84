SPECIFICATION Spec
CONSTANTS
  Inputs <- MCInputs
  Places <- MCPlaces
  Commands <- MCCommands
  Patience = 40
  Fuel = 2
INVARIANTS
  AgreesWithMeaning
\* The script ends and with it the shell.
CHECK_DEADLOCK FALSE
