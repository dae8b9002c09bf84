SPECIFICATION Spec
CONSTANTS
  Width = 3
  Names = {"x", "y", "IFS"}
  Files <- MCFiles
INVARIANTS
  FieldsAsMeant
  EffectsAsMeant
  ArithmeticAsMeant
CHECK_DEADLOCK FALSE
