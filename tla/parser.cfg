SPECIFICATION Spec
CONSTANT Scripts <- AllScripts
INVARIANTS RanAsWritten RunsAsParsed
CHECK_DEADLOCK FALSE
