SPECIFICATION Spec
CONSTANTS
  \* one of each class, and both that interrupt jobs
  Signals = {"INT", "QUIT", "TERM", "TSTP", "USR1"}
  Contexts = {"subshell", "cmdsub", "async", "pipeline"}
  MaxNesting = 3
  Interactive = {TRUE, FALSE}
INVARIANTS
  TypeOK
  ActionIsAsTested
  InheritedIgnoreSticks
  HandlerHasItsCommand
  AsyncIgnoresInterrupts
  TrapsEndAtForks
\* The process ends when something else is executed.
CHECK_DEADLOCK FALSE
