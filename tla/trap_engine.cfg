CONSTANTS
  NSIG = 2
  MaxDeliveries = 2
  Scripts <- MCScripts
SPECIFICATION FairSpec
INVARIANTS TypeOK NoneIsLost NotMoreOftenThanDelivered DrainedBeforeExit
PROPERTY PendingIsTaken
CHECK_DEADLOCK FALSE
