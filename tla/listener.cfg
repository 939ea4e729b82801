CONSTANTS
  MaxFailures = 5
  FirstDelay = 15
  MaxDelay = 300
  DormantInterval = 1800
SPECIFICATION FairSpec
INVARIANTS
  OneAttempt
  StopIsFinal
  DormancyExact
PROPERTIES
  NeverTerminal
  ImplementsContract
