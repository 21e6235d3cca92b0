SPECIFICATION Spec
CONSTANTS
  MaxLen = 3
  BatchCount = 2
  StartAtOldest = TRUE
  MaxEntries = 4
  MaxConsumeRetries = 2
  MaxFaults = 2
INVARIANTS
  TypeOK
  NothingLost
  InOrderPerRun
  ReplayComplete
PROPERTIES
  ImplementsAtLeastOnce
  
