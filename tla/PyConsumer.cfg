SPECIFICATION Spec
CONSTANTS
  MaxLen = 3
  BatchCount = 2
  StartAtOldest = TRUE
  MaxEntries = 4
  Retries = 2
  MaxFaults = 2
INVARIANTS
  InOrderPerRun
  ReplayComplete
PROPERTIES
  ImplementsAtLeastOnce
  ServedUnlessStopped
