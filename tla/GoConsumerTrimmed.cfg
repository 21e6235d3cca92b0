SPECIFICATION Spec
CONSTANTS
  MaxLen = 2
  BatchCount = 1
  StartAtOldest = TRUE
  MaxEntries = 4
  MaxConsumeRetries = 1
  MaxFaults = 2
INVARIANTS
  ReplayedIntact
