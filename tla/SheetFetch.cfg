SPECIFICATION Spec
CONSTANTS
  LastRow = 3
  Calls = {c1, c2}
  MaxFaults = 1
INVARIANTS
  LeftBehindOnlyIf
  ImportedWhole
  RequestsFollowCommits
PROPERTIES
  EventuallyStored
