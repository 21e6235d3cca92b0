SPECIFICATION RecordSpec
CONSTANTS
  Tasks = {"update", "embed", "external", "internal", "cleanup"}
  MaxTogether = 2
  MaxRequests = 2
  MaxUpdates = 1
  MaxCellEdits = 1
  MaxFaults = 1
INVARIANTS
  SyncsWhenAlone
PROPERTIES
  EmbeddingKept
  Answered
CHECK_DEADLOCK FALSE
