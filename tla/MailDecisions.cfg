SPECIFICATION Spec
CONSTANTS
  Mails = {m1, m2}
  Presses = {p1, p2}
  MaxMappings = 2
  MaxEdits = 1
  MaxFailures = 1
  MaxPresses = 3
SYMMETRY Symmetry
INVARIANTS ConfirmedOnce RaisedOncePerMapping RejectionLostOnlyIf
PROPERTIES SetBackOnlyIfStale
\* mappings, edits and presses come to an end
CHECK_DEADLOCK FALSE
