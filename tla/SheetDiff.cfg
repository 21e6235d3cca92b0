SPECIFICATION DiffSpec
CONSTANTS
  LastSheetRow = 5
  RowsPerIteration = 2
  Presses = {p1, p2}
  MaxRuns = 1
  MaxEdits = 2
  MaxFailures = 1
  MaxPresses = 2
SYMMETRY Symmetry
INVARIANT AppliedOnce
PROPERTY ReportedOnce
\* edits, runs and presses come to an end
CHECK_DEADLOCK FALSE
