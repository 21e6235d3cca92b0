\* 3 x 3, 2 x 3 and 3 x 2 matrices over three costs, one of them negligible
SPECIFICATION SolverSpec
CONSTANTS
  Size = 3
  Costs = {0, 1, 5}
  PadCost = 3
  Epsilon = 1
INVARIANTS AssignmentIsOptimal ReducedCostsSound
PROPERTIES Solves
\* solve() returns
CHECK_DEADLOCK FALSE
