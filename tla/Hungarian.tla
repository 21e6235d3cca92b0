------------------------------ MODULE Hungarian ------------------------------
(***************************************************************************)
(* The assignment solver of mail-mapper (tools/hungarian.py): one          *)
(* HungarianSolver.solve() over a square cost matrix, one action for every *)
(* turn of its step loop.  Costs are integers, a float's distance to zero  *)
(* that _is_zero forgives is Epsilon of them.  The matrices are the ones   *)
(* match_batch hands over: mails by applications, filled up to a square    *)
(* with PadCost.                                                           *)
(***************************************************************************)
EXTENDS Integers, FiniteSets, FiniteSetsExt, Sequences

CONSTANTS Size,      \* rows and columns of the square matrix
          Costs,     \* the costs a pair of a mail and an application may have
          PadCost,   \* the cost of a row or column that stands for nobody
          Epsilon    \* self._epsilon

ASSUME SizeAssumption == Size \in Nat \ {0}
ASSUME CostAssumption == Costs \subseteq Int /\ PadCost \in Int /\ Epsilon \in Nat

Line  == 1..Size
Cells == Line \X Line

VARIABLES given,       \* the matrix solve() was called with
          cost,        \* _cost: the matrix as reduced so far
          stars,       \* the cells whose _mask is 1
          primes,      \* the cells whose _mask is 2
          rowCovered,  \* _row_covered
          colCovered,  \* _col_covered
          path,        \* step 5's alternating path of primes and stars
          row,         \* the row step 2 looks at
          step         \* the step solve() takes next

solverVars == <<given, cost, stars, primes, rowCovered, colCovered, path, row, step>>

Steps == {"reduce", "star", "cover", "prime", "augment", "adjust", "assigned"}

\* match_batch: the costs of m mails and n applications, padded to a square
Padded(m, n) ==
  \E f \in [(1..m) \X (1..n) -> Costs] :
    given = [z \in Cells |-> IF z \in DOMAIN f THEN f[z] ELSE PadCost]

SolverInit ==
  /\ \E mn \in Cells : Size \in {mn[1], mn[2]} /\ Padded(mn[1], mn[2])
  /\ cost = given
  /\ stars = {} /\ primes = {}
  /\ rowCovered = {} /\ colCovered = {}
  /\ path = <<>>
  /\ row = 1
  /\ step = "reduce"

-----------------------------------------------------------------------------
IsZero(z) == -Epsilon <= cost[z] /\ cost[z] <= Epsilon

\* the solver scans rows from the top and cells from the left
Leftmost(S) == {c \in S : \A d \in S : c <= d}
FirstCell(S) == {z \in S : \A y \in S : z[1] < y[1] \/ (z[1] = y[1] /\ z[2] <= y[2])}

StarsInRow(r)    == {c \in Line : <<r, c>> \in stars}
StarsInColumn(c) == {r \in Line : <<r, c>> \in stars}
PrimesInRow(r)   == {c \in Line : <<r, c>> \in primes}

Uncovered      == {z \in Cells : z[1] \notin rowCovered /\ z[2] \notin colCovered}
UncoveredZeros == {z \in Uncovered : IsZero(z)}

\* Slip: the largest of the uncovered costs.
LargestUncovered ==
  {cost[z] : z \in {y \in Uncovered : \A x \in Uncovered : cost[x] <= cost[y]}}

\* Slip: covered rows are not skipped.
LeastOfUncoveredColumns ==
  {cost[z] : z \in {y \in Cells : /\ y[2] \notin colCovered
                                 /\ \A x \in Cells : x[2] \notin colCovered => cost[y] <= cost[x]}}

SmallestUncovered ==
  IF Uncovered = {} THEN {0}
  ELSE {cost[z] : z \in {y \in Uncovered : \A x \in Uncovered : cost[y] <= cost[x]}}

\* step 1: every row minus its least cost
ReduceRows ==
  /\ step = "reduce"
  /\ \E least \in [Line -> Line] :
       /\ \A z \in Cells : cost[<<z[1], least[z[1]]>>] <= cost[z]
       /\ cost' = [z \in Cells |-> cost[z] - cost[<<z[1], least[z[1]]>>]]
  /\ step' = "star"
  /\ UNCHANGED <<given, stars, primes, rowCovered, colCovered, path, row>>

\* step 2: star the first zero of the row in a column without a star
StarRow ==
  LET free == {c \in Line : IsZero(<<row, c>>) /\ StarsInColumn(c) = {}}
  IN  /\ step = "star"
      /\ stars' = stars \cup {<<row, c>> : c \in Leftmost(free)}
      /\ row' = IF row = Size THEN 1 ELSE row + 1
      /\ step' = IF row = Size THEN "cover" ELSE "star"
      /\ UNCHANGED <<given, cost, primes, rowCovered, colCovered, path>>

\* step 3: cover the columns of the stars; a star in each is an assignment
CoverColumns ==
  /\ step = "cover"
  /\ colCovered' = {c \in Line : StarsInColumn(c) # {}}
  /\ step' = IF colCovered' = Line THEN "assigned" ELSE "prime"
  /\ UNCHANGED <<given, cost, stars, primes, rowCovered, path, row>>

\* step 4: prime the first uncovered zero; a star in its row passes its
\* cover from the column to the row, and without one the path begins here
PrimeZero(z) ==
  /\ step = "prime"
  /\ primes' = primes \cup {z}
  /\ stars' = stars \ {z}
  /\ LET starred == StarsInRow(z[1]) \ {z[2]}
     IN  IF starred = {}
         THEN /\ path' = <<z>>
              /\ step' = "augment"
              /\ UNCHANGED <<rowCovered, colCovered>>
         ELSE /\ rowCovered' = rowCovered \cup {z[1]}
              /\ colCovered' = colCovered \ Leftmost(starred)
              /\ UNCHANGED <<path, step>>
  /\ UNCHANGED <<given, cost, row>>

NoZeroLeft ==
  /\ step = "prime" /\ UncoveredZeros = {}
  /\ step' = "adjust"
  /\ UNCHANGED <<given, cost, stars, primes, rowCovered, colCovered, path, row>>

\* step 5: from the last prime to the star of its column to the prime of that
\* star's row.  A row without a prime is the source's ValueError: no step.
ExtendPath ==
  LET c == path[Len(path)][2]
  IN  /\ step = "augment"
      /\ \E r \in Leftmost(StarsInColumn(c)) : \E d \in Leftmost(PrimesInRow(r)) :
           path' = path \o <<<<r, c>>, <<r, d>>>>
      /\ UNCHANGED <<given, cost, stars, primes, rowCovered, colCovered, row, step>>

\* step 5, end of the path: its primes become stars, its stars nothing
Augment ==
  LET onPath == {path[i] : i \in 1..Len(path)}
  IN  /\ step = "augment"
      /\ StarsInColumn(path[Len(path)][2]) = {}
      /\ stars' = (stars \ onPath) \cup (onPath \ stars)
      /\ primes' = {} /\ rowCovered' = {} /\ colCovered' = {} /\ path' = <<>>
      /\ step' = "cover"
      /\ UNCHANGED <<given, cost, row>>

\* Slip: only the uncovered cells are lowered.
AdjustUncoveredOnly ==
  /\ step = "adjust"
  /\ \E low \in SmallestUncovered :
       cost' = [z \in Cells |-> IF z \in Uncovered THEN cost[z] - low ELSE cost[z]]
  /\ step' = "prime"
  /\ UNCHANGED <<given, stars, primes, rowCovered, colCovered, path, row>>

\* step 6: the least uncovered cost moves from the uncovered columns to the
\* covered rows
AdjustCosts ==
  /\ step = "adjust"
  /\ \E low \in SmallestUncovered :
       cost' = [z \in Cells |-> cost[z] + (IF z[1] \in rowCovered THEN low ELSE 0)
                                        - (IF z[2] \in colCovered THEN 0 ELSE low)]
  /\ step' = "prime"
  /\ UNCHANGED <<given, stars, primes, rowCovered, colCovered, path, row>>

SolverNext ==
  \/ ReduceRows \/ StarRow \/ CoverColumns
  \/ \E z \in FirstCell(UncoveredZeros) : PrimeZero(z)
  \/ NoZeroLeft \/ ExtendPath \/ Augment \/ AdjustCosts

\* solve() is a loop of the calling thread: it runs until it returns
SolverSpec == SolverInit /\ [][SolverNext]_solverVars /\ WF_solverVars(SolverNext)

-----------------------------------------------------------------------------
Assignments == {p \in [Line -> Line] : \A r, s \in Line : p[r] = p[s] => r = s}
CostOf(S) == MapThenSumSet(LAMBDA z : given[z], S)

\* What solve() returns assigns every row a column of its own, at a cost no
\* other assignment undercuts by more than the forgiven rounding of each cell.
AssignmentIsOptimal ==
  step = "assigned" =>
    \E p \in Assignments :
      /\ stars = {<<r, p[r]>> : r \in Line}
      /\ \A q \in Assignments :
           CostOf(stars) <= CostOf({<<r, q[r]>> : r \in Line}) + Size * Epsilon

\* No marked cell ever costs more than a rounding error although step 6 keeps
\* changing the costs, no cost falls below zero, and what was moved between
\* rows and columns never changes how two assignments compare.
Negligible(z) == cost[z] <= Epsilon
Balanced(x, y) == LET a == <<x[1], y[2]>> b == <<y[1], x[2]>>
                  IN  cost[x] + cost[y] - cost[a] - cost[b]
                        = given[x] + given[y] - given[a] - given[b]
ReducedCostsSound ==
  /\ \A z \in stars \cup primes : Negligible(z)
  /\ step # "reduce" => \A z \in Cells : cost[z] >= 0
  /\ \A x, y \in Cells : Balanced(x, y)

\* The step loop ends with an assignment: it neither turns for ever between
\* steps 4 and 6 nor finds a row of the path without a prime.
Solves == <>(step = "assigned")
=============================================================================
