SPECIFICATION Spec
CONSTANTS
  Mails = {m1}
  Trainers = {t1, t2}
  Limit = 4
  BatchSize = 3
  MaxExamples = 6
  MaxCommits = 3
  MaxRestarts = 1
  None = None
SYMMETRY Symmetry
INVARIANTS AckedIsSettled HeldAgainstItsScorer
PROPERTIES LabelsStayKnown
\* the mails and the training requests come to an end
CHECK_DEADLOCK FALSE
