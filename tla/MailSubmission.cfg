SPECIFICATION Spec
CONSTANTS
  Applied = {m1}
  Offers = {m2}
  Requests = {r1, r2}
  MaxFailures = 1
  MaxRestarts = 1
INVARIANTS RepeatedOnlyIf
PROPERTIES LeftBehindOnlyIf DueIsSubmitted
