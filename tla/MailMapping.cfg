SPECIFICATION Spec
CONSTANTS
  Mails = {e1, e2}
  Applications = {a1, a2}
  Requests = {r1, r2}
  Labels = {"applied", "denied"}
  Vectors = {x, y}
  Senders = {a1, None}
  Old = {a2}
  MinScore = 100
  None = None
SYMMETRY Symmetry
INVARIANTS RejectedNotOffered AnsweredAsStored UniformScoring LeftOutOnlyIfContested
\* two requests, then nobody asks
CHECK_DEADLOCK FALSE
