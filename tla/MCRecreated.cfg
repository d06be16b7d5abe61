CONSTANTS
  t1 = t1
  t2 = t2
  n1 = n1
  n2 = n2
  Threads = {t1, t2}
  Names = {n1, n2}
  NoThread = NoThread
  NoName = NoName
  MaxMade = 2
  Failures = TRUE
SPECIFICATION Spec
INVARIANTS
  CreatedIsCurrent
