CONSTANTS
  q1 = q1
  q2 = q2
  q3 = q3
  Queries = {q1, q2}
  ReProbe = 2
  Delta = {q1, q2}
  Failing = {}
SPECIFICATION Spec
INVARIANTS
  DeltaReadsBindLog
