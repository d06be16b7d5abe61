CONSTANTS
  q1 = q1
  q2 = q2
  q3 = q3
  Queries = {q1, q2, q3}
  ReProbe = 2
  Delta = {q1, q2}
  Failing = {q2, q3}
SPECIFICATION FairSpec
INVARIANTS
  TypeOK
  FallbackAnswers
PROPERTIES
  
  ReProbed
