CONSTANTS
  Budget = 8
  MaxBackoff = 3
  MaxRetryAfter = 4
  RetryAfters <- SomeRetryAfters
  EchoPlanId = TRUE
  Failures = TRUE
  Interrupts = TRUE
SPECIFICATION FairSpec
INVARIANTS
  TypeOK
  AbortReleasesPlan
  CancelLandsSoon
  BudgetOverrunBounded
  
PROPERTIES
  QueryEnds
CHECK_DEADLOCK FALSE
