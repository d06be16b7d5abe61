CONSTANTS
  s1 = s1
  s2 = s2
  t1 = t1
  t2 = t2
  t3 = t3
  NoThread = NoThread
  Sessions = {s1, s2}
  Threads = {t1, t2}
  SessionOf <- OneThreadEach
  ReadOnly = {}
  MaxVersion = 2
  MaxKills = 1
  AtomicCreate = TRUE
  OptionalFields = FALSE
  Failures = TRUE
SPECIFICATION Spec
INVARIANTS
  TypeOK
  BackfilledCovered
  LogHasNoGap
