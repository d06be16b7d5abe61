CONSTANTS
  s1 = s1
  s2 = s2
  t1 = t1
  t2 = t2
  t3 = t3
  NoThread = NoThread
  Sessions = {s1}
  Threads = {t1, t2, t3}
  SessionOf <- OneProcess
  ReadOnly = {}
  MaxVersion = 2
  MaxKills = 0
  AtomicCreate = FALSE
  OptionalFields = TRUE
  Failures = TRUE
SPECIFICATION Spec
SYMMETRY ThreadSymmetry
INVARIANTS
  FreshReads
  AttachLockReleased
PROPERTIES
  WatermarkNeverRetreats
  ImplementsVersionedTable
