CONSTANTS
  t1 = t1
  t2 = t2
  k1 = k1
  k2 = k2
  f1 = f1
  f2 = f2
  f3 = f3
  Threads = {t1, t2}
  NoThread = NoThread
  Tasks = {k1, k2}
  Inline = Inline
  Files = {f1, f2, f3}
  Vectors = 2
  VectorSize = 1
  Failures = TRUE
  Plans <- SomePlans
SPECIFICATION FairSpec
INVARIANTS
  TypeOK
  ListsParallel
  ScanReturnsPlan
PROPERTIES
  ImplementsParallelScan
  ScanEnds
CHECK_DEADLOCK FALSE
