CONSTANTS
  c1 = c1
  c2 = c2
  n1 = n1
  n2 = n2
  l1 = l1
  l2 = l2
  m1 = m1
  m2 = m2
  Clients = {c1, c2}
  Names = {n1, n2}
  External = {l1, l2}
  Staged = {m1, m2}
  Nowhere = Nowhere
  NoOne = NoOne
  MaxKills = 1
  MaxLate = 1
  Failures = TRUE
SPECIFICATION Spec
SYMMETRY Symmetry
INVARIANTS
  TypeOK
  RegisteredHasLog
  NoOrphan
  CleanupRemovesOwn
PROPERTIES
  CreatedIsOurs
