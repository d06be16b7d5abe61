CONSTANTS
  f1 = f1
  f2 = f2
  nothing = nothing
  Columns = {"a", "unnamed"}
  Anonymous = {"unnamed"}
  Values = {0, 1, 2}
  Null = nothing
  Word = 16
  Bucket = 2
  DvMagic = 13
  PuffinMagic = 12
  Files = {f1, f2}
  Marked = f1
  Positions = {0, 1, 2, 3}
  Expressions <- AllExpressions
  Data <- SomeData
  Tables <- SomeTables
  Cases <- SomeCases
SPECIFICATION Spec
INVARIANTS
  TypeOK
  ReadsInBounds
  VectorExact
  WholeIsRead
  FilterImplied
  PruningKept
  QueryAnswers
CHECK_DEADLOCK FALSE
