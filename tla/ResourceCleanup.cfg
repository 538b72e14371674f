\* Every row of the table; three children against pages of two, so that one child
\* can be off the page; a deadline of three intervals and requests that take one.
SPECIFICATION Spec
CONSTANTS
  Entities <- MCEntities
  Parent = parent
  Child = {c1, c2, c3}
  PageSize = 2
  DeletedTimeout = 3
  SlowRequest = 1
INVARIANTS
  TypeOK
  NilMeansGone
  ChildFailureReported
PROPERTIES
  ConflictIsExcused
  CleanupEnds
  KeepsPromise
