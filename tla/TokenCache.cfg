\* Three goroutines share the default human's source.
SPECIFICATION Spec
CONSTANTS
  Callers = {c1, c2, c3}
  HTTPTimeout = 2
  Lifetimes = {1, 4}
SYMMETRY Symmetry
INVARIANTS
  TypeOK
  RefusedOnlyLate
  QueueBounded
