\* A request queues behind another one's mint.
SPECIFICATION Spec
CONSTANTS
  Callers = {c1, c2}
  HTTPTimeout = 2
  Lifetimes = {4}
INVARIANT
  TimeoutBounds
