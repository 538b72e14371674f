\* A cluster cleanup ahead of the API restore, an AfterEach ahead of the Sentinel's.
SPECIFICATION Spec
CONSTANT Scripts <- CleanUpTooEarly
INVARIANT NoDoomedWait
