\* An upgrade killed in the body, and the restore behind it.
SPECIFICATION Spec
CONSTANTS
  Kinds <- MCKinds
  MaxRetries = 3
  Headroom = 2
  SlowRead = 3
  MaxSpecs = 1
INVARIANT RestoredDespiteTransients
