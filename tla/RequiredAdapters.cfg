\* Reads within, at and beyond the headroom; two specs, on the same kind or not.
SPECIFICATION Spec
CONSTANTS
  Kinds <- MCKinds
  MaxRetries = 3
  Headroom = 2
  SlowRead = 3
  MaxSpecs = 2
INVARIANTS
  TypeOK
  NilMeansServed
  BaselineBack
  HelmReportsItsOwnError
  RestoredIfUndisturbed
PROPERTIES
  JobEnds
  OneKindAtATime
