\* Every failure of a run with one retry, on two processes.
SPECIFICATION Spec
CONSTANTS
  NumProcs = 2
  Specs <- MCSpecs
  Serial <- MCSerial
  Deployers <- MCDeployers
  Unmarked <- MCUnmarked
  Leaky <- MCLeaky
  FlakeAttempts = 2
  SweepTime = 2
  PollTime = 1
INVARIANTS
  TypeOK
  EverythingTried
  SubscriptionsSwept
  DeployersIsolated
PROPERTIES
  KeepsPromise
  RunEnds
