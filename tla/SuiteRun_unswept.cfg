\* A setup that fails on process 1 only.
SPECIFICATION Spec
CONSTANTS
  NumProcs = 2
  Specs <- MCParallel
  Serial <- Nothing
  Deployers <- MCUnmarked
  Unmarked <- MCUnmarked
  Leaky <- MCParallel
  FlakeAttempts = 1
  SweepTime = 2
  PollTime = 1
INVARIANT SweepRuns
