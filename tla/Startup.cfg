\* Settings with two deviations, tables with an arbitrary row, and deployments.
SPECIFICATION Spec
CONSTANTS
  Scenarios <- MCScenarios
  RunIDs <- MCRunIDs
INVARIANTS
  TypeOK
  ReadyIsCoherent
  ListingIsClusterFree
  CatalogIsExact
  DriftIsCaught
  HighestLayerWins
