CONSTANTS
  s2 = s2
  app1 = app1
  app2 = app2
  unsigned = unsigned
  MAX_ATTEMPTS = 3
  Layout <- MCLayout
  Images <- MCImages
  Foreign <- MCForeign
  Kind <- MCKind
  Version <- MCVersion
  HostFloors = {0, 2}
  TornFloors = {3}
  Floors = {0, 1, 2, 3}
  Factory = app1
SPECIFICATION Spec
INVARIANTS RunsVerified NotRolledBack NoMixture RunLeavesStage1
