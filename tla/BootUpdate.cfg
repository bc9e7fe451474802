CONSTANTS
  s2 = s2
  app1 = app1
  app2 = app2
  MAX_ATTEMPTS = 3
  Layout <- MCLayout
  Images <- MCImages
  Foreign = {}
  Kind <- MCKind
  Version <- MCVersion
  HostFloors = {}
  TornFloors = {}
  Floors = {0, 1, 2}
  Factory = app1
  Release <- MCRelease
  MaxFaults = 4
SPECIFICATION UpdateSpec
PROPERTY Updatable
INVARIANT RunIsAccepted
