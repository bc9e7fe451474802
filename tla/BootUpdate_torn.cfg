CONSTANTS
  s2 = s2
  app1 = app1
  app2 = app2
  MAX_ATTEMPTS = 3
  Layout <- MCLayout
  Images <- MCImages
  Foreign = {}
  Kind <- MCKind
  Version <- MCVersion
  HostFloors = {}
  TornFloors = {3}
  Floors = {0, 1, 2, 3}
  Factory = app1
  Release <- MCRelease
  MaxFaults = 1
SPECIFICATION UpdateSpec
PROPERTY Updatable
