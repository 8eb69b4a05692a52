CONSTANTS
  v1 = v1
  v2 = v2
  Missing = Missing
  NoVersion = NoVersion
  Versions = {v1, v2}
  Installed = v1
  MaxBuilds = 3
  MaxRestarts = 2
SPECIFICATION Spec
CHECK_DEADLOCK FALSE
INVARIANTS SelfTypeOK OnlyReleases
PROPERTIES RestartsIntoRequested
