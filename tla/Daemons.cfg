CONSTANTS
  tunnel = tunnel
  ssh = ssh
  storage = storage
  main = main
  mqtt = mqtt
  NoRepo = NoRepo
  NoDaemon = NoDaemon
  Main = main
  Mqtt = mqtt
  Repos = {tunnel}
  Hooked = {tunnel}
  Callers = {main, mqtt}
  Daemons = {ssh, storage}
  RepoOf <- OneRepository
  MaxRev = 3
  MaxCrashes = 2
SPECIFICATION Spec
CHECK_DEADLOCK FALSE
INVARIANTS GitTypeOK DaemonTypeOK VersionNeverAhead UpdateDelivers SuccessIsCurrent UpdatingMeansMessage RestartsWithDeps
PROPERTIES HeadOnlyGrows RestartsIntoNews UsesRepos
