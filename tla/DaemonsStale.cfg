CONSTANTS
  tunnel = tunnel
  ssh = ssh
  storage = storage
  main = main
  mqtt = mqtt
  NoRepo = NoRepo
  NoDaemon = NoDaemon
  Main = main
  Mqtt = mqtt
  Repos = {tunnel}
  Hooked = {tunnel}
  Callers = {main, mqtt}
  Daemons = {ssh, storage}
  RepoOf <- OneRepository
  MaxRev = 2
  MaxCrashes = 0
SPECIFICATION Spec
CHECK_DEADLOCK FALSE
INVARIANTS NoNewsMeansReady
