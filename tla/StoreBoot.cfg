CONSTANTS
  core = core
  ble = ble
  c1 = c1
  c2 = c2
  c3 = c3
  c4 = c4
  main = main
  h1 = h1
  h2 = h2
  m1 = m1
  NoCmd = NoCmd
  NoName = NoName
  Nobody = Nobody
  Main = main
  Names = {core}
  First <- OneService
  Cmds = {c1, c2}
  Foreign = {c1, c2}
  Http = {h1}
  Mqtt = {}
  Callers = {main, h1}
  Ops = {"start", "stop", "restart", "update", "stopAll", "shutdown"}
  MaxRequests = 1
  MaxHead = 1
SPECIFICATION FairSpec
CHECK_DEADLOCK FALSE
INVARIANTS StoreTypeOK StatusIsSound LocksHeld
PROPERTIES ImplementsCommand OnlyDoubleStopHangs
