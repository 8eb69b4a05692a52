CONSTANTS
  core = core
  ble = ble
  c1 = c1
  c2 = c2
  c3 = c3
  c4 = c4
  main = main
  h1 = h1
  h2 = h2
  m1 = m1
  NoCmd = NoCmd
  NoName = NoName
  Nobody = Nobody
  Main = main
  Names = {core, ble}
  First <- TwoServices
  Cmds = {c1, c2}
  Foreign = {}
  Http = {}
  Mqtt = {}
  Callers = {main}
  Ops = {"shutdown"}
  MaxRequests = 0
  MaxHead = 0
SPECIFICATION UpSpec
CHECK_DEADLOCK FALSE
PROPERTIES StopStopsEverything
