CONSTANTS
  core = core
  ble = ble
  c1 = c1
  c2 = c2
  c3 = c3
  c4 = c4
  main = main
  h1 = h1
  h2 = h2
  m1 = m1
  NoCmd = NoCmd
  NoName = NoName
  Nobody = Nobody
  Main = main
  Names = {core}
  First <- OneService
  Cmds = {c1, c2, c3}
  Foreign = {}
  Http = {}
  Mqtt = {m1}
  Callers = {main, m1}
  Ops = {"start", "stop"}
  MaxRequests = 2
  MaxHead = 0
SPECIFICATION UpSpec
CHECK_DEADLOCK FALSE
INVARIANTS NoOrphanProcess
