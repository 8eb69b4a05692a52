CONSTANTS
  c1 = c1
  g1 = g1
  g2 = g2
  g3 = g3
  Cmds = {c1}
  Foreign = {c1}
  Callers = {g1, g2, g3}
  NoCmd = NoCmd
SPECIFICATION FairCmdSpec
INVARIANTS CmdTypeOK ExitsInOrder WaiterNeverBlocks
PROPERTIES StopReturnsAfterExit ImplementsOneShot InterruptIsAnswered
