SPECIFICATION FairSpec
CONSTANTS
  RfChain = {0, 1}
  Multi = {0, 1}
  LutMax = 5
  LbtChannels = 3
  Debugs <- MCDebugs
  Globals <- MCGlobals
  Locals <- MCLocals
  LbtConfs <- MCLbtConfs
  Boards <- MCBoards
  Packets <- MCPackets
  Frees <- MCFrees
  Starts <- MCStarts
  PLL_LOCK_MAX_ATTEMPTS = 2
  MaxFaults = 1
INVARIANTS TypeOK Coherent ClearAir
PROPERTY Settles
CHECK_DEADLOCK FALSE
