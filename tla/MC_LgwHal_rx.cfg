\* Reception: configurations, failed starts, restarts, stops and the fetch loop.
CONSTANTS
  RfChain = {0, 1}
  IfChain = {0}
  BadChain = 99
  RfConfs <- MCRfConfs
  IfConfs <- MCIfConfs
  LutConfs <- MCNoLut
  Powers <- MCNoPower
  HalfSpan = 4
  LutMax = 3
  FifoMax = 2
  MaxId = 3
  Restarts = TRUE
  LiveGain = FALSE
  Corrupt = TRUE
SPECIFICATION FairSpec
INVARIANTS FreqTruthful NeverTwice StartedHasLink
PROPERTIES Drained
