\* Transmission: gain tables, power choice, polling, half duplex; the caller
\* neither restarts nor reconfigures a started concentrator.
CONSTANTS
  RfChain = {0, 1}
  IfChain = {0}
  BadChain = 99
  RfConfs <- MCRfConfs
  IfConfs <- MCOneIf
  LutConfs <- MCLutConfs
  Powers <- MCPowers
  HalfSpan = 4
  LutMax = 3
  FifoMax = 1
  MaxId = 1
  Restarts = FALSE
  LiveGain = FALSE
  Corrupt = FALSE
SPECIFICATION FairSpec
INVARIANTS TypeOK NoOverpower CalibratedTx
PROPERTIES NoAbort SendReturns
