\* Messages of the cloud before and after the connection, a bridge that may end.
CONSTANTS
  MaxMsg = 2
  MaxPkt = 3
  Early = TRUE
  Ends = TRUE
SPECIFICATION FairSpec
INVARIANTS TypeOK NoLostWakeup
PROPERTIES Newest EndToEnd
CHECK_DEADLOCK FALSE
