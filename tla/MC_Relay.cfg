CONSTANTS
  MaxSends = 2
  MaxCommands = 3
  Capacity = 6
SPECIFICATION FairSpec
INVARIANTS TypeOK Attributed
PROPERTIES Serves
CHECK_DEADLOCK FALSE
