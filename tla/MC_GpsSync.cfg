CONSTANTS
  Ticks = 4
  Nanos = 40
  Phase = 25
  Xtals = {41}
  Rounding <- MCRounding
  Wrap = 9
  Moments = {3}
  Day = 3
  Errors <- MCErrors
  MaxTime = 6
  Backlog = 0
SPECIFICATION Spec
INVARIANTS TypeOK Trusted Recovers
PROPERTY Timestamps
CHECK_DEADLOCK FALSE
