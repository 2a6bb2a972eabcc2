\* A radio that may be late, or silent, or not obey.
CONSTANTS
  Differs = 5
  Stack = {"junk", "right"}
  MaxResets = 1
SPECIFICATION FairSpec
INVARIANTS TypeOK Truthful
PROPERTIES Ends
CHECK_DEADLOCK FALSE
