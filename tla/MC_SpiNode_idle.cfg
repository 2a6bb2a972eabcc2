\* An interrupt between SS low and beginTransaction.
CONSTANTS
  Commands <- MCShort
  MaxReports = 3
SPECIFICATION Spec
INVARIANT IdleHolds
