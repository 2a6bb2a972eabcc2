\* A lamp node, packets and interrupts at any moment.
CONSTANTS
  Commands <- MCCommands
  MaxReports = 2
SPECIFICATION FairSpec
INVARIANTS TypeOK SendsStatus NotDeaf
PROPERTIES LampAsReported ManualSticks Answered Reports
