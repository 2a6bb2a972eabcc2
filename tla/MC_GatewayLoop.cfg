\* The test program.
CONSTANTS
  MaxBatch = 3
  Sizes = {1, 3}
  Reuse = FALSE
SPECIFICATION LoopSpec
INVARIANTS LoopTypeOK EachOnce
PROPERTIES BatchEnds
