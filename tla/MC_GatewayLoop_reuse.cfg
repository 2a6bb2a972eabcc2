\* The released program.
CONSTANTS
  MaxBatch = 3
  Sizes = {1, 3}
  Reuse = TRUE
SPECIFICATION LoopSpec
INVARIANT EachOnce
