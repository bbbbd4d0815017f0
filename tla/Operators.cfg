\* The real sizes: blocks of 256 values, halves of 16 bits and float32 of 32.
\* A quotient that no int32 holds converts to the lowest one on amd64, which is
\* cut to -127, and to 0 or the nearest one on arm64.  A cell loaded, or a
\* result found, ends the behaviour.
CONSTANTS
  NaN = NaN
  Activations <- MCActivations
  Rows <- MCRows
  MaxBlocks = 2
  NaNAs <- MCNaNAs
  Numbers <- MCNumbers
  Vectors <- MCVectors
SPECIFICATION Spec
INVARIANTS
  ProductsMeanWeights
  HalfNearest
  ArgmaxLowest
CHECK_DEADLOCK FALSE
