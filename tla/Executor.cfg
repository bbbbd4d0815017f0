\* Two products of up to seven rows by three workers, with a look at the
\* context every two rows: fewer rows than workers, a remainder, and a part
\* that looks twice all occur.
CONSTANTS
  Configured = 3
  MaxRows = 7
  CheckEvery = 2
  MaxCalls = 2
SPECIFICATION Spec
INVARIANTS
  TypeOK
  OneWorkerPerRow
  NilMeansComplete
  NoWorkerOutlivesRun
  CancelIsBounded
PROPERTY
  ProductReturns
\* The number of products is bounded by MaxCalls, so a behaviour may stop.
CHECK_DEADLOCK FALSE
