\* Three callers share two sessions while two goroutines close the model.
CONSTANTS
  Callers = {c1, c2, c3}
  Closers = {k1, k2}
  Sessions = {s1, s2}
  ContextSize = 2
  None = None
SPECIFICATION Safety
SYMMETRY Symmetry
INVARIANTS
  MappedWhileRegistered
  SessionsConserved
  ReleaseNeverBlocks
  OneCloserReleases
  Inductive
PROPERTY
  DrainedForGood
