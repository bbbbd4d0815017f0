\* One file of any kind, first estimated, then opened.
CONSTANTS
  MaxInode = 1
  Bytes = {1, 2}
  MaxSize = 2
  Contents <- Data
  Times = {1}
  MaxChanges = 0
  Kind <- MCKind
  Requests <- EstimateRequests
  SessionBytes = 2
  WordSize = 16
SPECIFICATION Spec
INVARIANT
  EstimateValidatesLikeOpen
