\* Two files of up to two bytes, any of which may be at the path with one of two
\* times, and two changes.
CONSTANTS
  MaxInode = 2
  Bytes = {1, 2}
  MaxSize = 2
  Contents <- MCContents
  Times = {1, 2}
  MaxChanges = 2
  Kind <- MCKind
  Requests <- MCRequests
  SessionBytes = 2
  WordSize = 16
SPECIFICATION Spec
INVARIANTS
  TypeOK
  NothingLeaks
  VerifiedIsParsed
PROPERTY
  CheckLeavesRestored
