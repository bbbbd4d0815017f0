\* Words of four bits: every sum of a base, an offset and a size may wrap.
\* Three tensors, so that a range may overlap one that is not its neighbour
\* in the file.
CONSTANTS
  Files <- MCFiles
  Default = 2
  WordSize = 16
  Names = {"x", "y", "z"}
  Offsets = {0, 2, 4, 14}
  Lengths = {0, 2, 4}
  Bases = {2, 10}
  Alignments = {0, 4}
  FileSizes = {8}
  MaxItems = 3
SPECIFICATION Spec
INVARIANTS
  TypeOK
  AcceptedInFile
  AcceptedDisjoint
  AcceptsWellFormed
\* A behaviour is one call of Parse, which ends.
CHECK_DEADLOCK FALSE
