\* A good configuration, with tensors of every encoding.
CONSTANTS
  Metas <- MCGood
  Contexts = {0}
  Dims = {2, 4, 8, 16, 130, 516}
  Kinds = {"F32", "Q4K", "Q6K", "Q5K"}
  FileSize = 32
  Default = 2
  BlockSize = 4
  Groups = 2
  Q4KTypeSize = 4
  Q6KTypeSize = 4
  WordSize = 2048
  IntSizes = {512, 2048}
  LayerBytes = 100
  MaxAlloc = 255
SPECIFICATION Spec
INVARIANT
  UnsupportedIsRejected
\* NewModel returns and NewSession follows once.
CHECK_DEADLOCK FALSE
