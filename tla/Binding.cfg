\* Files around a good one, with uint64 of 2048 values and int of 512 or 2048:
\* widths, sizes of rows and tensors, and dimensions wrap.  The context is the
\* default, or so long that a cache or the RoPE table exceeds an int.
CONSTANTS
  Metas <- MCMetas
  Contexts = {0, 60, 64}
  Dims = {2, 4, 8, 16, 130, 516}
  Kinds = {"F32", "Q4K", "Q5K"}
  FileSize = 32
  Default = 2
  BlockSize = 4
  Groups = 2
  Q4KTypeSize = 4
  Q6KTypeSize = 4
  WordSize = 2048
  IntSizes = {512, 2048}
  LayerBytes = 100
  MaxAlloc = 255
SPECIFICATION Spec
INVARIANTS
  TypeOK
  RowsInData
  PlanIsExact
  OpenedEvaluates
\* NewModel returns and NewSession follows once.
CHECK_DEADLOCK FALSE
