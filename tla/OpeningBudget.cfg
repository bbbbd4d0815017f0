\* As many sessions as make the sum of the plan wrap, on a file that stays.
CONSTANTS
  MaxInode = 1
  Bytes = {1, 2}
  MaxSize = 2
  Contents <- Data
  Times = {1}
  MaxChanges = 0
  Kind <- MCKind
  Requests <- BudgetRequests
  SessionBytes = 8
  WordSize = 16
SPECIFICATION Spec
INVARIANT
  BudgetCoversEverything
