SPECIFICATION HSpec
CONSTANTS
  a = a
  b = b
  c = c
  d = d
  Key <- MCKey
  DerivedKey <- MCDerivedKey
  Value <- MCValue
  SizeOf <- MCSizeOf
  Budgets <- MCBudgets
  MaxOps = 6
INVARIANTS
  BooksKept
  WithinBudget
  RecencyOrder
  NothingLost
PROPERTIES
  FirstValueWins
  EvictsLeastRecent
  EvictsNoMoreThanNeeded
CHECK_DEADLOCK FALSE
