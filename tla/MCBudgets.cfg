SPECIFICATION BudgetSpec
CONSTANTS
  Sizes = {8, 16}
  Columns = {1, 2, 8, 9}
  Lengths = {2, 6, 7, 9}
  Allowance = 2161
  MaxElems = 13
  MaxItems = 3
INVARIANTS
  NothingRefused
CHECK_DEADLOCK FALSE
