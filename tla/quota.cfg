SPECIFICATION Spec
CONSTANTS
  Calls = {c1, c2}
  Tasks = {t1}
  Periods = {hour}
  Hour = hour
  Limits = {0, 1, 2}
  Budgets <- MCBudgets
  MaxTokens = 2
  MaxSpent = 4
  MaxWrites = 1
  MaxFaults = 1
SYMMETRY Symmetry
CHECK_DEADLOCK FALSE
INVARIANTS
  TypeOK
  OverrunIsInFlight
  BudgetOverrunIsInFlight
  LedgerCovers
