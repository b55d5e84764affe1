SPECIFICATION Spec
CONSTANTS
  Calls = {c1}
  Tasks = {}
  Periods = {hour}
  Hour = hour
  Limits = {2}
  Budgets <- MCBudgets
  MaxTokens = 2
  MaxSpent = 4
  MaxWrites = 1
  MaxFaults = 0
CHECK_DEADLOCK FALSE
PROPERTY HourlyQuotaIsHourly
