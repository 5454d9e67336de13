SPECIFICATION Spec
CONSTANTS
  Rule <- MCRule
  Schema <- MCSchema
  NewBound <- MCNewBound
  DefaultMaxItems = 10
  DefaultMaxLength = 20
  Budget = 100
  Limit = 255
INVARIANT OverBudgetIsWarned
CHECK_DEADLOCK FALSE
