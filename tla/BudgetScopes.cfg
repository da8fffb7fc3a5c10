SPECIFICATION Spec
CONSTANTS
  Milliseconds = {0, 2}
  Bytes = {0, 3, 4}
  Singles = {1, 2}
  Sizes = {0, 1, 2, 3}
  MaxDepth = 3
  MaxTime = 3
  Unreadable = Unreadable
INVARIANTS
  WithinLimits
PROPERTIES
  ScopeIsShared
  SuccessIsInBudget
  PlanIsHonoured
