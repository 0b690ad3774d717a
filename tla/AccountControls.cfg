SPECIFICATION Spec
CONSTANTS
  s1 = s1  s2 = s2
  Slots <- TwoSlots
  Slips = {TRUE, FALSE}
  Notionals <- AllNotionals
  Budgets <- TwoBudgets
  DefaultBudget <- Default
  MaxRate = 2
  Minute = 2
  Window = 2
  Day = 10
  Keep = 2
  RaisingBroadcasts = TRUE
  MaxTime = 2
  MaxCrashes = 1
SYMMETRY SlotSymmetry
INVARIANTS TypeOK RateBound DailyOvershoot BreakerLetsGo
PROPERTY BreakerProtects
CHECK_DEADLOCK FALSE
