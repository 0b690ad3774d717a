SPECIFICATION Spec
CONSTANTS
  s1 = s1  s2 = s2
  Slots <- OneSlot
  Slips = {FALSE}
  Notionals = {1}
  Budgets <- RoomyBudget
  DefaultBudget <- Roomy
  MaxRate = 9
  Minute = 2
  Window = 3
  Day = 2
  Keep = 2
  RaisingBroadcasts = FALSE
  MaxTime = 4
  MaxCrashes = 0
INVARIANT DailyCountsToday
CHECK_DEADLOCK FALSE
