SPECIFICATION Spec
CONSTANTS
  k1 = k1  k2 = k2  t1 = t1  t2 = t2
  Keys <- OneKey
  Ticks <- OneTick
  Decisions <- OneOrder
  MaxAttempts = 2
  LiveEnabled = TRUE
  LiveAdapters = {"live"}
  DryRunValues = {FALSE}
  LookupFaults = {"swallowed"}
  AlertFaults = FALSE
  MailHangs = FALSE
  LateDelivery = FALSE
  ExchangeDedups = FALSE
  MaxRuns = 1
  MaxCrashes = 0
INVARIANT NoDuplicateOrder
CHECK_DEADLOCK FALSE
