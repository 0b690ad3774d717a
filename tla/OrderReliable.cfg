SPECIFICATION Spec
CONSTANTS
  k1 = k1  k2 = k2  t1 = t1  t2 = t2
  Keys <- TwoKeys
  Ticks <- OneTick
  Decisions <- Overlapping
  MaxAttempts = 2
  LiveEnabled = TRUE
  LiveAdapters = {"live"}
  DryRunValues = {FALSE}
  LookupFaults = {"raised"}
  AlertFaults = TRUE
  MailHangs = TRUE
  LateDelivery = FALSE
  ExchangeDedups = FALSE
  MaxRuns = 3
  MaxCrashes = 2
INVARIANT NoDuplicateOrder
PROPERTIES TickSettlesItsOrder KeepsLedger
CHECK_DEADLOCK FALSE
