SPECIFICATION FairSpec
CONSTANTS
  k1 = k1  k2 = k2  t1 = t1  t2 = t2
  Keys <- OneKey
  Ticks <- TwoTicks
  Decisions <- OneOrder
  MaxAttempts = 2
  LiveEnabled = TRUE
  LiveAdapters = {"live", "blocked"}
  DryRunValues = {TRUE, FALSE}
  LookupFaults = {"raised", "swallowed"}
  AlertFaults = TRUE
  MailHangs = TRUE
  LateDelivery = TRUE
  ExchangeDedups = FALSE
  MaxRuns = 2
  MaxCrashes = 1
INVARIANTS TypeOK LedgerNotAhead WriteAhead BoundedCreation
PROPERTY TickTerminates
CHECK_DEADLOCK FALSE
