SPECIFICATION Spec
CONSTANTS
  i1 = i1  i2 = i2  p1 = p1  s1 = s1  s2 = s2
  Intents <- OneIntent
  Publishers <- OnePublisher
  Slots <- OneSlot
  QueueLimit = 1
  StableIds = FALSE
  ExchangeDedups = TRUE
  SetupFaults = FALSE
  AlertFaults = FALSE
  MailHangs = FALSE
  MaxClients = 1
  MaxPublish <- Twice
  MaxCrashes = 0
INVARIANT NoDuplicateOrder
CHECK_DEADLOCK FALSE
