SPECIFICATION FairSpec
CONSTANTS
  i1 = i1  i2 = i2  p1 = p1  s1 = s1  s2 = s2
  Intents <- TwoIntents
  Publishers <- OnePublisher
  Slots <- TwoSlots
  QueueLimit = 1
  StableIds = TRUE
  ExchangeDedups = FALSE
  SetupFaults = TRUE
  AlertFaults = TRUE
  MailHangs = TRUE
  MaxClients = 1
  MaxPublish <- TwiceAndOnce
  MaxCrashes = 1
INVARIANTS TypeOK NothingVanishes RecordsCoverExchange OncePerPublication
PROPERTY SignalSettles
CHECK_DEADLOCK FALSE
