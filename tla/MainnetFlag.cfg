SPECIFICATION Spec
CONSTANTS
  binance = binance  bybit = bybit  a1 = a1  a2 = a2  env = env
  o1 = o1   worker = worker  operator = operator
  Exchanges <- TwoExchanges
  Binance <- binance
  Accounts <- TwoAccounts
  EnvKeys <- MainnetKeys
  Env <- env
  Missing = Missing
  Seeded <- OneSeeded
  Worker <- worker
  Orders <- OneOrder
  Lots = 2
  Passes <- OnePass
  Rows <- FourRows
  Deployments <- OnlyBinance
  MaxEdits = 1
  MaxFaults = 0
PROPERTY MainnetFlagOfExchange
CHECK_DEADLOCK FALSE
