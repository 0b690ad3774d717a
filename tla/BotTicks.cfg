SPECIFICATION FairSpec
CONSTANTS
  binance = binance  bybit = bybit  btc = btc  sol = sol
  Exchanges <- TwoExchanges
  Symbols <- TwoSymbols
  FundingExchanges <- TwoExchanges
  SpotGridExchanges <- OneExchange
  QtyScale = 10000
  AdapterPrice = 30000
  FallbackPrice <- Fallback
  GlobalMax = 100
  MartingaleCap = 60
  Rows <- SomeRows
  Deployments <- OffOrKeys
  Markets <- TestnetPrices
  MaxEdits = 2
  MaxRestarts = 1
  MaxFaults = 1
INVARIANTS TypeOK ExposureBounded RungsApart
PROPERTIES LimitsInForce DecisionSettles
CHECK_DEADLOCK FALSE
