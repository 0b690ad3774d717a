SPECIFICATION Spec
CONSTANTS
  binance = binance  bybit = bybit  btc = btc  sol = sol
  Exchanges <- TwoExchanges
  Symbols <- TwoSymbols
  FundingExchanges <- TwoExchanges
  SpotGridExchanges <- OneExchange
  QtyScale = 10000
  AdapterPrice = 30000
  FallbackPrice <- Fallback
  GlobalMax = 100
  MartingaleCap = 60
  Rows <- LiveRow
  Deployments <- OnlyKeys
  Markets <- TestnetPrices
  MaxEdits = 0
  MaxRestarts = 0
  MaxFaults = 0
INVARIANT LiveOnMarket
CHECK_DEADLOCK FALSE
