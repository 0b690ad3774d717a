----------------------------- MODULE MCBotTicks -----------------------------
(***************************************************************************)
(* Instances of BotTicks for TLC.  Prices are small: a mark of 30000 ticks *)
(* for the adapter's, 2000 and 3000 for the fall-backs.                    *)
(***************************************************************************)
EXTENDS BotTicks

CONSTANTS binance, bybit, btc, sol

TwoExchanges == {binance, bybit}
OneExchange  == {binance}
TwoSymbols   == {btc, sol}

Fallback == [s \in TwoSymbols |-> IF s = btc THEN 3000 ELSE 2000]

NewBot(type, exchange, position, perTick, levels, dry) ==
  [type |-> type, exchange |-> exchange, symbol |-> sol,
   max_position |-> position, risk_per_tick |-> perTick,
   grid_levels |-> levels, dry_run |-> dry]

\* A purchase, its dry run, and one with other limits; both grids, the first
\* with fewer levels than a grid may have.
Accepted ==
  {NewBot("DCA", binance, 100, 30, 8, FALSE),
   NewBot("DCA", binance, 100, 30, 8, TRUE),
   NewBot("MARTINGALE", binance, 50, 80, 8, FALSE),
   NewBot("NEUTRAL_CONTRACT_GRID", binance, 90, 100, 1, FALSE),
   NewBot("CONSERVATIVE_SPOT_GRID", binance, 100, 30, 8, FALSE)}

\* Nothing to do, an exchange without spot grids, an order so small that its
\* quantity is rounded to nothing, one above the global limit, and a position
\* above the cap of the martingale.
Refused ==
  {NewBot("FUNDING_ARBITRAGE", binance, 100, 60, 8, FALSE),
   NewBot("CONSERVATIVE_SPOT_GRID", bybit, 100, 30, 8, FALSE),
   NewBot("DCA", binance, 100, 1, 8, FALSE),
   NewBot("DCA", binance, 200, 150, 8, FALSE),
   NewBot("MARTINGALE", binance, 70, 60, 8, FALSE)}

SomeRows == Accepted \cup Refused
LiveRow == {NewBot("DCA", binance, 100, 30, 8, FALSE)}

OffOrKeys ==
  {[keys |-> {}, live |-> FALSE], [keys |-> OneExchange, live |-> TRUE]}
OnlyKeys == {[keys |-> TwoExchanges, live |-> TRUE]}

TestnetPrices == {29000, 31000}
=============================================================================
