----------------------------- MODULE Strategies -----------------------------
(***************************************************************************)
(* What a bot decides on: the market snapshot it is given                  *)
(* (market_stream.py), the five strategies (strategies.py) and the check   *)
(* in front of the executor (risk.py, exchanges.py).  All of it is a       *)
(* function of the bot's row and of the settings: this module has no state.*)
(*                                                                         *)
(* Money and prices are counted in ticks of 0.0001 USDT, to which the grids*)
(* round; quantities in units of 1/QtyScale, to which _notional_qty        *)
(* rounds.  The code's numbers are floats.  A quotient that it does not    *)
(* round, the share of a grid's level in the position, loses less than a   *)
(* tick here.                                                              *)
(***************************************************************************)
EXTENDS Integers, Sequences

CONSTANTS
  Exchanges, Symbols,
  FundingExchanges,   \* EXCHANGE_SPECS with supports_funding
  SpotGridExchanges,  \* EXCHANGE_SPECS with supports_spot_grid
  QtyScale,           \* units of quantity in one
  AdapterPrice,       \* mark_price of BaseExchangeAdapter.fetch_market_snapshot
  FallbackPrice,      \* mark_price of fallback_market_snapshot, by symbol
  GlobalMax,          \* settings.global_max_order_notional_usdt
  MartingaleCap       \* the hard cap of the check for MARTINGALE

ASSUME StrategyAssumption ==
  /\ FundingExchanges \subseteq Exchanges
  /\ SpotGridExchanges \subseteq Exchanges
  /\ QtyScale \in Nat \ {0}
  /\ AdapterPrice \in Nat \ {0}
  /\ FallbackPrice \in [Symbols -> Nat \ {0}]
  /\ GlobalMax \in Nat
  /\ MartingaleCap \in Nat

BotTypes == {"FUNDING_ARBITRAGE", "NEUTRAL_CONTRACT_GRID", "DCA",
             "CONSERVATIVE_SPOT_GRID", "MARTINGALE"}

\* A row of table bots, as far as a tick reads it.  A limit below 0 is
\* refused like one of 0.
Bot == [type : BotTypes, exchange : Exchanges, symbol : Symbols,
        max_position : Nat, risk_per_tick : Nat, grid_levels : Int,
        dry_run : BOOLEAN]

\* A price of 0 is none: a MARKET order.
Order == [exchange : Exchanges, symbol : Symbols, side : {"BUY", "SELL"},
          type : {"MARKET", "LIMIT"}, price : Int, qty : Nat, notional : Nat]

Snapshot == [mark_price : Nat \ {0}, funding_rate : Int]

-----------------------------------------------------------------------------
(* Numbers.                                                                *)

Lesser(a, b)  == IF a <= b THEN a ELSE b
Greater(a, b) == IF a >= b THEN a ELSE b

\* round(a / b)
Nearest(a, b) == (2 * a + b) \div (2 * b)

_notional_qty(usdt, price) == Nearest(usdt * QtyScale, price)

\* A price that is off the mark by so many hundredths of a per cent.
Whole == 10000
PriceAt(mark, offset) == Nearest(mark * (Whole + offset), Whole)

-----------------------------------------------------------------------------
(* The market as a tick sees it.                                           *)

\* poll_market_snapshot.  The adapter it builds is the one for dry_run =
\* True, whose snapshot is a constant and never fails; without keys in the
\* environment there is a constant for each symbol.
poll_market_snapshot(ready, symbol) ==
  [mark_price   |-> IF ready THEN AdapterPrice ELSE FallbackPrice[symbol],
   funding_rate |-> 0]

-----------------------------------------------------------------------------
(* The strategies: the orders of a decision, in the order of the code.     *)

MarketOrder(bot, side, notional, mark) ==
  [exchange |-> bot.exchange, symbol |-> bot.symbol, side |-> side,
   type |-> "MARKET", price |-> 0, notional |-> notional,
   qty |-> _notional_qty(notional, mark)]

LimitOrder(bot, side, notional, mark, offset) ==
  [exchange |-> bot.exchange, symbol |-> bot.symbol, side |-> side,
   type |-> "LIMIT", price |-> PriceAt(mark, offset), notional |-> notional,
   qty |-> _notional_qty(notional, mark)]

PerTick(bot) == Lesser(bot.risk_per_tick, bot.max_position)

\* The threshold of 0.0003 with the buffer of 0.0001, in hundredths of a per
\* cent like the rate.
EffectiveThreshold == 4

funding_arbitrage(bot, snapshot) ==
  IF snapshot.funding_rate \in (1 - EffectiveThreshold)..(EffectiveThreshold - 1)
    THEN <<>>
    ELSE <<MarketOrder(bot, IF snapshot.funding_rate > 0 THEN "SELL" ELSE "BUY",
                       PerTick(bot), snapshot.mark_price)>>

dca(bot, snapshot) ==
  <<MarketOrder(bot, "BUY", PerTick(bot), snapshot.mark_price)>>

\* Mutant of per_order: every level may take the position.
per_order_whole(bot, levels) == PerTick(bot)

\* What one level of a grid is worth.
per_order(bot, levels) ==
  Lesser(bot.max_position \div levels, bot.risk_per_tick)

\* max(2, min(levels, limits.max_grid_levels)), both the column grid_levels.
NeutralLevels(bot) == Greater(2, bot.grid_levels)
NeutralSpacing == 35

\* Mutant of neutral_contract_grid: the offset is the same at every level.
neutral_flat_grid(bot, snapshot) ==
  LET levels == NeutralLevels(bot)
      share  == per_order(bot, levels)
  IN [n \in 1..(2 * levels) |->
        IF n % 2 = 1
          THEN LimitOrder(bot, "BUY", share, snapshot.mark_price, - NeutralSpacing)
          ELSE LimitOrder(bot, "SELL", share, snapshot.mark_price, NeutralSpacing)]

\* A buy and a sell at each level.
neutral_contract_grid(bot, snapshot) ==
  LET levels == NeutralLevels(bot)
      share  == per_order(bot, levels)
  IN [n \in 1..(2 * levels) |->
        LET offset == NeutralSpacing * ((n + 1) \div 2)
        IN IF n % 2 = 1
             THEN LimitOrder(bot, "BUY", share, snapshot.mark_price, - offset)
             ELSE LimitOrder(bot, "SELL", share, snapshot.mark_price, offset)]

\* levels = 5 of the signature, which no caller overrides.
SpotLevels == 5
SpotSpacing == 60

conservative_spot_grid(bot, snapshot) ==
  [n \in 1..SpotLevels |->
     LimitOrder(bot, "BUY", per_order(bot, SpotLevels), snapshot.mark_price,
                - (SpotSpacing * n))]

\* 2 ** step, for each step below max_martingale_steps.
Doubling == <<1, 2, 4, 8, 16>>

martingale(bot, snapshot, step) ==
  IF step >= Len(Doubling) THEN <<>>
  ELSE <<MarketOrder(bot, "BUY",
           Lesser(bot.risk_per_tick * Doubling[step + 1], bot.max_position),
           snapshot.mark_price)>>

\* A tick gives run_strategy no state, and so the step is always 0.
run_strategy(bot, snapshot) ==
  CASE bot.type = "FUNDING_ARBITRAGE"      -> funding_arbitrage(bot, snapshot)
    [] bot.type = "NEUTRAL_CONTRACT_GRID"  -> neutral_contract_grid(bot, snapshot)
    [] bot.type = "DCA"                    -> dca(bot, snapshot)
    [] bot.type = "CONSERVATIVE_SPOT_GRID" -> conservative_spot_grid(bot, snapshot)
    [] bot.type = "MARTINGALE"             -> martingale(bot, snapshot, 0)

-----------------------------------------------------------------------------
(* The check.                                                              *)

validate_strategy_exchange(bot) ==
  /\ bot.type = "FUNDING_ARBITRAGE" => bot.exchange \in FundingExchanges
  /\ bot.type = "CONSERVATIVE_SPOT_GRID" => bot.exchange \in SpotGridExchanges

\* An order without a notional is valued at its price, and without a price
\* at what the bot may spend.
Notional(bot, o) ==
  CASE o.notional > 0                              -> o.notional
    [] o.notional <= 0 /\ o.qty * o.price > 0      -> (o.qty * o.price) \div QtyScale
    [] o.notional <= 0 /\ ~(o.qty * o.price > 0)   -> PerTick(bot)

\* Sides and types are what the strategies write.
OrderAllowed(bot, o) ==
  /\ o.qty > 0
  /\ Notional(bot, o) <= bot.max_position
  /\ Notional(bot, o) <= GlobalMax

\* Mutant of pre_trade_risk_check: the live switch is not looked at.
check_without_switch(bot, orders, live_enabled) ==
  /\ validate_strategy_exchange(bot)
  /\ bot.max_position > 0 /\ bot.risk_per_tick > 0
  /\ \A n \in DOMAIN orders : OrderAllowed(bot, orders[n])

\* One order that fails refuses the decision.
pre_trade_risk_check(bot, orders, live_enabled) ==
  /\ validate_strategy_exchange(bot)
  /\ bot.dry_run \/ live_enabled
  /\ bot.type = "MARTINGALE" => bot.max_position <= MartingaleCap
  /\ bot.max_position > 0 /\ bot.risk_per_tick > 0
  /\ \A n \in DOMAIN orders : OrderAllowed(bot, orders[n])
=============================================================================
