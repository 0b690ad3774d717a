------------------------- MODULE Strategies_proofs -------------------------
(***************************************************************************)
(* What the strategies decide, for every row, every price and every        *)
(* setting: orders of the types that the executor expects, none above the  *)
(* limits of the row, grids whose rungs are orders of their own, and levels*)
(* that share the position limit between them.                             *)
(***************************************************************************)
EXTENDS Strategies, SequenceTheorems, TLAPS

-----------------------------------------------------------------------------
(* Numbers.                                                                *)

\* The greater of two products is that of the greater factor.
LEMMA Products ==
  ASSUME NEW a \in Nat, NEW b \in Int, NEW c \in Int, b <= c
  PROVE  a * b <= a * c
OBVIOUS

\* A quotient is at least n when the dividend is n times the divisor.
LEMMA QuotientAtLeast ==
  ASSUME NEW a \in Int, NEW b \in Nat \ {0}, NEW n \in Int, n * b <= a
  PROVE  a \div b \in Int /\ n <= a \div b
OBVIOUS

\* A quantity is rounded to a natural number.
LEMMA NearestNat ==
  ASSUME NEW a \in Nat, NEW b \in Nat \ {0}
  PROVE  Nearest(a, b) \in Nat
<1>1. 2 * a + b \in Nat /\ 2 * b \in Nat \ {0}
  OBVIOUS
<1>2. (2 * a + b) \div (2 * b) \in Int /\ 0 <= (2 * a + b) \div (2 * b)
  BY <1>1, QuotientAtLeast
<1> QED BY <1>2 DEF Nearest

\* A price is rounded up or down by half a tick at most.
LEMMA NearestWhole ==
  ASSUME NEW a \in Int
  PROVE  /\ Nearest(a, Whole) \in Int
         /\ 2 * Whole * Nearest(a, Whole) <= 2 * a + Whole
         /\ 2 * a + Whole < 2 * Whole * (Nearest(a, Whole) + 1)
BY DEF Nearest, Whole

\* A price is a whole number of ticks.
LEMMA PriceInt ==
  ASSUME NEW mark \in Nat, NEW x \in Int
  PROVE  PriceAt(mark, x) \in Int
<1>1. mark * (Whole + x) \in Int
  BY DEF Whole
<1> QED BY <1>1, NearestWhole DEF PriceAt

\* Prices that are a tick apart stay apart.
LEMMA NearestApart ==
  ASSUME NEW a \in Int, NEW b \in Int, a + Whole <= b
  PROVE  Nearest(a, Whole) < Nearest(b, Whole)
BY NearestWhole DEF Whole

\* The price at the mark is the mark.
LEMMA NearestMark ==
  ASSUME NEW mark \in Nat
  PROVE  Nearest(mark * Whole, Whole) = mark
<1> DEFINE a == mark * Whole
           n == Nearest(a, Whole)
<1>1. a \in Int /\ a = 10000 * mark
  BY DEF Whole
<1>2. n \in Int /\ 20000 * n <= 2 * a + 10000 /\ 2 * a + 10000 < 20000 * (n + 1)
  BY <1>1, NearestWhole DEF Whole
<1> HIDE DEF a, n
<1>3. n = mark
  BY <1>1, <1>2
<1> QED BY <1>3 DEF a, n

\* A further rung has a price further from the mark, by a tick at least.
LEMMA PricesApart ==
  ASSUME NEW mark \in Nat, NEW s \in Nat, s * mark >= Whole,
         NEW x \in Int, NEW y \in Int, x + s <= y
  PROVE  PriceAt(mark, x) < PriceAt(mark, y)
<1> DEFINE a == mark * (Whole + x)
           b == mark * (Whole + y)
<1>1. a \in Int /\ b \in Int
  BY DEF Whole
<1>2. b = a + mark * (y - x)
  <2>1. Whole + y = (Whole + x) + (y - x)
    BY DEF Whole
  <2> QED BY <2>1 DEF Whole
<1>3. mark * s <= mark * (y - x)
  <2>1. s \in Int /\ y - x \in Int /\ s <= y - x
    OBVIOUS
  <2> QED BY <2>1, Products
<1>4. a + Whole <= b
  <2>1. mark * s = s * mark /\ s * mark \in Nat /\ mark * (y - x) \in Int
    OBVIOUS
  <2> HIDE DEF a, b
  <2> QED BY <1>1, <1>2, <1>3, <2>1 DEF Whole
<1> HIDE DEF a, b
<1>5. Nearest(a, Whole) < Nearest(b, Whole)
  BY <1>1, <1>4, NearestApart
<1> QED BY <1>5 DEF a, b, PriceAt

\* The price at no offset is the mark.
LEMMA PriceAtMark ==
  ASSUME NEW mark \in Nat
  PROVE  PriceAt(mark, 0) = mark
<1>1. Whole + 0 = Whole
  BY DEF Whole
<1> QED BY <1>1, NearestMark DEF PriceAt

-----------------------------------------------------------------------------
(* The orders of a decision.                                               *)

\* What an order of a bot may be worth.
Fits(bot, o) ==
  /\ o \in Order
  /\ o.exchange = bot.exchange
  /\ o.notional <= bot.max_position
  /\ o.notional <= bot.risk_per_tick

\* The columns of a row that the strategies read.
LEMMA BotColumns ==
  ASSUME NEW bot \in Bot
  PROVE  /\ bot.max_position \in Nat /\ bot.risk_per_tick \in Nat
         /\ bot.grid_levels \in Int /\ bot.type \in BotTypes
         /\ bot.exchange \in Exchanges /\ bot.symbol \in Symbols
         /\ bot.dry_run \in BOOLEAN
BY DEF Bot

\* A quantity is a natural number.
LEMMA QuantityNat ==
  ASSUME NEW usdt \in Nat, NEW price \in Nat \ {0}
  PROVE  _notional_qty(usdt, price) \in Nat
<1>1. usdt * QtyScale \in Nat
  BY StrategyAssumption
<1> QED BY <1>1, NearestNat DEF _notional_qty

\* An order for no more than the limits fits, at the market and at a rung.
LEMMA MarketFits ==
  ASSUME NEW bot \in Bot, NEW side \in {"BUY", "SELL"}, NEW n \in Nat,
         NEW mark \in Nat \ {0}, n <= bot.max_position, n <= bot.risk_per_tick
  PROVE  Fits(bot, MarketOrder(bot, side, n, mark))
<1>1. _notional_qty(n, mark) \in Nat
  BY QuantityNat
<1> QED BY <1>1, BotColumns DEF Fits, MarketOrder, Order

LEMMA LimitFits ==
  ASSUME NEW bot \in Bot, NEW side \in {"BUY", "SELL"}, NEW n \in Nat,
         NEW mark \in Nat \ {0}, NEW offset \in Int,
         n <= bot.max_position, n <= bot.risk_per_tick
  PROVE  Fits(bot, LimitOrder(bot, side, n, mark, offset))
<1>1. _notional_qty(n, mark) \in Nat
  BY QuantityNat
<1>2. PriceAt(mark, offset) \in Int
  BY PriceInt
<1> QED BY <1>1, <1>2, BotColumns DEF Fits, LimitOrder, Order

\* The share of a level is within the limits.
LEMMA ShareFits ==
  ASSUME NEW bot \in Bot, NEW levels \in Nat \ {0}
  PROVE  /\ per_order(bot, levels) \in Nat
         /\ per_order(bot, levels) <= bot.max_position
         /\ per_order(bot, levels) <= bot.risk_per_tick
         /\ levels * per_order(bot, levels) <= bot.max_position
<1> DEFINE m == bot.max_position
           r == bot.risk_per_tick
           q == m \div levels
           p == per_order(bot, levels)
<1>1. m \in Nat /\ r \in Nat
  BY BotColumns
<1>2. q \in Int /\ 0 <= q
  BY <1>1, QuotientAtLeast
<1>3. levels * q <= m /\ q <= levels * q
  BY <1>1, <1>2
<1>4. p = Lesser(q, r)
  BY DEF per_order
<1> HIDE DEF m, r, q, p
<1>5. p \in Nat /\ p <= q /\ p <= r
  BY <1>1, <1>2, <1>4 DEF Lesser
<1>6. levels * p <= levels * q
  BY <1>2, <1>5, Products
<1>7. levels * p <= m /\ p <= m
  <2>1. levels * p \in Int /\ levels * q \in Int
    BY <1>2, <1>5
  <2> QED BY <1>1, <1>2, <1>3, <1>5, <1>6, <2>1
<1> QED BY <1>5, <1>7 DEF m, r, p

\* The lesser of the two limits is within both.
LEMMA PerTickFits ==
  ASSUME NEW bot \in Bot
  PROVE  /\ PerTick(bot) \in Nat
         /\ PerTick(bot) <= bot.max_position /\ PerTick(bot) <= bot.risk_per_tick
BY BotColumns DEF PerTick, Lesser

\* What is shown of a decision: its orders fit the row.
DecisionFits(bot, orders) ==
  orders \in Seq(Order) /\ \A n \in DOMAIN orders : Fits(bot, orders[n])

\* A decision of one order, and of none.
LEMMA OneOrder ==
  ASSUME NEW bot, NEW o, Fits(bot, o)
  PROVE  DecisionFits(bot, <<o>>)
BY DEF DecisionFits, Fits

LEMMA NoOrder ==
  ASSUME NEW bot
  PROVE  DecisionFits(bot, <<>>)
BY DEF DecisionFits

\* A function from 1..k is a sequence.
LEMMA ManyOrders ==
  ASSUME NEW bot, NEW k \in Nat, NEW f, f = [n \in 1..k |-> f[n]],
         \A n \in 1..k : Fits(bot, f[n])
  PROVE  DecisionFits(bot, f)
<1>1. f \in [1..k -> Order]
  BY DEF Fits
<1>2. f \in Seq(Order)
  BY <1>1, SeqDef
<1>3. DOMAIN f = 1..k
  BY <1>1
<1> QED BY <1>2, <1>3 DEF DecisionFits

\* The offset of the n-th order of a neutral grid, a level for each two.
Offset(n) == NeutralSpacing * ((n + 1) \div 2)

\* The n-th order of a neutral grid.
LEMMA NeutralRung ==
  ASSUME NEW bot \in Bot, NEW snapshot \in Snapshot,
         NEW n \in 1..(2 * NeutralLevels(bot))
  PROVE  /\ neutral_contract_grid(bot, snapshot)[n] =
              IF n % 2 = 1
                THEN LimitOrder(bot, "BUY", per_order(bot, NeutralLevels(bot)),
                                snapshot.mark_price, - Offset(n))
                ELSE LimitOrder(bot, "SELL", per_order(bot, NeutralLevels(bot)),
                                snapshot.mark_price, Offset(n))
         /\ Offset(n) \in NeutralSpacing..(NeutralSpacing * NeutralLevels(bot))
<1>1. NeutralLevels(bot) \in Nat /\ NeutralLevels(bot) >= 2
  BY BotColumns DEF NeutralLevels, Greater
<1>2. (n + 1) \div 2 \in 1..NeutralLevels(bot)
  BY <1>1
<1>3. Offset(n) \in NeutralSpacing..(NeutralSpacing * NeutralLevels(bot))
  BY <1>1, <1>2 DEF Offset, NeutralSpacing
<1>4. neutral_contract_grid(bot, snapshot)[n] =
        IF n % 2 = 1
          THEN LimitOrder(bot, "BUY", per_order(bot, NeutralLevels(bot)),
                          snapshot.mark_price, - Offset(n))
          ELSE LimitOrder(bot, "SELL", per_order(bot, NeutralLevels(bot)),
                          snapshot.mark_price, Offset(n))
  BY DEF neutral_contract_grid, Offset
<1> QED BY <1>3, <1>4

\* Both grids fit.
LEMMA NeutralFits ==
  ASSUME NEW bot \in Bot, NEW snapshot \in Snapshot
  PROVE  DecisionFits(bot, neutral_contract_grid(bot, snapshot))
<1> DEFINE k == 2 * NeutralLevels(bot)
           f == neutral_contract_grid(bot, snapshot)
           share == per_order(bot, NeutralLevels(bot))
<1>1. NeutralLevels(bot) \in Nat \ {0} /\ k \in Nat
  BY BotColumns DEF NeutralLevels, Greater
<1>2. share \in Nat /\ share <= bot.max_position /\ share <= bot.risk_per_tick
  BY <1>1, ShareFits
<1>3. snapshot.mark_price \in Nat \ {0}
  BY DEF Snapshot
<1>4. ASSUME NEW n \in 1..k
      PROVE  Fits(bot, f[n])
  <2>1. /\ f[n] = IF n % 2 = 1
                    THEN LimitOrder(bot, "BUY", share, snapshot.mark_price, - Offset(n))
                    ELSE LimitOrder(bot, "SELL", share, snapshot.mark_price, Offset(n))
        /\ Offset(n) \in Int /\ - Offset(n) \in Int
    BY <1>1, NeutralRung DEF NeutralSpacing
  <2> HIDE DEF f, share
  <2>2. /\ Fits(bot, LimitOrder(bot, "BUY", share, snapshot.mark_price, - Offset(n)))
        /\ Fits(bot, LimitOrder(bot, "SELL", share, snapshot.mark_price, Offset(n)))
    BY <1>2, <1>3, <2>1, LimitFits
  <2> QED BY <2>1, <2>2
<1>5. f = [n \in 1..k |-> f[n]]
  BY DEF neutral_contract_grid
<1> HIDE DEF f, k
<1>6. DecisionFits(bot, f)
  BY <1>1, <1>4, <1>5, ManyOrders
<1> QED BY <1>6 DEF f

LEMMA SpotFits ==
  ASSUME NEW bot \in Bot, NEW snapshot \in Snapshot
  PROVE  DecisionFits(bot, conservative_spot_grid(bot, snapshot))
<1> DEFINE f == conservative_spot_grid(bot, snapshot)
           share == per_order(bot, SpotLevels)
<1>1. SpotLevels \in Nat \ {0}
  BY DEF SpotLevels
<1>2. share \in Nat /\ share <= bot.max_position /\ share <= bot.risk_per_tick
  BY <1>1, ShareFits
<1>3. snapshot.mark_price \in Nat \ {0}
  BY DEF Snapshot
<1>4. ASSUME NEW n \in 1..SpotLevels
      PROVE  Fits(bot, f[n])
  <2>1. f[n] = LimitOrder(bot, "BUY", share, snapshot.mark_price, - (SpotSpacing * n))
    BY DEF conservative_spot_grid
  <2>2. - (SpotSpacing * n) \in Int
    BY <1>1 DEF SpotSpacing
  <2> HIDE DEF f, share
  <2> QED BY <1>2, <1>3, <2>1, <2>2, LimitFits
<1>5. f = [n \in 1..SpotLevels |-> f[n]]
  BY DEF conservative_spot_grid
<1> HIDE DEF f
<1>6. DecisionFits(bot, f)
  BY <1>1, <1>4, <1>5, ManyOrders
<1> QED BY <1>6 DEF f

\* Every order of every strategy, for every row and snapshot, has the bot's
\* exchange and is worth no more than the limits of the row.
THEOREM StrategiesFit ==
  ASSUME NEW bot \in Bot, NEW snapshot \in Snapshot
  PROVE  DecisionFits(bot, run_strategy(bot, snapshot))
<1>1. snapshot.mark_price \in Nat \ {0}
  BY DEF Snapshot
<1>2. \A side \in {"BUY", "SELL"} :
        Fits(bot, MarketOrder(bot, side, PerTick(bot), snapshot.mark_price))
  BY <1>1, PerTickFits, MarketFits
<1>3. CASE bot.type = "FUNDING_ARBITRAGE"
  <2>1. \/ funding_arbitrage(bot, snapshot) = <<>>
        \/ \E side \in {"BUY", "SELL"} : funding_arbitrage(bot, snapshot) =
             <<MarketOrder(bot, side, PerTick(bot), snapshot.mark_price)>>
    BY DEF funding_arbitrage
  <2>2. run_strategy(bot, snapshot) = funding_arbitrage(bot, snapshot)
    BY <1>3 DEF run_strategy
  <2> QED BY <1>2, <2>1, <2>2, OneOrder, NoOrder
<1>4. CASE bot.type = "NEUTRAL_CONTRACT_GRID"
  BY <1>4, NeutralFits DEF run_strategy
<1>5. CASE bot.type = "DCA"
  <2>1. run_strategy(bot, snapshot) =
          <<MarketOrder(bot, "BUY", PerTick(bot), snapshot.mark_price)>>
    BY <1>5 DEF run_strategy, dca
  <2> QED BY <1>2, <2>1, OneOrder
<1>6. CASE bot.type = "CONSERVATIVE_SPOT_GRID"
  BY <1>6, SpotFits DEF run_strategy
<1>7. CASE bot.type = "MARTINGALE"
  <2>1. run_strategy(bot, snapshot) =
          <<MarketOrder(bot, "BUY", Lesser(bot.risk_per_tick * Doubling[0 + 1],
                                           bot.max_position),
                        snapshot.mark_price)>>
    BY <1>7 DEF run_strategy, martingale, Doubling
  <2>2. Lesser(bot.risk_per_tick * Doubling[0 + 1], bot.max_position) = PerTick(bot)
    BY BotColumns DEF Doubling, PerTick
  <2> QED BY <1>2, <2>1, <2>2, OneOrder
<1> QED BY <1>3, <1>4, <1>5, <1>6, <1>7, BotColumns DEF BotTypes

-----------------------------------------------------------------------------
(* The rungs of a grid.                                                    *)

\* A price for each rung, buys below and sells above the mark.
Apart(orders, mark) ==
  /\ \A m, n \in DOMAIN orders :
       orders[m].side = orders[n].side /\ orders[m].price = orders[n].price
         => m = n
  /\ \A n \in DOMAIN orders :
       orders[n].type = "LIMIT" =>
         /\ orders[n].side = "BUY" =>
              0 < orders[n].price /\ orders[n].price < mark
         /\ orders[n].side = "SELL" => mark < orders[n].price

\* The price of an offset of the whole mark is nothing.
LEMMA PriceAtNothing ==
  ASSUME NEW mark \in Nat
  PROVE  PriceAt(mark, - Whole) = 0
<1>1. mark * (Whole + (- Whole)) = 0
  BY DEF Whole
<1>2. Nearest(0, Whole) = 0
  BY DEF Nearest, Whole
<1> QED BY <1>1, <1>2 DEF PriceAt

\* Where a rung may be.
LEMMA RungInRange ==
  ASSUME NEW mark \in Nat, NEW s \in Nat, s * mark >= Whole,
         NEW x \in Int, s <= x
  PROVE  /\ mark < PriceAt(mark, x)
         /\ PriceAt(mark, - x) < mark
         /\ x + s <= Whole => 0 < PriceAt(mark, - x)
<1>0. Whole \in Nat
  BY DEF Whole
<1>1. PriceAt(mark, 0) < PriceAt(mark, x)
  BY PricesApart
<1>2. PriceAt(mark, - x) < PriceAt(mark, 0)
  <2>1. - x \in Int /\ 0 \in Int /\ (- x) + s <= 0
    OBVIOUS
  <2> QED BY <2>1, PricesApart
<1>3. ASSUME x + s <= Whole
      PROVE  PriceAt(mark, - Whole) < PriceAt(mark, - x)
  <2>1. - x \in Int /\ - Whole \in Int /\ (- Whole) + s <= - x
    BY <1>0, <1>3
  <2> QED BY <2>1, PricesApart
<1> QED BY <1>1, <1>2, <1>3, PriceAtMark, PriceAtNothing

\* The columns of a rung.
LEMMA RungColumns ==
  ASSUME NEW bot, NEW side, NEW n, NEW mark, NEW offset
  PROVE  /\ LimitOrder(bot, side, n, mark, offset).side = side
         /\ LimitOrder(bot, side, n, mark, offset).type = "LIMIT"
         /\ LimitOrder(bot, side, n, mark, offset).price = PriceAt(mark, offset)
BY DEF LimitOrder

\* The neutral grid: levels are NeutralSpacing apart, on both sides.
LEMMA NeutralApart ==
  ASSUME NEW bot \in Bot, NEW snapshot \in Snapshot,
         NeutralSpacing * snapshot.mark_price >= Whole,
         NeutralSpacing * (NeutralLevels(bot) + 1) <= Whole
  PROVE  Apart(neutral_contract_grid(bot, snapshot), snapshot.mark_price)
<1> DEFINE f == neutral_contract_grid(bot, snapshot)
           k == 2 * NeutralLevels(bot)
           mark == snapshot.mark_price
           s == NeutralSpacing
<1>1. /\ NeutralLevels(bot) \in Nat /\ k \in Nat /\ mark \in Nat /\ s \in Nat
      /\ s * mark >= Whole
  BY BotColumns DEF NeutralLevels, Greater, Snapshot, NeutralSpacing
<1>2. DOMAIN f = 1..k
  BY DEF neutral_contract_grid
<1>3. ASSUME NEW n \in 1..k
      PROVE  /\ Offset(n) \in Int /\ s <= Offset(n) /\ Offset(n) + s <= Whole
             /\ f[n].type = "LIMIT"
             /\ n % 2 = 1 => /\ f[n].side = "BUY"
                             /\ f[n].price = PriceAt(mark, - Offset(n))
             /\ n % 2 # 1 => /\ f[n].side = "SELL"
                             /\ f[n].price = PriceAt(mark, Offset(n))
  <2>1. Offset(n) \in s..(s * NeutralLevels(bot))
    BY NeutralRung
  <2>2. Offset(n) \in Int /\ s <= Offset(n) /\ Offset(n) + s <= Whole
    BY <1>1, <2>1 DEF Whole, NeutralSpacing
  <2> QED BY <2>2, NeutralRung, RungColumns
<1>4. ASSUME NEW n \in 1..k
      PROVE  /\ f[n].side = "BUY" => 0 < f[n].price /\ f[n].price < mark
             /\ f[n].side = "SELL" => mark < f[n].price
  <2> HIDE DEF f, s, mark
  <2> QED BY <1>1, <1>3, RungInRange
<1>5. ASSUME NEW m \in 1..k, NEW n \in 1..k, m < n, m % 2 = n % 2
      PROVE  f[m].price # f[n].price
  <2>1. m \in Int /\ n \in Int
    OBVIOUS
  <2>2. (m + 1) \div 2 + 1 <= (n + 1) \div 2
    BY <1>5, <2>1
  <2>3. Offset(m) + s <= Offset(n)
    BY <2>1, <2>2 DEF Offset, NeutralSpacing
  <2>4. - Offset(n) \in Int /\ - Offset(m) \in Int /\ (- Offset(n)) + s <= - Offset(m)
    BY <1>1, <1>3, <2>3
  <2> HIDE DEF f, s, mark
  <2>5. PriceAt(mark, Offset(m)) < PriceAt(mark, Offset(n))
    BY <1>1, <1>3, <2>3, PricesApart
  <2>6. PriceAt(mark, - Offset(n)) < PriceAt(mark, - Offset(m))
    BY <1>1, <2>4, PricesApart
  <2>7. PriceAt(mark, Offset(m)) # PriceAt(mark, Offset(n))
    BY <1>1, <1>3, <2>5, PriceInt
  <2>8. PriceAt(mark, - Offset(m)) # PriceAt(mark, - Offset(n))
    BY <1>1, <2>4, <2>6, PriceInt
  <2>9. CASE m % 2 = 1
    BY <1>3, <1>5, <2>8, <2>9
  <2>10. CASE m % 2 # 1
    BY <1>3, <1>5, <2>7, <2>10
  <2> QED BY <2>9, <2>10
<1>6. ASSUME NEW m \in 1..k, NEW n \in 1..k,
             f[m].side = f[n].side, f[m].price = f[n].price
      PROVE  m = n
  <2>1. m \in Int /\ n \in Int
    BY <1>1
  <2>2. m % 2 = n % 2
    <3>1. m % 2 \in {0, 1} /\ n % 2 \in {0, 1}
      BY <2>1
    <3> QED BY <1>3, <1>6, <3>1
  <2>3. ~(m < n) /\ ~(n < m)
    BY <1>5, <1>6, <2>2
  <2> QED BY <2>1, <2>3
<1> HIDE DEF f, k, mark
<1>7. Apart(f, mark)
  BY <1>2, <1>4, <1>6 DEF Apart
<1> QED BY <1>7 DEF f, mark

\* The spot grid: five levels, SpotSpacing apart, below the mark.
LEMMA SpotApart ==
  ASSUME NEW bot \in Bot, NEW snapshot \in Snapshot,
         NeutralSpacing * snapshot.mark_price >= Whole
  PROVE  Apart(conservative_spot_grid(bot, snapshot), snapshot.mark_price)
<1> DEFINE f == conservative_spot_grid(bot, snapshot)
           mark == snapshot.mark_price
           s == SpotSpacing
<1>1. mark \in Nat /\ s \in Nat /\ s * mark >= Whole
  BY DEF Snapshot, NeutralSpacing, SpotSpacing, Whole
<1>2. DOMAIN f = 1..5
  BY DEF conservative_spot_grid, SpotLevels
<1>3. ASSUME NEW n \in 1..5
      PROVE  /\ f[n].type = "LIMIT" /\ f[n].side = "BUY"
             /\ f[n].price = PriceAt(mark, - (s * n))
             /\ s * n \in Int /\ - (s * n) \in Int
             /\ s <= s * n /\ s * n + s <= Whole
  <2>1. f[n] = LimitOrder(bot, "BUY", per_order(bot, SpotLevels), mark, - (s * n))
    BY DEF conservative_spot_grid, SpotLevels
  <2>2. /\ s * n \in Int /\ - (s * n) \in Int
        /\ s <= s * n /\ s * n + s <= Whole
    BY DEF SpotSpacing, Whole
  <2> HIDE DEF f, s, mark
  <2> QED BY <2>1, <2>2, RungColumns
<1>4. ASSUME NEW n \in 1..5
      PROVE  0 < f[n].price /\ f[n].price < mark
  <2>1. /\ s * n \in Int /\ s <= s * n /\ s * n + s <= Whole
        /\ f[n].price = PriceAt(mark, - (s * n))
    BY <1>3
  <2> DEFINE x == s * n
  <2> HIDE DEF f, s, mark, x
  <2>2. x \in Int /\ s <= x /\ x + s <= Whole /\ f[n].price = PriceAt(mark, - x)
    BY <2>1 DEF x
  <2> QED BY <1>1, <2>2, RungInRange
<1>5. ASSUME NEW m \in 1..5, NEW n \in 1..5, m < n
      PROVE  f[m].price # f[n].price
  <2> DEFINE x == - (s * m)
             y == - (s * n)
  <2>1. x \in Int /\ y \in Int /\ y + s <= x
    BY <1>5 DEF SpotSpacing
  <2>2. f[m].price = PriceAt(mark, x) /\ f[n].price = PriceAt(mark, y)
    BY <1>3
  <2> HIDE DEF f, s, mark, x, y
  <2>3. PriceAt(mark, y) < PriceAt(mark, x)
    BY <1>1, <2>1, PricesApart
  <2>4. PriceAt(mark, x) \in Int /\ PriceAt(mark, y) \in Int
    BY <1>1, <2>1, PriceInt
  <2> QED BY <2>2, <2>3, <2>4
<1>6. \A m, n \in 1..5 : f[m].price = f[n].price => m = n
  <2> SUFFICES ASSUME NEW m \in 1..5, NEW n \in 1..5, f[m].price = f[n].price
               PROVE  m = n
    OBVIOUS
  <2>1. m \in Int /\ n \in Int
    OBVIOUS
  <2>2. ~(m < n) /\ ~(n < m)
    BY <1>5
  <2> QED BY <2>1, <2>2
<1>7. \A n \in 1..5 : f[n].side # "SELL"
  BY <1>3
<1> HIDE DEF f, mark
<1>8. Apart(f, mark)
  BY <1>2, <1>4, <1>6, <1>7 DEF Apart
<1> QED BY <1>8 DEF f, mark

\* A decision of one order at the market has nothing to keep apart.
LEMMA OneApart ==
  ASSUME NEW bot, NEW side, NEW n, NEW mark
  PROVE  Apart(<<MarketOrder(bot, side, n, mark)>>, mark)
<1> DEFINE o == MarketOrder(bot, side, n, mark)
<1>1. o.type = "MARKET"
  BY DEF MarketOrder
<1> HIDE DEF o
<1>2. DOMAIN <<o>> = {1} /\ <<o>>[1] = o
  OBVIOUS
<1>3. Apart(<<o>>, mark)
  BY <1>1, <1>2 DEF Apart
<1> QED BY <1>3 DEF o

LEMMA NoneApart ==
  ASSUME NEW mark
  PROVE  Apart(<<>>, mark)
BY DEF Apart

\* The orders of every decision are orders of their own, buys below and
\* sells above the mark, when a rung is a tick or more from the next and the
\* lowest one above zero.
THEOREM StrategiesApart ==
  ASSUME NEW bot \in Bot, NEW snapshot \in Snapshot,
         NeutralSpacing * snapshot.mark_price >= Whole,
         NeutralSpacing * (NeutralLevels(bot) + 1) <= Whole
  PROVE  Apart(run_strategy(bot, snapshot), snapshot.mark_price)
<1>1. CASE bot.type = "FUNDING_ARBITRAGE"
  <2>1. \/ funding_arbitrage(bot, snapshot) = <<>>
        \/ \E side \in {"BUY", "SELL"} : funding_arbitrage(bot, snapshot) =
             <<MarketOrder(bot, side, PerTick(bot), snapshot.mark_price)>>
    BY DEF funding_arbitrage
  <2>2. run_strategy(bot, snapshot) = funding_arbitrage(bot, snapshot)
    BY <1>1 DEF run_strategy
  <2> QED BY <2>1, <2>2, OneApart, NoneApart
<1>2. CASE bot.type = "NEUTRAL_CONTRACT_GRID"
  BY <1>2, NeutralApart DEF run_strategy
<1>3. CASE bot.type = "DCA"
  BY <1>3, OneApart DEF run_strategy, dca
<1>4. CASE bot.type = "CONSERVATIVE_SPOT_GRID"
  BY <1>4, SpotApart DEF run_strategy
<1>5. CASE bot.type = "MARTINGALE"
  <2>1. run_strategy(bot, snapshot) =
          <<MarketOrder(bot, "BUY", Lesser(bot.risk_per_tick * Doubling[0 + 1],
                                           bot.max_position),
                        snapshot.mark_price)>>
    BY <1>5 DEF run_strategy, martingale, Doubling
  <2> QED BY <2>1, OneApart
<1> QED BY <1>1, <1>2, <1>3, <1>4, <1>5, BotColumns DEF BotTypes

-----------------------------------------------------------------------------
(* The two sides of a decision.                                            *)

\* What a decision has on one side is n orders at most, of v each, and n
\* times v is within the position limit.
Shared(bot, orders, side) ==
  \E n \in Nat, v \in Nat :
    /\ n * v <= bot.max_position
    /\ \E e \in [1..n -> Order] :
         \A m \in DOMAIN orders :
           orders[m].side = side =>
             orders[m].notional = v /\ \E i \in 1..n : orders[m] = e[i]

\* What the witnesses of Shared have to be.
LEMMA SharedBy ==
  ASSUME NEW bot, NEW orders, NEW side, NEW n \in Nat, NEW v \in Nat,
         NEW x, x = n * v, x <= bot.max_position,
         NEW e \in [1..n -> Order],
         \A m \in DOMAIN orders :
           orders[m].side = side =>
             orders[m].notional = v /\ \E i \in 1..n : orders[m] = e[i]
  PROVE  Shared(bot, orders, side)
BY DEF Shared

\* A decision of no order, and of one within the limits.
LEMMA NoneShared ==
  ASSUME NEW bot \in Bot, NEW side
  PROVE  Shared(bot, <<>>, side)
<1>1. 0 \in Nat /\ 0 = 0 * 0 /\ 0 <= bot.max_position
  BY BotColumns
<1>2. \E e : e \in [1..0 -> Order]
  <2>1. [i \in 1..0 |-> CHOOSE o : o \in Order] \in [1..0 -> Order]
    OBVIOUS
  <2> QED BY <2>1
<1>3. \A m \in DOMAIN <<>> : FALSE
  OBVIOUS
<1> QED BY <1>1, <1>2, <1>3, SharedBy, Zenon

LEMMA OneShared ==
  ASSUME NEW bot \in Bot, NEW side, NEW o, Fits(bot, o)
  PROVE  Shared(bot, <<o>>, side)
<1>1. o \in Order /\ o.notional \in Nat /\ o.notional <= bot.max_position
  BY DEF Fits, Order
<1>2. PICK n \in Nat : n = 1
  OBVIOUS
<1>3. o.notional = n * o.notional
  BY <1>1, <1>2
<1> DEFINE e == [i \in 1..n |-> o]
<1>4. e \in [1..n -> Order] /\ 1 \in 1..n /\ e[1] = o
  BY <1>1, <1>2
<1>5. \A m \in DOMAIN <<o>> : <<o>>[m] = o
  OBVIOUS
<1> HIDE DEF e
<1> DEFINE orders == <<o>>
<1>6. \A m \in DOMAIN orders :
        orders[m].side = side =>
          orders[m].notional = o.notional /\ \E i \in 1..n : orders[m] = e[i]
  BY <1>4, <1>5
<1> HIDE DEF orders
<1>7. Shared(bot, orders, side)
  BY SMTT(30), <1>1, <1>3, <1>4, <1>6, SharedBy
<1> QED BY <1>7 DEF orders

\* The n-th buy and the n-th sell of the neutral grid, and the spot grid.
LEMMA NeutralShared ==
  ASSUME NEW bot \in Bot, NEW snapshot \in Snapshot, NEW side \in {"BUY", "SELL"}
  PROVE  Shared(bot, neutral_contract_grid(bot, snapshot), side)
<1> DEFINE f == neutral_contract_grid(bot, snapshot)
           n == NeutralLevels(bot)
           share == per_order(bot, n)
           place(i) == IF side = "BUY" THEN 2 * i - 1 ELSE 2 * i
           e == [i \in 1..n |-> f[place(i)]]
<1>1. n \in Nat \ {0}
  BY BotColumns DEF NeutralLevels, Greater
<1>2. share \in Nat /\ n * share <= bot.max_position
  BY <1>1, ShareFits
<1>3. DecisionFits(bot, f) /\ DOMAIN f = 1..(2 * n)
  BY NeutralFits DEF neutral_contract_grid
<1>4. ASSUME NEW m \in 1..(2 * n)
      PROVE  /\ f[m].notional = share
             /\ f[m].side = IF m % 2 = 1 THEN "BUY" ELSE "SELL"
  <2>1. f[m] = IF m % 2 = 1
                 THEN LimitOrder(bot, "BUY", share, snapshot.mark_price, - Offset(m))
                 ELSE LimitOrder(bot, "SELL", share, snapshot.mark_price, Offset(m))
    BY NeutralRung
  <2> HIDE DEF f, share
  <2> QED BY <2>1 DEF LimitOrder
<1>5. \A i \in 1..n : place(i) \in 1..(2 * n)
  BY <1>1
<1>6. ASSUME NEW m \in 1..(2 * n), f[m].side = side
      PROVE  \E i \in 1..n : m = place(i)
  <2>1. CASE m % 2 = 1
    <3>1. side = "BUY" /\ (m + 1) \div 2 \in 1..n /\ m = 2 * ((m + 1) \div 2) - 1
      BY <1>1, <1>4, <1>6, <2>1
    <3> QED BY <3>1
  <2>2. CASE m % 2 # 1
    <3>1. side = "SELL" /\ m \div 2 \in 1..n /\ m = 2 * (m \div 2)
      BY <1>1, <1>4, <1>6, <2>2
    <3> QED BY <3>1
  <2> QED BY <2>1, <2>2
<1> HIDE DEF f, n, share, place
<1>7. e \in [1..n -> Order]
  BY <1>3, <1>5 DEF DecisionFits, Fits
<1>8. \A m \in DOMAIN f :
        f[m].side = side =>
          f[m].notional = share /\ \E i \in 1..n : f[m] = e[i]
  BY <1>3, <1>4, <1>6
<1> HIDE DEF e
<1>9. Shared(bot, f, side)
  BY <1>1, <1>2, <1>7, <1>8 DEF Shared
<1> QED BY <1>9 DEF f

LEMMA SpotShared ==
  ASSUME NEW bot \in Bot, NEW snapshot \in Snapshot, NEW side
  PROVE  Shared(bot, conservative_spot_grid(bot, snapshot), side)
<1> DEFINE f == conservative_spot_grid(bot, snapshot)
           share == per_order(bot, SpotLevels)
<1>1. SpotLevels \in Nat \ {0}
  BY DEF SpotLevels
<1>2. share \in Nat /\ SpotLevels * share <= bot.max_position
  BY <1>1, ShareFits
<1>3. DecisionFits(bot, f) /\ DOMAIN f = 1..SpotLevels
  BY SpotFits DEF conservative_spot_grid
<1>4. f \in [1..SpotLevels -> Order]
  BY <1>3 DEF DecisionFits, Fits, conservative_spot_grid
<1>5. \A m \in 1..SpotLevels : f[m].notional = share
  BY DEF conservative_spot_grid, LimitOrder
<1> HIDE DEF f, share
<1>6. Shared(bot, f, side)
  BY <1>1, <1>2, <1>3, <1>4, <1>5 DEF Shared
<1> QED BY <1>6 DEF f

\* A decision of any strategy buys for no more than the position limit, and
\* sells for no more: the levels of a grid share the limit.
THEOREM StrategiesShare ==
  ASSUME NEW bot \in Bot, NEW snapshot \in Snapshot, NEW side \in {"BUY", "SELL"}
  PROVE  Shared(bot, run_strategy(bot, snapshot), side)
<1>0. DecisionFits(bot, run_strategy(bot, snapshot))
  BY StrategiesFit
<1>1. ASSUME NEW o, run_strategy(bot, snapshot) = <<o>>
      PROVE  Shared(bot, run_strategy(bot, snapshot), side)
  <2>1. 1 \in DOMAIN <<o>> /\ <<o>>[1] = o
    OBVIOUS
  <2> QED BY <1>0, <1>1, <2>1, OneShared DEF DecisionFits
<1>2. CASE bot.type = "FUNDING_ARBITRAGE"
  BY <1>1, <1>2, NoneShared DEF run_strategy, funding_arbitrage
<1>3. CASE bot.type = "NEUTRAL_CONTRACT_GRID"
  BY <1>3, NeutralShared DEF run_strategy
<1>4. CASE bot.type = "DCA"
  BY <1>1, <1>4 DEF run_strategy, dca
<1>5. CASE bot.type = "CONSERVATIVE_SPOT_GRID"
  BY <1>5, SpotShared DEF run_strategy
<1>6. CASE bot.type = "MARTINGALE"
  BY <1>1, <1>6 DEF run_strategy, martingale, Doubling
<1> QED BY <1>2, <1>3, <1>4, <1>5, <1>6, BotColumns DEF BotTypes
=============================================================================
