------------------------------ MODULE BotTicks ------------------------------
(***************************************************************************)
(* The ticks of one bot over time: what its orders add up to while its     *)
(* operator edits the row, the exchange fails and the API restarts         *)
(* (api_rc.py, executor_release.py).                                       *)
(*                                                                         *)
(* A tick reads the row, awaits the market snapshot, decides, checks, and  *)
(* handles the orders one by one.  What happens inside the handling of an  *)
(* order is the subject of OrderExecution; here it is one step that ends   *)
(* as OrderLedger promises: an order is at the exchange at most once.  That*)
(* rests on ticks of the bot not overlapping (BotControl!OneTickPerBot) and*)
(* on truthful lookups, and one tick is in service at a time here.  The    *)
(* adapter is one that can place orders (MainnetGate says when it is), and *)
(* nobody cancels an order at the exchange.                                *)
(*                                                                         *)
(* Nothing in an order says which tick it is of.  A tick that decides what *)
(* an earlier one has decided finds its orders in the table.               *)
(***************************************************************************)
EXTENDS Strategies, FiniteSets, FiniteSetsExt

CONSTANTS
  Rows,         \* what the operator writes into the row
  Deployments,  \* the settings and the environment of the process
  Markets,      \* the prices at the exchange, which nothing here reads
  MaxEdits,     \* bound: edits of the row
  MaxRestarts,  \* bound: restarts of the API process
  MaxFaults     \* bound: orders whose handling something fails in

\* keys: the exchanges with testnet keys in the environment.
Deployment == [keys : SUBSET Exchanges, live : BOOLEAN]

ASSUME TicksAssumption ==
  /\ Rows \subseteq Bot
  /\ Deployments \subseteq Deployment
  /\ Markets \subseteq Nat
  /\ {MaxEdits, MaxRestarts, MaxFaults} \subseteq Nat

VARIABLES
  row,         \* the bot in table bots
  deployment,
  tick,        \* the tick in service
  sent,        \* table orders: the keys that are SENT or FILLED
  simulated,   \* those that are ACCEPTED_DRY_RUN
  failed,      \* those that are FAILED
  placed,      \* the orders at the exchange
  edits, restarts, faults,
  \* What the code does not keep, for the properties:
  inForce,     \* the rows that were in force since the tick in service began
  decided      \* the situations the bot has decided on: row and price

vars == <<row, deployment, tick, sent, simulated, failed, placed,
          edits, restarts, faults, inForce, decided>>

table == <<sent, simulated, failed>>

\* The idempotency key: a hash of the bot, the exchange and the order.
Keys == [exchange : Exchanges, symbol : Symbols, side : {"BUY", "SELL"},
         type : {"MARKET", "LIMIT"}, price : Int, qty : Nat]

\* What a decision depends on: the row, but for dry_run, and the price.
Situations == [bot : Bot, mark_price : Nat \ {0}]

Idle == [at |-> "idle"]

TickState ==
  {Idle}
  \cup [at : {"snapshot"}, bot : Bot]
  \cup [at : {"orders"}, bot : Bot, mark_price : Nat \ {0}, todo : Seq(Order)]

TypeOK ==
  /\ row \in Bot
  /\ deployment \in Deployment
  /\ tick \in TickState
  /\ sent \subseteq Keys /\ simulated \subseteq Keys /\ failed \subseteq Keys
  /\ placed \subseteq Order
  /\ edits \in 0..MaxEdits /\ restarts \in 0..MaxRestarts
  /\ faults \in 0..MaxFaults
  /\ inForce \subseteq Bot
  /\ decided \subseteq Situations

Init ==
  /\ row \in Rows
  /\ deployment \in Deployments
  /\ tick = Idle
  /\ sent = {} /\ simulated = {} /\ failed = {}
  /\ placed = {}
  /\ edits = 0 /\ restarts = 0 /\ faults = 0
  /\ inForce = {}
  /\ decided = {}

-----------------------------------------------------------------------------
(* Deciding.                                                               *)

Situation(bot, mark) ==
  [bot |-> [bot EXCEPT !.dry_run = FALSE], mark_price |-> mark]

\* _snapshot_for_bot
SnapshotFor(bot) ==
  poll_market_snapshot(bot.exchange \in deployment.keys, bot.symbol)

Decision(bot) == run_strategy(bot, SnapshotFor(bot))

Passes(bot) == pre_trade_risk_check(bot, Decision(bot), deployment.live)

\* The tick is answered, or raises.
EndTick == tick' = Idle /\ inForce' = {}

\* tick() reads the row; its status is not looked at.
BeginTick ==
  /\ tick = Idle
  /\ tick' = [at |-> "snapshot", bot |-> row]
  /\ inForce' = {row}
  /\ UNCHANGED <<row, deployment, table, placed, edits, restarts, faults, decided>>

\* The snapshot has been awaited: the row that was read before decides.
Decide ==
  /\ tick.at = "snapshot"
  /\ LET bot  == tick.bot
         mark == SnapshotFor(bot).mark_price
     IN IF Passes(bot)
          THEN /\ tick' = [at |-> "orders", bot |-> bot, mark_price |-> mark,
                           todo |-> Decision(bot)]
               /\ decided' = decided \cup {Situation(bot, mark)}
               /\ UNCHANGED inForce
          ELSE EndTick /\ UNCHANGED decided
  /\ UNCHANGED <<row, deployment, table, placed, edits, restarts, faults>>

-----------------------------------------------------------------------------
(* The orders of a decision, one after the other.                          *)

\* make_idempotency_key
Key(o) ==
  [exchange |-> o.exchange, symbol |-> o.symbol, side |-> o.side,
   type |-> o.type, price |-> o.price, qty |-> o.qty]

Current == Head(tick.todo)
Handling == tick.at = "orders" /\ tick.todo # <<>>
NextOrder == tick' = [tick EXCEPT !.todo = Tail(tick.todo)]

\* Mutant of Done: a FAILED row counts.
DoneOrFailed(k) == k \in sent \cup simulated \cup failed

\* SKIPPED_DUPLICATE
Done(k) == k \in sent \cup simulated

AtExchange(k) == \E o \in placed : Key(o) = k

Skip ==
  /\ Handling /\ Done(Key(Current))
  /\ NextOrder
  /\ UNCHANGED <<row, deployment, table, placed, edits, restarts, faults,
                 inForce, decided>>

Fault == faults < MaxFaults /\ faults' = faults + 1

\* Every attempt has failed.  The alert about it is outside of the try: one
\* that raises ends the tick, with the orders that are left.
GiveUp ==
  /\ failed' = failed \cup {Key(Current)}
  /\ \/ NextOrder /\ UNCHANGED inForce
     \/ EndTick

\* Mutant of Simulate: the order is stored and not its key.
SimulateUnkeyed ==
  /\ Handling /\ ~Done(Key(Current))
  /\ tick.bot.dry_run
  /\ simulated' = simulated \cup {Current}
  /\ NextOrder
  /\ UNCHANGED <<row, deployment, sent, failed, placed, edits, restarts, faults,
                 inForce, decided>>

\* The dry-run adapter accepts; nobody asks the exchange.  The alert about it
\* is inside the try: when it raises at every attempt, the row ends FAILED.
Simulate ==
  /\ Handling /\ ~Done(Key(Current))
  /\ tick.bot.dry_run
  /\ \/ /\ simulated' = simulated \cup {Key(Current)}
        /\ failed' = failed \ {Key(Current)}
        /\ NextOrder
        /\ UNCHANGED <<faults, inForce>>
     \/ Fault /\ GiveUp /\ UNCHANGED simulated
  /\ UNCHANGED <<row, deployment, sent, placed, edits, restarts, decided>>

\* REMOTE_SYNCED
Sync ==
  /\ Handling /\ ~Done(Key(Current))
  /\ ~tick.bot.dry_run
  /\ AtExchange(Key(Current))
  /\ sent' = sent \cup {Key(Current)}
  /\ failed' = failed \ {Key(Current)}
  /\ NextOrder
  /\ UNCHANGED <<row, deployment, simulated, placed, edits, restarts, faults,
                 inForce, decided>>

\* A live order the exchange does not have.
Sends ==
  /\ Handling /\ ~Done(Key(Current))
  /\ ~tick.bot.dry_run
  /\ ~AtExchange(Key(Current))

\* The exchange takes the order.  When the alert about it raises, the lookup
\* finds the order and the tick goes on, or raises too and the tick ends.
Place ==
  /\ Sends
  /\ placed' = placed \cup {Current}
  /\ sent' = sent \cup {Key(Current)}
  /\ failed' = failed \ {Key(Current)}
  /\ \/ NextOrder /\ UNCHANGED <<faults, inForce>>
     \/ Fault /\ EndTick
  /\ UNCHANGED <<row, deployment, simulated, edits, restarts, decided>>

\* Every attempt was refused, and no lookup found the order.
Refuse ==
  /\ Sends /\ Fault /\ GiveUp
  /\ UNCHANGED <<row, deployment, sent, simulated, placed, edits, restarts,
                 decided>>

\* A lookup raises, before the first attempt or after a refused one.
LookupRaises ==
  /\ Handling /\ ~Done(Key(Current))
  /\ ~tick.bot.dry_run
  /\ Fault
  /\ EndTick
  /\ UNCHANGED <<row, deployment, table, placed, edits, restarts, decided>>

\* The exchange has the order, the answer is lost and the lookup raises: the
\* row stays PENDING or RETRYING and the tick ends.
LoseAnswer ==
  /\ Sends /\ Fault
  /\ placed' = placed \cup {Current}
  /\ EndTick
  /\ UNCHANGED <<row, deployment, table, edits, restarts, decided>>

FinishTick ==
  /\ tick.at = "orders" /\ tick.todo = <<>>
  /\ EndTick
  /\ UNCHANGED <<row, deployment, table, placed, edits, restarts, faults,
                 decided>>

-----------------------------------------------------------------------------
(* The operator.                                                           *)

\* PATCH /v1/bots/{bot_id}
EditBot ==
  /\ edits < MaxEdits /\ edits' = edits + 1
  /\ row' \in Rows \ {row}
  /\ inForce' = IF tick = Idle THEN {} ELSE inForce \cup {row'}
  /\ UNCHANGED <<deployment, tick, table, placed, restarts, faults, decided>>

\* A restart of the API, with the keys and settings of the new process.
Restart ==
  /\ restarts < MaxRestarts /\ restarts' = restarts + 1
  /\ deployment' \in Deployments
  /\ EndTick
  /\ UNCHANGED <<row, table, placed, edits, faults, decided>>

TickStep ==
  \/ Decide \/ FinishTick
  \/ Skip \/ Simulate \/ Sync \/ Place \/ Refuse \/ LookupRaises \/ LoseAnswer

Next == BeginTick \/ TickStep \/ EditBot \/ Restart

Spec == Init /\ [][Next]_vars

\* The worker ticks a running bot again and again (BotControl!TurnForAll), and
\* ticks go on and end (OrderExecution!TickTerminates): both for as long as
\* no alert is left waiting by the mail server, which stops the process.
Fairness == WF_vars(BeginTick) /\ WF_vars(TickStep)

FairSpec == Spec /\ Fairness

-----------------------------------------------------------------------------
(* Properties.                                                             *)

\* The limits of a bot bound a decision and not its position, and a tick is
\* the same as any other: yet what the bot buys, or sells, over all its
\* ticks is within its position limit, added up over the different
\* situations it has decided in.  A tick repeated, after a restart, a lost
\* answer, a failure, or after an edit that was taken back, adds nothing
\* (executor_release.py 38-44, strategies.py 77-105).  The money is the
\* notional_usdt of the order, which is what the limits are compared with:
\* qty x price may be more, of the sell rungs of a grid and at any price of
\* the exchange that is not the snapshot's.
ExposureBounded ==
  \A side \in {"BUY", "SELL"} :
    MapThenSumSet(LAMBDA o : o.notional, {o \in placed : o.side = side})
      <= MapThenSumSet(LAMBDA s : s.bot.max_position, decided)

\* An order that reaches the exchange is within the limits, and under the
\* live switch, of a row that was in force while its tick was in service: an
\* edit is overtaken by the tick it meets and by no later one
\* (api_rc.py 125-130).  The money is again the order's notional_usdt.
LimitsInForce ==
  [][\A o \in placed' \ placed :
       /\ deployment.live
       /\ o.notional <= GlobalMax
       /\ \E bot \in inForce :
            /\ ~bot.dry_run /\ bot.exchange = o.exchange
            /\ o.notional <= bot.max_position
            /\ o.notional <= bot.risk_per_tick]_vars

\* A rung is a tick or more from the next, and the lowest a rung above zero.
Spacious(s) ==
  /\ NeutralSpacing * s.mark_price >= Whole
  /\ NeutralSpacing * (NeutralLevels(s.bot) + 1) <= Whole

\* The rungs of a grid that was decided on are orders of their own, with
\* buys below and sells above the mark: rounding does not make two of them
\* one order, whose second half the executor would skip as a duplicate.
\* (For a grid with room: grid_levels has no upper bound, and from 286 levels
\* on the lowest buy has a price below zero that no check looks at.)
\* (strategies.py 82-83 and 103.)
RungsApart ==
  \A s \in decided :
    LET orders == run_strategy(s.bot, [mark_price   |-> s.mark_price,
                                       funding_rate |-> 0])
    IN Spacious(s) =>
         /\ \A m, n \in DOMAIN orders : Key(orders[m]) = Key(orders[n]) => m = n
         /\ \A n \in DOMAIN orders :
              orders[n].type = "LIMIT" =>
                /\ orders[n].side = "BUY" =>
                     0 < orders[n].price /\ orders[n].price < s.mark_price
                /\ orders[n].side = "SELL" => s.mark_price < orders[n].price

\* When edits, restarts and failures have come to an end, every order of the
\* decision that the bot then takes is settled: what an earlier tick left
\* refused, unknown or cut off by a restart, a later one completes.
DecisionSettles ==
  <>[](Passes(row) =>
         \A n \in DOMAIN Decision(row) :
           Key(Decision(row)[n]) \in sent \cup simulated)

\* A live tick trades on a price the market had
\* (BINANCE_TESTNET_LIVE_ADAPTER_CN.md 13 and 80).
LiveOnMarket ==
  tick.at = "orders" /\ ~tick.bot.dry_run => tick.mark_price \in Markets
=============================================================================
