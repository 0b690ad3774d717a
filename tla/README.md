# TradeNodeX AAT in TLA+

A verification project for the `tradenodex_aat` package: a FastAPI service that
runs trading bots and copies signals to an exchange account, with a worker process
that drives the bots. The modules are translated from the code under
`src/src/tradenodex_aat`; `PROJECT.json` maps every definition to the lines it
stands for. File names below are relative to that directory, `docs/` to `src/`.

What the project is about is money going out twice, or without a trace: the code
sends orders to an exchange whose answers may be lost, from handlers that
interleave at every `await`, with a SQLite table as its only memory.

## The system

| Part | State | Operations | Talks to |
|---|---|---|---|
| Bots and their API (`api_rc.py`, `db.py`) | table `bots` | create, patch, start/pause/stop, tick | market snapshots, strategies, release executor |
| Worker (`worker.py`, a process of its own) | a tick counter | per round: read the dashboard, tick the RUNNING bots in order, poll snapshots, reconcile every n-th round | the API over HTTP, 30 s timeout |
| Strategies and risk check (`strategies.py`, `risk.py`) | none | five pure strategies, one check per order | called by a tick |
| Release executor (`executor_release.py`) | table `orders` | one decision: register, look up, send, retry, settle, alert | adapters, alerts |
| Copy engine (`copy_engine.py`) | semaphore, tasks | one signal: check, register, send, settle, account, alert, broadcast | signal bus, account controls, adapters, alerts |
| Signal bus (`signal_bus.py`, `copy_api.py`) | queue, WebSocket clients, tables `signal_events` and `execution_events` | publish, broadcast, connect, disconnect | copy engine |
| Account controls (`account_controls.py`) | tables `account_risk_budgets` and `account_runtime_metrics`, buckets and failures in memory | `account_can_execute`, `record_account_execution`, set budget | called by the copy engine and the gate |
| Adapters and mainnet gate (`adapters.py`, `controlled_mainnet.py`, `mainnet_gate.py`, `settings.py`, `credentials.py`) | none | `build_adapter`, place, look up, fetch | the exchange through ccxt |
| Reconciliation (`reconciliation.py`) | tables `positions`, `open_orders`, `balances` | upsert what the exchange reports, account by account | adapters |
| Market snapshots, alerts | table `market_snapshots` | poll with a fixed fall-back; webhook, Telegram, mail | the network |

`executor.py`, `executor_live.py`, `executor_rc.py` and `api_v2.py` are earlier
releases that `main.py` does not load.

Concurrency. The API is one asyncio process: `async def` handlers and the copy
tasks interleave at awaits, and `def` handlers (bot patches, start, stop) run in a
thread pool beside them. Nothing keeps two ticks of one bot apart. The worker is a
second process that may give up on a request which the API goes on serving. A
restart of the API loses the queue, the tasks, the buckets and the failures, and
keeps the tables and whatever the exchange has.

### What makes each part correct

- *Release executor*: an order takes effect at most once over attempts, ticks and
  restarts; the table never claims what the exchange does not have, and never
  lacks what it has; every tick ends and settles what it began, unless an alert is
  left waiting by the mail server.
- *Copy engine and signal bus*: no signal is lost without a trace, none is
  executed more often than it was published, permits are not lost (but for the
  same mail server).
- *Account controls*: the rate limit bounds every stretch of time; concurrent
  executions pass the daily budget by no more than what is in flight and what
  negative notionals took off the counter; an open breaker is not closed early,
  and is closed a pause after the last failure or refusal.
- *Bots and worker*: a patch, a stop among them, is in force when it returns,
  unless another overlapped it; a stopped bot trades no more after the round in
  service, every running bot has its turn.
- *Gate*: mainnet keys only for a bot that is not dry whose account is behind the
  gate, and never for a copied signal.
- *Reconciliation*: after a complete pass the tables are what the exchange
  reported; one account does not keep the others from theirs.
- *Strategies and risk*: every order is within the limits of its bot, and what a
  bot buys over all its ticks is no more than what it decided on; an edited limit
  holds from the next tick on; a grid has as many orders as rungs; a decision is
  settled in the end, however often a tick is repeated.

`PROJECT.json` lists under `hazards` where each of these may break, at its line.

## Modules

### OrderExecution — the release executor

One bot, its rows in `orders`, the exchange, and the tick requests in service.
`tick[t]` is the program counter of `execute_strategy_orders_release`: the orders
left, the adapter, the attempt and the exchange's answer. An action is the code
between two awaits: `TakeOrder` is `insert_order` and the duplicate check (lines
36-44), `Lookup` and `RemoteSynced` the lookups of lines 46 and 65,
`PlaceLive`/`ExchangeHandles`/`PlaceSucceeds`/`PlaceFails` the attempt of line 54
with its request and answer apart, `GiveUpAttempt`, `MarkFailure` and `Retry`
lines 62-73, `Notify` and `Alarm` the two alerts, of which the first is inside the
`try` and the second is not. A key stands for an order together with its
idempotency key and client order id, which are functions of the bot and the order.
Constants say how the environment may misbehave: lookups whose errors are
swallowed (`fetch_order_by_client_id` turns them into `None`) or raised, alerts
that raise, a mail server that never answers, requests that arrive after their
sender gave up, a restart, an operator who patches `dry_run`.

The mail of an alert is sent inside the event loop by an `smtplib.SMTP` without a
timeout (`alerts.py` 45). A tick whose mail is not answered enters the phase
`mail`, out of which only a restart takes it, and for as long as one is there
(`Blocked`) no other step of the process happens; ccxt's requests run in threads
and go on (`LoopStep` against `TickStep`).

**OrderLedger** is the abstract promise: registered, takes effect at most once,
settled only after it took effect and for good, given up only without effect.
`KeepsLedger` maps the row's status to the ledger's intent and the exchange's
count to the effect.

### AccountControls — budgets of one account

Time is a natural number of beats; `Minute`, `Window` and `Day` say how many beats
make a minute, the failure window and a day. Tokens are counted in units of
1/`Minute`, which makes the refill of a rate per minute exact where the code uses
floats. Notionals and every number of a budget are integers of either sign, since
nothing checks the sign; infinities and NaN, which a JSON body can carry, are left
out. `bucket`, `failures`, `metrics` and `budget` are the code's; `slot` holds the
executions of the copy engine between their admission and their end; `since`,
`placed`, `lowered`, `today`, `refuseTo` and `erred` are what the code does not
count and the properties need (`lowered` is what negative notionals took off the
daily counter). `Admit` is lines 60-77 of `copy_engine.py`, `Succeed`, `Fail` and
`BroadcastRaises` the three ways `place_order` and the broadcast after it end,
with the call of `record_account_execution` each of them makes, `Refuse` and
`Throttle` the refusals, which are recorded as failures.

### CopyEngine — signal bus and copy worker

Publishers (HTTP or WebSocket) put signals on the bounded queue, write the row and
broadcast; the worker turns each queued signal into a task; tasks take a permit in
order, check, register, place and announce. The failures are the code's own: a
broadcast raises when the set of clients changes while it iterates, a set-up error
outside the `try` ends the task silently, an alert that raises skips what comes
after it, and one that the mail server leaves waiting stops every task of the
process (`Hangs`, `Blocked`). A request whose sender failed or was cut off by a
restart is in `late`, and may reach the exchange at any later time or never
(`LateArrival`). The model does not tell a lost request from one that was refused
or never sent, so it lets more arrive than the code does, and the properties hold
of that too. `persisted`, `orders` and `events` are the tables. The numbers of the
account controls are left out: a check accepts or refuses. An account in dry run
behaves like a live one that never loses an answer and places nothing, and is left
out.

### BotControl — bots and the worker that ticks them

`row` is the table `bots` (the status, reduced to running or not, and `dry_run`);
`writer[w]` is an `update_bot` between its SELECT and its UPDATE, which run in
threads and overlap. A patch is a dict that may name any of the columns, `id` too:
`WriteRow` writes the row of the id that comes out of the merge, or none
(`Nobody`), as the UPDATE's `WHERE id=:id` does; `tick[t]` is a tick request the
API serves; `worker` is `run_once`: where it is, the places of the fleet it still
has to serve and its counter modulo `RECONCILE_EVERY_TICKS`. `ReadDashboard` is
the one read of a round (lines 17-24) and `DashboardFails` one that raises or
times out, `PostTick` and `EndTick` a request and its answer, `GiveUp` the 30 s
time-out, whose exception ends the round (lines 35-42) while the API goes on with
the tick, `FinishRound` and `Reconciled` the end of a round. The operator's
`start`, `pause` and `stop` are patches of the status. What a tick does inside is
OrderExecution, whose `Reliable` environment assumes what `OneTickPerBot` says:
ticks of a bot overlap only after a time-out, a restart of the worker or a tick
posted by hand. `ReconcileTurn` in turn is what Reconciliation assumes of the
worker.

### MainnetGate and Reconciliation — whose keys, and what the tables learn

**MainnetGate** has no state: it is the chain from a caller to an adapter. Secrets
are abstracted to whose they are (an account's, or the environment's for one
exchange and one of TESTNET and MAINNET). `ReleaseAdapter`, `CopyAdapter` and
`ReconcileAdapter` are the three callers; they differ in whose exchange and
dry-run switch they pass and whether they pass the account at all. An adapter with
working keys opens a `Venue`: the exchange it talks to and the keys it uses. The
budget the gate asks for is there whenever `get_account_risk_budget` was called
(it inserts a default), so that only one set to nothing fails.

**Reconciliation** adds the state: accounts and settings, orders at the exchange
(placed by a bot or a signal in one step, filled lot by lot, cancelled, closed),
each with its sender (`by`: the copy engine, or a bot with its row) and its venue,
and the passes in service. A pass takes the accounts newest first;
`FetchPositions`, `FetchOpenOrders` and `WriteAccount` are cut at its awaits,
`NothingToFetch` is a dry or blocked adapter, `PassRaises` an error of the testnet
adapter, which ends the pass for the accounts behind; an error of the mainnet
adapter is answered with nothing (`Reported`). `Upsert` writes what is reported
and deletes nothing.

### Strategies and BotTicks — what a bot decides, tick after tick

**Strategies** has no state: `poll_market_snapshot`, the five strategies,
`run_strategy` and `pre_trade_risk_check` as functions of a row of `bots`, the
price and the settings. Money and prices are natural numbers of 0.0001 USDT, the
digits to which the grids round, and quantities are in units of 1/`QtyScale`;
`Nearest` is Python's `round` up to ties. A snapshot of a tick is a constant in
this code (`market_stream.py` 19 builds the adapter for a dry run), which the
model says as it is: the funding strategy waits for ever, and a martingale never
doubles, as no caller of `run_strategy` gives it a state.

**BotTicks** is one bot over time: `row` is its row, `sent`, `simulated` and
`failed` the keys in `orders` by status (PENDING and RETRYING are in none of them,
and the duplicate check treats them like a key that is not there), `placed` the
orders at the exchange. `BeginTick` reads the row, `Decide` comes after the
awaited snapshot (`api_rc.py` 123-130), and each order of the decision is then
handled in one step: `Skip` (SKIPPED_DUPLICATE), `Simulate`, `Sync` (the lookup
finds it), `Place`, `Refuse` (every attempt failed), `LookupRaises` or
`LoseAnswer` (the exchange has the order, the lookup raises, the tick ends). An
alert that raises after a dry accept makes the order fail at every attempt; one
that raises after an order was placed ends the tick if the lookup raises too; and
after a failure (`GiveUp`) the tick goes on to the next order, or ends when the
last alert raises. `EditBot` is a patch, `Restart` a new process with other keys
and another live switch. One step per order is what OrderExecution refines to
`OrderLedger` under its premises, that one tick of a bot runs at a time is
`BotControl!OneTickPerBot`, and which adapter it has is MainnetGate's matter. Keys
are the orders' own columns, as in `make_idempotency_key`: an order of a later
tick that agrees in all of them is the same order. The money of the limits is the
order's `notional_usdt`, as it is in the risk check: quantity times price is more
for the sell rungs of a grid, and whatever the market makes of it where the
snapshot's constant is not the price. No property bounds that.

### MC modules and proof modules

`MCOrderExecution`, `MCAccountControls`, `MCCopyEngine`, `MCBotControl`,
`MCReconciliation` and `MCBotTicks` name the values the configurations need.
`OrderExecution_proofs`, `AccountControls_proofs`, `CopyEngine_proofs`,
`BotControl_proofs`, `Reconciliation_proofs`, `Strategies_proofs` and
`BotTicks_proofs` hold the theorems.

## Runs

| Run | Instance | Shows |
|---|---|---|
| `order_reliable` | one tick at a time, two orders in overlapping decisions, 2 attempts, 3 ticks, 2 restarts, raised lookups and alerts, a hanging mail server | `NoDuplicateOrder`, `TickSettlesItsOrder`, and that the executor implements `OrderLedger` |
| `order_unreliable` | two overlapping ticks, every fault on | `TypeOK`, `LedgerNotAhead`, `WriteAhead`, `BoundedCreation`, `TickTerminates` |
| `order_blind_retry` | one tick, a lost answer and a swallowed lookup error | violation: the retry sends the order again |
| `account_controls` | two executions, two budgets (one with rate limit 0), notionals of either sign and one above the order limit, raising broadcasts, a restart, times 0 to 2 | `TypeOK`, `RateBound`, `DailyOvershoot`, `BreakerProtects`, `BreakerLetsGo` |
| `account_daily` | one execution, a day of 2 beats | violation: yesterday's notional is refused today |
| `copy_engine` | one publisher, two permits, queue of one, one id published twice and one once, a restart, late requests, a hanging mail server, every fault on | `TypeOK`, `NothingVanishes`, `RecordsCoverExchange`, `OncePerPublication`, `SignalSettles` |
| `copy_retry` | one publisher, fresh ids, a client that connects | violation: a signal reported as failed is executed, and again after the retry |
| `bot_control` | two bots, the first may be slow, two overlapping updates, patches that name another bot's id or none, two ticks in service, reconciliation every 2nd round, a restart or a dashboard that is not read | `TypeOK`, `PatchesStand`, `StopTrails`, `OneTickPerBot`, `TurnForAll`, `ReconcileTurn` |
| `reconciliation` | two exchanges, two accounts of which one may be created late, keys of rows and of the environment, an order of two lots, live trading on or off, two overlapping passes, an edit or a restart, a failing request | `TypeOK`, `PassMirrors`, `CatchesUp`, `MainnetGated` |
| `mainnet_flag` | one pass, no fault, live trading on and only the flag of Binance set | violation: a bot on one exchange trades on mainnet behind the flag of another |
| `bot_ticks` | ten rows over the five strategies, four of them refused, with or without keys and live trading; two edits, one failed or lost attempt, raised lookup or alert, one restart | `TypeOK`, `ExposureBounded`, `RungsApart`, `LimitsInForce`, `DecisionSettles` |
| `market_price` | one live row with testnet keys, no fault | violation: the tick trades on a constant price |

Each violation contradicts a line of the docs and is a finding in `PROJECT.json`:
a retry that does not order twice (`docs/VALIDATION_PLAYBOOK_CN.md` 79, for bots
and for signals), a daily limit of the day (`docs/SINGLE_ACCOUNT_FAST_COPY_CN.md`
112), a mainnet adapter only where the flag of its exchange is set
(`docs/CONTROLLED_OPT_IN_MAINNET_CN.md` 19-31), and orders that are planned on the
market (`docs/BINANCE_TESTNET_LIVE_ADAPTER_CN.md` 11-14 and 80).

Two more things the models show without a run of their own. Two ticks of one bot
in service at once may both find an order unregistered and send it:
`NoDuplicateOrder` needs one tick at a time, which is why it is checked with one
tick and proved for any number of them of which one is in service, why
`OneTickPerBot` says when that is so, and why `BoundedCreation` says how many
there may be otherwise. And a refusal by the open breaker is recorded as one more
failure, so that signals that keep coming keep it open; `BreakerLetsGo` says that
it closes a pause after the last of them.

Bounds, and why they are enough:

- Two ticks, updates, passes or permits suffice for the races the code has: its
  actors share a row, a counter or a set, and meet in pairs; the proofs are for
  any number of them. One publisher is alive at a time in `copy_engine`; two meet
  only in the queue and in an insert, which are atomic, and the proofs cover any
  number. One order per decision is enough for races on a row; two orders with
  overlapping decisions show what an earlier order's failure does to a later one
  and what a later tick finds of an earlier one.
- Two attempts distinguish the last attempt from one that is retried. The code
  treats all but the last alike.
- The times 0, 1 and 2 with a minute of two and a window of two let a bucket
  drain, refill partly and fully, a failure at 0 fall out of the window at 2 and
  the pause it called for end then; the budget with a rate of 0 is the `max(...,
  1)` of the code. Notionals of -1, 1 and 3, with order limits of 1 and daily ones
  of 2, give orders that fit, one that does not and one that lowers the counter.
- A hanging mail server is left by a restart only, so one restart shows both the
  process it stops and the one that follows.
- A queue of one makes the publisher wait; three publications for two permits make
  a signal wait for one before.
- Two bots, the slow one first, are the least fleet in which a round skips a bot;
  edits that stop and start the slow one let its turn come and go, and one that
  sends a bot's row back under the other's id, or under none, writes the wrong row
  or no row. Two lots make an order that is partly filled, in `open_orders` and in
  `positions` at once; an account in front of the other is what keeps it from its
  turn.
- The rows of `bot_ticks` take every branch of the strategies that a constant
  snapshot leaves reachable, one decides on nothing and four are refused, each for
  a reason of its own (an order above its bot's limits is not among them: the
  strategies write none, as `StrategiesFit` proves). Prices of 2000 to 30000
  ticks, with `QtyScale` 10000, round quantities up, down and to nothing; a grid
  with fewer levels than two is widened. Two edits let a row be changed and
  changed back, and one restart and one fault meet a tick at each of its steps.
  The proofs cover every row and price.
- `MaxRuns`, `MaxPublish`, `MaxCrashes`, `MaxTime`, `MaxClients`, `MaxEdits` and
  `MaxFaults` cap what may go on for ever. Every run that reaches its caps stops
  there, hence `CHECK_DEADLOCK FALSE`.

Symmetry over the permits is used in `account_controls`, which has no liveness
property. Every property of a passing run has a mutant: a plausible bug of a
mapped definition, written before it, with which TLC finds the property violated.

## Fairness

`OrderExecution!Fairness` is weak fairness of each tick in service while the event
loop runs: asyncio runs every ready task, ccxt and httpx bound their requests with
a timeout, and `asyncio.sleep` returns. It does not reach the mail server, which
nothing bounds: a tick in the phase `mail` has no step of its own, no other has
one besides it, and `TickTerminates` says that every tick ends or the process is
stopped by such a mail. `CopyEngine!Fairness` and `SignalSettles` make the same
exception. No fairness is assumed of the worker, the operator, the exchange's
answers (which may be lost for ever) or of late requests.

`CopyEngine!Fairness` is weak fairness of the worker's loop, of the task that
waits first for a permit (the semaphore serves its waiters in order) and of each
task that holds one. Publishers and clients owe nothing. A broadcast with a
hanging client would need a timeout that the code does not set: the model takes
sends to end, by success or error, as the WebSocket keep-alive of the server sees
to.

`BotControl!Fairness` is weak fairness of the worker's loop and of the end of each
tick in service (`OrderExecution!TickTerminates`, on the premise that no alert
hangs in the mail server: it would freeze the API until a restart), and strong
fairness of posting a tick: the places for ticks are a bound of the model, which
the operator might keep busy, and not of the server. Nothing makes a slow tick
time out or not. `TurnForAll` therefore excepts the bots behind a slow one that
runs, and `ReconcileTurn` asks that no slow bot runs any more: without the
exceptions both are false, since a time-out ends the round every time.

`BotTicks!Fairness` is weak fairness of beginning a tick (the worker ticks a
running bot again and again, `BotControl!TurnForAll`) and of the steps of the tick
in service (`OrderExecution!TickTerminates`), on the same premise. That edits,
restarts and failures come to an end is a bound of the model and the premise of
`DecisionSettles`.

`Reconciliation!Fairness` is weak fairness of the worker's next pass
(`BotControl!ReconcileTurn`) and of each step of a pass, as ccxt bounds its
requests, on the same premise. Neither operators nor exchanges owe anything.

## What is proved

The theorems hold for every value of the constants under the module's
`ConstantsAssumption`, which only gives the constants their types.

- `OrderExecution_proofs`: `TypeCorrect`; `LedgerNeverAhead` and `WrittenAhead`
  from the inductive `IInv`, which strengthens them with what each phase of a tick
  knows (an answer "accepted" or a remote state means the exchange has the order;
  a tick past `take` has its row) and with the attempts that are left;
  `NeverDuplicates` from an invariant that adds that a tick about to send has just
  been told that the order is missing and nothing is under way; `DedupSuffices`
  for an exchange that refuses a client id it has seen, with no other assumption;
  `ImplementsLedger`, the refinement, for a live bot; and `AlwaysSettles`, with at
  least one attempt, from what the row says at the alert and at the end of a tick.
  `NeverDuplicates` and `ImplementsLedger` assume that lookups tell the truth or
  raise and that nothing arrives late (`Truthful`), and all three that at any time
  one tick of the bot is in service (`[]OneInService`, over any number of ticks):
  that is what `BotControl!OneTickPerBot` gives for a bot the worker drives, and a
  `Reliable` environment, with which TLC checks them, implies it.
  `CreationBounded` needs none of that, ticks may overlap and answers lie: its
  invariant `Budget` says that what was created or is under way, with the attempts
  the ticks in service have left, is no more than the attempts of the ticks begun.
  It asks that a decision names an order once (`DecisionsDistinct`), which
  `StrategiesApart` shows of grids with room and which the other strategies do by
  deciding on one order; an order named twice may be sent twice as often.
- `AccountControls_proofs`: `TypeCorrect`; `RateBounded` from an invariant that
  trades the tokens in the bucket against the admissions of every stretch that
  ends now; `BreakerProtected`, for budgets that agree on the pause, from an
  invariant that the row's pause reaches as far as the failed executions ask for;
  `BreakerAlwaysLetsGo`, for the same budgets, from one that it reaches no further
  than a pause after the last failure or refusal; `DailyOvershootBounded` from
  `DailyInv`, which counts what is placed and not yet recorded in units of the
  largest order: one for each busy slot, and one for each slot at each crash. It
  is about notionals and budgets of either sign: a negative notional adds nothing
  to what is placed, and what it takes off the counter is in `lowered`.
- `CopyEngine_proofs`: `TypeCorrect`; from `Recorded` (a queued or waiting signal
  has its row, a task about to place has its order row, one past its outcome has
  written it) `ExchangeCovered` and `NothingVanishesEver`; and
  `NeverMoreThanPublished` from `Accounted`, which counts the copies of a signal
  with its publisher, on the queue, waiting for a permit, about to be placed,
  given up by its sender and still under way, and at the exchange, and `OneEach`,
  that no two publishers have the same order in service.
- `BotControl_proofs`: `TypeCorrect`; `PatchesAlwaysStand`, for every set of
  patches, those included that name an id, from what each update in service is
  about to write; `StopTrailsByOne` from an invariant that every place the worker
  has still to serve has not been served since its bot was stopped (the fleet has
  no bot twice, and a round has a next place because the natural numbers are
  well-ordered); `OneTickAtATime` from whose every tick in service is.
- `Reconciliation_proofs`: `TypeCorrect`, with the one-to-one relation of the list
  of accounts and their rows; `MainnetAlwaysGated`, the action property, from the
  lemmas about `build_adapter` and the keys, by sender: a copied signal passes no
  account and so gets no mainnet keys, a bot's adapter has them only behind the
  gate of its account; and from `PassInv` (a pass has only existing accounts
  before it); `PassesMirror` from `FreshInv`: an undisturbed pass is alone, its
  answers are what the exchange has (`Answered`), and every readable account is
  still before it or already in the tables (`Behind`).
- `Strategies_proofs`: `StrategiesFit`, for every row, price and setting each
  order is well-formed and within the row's limits; `StrategiesApart`, for every
  grid with room no two rungs are one order, and each is on its side of the mark.
  The argument is about rounding: offsets that differ by a tick or more keep
  prices apart; `StrategiesShare`, the orders of a decision on one side are n of
  the same value, and n times that is within the position limit.
- `BotTicks_proofs`: `TypeCorrect`; `LimitsAlwaysInForce` from `TickInv`, what a
  tick keeps of the check while it works through its orders (its row was in force,
  the live switch was on, the orders left fit); `RungsAlwaysApart` from
  `StrategiesApart`; `ExposureAlwaysBounded` from `Paid`: the orders of every
  situation that was decided on, placed or not, are within the sum of their
  limits, and every order at the exchange is one of them. A situation that is
  decided on again adds nothing, and `StrategiesShare` pays for a new one. The
  sums are MapThenSumSet's, a recursion over sets: they are counted as the units
  of a set (`SumsCount`, by the smallest set that would be counted otherwise), so
  that the theorems on cardinalities apply.

Every invariant and action property that a passing run checks is stated by a
theorem. Only model-checked are the liveness properties `TickTerminates`,
`SignalSettles`, `TurnForAll`, `ReconcileTurn`, `CatchesUp` and `DecisionSettles`,
since fairness and ENABLED are out of the prover's reach.

## Not modelled, and the plan

In this order:

1. **Stale rows**: an abstract specification of the tables as a snapshot of the
   exchange, against which Reconciliation fails for closed positions and orders
   that are gone; `docs/BINANCE_TESTNET_LIVE_ADAPTER_CN.md` 108 names the
   synchronisation of positions.
2. **Composition**: OrderExecution with the ticks of BotControl in one
   specification, so that the premise `[]OneInService` is derived from
   `OneTickPerBot` formally and not by their comments, and BotTicks as their
   abstraction.

Abstracted in what is modelled: bots are never created while the system runs
(`create_bot` adds a row nobody ticks yet), the market-snapshot posts of the
worker (off by default), the account balances (they go the way of the positions),
and, but for Strategies and BotTicks, the price. A quotient the code leaves
unrounded, a grid level's share of the position, loses less than a tick in
Strategies; the reason and the state patch of a decision go to the log only. A
signal's size and the choice of its account are inputs of CopyEngine, and what a
mainnet adapter does to round prices and amounts is left out. Of overlapping
patches of one bot one may be lost: `PatchesStand` is about every patch whose bot
no other wrote between its SELECT and its UPDATE. Patches that make the UPDATE
raise (an unknown type, a missing column) change nothing and are left out. Rows
that reconciliation should have deleted are left open by `Mirrors`: the tables may
have more than the exchange.

Left out for good: logging, headers, authentication, encryption of stored keys,
symbol formats and precision, the channels of alerts, account groups (stored and
listed, read by nothing), the demo data and the superseded modules. SQLite commits
are atomic and one process writes; the models take each `with connect()` block as
one step and cut an action where a restart between two blocks leaves a state of
its own.
