-------------------------- MODULE Reconciliation ---------------------------
(***************************************************************************)
(* Whose orders reach which account at an exchange, and what the tables    *)
(* positions and open_orders learn of it (reconciliation.py, the fetching  *)
(* half of adapters.py and controlled_mainnet.py, the upserts of db.py).   *)
(*                                                                         *)
(* A pass takes the accounts newest first; for each it builds an adapter,  *)
(* awaits three requests one after the other, and then upserts what they   *)
(* reported.  Nothing deletes a row.  Orders are filled and closed at the  *)
(* exchange at any time; how an order is sent is the subject of            *)
(* OrderExecution and CopyEngine, here it is one step.  Of a position its  *)
(* size matters, in lots of an order, of an open order that it is there;   *)
(* the balances go the way of the positions and are left out.              *)
(***************************************************************************)
EXTENDS MainnetGate, Naturals, Sequences, FiniteSets

CONSTANTS
  Orders,      \* orders that bots and signals may place
  Lots,        \* an order is filled in that many parts
  Passes,      \* reconciliations in service: the worker's, an operator's
  Worker,      \* the first of them
  Seeded,      \* the accounts that are there at the start, newest first
  Rows,        \* what an account may be created as
  Deployments, \* the settings the process may be started with
  MaxEdits,    \* bound: accounts created, budgets set, restarts
  MaxFaults    \* bound: requests that fail

ASSUME ConstantsAssumption ==
  /\ IsFiniteSet(Orders) /\ Orders # {}
  /\ Worker \in Passes
  /\ Seeded \in Seq(Accounts)
  /\ \A m, n \in DOMAIN Seeded : Seeded[m] = Seeded[n] => m = n
  /\ Rows \subseteq AccountRow
  /\ Deployments \subseteq Settings
  /\ Lots \in Nat \ {0}
  /\ {MaxEdits, MaxFaults} \subseteq Nat

VARIABLES
  settings,    \* get_settings(), read once per process
  accounts,    \* list_accounts: newest first
  row,         \* table accounts
  spent,       \* accounts whose budget leaves an order nothing
  order,       \* at the exchanges: where an order is and how it stands
  pass,        \* the reconciliations in service
  positions,   \* table positions: account -> lots, 0 for no row
  open_orders, \* table open_orders: account -> orders
  edits, faults,
  undisturbed  \* passes beside which nothing has happened, for PassMirrors

vars == <<settings, accounts, row, spent, order, pass, positions, open_orders,
          edits, faults, undisturbed>>

config == <<settings, accounts, row, spent, edits>>
tables == <<positions, open_orders>>

Idle == [at |-> "idle"]
NotSent == [at |-> "none"]

Sizes == 0..(Lots * Cardinality(Orders))

PassState ==
  {Idle}
  \cup [at : {"positions"}, todo : Seq(Accounts)]
  \cup [at : {"orders"}, todo : Seq(Accounts), qty : Sizes]
  \cup [at : {"balance"}, todo : Seq(Accounts), qty : Sizes,
        listed : SUBSET Orders]

\* Rows of bots, as the operator may write them.
Bots ==
  [exchange : Exchanges, dry_run : BOOLEAN, account : Accounts \cup {Missing}]

\* Who sends an order: a tick of a bot, or the copy engine.
Senders == [engine : {"copy"}] \cup [engine : {"bot"}, bot : Bots]

\* An order at an exchange: open, and filled so far.
AtExchange ==
  [at : {"exchange"}, by : Senders, venue : Venues, open : BOOLEAN,
   filled : 0..Lots]

TypeOK ==
  /\ settings \in Deployments
  /\ accounts \in Seq(Accounts)
  /\ row \in [Accounts -> Rows \cup {Missing}]
  /\ \A a \in Accounts :
       row[a] # Missing <=> \E n \in DOMAIN accounts : accounts[n] = a
  /\ \A m, n \in DOMAIN accounts : accounts[m] = accounts[n] => m = n
  /\ spent \subseteq Accounts
  /\ order \in [Orders -> {NotSent} \cup AtExchange]
  /\ pass \in [Passes -> PassState]
  /\ positions \in [Accounts -> Sizes]
  /\ open_orders \in [Accounts -> SUBSET Orders]
  /\ edits \in 0..MaxEdits /\ faults \in 0..MaxFaults
  /\ undisturbed \subseteq Passes

Init ==
  /\ settings \in Deployments
  /\ accounts = Seeded
  /\ row \in [Accounts -> Rows \cup {Missing}]
  /\ \A a \in Accounts :
       row[a] # Missing <=> \E n \in DOMAIN Seeded : Seeded[n] = a
  /\ spent = {}
  /\ order = [o \in Orders |-> NotSent]
  /\ pass = [p \in Passes |-> Idle]
  /\ positions = [a \in Accounts |-> 0]
  /\ open_orders = [a \in Accounts |-> {}]
  /\ edits = 0 /\ faults = 0
  /\ undisturbed = {}

At(v) == {o \in Orders : order[o] # NotSent /\ order[o].venue = v}
OpenAt(v) == {o \in At(v) : order[o].open}
SizeAt(v) ==
  Cardinality({e \in Orders \X (1..Lots) :
                 e[1] \in At(v) /\ e[2] <= order[e[1]].filled})

\* What reconcile_account sees of an account, and at which venue.
AdapterOf(a) == ReconcileAdapter(a, row[a], settings, a \notin spent)
VenueOf(a)   == Venue(AdapterOf(a))

-----------------------------------------------------------------------------
(* Orders, from either engine, and what becomes of them.                   *)

RowOf(a) == IF a = Missing THEN Missing ELSE row[a]

\* pre_trade_risk_check.
RiskCheck(bot) == bot.dry_run \/ settings.live

OrderReaches(o, by, adapter, r) ==
  /\ order[o] = NotSent
  /\ KeysWork(adapter, r)
  /\ order' = [order EXCEPT ![o] =
       [at |-> "exchange", by |-> by, venue |-> Venue(adapter),
        open |-> TRUE, filled |-> 0]]
  /\ undisturbed' = {}

\* A tick of a bot, whose row the operator writes as he likes.
BotOrders(bot, o) ==
  /\ RiskCheck(bot)
  /\ OrderReaches(o, [engine |-> "bot", bot |-> bot],
       ReleaseAdapter(bot, RowOf(bot.account), settings, bot.account \notin spent),
       RowOf(bot.account))
  /\ UNCHANGED <<config, pass, tables, faults>>

\* A signal for the account, which the account controls have let pass.
CopyOrders(a, o) ==
  /\ row[a] # Missing
  /\ OrderReaches(o, [engine |-> "copy"],
                  CopyAdapter(a, row[a], settings), row[a])
  /\ UNCHANGED <<config, pass, tables, faults>>

\* A lot is filled, what is open is cancelled, or the position is closed.
ExchangeMoves(o) ==
  /\ order[o] # NotSent
  /\ \/ /\ order[o].open
        /\ order' = [order EXCEPT ![o].filled = @ + 1,
                                  ![o].open = order[o].filled + 1 < Lots]
     \/ order[o].open /\ order' = [order EXCEPT ![o].open = FALSE]
     \/ /\ order[o].filled > 0 /\ ~order[o].open
        /\ order' = [order EXCEPT ![o].filled = 0]
  /\ undisturbed' = {}
  /\ UNCHANGED <<config, pass, tables, faults>>

-----------------------------------------------------------------------------
(* reconcile_all_accounts and reconcile_account.                           *)

StartPass(p) ==
  /\ pass[p] = Idle
  /\ accounts # <<>>
  /\ pass' = [pass EXCEPT ![p] = [at |-> "positions", todo |-> accounts]]
  /\ undisturbed' =
       IF \A q \in Passes : pass[q] = Idle THEN undisturbed \cup {p} ELSE {}
  /\ UNCHANGED <<config, order, tables, faults>>

Account(p) == Head(pass[p].todo)

NextAccount(p) ==
  IF Len(pass[p].todo) = 1 THEN Idle
  ELSE [at |-> "positions", todo |-> Tail(pass[p].todo)]

\* The adapters of a dry or blocked account report nothing.
NothingToFetch(p) ==
  /\ pass[p].at = "positions"
  /\ AdapterOf(Account(p)).kind \in {"dry", "blocked"}
  /\ pass' = [pass EXCEPT ![p] = NextAccount(p)]
  /\ UNCHANGED <<config, order, tables, faults, undisturbed>>

\* The testnet client without keys.
NoClient(p) ==
  /\ pass[p].at = "positions"
  /\ AdapterOf(Account(p)).kind = "testnet"
  /\ ~Ready(AdapterOf(Account(p)).keys)

\* Mutant of PassRaises: an account that raises is asked again.
PassRetries(p) ==
  /\ pass[p] # Idle
  /\ \/ NoClient(p) /\ UNCHANGED faults
     \/ /\ pass[p].at = "positions" => AdapterOf(Account(p)).kind = "testnet"
        /\ row[Account(p)].environment = "TESTNET"
        /\ faults < MaxFaults /\ faults' = faults + 1
  /\ undisturbed' = undisturbed \ {p}
  /\ UNCHANGED <<config, order, pass, tables>>

\* An error of the testnet adapter ends the pass; what the account has been
\* asked for is not written, and the accounts behind it are not asked.
PassRaises(p) ==
  /\ pass[p] # Idle
  /\ \/ NoClient(p) /\ UNCHANGED faults
     \/ /\ pass[p].at = "positions" => AdapterOf(Account(p)).kind = "testnet"
        /\ row[Account(p)].environment = "TESTNET"
        /\ faults < MaxFaults /\ faults' = faults + 1
  /\ pass' = [pass EXCEPT ![p] = Idle]
  /\ undisturbed' = undisturbed \ {p}
  /\ UNCHANGED <<config, order, tables>>

\* The mainnet adapter answers an error with nothing.
Reported(p, answer, nothing, result) ==
  \/ result = answer /\ UNCHANGED <<faults, undisturbed>>
  \/ /\ row[Account(p)].environment = "MAINNET"
     /\ faults < MaxFaults /\ faults' = faults + 1
     /\ undisturbed' = undisturbed \ {p}
     /\ result = nothing

\* What the adapters make of the exchange's answer.  An exchange may list a
\* closed position; its contracts of 0 let the code fall back to the contract
\* size, here a lot.
Listed(size) == IF size > 0 THEN {size} ELSE {0, 1}

FetchPositions(p) ==
  /\ pass[p].at = "positions"
  /\ AdapterOf(Account(p)).kind \in {"testnet", "mainnet"}
  /\ Ready(AdapterOf(Account(p)).keys)
  /\ \E size \in Listed(SizeAt(VenueOf(Account(p)))), qty \in Sizes :
       /\ Reported(p, size, 0, qty)
       /\ pass' = [pass EXCEPT ![p] =
                     [at |-> "orders", todo |-> @.todo, qty |-> qty]]
  /\ UNCHANGED <<config, order, tables>>

FetchOpenOrders(p) ==
  /\ pass[p].at = "orders"
  /\ \E listed \in SUBSET Orders :
       /\ Reported(p, OpenAt(VenueOf(Account(p))), {}, listed)
       /\ pass' = [pass EXCEPT ![p] =
                     [at |-> "balance", todo |-> @.todo, qty |-> @.qty,
                      listed |-> listed]]
  /\ UNCHANGED <<config, order, tables>>

\* Mutant of Upsert: a row that is there is left alone.
UpsertIgnores(old, qty) == IF old = 0 THEN qty ELSE old

\* A position is inserted or overwritten; one that is closed is not reported.
Upsert(old, qty) == IF qty = 0 THEN old ELSE qty

\* The balance is awaited, and everything is written.
WriteAccount(p) ==
  LET a == Account(p) IN
  /\ pass[p].at = "balance"
  /\ positions' = [positions EXCEPT ![a] = Upsert(@, pass[p].qty)]
  /\ open_orders' = [open_orders EXCEPT ![a] = @ \cup pass[p].listed]
  /\ pass' = [pass EXCEPT ![p] = NextAccount(p)]
  /\ UNCHANGED <<config, order, faults, undisturbed>>

-----------------------------------------------------------------------------
(* The operator.                                                           *)

Edit == edits < MaxEdits /\ edits' = edits + 1 /\ undisturbed' = {}

\* Mutant of CreateAccount: the id need not be new.
CreateAccountAgain(a) ==
  /\ Edit
  /\ \E r \in Rows : row' = [row EXCEPT ![a] = r]
  /\ accounts' = <<a>> \o accounts
  /\ UNCHANGED <<settings, spent, order, pass, tables, faults>>

CreateAccount(a) ==
  /\ Edit
  /\ row[a] = Missing
  /\ \E r \in Rows : row' = [row EXCEPT ![a] = r]
  /\ accounts' = <<a>> \o accounts
  /\ UNCHANGED <<settings, spent, order, pass, tables, faults>>

SetBudget(a) ==
  /\ Edit
  /\ row[a] # Missing
  /\ \E nothing \in {spent \cup {a}, spent \ {a}} : spent' = nothing
  /\ UNCHANGED <<settings, accounts, row, order, pass, tables, faults>>

\* New settings take effect with a restart, which ends the passes.
Restart ==
  /\ Edit
  /\ settings' \in Deployments
  /\ pass' = [p \in Passes |-> Idle]
  /\ UNCHANGED <<accounts, row, spent, order, tables, faults>>

PassStep(p) ==
  \/ NothingToFetch(p) \/ PassRaises(p)
  \/ FetchPositions(p) \/ FetchOpenOrders(p) \/ WriteAccount(p)

Next ==
  \/ \E o \in Orders :
       \/ \E bot \in Bots : BotOrders(bot, o)
       \/ \E a \in Accounts : CopyOrders(a, o)
       \/ ExchangeMoves(o)
  \/ \E p \in Passes : StartPass(p) \/ PassStep(p)
  \/ \E a \in Accounts : CreateAccount(a) \/ SetBudget(a)
  \/ Restart

Spec == Init /\ [][Next]_vars

\* The worker reconciles again and again (BotControl!ReconcileTurn) and ccxt
\* bounds every request by a timeout, for as long as no alert is left waiting
\* by the mail server, which stops the process.  An operator owes nothing.
Fairness ==
  /\ WF_vars(StartPass(Worker))
  /\ \A p \in Passes : WF_vars(PassStep(p))

FairSpec == Spec /\ Fairness

-----------------------------------------------------------------------------
(* Properties.                                                             *)

\* Can the reconciliation see the account, and does every account in front
\* of it let it?
Readable(a) ==
  /\ row[a] # Missing
  /\ KeysWork(AdapterOf(a), row[a])
Blocks(a) ==
  AdapterOf(a).kind = "testnet" /\ ~Ready(AdapterOf(a).keys)
Reached(a) ==
  \A m, n \in DOMAIN accounts :
    accounts[n] = a /\ m < n => ~Blocks(accounts[m])

\* The tables have what the exchange has.  They may have more: a position
\* that was closed keeps its row or gets one, and an order that is gone
\* stays.
Mirrors(a) ==
  /\ SizeAt(VenueOf(a)) > 0 => positions[a] = SizeAt(VenueOf(a))
  /\ OpenAt(VenueOf(a)) \subseteq open_orders[a]

\* A pass that comes to its end with nothing else going on, and with every
\* request answered, leaves every account that it can read in the tables.
PassMirrors ==
  [][\A p \in Passes :
       (/\ pass[p] # Idle /\ pass'[p] = Idle
        /\ p \in undisturbed /\ p \in undisturbed')
       => \A a \in Accounts : Readable(a) => Mirrors(a)']_vars

\* Whatever overlapping passes, failed requests and restarts have left
\* behind, the tables catch up with every account that is reached.
CatchesUp ==
  <>[](\A a \in Accounts : Readable(a) /\ Reached(a) => Mirrors(a))

\* Behind the gate: live trading and the flag of the account's exchange are on,
\* and the account is a mainnet one that is neither dry nor, if a budget is
\* asked for, set to nothing.  A default budget counts as one, and the flag of
\* the exchange an order goes to is the subject of MainnetFlagOfExchange.
Gated(a) ==
  /\ settings.live /\ row[a].exchange \in settings.flags
  /\ row[a].environment = "MAINNET" /\ ~row[a].dry_run
  /\ settings.needsBudget => a \notin spent

\* An order goes out with mainnet keys only for a bot that is not dry, whose
\* account has a row and is behind the gate, and with no keys but the account's
\* own or those of the process: never for a copied signal.  The reconciliation
\* asks a mainnet account only behind the same gate.
MainnetGated ==
  [][/\ \A o \in Orders :
          order[o] = NotSent /\ order'[o] # NotSent
            /\ order'[o].venue.keys.environment = "MAINNET"
          => /\ order'[o].by.engine = "bot"
             /\ LET bot == order'[o].by.bot IN
                /\ ~bot.dry_run
                /\ RowOf(bot.account) # Missing /\ Gated(bot.account)
                /\ order'[o].venue.keys.owner \in {Env, bot.account}
     /\ \A p \in Passes :
          pass[p] # Idle /\ pass[p].at = "positions" /\ pass'[p] # Idle
            /\ pass'[p].at = "orders"
            /\ row[Account(p)].environment = "MAINNET"
          => Gated(Account(p))]_vars

\* A mainnet order goes only to an exchange whose own mainnet flag is set
\* (CONTROLLED_OPT_IN_MAINNET_CN.md 19-31).
MainnetFlagOfExchange ==
  [][\A o \in Orders :
       order[o] = NotSent /\ order'[o] # NotSent
         /\ order'[o].venue.keys.environment = "MAINNET"
       => order'[o].venue.exchange \in settings.flags]_vars
=============================================================================
