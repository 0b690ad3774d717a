---------------------------- MODULE MainnetGate ----------------------------
(***************************************************************************)
(* Which adapter the code builds for a bot, a copied signal or the         *)
(* reconciliation of an account: credentials.py, mainnet_gate.py,          *)
(* adapters.build_adapter and the flags of settings.py.                    *)
(*                                                                         *)
(* Secrets are abstracted to whose they are: those of an account's row, or *)
(* those of the process environment, which belong to one exchange and one  *)
(* environment.  The market snapshot always gets the dry adapter and is    *)
(* left out.                                                               *)
(***************************************************************************)
CONSTANTS
  Exchanges,
  Binance,   \* BINANCE_FUTURES, the exchange with a testnet adapter
  Accounts,  \* ids of accounts
  EnvKeys,   \* <<exchange, environment>> with a key and a secret in os.environ
  Env,       \* the owner of those keys
  Missing    \* no row, no keys

Environments == {"TESTNET", "MAINNET"}

\* Columns of the table accounts; keys: an API key and its secret are stored.
AccountRow ==
  [exchange : Exchanges, environment : Environments, dry_run : BOOLEAN,
   keys : BOOLEAN]

ASSUME GateAssumption ==
  /\ Binance \in Exchanges
  /\ EnvKeys \subseteq Exchanges \X Environments
  /\ Env \notin Accounts
  /\ Missing \notin Accounts \cup {Env}
  /\ Missing \notin AccountRow

\* live: enable_live_trading; flags: the exchanges whose mainnet flag is set;
\* needsBudget: mainnet_requires_account_budget.
Settings ==
  [live : BOOLEAN, flags : SUBSET Exchanges, needsBudget : BOOLEAN]

\* Whose keys, for which environment.
Credentials == [owner : Accounts \cup {Env, Missing}, environment : Environments]
Ready(c) == c.owner # Missing

load_env_credentials(exchange, environment) ==
  [owner |-> IF <<exchange, environment>> \in EnvKeys THEN Env ELSE Missing,
   environment |-> environment]

\* The keys of the row, else those of the environment for the exchange that
\* is asked for, which need not be the exchange of the row.
load_account_credentials(a, row, exchange) ==
  CASE row = Missing -> load_env_credentials(exchange, "TESTNET")
    [] row # Missing /\ row.keys -> [owner |-> a, environment |-> row.environment]
    [] OTHER -> load_env_credentials(exchange, row.environment)

\* Mutant of evaluate_mainnet_gate: the switch of the account is not looked at.
GateIgnoresDryRun(row, c, set, budgeted) ==
  /\ set.live /\ row.exchange \in set.flags
  /\ row.environment = "MAINNET"
  /\ Ready(c)
  /\ set.needsBudget => budgeted

\* The gate.  A budget exists once it is asked for, since
\* get_account_risk_budget writes a default row: budgeted is FALSE only when
\* the operator has set the limit of an order to nothing.
evaluate_mainnet_gate(row, c, set, budgeted) ==
  /\ set.live /\ row.exchange \in set.flags
  /\ row.environment = "MAINNET" /\ ~row.dry_run
  /\ Ready(c)
  /\ set.needsBudget => budgeted

Adapter ==
  [kind : {"dry", "testnet", "mainnet", "blocked", "raises"},
   exchange : Exchanges, keys : Credentials]

\* row is Missing when the caller passes no account: the gate then raises
\* KeyError.  Without dry_run, neither the testnet adapter nor the blocked one
\* asks for enable_live_trading.
build_adapter(exchange, dry, c, row, set, budgeted) ==
  [kind |->
     CASE dry -> "dry"
       [] ~dry /\ c.environment = "TESTNET" ->
            IF exchange = Binance THEN "testnet" ELSE "blocked"
       [] OTHER ->
            IF row = Missing THEN "raises"
            ELSE IF evaluate_mainnet_gate(row, c, set, budgeted)
                 THEN "mainnet" ELSE "blocked",
   exchange |-> exchange, keys |-> c]

\* The request the exchange answers: a ccxt client needs keys, and an exchange
\* knows only keys of its own.
KeysWork(adapter, row) ==
  /\ adapter.kind \in {"testnet", "mainnet"}
  /\ Ready(adapter.keys)
  /\ adapter.keys.owner # Env => row.exchange = adapter.exchange

\* What those keys open: an account at the exchange.
Venue(adapter) == [exchange |-> adapter.exchange, keys |-> adapter.keys]
Venues == [exchange : Exchanges, keys : Credentials]

\* executor_release: the account of the bot, or a TESTNET one made up for it;
\* the exchange and the dry-run switch are the bot's.  The risk check refuses
\* a live bot while live trading is off.
ReleaseAdapter(bot, row, set, budgeted) ==
  build_adapter(bot.exchange, bot.dry_run,
                load_account_credentials(bot.account, row, bot.exchange),
                row, set, budgeted)

\* Mutant of CopyAdapter: the account is passed on.
CopyAdapterWithAccount(a, row, set) ==
  build_adapter(row.exchange, row.dry_run,
                load_account_credentials(a, row, row.exchange),
                row, set, TRUE)

\* copy_engine: exchange and switch are the account's, which is not passed on.
CopyAdapter(a, row, set) ==
  build_adapter(row.exchange, row.dry_run,
                load_account_credentials(a, row, row.exchange),
                Missing, set, FALSE)

\* reconciliation: everything is the account's.
ReconcileAdapter(a, row, set, budgeted) ==
  build_adapter(row.exchange, row.dry_run,
                load_account_credentials(a, row, row.exchange),
                row, set, budgeted)
=============================================================================
