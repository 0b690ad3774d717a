-------------------------- MODULE MCReconciliation --------------------------
(***************************************************************************)
(* Instances of Reconciliation for TLC.                                    *)
(***************************************************************************)
EXTENDS Reconciliation

CONSTANTS binance, bybit, a1, a2, env, o1, worker, operator

TwoExchanges == {binance, bybit}
TwoAccounts  == {a1, a2}
OneSeeded    == <<a1>>
OneOrder     == {o1}
OnePass      == {worker}
TwoPasses    == {worker, operator}

NewAccount(exchange, environment, dry, keys) ==
  [exchange |-> exchange, environment |-> environment, dry_run |-> dry,
   keys |-> keys]

\* A testnet account, one without keys, a mainnet account on the keys of the
\* environment and a dry one on its own.
FourRows ==
  {NewAccount(binance, "TESTNET", FALSE, TRUE),
   NewAccount(binance, "TESTNET", FALSE, FALSE),
   NewAccount(binance, "MAINNET", FALSE, FALSE),
   NewAccount(binance, "MAINNET", TRUE, TRUE)}

MainnetKeys == TwoExchanges \X {"MAINNET"}

OnlyBinance ==
  {[live |-> TRUE, flags |-> {binance}, needsBudget |-> TRUE]}
OffOrOn ==
  OnlyBinance
  \cup {[live |-> FALSE, flags |-> TwoExchanges, needsBudget |-> TRUE]}
=============================================================================
