------------------------ MODULE Reconciliation_proofs ------------------------
(***************************************************************************)
(* What Reconciliation promises for every set of exchanges, accounts,      *)
(* settings, orders and passes: the types, that mainnet keys are used only *)
(* behind the gate, and that a pass leaves the tables as the exchange is.  *)
(*                                                                         *)
(* The gate protects by what it was called with; that the row it was       *)
(* called with is the account's is the invariant PassInv: a pass has only  *)
(* accounts before it that are there.  PassMirrors is about the last step  *)
(* of a pass; FreshInv says what the steps before it have done.            *)
(***************************************************************************)
EXTENDS Reconciliation, FiniteSetTheorems, SequenceTheorems, TLAPS

USE DEF AtExchange

\* A pass in service has an account left, and its accounts have rows.
PassInv ==
  \A p \in Passes : pass[p] # Idle =>
    /\ pass[p].todo # <<>>
    /\ \A n \in DOMAIN pass[p].todo : row[pass[p].todo[n]] # Missing

\* An order that is open lacks a lot.
LotInv ==
  \A o \in Orders : order[o] # NotSent /\ order[o].open => order[o].filled < Lots

IInv == TypeOK /\ PassInv /\ LotInv

-----------------------------------------------------------------------------
(* The gate.                                                               *)

\* A client for mainnet keys is a gated one: the testnet adapter only ever
\* gets testnet keys, and without a row the gate raises.
LEMMA MainnetKeysGated ==
  ASSUME NEW exchange, NEW dry \in BOOLEAN, NEW c, NEW r, NEW set,
         NEW budgeted \in BOOLEAN, NEW s,
         KeysWork(build_adapter(exchange, dry, c, r, set, budgeted), s),
         c.environment = "MAINNET"
  PROVE  r # Missing /\ evaluate_mainnet_gate(r, c, set, budgeted)
<1> DEFINE adapter == build_adapter(exchange, dry, c, r, set, budgeted)
<1>1. adapter.kind \in {"testnet", "mainnet"}
  BY DEF KeysWork
<1>2. adapter.kind =
        CASE dry -> "dry"
          [] ~dry /\ c.environment = "TESTNET" ->
               IF exchange = Binance THEN "testnet" ELSE "blocked"
          [] OTHER ->
               IF r = Missing THEN "raises"
               ELSE IF evaluate_mainnet_gate(r, c, set, budgeted)
                    THEN "mainnet" ELSE "blocked"
  BY DEF build_adapter
<1>3. CASE dry
  BY <1>1, <1>2, <1>3
<1>4. CASE ~dry
  <2>1. adapter.kind =
          IF r = Missing THEN "raises"
          ELSE IF evaluate_mainnet_gate(r, c, set, budgeted)
               THEN "mainnet" ELSE "blocked"
    BY <1>2, <1>4
  <2> QED BY <1>1, <2>1
<1> QED BY <1>3, <1>4

\* The keys that are found for an account with a row are its own or those of
\* the process, for the environment of the row.
LEMMA KeysOfAccount ==
  ASSUME NEW a, NEW r, NEW exchange, r # Missing
  PROVE  LET c == load_account_credentials(a, r, exchange)
         IN  c.owner \in {a, Env, Missing} /\ c.environment = r.environment
<1>1. CASE r.keys
  BY <1>1 DEF load_account_credentials
<1>2. CASE ~r.keys
  <2>1. load_account_credentials(a, r, exchange)
        = load_env_credentials(exchange, r.environment)
    BY <1>2 DEF load_account_credentials
  <2> QED BY <2>1 DEF load_env_credentials
<1> QED BY <1>1, <1>2

\* Without a row they are for the testnet.
LEMMA KeysOfNobody ==
  ASSUME NEW a, NEW exchange
  PROVE  load_account_credentials(a, Missing, exchange).environment = "TESTNET"
BY DEF load_account_credentials, load_env_credentials

-----------------------------------------------------------------------------
(* The invariant.                                                          *)

\* The assumptions on constants and the parts of TypeOK that the steps use.
LEMMA RowTyped ==
  ASSUME TypeOK
  PROVE  /\ Missing \notin Rows
         /\ \A n \in DOMAIN accounts : row[accounts[n]] # Missing
BY ConstantsAssumption, GateAssumption DEF TypeOK

LEMMA InvInit == Init => IInv
<1> SUFFICES ASSUME Init PROVE IInv
  OBVIOUS
<1>1. TypeOK
  <2>1. 0 \in Sizes
    <3>1. Cardinality(Orders) \in Nat
      BY ConstantsAssumption, FS_CardinalityType
    <3>2. Lots * Cardinality(Orders) \in Nat
      BY <3>1, ConstantsAssumption
    <3> QED BY <3>2 DEF Sizes
  <2>2. 0 \in 0..MaxEdits /\ 0 \in 0..MaxFaults
    BY ConstantsAssumption
  <2> QED BY <2>1, <2>2, ConstantsAssumption DEF Init, TypeOK, PassState
<1>2. PassInv /\ LotInv
  BY DEF Init, PassInv, LotInv
<1> QED BY <1>1, <1>2 DEF IInv

\* The orders: what reaches an exchange, and what becomes of it there.
LEMMA OrderStep ==
  ASSUME IInv, UNCHANGED <<config, tables, pass, faults>>,
         undisturbed' \subseteq Passes, NEW o \in Orders,
         NEW e \in AtExchange,
         e.open => e.filled < Lots,
         order' = [order EXCEPT ![o] = e]
  PROVE  IInv'
<1> USE DEF config, tables
<1>1. order' \in [Orders -> {NotSent} \cup AtExchange]
  BY DEF IInv, TypeOK
<1>2. TypeOK'
  BY <1>1 DEF IInv, TypeOK
<1>3. LotInv'
  BY DEF IInv, LotInv, TypeOK
<1>4. PassInv'
  BY DEF IInv, PassInv
<1> QED BY <1>2, <1>3, <1>4 DEF IInv

\* A pass: where it is next, and that the accounts before it are there.
LEMMA PassMoves ==
  ASSUME IInv, UNCHANGED <<config, order>>,
         positions' \in [Accounts -> Sizes],
         open_orders' \in [Accounts -> SUBSET Orders],
         faults' \in 0..MaxFaults, undisturbed' \subseteq Passes,
         NEW p \in Passes, NEW s \in PassState,
         s # Idle => /\ s.todo # <<>>
                     /\ \A n \in DOMAIN s.todo : row[s.todo[n]] # Missing,
         pass' = [pass EXCEPT ![p] = s]
  PROVE  IInv'
<1> USE DEF config
<1>1. TypeOK'
  BY DEF IInv, TypeOK
<1>2. PassInv'
  BY DEF IInv, PassInv, TypeOK
<1>3. LotInv'
  BY DEF IInv, LotInv
<1> QED BY <1>1, <1>2, <1>3 DEF IInv

\* The account of a pass, and what is left behind it.
LEMMA PassTodo ==
  ASSUME IInv, NEW p \in Passes, pass[p] # Idle
  PROVE  /\ pass[p].todo \in Seq(Accounts) /\ pass[p].todo # <<>>
         /\ \A n \in DOMAIN pass[p].todo : row[pass[p].todo[n]] # Missing
         /\ Account(p) \in Accounts /\ row[Account(p)] # Missing
         /\ NextAccount(p) \in PassState
         /\ NextAccount(p) # Idle =>
              /\ NextAccount(p).todo # <<>>
              /\ \A n \in DOMAIN NextAccount(p).todo :
                   row[NextAccount(p).todo[n]] # Missing
<1> DEFINE todo == pass[p].todo
<1>1. todo \in Seq(Accounts)
  BY DEF IInv, TypeOK, PassState
<1>2. todo # <<>> /\ \A n \in DOMAIN todo : row[todo[n]] # Missing
  BY DEF IInv, PassInv
<1> HIDE DEF todo
<1>3. Head(todo) \in Accounts /\ Head(todo) = todo[1] /\ 1 \in DOMAIN todo
  BY <1>1, <1>2
<1>4. CASE Len(todo) = 1
  <2>1. NextAccount(p) = Idle
    BY <1>4 DEF NextAccount, todo
  <2> QED BY <1>1, <1>2, <1>3, <2>1 DEF Account, PassState, todo
<1>5. CASE Len(todo) # 1
  <2>1. NextAccount(p) = [at |-> "positions", todo |-> Tail(todo)]
    BY <1>5 DEF NextAccount, todo
  <2>2. /\ Tail(todo) \in Seq(Accounts) /\ Tail(todo) # <<>>
        /\ \A n \in DOMAIN Tail(todo) :
             n + 1 \in DOMAIN todo /\ Tail(todo)[n] = todo[n + 1]
    <3>1. /\ Tail(todo) \in Seq(Accounts) /\ Len(Tail(todo)) = Len(todo) - 1
          /\ \A n \in 1..Len(Tail(todo)) : Tail(todo)[n] = todo[n + 1]
      BY <1>1, <1>2, HeadTailProperties
    <3>2. Len(todo) \in Nat \ {0, 1} /\ DOMAIN todo = 1..Len(todo)
      BY <1>1, <1>2, <1>5, EmptySeq, LenProperties
    <3>3. DOMAIN Tail(todo) = 1..Len(Tail(todo)) /\ Len(Tail(todo)) # 0
      BY <3>1, <3>2, LenProperties
    <3>4. Tail(todo) # <<>>
      BY <3>3, EmptySeq
    <3> QED BY <3>1, <3>2, <3>3, <3>4
  <2>3. \A n \in DOMAIN Tail(todo) : row[Tail(todo)[n]] # Missing
    BY <1>2, <2>2
  <2> QED BY <1>1, <1>2, <1>3, <2>1, <2>2, <2>3 DEF Account, PassState, todo
<1> QED BY <1>4, <1>5

\* An account that is new stands in front of the others.
LEMMA NewAccount ==
  ASSUME IInv, NEW a \in Accounts, row[a] = Missing, NEW r \in Rows,
         row' = [row EXCEPT ![a] = r], accounts' = <<a>> \o accounts,
         edits' \in 0..MaxEdits, undisturbed' = {},
         UNCHANGED <<settings, spent, order, pass, tables, faults>>
  PROVE  IInv'
<1> USE DEF tables
<1>1. r # Missing /\ accounts \in Seq(Accounts)
  BY RowTyped DEF IInv, TypeOK
<1>2. /\ accounts' \in Seq(Accounts)
      /\ DOMAIN accounts' = 1..(Len(accounts) + 1)
      /\ accounts'[1] = a
      /\ \A n \in 2..(Len(accounts) + 1) : accounts'[n] = accounts[n - 1]
  BY <1>1
<1>3. \A n \in DOMAIN accounts : accounts[n] # a
  BY RowTyped DEF IInv
<1>4. \A b \in Accounts :
        (\E n \in DOMAIN accounts' : accounts'[n] = b)
        <=> b = a \/ \E n \in DOMAIN accounts : accounts[n] = b
  <2>1. ASSUME NEW b \in Accounts, NEW n \in DOMAIN accounts, accounts[n] = b
        PROVE  \E m \in DOMAIN accounts' : accounts'[m] = b
    <3>1. n + 1 \in 2..(Len(accounts) + 1) /\ (n + 1) - 1 = n
      BY <1>1
    <3> QED BY <1>2, <2>1, <3>1
  <2>2. ASSUME NEW b \in Accounts, NEW n \in DOMAIN accounts', accounts'[n] = b
        PROVE  b = a \/ \E m \in DOMAIN accounts : accounts[m] = b
    <3>1. CASE n = 1
      BY <1>2, <2>2, <3>1
    <3>2. CASE n # 1
      <4>1. n - 1 \in DOMAIN accounts /\ accounts'[n] = accounts[n - 1]
        BY <1>1, <1>2, <3>2
      <4> QED BY <2>2, <4>1
    <3> QED BY <3>1, <3>2
  <2>3. 1 \in DOMAIN accounts'
    BY <1>1, <1>2
  <2> QED BY <1>2, <2>1, <2>2, <2>3
<1>5. \A b \in Accounts : row'[b] # Missing
                          <=> \E n \in DOMAIN accounts' : accounts'[n] = b
  BY <1>1, <1>4 DEF IInv, TypeOK
<1>6. ASSUME NEW m \in DOMAIN accounts', NEW n \in DOMAIN accounts',
             accounts'[m] = accounts'[n]
      PROVE  m = n
  <2>1. \A k \in DOMAIN accounts' :
          k # 1 => k - 1 \in DOMAIN accounts /\ accounts'[k] = accounts[k - 1]
    BY <1>1, <1>2
  <2>2. CASE m = 1 \/ n = 1
    BY <1>2, <1>3, <1>6, <2>1, <2>2
  <2>3. CASE m # 1 /\ n # 1
    <3>1. m - 1 = n - 1
      BY <1>6, <2>1, <2>3 DEF IInv, TypeOK
    <3>2. m \in Nat /\ n \in Nat
      BY <1>1, <1>2
    <3> QED BY <3>1, <3>2
  <2> QED BY <2>2, <2>3
<1>7. row' \in [Accounts -> Rows \cup {Missing}]
  BY DEF IInv, TypeOK
<1>8. TypeOK'
  BY <1>2, <1>5, <1>6, <1>7 DEF IInv, TypeOK
<1>9. PassInv'
  <2>1. \A b : row[b] # Missing => row'[b] # Missing
    BY <1>1 DEF IInv, TypeOK
  <2> QED BY <2>1 DEF IInv, PassInv
<1>10. LotInv'
  BY DEF IInv, LotInv
<1> QED BY <1>8, <1>9, <1>10 DEF IInv

\* An adapter whose keys work is one for an exchange there is, with keys.
LEMMA VenueTyped ==
  ASSUME NEW exchange \in Exchanges, NEW dry, NEW c \in Credentials, NEW r,
         NEW set, NEW budgeted
  PROVE  Venue(build_adapter(exchange, dry, c, r, set, budgeted)) \in Venues
BY DEF Venue, Venues, build_adapter

LEMMA CredentialsTyped ==
  ASSUME NEW a \in Accounts \cup {Missing}, NEW r \in AccountRow \cup {Missing},
         r # Missing => a # Missing, NEW exchange
  PROVE  load_account_credentials(a, r, exchange) \in Credentials
<1>1. CASE r = Missing
  BY <1>1 DEF load_account_credentials, load_env_credentials, Credentials,
              Environments
<1>2. CASE r # Missing /\ r.keys
  <2>1. load_account_credentials(a, r, exchange)
        = [owner |-> a, environment |-> r.environment]
    BY <1>2 DEF load_account_credentials
  <2> QED BY <1>2, <2>1 DEF Credentials, AccountRow
<1>3. CASE r # Missing /\ ~r.keys
  <2>1. load_account_credentials(a, r, exchange)
        = load_env_credentials(exchange, r.environment)
    BY <1>3 DEF load_account_credentials
  <2>2. r.environment \in Environments
    BY <1>3 DEF AccountRow
  <2> QED BY <2>1, <2>2 DEF load_env_credentials, Credentials
<1> QED BY <1>1, <1>2, <1>3

\* Where an order of either engine arrives.
LEMMA OrderArrives ==
  ASSUME IInv, UNCHANGED <<config, tables, pass, faults>>,
         NEW o \in Orders, NEW by \in Senders, NEW adapter, NEW r,
         Venue(adapter) \in Venues, OrderReaches(o, by, adapter, r)
  PROVE  IInv'
<1> DEFINE e == [at |-> "exchange", by |-> by, venue |-> Venue(adapter),
                 open |-> TRUE, filled |-> 0]
<1>1. /\ e \in AtExchange
      /\ e.open => e.filled < Lots
  BY ConstantsAssumption
<1>2. order' = [order EXCEPT ![o] = e] /\ undisturbed' = {}
  BY DEF OrderReaches
<1> HIDE DEF e
<1> QED BY <1>1, <1>2, OrderStep

LEMMA InvStep == IInv /\ [Next]_vars => IInv'
<1> SUFFICES ASSUME IInv, [Next]_vars PROVE IInv'
  OBVIOUS
<1> USE DEF config, tables
<1>0. row \in [Accounts -> AccountRow \cup {Missing}]
  BY ConstantsAssumption DEF IInv, TypeOK
<1>1. ASSUME NEW o \in Orders, NEW bot \in Bots, BotOrders(bot, o) PROVE IInv'
  <2>1. /\ bot.exchange \in Exchanges /\ bot.account \in Accounts \cup {Missing}
    BY DEF Bots
  <2>2. /\ RowOf(bot.account) \in AccountRow \cup {Missing}
        /\ RowOf(bot.account) # Missing => bot.account # Missing
    BY <1>0, <2>1 DEF RowOf
  <2>3. load_account_credentials(bot.account, RowOf(bot.account), bot.exchange)
          \in Credentials
    BY <2>1, <2>2, CredentialsTyped
  <2>4. Venue(ReleaseAdapter(bot, RowOf(bot.account), settings,
                             bot.account \notin spent)) \in Venues
    BY <2>1, <2>3, VenueTyped DEF ReleaseAdapter
  <2>5. [engine |-> "bot", bot |-> bot] \in Senders
    BY DEF Senders
  <2> QED BY <1>1, <2>4, <2>5, OrderArrives DEF BotOrders
<1>2. ASSUME NEW a \in Accounts, NEW o \in Orders, CopyOrders(a, o) PROVE IInv'
  <2>1. row[a] \in AccountRow /\ a # Missing
    BY <1>0, <1>2, GateAssumption DEF CopyOrders
  <2>2. row[a].exchange \in Exchanges
    BY <2>1 DEF AccountRow
  <2>3. load_account_credentials(a, row[a], row[a].exchange) \in Credentials
    BY <2>1, CredentialsTyped
  <2>4. Venue(CopyAdapter(a, row[a], settings)) \in Venues
    BY <2>2, <2>3, VenueTyped DEF CopyAdapter
  <2>5. [engine |-> "copy"] \in Senders
    BY DEF Senders
  <2> QED BY <1>2, <2>4, <2>5, OrderArrives DEF CopyOrders
<1>3. ASSUME NEW o \in Orders, ExchangeMoves(o) PROVE IInv'
  <2>1. /\ order[o] \in AtExchange
        /\ order[o].open => order[o].filled < Lots
    BY <1>3 DEF ExchangeMoves, IInv, TypeOK, LotInv
  <2>2. Lots \in Nat \ {0}
    BY ConstantsAssumption
  <2>3. CASE order' = [order EXCEPT ![o].filled = @ + 1,
                                    ![o].open = order[o].filled + 1 < Lots]
             /\ order[o].open
    <3> DEFINE e == [order[o] EXCEPT !.filled = @ + 1,
                                     !.open = order[o].filled + 1 < Lots]
    <3>1. /\ e \in AtExchange
          /\ e.open => e.filled < Lots
      <4> DEFINE f == order[o].filled + 1
                 g == f < Lots
      <4>1. f \in 0..Lots
        BY <2>1, <2>2, <2>3
      <4>2. g \in BOOLEAN /\ (g => f < Lots)
        OBVIOUS
      <4>3. e = [order[o] EXCEPT !.filled = f, !.open = g]
        OBVIOUS
      <4> HIDE DEF e, f, g
      <4>4. e.filled = f /\ (e.open <=> g)
        BY <2>1, <4>3
      <4>5. e \in AtExchange
        BY <2>1, <4>1, <4>2, <4>3
      <4> QED BY <4>2, <4>4, <4>5
    <3>2. order' = [order EXCEPT ![o] = e] /\ undisturbed' = {}
      BY <1>3, <2>3 DEF ExchangeMoves, IInv, TypeOK
    <3> HIDE DEF e
    <3> QED BY <1>3, <3>1, <3>2, OrderStep DEF ExchangeMoves
  <2>4. CASE order' = [order EXCEPT ![o].open = FALSE]
    <3> DEFINE e == [order[o] EXCEPT !.open = FALSE]
    <3>1. /\ e \in AtExchange
          /\ e.open => e.filled < Lots
      BY <2>1
    <3>2. order' = [order EXCEPT ![o] = e] /\ undisturbed' = {}
      BY <1>3, <2>4 DEF ExchangeMoves, IInv, TypeOK
    <3> HIDE DEF e
    <3> QED BY <1>3, <3>1, <3>2, OrderStep DEF ExchangeMoves
  <2>5. CASE order' = [order EXCEPT ![o].filled = 0]
    <3> DEFINE e == [order[o] EXCEPT !.filled = 0]
    <3>1. /\ e \in AtExchange
          /\ e.open => e.filled < Lots
      BY <2>1, <2>2
    <3>2. order' = [order EXCEPT ![o] = e] /\ undisturbed' = {}
      BY <1>3, <2>5 DEF ExchangeMoves, IInv, TypeOK
    <3> HIDE DEF e
    <3> QED BY <1>3, <3>1, <3>2, OrderStep DEF ExchangeMoves
  <2> QED BY <1>3, <2>3, <2>4, <2>5 DEF ExchangeMoves
<1>4. ASSUME NEW p \in Passes, StartPass(p) PROVE IInv'
  <2> DEFINE s == [at |-> "positions", todo |-> accounts]
  <2>1. /\ s \in PassState /\ s.todo # <<>>
        /\ \A n \in DOMAIN s.todo : row[s.todo[n]] # Missing
    BY <1>4, RowTyped DEF StartPass, IInv, TypeOK, PassState
  <2>2. undisturbed' \subseteq Passes
    BY <1>4 DEF StartPass, IInv, TypeOK
  <2>3. pass' = [pass EXCEPT ![p] = s]
    BY <1>4 DEF StartPass
  <2> HIDE DEF s
  <2> QED BY <1>4, <2>1, <2>2, <2>3, PassMoves DEF StartPass, IInv, TypeOK
<1>5. ASSUME NEW p \in Passes, PassStep(p) PROVE IInv'
  <2>1. pass[p] # Idle
    BY <1>5 DEF PassStep, NothingToFetch, PassRaises, FetchPositions,
                FetchOpenOrders, WriteAccount, Idle
  <2>2. undisturbed' \subseteq Passes /\ faults' \in 0..MaxFaults
    BY <1>5, ConstantsAssumption
    DEF PassStep, NothingToFetch, PassRaises, FetchPositions, FetchOpenOrders,
        WriteAccount, Reported, IInv, TypeOK
  <2>3. ASSUME NEW s \in PassState,
               s # Idle => /\ s.todo # <<>>
                           /\ \A n \in DOMAIN s.todo : row[s.todo[n]] # Missing,
               pass' = [pass EXCEPT ![p] = s], UNCHANGED <<config, order, tables>>
        PROVE  IInv'
    BY <2>2, <2>3, PassMoves DEF IInv, TypeOK
  <2>4. CASE NothingToFetch(p)
    BY <2>1, <2>3, <2>4, PassTodo DEF NothingToFetch
  <2>5. CASE PassRaises(p)
    BY <2>3, <2>5 DEF PassRaises, PassState
  <2>6. CASE FetchPositions(p)
    <3>1. PICK qty \in Sizes :
            pass' = [pass EXCEPT ![p] = [at |-> "orders",
                       todo |-> pass[p].todo, qty |-> qty]]
      BY <2>6 DEF FetchPositions, IInv, TypeOK
    <3>2. [at |-> "orders", todo |-> pass[p].todo, qty |-> qty] \in PassState
      BY <2>1, PassTodo DEF PassState
    <3> QED BY <2>1, <2>3, <2>6, <3>1, <3>2, PassTodo DEF FetchPositions
  <2>7. CASE FetchOpenOrders(p)
    <3>1. PICK listed \in SUBSET Orders :
            pass' = [pass EXCEPT ![p] = [at |-> "balance",
                       todo |-> pass[p].todo, qty |-> pass[p].qty,
                       listed |-> listed]]
      BY <2>7 DEF FetchOpenOrders, IInv, TypeOK
    <3>2. pass[p].qty \in Sizes
      BY <2>7 DEF FetchOpenOrders, IInv, TypeOK, PassState, Idle
    <3>3. [at |-> "balance", todo |-> pass[p].todo, qty |-> pass[p].qty,
           listed |-> listed] \in PassState
      BY <2>1, <3>2, PassTodo DEF PassState
    <3> QED BY <2>1, <2>3, <2>7, <3>1, <3>3, PassTodo DEF FetchOpenOrders
  <2>8. CASE WriteAccount(p)
    <3>1. pass[p].qty \in Sizes /\ pass[p].listed \in SUBSET Orders
      BY <2>8 DEF WriteAccount, IInv, TypeOK, PassState, Idle
    <3>2. positions' \in [Accounts -> Sizes]
      BY <2>8, <3>1 DEF WriteAccount, Upsert, IInv, TypeOK
    <3>3. open_orders' \in [Accounts -> SUBSET Orders]
      BY <2>8, <3>1 DEF WriteAccount, IInv, TypeOK
    <3>4. pass' = [pass EXCEPT ![p] = NextAccount(p)]
      BY <2>8 DEF WriteAccount
    <3>5. UNCHANGED <<config, order>>
      BY <2>8 DEF WriteAccount
    <3> QED BY <2>1, <2>2, <3>2, <3>3, <3>4, <3>5, PassTodo, PassMoves
  <2> QED BY <1>5, <2>4, <2>5, <2>6, <2>7, <2>8 DEF PassStep
<1>6. ASSUME NEW a \in Accounts, CreateAccount(a) PROVE IInv'
  <2>1. edits' \in 0..MaxEdits
    BY <1>6, ConstantsAssumption DEF CreateAccount, Edit, IInv, TypeOK
  <2> QED BY <1>6, <2>1, NewAccount DEF CreateAccount, Edit
<1>7. ASSUME NEW a \in Accounts, SetBudget(a) PROVE IInv'
  <2>1. edits' \in 0..MaxEdits
    BY <1>7, ConstantsAssumption DEF SetBudget, Edit, IInv, TypeOK
  <2>2. spent' \subseteq Accounts
    BY <1>7 DEF SetBudget, IInv, TypeOK
  <2> QED BY <1>7, <2>1, <2>2 DEF SetBudget, Edit, IInv, TypeOK, PassInv, LotInv
<1>8. CASE Restart
  <2>1. edits' \in 0..MaxEdits
    BY <1>8, ConstantsAssumption DEF Restart, Edit, IInv, TypeOK
  <2> QED
    BY <1>8, <2>1 DEF Restart, Edit, IInv, TypeOK, PassState, PassInv, LotInv
<1>9. CASE UNCHANGED vars
  BY <1>9 DEF vars, IInv, TypeOK, PassInv, LotInv
<1> QED
  BY <1>1, <1>2, <1>3, <1>4, <1>5, <1>6, <1>7, <1>8, <1>9 DEF Next

\* Every variable keeps its type, and every account its place in the list, for
\* all sets of accounts, orders and passes and all settings.
THEOREM TypeCorrect == Spec => []TypeOK
<1>1. IInv => TypeOK
  BY DEF IInv
<1> QED BY <1>1, InvInit, InvStep, PTL DEF Spec

-----------------------------------------------------------------------------
(* Mainnet.                                                                *)

\* What MainnetGated says of a step.
OrdersGated ==
  \A o \in Orders :
    order[o] = NotSent /\ order'[o] # NotSent
      /\ order'[o].venue.keys.environment = "MAINNET"
    => /\ order'[o].by.engine = "bot"
       /\ LET bot == order'[o].by.bot IN
          /\ ~bot.dry_run
          /\ RowOf(bot.account) # Missing /\ Gated(bot.account)
          /\ order'[o].venue.keys.owner \in {Env, bot.account}

PassesGated ==
  \A p \in Passes :
    pass[p] # Idle /\ pass[p].at = "positions" /\ pass'[p] # Idle
      /\ pass'[p].at = "orders"
      /\ row[Account(p)].environment = "MAINNET"
    => Gated(Account(p))

\* A mainnet order is a bot's, behind the gate of the account it names.
LEMMA OrdersGatedStep == IInv /\ [Next]_vars => OrdersGated
<1> SUFFICES ASSUME IInv, [Next]_vars, NEW o \in Orders,
                    order[o] = NotSent, order'[o] # NotSent,
                    order'[o].venue.keys.environment = "MAINNET"
             PROVE  /\ order'[o].by.engine = "bot"
                    /\ LET bot == order'[o].by.bot IN
                       /\ ~bot.dry_run
                       /\ RowOf(bot.account) # Missing /\ Gated(bot.account)
                       /\ order'[o].venue.keys.owner \in {Env, bot.account}
  BY DEF OrdersGated
<1> USE DEF config, tables
<1>1. ASSUME NEW n \in Orders, NEW by, NEW adapter, NEW r,
             OrderReaches(n, by, adapter, r)
      PROVE  /\ n = o /\ order'[o].by = by
             /\ order'[o].venue = Venue(adapter) /\ KeysWork(adapter, r)
  BY <1>1 DEF OrderReaches, IInv, TypeOK
<1>2. ASSUME NEW n \in Orders, NEW bot \in Bots, BotOrders(bot, n)
      PROVE  /\ order'[o].by.engine = "bot" /\ order'[o].by.bot = bot
             /\ ~bot.dry_run
             /\ RowOf(bot.account) # Missing /\ Gated(bot.account)
             /\ order'[o].venue.keys.owner \in {Env, bot.account}
  <2> DEFINE a == bot.account
             r == RowOf(a)
             c == load_account_credentials(a, r, bot.exchange)
             adapter == build_adapter(bot.exchange, bot.dry_run, c, r, settings,
                                      a \notin spent)
  <2>1. /\ order'[o].by = [engine |-> "bot", bot |-> bot]
        /\ order'[o].venue = Venue(adapter) /\ KeysWork(adapter, r)
    BY <1>1, <1>2 DEF BotOrders, ReleaseAdapter
  <2>2. order'[o].venue.keys = c
    BY <2>1 DEF Venue, build_adapter
  <2>3. c.environment = "MAINNET"
    BY <2>2
  <2>4. bot.dry_run \in BOOLEAN /\ a \in Accounts \cup {Missing}
    BY DEF Bots
  <2>5. ~bot.dry_run
    BY <2>1 DEF KeysWork, build_adapter
  <2> HIDE DEF c, r, a
  <2>6. r # Missing /\ evaluate_mainnet_gate(r, c, settings, a \notin spent)
    BY <2>1, <2>3, <2>4, MainnetKeysGated
  <2>7. a \in Accounts /\ r = row[a]
    BY <2>4, <2>6 DEF RowOf, r
  <2>8. c.owner \in {a, Env, Missing} /\ Ready(c)
    BY <2>1, <2>6, KeysOfAccount DEF c, evaluate_mainnet_gate
  <2>9. order'[o].venue.keys.owner \in {Env, a}
    BY <2>2, <2>8 DEF Ready
  <2>10. RowOf(a) # Missing /\ Gated(a)
    BY <2>6, <2>7 DEF evaluate_mainnet_gate, Gated, r
  <2> QED BY <2>1, <2>9, <2>5, <2>10 DEF a
<1>3. ASSUME NEW a \in Accounts, NEW n \in Orders, CopyOrders(a, n)
      PROVE  FALSE
  <2> DEFINE c == load_account_credentials(a, row[a], row[a].exchange)
             adapter == build_adapter(row[a].exchange, row[a].dry_run, c,
                                      Missing, settings, FALSE)
  <2>1. /\ order'[o].venue = Venue(adapter) /\ KeysWork(adapter, row[a])
    BY <1>1, <1>3 DEF CopyOrders, CopyAdapter
  <2>2. c.environment = "MAINNET"
    BY <2>1 DEF Venue, build_adapter
  <2>3. row[a].dry_run \in BOOLEAN
    BY <1>3, ConstantsAssumption DEF CopyOrders, IInv, TypeOK, AccountRow
  <2> HIDE DEF c
  <2> QED BY <2>1, <2>2, <2>3, MainnetKeysGated
<1>4. ASSUME NEW n \in Orders, ExchangeMoves(n) PROVE FALSE
  BY <1>4 DEF ExchangeMoves, IInv, TypeOK
<1>5. order' # order
  OBVIOUS
<1> QED
  BY <1>2, <1>3, <1>4, <1>5
  DEF Next, vars, StartPass, PassStep, NothingToFetch, PassRaises,
      FetchPositions, FetchOpenOrders, WriteAccount, CreateAccount, SetBudget,
      Restart

\* The reconciliation asks a mainnet account behind its own gate.
LEMMA PassesGatedStep == IInv /\ [Next]_vars => PassesGated
<1> SUFFICES ASSUME IInv, [Next]_vars, NEW p \in Passes,
                    pass[p] # Idle, pass[p].at = "positions",
                    pass'[p] # Idle, pass'[p].at = "orders",
                    row[Account(p)].environment = "MAINNET"
             PROVE  Gated(Account(p))
  BY DEF PassesGated
<1> USE DEF config, tables
<1>1. pass'[p] # pass[p]
  OBVIOUS
<1>2. NextAccount(p).at # "orders" \/ NextAccount(p) = Idle
  BY DEF NextAccount
<1>3. ASSUME NEW q \in Passes, PassStep(q) \/ StartPass(q)
      PROVE  q = p /\ FetchPositions(p)
  <2>1. q = p
    BY <1>1, <1>3
    DEF PassStep, StartPass, NothingToFetch, PassRaises, FetchPositions,
        FetchOpenOrders, WriteAccount, IInv, TypeOK
  <2>2. ~StartPass(p) /\ ~PassRaises(p)
    BY DEF StartPass, PassRaises, IInv, TypeOK
  <2>3. ~NothingToFetch(p)
    BY <1>2 DEF NothingToFetch, IInv, TypeOK
  <2>4. ~FetchOpenOrders(p) /\ ~WriteAccount(p)
    BY DEF FetchOpenOrders, WriteAccount
  <2> QED BY <1>3, <2>1, <2>2, <2>3, <2>4 DEF PassStep
<1>4. ~Restart
  BY DEF Restart
<1>5. FetchPositions(p)
  BY <1>1, <1>3, <1>4
  DEF Next, vars, BotOrders, CopyOrders, ExchangeMoves, CreateAccount, SetBudget
<1> DEFINE a == Account(p)
           c == load_account_credentials(a, row[a], row[a].exchange)
           adapter == build_adapter(row[a].exchange, row[a].dry_run, c, row[a],
                                    settings, a \notin spent)
<1>6. a \in Accounts /\ row[a] # Missing
  BY PassTodo
<1>7. row[a] \in AccountRow
  BY <1>6, ConstantsAssumption DEF IInv, TypeOK
<1>8. /\ adapter.kind \in {"testnet", "mainnet"} /\ Ready(adapter.keys)
      /\ adapter.keys = c
  BY <1>5 DEF FetchPositions, AdapterOf, ReconcileAdapter, build_adapter
<1> HIDE DEF a, c
<1>9. c.environment = "MAINNET"
  BY <1>6, KeysOfAccount DEF a, c
<1>10. KeysWork(adapter, [exchange |-> adapter.exchange])
  BY <1>8 DEF KeysWork
<1>11. row[a].dry_run \in BOOLEAN
  BY <1>7 DEF AccountRow
<1>12. evaluate_mainnet_gate(row[a], c, settings, a \notin spent)
  BY ZenonT(40), <1>9, <1>10, <1>11, MainnetKeysGated
<1> QED BY <1>12 DEF evaluate_mainnet_gate, Gated, a

\* Mainnet keys are used only behind the gate, for every set of accounts and
\* exchanges, whatever the operator writes into the rows of bots and accounts.
THEOREM MainnetAlwaysGated == Spec => MainnetGated
<1>1. IInv /\ [Next]_vars => OrdersGated /\ PassesGated
  BY OrdersGatedStep, PassesGatedStep
<1>2. OrdersGated /\ PassesGated
      => [/\ OrdersGated /\ PassesGated]_vars
  OBVIOUS
<1> QED BY <1>1, <1>2, InvInit, InvStep, PTL
        DEF Spec, MainnetGated, OrdersGated, PassesGated

-----------------------------------------------------------------------------
(* What a pass leaves behind.                                              *)

\* What a pass has been told of its account is still so.
Answered(p) ==
  LET venue == VenueOf(Account(p)) IN
  /\ pass[p].at \in {"orders", "balance"} /\ SizeAt(venue) > 0
       => pass[p].qty = SizeAt(venue)
  /\ pass[p].at = "balance" => OpenAt(venue) \subseteq pass[p].listed

\* Every account is before the pass, or in the tables if it can be read.
Behind(p) ==
  \A n \in DOMAIN accounts :
    \/ \E m \in DOMAIN pass[p].todo : pass[p].todo[m] = accounts[n]
    \/ Readable(accounts[n]) => Mirrors(accounts[n])

\* An undisturbed pass is alone.
FreshInv ==
  \A p \in undisturbed : pass[p] # Idle =>
    /\ \A q \in Passes \ {p} : pass[q] = Idle
    /\ Answered(p)
    /\ Behind(p)

\* What an account can be seen as depends on the settings and the accounts,
\* and what is seen of it on the orders.
LEMMA Still ==
  ASSUME UNCHANGED <<config, order>>
  PROVE  /\ \A a : /\ AdapterOf(a)' = AdapterOf(a)
                   /\ VenueOf(a)' = VenueOf(a)
                   /\ Readable(a)' <=> Readable(a)
         /\ \A v : SizeAt(v)' = SizeAt(v) /\ OpenAt(v)' = OpenAt(v)
<1> USE DEF config
<1>1. \A a : AdapterOf(a)' = AdapterOf(a)
  BY DEF AdapterOf
<1>2. \A a : VenueOf(a)' = VenueOf(a)
  BY <1>1 DEF VenueOf
<1>3. \A a : Readable(a)' <=> Readable(a)
  BY <1>1 DEF Readable
<1>4. \A v : At(v)' = At(v)
  BY DEF At
<1>5. \A v : SizeAt(v)' = SizeAt(v) /\ OpenAt(v)' = OpenAt(v)
  BY <1>4 DEF SizeAt, OpenAt
<1> QED BY <1>1, <1>2, <1>3, <1>5

\* An account before a pass is its next one or still before it after that.
LEMMA NextTodo ==
  ASSUME IInv, NEW p \in Passes, pass[p] # Idle, NEW m \in DOMAIN pass[p].todo
  PROVE  \/ pass[p].todo[m] = Account(p)
         \/ /\ NextAccount(p) # Idle
            /\ \E k \in DOMAIN NextAccount(p).todo :
                 NextAccount(p).todo[k] = pass[p].todo[m]
<1> DEFINE todo == pass[p].todo
<1>1. todo \in Seq(Accounts) /\ todo # <<>>
  BY PassTodo
<1>2. Account(p) = todo[1]
  BY <1>1 DEF Account
<1>3. CASE m = 1
  BY <1>2, <1>3
<1>4. CASE m # 1
  <2>1. /\ Len(todo) # 1 /\ m \in 2..Len(todo)
        /\ Len(Tail(todo)) = Len(todo) - 1
        /\ Tail(todo) \in Seq(Accounts)
        /\ \A k \in 1..Len(Tail(todo)) : Tail(todo)[k] = todo[k + 1]
    <3> HIDE DEF todo
    <3> QED BY <1>1, <1>4, HeadTailProperties, LenProperties DEF todo
  <2>2. NextAccount(p) = [at |-> "positions", todo |-> Tail(todo)]
    BY <2>1 DEF NextAccount
  <2>3. m - 1 \in DOMAIN Tail(todo) /\ Tail(todo)[m - 1] = todo[m]
    <3> HIDE DEF todo
    <3>1. m - 1 \in 1..Len(Tail(todo)) /\ (m - 1) + 1 = m
      BY <1>1, <2>1, LenProperties
    <3> QED BY <2>1, <3>1, LenProperties
  <2> QED BY <2>2, <2>3 DEF Idle
<1> QED BY <1>3, <1>4

\* When an undisturbed pass has done with an account, it is in the tables, and
\* so is every other account behind the pass.
LEMMA AccountDone ==
  ASSUME IInv, FreshInv, NEW p \in Passes, p \in undisturbed,
         NothingToFetch(p) \/ WriteAccount(p),
         NEW n \in DOMAIN accounts, NEW a \in Accounts, accounts[n] = a
  PROVE  \/ /\ NextAccount(p) # Idle
            /\ \E k \in DOMAIN NextAccount(p).todo :
                 NextAccount(p).todo[k] = a
         \/ Readable(a) => Mirrors(a)'
<1>1. pass[p] # Idle
  BY DEF NothingToFetch, WriteAccount, Idle
<1>2. /\ UNCHANGED <<config, order>>
      /\ accounts' = accounts
  BY DEF NothingToFetch, WriteAccount, config
<1>3. Answered(p) /\ Behind(p)
  BY <1>1 DEF FreshInv
<1>4. Account(p) \in Accounts
  BY <1>1, PassTodo
<1>5. /\ \A b : VenueOf(b)' = VenueOf(b)
      /\ \A v : SizeAt(v)' = SizeAt(v) /\ OpenAt(v)' = OpenAt(v)
  BY <1>2, Still
<1>6. SUFFICES ASSUME Readable(a), a = Account(p) \/ Mirrors(a)
               PROVE  Mirrors(a)'
  BY <1>1, <1>2, <1>3, NextTodo DEF Behind
<1>7. CASE NothingToFetch(p)
  <2>1. a # Account(p)
    BY <1>6, <1>7 DEF NothingToFetch, Readable, KeysWork
  <2>2. Mirrors(a) /\ UNCHANGED tables
    BY <1>6, <1>7, <2>1 DEF NothingToFetch
  <2> QED BY <1>5, <2>2 DEF Mirrors, tables
<1>8. CASE WriteAccount(p)
  <2>1. /\ positions' = [positions EXCEPT ![Account(p)] =
                           Upsert(positions[Account(p)], pass[p].qty)]
        /\ open_orders' = [open_orders EXCEPT ![Account(p)] =
                             open_orders[Account(p)] \cup pass[p].listed]
        /\ pass[p].at = "balance"
    BY <1>8 DEF WriteAccount
  <2>2. positions \in [Accounts -> Sizes] /\ open_orders \in [Accounts -> SUBSET Orders]
    BY DEF IInv, TypeOK
  <2>3. CASE a = Account(p)
    <3>1. positions'[a] = Upsert(positions[a], pass[p].qty)
      BY <1>4, <2>1, <2>2, <2>3
    <3>2. open_orders'[a] = open_orders[a] \cup pass[p].listed
      BY <1>4, <2>1, <2>2, <2>3
    <3>3. /\ SizeAt(VenueOf(a)) > 0 => pass[p].qty = SizeAt(VenueOf(a))
          /\ OpenAt(VenueOf(a)) \subseteq pass[p].listed
      BY <1>3, <2>1, <2>3 DEF Answered
    <3>4. SizeAt(VenueOf(a)) > 0 => positions'[a] = SizeAt(VenueOf(a))
      BY <3>1, <3>3 DEF Upsert
    <3> QED BY <1>5, <3>2, <3>3, <3>4 DEF Mirrors
  <2>4. CASE a # Account(p)
    <3>1. positions'[a] = positions[a] /\ open_orders'[a] = open_orders[a]
      BY <1>4, <2>1, <2>2, <2>4
    <3> QED BY <1>5, <1>6, <2>4, <3>1 DEF Mirrors
  <2> QED BY <2>3, <2>4
<1> QED BY <1>7, <1>8

\* A pass that starts has every account before it.
LEMMA FreshStart ==
  ASSUME IInv, FreshInv, NEW p \in Passes, StartPass(p)
  PROVE  FreshInv'
<1>1. pass' = [pass EXCEPT ![p] = [at |-> "positions", todo |-> accounts]]
  BY DEF StartPass
<1>2. CASE \A q \in Passes : pass[q] = Idle
  <2>1. \A q \in Passes \ {p} : pass'[q] = Idle
    BY <1>1, <1>2 DEF IInv, TypeOK
  <2>2. pass'[p] = [at |-> "positions", todo |-> accounts] /\ accounts' = accounts
    BY <1>1 DEF StartPass, config, IInv, TypeOK
  <2>3. Answered(p)' /\ Behind(p)'
    BY <2>2 DEF Answered, Behind
  <2>4. undisturbed' \subseteq Passes
    BY <1>2 DEF StartPass, IInv, TypeOK
  <2> QED BY <2>1, <2>3, <2>4 DEF FreshInv
<1>3. CASE ~ \A q \in Passes : pass[q] = Idle
  BY <1>3 DEF StartPass, FreshInv
<1> QED BY <1>2, <1>3

\* A step of a pass is seen by no other undisturbed one.
LEMMA FreshPassStep ==
  ASSUME IInv, FreshInv, NEW p \in Passes, PassStep(p)
  PROVE  FreshInv'
<1>1. pass[p] # Idle
  BY DEF PassStep, NothingToFetch, PassRaises, FetchPositions,
         FetchOpenOrders, WriteAccount, Idle
<1>2. /\ undisturbed' \subseteq undisturbed
      /\ undisturbed \subseteq Passes
      /\ UNCHANGED <<config, order>> /\ accounts' = accounts
      /\ \A q \in Passes \ {p} : pass'[q] = pass[q]
  BY DEF PassStep, NothingToFetch, PassRaises, FetchPositions,
         FetchOpenOrders, WriteAccount, Reported, IInv, TypeOK, config
<1>3. SUFFICES ASSUME p \in undisturbed', pass'[p] # Idle
               PROVE  /\ \A q \in Passes \ {p} : pass'[q] = Idle
                      /\ Answered(p)'
                      /\ Behind(p)'
  <2>1. \A q \in undisturbed' : q # p => pass'[q] = Idle
    BY <1>1, <1>2 DEF FreshInv
  <2> QED BY <2>1 DEF FreshInv
<1>4. /\ \A q \in Passes \ {p} : pass'[q] = Idle
      /\ Answered(p) /\ Behind(p) /\ p \in undisturbed
  BY <1>1, <1>2, <1>3 DEF FreshInv
<1>5. /\ \A b : VenueOf(b)' = VenueOf(b) /\ (Readable(b)' <=> Readable(b))
      /\ \A v : SizeAt(v)' = SizeAt(v) /\ OpenAt(v)' = OpenAt(v)
  BY <1>2, Still
<1>6. CASE NothingToFetch(p) \/ WriteAccount(p)
  <2>1. pass'[p] = NextAccount(p)
    BY <1>6 DEF NothingToFetch, WriteAccount, IInv, TypeOK
  <2>2. pass'[p].at = "positions"
    BY <1>3, <2>1 DEF NextAccount
  <2>3. \A n \in DOMAIN accounts : accounts[n] \in Accounts
    BY DEF IInv, TypeOK
  <2>4. Behind(p)'
    BY <1>2, <1>4, <1>5, <1>6, <2>1, <2>3, AccountDone DEF Behind
  <2> QED BY <1>4, <2>2, <2>4 DEF Answered
<1>7. ~PassRaises(p)
  BY <1>3 DEF PassRaises
<1>8. ASSUME pass'[p].todo = pass[p].todo, UNCHANGED tables
      PROVE  Behind(p)' /\ Account(p)' = Account(p)
  <2>1. \A b : Mirrors(b)' <=> Mirrors(b)
    BY <1>5, <1>8 DEF Mirrors, tables
  <2> QED BY <1>2, <1>4, <1>5, <1>8, <2>1 DEF Behind, Account
<1>9. CASE FetchPositions(p)
  <2>1. PICK size \in Listed(SizeAt(VenueOf(Account(p)))), qty \in Sizes :
          /\ Reported(p, size, 0, qty)
          /\ pass' = [pass EXCEPT ![p] =
                        [at |-> "orders", todo |-> @.todo, qty |-> qty]]
    BY <1>9 DEF FetchPositions
  <2>2. pass'[p] = [at |-> "orders", todo |-> pass[p].todo, qty |-> qty]
    BY <2>1 DEF IInv, TypeOK
  <2>3. qty = size
    BY <1>3, <2>1 DEF Reported
  <2>4. SizeAt(VenueOf(Account(p))) > 0 => qty = SizeAt(VenueOf(Account(p)))
    BY <2>1, <2>3 DEF Listed
  <2>5. Behind(p)' /\ Account(p)' = Account(p)
    BY <1>8, <1>9, <2>2 DEF FetchPositions
  <2> QED BY <1>4, <1>5, <2>2, <2>4, <2>5 DEF Answered
<1>10. CASE FetchOpenOrders(p)
  <2>1. PICK listed \in SUBSET Orders :
          /\ Reported(p, OpenAt(VenueOf(Account(p))), {}, listed)
          /\ pass' = [pass EXCEPT ![p] =
                        [at |-> "balance", todo |-> @.todo, qty |-> @.qty,
                         listed |-> listed]]
    BY <1>10 DEF FetchOpenOrders
  <2>2. pass'[p] = [at |-> "balance", todo |-> pass[p].todo,
                    qty |-> pass[p].qty, listed |-> listed]
    BY <2>1 DEF IInv, TypeOK
  <2>3. listed = OpenAt(VenueOf(Account(p)))
    BY <1>3, <2>1 DEF Reported
  <2>4. pass[p].at = "orders"
    BY <1>10 DEF FetchOpenOrders
  <2>5. Behind(p)' /\ Account(p)' = Account(p)
    BY <1>8, <1>10, <2>2 DEF FetchOpenOrders
  <2> QED BY <1>4, <1>5, <2>2, <2>3, <2>4, <2>5 DEF Answered
<1> QED BY <1>6, <1>7, <1>9, <1>10 DEF PassStep

LEMMA FreshStep == IInv /\ FreshInv /\ [Next]_vars => FreshInv'
<1> SUFFICES ASSUME IInv, FreshInv, [Next]_vars PROVE FreshInv'
  OBVIOUS
<1>1. CASE undisturbed' = {}
  BY <1>1 DEF FreshInv
<1>2. ASSUME NEW p \in Passes, StartPass(p) PROVE FreshInv'
  BY <1>2, FreshStart
<1>3. ASSUME NEW p \in Passes, PassStep(p) PROVE FreshInv'
  BY <1>3, FreshPassStep
<1>4. CASE UNCHANGED vars
  <2>1. UNCHANGED <<config, order, pass, tables, accounts, undisturbed>>
    BY <1>4 DEF vars, config, tables
  <2>2. \A p : Answered(p)' <=> Answered(p)
    BY <2>1, Still DEF Answered, Account
  <2>3. \A a : Mirrors(a)' <=> Mirrors(a)
    BY <2>1, Still DEF Mirrors, tables
  <2>4. \A p : Behind(p)' <=> Behind(p)
    BY <2>1, <2>3, Still DEF Behind
  <2> QED BY <2>1, <2>2, <2>4 DEF FreshInv
<1> QED BY <1>1, <1>2, <1>3, <1>4
        DEF Next, BotOrders, CopyOrders, OrderReaches, ExchangeMoves,
            CreateAccount, SetBudget, Restart, Edit

\* What PassMirrors says of a step.
EndsMirrored ==
  \A p \in Passes :
    (/\ pass[p] # Idle /\ pass'[p] = Idle
     /\ p \in undisturbed /\ p \in undisturbed')
    => \A a \in Accounts : Readable(a) => Mirrors(a)'

LEMMA EndsMirroredStep == IInv /\ FreshInv /\ [Next]_vars => EndsMirrored
<1> SUFFICES ASSUME IInv, FreshInv, [Next]_vars, NEW p \in Passes,
                    pass[p] # Idle, pass'[p] = Idle,
                    p \in undisturbed, p \in undisturbed',
                    NEW a \in Accounts, Readable(a)
             PROVE  Mirrors(a)'
  BY DEF EndsMirrored
<1>1. ASSUME NEW q \in Passes, StartPass(q) PROVE FALSE
  BY <1>1 DEF StartPass, IInv, TypeOK, Idle
<1>2. ASSUME NEW q \in Passes, PassStep(q)
      PROVE  NothingToFetch(p) \/ WriteAccount(p)
  <2>1. q = p
    BY <1>2 DEF PassStep, NothingToFetch, PassRaises, FetchPositions,
                FetchOpenOrders, WriteAccount, IInv, TypeOK
  <2>2. ~PassRaises(p)
    BY DEF PassRaises
  <2>3. ~FetchPositions(p) /\ ~FetchOpenOrders(p)
    BY DEF FetchPositions, FetchOpenOrders, IInv, TypeOK, Idle
  <2> QED BY <1>2, <2>1, <2>2, <2>3 DEF PassStep
<1>3. NothingToFetch(p) \/ WriteAccount(p)
  BY <1>1, <1>2
  DEF Next, BotOrders, CopyOrders, OrderReaches, ExchangeMoves, CreateAccount,
      SetBudget, Restart, Edit, vars
<1>4. NextAccount(p) = Idle
  BY <1>3 DEF NothingToFetch, WriteAccount, IInv, TypeOK
<1>5. PICK n \in DOMAIN accounts : accounts[n] = a
  BY DEF Readable, IInv, TypeOK
<1> QED BY <1>3, <1>4, <1>5, AccountDone

\* A pass that nothing disturbs leaves every account that it can read in the
\* tables, for every number of accounts, orders and lots (reconciliation.py).
THEOREM PassesMirror == Spec => PassMirrors
<1>1. Init => FreshInv
  BY DEF Init, FreshInv
<1>2. IInv /\ FreshInv /\ [Next]_vars => EndsMirrored
  BY EndsMirroredStep
<1> QED BY <1>1, <1>2, InvInit, InvStep, FreshStep, PTL
        DEF Spec, PassMirrors, EndsMirrored
=============================================================================
