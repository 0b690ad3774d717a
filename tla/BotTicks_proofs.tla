-------------------------- MODULE BotTicks_proofs ---------------------------
(***************************************************************************)
(* What BotTicks promises for every set of rows, settings and prices and   *)
(* any number of edits, restarts and failures.                             *)
(*                                                                         *)
(* LimitsInForce is not inductive: a tick in service places what it has    *)
(* decided long before.  TickInv says what a tick keeps of the check until *)
(* then: its row was in force since it began, the live switch was on, and  *)
(* the orders it has left fit the row and the global limit.                *)
(*                                                                         *)
(* Nor is ExposureBounded: a tick that has decided has not placed yet what *)
(* it will.  Paid counts the orders of every situation against its limit as*)
(* soon as it is decided, and whatever is placed is one of them.           *)
(***************************************************************************)
EXTENDS BotTicks, Strategies_proofs, FiniteSetTheorems, FunctionTheorems,
        WellFoundedInduction

TickInv ==
  /\ tick # Idle => tick.bot \in inForce
  /\ tick.at = "orders" =>
       /\ tick.bot.dry_run \/ deployment.live
       /\ \A n \in DOMAIN tick.todo :
            /\ Fits(tick.bot, tick.todo[n])
            /\ tick.todo[n].notional <= GlobalMax

IInv == TypeOK /\ TickInv

-----------------------------------------------------------------------------
(* Deciding.                                                               *)

\* A tick always has a snapshot with a price.
LEMMA SnapshotTyped ==
  ASSUME TypeOK, NEW bot \in Bot
  PROVE  SnapshotFor(bot) \in Snapshot
BY BotColumns, StrategyAssumption DEF SnapshotFor, poll_market_snapshot, Snapshot

\* What passes the check is within the global limit, valued at its notional
\* or, for want of one, whatever it is valued at.
LEMMA AllowedWithinGlobal ==
  ASSUME NEW bot \in Bot, NEW o \in Order, OrderAllowed(bot, o)
  PROVE  o.notional <= GlobalMax
<1>1. o.notional \in Nat
  BY DEF Order
<1>2. CASE o.notional > 0
  <2>1. ~(o.notional <= 0)
    BY <1>1, <1>2
  <2>2. Notional(bot, o) = o.notional
    BY <1>2, <2>1, Zenon DEF Notional
  <2> QED BY <2>2 DEF OrderAllowed
<1>3. CASE o.notional = 0
  BY <1>3, StrategyAssumption
<1> QED BY <1>1, <1>2, <1>3

LEMMA PassedWithinGlobal ==
  ASSUME NEW bot \in Bot, Passes(bot), NEW n \in DOMAIN Decision(bot),
         Decision(bot)[n] \in Order
  PROVE  Decision(bot)[n].notional <= GlobalMax
BY AllowedWithinGlobal DEF Passes, pre_trade_risk_check

\* The three shapes of a tick.
LEMMA TickShapes ==
  /\ Idle \in TickState
  /\ \A bot \in Bot : [at |-> "snapshot", bot |-> bot] \in TickState
  /\ \A bot \in Bot, mark \in Nat \ {0}, todo \in Seq(Order) :
       [at |-> "orders", bot |-> bot, mark_price |-> mark, todo |-> todo]
         \in TickState
BY DEF TickState, Idle

\* What is known of a tick by where it is.
LEMMA TickColumns ==
  ASSUME tick \in TickState
  PROVE  /\ tick # Idle => tick.bot \in Bot
         /\ tick.at = "snapshot" => tick # Idle
         /\ tick.at = "orders" =>
              /\ tick # Idle
              /\ tick.mark_price \in Nat \ {0}
              /\ tick.todo \in Seq(Order)
              /\ tick = [at |-> "orders", bot |-> tick.bot,
                         mark_price |-> tick.mark_price, todo |-> tick.todo]
BY DEF TickState, Idle

-----------------------------------------------------------------------------
(* The invariant.                                                          *)

LEMMA InvInit == Init => IInv
<1> SUFFICES ASSUME Init PROVE IInv
  OBVIOUS
<1>1. TypeOK
  BY TicksAssumption, TickShapes DEF Init, TypeOK
<1>2. TickInv
  BY DEF Init, TickInv, Idle
<1> QED BY <1>1, <1>2 DEF IInv

\* A tick that is over asks for nothing.
LEMMA IdleInv ==
  ASSUME tick' = Idle
  PROVE  TickInv'
BY DEF TickInv, Idle

LEMMA InvDecide ==
  ASSUME IInv, Decide
  PROVE  IInv'
<1> DEFINE bot == tick.bot
           mark == SnapshotFor(bot).mark_price
           todo == Decision(bot)
<1>1. bot \in Bot /\ TypeOK /\ bot \in inForce
  BY TickColumns DEF IInv, TypeOK, TickInv, Decide
<1>2. mark \in Nat \ {0} /\ DecisionFits(bot, todo)
  BY <1>1, SnapshotTyped, StrategiesFit DEF Snapshot, Decision
<1>3. CASE Passes(bot)
  <2>1. /\ tick' = [at |-> "orders", bot |-> bot, mark_price |-> mark,
                    todo |-> todo]
        /\ decided' = decided \cup {Situation(bot, mark)}
        /\ UNCHANGED <<inForce, row, deployment, table, placed, edits,
                       restarts, faults>>
    BY <1>3 DEF Decide
  <2>2. \A n \in DOMAIN todo :
          Fits(bot, todo[n]) /\ todo[n].notional <= GlobalMax
    BY <1>1, <1>2, <1>3, PassedWithinGlobal DEF DecisionFits, Fits
  <2>3. bot.dry_run \/ deployment.live
    BY <1>3 DEF Passes, pre_trade_risk_check
  <2>4. Situation(bot, mark) \in Situations
    BY <1>1, <1>2 DEF Situation, Situations, Bot
  <2>5. todo \in Seq(Order)
    BY <1>2 DEF DecisionFits
  <2> HIDE DEF bot, mark, todo
  <2>6. tick' \in TickState
    BY <1>1, <1>2, <2>1, <2>5, TickShapes
  <2>7. TickInv'
    BY <1>1, <2>1, <2>2, <2>3 DEF TickInv
  <2> QED BY <1>1, <2>1, <2>4, <2>6, <2>7 DEF IInv, TypeOK, table
<1>4. CASE ~Passes(bot)
  <2>1. EndTick /\ UNCHANGED decided
    BY <1>4 DEF Decide
  <2>2. TickInv'
    BY <2>1, IdleInv DEF EndTick
  <2> QED BY <1>1, <2>1, <2>2, TickShapes DEF IInv, TypeOK, EndTick, Decide, table
<1> QED BY <1>3, <1>4

\* The order in hand and its key.
LEMMA CurrentFits ==
  ASSUME IInv, Handling
  PROVE  /\ Current \in Order /\ Fits(tick.bot, Current)
         /\ Current.notional <= GlobalMax
         /\ Key(Current) \in Keys
<1>1. tick.todo \in Seq(Order) /\ tick.todo # <<>>
  BY TickColumns DEF IInv, TypeOK, Handling
<1>2. 1 \in DOMAIN tick.todo /\ Current = tick.todo[1]
  BY <1>1 DEF Current
<1>3. Fits(tick.bot, Current) /\ Current.notional <= GlobalMax
  BY <1>2 DEF IInv, TickInv, Handling
<1>4. Current \in Order
  BY <1>3 DEF Fits
<1>5. Key(Current) \in Keys
  BY <1>4 DEF Key, Keys, Order
<1> QED BY <1>3, <1>4, <1>5

\* What is left of a tick that goes on.
LEMMA TailOfTick ==
  ASSUME NEW bot, NEW mark, NEW todo, NEW rest
  PROVE  [[at |-> "orders", bot |-> bot, mark_price |-> mark,
           todo |-> todo] EXCEPT !.todo = rest]
           = [at |-> "orders", bot |-> bot, mark_price |-> mark,
              todo |-> rest]
OBVIOUS

\* Going on with the next order leaves the others as they were.
LEMMA NextOrderInv ==
  ASSUME IInv, Handling, NextOrder, UNCHANGED <<deployment, inForce>>
  PROVE  tick' \in TickState /\ TickInv'
<1> DEFINE t == tick
<1>1. /\ t.bot \in Bot /\ t.mark_price \in Nat \ {0}
      /\ t.todo \in Seq(Order) /\ t.todo # <<>>
      /\ t = [at |-> "orders", bot |-> t.bot, mark_price |-> t.mark_price,
              todo |-> t.todo]
  BY TickColumns DEF IInv, TypeOK, Handling
<1>2. tick' = [at |-> "orders", bot |-> t.bot, mark_price |-> t.mark_price,
               todo |-> Tail(t.todo)]
  <2>1. \A u : u = t => [u EXCEPT !.todo = Tail(t.todo)]
                        = [t EXCEPT !.todo = Tail(t.todo)]
    OBVIOUS
  <2>2. tick' = [[at |-> "orders", bot |-> t.bot, mark_price |-> t.mark_price,
                  todo |-> t.todo] EXCEPT !.todo = Tail(t.todo)]
    BY <1>1, <2>1, Zenon DEF NextOrder
  <2> QED BY <2>2, TailOfTick
<1>3. /\ Tail(t.todo) \in Seq(Order)
      /\ \A n \in DOMAIN Tail(t.todo) :
           n + 1 \in DOMAIN t.todo /\ Tail(t.todo)[n] = t.todo[n + 1]
  BY <1>1
<1>4. /\ t.bot \in inForce
      /\ t.bot.dry_run \/ deployment.live
      /\ \A n \in DOMAIN t.todo :
           Fits(t.bot, t.todo[n]) /\ t.todo[n].notional <= GlobalMax
  BY <1>1 DEF IInv, TickInv, Handling, Idle
<1> HIDE DEF t
<1>5. tick' \in TickState
  BY <1>1, <1>2, <1>3, TickShapes
<1>6. TickInv'
  BY <1>2, <1>3, <1>4 DEF TickInv
<1> QED BY <1>5, <1>6

\* IInv is inductive.
LEMMA InvStep == IInv /\ [Next]_vars => IInv'
<1> SUFFICES ASSUME IInv, [Next]_vars PROVE IInv'
  OBVIOUS
<1>1. CASE BeginTick
  <2>1. row \in Bot /\ tick' = [at |-> "snapshot", bot |-> row]
    BY <1>1 DEF BeginTick, IInv, TypeOK
  <2>2. TickInv'
    BY <1>1 DEF BeginTick, TickInv, Idle
  <2>3. tick' \in TickState
    BY <2>1, TickShapes
  <2> QED BY <1>1, <2>1, <2>2, <2>3 DEF BeginTick, IInv, TypeOK, table
<1>2. CASE Decide
  BY <1>2, InvDecide
<1>3. ASSUME Handling, NextOrder, UNCHANGED <<row, deployment, edits, restarts,
                                              inForce, decided>>,
             sent' \subseteq Keys, simulated' \subseteq Keys,
             failed' \subseteq Keys, placed' \subseteq Order,
             faults' \in 0..MaxFaults
      PROVE  IInv'
  BY <1>3, NextOrderInv DEF IInv, TypeOK
<1>4. CASE Skip
  BY <1>3, <1>4 DEF Skip, IInv, TypeOK, table
<1>f. Fault => faults' \in 0..MaxFaults
  BY TicksAssumption DEF Fault, IInv, TypeOK
<1>e. ASSUME EndTick, UNCHANGED <<row, deployment, edits, restarts, decided>>,
             sent' \subseteq Keys, simulated' \subseteq Keys,
             failed' \subseteq Keys, placed' \subseteq Order,
             faults' \in 0..MaxFaults
      PROVE  IInv'
  <2>1. TickInv' /\ tick' \in TickState /\ inForce' = {}
    BY <1>e, IdleInv, TickShapes DEF EndTick
  <2> QED BY <1>e, <2>1 DEF IInv, TypeOK
<1>5. CASE Simulate
  <2>1. /\ Handling /\ failed' \subseteq Keys /\ simulated' \subseteq Keys
        /\ faults' \in 0..MaxFaults
        /\ UNCHANGED <<row, deployment, sent, placed, edits, restarts, decided>>
    BY <1>5, <1>f, CurrentFits DEF Simulate, GiveUp, IInv, TypeOK
  <2>2. sent' \subseteq Keys /\ placed' \subseteq Order
    BY <2>1 DEF IInv, TypeOK
  <2>3. (NextOrder /\ UNCHANGED inForce) \/ EndTick
    BY <1>5 DEF Simulate, GiveUp
  <2> QED BY <1>3, <1>e, <2>1, <2>2, <2>3
<1>6. CASE Sync
  BY <1>3, <1>6, CurrentFits DEF Sync, IInv, TypeOK
<1>7. CASE Place
  <2>1. /\ Handling /\ failed' \subseteq Keys /\ sent' \subseteq Keys
        /\ placed' \subseteq Order /\ faults' \in 0..MaxFaults
        /\ UNCHANGED <<row, deployment, simulated, edits, restarts, decided>>
    BY <1>7, <1>f, CurrentFits DEF Place, Sends, IInv, TypeOK
  <2>2. simulated' \subseteq Keys
    BY <2>1 DEF IInv, TypeOK
  <2>3. (NextOrder /\ UNCHANGED inForce) \/ EndTick
    BY <1>7 DEF Place
  <2> QED BY <1>3, <1>e, <2>1, <2>2, <2>3
<1>8. CASE Refuse
  <2>1. /\ Handling /\ failed' \subseteq Keys /\ faults' \in 0..MaxFaults
        /\ UNCHANGED <<row, deployment, sent, simulated, placed, edits, restarts,
                       decided>>
    BY <1>8, <1>f, CurrentFits DEF Refuse, Sends, GiveUp, IInv, TypeOK
  <2>2. sent' \subseteq Keys /\ simulated' \subseteq Keys /\ placed' \subseteq Order
    BY <2>1 DEF IInv, TypeOK
  <2>3. (NextOrder /\ UNCHANGED inForce) \/ EndTick
    BY <1>8 DEF Refuse, GiveUp
  <2> QED BY <1>3, <1>e, <2>1, <2>2, <2>3
<1>9. CASE LoseAnswer
  <2>1. placed' \subseteq Order
    BY <1>9, CurrentFits DEF LoseAnswer, Sends, IInv, TypeOK
  <2> QED BY <1>9, <1>e, <1>f, <2>1 DEF LoseAnswer, Sends, IInv, TypeOK, table
<1>14. CASE LookupRaises
  BY <1>14, <1>e, <1>f DEF LookupRaises, IInv, TypeOK, table
<1>10. CASE FinishTick
  <2>1. TickInv' /\ tick' \in TickState /\ inForce' = {}
    BY <1>10, IdleInv, TickShapes DEF FinishTick, EndTick
  <2> QED BY <1>10, <2>1 DEF FinishTick, IInv, TypeOK, table
<1>11. CASE EditBot
  <2>1. row' \in Bot
    BY <1>11, TicksAssumption DEF EditBot
  <2>2. edits' \in 0..MaxEdits
    BY <1>11, TicksAssumption DEF EditBot, IInv, TypeOK
  <2>3. inForce' \subseteq Bot
    BY <1>11, <2>1 DEF EditBot, IInv, TypeOK
  <2>4. TickInv'
    BY <1>11 DEF EditBot, IInv, TickInv
  <2> QED BY <1>11, <2>1, <2>2, <2>3, <2>4 DEF EditBot, IInv, TypeOK, table
<1>12. CASE Restart
  <2>1. deployment' \in Deployment
    BY <1>12, TicksAssumption DEF Restart
  <2>2. restarts' \in 0..MaxRestarts
    BY <1>12, TicksAssumption DEF Restart, IInv, TypeOK
  <2>3. TickInv' /\ tick' \in TickState /\ inForce' = {}
    BY <1>12, IdleInv, TickShapes DEF Restart, EndTick
  <2> QED BY <1>12, <2>1, <2>2, <2>3 DEF Restart, IInv, TypeOK, table
<1>13. CASE UNCHANGED vars
  BY <1>13 DEF vars, IInv, TypeOK, TickInv
<1> QED BY <1>1, <1>2, <1>4, <1>5, <1>6, <1>7, <1>8, <1>9, <1>10, <1>11, <1>12,
           <1>13, <1>14 DEF Next, TickStep

-----------------------------------------------------------------------------
(* The theorems.                                                           *)

\* Every tick, order, key and situation has its type, whatever rows the
\* operator writes and whatever fails.
THEOREM TypeCorrect == Spec => []TypeOK
<1>1. IInv => TypeOK
  BY DEF IInv
<1> QED BY <1>1, InvInit, InvStep, PTL DEF Spec

\* What a step sends to the exchange.
LEMMA SentWithinLimits ==
  ASSUME IInv, [Next]_vars, NEW o \in placed' \ placed
  PROVE  /\ deployment.live
         /\ o.notional <= GlobalMax
         /\ \E bot \in inForce :
              /\ ~bot.dry_run /\ bot.exchange = o.exchange
              /\ o.notional <= bot.max_position
              /\ o.notional <= bot.risk_per_tick
<1>1. Sends /\ o = Current
  BY DEF Next, TickStep, BeginTick, Decide, Skip, Simulate, Sync, Place, Refuse,
         LookupRaises, LoseAnswer, FinishTick, EditBot, Restart, vars
<1>2. /\ Fits(tick.bot, o) /\ o.notional <= GlobalMax
      /\ ~tick.bot.dry_run
  BY <1>1, CurrentFits DEF Sends
<1>3. tick.bot \in inForce /\ deployment.live
  BY <1>1, <1>2 DEF Sends, Handling, IInv, TickInv, Idle
<1> QED BY <1>2, <1>3 DEF Fits

\* Every order that is sent is within the limits of a row that was in force
\* while its tick was in service, and under the live switch: for every
\* strategy, row, price and setting, and any number of edits and restarts.
THEOREM LimitsAlwaysInForce == Spec => LimitsInForce
<1>1. IInv /\ [Next]_vars =>
        [\A o \in placed' \ placed :
           /\ deployment.live
           /\ o.notional <= GlobalMax
           /\ \E bot \in inForce :
                /\ ~bot.dry_run /\ bot.exchange = o.exchange
                /\ o.notional <= bot.max_position
                /\ o.notional <= bot.risk_per_tick]_vars
  BY SentWithinLimits
<1> QED BY <1>1, InvInit, InvStep, PTL DEF Spec, LimitsInForce

\* No decision has a rung that is another's duplicate or on the wrong side of
\* the mark, for every row whose grid has room.
THEOREM RungsAlwaysApart == Spec => []RungsApart
<1>1. TypeOK => RungsApart
  <2> SUFFICES ASSUME TypeOK, NEW s \in decided, Spacious(s)
               PROVE
      LET orders == run_strategy(s.bot, [mark_price   |-> s.mark_price,
                                         funding_rate |-> 0])
      IN /\ \A m, n \in DOMAIN orders :
              Key(orders[m]) = Key(orders[n]) => m = n
         /\ \A n \in DOMAIN orders :
              orders[n].type = "LIMIT" =>
                /\ orders[n].side = "BUY" =>
                     0 < orders[n].price /\ orders[n].price < s.mark_price
                /\ orders[n].side = "SELL" => s.mark_price < orders[n].price
    BY DEF RungsApart
  <2> DEFINE snapshot == [mark_price |-> s.mark_price, funding_rate |-> 0]
             orders == run_strategy(s.bot, snapshot)
  <2>1. s.bot \in Bot /\ snapshot \in Snapshot
    BY DEF TypeOK, Situations, Snapshot
  <2>2. snapshot.mark_price = s.mark_price
    OBVIOUS
  <2> HIDE DEF snapshot
  <2>3. Apart(orders, s.mark_price)
    BY <2>1, <2>2, StrategiesApart DEF Spacious
  <2> HIDE DEF orders
  <2>4. \A m, n \in DOMAIN orders :
          Key(orders[m]) = Key(orders[n])
            => orders[m].side = orders[n].side /\ orders[m].price = orders[n].price
    BY DEF Key
  <2>5. /\ \A m, n \in DOMAIN orders : Key(orders[m]) = Key(orders[n]) => m = n
        /\ \A n \in DOMAIN orders :
             orders[n].type = "LIMIT" =>
               /\ orders[n].side = "BUY" =>
                    0 < orders[n].price /\ orders[n].price < s.mark_price
               /\ orders[n].side = "SELL" => s.mark_price < orders[n].price
    BY <2>3, <2>4 DEF Apart
  <2> QED BY <2>5 DEF orders, snapshot
<1>2. Spec => []TypeOK
  BY TypeCorrect
<1> QED BY <1>1, <1>2, PTL

-----------------------------------------------------------------------------
(* Sums.  A sum over a finite set is counted, so that the theorems on      *)
(* cardinalities apply to it.                                              *)

\* The sum of a function over a set is the number of its units: an element
\* with each number up to its value.
Units(F, S) == {u \in S \X Nat : u[2] \in 1..F[u[1]]}
Count(F, S) == Cardinality(Units(F, S))

\* A finite set has finitely many units, none if it is empty.
LEMMA UnitsFinite ==
  ASSUME NEW S, IsFiniteSet(S), NEW F, \A x \in S : F[x] \in Nat
  PROVE  IsFiniteSet(Units(F, S)) /\ Count(F, S) \in Nat
<1> DEFINE f == [x \in S |-> {x} \X (1..F[x])]
           T == {f[x] : x \in S}
<1>1. f \in Surjection(S, T)
  BY DEF Surjection
<1>2. IsFiniteSet(T)
  <2> HIDE DEF f, T
  <2> QED BY <1>1, FS_Surjection
<1>3. ASSUME NEW x \in S PROVE IsFiniteSet({x} \X (1..F[x]))
  <2>1. IsFiniteSet({x})
    BY FS_Singleton
  <2>2. IsFiniteSet(1..F[x])
    BY FS_Interval
  <2> QED BY <2>1, <2>2, FS_Product
<1>4. \A U \in T : IsFiniteSet(U)
  BY <1>3
<1>5. IsFiniteSet(UNION T)
  <2> HIDE DEF T
  <2> QED BY <1>2, <1>4, FS_UNION
<1>6. Units(F, S) \subseteq UNION T
  <2> SUFFICES ASSUME NEW u \in Units(F, S) PROVE u \in UNION T
    OBVIOUS
  <2>1. u \in f[u[1]] /\ f[u[1]] \in T
    BY DEF Units
  <2> QED BY <2>1
<1>7. IsFiniteSet(Units(F, S))
  <2> HIDE DEF T
  <2> QED BY <1>5, <1>6, FS_Subset
<1> QED BY <1>7, FS_CardinalityType DEF Count

\* Nothing has no units.
LEMMA CountNone == ASSUME NEW F PROVE Count(F, {}) = 0
BY FS_EmptySet DEF Count, Units

\* A part has no more units.
LEMMA CountMonotonic ==
  ASSUME NEW S, IsFiniteSet(S), NEW F, \A x \in S : F[x] \in Nat,
         NEW T \in SUBSET S
  PROVE  Count(F, T) <= Count(F, S)
<1>1. Units(F, T) \subseteq Units(F, S)
  BY DEF Units
<1> QED BY <1>1, UnitsFinite, FS_Subset DEF Count

\* Two sets have no more units than each of them together.
LEMMA CountUnion ==
  ASSUME NEW S, IsFiniteSet(S), NEW T, IsFiniteSet(T), NEW F,
         \A x \in S \cup T : F[x] \in Nat
  PROVE  /\ Count(F, S \cup T) <= Count(F, S) + Count(F, T)
         /\ S \cap T = {} => Count(F, S \cup T) = Count(F, S) + Count(F, T)
<1> DEFINE A == Units(F, S)
           B == Units(F, T)
<1>1. IsFiniteSet(A) /\ IsFiniteSet(B) /\ Cardinality(A) \in Nat /\ Cardinality(B) \in Nat
  BY UnitsFinite DEF Count
<1>2. Units(F, S \cup T) = A \cup B
  BY DEF Units
<1>3. S \cap T = {} => A \cap B = {}
  BY DEF Units
<1> HIDE DEF A, B
<1>4. Cardinality(A \cup B) = Cardinality(A) + Cardinality(B) - Cardinality(A \cap B)
  BY <1>1, FS_Union
<1>5. Cardinality(A \cap B) \in Nat
  BY <1>1, FS_Intersection, FS_CardinalityType
<1>6. A \cap B = {} => Cardinality(A \cap B) = 0
  BY FS_EmptySet
<1>7. /\ Cardinality(A \cup B) <= Cardinality(A) + Cardinality(B)
      /\ A \cap B = {} => Cardinality(A \cup B) = Cardinality(A) + Cardinality(B)
  BY <1>1, <1>4, <1>5, <1>6
<1>8. /\ Count(F, S \cup T) = Cardinality(A \cup B)
      /\ Count(F, S) = Cardinality(A) /\ Count(F, T) = Cardinality(B)
  BY <1>2, Zenon DEF Count, A, B
<1> QED BY <1>3, <1>7, <1>8

\* One element has as many units as its value.
LEMMA CountOne ==
  ASSUME NEW x, NEW F, F[x] \in Nat
  PROVE  Count(F, {x}) = F[x]
<1>1. Units(F, {x}) = {x} \X (1..F[x])
  BY DEF Units
<1>2. IsFiniteSet({x}) /\ Cardinality({x}) = 1
  BY FS_Singleton
<1>3. IsFiniteSet(1..F[x]) /\ Cardinality(1..F[x]) = F[x]
  BY SMTT(30), FS_Interval
<1>4. Cardinality({x} \X (1..F[x])) = Cardinality({x}) * Cardinality(1..F[x])
  BY <1>2, <1>3, FS_Product
<1>5. 1 * F[x] = F[x]
  OBVIOUS
<1>6. Cardinality({x} \X (1..F[x])) = F[x]
  BY <1>2, <1>3, <1>4, <1>5
<1> QED BY <1>1, <1>6, Zenon DEF Count

\* One element after the other.
LEMMA CountStep ==
  ASSUME NEW S, IsFiniteSet(S), NEW F, \A x \in S : F[x] \in Nat, NEW x \in S
  PROVE  Count(F, S) = F[x] + Count(F, S \ {x})
<1>1. S = {x} \cup (S \ {x}) /\ {x} \cap (S \ {x}) = {}
  OBVIOUS
<1>2. IsFiniteSet({x}) /\ IsFiniteSet(S \ {x})
  BY FS_Singleton, FS_Subset
<1>3. \A y \in {x} \cup (S \ {x}) : F[y] \in Nat
  OBVIOUS
<1>4. Count(F, {x} \cup (S \ {x})) = Count(F, {x}) + Count(F, S \ {x})
  BY <1>1, <1>2, <1>3, CountUnion
<1> QED BY <1>1, <1>4, CountOne

\* What MapThenSumSet computes when F[x] is what it adds for x.
Sums(g, F, S) ==
  g = [s \in SUBSET S |->
         IF s = {} THEN 0
         ELSE F[CHOOSE x \in s : TRUE] + g[s \ {CHOOSE x \in s : TRUE}]]

\* There is one such function, ...
LEMMA CountSums ==
  ASSUME NEW S, IsFiniteSet(S), NEW F, \A x \in S : F[x] \in Nat
  PROVE  Sums([s \in SUBSET S |-> Count(F, s)], F, S)
<1> DEFINE g == [s \in SUBSET S |-> Count(F, s)]
<1>1. ASSUME NEW s \in SUBSET S, s # {}
      PROVE  Count(F, s) = F[CHOOSE x \in s : TRUE] + g[s \ {CHOOSE x \in s : TRUE}]
  <2> DEFINE x == CHOOSE x \in s : TRUE
  <2>1. x \in s
    BY <1>1
  <2> HIDE DEF x
  <2>2. IsFiniteSet(s)
    BY FS_Subset
  <2>3. Count(F, s) = F[x] + Count(F, s \ {x})
    BY <2>1, <2>2, CountStep
  <2>4. g[s \ {x}] = Count(F, s \ {x})
    OBVIOUS
  <2> QED BY <2>3, <2>4 DEF x
<1>2. \A s \in SUBSET S : g[s] = IF s = {} THEN 0
         ELSE F[CHOOSE x \in s : TRUE] + g[s \ {CHOOSE x \in s : TRUE}]
  BY <1>1, CountNone
<1> QED BY <1>2 DEF Sums

\* ... and no other: the smallest set that is counted otherwise would have
\* an element without which it is counted otherwise too.
LEMMA SumsCount ==
  ASSUME NEW S, IsFiniteSet(S), NEW F, \A x \in S : F[x] \in Nat,
         NEW g, Sums(g, F, S)
  PROVE  g[S] = Count(F, S)
<1> DEFINE Wrong == {s \in SUBSET S : g[s] # Count(F, s)}
           Sizes == {n \in Nat : \E s \in Wrong : Cardinality(s) = n}
           R == {ss \in Nat \X Nat : ss[1] < ss[2]}
<1>1. SUFFICES ASSUME Wrong # {} PROVE FALSE
  OBVIOUS
<1>2. \A s \in SUBSET S : IsFiniteSet(s) /\ Cardinality(s) \in Nat
  BY FS_Subset, FS_CardinalityType
<1>3. Sizes \subseteq Nat /\ Sizes # {}
  BY <1>1, <1>2
<1>4. IsWellFoundedOn(R, Nat)
  BY NatLessThanWellFounded DEF OpToRel
<1>5. PICK n \in Sizes : \A m \in Sizes : ~(<<m, n>> \in R)
  <2> HIDE DEF R, Sizes
  <2> QED BY <1>3, <1>4, WFMin
<1>6. PICK s \in Wrong : Cardinality(s) = n
  OBVIOUS
<1>7. s \in SUBSET S /\ IsFiniteSet(s) /\ s # {}
  <2>1. g[{}] = 0 /\ Count(F, {}) = 0
    BY CountNone DEF Sums
  <2> QED BY <1>2, <2>1
<1> DEFINE x == CHOOSE x \in s : TRUE
<1>8. x \in s
  BY <1>7
<1>9. g[s] = F[x] + g[s \ {x}]
  BY <1>7 DEF Sums
<1> HIDE DEF x
<1>10. Cardinality(s \ {x}) = n - 1 /\ n \in Nat /\ n - 1 \in Nat
  <2>1. Cardinality(s \ {x}) = Cardinality(s) - 1
    BY <1>7, <1>8, FS_RemoveElement
  <2>2. s \ {x} \in SUBSET S
    BY <1>7
  <2>3. Cardinality(s \ {x}) \in Nat
    BY <1>2, <2>2
  <2> QED BY <1>6, <2>1, <2>3
<1>11. s \ {x} \notin Wrong
  <2>1. ~(<<n - 1, n>> \in R) => n - 1 \notin Sizes
    BY <1>10
  <2>2. <<n - 1, n>> \in R
    BY <1>10
  <2>3. n - 1 \notin Sizes
    BY <1>5, <2>2
  <2> QED BY <1>10, <2>3
<1>12. g[s \ {x}] = Count(F, s \ {x})
  BY <1>7, <1>11
<1>13. Count(F, s) = F[x] + Count(F, s \ {x})
  BY <1>7, <1>8, CountStep
<1> QED BY <1>9, <1>12, <1>13

\* The two sums of ExposureBounded.
Worth == [o \in Order |-> o.notional]
Room  == [s \in Situations |-> s.bot.max_position]

\* ExposureBounded's sum of the orders is a number of units, ...
LEMMA WorthIsSum ==
  ASSUME NEW S \in SUBSET Order, IsFiniteSet(S)
  PROVE  MapThenSumSet(LAMBDA o : o.notional, S) = Count(Worth, S)
<1> DEFINE P(g) == g = [s \in SUBSET S |->
                          IF s = {} THEN 0
                          ELSE (CHOOSE x \in s : TRUE).notional
                               + g[s \ {CHOOSE x \in s : TRUE}]]
           sum == CHOOSE g : P(g)
<1>1. MapThenSumSet(LAMBDA o : o.notional, S) = sum[S]
  BY DEF MapThenSumSet, MapThenFoldSet
<1>2. \A x \in S : Worth[x] \in Nat /\ Worth[x] = x.notional
  BY DEF Worth, Order
<1>3. \A g : P(g) <=> Sums(g, Worth, S)
  <2>1. ASSUME NEW s \in SUBSET S, s # {}
        PROVE  (CHOOSE x \in s : TRUE).notional = Worth[CHOOSE x \in s : TRUE]
    BY <1>2, <2>1
  <2> QED BY <2>1 DEF Sums
<1> HIDE DEF P
<1>4. \E g : P(g)
  BY <1>2, <1>3, CountSums
<1>5. P(sum)
  BY <1>4
<1> HIDE DEF sum
<1> QED BY <1>1, <1>2, <1>3, <1>5, SumsCount

\* ... and so is that of the limits.
LEMMA RoomIsSum ==
  ASSUME NEW S \in SUBSET Situations, IsFiniteSet(S)
  PROVE  MapThenSumSet(LAMBDA s : s.bot.max_position, S) = Count(Room, S)
<1> DEFINE P(g) == g = [s \in SUBSET S |->
                          IF s = {} THEN 0
                          ELSE (CHOOSE x \in s : TRUE).bot.max_position
                               + g[s \ {CHOOSE x \in s : TRUE}]]
           sum == CHOOSE g : P(g)
<1>1. MapThenSumSet(LAMBDA s : s.bot.max_position, S) = sum[S]
  BY DEF MapThenSumSet, MapThenFoldSet
<1>2. \A x \in S : Room[x] \in Nat /\ Room[x] = x.bot.max_position
  BY DEF Room, Situations, Bot
<1>3. \A g : P(g) <=> Sums(g, Room, S)
  <2>1. ASSUME NEW s \in SUBSET S, s # {}
        PROVE  (CHOOSE x \in s : TRUE).bot.max_position = Room[CHOOSE x \in s : TRUE]
    BY <1>2, <2>1
  <2> QED BY <2>1 DEF Sums
<1> HIDE DEF P
<1>4. \E g : P(g)
  BY <1>2, <1>3, CountSums
<1>5. P(sum)
  BY <1>4
<1> HIDE DEF sum
<1> QED BY <1>1, <1>2, <1>3, <1>5, SumsCount

\* A set of at most n orders that are worth the same.
LEMMA EqualOrders ==
  ASSUME NEW n \in Nat, NEW v \in Nat, NEW e \in [1..n -> Order],
         NEW S, \A o \in S : o.notional = v /\ \E i \in 1..n : o = e[i]
  PROVE  S \subseteq Order /\ IsFiniteSet(S) /\ Count(Worth, S) <= n * v
<1> DEFINE T == {e[i] : i \in 1..n}
<1>1. e \in Surjection(1..n, T)
  BY DEF Surjection
<1>2. IsFiniteSet(1..n) /\ Cardinality(1..n) = n
  BY FS_Interval
<1>3. S \subseteq T /\ T \subseteq Order
  OBVIOUS
<1>4. IsFiniteSet(T) /\ Cardinality(T) <= n
  <2> HIDE DEF T
  <2> QED BY <1>1, <1>2, FS_Surjection
<1> HIDE DEF T
<1>5. IsFiniteSet(S) /\ Cardinality(S) \in Nat /\ Cardinality(S) <= n
  BY <1>3, <1>4, FS_Subset, FS_CardinalityType
<1>6. Units(Worth, S) = S \X (1..v)
  BY <1>3 DEF Units, Worth
<1>7. IsFiniteSet(1..v) /\ Cardinality(1..v) = v
  BY FS_Interval
<1>8. Count(Worth, S) = Cardinality(S) * v
  BY <1>5, <1>6, <1>7, FS_Product DEF Count
<1>9. Cardinality(S) * v <= n * v
  <2> DEFINE c == Cardinality(S)
  <2> HIDE DEF c
  <2>1. c \in Nat /\ c <= n
    BY <1>5 DEF c
  <2>2. v * c <= v * n
    BY <2>1, Products
  <2>3. c * v <= n * v
    BY <2>1, <2>2
  <2> QED BY <2>3 DEF c
<1> QED BY <1>3, <1>5, <1>8, <1>9

-----------------------------------------------------------------------------
(* The exposure of a bot.                                                  *)

\* The orders a situation decides on.
OrdersOf(s) ==
  LET orders == run_strategy(s.bot, [mark_price   |-> s.mark_price,
                                     funding_rate |-> 0])
  IN {orders[n] : n \in DOMAIN orders}

\* The orders on a side that any situation decided on.
Book(side) == {o \in UNION {OrdersOf(s) : s \in decided} : o.side = side}

\* What the bot may have bought, or sold, has been paid for: every order at
\* the exchange is one of a situation that was counted, and a situation pays
\* for its own.
Paid ==
  /\ IsFiniteSet(decided)
  /\ tick.at = "orders" =>
       LET s == Situation(tick.bot, tick.mark_price)
       IN s \in decided /\ \A n \in DOMAIN tick.todo : tick.todo[n] \in OrdersOf(s)
  /\ placed \subseteq UNION {OrdersOf(s) : s \in decided}
  /\ \A side \in {"BUY", "SELL"} :
       /\ IsFiniteSet(Book(side)) /\ Book(side) \subseteq Order
       /\ Count(Worth, Book(side)) <= Count(Room, decided)

\* A situation pays for its own orders.
LEMMA SituationPays ==
  ASSUME NEW s \in Situations, NEW side \in {"BUY", "SELL"}
  PROVE  LET own == {o \in OrdersOf(s) : o.side = side}
         IN own \subseteq Order /\ IsFiniteSet(own) /\ Count(Worth, own) <= Room[s]
<1> DEFINE snapshot == [mark_price |-> s.mark_price, funding_rate |-> 0]
           orders == run_strategy(s.bot, snapshot)
           own == {o \in OrdersOf(s) : o.side = side}
<1>1. s.bot \in Bot /\ snapshot \in Snapshot /\ Room[s] = s.bot.max_position
  BY DEF Situations, Snapshot, Room
<1>2. OrdersOf(s) = {orders[n] : n \in DOMAIN orders}
  BY DEF OrdersOf
<1> HIDE DEF snapshot
<1>3. Shared(s.bot, orders, side)
  BY <1>1, StrategiesShare
<1> HIDE DEF orders
<1>4. PICK n \in Nat, v \in Nat :
        /\ n * v <= s.bot.max_position
        /\ \E e \in [1..n -> Order] :
             \A m \in DOMAIN orders :
               orders[m].side = side =>
                 orders[m].notional = v /\ \E i \in 1..n : orders[m] = e[i]
  BY <1>3 DEF Shared
<1>5. PICK e \in [1..n -> Order] :
        \A m \in DOMAIN orders :
          orders[m].side = side =>
            orders[m].notional = v /\ \E i \in 1..n : orders[m] = e[i]
  BY <1>4
<1>6. \A o \in own : o.notional = v /\ \E i \in 1..n : o = e[i]
  BY <1>2, <1>5
<1> HIDE DEF own
<1>7. own \subseteq Order /\ IsFiniteSet(own) /\ Count(Worth, own) <= n * v
  BY <1>6, EqualOrders
<1>8. Count(Worth, own) \in Nat
  <2>1. \A o \in own : Worth[o] \in Nat
    BY <1>7 DEF Worth, Order
  <2> QED BY <1>7, <2>1, UnitsFinite
<1>9. s.bot.max_position \in Nat /\ n * v \in Nat
  BY <1>1, BotColumns
<1> QED BY <1>1, <1>4, <1>7, <1>8, <1>9 DEF own

\* A dry run decides what the live tick decides.
LEMMA SituationDecides ==
  ASSUME TypeOK, NEW bot \in Bot, NEW mark, mark = SnapshotFor(bot).mark_price,
         NEW n \in DOMAIN Decision(bot)
  PROVE  Decision(bot)[n] \in OrdersOf(Situation(bot, mark))
<1> DEFINE s == Situation(bot, mark)
           snapshot == [mark_price |-> s.mark_price, funding_rate |-> 0]
<1>1. /\ s.bot.type = bot.type /\ s.bot.exchange = bot.exchange
      /\ s.bot.symbol = bot.symbol /\ s.bot.max_position = bot.max_position
      /\ s.bot.risk_per_tick = bot.risk_per_tick
      /\ s.bot.grid_levels = bot.grid_levels
      /\ s.mark_price = mark
  BY DEF Situation, Bot
<1>2. snapshot = SnapshotFor(bot)
  BY <1>1 DEF SnapshotFor, poll_market_snapshot
<1> HIDE DEF s, snapshot
<1>3. run_strategy(s.bot, snapshot) = run_strategy(bot, snapshot)
  <2>1. funding_arbitrage(s.bot, snapshot) = funding_arbitrage(bot, snapshot)
    BY <1>1 DEF funding_arbitrage, MarketOrder, PerTick
  <2>2. neutral_contract_grid(s.bot, snapshot) = neutral_contract_grid(bot, snapshot)
    BY <1>1 DEF neutral_contract_grid, LimitOrder, per_order, NeutralLevels
  <2>3. dca(s.bot, snapshot) = dca(bot, snapshot)
    BY <1>1 DEF dca, MarketOrder, PerTick
  <2>4. conservative_spot_grid(s.bot, snapshot) = conservative_spot_grid(bot, snapshot)
    BY <1>1 DEF conservative_spot_grid, LimitOrder, per_order
  <2>5. martingale(s.bot, snapshot, 0) = martingale(bot, snapshot, 0)
    BY <1>1 DEF martingale, MarketOrder
  <2> QED BY <1>1, <2>1, <2>2, <2>3, <2>4, <2>5, Zenon DEF run_strategy
<1>4. OrdersOf(s) = LET orders == run_strategy(s.bot, snapshot)
                    IN {orders[m] : m \in DOMAIN orders}
  BY DEF OrdersOf, snapshot
<1>5. OrdersOf(s) = {Decision(bot)[m] : m \in DOMAIN Decision(bot)}
  BY <1>2, <1>3, <1>4 DEF Decision
<1> QED BY <1>5 DEF s

\* Nothing has been bought before the first tick.
LEMMA PaidInit == Init => Paid
<1> SUFFICES ASSUME Init PROVE Paid
  OBVIOUS
<1>1. decided = {} /\ placed = {} /\ tick.at # "orders"
  BY DEF Init, Idle
<1>2. \A side : Book(side) = {}
  BY <1>1 DEF Book
<1> QED BY <1>1, <1>2, FS_EmptySet, CountNone DEF Paid

\* A decision adds its situation, and the room of one that is new.
LEMMA PaidDecide ==
  ASSUME TypeOK, Paid, NEW s \in Situations, decided' = decided \cup {s}
  PROVE  /\ IsFiniteSet(decided')
         /\ \A side \in {"BUY", "SELL"} :
              /\ IsFiniteSet(Book(side)') /\ Book(side)' \subseteq Order
              /\ Count(Worth, Book(side)') <= Count(Room, decided')
<1>1. IsFiniteSet({s}) /\ IsFiniteSet(decided) /\ decided \subseteq Situations
  BY FS_Singleton DEF Paid, TypeOK
<1>2. IsFiniteSet(decided')
  BY <1>1, FS_Union
<1>3. CASE s \in decided
  <2>1. decided' = decided
    BY <1>3
  <2>2. \A side : Book(side)' = Book(side)
    BY <2>1 DEF Book
  <2> QED BY <2>1, <2>2 DEF Paid
<1>4. CASE s \notin decided
  <2>1. \A x \in decided \cup {s} : Room[x] \in Nat
    BY <1>1 DEF Room, Situations, Bot
  <2>2. /\ Count(Room, decided') = Count(Room, decided) + Count(Room, {s})
        /\ Count(Room, {s}) = Room[s]
    <3>1. decided \cap {s} = {}
      BY <1>4
    <3> QED BY <1>1, <2>1, <3>1, CountUnion, CountOne
  <2>3. Count(Room, decided) \in Nat /\ Room[s] \in Nat
    BY <1>1, <2>1, UnitsFinite
  <2>4. ASSUME NEW side \in {"BUY", "SELL"}
        PROVE  /\ IsFiniteSet(Book(side)') /\ Book(side)' \subseteq Order
               /\ Count(Worth, Book(side)') <= Count(Room, decided')
    <3> DEFINE own == {o \in OrdersOf(s) : o.side = side}
               book == Book(side)
    <3>1. Book(side)' = book \cup own
      BY DEF Book
    <3>2. own \subseteq Order /\ IsFiniteSet(own) /\ Count(Worth, own) <= Room[s]
      BY SituationPays
    <3>3. /\ IsFiniteSet(book) /\ book \subseteq Order
          /\ Count(Worth, book) <= Count(Room, decided)
      BY DEF Paid
    <3> HIDE DEF own, book
    <3>4. \A o \in book \cup own : Worth[o] \in Nat
      BY <3>2, <3>3 DEF Worth, Order
    <3>5. Count(Worth, book \cup own) <= Count(Worth, book) + Count(Worth, own)
      BY <3>2, <3>3, <3>4, CountUnion
    <3>6. IsFiniteSet(book \cup own)
      BY <3>2, <3>3, FS_Union
    <3>7. /\ Count(Worth, book) \in Nat /\ Count(Worth, own) \in Nat
          /\ Count(Worth, book \cup own) \in Nat
      BY <3>2, <3>3, <3>4, <3>6, UnitsFinite
    <3> QED BY <2>2, <2>3, <3>1, <3>2, <3>3, <3>5, <3>6, <3>7
  <2> QED BY <1>2, <2>4
<1> QED BY <1>3, <1>4

\* Every other step places an order of the situation that was paid for.
LEMMA PaidStep ==
  ASSUME IInv, Paid, [Next]_vars
  PROVE  Paid'
<1>1. CASE Decide
  <2> DEFINE bot == tick.bot
             mark == SnapshotFor(bot).mark_price
             s == Situation(bot, mark)
             todo == Decision(bot)
  <2>1. bot \in Bot /\ TypeOK
    BY <1>1, TickColumns DEF IInv, TypeOK, Decide
  <2>2. mark \in Nat \ {0}
    BY <2>1, SnapshotTyped DEF Snapshot
  <2>3. CASE Passes(bot)
    <3>1. /\ tick' = [at |-> "orders", bot |-> bot, mark_price |-> mark,
                      todo |-> todo]
          /\ decided' = decided \cup {s} /\ placed' = placed
      BY <1>1, <2>3 DEF Decide
    <3>2. s \in Situations
      BY <2>1, <2>2 DEF Situation, Situations, Bot
    <3>3. \A n \in DOMAIN todo : todo[n] \in OrdersOf(s)
      BY <2>1, SituationDecides
    <3> HIDE DEF todo, mark, bot
    <3>4. /\ Situation(tick'.bot, tick'.mark_price) = s
          /\ tick'.todo = todo
      BY <3>1
    <3> HIDE DEF s
    <3>5. placed' \subseteq UNION {OrdersOf(x) : x \in decided'}
      BY <3>1 DEF Paid
    <3>6. /\ IsFiniteSet(decided')
          /\ \A side \in {"BUY", "SELL"} :
               /\ IsFiniteSet(Book(side)') /\ Book(side)' \subseteq Order
               /\ Count(Worth, Book(side)') <= Count(Room, decided')
      BY <2>1, <3>1, <3>2, PaidDecide
    <3>7. s \in decided'
      BY <3>1
    <3> QED BY <3>3, <3>4, <3>5, <3>6, <3>7 DEF Paid
  <2>4. CASE ~Passes(bot)
    <3>1. UNCHANGED <<decided, placed>> /\ tick'.at # "orders"
      BY <1>1, <2>4 DEF Decide, EndTick, Idle
    <3>2. \A side : Book(side)' = Book(side)
      BY <3>1 DEF Book
    <3> QED BY <3>1, <3>2 DEF Paid
  <2> QED BY <2>3, <2>4
<1>2. ASSUME UNCHANGED decided,
             \/ placed' = placed
             \/ Handling /\ placed' = placed \cup {Current},
             \/ UNCHANGED tick
             \/ tick'.at # "orders"
             \/ Handling /\ NextOrder
      PROVE  Paid'
  <2>1. \A side : Book(side)' = Book(side)
    BY <1>2 DEF Book
  <2>2. ASSUME Handling
        PROVE  /\ tick.todo \in Seq(Order) /\ tick.todo # <<>>
               /\ Situation(tick.bot, tick.mark_price) \in decided
               /\ \A n \in DOMAIN tick.todo :
                    tick.todo[n] \in OrdersOf(Situation(tick.bot, tick.mark_price))
    BY <2>2, TickColumns DEF Handling, IInv, TypeOK, Paid
  <2>3. placed' \subseteq UNION {OrdersOf(s) : s \in decided'}
    <3>1. CASE Handling /\ placed' = placed \cup {Current}
      <4>1. 1 \in DOMAIN tick.todo /\ Current = tick.todo[1]
        BY <2>2, <3>1 DEF Current
      <4> QED BY <1>2, <2>2, <3>1, <4>1 DEF Paid
    <3> QED BY <1>2, <3>1 DEF Paid
  <2>4. ASSUME Handling, NextOrder
        PROVE  /\ tick'.bot = tick.bot /\ tick'.mark_price = tick.mark_price
               /\ \A n \in DOMAIN tick'.todo :
                    \E m \in DOMAIN tick.todo : tick'.todo[n] = tick.todo[m]
    <3>1. tick = [at |-> "orders", bot |-> tick.bot,
                  mark_price |-> tick.mark_price, todo |-> tick.todo]
      BY <2>4, TickColumns DEF Handling, IInv, TypeOK
    <3>2. /\ tick'.bot = tick.bot /\ tick'.mark_price = tick.mark_price
          /\ tick'.todo = Tail(tick.todo)
      BY <2>4, <3>1 DEF NextOrder
    <3>3. \A n \in DOMAIN Tail(tick.todo) :
            n + 1 \in DOMAIN tick.todo /\ Tail(tick.todo)[n] = tick.todo[n + 1]
      BY <2>2, <2>4
    <3> QED BY <3>2, <3>3
  <2>5. tick'.at = "orders" =>
          LET s == Situation(tick'.bot, tick'.mark_price)
          IN s \in decided' /\ \A n \in DOMAIN tick'.todo : tick'.todo[n] \in OrdersOf(s)
    <3>1. CASE UNCHANGED tick
      BY <1>2, <3>1 DEF Paid
    <3>2. CASE Handling /\ NextOrder
      BY <1>2, <2>2, <2>4, <3>2
    <3> QED BY <1>2, <3>1, <3>2
  <2> QED BY <1>2, <2>1, <2>3, <2>5 DEF Paid
<1>3. CASE BeginTick \/ EditBot \/ Restart \/ FinishTick \/ UNCHANGED vars
  BY <1>2, <1>3 DEF BeginTick, EditBot, Restart, FinishTick, EndTick, Idle, vars
<1>4. CASE Skip \/ Simulate \/ Sync \/ Place \/ Refuse \/ LookupRaises \/ LoseAnswer
  BY <1>2, <1>4 DEF Skip, Simulate, Sync, Place, Refuse, LookupRaises, LoseAnswer,
                    GiveUp, Sends, EndTick, Idle
<1> QED BY <1>1, <1>3, <1>4 DEF Next, TickStep

\* What the bot buys, or sells, over all its ticks is within its position
\* limit, added up over the different situations it has decided in: for every
\* strategy, row, price and setting, and any number of ticks, edits, restarts,
\* failures and lost answers.
THEOREM ExposureAlwaysBounded == Spec => []ExposureBounded
<1>1. IInv /\ Paid => ExposureBounded
  <2> SUFFICES ASSUME IInv, Paid, NEW side \in {"BUY", "SELL"}
               PROVE  MapThenSumSet(LAMBDA o : o.notional, {o \in placed : o.side = side})
                        <= MapThenSumSet(LAMBDA s : s.bot.max_position, decided)
    BY DEF ExposureBounded
  <2> DEFINE sold == {o \in placed : o.side = side}
  <2>1. /\ decided \subseteq Situations /\ IsFiniteSet(decided)
        /\ Book(side) \subseteq Order /\ IsFiniteSet(Book(side))
        /\ Count(Worth, Book(side)) <= Count(Room, decided)
    BY DEF IInv, TypeOK, Paid
  <2>2. sold \subseteq Book(side)
    BY DEF Paid, Book
  <2> HIDE DEF sold
  <2>3. sold \subseteq Order /\ IsFiniteSet(sold)
    BY <2>1, <2>2, FS_Subset
  <2>4. \A o \in Book(side) : Worth[o] \in Nat
    BY <2>1 DEF Worth, Order
  <2>5. \A s \in decided : Room[s] \in Nat
    BY <2>1 DEF Room, Situations, Bot
  <2>6. Count(Worth, sold) <= Count(Worth, Book(side))
    BY <2>1, <2>2, <2>4, CountMonotonic
  <2>7. /\ Count(Worth, sold) \in Nat /\ Count(Worth, Book(side)) \in Nat
        /\ Count(Room, decided) \in Nat
    BY <2>1, <2>2, <2>3, <2>4, <2>5, UnitsFinite
  <2>8. Count(Worth, sold) <= Count(Room, decided)
    BY <2>1, <2>6, <2>7
  <2>9. MapThenSumSet(LAMBDA o : o.notional, sold) = Count(Worth, sold)
    BY <2>3, WorthIsSum
  <2>10. MapThenSumSet(LAMBDA s : s.bot.max_position, decided) = Count(Room, decided)
    BY <2>1, RoomIsSum
  <2> QED BY <2>8, <2>9, <2>10 DEF sold
<1>2. Init => IInv /\ Paid
  BY InvInit, PaidInit
<1>3. IInv /\ Paid /\ [Next]_vars => IInv' /\ Paid'
  BY InvStep, PaidStep
<1> QED BY <1>1, <1>2, <1>3, PTL DEF Spec
=============================================================================
