--------------------------- MODULE OrderExecution ---------------------------
(***************************************************************************)
(* The release executor (executor_release.py): how the ticks of one bot    *)
(* turn the orders a strategy decided on into rows of the table `orders`   *)
(* and into orders on the exchange.                                        *)
(*                                                                         *)
(* A tick is one POST /v1/bots/{id}/tick.  Nothing in the server keeps two *)
(* ticks of a bot apart: the worker posts one per loop, posts again after  *)
(* its HTTP client gave up on the first, and an operator may post his own. *)
(* Ticks interleave where the code awaits: the exchange's answer to a      *)
(* lookup or to create_order, the alert channels, the back-off sleep.      *)
(* An action is the code between two awaits, its SQLite writes included;   *)
(* it is cut where a restart between two commits leaves a state of its own.*)
(*                                                                         *)
(* A key stands for an order and for the idempotency key and the client    *)
(* order id the code derives from it: both are functions of the bot and of *)
(* the order's fields, so two ticks deciding the same order share the key. *)
(***************************************************************************)
EXTENDS Naturals, Sequences, FiniteSets

CONSTANTS
  Keys,            \* the orders the bot's strategy can decide on
  Ticks,           \* tick requests the server may be serving at a time
  Decisions,       \* the order lists run_strategy may return
  MaxAttempts,     \* settings.max_retry_attempts
  LiveEnabled,     \* settings.enable_live_trading
  LiveAdapters,    \* what build_adapter returns for dry_run = False
  DryRunValues,    \* the values the operator gives bots.dry_run
  LookupFaults,    \* how fetch_order_by_client_id may fail
  AlertFaults,     \* may notify_execution_event raise?
  MailHangs,       \* may the mail server leave an alert waiting for ever?
  LateDelivery,    \* may a timed-out create_order still arrive?
  ExchangeDedups,  \* does the exchange refuse a client id it has seen?
  MaxRuns,         \* bound: ticks begun
  MaxCrashes       \* bound: restarts of the API process

ASSUME ConstantsAssumption ==
  /\ IsFiniteSet(Ticks)
  /\ Decisions \subseteq Seq(Keys)
  /\ MaxAttempts \in Nat
  /\ LiveEnabled \in BOOLEAN
  /\ LiveAdapters \subseteq {"live", "blocked"}
  /\ DryRunValues \subseteq BOOLEAN
  /\ LookupFaults \subseteq {"swallowed", "raised"}
  /\ {AlertFaults, MailHangs, LateDelivery, ExchangeDedups} \subseteq BOOLEAN
  /\ MaxRuns \in Nat
  /\ MaxCrashes \in Nat

VARIABLES
  dryRun,    \* bots.dry_run of the bot
  orders,    \* table orders: key -> [status, attempts]
  exchange,  \* the exchange: key -> [created, state]
  tick,      \* the tick requests being served
  delayed,   \* create_order requests the client has given up on
  runs, crashes

vars == <<dryRun, orders, exchange, tick, delayed, runs, crashes>>

-----------------------------------------------------------------------------
\* "canceled" stands for every way an order ends without a fill; the code
\* treats the statuses it does not know (EXPIRED, REJECTED) like CANCELED.
RemoteStates == {"open", "closed", "canceled"}

\* normalize_order_status, on the states above.
normalize_order_status(s) ==
  CASE s = "open"     -> "SENT"
    [] s = "closed"   -> "FILLED"
    [] s = "canceled" -> "CANCELED"

\* A status with which a tick leaves the row alone.
Done == {"FILLED", "ACCEPTED_DRY_RUN", "SENT"}

\* A status that says the exchange has the order.
OnExchange == {"SENT", "FILLED", "CANCELED"}

RowStatus ==
  {"absent", "PENDING", "RETRYING", "FAILED", "CANCELED"} \cup Done

Replies == {"none", "accepted", "refused", "missing", "raised"} \cup RemoteStates

Phases == {"idle", "take", "lookup", "send", "wait", "notify", "recover",
           "sleep", "alarm", "mail"}

Absent  == [status |-> "absent", attempts |-> 0]
Pending == [status |-> "PENDING", attempts |-> 0]
Idle    == [pc |-> "idle", todo |-> <<>>, adapter |-> "dry",
            attempt |-> 0, reply |-> "none"]

Row         == [status : RowStatus, attempts : 0..MaxAttempts]
RemoteOrder == [created : Nat, state : RemoteStates]
TickState   == [pc : Phases, todo : Seq(Keys),
                adapter : {"dry", "live", "blocked"},
                attempt : 0..MaxAttempts, reply : Replies]

TypeOK ==
  /\ dryRun \in BOOLEAN
  /\ orders \in [Keys -> Row]
  /\ exchange \in [Keys -> RemoteOrder]
  /\ tick \in [Ticks -> TickState]
  /\ delayed \in [Keys -> Nat]
  /\ runs \in 0..MaxRuns
  /\ crashes \in 0..MaxCrashes

Init ==
  /\ dryRun \in DryRunValues
  /\ orders = [k \in Keys |-> Absent]
  /\ exchange = [k \in Keys |-> [created |-> 0, state |-> "open"]]
  /\ tick = [t \in Ticks |-> Idle]
  /\ delayed = [k \in Keys |-> 0]
  /\ runs = 0
  /\ crashes = 0

-----------------------------------------------------------------------------
(* Helpers.                                                                *)

\* The order tick t is working on.
Current(t) == Head(tick[t].todo)

At(t, phase) == tick[t].pc = phase /\ (phase # "idle" => tick[t].todo # <<>>)

\* smtplib.SMTP gets no timeout and is called in the event loop: a mail
\* server that does not answer stops every task of the process.
Blocked == \E u \in Ticks : tick[u].pc = "mail"

\* insert_order: INSERT OR IGNORE, then the row that is in the table.
insert_order(k) ==
  IF orders[k].status = "absent" THEN Pending ELSE orders[k]

\* update_order: the status and attempts columns of row k.
update_order(k, status, attempts) ==
  orders' = [orders EXCEPT ![k] = [status |-> status, attempts |-> attempts]]

\* What is left of tick t: where it is, the orders it has still to handle
\* (the current one first), the attempt it is at, and the exchange's answer.
Continue(t, phase, rest, n, answer) ==
  tick' = [tick EXCEPT ![t] = [pc |-> phase, todo |-> rest,
                               adapter |-> tick[t].adapter,
                               attempt |-> n, reply |-> answer]]

Goto(t, phase)     == Continue(t, phase, tick[t].todo, tick[t].attempt, "none")
StartAttempt(t, n) == Continue(t, "send", tick[t].todo, n, "none")
Receive(t, answer) ==
  Continue(t, tick[t].pc, tick[t].todo, tick[t].attempt, answer)

\* The tick goes on to the next order of its decision.
NextOrder(t) == Continue(t, "take", Tail(tick[t].todo), 0, "none")

\* An exception leaves the endpoint: the request is answered with a 500.
Abort(t) == tick' = [tick EXCEPT ![t] = Idle]

\* The retry loop, empty for MaxAttempts = 0.
EnterRetryLoop(t) ==
  IF MaxAttempts = 0 THEN NextOrder(t) ELSE StartAttempt(t, 1)

\* Mutant of MarkFailure: the row is RETRYING after the last attempt too.
MarkFailureOffByOne(t) ==
  /\ update_order(Current(t), "RETRYING", tick[t].attempt)
  /\ Goto(t, IF tick[t].attempt < MaxAttempts THEN "sleep" ELSE "alarm")

\* Mutant of MarkFailure: one attempt too many.
MarkFailureTooLate(t) ==
  IF tick[t].attempt <= MaxAttempts
    THEN /\ update_order(Current(t), "RETRYING", tick[t].attempt)
         /\ Goto(t, "sleep")
    ELSE /\ update_order(Current(t), "FAILED", tick[t].attempt)
         /\ Goto(t, "alarm")

\* The end of the except block when no remote order was found: the row is
\* RETRYING, or FAILED after the last attempt.
MarkFailure(t) ==
  IF tick[t].attempt < MaxAttempts
    THEN /\ update_order(Current(t), "RETRYING", tick[t].attempt)
         /\ Goto(t, "sleep")
    ELSE /\ update_order(Current(t), "FAILED", tick[t].attempt)
         /\ Goto(t, "alarm")

\* The exchange books one more order under client id k.
CreateOrder(k) ==
  /\ ExchangeDedups => exchange[k].created = 0
  /\ \E s \in {"open", "closed"} :
       exchange' = [exchange EXCEPT ![k] = [created |-> exchange[k].created + 1,
                                            state |-> s]]

-----------------------------------------------------------------------------
(* A tick, from the endpoint to the last order of its decision.            *)

\* pre_trade_risk_check turns a live bot away while live trading is disabled;
\* nothing but a log line changes then, so that outcome is no step.
LiveTradingAllowed == dryRun \/ LiveEnabled

\* build_adapter: a dry bot gets the simulating adapter; a live one gets what
\* its credentials and the mainnet gate lead to.
build_adapter == IF dryRun THEN {"dry"} ELSE LiveAdapters

\* tick() reads the bot row and decides; the adapter is fixed for the tick.
BeginTick(t) ==
  /\ At(t, "idle") /\ ~Blocked
  /\ runs < MaxRuns
  /\ LiveTradingAllowed
  /\ \E d \in Decisions, a \in build_adapter :
       tick' = [tick EXCEPT ![t] = [pc |-> "take", todo |-> d, adapter |-> a,
                                    attempt |-> 0, reply |-> "none"]]
  /\ runs' = runs + 1
  /\ UNCHANGED <<dryRun, orders, exchange, delayed, crashes>>

\* Mutant of TakeOrder: no remote lookup before the first attempt.
TakeOrderBlindly(t) ==
  /\ At(t, "take")
  /\ LET row == insert_order(Current(t))
     IN /\ orders' = [orders EXCEPT ![Current(t)] = row]
        /\ IF row.status \in Done
             THEN NextOrder(t)
             ELSE StartAttempt(t, 1)
  /\ UNCHANGED <<dryRun, exchange, delayed, runs, crashes>>

\* Mutant of TakeOrder: the row is left to the first update.
TakeOrderUnregistered(t) ==
  /\ At(t, "take")
  /\ IF orders[Current(t)].status \in Done
       THEN NextOrder(t)
       ELSE IF tick[t].adapter = "dry"
              THEN StartAttempt(t, 1)
              ELSE Goto(t, "lookup")
  /\ UNCHANGED <<dryRun, orders, exchange, delayed, runs, crashes>>

\* The top of the for loop: INSERT OR IGNORE, then the status of the row
\* that is in the table decides.  No await separates the two.
TakeOrder(t) ==
  /\ At(t, "take")
  /\ LET k   == Current(t)
         row == insert_order(k)
     IN /\ orders' = [orders EXCEPT ![k] = row]
        /\ \/ row.status \in Done /\ NextOrder(t)
           \/ /\ row.status \notin Done
              /\ tick[t].adapter # "dry"
              /\ Goto(t, "lookup")
           \/ /\ row.status \notin Done
              /\ tick[t].adapter = "dry"
              /\ EnterRetryLoop(t)
  /\ UNCHANGED <<dryRun, exchange, delayed, runs, crashes>>

FinishTick(t) ==
  /\ tick[t].pc = "take" /\ tick[t].todo = <<>>
  /\ Abort(t)
  /\ UNCHANGED <<dryRun, orders, exchange, delayed, runs, crashes>>

\* The exchange's answer to fetch_order_by_client_id.  A fault is swallowed
\* by the adapter, which then reports no order, or raised to the executor;
\* the adapter of a blocked route never asks and reports no order.
LookupAnswers(t) ==
  IF tick[t].adapter = "blocked" THEN {"missing"}
  ELSE (IF exchange[Current(t)].created > 0
          THEN {exchange[Current(t)].state} ELSE {"missing"})
       \cup (IF "swallowed" \in LookupFaults THEN {"missing"} ELSE {})
       \cup (IF "raised" \in LookupFaults THEN {"raised"} ELSE {})

Lookup(t) ==
  /\ At(t, "lookup") \/ At(t, "recover")
  /\ tick[t].reply = "none"
  /\ \E r \in LookupAnswers(t) : Receive(t, r)
  /\ UNCHANGED <<dryRun, orders, exchange, delayed, runs, crashes>>

\* REMOTE_SYNCED before the first attempt (the attempts column is kept) and
\* REMOTE_SYNCED_AFTER_ERROR in the except block.
RemoteSynced(t) ==
  /\ At(t, "lookup") \/ At(t, "recover")
  /\ tick[t].reply \in RemoteStates
  /\ update_order(Current(t), normalize_order_status(tick[t].reply),
                  IF tick[t].pc = "lookup" THEN orders[Current(t)].attempts
                                           ELSE tick[t].attempt)
  /\ NextOrder(t)
  /\ UNCHANGED <<dryRun, exchange, delayed, runs, crashes>>

\* No remote order: the retry loop starts.
EnterLoop(t) ==
  /\ At(t, "lookup")
  /\ tick[t].reply = "missing"
  /\ EnterRetryLoop(t)
  /\ UNCHANGED <<dryRun, orders, exchange, delayed, runs, crashes>>

\* The lookup raised: neither call of it is inside a try of its own.
LookupRaised(t) ==
  /\ At(t, "lookup") \/ At(t, "recover")
  /\ tick[t].reply = "raised"
  /\ Abort(t)
  /\ UNCHANGED <<dryRun, orders, exchange, delayed, runs, crashes>>

-----------------------------------------------------------------------------
(* One attempt.                                                            *)

\* The dry-run adapter accepts without an await.
PlaceDry(t) ==
  /\ At(t, "send") /\ tick[t].adapter = "dry"
  /\ update_order(Current(t), "ACCEPTED_DRY_RUN", tick[t].attempt)
  /\ Goto(t, "notify")
  /\ UNCHANGED <<dryRun, exchange, delayed, runs, crashes>>

\* BlockedLiveAdapter raises and its lookup finds nothing, without an await.
PlaceBlocked(t) ==
  /\ At(t, "send") /\ tick[t].adapter = "blocked"
  /\ MarkFailure(t)
  /\ UNCHANGED <<dryRun, exchange, delayed, runs, crashes>>

\* Mutant of PlaceLive: the row is SENT before the exchange has answered.
PlaceLiveOptimistic(t) ==
  /\ At(t, "send") /\ tick[t].adapter = "live"
  /\ update_order(Current(t), "SENT", tick[t].attempt)
  /\ Goto(t, "wait")
  /\ UNCHANGED <<dryRun, exchange, delayed, runs, crashes>>

\* create_order leaves for the exchange in a thread.
PlaceLive(t) ==
  /\ At(t, "send") /\ tick[t].adapter = "live"
  /\ Goto(t, "wait")
  /\ UNCHANGED <<dryRun, orders, exchange, delayed, runs, crashes>>

\* The exchange accepts the request or refuses it.
ExchangeHandles(t) ==
  /\ At(t, "wait") /\ tick[t].reply = "none"
  /\ \/ CreateOrder(Current(t)) /\ Receive(t, "accepted")
     \/ UNCHANGED exchange /\ Receive(t, "refused")
  /\ UNCHANGED <<dryRun, orders, delayed, runs, crashes>>

PlaceSucceeds(t) ==
  /\ At(t, "wait") /\ tick[t].reply = "accepted"
  /\ update_order(Current(t), "SENT", tick[t].attempt)
  /\ Goto(t, "notify")
  /\ UNCHANGED <<dryRun, exchange, delayed, runs, crashes>>

\* create_order raises: it was refused, its answer was lost, or it timed out
\* before the exchange had it; such a request is lost or still under way.
PlaceFails(t) ==
  /\ At(t, "wait")
  /\ Goto(t, "recover")
  /\ \/ UNCHANGED delayed
     \/ /\ LateDelivery /\ tick[t].reply = "none"
        /\ delayed' = [delayed EXCEPT ![Current(t)] = @ + 1]
  /\ UNCHANGED <<dryRun, orders, exchange, runs, crashes>>

\* The except block after a failed lookup.
GiveUpAttempt(t) ==
  /\ At(t, "recover") /\ tick[t].reply = "missing"
  /\ MarkFailure(t)
  /\ UNCHANGED <<dryRun, exchange, delayed, runs, crashes>>

\* Mutant of Retry: the attempt is not counted.
RetryUncounted(t) ==
  /\ At(t, "sleep")
  /\ StartAttempt(t, tick[t].attempt)
  /\ UNCHANGED <<dryRun, orders, exchange, delayed, runs, crashes>>

\* Mutant of Retry: the loop asks the exchange again instead of sending.
RetryLookup(t) ==
  /\ At(t, "sleep")
  /\ Goto(t, "recover")
  /\ UNCHANGED <<dryRun, orders, exchange, delayed, runs, crashes>>

Retry(t) ==
  /\ At(t, "sleep")
  /\ StartAttempt(t, tick[t].attempt + 1)
  /\ UNCHANGED <<dryRun, orders, exchange, delayed, runs, crashes>>

\* Mutant of Notify: an alert that raises counts as a failed attempt without
\* asking the exchange.
NotifyBlindly(t) ==
  /\ At(t, "notify")
  /\ \/ NextOrder(t) /\ UNCHANGED orders
     \/ AlertFaults /\ MarkFailure(t)
  /\ UNCHANGED <<dryRun, exchange, delayed, runs, crashes>>

\* notify_execution_event after a success is inside the try: when an alert
\* channel raises, the attempt counts as failed although the row is settled.
Notify(t) ==
  /\ At(t, "notify")
  /\ \/ NextOrder(t) /\ UNCHANGED orders
     \/ AlertFaults /\ tick[t].adapter = "dry" /\ MarkFailure(t)
     \/ AlertFaults /\ tick[t].adapter # "dry" /\ Goto(t, "recover")
                    /\ UNCHANGED orders
     \/ MailHangs /\ Goto(t, "mail") /\ UNCHANGED orders
  /\ UNCHANGED <<dryRun, exchange, delayed, runs, crashes>>

\* The alert after the last failed attempt is outside it: an exception there
\* ends the tick and the rest of the decision is never tried.
Alarm(t) ==
  /\ At(t, "alarm")
  /\ \/ NextOrder(t)
     \/ AlertFaults /\ Abort(t)
     \/ MailHangs /\ Goto(t, "mail")
  /\ UNCHANGED <<dryRun, orders, exchange, delayed, runs, crashes>>

-----------------------------------------------------------------------------
(* The environment.                                                        *)

\* PATCH /v1/bots/{id} with dry_run.
PatchDryRun ==
  /\ \E b \in DryRunValues \ {dryRun} : dryRun' = b
  /\ UNCHANGED <<orders, exchange, tick, delayed, runs, crashes>>

\* An open order is filled or canceled on the exchange.
RemoteMoves(k) ==
  /\ exchange[k].created > 0 /\ exchange[k].state = "open"
  /\ \E s \in {"closed", "canceled"} :
       exchange' = [exchange EXCEPT ![k] = [created |-> exchange[k].created,
                                            state |-> s]]
  /\ UNCHANGED <<dryRun, orders, tick, delayed, runs, crashes>>

\* A request its sender gave up on reaches the exchange.
LateArrival(k) ==
  /\ delayed[k] > 0
  /\ delayed' = [delayed EXCEPT ![k] = @ - 1]
  /\ CreateOrder(k) \/ UNCHANGED exchange
  /\ UNCHANGED <<dryRun, orders, tick, runs, crashes>>

\* The API process dies and is started again: every tick is gone, the table
\* and the exchange stay, requests under way are lost or arrive later.
Crash ==
  /\ crashes < MaxCrashes
  /\ crashes' = crashes + 1
  /\ tick' = [t \in Ticks |-> Idle]
  /\ LET Unanswered == {t \in Ticks : At(t, "wait") /\ tick[t].reply = "none"}
     IN \E S \in SUBSET Unanswered :
          /\ S # {} => LateDelivery
          /\ delayed' = [k \in Keys |-> delayed[k]
                           + Cardinality({t \in S : Current(t) = k})]
  /\ UNCHANGED <<dryRun, orders, exchange, runs>>

-----------------------------------------------------------------------------
\* What the event loop runs.
LoopStep(t) ==
  /\ ~Blocked
  /\ \/ TakeOrder(t) \/ FinishTick(t)
     \/ RemoteSynced(t) \/ EnterLoop(t) \/ LookupRaised(t)
     \/ PlaceDry(t) \/ PlaceBlocked(t) \/ PlaceLive(t)
     \/ PlaceSucceeds(t) \/ PlaceFails(t)
     \/ GiveUpAttempt(t) \/ Retry(t) \/ Notify(t) \/ Alarm(t)

\* ccxt talks to the exchange in threads of its own.
TickStep(t) == Lookup(t) \/ ExchangeHandles(t) \/ LoopStep(t)

Environment ==
  \/ PatchDryRun
  \/ \E k \in Keys : RemoteMoves(k) \/ LateArrival(k)
  \/ Crash

Next == (\E t \in Ticks : BeginTick(t) \/ TickStep(t)) \/ Environment

Spec == Init /\ [][Next]_vars

\* A tick that is being served goes on while the event loop runs: asyncio runs
\* every ready task, ccxt and httpx bound each request with a timeout, and
\* asyncio.sleep returns.  Nothing bounds the mail server (alerts.py 45): a
\* tick in phase "mail" stays there.
Fairness == \A t \in Ticks : WF_vars(TickStep(t))

FairSpec == Spec /\ Fairness

-----------------------------------------------------------------------------
(* Properties.                                                             *)

\* What the exchange and the clients must do for the executor to count:
\* one tick at a time, a lookup that tells the truth or raises, and no
\* create_order that arrives after its sender looked for it.
Reliable ==
  /\ \A t, u \in Ticks : t = u
  /\ "swallowed" \notin LookupFaults
  /\ ~LateDelivery

\* The bot only ever trades live.
LiveOnly == DryRunValues \subseteq {FALSE} /\ LiveAdapters \subseteq {"live"}

\* An order is created on the exchange at most once: over every attempt of a
\* tick, over every later tick that decides the same order, and across
\* restarts (executor_release.py 42-50 and 64-70).
NoDuplicateOrder == \A k \in Keys : exchange[k].created <= 1

\* A row never says SENT, FILLED or CANCELED of an order the exchange does
\* not have, whatever is lost, raised, late or interleaved.
LedgerNotAhead ==
  \A k \in Keys : orders[k].status \in OnExchange => exchange[k].created >= 1

\* Every order that is on the exchange or on its way there has a row: the
\* row is committed before the first request leaves, so that a restart
\* never leaves an order nobody knows of.
WriteAhead ==
  \A k \in Keys :
    exchange[k].created + delayed[k] > 0 => orders[k].status # "absent"

\* However often answers are lost, one tick sends at most MaxAttempts
\* create_order requests for an order: retries are not multiplied by alerts
\* that raise, by failed lookups or by restarts.
BoundedCreation ==
  \A k \in Keys : exchange[k].created + delayed[k] <= MaxAttempts * runs

\* The tick does not go on to the next order before the row of this one says
\* how it ended (with one tick at a time): no path through the retry loop
\* leaves a row PENDING or RETRYING behind a tick that carries on.
TickSettlesItsOrder ==
  [][\A t \in Ticks :
       /\ tick[t].todo # <<>>
       /\ tick'[t].pc # "idle"
       /\ tick'[t].todo = Tail(tick[t].todo)
       => orders'[Current(t)].status \notin {"absent", "PENDING", "RETRYING"}]_vars

\* Every tick comes to an end, also while alerts fail and lookups raise:
\* nothing but a mail server that does not answer keeps one from it, be it
\* its own alert or that of another tick.
TickTerminates ==
  \A t \in Ticks : tick[t].pc # "idle" ~> (tick[t].pc = "idle" \/ Blocked)

\* The pipeline keeps the promise of OrderLedger for a bot that trades live
\* in a Reliable environment.
Intent(k) ==
  CASE orders[k].status = "absent"                  -> "unknown"
    [] orders[k].status \in {"PENDING", "RETRYING"} -> "registered"
    [] orders[k].status = "FAILED"                  -> "abandoned"
    [] OTHER                                        -> "settled"

Ledger == INSTANCE OrderLedger
  WITH Orders <- Keys,
       intent <- [k \in Keys |-> Intent(k)],
       effect <- [k \in Keys |-> exchange[k].created]

KeepsLedger == Ledger!Spec
=============================================================================
