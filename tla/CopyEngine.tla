----------------------------- MODULE CopyEngine -----------------------------
(***************************************************************************)
(* The copy engine: the signal bus (signal_bus.py), its HTTP and WebSocket *)
(* entries (copy_api.py) and the worker that executes signals              *)
(* (copy_engine.py).                                                       *)
(*                                                                         *)
(* A publication puts a signal on an in-memory queue, writes its row and   *)
(* broadcasts it to the WebSocket clients.  The worker takes every signal  *)
(* off the queue and starts a task for it; the tasks wait for a permit of  *)
(* the semaphore, which hands them out in order.  A task checks, places    *)
(* the order and announces the outcome.  An action is the code between two *)
(* awaits.                                                                 *)
(*                                                                         *)
(* A signal is named by its id; the idempotency key and the client order   *)
(* id are functions of it.  Of the clients only their number matters: a    *)
(* broadcast iterates over the set and raises when its size has changed.   *)
(***************************************************************************)
EXTENDS Naturals, Sequences, FiniteSets

CONSTANTS
  Intents,        \* the orders that publishers want executed, once each
  Publishers,     \* HTTP requests or WebSocket connections publishing
  Slots,          \* permits: copy_max_concurrent_executions
  QueueLimit,     \* the maxsize of SIGNAL_BUS.queue
  StableIds,      \* do publishers send an id of their own in the payload?
  ExchangeDedups, \* does the exchange refuse a client id it has seen?
  SetupFaults,    \* may accounts, credentials or the gate raise?
  AlertFaults,    \* may notify_execution_event raise?
  MailHangs,      \* may the mail server leave an alert waiting for ever?
  MaxClients,     \* bound: WebSocket clients
  MaxPublish,     \* bound: publications of each intent
  MaxCrashes      \* bound: restarts

ASSUME ConstantsAssumption ==
  /\ IsFiniteSet(Slots)
  /\ QueueLimit \in Nat \ {0}
  /\ {StableIds, ExchangeDedups, SetupFaults, AlertFaults, MailHangs}
       \subseteq BOOLEAN
  /\ MaxPublish \in [Intents -> Nat]
  /\ {MaxClients, MaxCrashes} \subseteq Nat

VARIABLES
  queue,      \* SIGNAL_BUS.queue
  waiting,    \* tasks that wait for a permit
  slot,       \* tasks that hold one
  publisher,  \* publications in service
  clients,    \* how many clients SIGNAL_BUS.clients holds
  persisted,  \* table signal_events: the ids in it
  orders,     \* table orders: id -> status
  events,     \* table execution_events: id -> statuses written
  exchange,   \* id -> orders created
  late,       \* id -> requests given up by their sender that may still arrive
  refusedTo,  \* intents whose publisher has not been told it is queued
  published,  \* intent -> publications of it
  forsaken,   \* ids dropped by a restart or by a set-up that raised
  crashes

vars == <<queue, waiting, slot, publisher, clients, persisted, orders, events,
          exchange, late, refusedTo, published, forsaken, crashes>>

\* A signal carries the publisher's id or, drawn by the server, a new one.
Signals == UNION {[intent : {i}, no : 0..MaxPublish[i]] : i \in Intents}
NewSignal(i) ==
  [intent |-> i, no |-> IF StableIds THEN 0 ELSE published[i]]

OrderStatus == {"absent", "PENDING", "SENT", "FAILED"}
EventStatus == {"REJECTED", "SENT", "FAILED"}

FreeSlot  == [pc |-> "free"]
Listening == [pc |-> "idle"]

SlotState ==
  {FreeSlot}
  \cup [pc : {"place", "accepted", "alertRejected", "alertFailed", "mail"},
        signal : Signals]
  \cup [pc : {"executed", "failed"}, signal : Signals, size : 0..MaxClients]

PublisherState ==
  {Listening}
  \cup [pc : {"put"}, signal : Signals]
  \cup [pc : {"broadcast"}, signal : Signals, size : 0..MaxClients]

TypeOK ==
  /\ queue \in Seq(Signals) /\ Len(queue) <= QueueLimit
  /\ waiting \in Seq(Signals)
  /\ slot \in [Slots -> SlotState]
  /\ publisher \in [Publishers -> PublisherState]
  /\ clients \in 0..MaxClients
  /\ persisted \subseteq Signals
  /\ orders \in [Signals -> OrderStatus]
  /\ events \in [Signals -> SUBSET EventStatus]
  /\ exchange \in [Signals -> Nat]
  /\ late \in [Signals -> Nat]
  /\ refusedTo \subseteq Intents
  /\ published \in [Intents -> Nat]
  /\ \A i \in Intents : published[i] <= MaxPublish[i]
  /\ forsaken \subseteq Signals
  /\ crashes \in 0..MaxCrashes

Init ==
  /\ queue = <<>> /\ waiting = <<>>
  /\ slot = [s \in Slots |-> FreeSlot]
  /\ publisher = [p \in Publishers |-> Listening]
  /\ clients = 0
  /\ persisted = {}
  /\ orders = [g \in Signals |-> "absent"]
  /\ events = [g \in Signals |-> {}]
  /\ exchange = [g \in Signals |-> 0]
  /\ late = [g \in Signals |-> 0]
  /\ refusedTo = Intents
  /\ published = [i \in Intents |-> 0]
  /\ forsaken = {}
  /\ crashes = 0

-----------------------------------------------------------------------------
(* SignalBus.publish.                                                      *)

tables == <<orders, events, exchange, late>>

\* The publisher sends an order it has not been told to be queued.
Publish(p) ==
  /\ publisher[p] = Listening
  /\ \E i \in refusedTo :
       /\ \A q \in Publishers :
            publisher[q] # Listening => publisher[q].signal.intent # i
       /\ published[i] < MaxPublish[i]
       /\ publisher' = [publisher EXCEPT ![p] =
                          [pc |-> "put", signal |-> NewSignal(i)]]
       /\ published' = [published EXCEPT ![i] = @ + 1]
  /\ UNCHANGED <<queue, waiting, slot, clients, persisted, tables,
                 refusedTo, forsaken, crashes>>

\* Mutant of Put: the queue takes every signal at once.
PutUnchecked(p) ==
  /\ publisher[p].pc = "put"
  /\ queue' = Append(queue, publisher[p].signal)
  /\ persisted' = persisted \cup {publisher[p].signal}
  /\ publisher' = [publisher EXCEPT ![p] =
       [pc |-> "broadcast", signal |-> publisher[p].signal, size |-> clients]]
  /\ UNCHANGED <<waiting, slot, clients, tables, refusedTo, published,
                 forsaken, crashes>>

\* queue.put waits while the queue is full; persist_signal follows without an
\* await, and the broadcast starts.
Put(p) ==
  /\ publisher[p].pc = "put"
  /\ Len(queue) < QueueLimit
  /\ queue' = Append(queue, publisher[p].signal)
  /\ persisted' = persisted \cup {publisher[p].signal}
  /\ publisher' = [publisher EXCEPT ![p] =
       [pc |-> "broadcast", signal |-> publisher[p].signal, size |-> clients]]
  /\ UNCHANGED <<waiting, slot, clients, tables, refusedTo, published,
                 forsaken, crashes>>

\* A broadcast gets through the clients it started with; those whose socket
\* is broken are discarded.  No clients, no await.
GetsThrough(size) ==
  /\ size = 0 \/ clients = size
  /\ IF size = 0 THEN UNCHANGED clients ELSE clients' \in 0..clients

\* Set changed size during iteration.
Raises(size) == size # 0 /\ clients # size

\* The publisher is told that its signal is queued.
Queued(p) ==
  /\ publisher[p].pc = "broadcast"
  /\ GetsThrough(publisher[p].size)
  /\ refusedTo' = refusedTo \ {publisher[p].signal.intent}
  /\ publisher' = [publisher EXCEPT ![p] = Listening]
  /\ UNCHANGED <<queue, waiting, slot, persisted, tables, published, forsaken,
                 crashes>>

\* The exception leaves the endpoint although the signal is queued.
QueuedButRefused(p) ==
  /\ publisher[p].pc = "broadcast"
  /\ Raises(publisher[p].size)
  /\ publisher' = [publisher EXCEPT ![p] = Listening]
  /\ UNCHANGED <<queue, waiting, slot, clients, persisted, tables, refusedTo,
                 published, forsaken, crashes>>

-----------------------------------------------------------------------------
(* run_copy_execution_worker and execute_copy_signal.                      *)

\* Mutant of Dispatch: a signal is dropped while all permits are out.
DispatchDrops ==
  /\ queue # <<>>
  /\ queue' = Tail(queue)
  /\ waiting' = IF \E s \in Slots : slot[s] = FreeSlot
                  THEN Append(waiting, Head(queue)) ELSE waiting
  /\ UNCHANGED <<slot, publisher, clients, persisted, tables, refusedTo,
                 published, forsaken, crashes>>

\* The worker never waits for a permit itself.
Dispatch ==
  /\ queue # <<>>
  /\ queue' = Tail(queue)
  /\ waiting' = Append(waiting, Head(queue))
  /\ UNCHANGED <<slot, publisher, clients, persisted, tables, refusedTo,
                 published, forsaken, crashes>>

Enter(s, phase, g) ==
  slot' = [slot EXCEPT ![s] = [pc |-> phase, signal |-> g]]
Announce(s, phase, g) ==
  slot' = [slot EXCEPT ![s] = [pc |-> phase, signal |-> g, size |-> clients]]
Leave(s) == slot' = [slot EXCEPT ![s] = FreeSlot]

\* The first permit goes to the first task.
TakePermit(s) ==
  /\ slot[s] = FreeSlot
  /\ waiting # <<>>
  /\ waiting' = Tail(waiting)

\* account_can_execute refuses.
Reject(s) ==
  /\ TakePermit(s)
  /\ events' = [events EXCEPT ![Head(waiting)] = @ \cup {"REJECTED"}]
  /\ Enter(s, "alertRejected", Head(waiting))
  /\ UNCHANGED <<queue, publisher, clients, persisted, orders, exchange, late,
                 refusedTo, published, forsaken, crashes>>

\* No account, unreadable credentials or a gate that raises (it always does
\* for a MAINNET account, which is not passed on): the task ends, the signal
\* stays QUEUED in its table and nothing else tells of it.
SetupRaises(s) ==
  /\ SetupFaults
  /\ TakePermit(s)
  /\ forsaken' = forsaken \cup {Head(waiting)}
  /\ UNCHANGED <<queue, slot, publisher, clients, persisted, tables,
                 refusedTo, published, crashes>>

\* Mutant of Accept: the row is inserted after the exchange has answered.
AcceptUnregistered(s) ==
  /\ TakePermit(s)
  /\ Enter(s, "place", Head(waiting))
  /\ UNCHANGED <<queue, publisher, clients, persisted, tables,
                 refusedTo, published, forsaken, crashes>>

\* insert_order ignores the row of an earlier execution of the same id, and
\* its status is not looked at.
Accept(s) ==
  /\ TakePermit(s)
  /\ orders' = [orders EXCEPT ![Head(waiting)] =
                  IF @ = "absent" THEN "PENDING" ELSE @]
  /\ Enter(s, "place", Head(waiting))
  /\ UNCHANGED <<queue, publisher, clients, persisted, events, exchange, late,
                 refusedTo, published, forsaken, crashes>>

\* The exchange accepts the order.
ExchangeAccepts(s) ==
  /\ slot[s].pc = "place"
  /\ ExchangeDedups => exchange[slot[s].signal] = 0
  /\ exchange' = [exchange EXCEPT ![slot[s].signal] = @ + 1]
  /\ Enter(s, "accepted", slot[s].signal)
  /\ UNCHANGED <<queue, waiting, publisher, clients, persisted, orders, events,
                 late, refusedTo, published, forsaken, crashes>>

Settle(g, status) ==
  /\ orders' = [orders EXCEPT ![g] = status]
  /\ events' = [events EXCEPT ![g] = @ \cup {status}]

Executed(s) ==
  /\ slot[s].pc = "accepted"
  /\ Settle(slot[s].signal, "SENT")
  /\ Announce(s, "executed", slot[s].signal)
  /\ UNCHANGED <<queue, waiting, publisher, clients, persisted, exchange,
                 late, refusedTo, published, forsaken, crashes>>

\* Mutant of Fails: what failed is put back on the queue.
FailsRequeued(s) ==
  /\ slot[s].pc \in {"place", "accepted"}
  /\ Settle(slot[s].signal, "FAILED")
  /\ waiting' = Append(waiting, slot[s].signal)
  /\ Enter(s, "alertFailed", slot[s].signal)
  /\ UNCHANGED <<queue, publisher, clients, persisted, exchange,
                 late, refusedTo, published, forsaken, crashes>>

\* place_order raises: the exchange refused the order, the request or its
\* answer was lost, or it timed out while the request was under way.  What is
\* late need not arrive.
Fails(s) ==
  /\ slot[s].pc \in {"place", "accepted"}
  /\ Settle(slot[s].signal, "FAILED")
  /\ Enter(s, "alertFailed", slot[s].signal)
  /\ late' = IF slot[s].pc = "place"
               THEN [late EXCEPT ![slot[s].signal] = @ + 1] ELSE late
  /\ UNCHANGED <<queue, waiting, publisher, clients, persisted, exchange,
                 refusedTo, published, forsaken, crashes>>

\* The broadcast of a success is inside the try.
BroadcastFails(s) ==
  /\ slot[s].pc = "executed" /\ Raises(slot[s].size)
  /\ Settle(slot[s].signal, "FAILED")
  /\ Enter(s, "alertFailed", slot[s].signal)
  /\ UNCHANGED <<queue, waiting, publisher, clients, persisted, exchange,
                 late, refusedTo, published, forsaken, crashes>>

\* The alert of a failure is followed by a broadcast, unless it raises.
Alerted(s) ==
  /\ slot[s].pc = "alertFailed"
  /\ Announce(s, "failed", slot[s].signal)
  /\ UNCHANGED <<queue, waiting, publisher, clients, persisted, tables,
                 refusedTo, published, forsaken, crashes>>

\* smtplib.SMTP gets no timeout and is called in the event loop: the mail
\* server does not answer the alert, and every task of the process stops.
Hangs(s) ==
  /\ MailHangs
  /\ slot[s].pc \in {"alertRejected", "alertFailed"}
  /\ Enter(s, "mail", slot[s].signal)
  /\ UNCHANGED <<queue, waiting, publisher, clients, persisted, tables,
                 refusedTo, published, forsaken, crashes>>

Blocked == \E s \in Slots : slot[s].pc = "mail"

\* Mutant of Finish: only a task that returns gives its permit back.
FinishLeaks(s) ==
  /\ \/ slot[s].pc = "alertRejected" /\ UNCHANGED clients
     \/ slot[s].pc \in {"executed", "failed"} /\ GetsThrough(slot[s].size)
  /\ Leave(s)
  /\ UNCHANGED <<queue, waiting, publisher, persisted, tables, refusedTo,
                 published, forsaken, crashes>>

\* The task returns, or an alert or the last broadcast ends it; the permit
\* is given back either way.
Finish(s) ==
  /\ \/ slot[s].pc = "alertRejected" /\ UNCHANGED clients
     \/ slot[s].pc = "alertFailed" /\ AlertFaults /\ UNCHANGED clients
     \/ slot[s].pc \in {"executed", "failed"} /\ GetsThrough(slot[s].size)
     \/ slot[s].pc = "failed" /\ Raises(slot[s].size) /\ UNCHANGED clients
  /\ Leave(s)
  /\ UNCHANGED <<queue, waiting, publisher, persisted, tables, refusedTo,
                 published, forsaken, crashes>>

-----------------------------------------------------------------------------
(* The environment.                                                        *)

\* SignalBus.connect and disconnect.
ClientsMove ==
  /\ \/ clients < MaxClients /\ clients' = clients + 1
     \/ clients > 0 /\ clients' = clients - 1
  /\ UNCHANGED <<queue, waiting, slot, publisher, persisted, tables, refusedTo,
                 published, forsaken, crashes>>

\* A request its sender gave up on reaches the exchange.
LateArrival(g) ==
  /\ late[g] > 0
  /\ late' = [late EXCEPT ![g] = @ - 1]
  /\ exchange' = [exchange EXCEPT ![g] =
                    IF ExchangeDedups /\ @ > 0 THEN @ ELSE @ + 1]
  /\ UNCHANGED <<queue, waiting, slot, publisher, clients, persisted, orders,
                 events, refusedTo, published, forsaken, crashes>>

InPipeline(g) ==
  \/ \E n \in DOMAIN queue : queue[n] = g
  \/ \E n \in DOMAIN waiting : waiting[n] = g
  \/ \E s \in Slots : slot[s] # FreeSlot /\ slot[s].signal = g

\* A restart: the queue, the tasks and the connections are gone, and nothing
\* reads the rows that are still QUEUED.  Requests under way may arrive later.
Crash ==
  /\ crashes < MaxCrashes
  /\ crashes' = crashes + 1
  /\ forsaken' = forsaken \cup {g \in Signals : InPipeline(g)}
  /\ queue' = <<>> /\ waiting' = <<>>
  /\ slot' = [s \in Slots |-> FreeSlot]
  /\ publisher' = [p \in Publishers |-> Listening]
  /\ clients' = 0
  /\ late' = [g \in Signals |-> late[g] + Cardinality(
                 {s \in Slots : slot[s].pc = "place" /\ slot[s].signal = g})]
  /\ UNCHANGED <<persisted, orders, events, exchange, refusedTo, published>>

\* What the event loop runs stops while it is blocked; ccxt talks to the
\* exchange in threads of its own.
Publication(p) ==
  ~Blocked /\ (Publish(p) \/ Put(p) \/ Queued(p) \/ QueuedButRefused(p))

Work == ~Blocked /\ Dispatch

Start(s) == ~Blocked /\ (Reject(s) \/ SetupRaises(s) \/ Accept(s))

Task(s) ==
  \/ ExchangeAccepts(s)
  \/ /\ ~Blocked
     /\ \/ Executed(s) \/ Fails(s) \/ BroadcastFails(s)
        \/ Alerted(s) \/ Hangs(s) \/ Finish(s)

Next ==
  \/ \E p \in Publishers : Publication(p)
  \/ Work
  \/ \E s \in Slots : Start(s) \/ Task(s)
  \/ ~Blocked /\ ClientsMove
  \/ \E g \in Signals : LateArrival(g)
  \/ Crash

Spec == Init /\ [][Next]_vars

\* While it is not blocked the event loop runs every task that is ready,
\* permits are handed out in turn, and ccxt and httpx bound their requests
\* with a timeout.  Nothing bounds the mail server (alerts.py 45): a task in
\* phase "mail" stays there.  Nothing is assumed of publishers and clients.
Fairness ==
  /\ WF_vars(Work)
  /\ WF_vars(\E s \in Slots : Start(s))
  /\ \A s \in Slots : WF_vars(Task(s))

FairSpec == Spec /\ Fairness

-----------------------------------------------------------------------------
(* Properties.                                                             *)

\* Every signal whose publisher may count on it (its row is written) is in
\* the pipeline, has an outcome on record, or fell to a restart or to a
\* set-up that raised: no other path loses a signal.
NothingVanishes ==
  \A g \in persisted : events[g] # {} \/ InPipeline(g) \/ g \in forsaken

\* No order is on the exchange, or on its way there, that the tables do not
\* know, and an event SENT tells the truth, across restarts, requests that
\* arrive late and repeated ids.
RecordsCoverExchange ==
  \A g \in Signals :
    /\ exchange[g] + late[g] > 0 => orders[g] # "absent" /\ g \in persisted
    /\ "SENT" \in events[g] => exchange[g] > 0

\* The engine executes what was published and no more: no path through
\* failures, alerts, broadcasts and restarts sends an order again on its own.
OncePerPublication ==
  \A g \in Signals : exchange[g] + late[g] <= published[g.intent]

\* Every signal comes to an outcome: permits are never lost, and no task
\* waits behind one that does not end, but for a mail server that leaves an
\* alert without an answer.
SignalSettles ==
  \A g \in {h \in Signals : StableIds => h.no = 0} :
    g \in persisted ~> (events[g] # {} \/ g \in forsaken \/ Blocked)

\* A publisher that was not told "queued" may publish again, and the order is
\* still executed once (VALIDATION_PLAYBOOK_CN.md 79).
NoDuplicateOrder ==
  \A g, h \in Signals :
    /\ g.intent = h.intent /\ exchange[g] > 0 /\ exchange[h] > 0 => g = h
    /\ exchange[g] <= 1
=============================================================================
