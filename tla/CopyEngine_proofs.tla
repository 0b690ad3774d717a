-------------------------- MODULE CopyEngine_proofs --------------------------
(***************************************************************************)
(* What CopyEngine promises for every number of publishers, permits and    *)
(* clients, every queue and every id scheme.                               *)
(*                                                                         *)
(* NothingVanishes needs to know that a task that is past its outcome has  *)
(* written it; RecordsCoverExchange that a task that is about to place an  *)
(* order has written its row.  Recorded says both of every task, and that  *)
(* whatever is queued or waiting has its row in signal_events.             *)
(*                                                                         *)
(* OncePerPublication is a count: Accounted adds up the copies of a signal *)
(* wherever they are, and no step but a publication makes one more.        *)
(***************************************************************************)
EXTENDS CopyEngine, FiniteSetTheorems, TLAPS

Settled == {"alertRejected", "alertFailed", "mail", "executed", "failed"}

Recorded ==
  /\ \A n \in DOMAIN queue : queue[n] \in persisted
  /\ \A n \in DOMAIN waiting : waiting[n] \in persisted
  /\ \A s \in Slots : slot[s] # FreeSlot =>
       /\ slot[s].signal \in persisted
       /\ slot[s].pc \in {"place", "accepted"} => orders[slot[s].signal] # "absent"
       /\ slot[s].pc = "accepted" => exchange[slot[s].signal] > 0
       /\ slot[s].pc \in Settled => events[slot[s].signal] # {}

-----------------------------------------------------------------------------
(* Slots, publishers and queues.                                           *)

\* A permit that is out is held for a signal, at one of the phases.
LEMMA SlotHeld ==
  ASSUME NEW r \in SlotState, r.pc # "free"
  PROVE  /\ r.signal \in Signals
         /\ r # FreeSlot
         /\ r.pc \in {"place", "accepted"} \cup Settled
BY DEF SlotState, FreeSlot, Settled

\* A slot whose phase is "free" is the free slot.
LEMMA SlotFree ==
  ASSUME NEW r \in SlotState
  PROVE  r.pc = "free" <=> r = FreeSlot
BY DEF SlotState, FreeSlot

\* The records that tasks write are slot states.
LEMMA SlotWritten ==
  ASSUME NEW g \in Signals
  PROVE  /\ \A c \in {"place", "accepted", "alertRejected", "alertFailed",
                     "mail"} :
              [pc |-> c, signal |-> g] \in SlotState
         /\ \A c \in {"executed", "failed"}, n \in 0..MaxClients :
              [pc |-> c, signal |-> g, size |-> n] \in SlotState
         /\ FreeSlot \in SlotState
BY DEF SlotState

\* A publication in service carries a signal.
LEMMA PublisherHeld ==
  ASSUME NEW r \in PublisherState, r # Listening
  PROVE  r.signal \in Signals
BY DEF PublisherState, Listening

\* So do the records that publications write.
LEMMA PublisherWritten ==
  ASSUME NEW g \in Signals
  PROVE  /\ [pc |-> "put", signal |-> g] \in PublisherState
         /\ \A n \in 0..MaxClients :
              [pc |-> "broadcast", signal |-> g, size |-> n] \in PublisherState
         /\ Listening \in PublisherState
BY DEF PublisherState

\* The id of a publication that is still allowed is a signal.
LEMMA NewSignalType ==
  ASSUME TypeOK, NEW i \in Intents, published[i] < MaxPublish[i]
  PROVE  NewSignal(i) \in Signals
<1>1. published[i] \in Nat /\ MaxPublish[i] \in Nat
  BY ConstantsAssumption DEF TypeOK
<1>2. (IF StableIds THEN 0 ELSE published[i]) \in 0..MaxPublish[i]
  BY <1>1
<1> DEFINE n == IF StableIds THEN 0 ELSE published[i]
<1>3. NewSignal(i) = [intent |-> i, no |-> n]
  BY DEF NewSignal
<1> HIDE DEF n
<1>4. NewSignal(i) \in [intent : {i}, no : 0..MaxPublish[i]]
  BY <1>2, <1>3 DEF n
<1> QED BY <1>4 DEF Signals

\* What is left of a sequence when its head is taken.
LEMMA TailKeeps ==
  ASSUME NEW S, NEW q \in Seq(S), q # <<>>
  PROVE  /\ Head(q) \in S /\ Tail(q) \in Seq(S) /\ Len(Tail(q)) = Len(q) - 1
         /\ \A n \in DOMAIN Tail(q) : n + 1 \in DOMAIN q /\ Tail(q)[n] = q[n + 1]
         /\ \A n \in DOMAIN q : q[n] = Head(q)
                                 \/ \E m \in DOMAIN Tail(q) : Tail(q)[m] = q[n]
<1>1. Head(q) \in S /\ Tail(q) \in Seq(S) /\ Len(Tail(q)) = Len(q) - 1
  OBVIOUS
<1>2. ASSUME NEW n \in DOMAIN Tail(q)
      PROVE  n + 1 \in DOMAIN q /\ Tail(q)[n] = q[n + 1]
  OBVIOUS
<1>3. ASSUME NEW n \in DOMAIN q, q[n] # Head(q)
      PROVE  \E m \in DOMAIN Tail(q) : Tail(q)[m] = q[n]
  <2>1. n # 1
    BY <1>3
  <2>2. n - 1 \in DOMAIN Tail(q) /\ Tail(q)[n - 1] = q[n]
    BY <2>1
  <2> QED BY <2>2
<1> QED BY <1>1, <1>2, <1>3

\* A sequence with one more at its end.
LEMMA AppendKeeps ==
  ASSUME NEW S, NEW q \in Seq(S), NEW e \in S
  PROVE  /\ Append(q, e) \in Seq(S) /\ Len(Append(q, e)) = Len(q) + 1
         /\ \A n \in DOMAIN q : n \in DOMAIN Append(q, e) /\ Append(q, e)[n] = q[n]
         /\ \A n \in DOMAIN Append(q, e) :
              Append(q, e)[n] = e \/ (n \in DOMAIN q /\ Append(q, e)[n] = q[n])
         /\ \E n \in DOMAIN Append(q, e) : Append(q, e)[n] = e
<1>1. Append(q, e) \in Seq(S) /\ Len(Append(q, e)) = Len(q) + 1
  OBVIOUS
<1>2. \A n \in DOMAIN q : n \in DOMAIN Append(q, e) /\ Append(q, e)[n] = q[n]
  OBVIOUS
<1>3. \A n \in DOMAIN Append(q, e) :
        Append(q, e)[n] = e \/ (n \in DOMAIN q /\ Append(q, e)[n] = q[n])
  OBVIOUS
<1>4. Len(q) + 1 \in DOMAIN Append(q, e) /\ Append(q, e)[Len(q) + 1] = e
  OBVIOUS
<1> QED BY <1>1, <1>2, <1>3, <1>4

-----------------------------------------------------------------------------
(* Type correctness.                                                       *)

\* The initial state has its types.
LEMMA TypeInit == Init => TypeOK
<1> SUFFICES ASSUME Init PROVE TypeOK
  OBVIOUS
<1>1. /\ queue \in Seq(Signals) /\ Len(queue) <= QueueLimit
      /\ waiting \in Seq(Signals)
  BY ConstantsAssumption DEF Init
<1>2. /\ slot \in [Slots -> SlotState]
      /\ publisher \in [Publishers -> PublisherState]
  BY DEF Init, SlotState, PublisherState
<1>3. /\ orders \in [Signals -> OrderStatus]
      /\ events \in [Signals -> SUBSET EventStatus]
      /\ exchange \in [Signals -> Nat] /\ late \in [Signals -> Nat]
      /\ persisted \subseteq Signals /\ forsaken \subseteq Signals
  BY DEF Init, OrderStatus
<1>4. /\ published \in [Intents -> Nat] /\ refusedTo \subseteq Intents
      /\ \A i \in Intents : published[i] <= MaxPublish[i]
      /\ clients \in 0..MaxClients /\ crashes \in 0..MaxCrashes
  BY ConstantsAssumption DEF Init
<1> QED BY <1>1, <1>2, <1>3, <1>4 DEF TypeOK

\* The head of the waiting tasks is a signal.
LEMMA WaitingHead ==
  ASSUME TypeOK, waiting # <<>>
  PROVE  Head(waiting) \in Signals /\ Tail(waiting) \in Seq(Signals)
BY TailKeeps DEF TypeOK

\* A permit taken or given back is still a slot state.
LEMMA SlotType ==
  ASSUME TypeOK, NEW s \in Slots, NEW r \in SlotState,
         slot' = [slot EXCEPT ![s] = r]
  PROVE  slot' \in [Slots -> SlotState]
BY DEF TypeOK

\* What a task that holds a permit works on.
LEMMA TaskSignal ==
  ASSUME TypeOK, NEW s \in Slots, slot[s].pc # "free"
  PROVE  slot[s].signal \in Signals
BY SlotHeld DEF TypeOK

\* Settling an order keeps the tables typed.
LEMMA SettleType ==
  ASSUME TypeOK, NEW g \in Signals, NEW x \in {"SENT", "FAILED"}, Settle(g, x)
  PROVE  /\ orders' \in [Signals -> OrderStatus]
         /\ events' \in [Signals -> SUBSET EventStatus]
<1>1. x \in OrderStatus /\ {x} \subseteq EventStatus
  BY DEF OrderStatus, EventStatus
<1>2. orders' = [orders EXCEPT ![g] = x]
      /\ events' = [events EXCEPT ![g] = events[g] \cup {x}]
  BY DEF Settle
<1>3. events[g] \cup {x} \in SUBSET EventStatus
  BY <1>1 DEF TypeOK
<1> QED BY <1>1, <1>2, <1>3 DEF TypeOK

\* What an attempt that failed leaves under way.
LEMMA FailsLate ==
  ASSUME TypeOK, NEW s \in Slots, Fails(s)
  PROVE  /\ late' \in [Signals -> Nat]
         /\ \A g \in Signals :
              late'[g] = late[g] + (IF slot[s].pc = "place" /\ slot[s].signal = g
                                      THEN 1 ELSE 0)
<1>1. PICK h \in Signals : h = slot[s].signal
  BY TaskSignal DEF Fails
<1>2. late \in [Signals -> Nat] /\ late[h] + 1 \in Nat
  BY DEF TypeOK
<1>3. CASE slot[s].pc = "place"
  <2>1. late' = [late EXCEPT ![h] = late[h] + 1]
    BY <1>1, <1>3 DEF Fails
  <2> QED BY <1>1, <1>2, <1>3, <2>1
<1>4. CASE slot[s].pc # "place"
  <2>1. late' = late
    BY <1>4 DEF Fails
  <2> QED BY <1>2, <1>4, <2>1
<1> QED BY <1>3, <1>4

\* A request that arrives late is one less under way and at most one more
\* order at the exchange.
LEMMA LateArrives ==
  ASSUME TypeOK, NEW h \in Signals, LateArrival(h)
  PROVE  /\ late' \in [Signals -> Nat] /\ exchange' \in [Signals -> Nat]
         /\ \A g \in Signals :
              /\ exchange[g] <= exchange'[g]
              /\ exchange'[g] + late'[g] <= exchange[g] + late[g]
         /\ \A g \in Signals : g # h => exchange'[g] = exchange[g]
<1>1. /\ late \in [Signals -> Nat] /\ exchange \in [Signals -> Nat]
      /\ late[h] > 0
  BY DEF TypeOK, LateArrival
<1>2. late' = [late EXCEPT ![h] = late[h] - 1]
  BY DEF LateArrival
<1>3. PICK n \in {exchange[h], exchange[h] + 1} :
        exchange' = [exchange EXCEPT ![h] = n]
  BY DEF LateArrival
<1>4. n \in Nat /\ exchange[h] <= n /\ n <= exchange[h] + 1
  BY <1>1
<1> QED BY <1>1, <1>2, <1>3, <1>4

\* Publishing keeps the types: the queue never outgrows its limit.
LEMMA TypePublication ==
  ASSUME TypeOK, NEW p \in Publishers, Publication(p)
  PROVE  TypeOK'
<1>1. CASE Publish(p)
  <2>1. PICK i \in refusedTo :
          /\ published[i] < MaxPublish[i]
          /\ publisher' = [publisher EXCEPT ![p] =
                             [pc |-> "put", signal |-> NewSignal(i)]]
          /\ published' = [published EXCEPT ![i] = published[i] + 1]
    BY <1>1 DEF Publish
  <2>2. i \in Intents /\ NewSignal(i) \in Signals
    BY <2>1, NewSignalType DEF TypeOK
  <2>3. publisher' \in [Publishers -> PublisherState]
    BY <2>1, <2>2, PublisherWritten DEF TypeOK
  <2>4. published[i] \in Nat /\ MaxPublish[i] \in Nat
    BY <2>2, ConstantsAssumption DEF TypeOK
  <2>5. published' \in [Intents -> Nat]
    BY <2>1, <2>2, <2>4 DEF TypeOK
  <2>6. \A j \in Intents : published'[j] <= MaxPublish[j]
    BY <2>1, <2>2, <2>4 DEF TypeOK
  <2> QED BY <1>1, <2>3, <2>5, <2>6 DEF Publish, tables, TypeOK
<1>2. CASE Put(p)
  <2>1. publisher[p] # Listening
    BY <1>2 DEF Put, Listening
  <2>2. publisher[p].signal \in Signals
    BY <2>1, PublisherHeld DEF TypeOK
  <2>3. publisher' \in [Publishers -> PublisherState]
    BY <1>2, <2>2, PublisherWritten DEF Put, TypeOK
  <2>4. queue' \in Seq(Signals) /\ Len(queue') = Len(queue) + 1
    BY <1>2, <2>2, AppendKeeps DEF Put, TypeOK
  <2>5. Len(queue') <= QueueLimit
    BY <1>2, <2>4, ConstantsAssumption DEF Put, TypeOK
  <2> QED BY <1>2, <2>2, <2>3, <2>4, <2>5 DEF Put, tables, TypeOK
<1>3. CASE Queued(p)
  <2>1. publisher' \in [Publishers -> PublisherState]
    BY <1>3 DEF Queued, TypeOK, PublisherState
  <2>2. clients' \in 0..MaxClients
    BY <1>3, ConstantsAssumption DEF Queued, GetsThrough, TypeOK
  <2> QED BY <1>3, <2>1, <2>2 DEF Queued, tables, TypeOK
<1>4. CASE QueuedButRefused(p)
  <2>1. publisher' \in [Publishers -> PublisherState]
    BY <1>4 DEF QueuedButRefused, TypeOK, PublisherState
  <2> QED BY <1>4, <2>1 DEF QueuedButRefused, tables, TypeOK
<1> QED BY <1>1, <1>2, <1>3, <1>4 DEF Publication

\* So does starting a task.
LEMMA TypeStart ==
  ASSUME TypeOK, NEW s \in Slots, Start(s)
  PROVE  TypeOK'
<1> DEFINE g == Head(waiting)
<1>0. waiting # <<>> /\ waiting' = Tail(waiting)
  BY DEF Start, Reject, SetupRaises, Accept, TakePermit
<1>1. g \in Signals /\ waiting' \in Seq(Signals)
  BY <1>0, WaitingHead
<1>2. CASE Reject(s)
  <2>1. slot' \in [Slots -> SlotState]
    BY <1>1, <1>2, SlotWritten, SlotType DEF Reject, Enter
  <2>2. events' = [events EXCEPT ![g] = events[g] \cup {"REJECTED"}]
    BY <1>2 DEF Reject
  <2>3. events[g] \cup {"REJECTED"} \in SUBSET EventStatus
    BY <1>1 DEF TypeOK, EventStatus
  <2> HIDE DEF g
  <2>4. events' \in [Signals -> SUBSET EventStatus]
    BY <1>1, <2>2, <2>3 DEF TypeOK
  <2> QED BY <1>1, <1>2, <2>1, <2>4 DEF Reject, TypeOK
<1>3. CASE SetupRaises(s)
  BY <1>1, <1>3 DEF SetupRaises, tables, TypeOK
<1>4. CASE Accept(s)
  <2>1. slot' \in [Slots -> SlotState]
    BY <1>1, <1>4, SlotWritten, SlotType DEF Accept, Enter
  <2> DEFINE st == IF orders[g] = "absent" THEN "PENDING" ELSE orders[g]
  <2>2. orders' = [orders EXCEPT ![g] = st]
    BY <1>4 DEF Accept
  <2>3. st \in OrderStatus
    BY <1>1 DEF TypeOK, OrderStatus
  <2> HIDE DEF st, g
  <2>4. orders' \in [Signals -> OrderStatus]
    BY <1>1, <2>2, <2>3 DEF TypeOK
  <2> QED BY <1>1, <1>4, <2>1, <2>4 DEF Accept, TypeOK
<1> QED BY <1>2, <1>3, <1>4 DEF Start

\* And every later step of it.
LEMMA TypeTask ==
  ASSUME TypeOK, NEW s \in Slots, Task(s)
  PROVE  TypeOK'
<1> DEFINE g == slot[s].signal
<1>1. CASE ExchangeAccepts(s)
  <2>1. g \in Signals
    BY <1>1, TaskSignal DEF ExchangeAccepts
  <2>2. slot' \in [Slots -> SlotState]
    BY <1>1, <2>1, SlotWritten, SlotType DEF ExchangeAccepts, Enter
  <2>3. exchange' = [exchange EXCEPT ![g] = exchange[g] + 1]
    BY <1>1 DEF ExchangeAccepts
  <2> HIDE DEF g
  <2>4. exchange' \in [Signals -> Nat]
    BY <2>1, <2>3 DEF TypeOK
  <2> QED BY <1>1, <2>2, <2>4 DEF ExchangeAccepts, TypeOK
<1>2. CASE Executed(s)
  <2>1. g \in Signals
    BY <1>2, TaskSignal DEF Executed
  <2>2. slot' \in [Slots -> SlotState]
    BY <1>2, <2>1, SlotWritten, SlotType DEF Executed, Announce, TypeOK
  <2>3. /\ orders' \in [Signals -> OrderStatus]
        /\ events' \in [Signals -> SUBSET EventStatus]
    BY <1>2, <2>1, SettleType DEF Executed
  <2> QED BY <1>2, <2>2, <2>3 DEF Executed, TypeOK
<1>3. CASE Fails(s) \/ BroadcastFails(s)
  <2>1. g \in Signals
    BY <1>3, TaskSignal DEF Fails, BroadcastFails
  <2>2. slot' \in [Slots -> SlotState]
    BY <1>3, <2>1, SlotWritten, SlotType DEF Fails, BroadcastFails, Enter
  <2>3. /\ orders' \in [Signals -> OrderStatus]
        /\ events' \in [Signals -> SUBSET EventStatus]
    BY <1>3, <2>1, SettleType DEF Fails, BroadcastFails
  <2>4. late' \in [Signals -> Nat]
    BY <1>3, FailsLate DEF BroadcastFails, TypeOK
  <2> QED BY <1>3, <2>2, <2>3, <2>4 DEF Fails, BroadcastFails, TypeOK
<1>4. CASE Alerted(s) \/ Hangs(s)
  <2>1. g \in Signals
    BY <1>4, TaskSignal DEF Alerted, Hangs
  <2>2. slot' \in [Slots -> SlotState]
    BY <1>4, <2>1, SlotWritten, SlotType DEF Alerted, Hangs, Announce, Enter, TypeOK
  <2> QED BY <1>4, <2>2 DEF Alerted, Hangs, tables, TypeOK
<1>5. CASE Finish(s)
  <2>1. slot' \in [Slots -> SlotState]
    BY <1>5, SlotType DEF Finish, Leave, SlotState
  <2>2. clients' \in 0..MaxClients
    BY <1>5, ConstantsAssumption DEF Finish, GetsThrough, TypeOK
  <2> QED BY <1>5, <2>1, <2>2 DEF Finish, tables, TypeOK
<1> QED BY <1>1, <1>2, <1>3, <1>4, <1>5 DEF Task

\* The tasks about to place g, and how many they are.
Placing(sl, g) == {s \in Slots : sl[s].pc = "place" /\ sl[s].signal = g}
Places(sl, g) == Cardinality(Placing(sl, g))

\* Permits are finite in number.
LEMMA PlacingFinite ==
  ASSUME NEW sl, NEW g
  PROVE  IsFiniteSet(Placing(sl, g)) /\ Places(sl, g) \in Nat
<1>1. Placing(sl, g) \in SUBSET Slots
  BY DEF Placing
<1>2. IsFiniteSet(Placing(sl, g))
  BY <1>1, FS_Subset, ConstantsAssumption
<1> QED BY <1>2, FS_CardinalityType DEF Places

\* No step breaks a type.
LEMMA TypeStep == TypeOK /\ [Next]_vars => TypeOK'
<1> SUFFICES ASSUME TypeOK, [Next]_vars PROVE TypeOK'
  OBVIOUS
<1>1. CASE \E p \in Publishers : Publication(p)
  BY <1>1, TypePublication
<1>2. CASE Work
  <2>0. Dispatch
    BY <1>2 DEF Work
  <2>1. /\ queue' \in Seq(Signals) /\ Len(queue') = Len(queue) - 1
        /\ Head(queue) \in Signals
    BY <2>0, TailKeeps DEF Dispatch, TypeOK
  <2>2. waiting' \in Seq(Signals)
    BY <2>0, <2>1, AppendKeeps DEF Dispatch, TypeOK
  <2>3. Len(queue') <= QueueLimit
    BY <2>1, ConstantsAssumption DEF TypeOK
  <2> QED BY <2>0, <2>1, <2>2, <2>3 DEF Dispatch, tables, TypeOK
<1>3. CASE \E s \in Slots : Start(s) \/ Task(s)
  BY <1>3, TypeStart, TypeTask
<1>4. CASE ClientsMove
  <2>1. clients' \in 0..MaxClients
    BY <1>4, ConstantsAssumption DEF ClientsMove, TypeOK
  <2> QED BY <1>4, <2>1 DEF ClientsMove, tables, TypeOK
<1>5. CASE Crash
  <2>1. /\ slot' \in [Slots -> SlotState]
        /\ publisher' \in [Publishers -> PublisherState]
    BY <1>5 DEF Crash, SlotState, PublisherState
  <2>2. queue' \in Seq(Signals) /\ Len(queue') <= QueueLimit
        /\ waiting' \in Seq(Signals)
    BY <1>5, ConstantsAssumption DEF Crash
  <2>3. /\ forsaken' \subseteq Signals
        /\ crashes' \in 0..MaxCrashes /\ clients' \in 0..MaxClients
    BY <1>5, ConstantsAssumption DEF Crash, TypeOK
  <2>4. late' = [g \in Signals |-> late[g] + Places(slot, g)]
    BY <1>5 DEF Crash, Places, Placing
  <2>5. late' \in [Signals -> Nat]
    BY <2>4, PlacingFinite DEF TypeOK
  <2> QED BY <1>5, <2>1, <2>2, <2>3, <2>5 DEF Crash, TypeOK
<1>6. CASE UNCHANGED vars
  BY <1>6 DEF vars, TypeOK
<1>7. ASSUME NEW h \in Signals, LateArrival(h)
      PROVE  TypeOK'
  BY <1>7, LateArrives DEF LateArrival, TypeOK
<1> QED BY <1>1, <1>2, <1>3, <1>4, <1>5, <1>6, <1>7 DEF Next

\* The queue never outgrows its limit, every row and task has its type, under
\* every fault, restart and repeated id.
THEOREM TypeCorrect == Spec => []TypeOK
BY TypeInit, TypeStep, PTL DEF Spec

-----------------------------------------------------------------------------
(* Recorded and RecordsCoverExchange.                                      *)

\* What a task has on record when it is at slot state r.
TaskRecorded(r, ps, os, ex, ev) ==
  r # FreeSlot =>
    /\ r.signal \in ps
    /\ r.pc \in {"place", "accepted"} => os[r.signal] # "absent"
    /\ r.pc = "accepted" => ex[r.signal] > 0
    /\ r.pc \in Settled => ev[r.signal] # {}

\* No step takes back a row, an event or an order.
LEMMA NothingTakenBack ==
  ASSUME TypeOK, [Next]_vars
  PROVE  /\ persisted \subseteq persisted'
         /\ \A g \in Signals :
              /\ orders[g] # "absent" => orders'[g] # "absent"
              /\ exchange[g] > 0 => exchange'[g] > 0
              /\ events[g] \subseteq events'[g]
<1>1. CASE UNCHANGED <<persisted, orders, exchange, events>>
  BY <1>1
<1>2. ASSUME NEW h \in Signals, NEW x \in {"SENT", "FAILED"}, Settle(h, x),
             UNCHANGED <<persisted, exchange>>
      PROVE  /\ persisted \subseteq persisted'
             /\ \A g \in Signals :
                  /\ orders[g] # "absent" => orders'[g] # "absent"
                  /\ exchange[g] > 0 => exchange'[g] > 0
                  /\ events[g] \subseteq events'[g]
  <2>1. /\ orders' = [orders EXCEPT ![h] = x]
        /\ events' = [events EXCEPT ![h] = events[h] \cup {x}]
    BY <1>2 DEF Settle
  <2> QED BY <1>2, <2>1 DEF TypeOK
<1>3. ASSUME NEW p \in Publishers, Publication(p)
      PROVE  persisted \subseteq persisted' /\ UNCHANGED <<orders, exchange, events>>
  BY <1>3 DEF Publication, Publish, Put, Queued, QueuedButRefused, tables
<1>4. ASSUME NEW s \in Slots, Start(s)
      PROVE  /\ persisted \subseteq persisted'
             /\ \A g \in Signals :
                  /\ orders[g] # "absent" => orders'[g] # "absent"
                  /\ exchange[g] > 0 => exchange'[g] > 0
                  /\ events[g] \subseteq events'[g]
  <2>1. CASE Reject(s)
    BY <2>1 DEF Reject, TypeOK
  <2>2. CASE SetupRaises(s)
    BY <1>1, <2>2 DEF SetupRaises, tables
  <2>3. CASE Accept(s)
    BY <2>3 DEF Accept, TypeOK
  <2> QED BY <1>4, <2>1, <2>2, <2>3 DEF Start
<1>5. ASSUME NEW s \in Slots, Task(s)
      PROVE  /\ persisted \subseteq persisted'
             /\ \A g \in Signals :
                  /\ orders[g] # "absent" => orders'[g] # "absent"
                  /\ exchange[g] > 0 => exchange'[g] > 0
                  /\ events[g] \subseteq events'[g]
  <2>1. CASE ExchangeAccepts(s)
    BY <2>1 DEF ExchangeAccepts, TypeOK
  <2>2. CASE Executed(s) \/ Fails(s) \/ BroadcastFails(s)
    BY <1>2, <2>2, TaskSignal DEF Executed, Fails, BroadcastFails
  <2>3. CASE Alerted(s) \/ Hangs(s) \/ Finish(s)
    BY <1>1, <2>3 DEF Alerted, Hangs, Finish, tables
  <2> QED BY <1>5, <2>1, <2>2, <2>3 DEF Task
<1>6. CASE Work \/ ClientsMove \/ Crash
  BY <1>1, <1>6 DEF Work, Dispatch, ClientsMove, Crash, tables
<1>7. CASE UNCHANGED vars
  BY <1>1, <1>7 DEF vars
<1>8. ASSUME NEW h \in Signals, LateArrival(h)
      PROVE  /\ UNCHANGED <<persisted, orders, events>>
             /\ \A g \in Signals : exchange[g] > 0 => exchange'[g] > 0
  <2>1. \A g \in Signals : exchange[g] \in Nat /\ exchange'[g] \in Nat
    BY <1>8, LateArrives DEF TypeOK
  <2>2. \A g \in Signals : exchange[g] <= exchange'[g]
    BY <1>8, LateArrives
  <2> QED BY <1>8, <2>1, <2>2 DEF LateArrival
<1> QED BY <1>3, <1>4, <1>5, <1>6, <1>7, <1>8 DEF Next

\* A task that does not move keeps what it has on record.
LEMMA OthersRecorded ==
  ASSUME TypeOK, [Next]_vars, NEW r \in SlotState,
         TaskRecorded(r, persisted, orders, exchange, events)
  PROVE  TaskRecorded(r, persisted', orders', exchange', events')
<1>1. CASE r = FreeSlot
  BY <1>1 DEF TaskRecorded
<1>2. CASE r # FreeSlot
  <2>1. r.signal \in Signals
    BY <1>2, SlotFree, SlotHeld
  <2> QED BY <1>2, <2>1, NothingTakenBack DEF TaskRecorded
<1> QED BY <1>1, <1>2

\* A step of one slot that leaves it with its outcome on record.
LEMMA SlotRecorded ==
  ASSUME TypeOK, Recorded, [Next]_vars, NEW s \in Slots, NEW r,
         slot' = [slot EXCEPT ![s] = r],
         TaskRecorded(r, persisted', orders', exchange', events'),
         queue' = queue,
         waiting' = waiting \/ (waiting # <<>> /\ waiting' = Tail(waiting))
  PROVE  Recorded'
<1>1. ASSUME NEW u \in Slots
      PROVE  TaskRecorded(slot'[u], persisted', orders', exchange', events')
  <2>1. CASE u = s
    BY <2>1 DEF TypeOK
  <2>2. CASE u # s
    <3>1. slot'[u] = slot[u] /\ slot[u] \in SlotState
      BY <2>2 DEF TypeOK
    <3>2. TaskRecorded(slot[u], persisted, orders, exchange, events)
      BY DEF Recorded, TaskRecorded
    <3> QED BY <3>1, <3>2, OthersRecorded
  <2> QED BY <2>1, <2>2
<1>2. persisted \subseteq persisted'
  BY NothingTakenBack
<1>3. \A n \in DOMAIN queue' : queue'[n] \in persisted'
  BY <1>2 DEF Recorded
<1>4. \A n \in DOMAIN waiting' : waiting'[n] \in persisted'
  <2>1. CASE waiting' = waiting
    BY <1>2, <2>1 DEF Recorded
  <2>2. CASE waiting # <<>> /\ waiting' = Tail(waiting)
    <3>1. waiting \in Seq(Signals)
      BY DEF TypeOK
    <3> QED BY <1>2, <2>2, <3>1, TailKeeps DEF Recorded
  <2> QED BY <2>1, <2>2
<1> QED BY <1>1, <1>3, <1>4 DEF Recorded, TaskRecorded

\* Steps that move no task.
LEMMA QueuesRecorded ==
  ASSUME TypeOK, Recorded, [Next]_vars, slot' = slot,
         \A n \in DOMAIN queue' : queue'[n] \in persisted',
         \A n \in DOMAIN waiting' : waiting'[n] \in persisted'
  PROVE  Recorded'
<1>1. ASSUME NEW u \in Slots
      PROVE  TaskRecorded(slot'[u], persisted', orders', exchange', events')
  <2>1. TaskRecorded(slot[u], persisted, orders, exchange, events)
    BY DEF Recorded, TaskRecorded
  <2> QED BY <2>1, OthersRecorded DEF TypeOK
<1> QED BY <1>1 DEF Recorded, TaskRecorded

\* Nothing is in the pipeline at the start.
LEMMA RecordedInit == Init => Recorded
BY DEF Init, Recorded

\* Recorded is inductive.
LEMMA RecordedStep ==
  ASSUME TypeOK, Recorded, [Next]_vars
  PROVE  Recorded'
<1>1. ASSUME NEW p \in Publishers, Publication(p)
      PROVE  Recorded'
  <2>1. CASE Put(p)
    <3>1. publisher[p].signal \in Signals
      BY <2>1, PublisherHeld DEF Put, Listening, TypeOK
    <3>0. PICK g \in Signals : g = publisher[p].signal
      BY <3>1
    <3>a. /\ queue' = Append(queue, g) /\ persisted' = persisted \cup {g}
          /\ queue \in Seq(Signals)
      BY <2>1, <3>0 DEF Put, TypeOK
    <3>b. \A n \in DOMAIN queue' :
            queue'[n] = g \/ (n \in DOMAIN queue /\ queue'[n] = queue[n])
      BY <3>a, AppendKeeps
    <3>c. \A n \in DOMAIN queue : queue[n] \in persisted
      BY DEF Recorded
    <3>2. \A n \in DOMAIN queue' : queue'[n] \in persisted'
      BY <3>a, <3>b, <3>c
    <3>3. \A n \in DOMAIN waiting' : waiting'[n] \in persisted'
      BY <2>1 DEF Put, Recorded
    <3> QED BY <2>1, <3>2, <3>3, QueuesRecorded DEF Put
  <2>2. CASE Publish(p) \/ Queued(p) \/ QueuedButRefused(p)
    BY <2>2, QueuesRecorded DEF Publish, Queued, QueuedButRefused, Recorded
  <2> QED BY <1>1, <2>1, <2>2 DEF Publication
<1>2. CASE Work
  <2>0. /\ queue' = Tail(queue) /\ queue # <<>> /\ queue \in Seq(Signals)
        /\ waiting' = Append(waiting, Head(queue)) /\ waiting \in Seq(Signals)
        /\ persisted' = persisted /\ slot' = slot
    BY <1>2 DEF Work, Dispatch, TypeOK
  <2>1. 1 \in DOMAIN queue /\ Head(queue) = queue[1]
    BY <2>0
  <2>2. Head(queue) \in Signals /\ Head(queue) \in persisted
    BY <2>0, <2>1, TailKeeps DEF Recorded
  <2>3. \A n \in DOMAIN queue' : queue'[n] \in persisted'
    BY <2>0, TailKeeps DEF Recorded
  <2>4. \A n \in DOMAIN waiting' : waiting'[n] \in persisted'
    <3>1. \A n \in DOMAIN waiting' :
            waiting'[n] = Head(queue) \/ (n \in DOMAIN waiting /\ waiting'[n] = waiting[n])
      BY SMTT(30), <2>0, <2>2, AppendKeeps
    <3> QED BY <2>0, <2>2, <3>1 DEF Recorded
  <2> QED BY <2>0, <2>3, <2>4, QueuesRecorded
<1>3. ASSUME NEW s \in Slots, Start(s)
      PROVE  Recorded'
  <2> DEFINE g == Head(waiting)
  <2>0. /\ waiting # <<>> /\ waiting' = Tail(waiting) /\ queue' = queue
        /\ persisted' = persisted
    BY <1>3 DEF Start, Reject, SetupRaises, Accept, TakePermit
  <2>1. g \in Signals /\ g \in persisted
    BY <2>0, TailKeeps DEF TypeOK, Recorded
  <2>2. CASE Reject(s)
    <3> DEFINE r == [pc |-> "alertRejected", signal |-> g]
    <3>1. slot' = [slot EXCEPT ![s] = r] /\ events'[g] # {}
      BY <2>1, <2>2 DEF Reject, Enter, TypeOK
    <3>2. r.pc = "alertRejected" /\ r.signal = g
      OBVIOUS
    <3> HIDE DEF r, g
    <3>3. TaskRecorded(r, persisted', orders', exchange', events')
      BY <2>0, <2>1, <3>1, <3>2 DEF TaskRecorded
    <3> QED BY <2>0, <3>1, <3>3, SlotRecorded
  <2>3. CASE SetupRaises(s)
    <3>1. slot' = slot
      BY <2>3 DEF SetupRaises
    <3>2. \A n \in DOMAIN waiting' : waiting'[n] \in persisted'
      BY <2>0, TailKeeps DEF TypeOK, Recorded
    <3> QED BY <2>0, <3>1, <3>2, QueuesRecorded DEF Recorded
  <2>4. CASE Accept(s)
    <3> DEFINE r == [pc |-> "place", signal |-> g]
    <3>1. slot' = [slot EXCEPT ![s] = r] /\ orders'[g] # "absent"
      BY <2>1, <2>4 DEF Accept, Enter, TypeOK
    <3>2. r.pc = "place" /\ r.signal = g
      OBVIOUS
    <3> HIDE DEF r, g
    <3>3. TaskRecorded(r, persisted', orders', exchange', events')
      BY <2>0, <2>1, <3>1, <3>2 DEF TaskRecorded, Settled
    <3> QED BY <2>0, <3>1, <3>3, SlotRecorded
  <2> QED BY <1>3, <2>2, <2>3, <2>4 DEF Start
<1>4. ASSUME NEW s \in Slots, Task(s)
      PROVE  Recorded'
  <2>0. /\ slot[s].pc # "free" /\ queue' = queue /\ waiting' = waiting
        /\ persisted' = persisted
    BY <1>4 DEF Task, ExchangeAccepts, Executed, Fails, BroadcastFails, Alerted,
                Hangs, Finish
  <2>1. PICK g \in Signals : slot[s].signal = g /\ g \in persisted
    BY <2>0, TaskSignal, SlotHeld DEF TypeOK, Recorded
  <2>2. slot[s] # FreeSlot
    BY <2>0 DEF FreeSlot
  <2>3. ASSUME NEW x \in {"SENT", "FAILED"}, Settle(g, x)
        PROVE  events'[g] # {}
    <3>1. events' = [events EXCEPT ![g] = events[g] \cup {x}]
      BY <2>3 DEF Settle
    <3> QED BY <3>1, <2>1 DEF TypeOK
  <2>4. CASE ExchangeAccepts(s)
    <3>1. PICK r : r = [pc |-> "accepted", signal |-> g]
      OBVIOUS
    <3>2. slot' = [slot EXCEPT ![s] = r]
      BY <2>1, <2>4, <3>1 DEF ExchangeAccepts, Enter
    <3>3. exchange' = [exchange EXCEPT ![g] = exchange[g] + 1]
      BY <2>1, <2>4 DEF ExchangeAccepts
    <3>4. exchange'[g] > 0
      BY <3>3 DEF TypeOK
    <3>5. orders'[g] # "absent"
      BY <2>1, <2>2, <2>4 DEF ExchangeAccepts, Recorded
    <3>6. r.pc = "accepted" /\ r.signal = g
      BY <3>1
    <3>7. TaskRecorded(r, persisted', orders', exchange', events')
      BY <2>0, <2>1, <3>4, <3>5, <3>6 DEF TaskRecorded, Settled
    <3> QED BY <2>0, <3>2, <3>7, SlotRecorded
  <2>5. CASE Executed(s)
    <3>1. PICK r : r = [pc |-> "executed", signal |-> g, size |-> clients]
      OBVIOUS
    <3>2. slot' = [slot EXCEPT ![s] = r] /\ Settle(g, "SENT")
      BY <2>1, <2>5, <3>1 DEF Executed, Announce
    <3>3. r.pc = "executed" /\ r.signal = g
      BY <3>1
    <3>4. TaskRecorded(r, persisted', orders', exchange', events')
      BY <2>0, <2>1, <2>3, <3>2, <3>3 DEF TaskRecorded
    <3> QED BY <2>0, <3>2, <3>4, SlotRecorded
  <2>6. CASE Fails(s) \/ BroadcastFails(s)
    <3>1. PICK r : r = [pc |-> "alertFailed", signal |-> g]
      OBVIOUS
    <3>2. slot' = [slot EXCEPT ![s] = r] /\ Settle(g, "FAILED")
      BY <2>1, <2>6, <3>1 DEF Fails, BroadcastFails, Enter
    <3>3. r.pc = "alertFailed" /\ r.signal = g
      BY <3>1
    <3>4. TaskRecorded(r, persisted', orders', exchange', events')
      BY <2>0, <2>1, <2>3, <3>2, <3>3 DEF TaskRecorded
    <3> QED BY <2>0, <3>2, <3>4, SlotRecorded
  <2>7. CASE Alerted(s)
    <3>1. PICK r : r = [pc |-> "failed", signal |-> g, size |-> clients]
      OBVIOUS
    <3>2. slot' = [slot EXCEPT ![s] = r] /\ events' = events
      BY <2>1, <2>7, <3>1 DEF Alerted, Announce, tables
    <3>3. events[g] # {}
      BY <2>1, <2>2, <2>7 DEF Alerted, Recorded, Settled
    <3>4. r.pc = "failed" /\ r.signal = g
      BY <3>1
    <3>5. TaskRecorded(r, persisted', orders', exchange', events')
      BY <2>0, <2>1, <3>2, <3>3, <3>4 DEF TaskRecorded
    <3> QED BY <2>0, <3>2, <3>5, SlotRecorded
  <2>8. CASE Finish(s)
    <3>1. slot' = [slot EXCEPT ![s] = FreeSlot]
      BY <2>8 DEF Finish, Leave
    <3>2. TaskRecorded(FreeSlot, persisted', orders', exchange', events')
      BY DEF TaskRecorded
    <3> QED BY <2>0, <3>1, <3>2, SlotRecorded
  <2>9. CASE Hangs(s)
    <3>1. PICK r : r = [pc |-> "mail", signal |-> g]
      OBVIOUS
    <3>2. slot' = [slot EXCEPT ![s] = r] /\ events' = events
      BY <2>1, <2>9, <3>1 DEF Hangs, Enter, tables
    <3>3. events[g] # {}
      BY <2>1, <2>2, <2>9 DEF Hangs, Recorded, Settled
    <3>4. r.pc = "mail" /\ r.signal = g
      BY <3>1
    <3>5. TaskRecorded(r, persisted', orders', exchange', events')
      BY <2>0, <2>1, <3>2, <3>3, <3>4 DEF TaskRecorded
    <3> QED BY <2>0, <3>2, <3>5, SlotRecorded
  <2> QED BY <1>4, <2>4, <2>5, <2>6, <2>7, <2>8, <2>9 DEF Task
<1>5. CASE ClientsMove \/ \E g \in Signals : LateArrival(g)
  BY <1>5, QueuesRecorded DEF ClientsMove, LateArrival, Recorded
<1>6. CASE Crash
  <2>1. /\ \A s \in Slots : slot'[s] = FreeSlot
        /\ queue' = <<>> /\ waiting' = <<>>
    BY <1>6 DEF Crash
  <2> QED BY <2>1 DEF Recorded
<1>7. CASE UNCHANGED vars
  BY <1>7, QueuesRecorded DEF vars, Recorded
<1> QED BY <1>1, <1>2, <1>3, <1>4, <1>5, <1>6, <1>7 DEF Next

\* No step puts an order on the exchange that the tables do not know, and
\* none writes SENT for an order that is not there.
LEMMA CoverStep ==
  ASSUME TypeOK, Recorded, RecordsCoverExchange, [Next]_vars
  PROVE  RecordsCoverExchange'
<1> SUFFICES ASSUME NEW h \in Signals
             PROVE  /\ exchange'[h] + late'[h] > 0 =>
                         \/ exchange[h] + late[h] > 0
                         \/ orders[h] # "absent" /\ h \in persisted
                    /\ "SENT" \in events'[h] => "SENT" \in events[h] \/ exchange[h] > 0
  BY NothingTakenBack DEF RecordsCoverExchange
<1>0. /\ exchange[h] \in Nat /\ late[h] \in Nat
      /\ exchange'[h] \in Nat /\ late'[h] \in Nat
  BY TypeStep DEF TypeOK
<1>1. CASE UNCHANGED <<exchange, late, events>>
  BY <1>1
<1>2. ASSUME NEW g \in Signals, Settle(g, "FAILED")
      PROVE  "SENT" \in events'[h] => "SENT" \in events[h]
  <2>1. events' = [events EXCEPT ![g] = events[g] \cup {"FAILED"}]
    BY <1>2 DEF Settle
  <2> QED BY <1>2, <2>1 DEF TypeOK
<1>3. CASE \E p \in Publishers : Publication(p)
  BY <1>1, <1>3 DEF Publication, Publish, Put, Queued, QueuedButRefused, tables
<1>4. CASE Work \/ ClientsMove
  BY <1>1, <1>4 DEF Work, Dispatch, ClientsMove, tables
<1>5. ASSUME NEW s \in Slots, Start(s)
      PROVE  /\ UNCHANGED <<exchange, late>>
             /\ "SENT" \in events'[h] => "SENT" \in events[h]
  <2>1. CASE Reject(s)
    <3>1. PICK g \in Signals : g = Head(waiting)
      BY <2>1, WaitingHead DEF Reject, TakePermit
    <3>2. events' = [events EXCEPT ![g] = events[g] \cup {"REJECTED"}]
          /\ UNCHANGED <<exchange, late>>
      BY <2>1, <3>1 DEF Reject
    <3> QED BY <3>2 DEF TypeOK
  <2>2. CASE SetupRaises(s) \/ Accept(s)
    BY <2>2 DEF SetupRaises, Accept, tables
  <2> QED BY <1>5, <2>1, <2>2 DEF Start
<1>6. ASSUME NEW s \in Slots, Task(s)
      PROVE  /\ exchange'[h] + late'[h] > 0 =>
                  \/ exchange[h] + late[h] > 0
                  \/ orders[h] # "absent" /\ h \in persisted
             /\ "SENT" \in events'[h] => "SENT" \in events[h] \/ exchange[h] > 0
  <2>1. CASE ExchangeAccepts(s)
    <3>1. PICK g \in Signals : slot[s].signal = g
      BY <2>1, TaskSignal DEF ExchangeAccepts
    <3>2. g \in persisted /\ orders[g] # "absent"
      BY <2>1, <3>1 DEF ExchangeAccepts, Recorded, FreeSlot
    <3>3. /\ exchange' = [exchange EXCEPT ![g] = exchange[g] + 1]
          /\ UNCHANGED <<events, late>>
      BY <2>1, <3>1 DEF ExchangeAccepts
    <3> QED BY <3>2, <3>3 DEF TypeOK
  <2>2. CASE Executed(s)
    <3>1. PICK g \in Signals : slot[s].signal = g
      BY <2>2, TaskSignal DEF Executed
    <3>2. exchange[g] > 0
      BY <2>2, <3>1 DEF Executed, Recorded, FreeSlot
    <3>3. events' = [events EXCEPT ![g] = events[g] \cup {"SENT"}]
          /\ UNCHANGED <<exchange, late>>
      BY <2>2, <3>1 DEF Executed, Settle
    <3> QED BY <3>2, <3>3 DEF TypeOK
  <2>3. CASE Fails(s)
    <3>1. PICK g \in Signals : slot[s].signal = g
      BY <2>3, TaskSignal DEF Fails
    <3>2. slot[s].pc = "place" => g \in persisted /\ orders[g] # "absent"
      BY <3>1 DEF Recorded, FreeSlot
    <3>3. late'[h] = late[h] + (IF slot[s].pc = "place" /\ g = h THEN 1 ELSE 0)
      BY <2>3, <3>1, FailsLate
    <3>4. exchange' = exchange /\ Settle(g, "FAILED")
      BY <2>3, <3>1 DEF Fails
    <3> QED BY <1>0, <1>2, <3>2, <3>3, <3>4
  <2>4. CASE BroadcastFails(s)
    BY <1>2, <2>4, TaskSignal DEF BroadcastFails
  <2>5. CASE Alerted(s) \/ Hangs(s) \/ Finish(s)
    BY <1>1, <2>5 DEF Alerted, Hangs, Finish, tables
  <2> QED BY <1>6, <2>1, <2>2, <2>3, <2>4, <2>5 DEF Task
<1>7. CASE UNCHANGED vars
  BY <1>1, <1>7 DEF vars
<1>8. CASE \E g \in Signals : LateArrival(g)
  <2>1. PICK g \in Signals : LateArrival(g)
    BY <1>8
  <2>2. exchange'[h] + late'[h] <= exchange[h] + late[h] /\ events' = events
    BY <2>1, LateArrives DEF LateArrival
  <2> QED BY <1>0, <2>2
<1>9. CASE Crash
  <2>1. exchange' = exchange /\ events' = events
    BY <1>9 DEF Crash
  <2>2. late'[h] = late[h] + Places(slot, h)
    BY <1>9 DEF Crash, Places, Placing
  <2>3. CASE Placing(slot, h) = {}
    BY <1>0, <2>1, <2>2, <2>3, FS_EmptySet DEF Places
  <2>4. CASE Placing(slot, h) # {}
    <3>1. PICK s \in Slots : slot[s].pc = "place" /\ slot[s].signal = h
      BY <2>4 DEF Placing
    <3> QED BY <2>1, <3>1 DEF Recorded, FreeSlot
  <2> QED BY <2>3, <2>4
<1> QED BY <1>3, <1>4, <1>5, <1>6, <1>7, <1>8, <1>9 DEF Next

\* Recorded holds in every reachable state.
LEMMA RecordedAlways == Spec => []Recorded
<1>1. Recorded /\ TypeOK /\ [Next]_vars => Recorded'
  BY RecordedStep
<1> QED BY RecordedInit, TypeCorrect, <1>1, PTL DEF Spec

\* Every order on the exchange is in the tables and every event SENT has its
\* order, under every interleaving, fault and restart.
THEOREM ExchangeCovered == Spec => []RecordsCoverExchange
<1>1. Init => RecordsCoverExchange
  BY DEF Init, RecordsCoverExchange
<1>2. RecordsCoverExchange /\ TypeOK /\ Recorded /\ [Next]_vars
        => RecordsCoverExchange'
  BY CoverStep
<1> QED BY TypeCorrect, RecordedAlways, <1>1, <1>2, PTL DEF Spec

-----------------------------------------------------------------------------
(* NothingVanishes.                                                        *)

InQueue(q, g) == \E n \in DOMAIN q : q[n] = g
Held(sl, g) == \E s \in Slots : sl[s] # FreeSlot /\ sl[s].signal = g

\* Where a signal may be found.
Known(q, w, sl, ev, fo, g) ==
  ev[g] # {} \/ InQueue(q, g) \/ InQueue(w, g) \/ Held(sl, g) \/ g \in fo

\* NothingVanishes in those words.
LEMMA VanishesKnown ==
  /\ NothingVanishes <=>
       \A g \in persisted : Known(queue, waiting, slot, events, forsaken, g)
  /\ NothingVanishes' <=>
       \A g \in persisted' :
         Known(queue', waiting', slot', events', forsaken', g)
BY DEF NothingVanishes, Known, InQueue, Held, InPipeline

\* A slot that is taken, or whose task moves on, holds on to what it held.
LEMMA HeldKept ==
  ASSUME TypeOK, NEW s \in Slots, NEW r, NEW g, r # FreeSlot,
         slot' = [slot EXCEPT ![s] = r],
         slot[s] = FreeSlot \/ r.signal = slot[s].signal
  PROVE  /\ Held(slot, g) => Held(slot', g)
         /\ r.signal = g => Held(slot', g)
<1>1. slot'[s] = r /\ \A u \in Slots : u # s => slot'[u] = slot[u]
  BY DEF TypeOK
<1>2. ASSUME Held(slot, g) PROVE Held(slot', g)
  <2>1. PICK u \in Slots : slot[u] # FreeSlot /\ slot[u].signal = g
    BY <1>2 DEF Held
  <2>2. CASE u = s
    BY <1>1, <2>1, <2>2 DEF Held
  <2>3. CASE u # s
    BY <1>1, <2>1, <2>3 DEF Held
  <2> QED BY <2>2, <2>3
<1> QED BY <1>1, <1>2 DEF Held

\* The first of a queue may leave it; the others stay.
LEMMA TailHolds ==
  ASSUME NEW S, NEW q \in Seq(S), q # <<>>, NEW g, InQueue(q, g)
  PROVE  g = Head(q) \/ InQueue(Tail(q), g)
<1>1. PICK n \in DOMAIN q : q[n] = g
  BY DEF InQueue
<1> QED BY <1>1, TailKeeps DEF InQueue

\* A longer queue holds what it held and the new signal.
LEMMA AppendHolds ==
  ASSUME NEW S, NEW q \in Seq(S), NEW e \in S, NEW g
  PROVE  /\ InQueue(q, g) => InQueue(Append(q, e), g)
         /\ InQueue(Append(q, e), e)
<1>1. ASSUME InQueue(q, g) PROVE InQueue(Append(q, e), g)
  <2>1. PICK n \in DOMAIN q : q[n] = g
    BY <1>1 DEF InQueue
  <2>2. n \in DOMAIN Append(q, e) /\ Append(q, e)[n] = q[n]
    BY <2>1, AppendKeeps
  <2> QED BY <2>1, <2>2 DEF InQueue
<1> QED BY <1>1, AppendKeeps DEF InQueue

\* A signal whose row is written is still to be found after every step.
LEMMA KnownStep ==
  ASSUME TypeOK, Recorded, [Next]_vars, NEW g \in persisted,
         Known(queue, waiting, slot, events, forsaken, g)
  PROVE  Known(queue', waiting', slot', events', forsaken', g)
<1>0. g \in Signals /\ queue \in Seq(Signals) /\ waiting \in Seq(Signals)
  BY DEF TypeOK
<1>1. events[g] # {} => events'[g] # {}
  BY <1>0, NothingTakenBack
<1>2. CASE UNCHANGED <<queue, waiting, slot, forsaken>>
  BY <1>1, <1>2 DEF Known
<1>3. ASSUME NEW p \in Publishers, Publication(p)
      PROVE  Known(queue', waiting', slot', events', forsaken', g)
  <2>1. CASE Put(p)
    <3>1. publisher[p].signal \in Signals
      BY <2>1, PublisherHeld DEF Put, Listening, TypeOK
    <3>2. queue' = Append(queue, publisher[p].signal)
          /\ UNCHANGED <<waiting, slot, forsaken>>
      BY <2>1 DEF Put
    <3>3. InQueue(queue, g) => InQueue(queue', g)
      BY <1>0, <3>1, <3>2, AppendHolds
    <3> QED BY <1>1, <3>2, <3>3 DEF Known
  <2>2. CASE Publish(p) \/ Queued(p) \/ QueuedButRefused(p)
    BY <1>2, <2>2 DEF Publish, Queued, QueuedButRefused
  <2> QED BY <1>3, <2>1, <2>2 DEF Publication
<1>4. CASE Work
  <2>1. /\ queue # <<>> /\ queue' = Tail(queue)
        /\ waiting' = Append(waiting, Head(queue))
        /\ UNCHANGED <<slot, forsaken>>
    BY <1>4 DEF Work, Dispatch
  <2>2. Head(queue) \in Signals
    BY <1>0, <2>1, TailKeeps
  <2>3. /\ InQueue(waiting, g) => InQueue(waiting', g)
        /\ InQueue(waiting', Head(queue))
    BY <1>0, <2>1, <2>2, AppendHolds
  <2>4. InQueue(queue, g) => g = Head(queue) \/ InQueue(queue', g)
    BY <1>0, <2>1, TailHolds
  <2> QED BY <1>1, <2>1, <2>3, <2>4 DEF Known
<1>5. ASSUME NEW s \in Slots, Start(s)
      PROVE  Known(queue', waiting', slot', events', forsaken', g)
  <2>1. /\ slot[s] = FreeSlot /\ waiting # <<>> /\ waiting' = Tail(waiting)
        /\ queue' = queue
    BY <1>5 DEF Start, Reject, SetupRaises, Accept, TakePermit
  <2>2. InQueue(waiting, g) => g = Head(waiting) \/ InQueue(waiting', g)
    BY <1>0, <2>1, TailHolds
  <2>3. CASE Reject(s) \/ Accept(s)
    <3>1. PICK r : /\ r.pc # "free" /\ r.signal = Head(waiting)
                   /\ slot' = [slot EXCEPT ![s] = r] /\ forsaken' = forsaken
      BY <2>3 DEF Reject, Accept, Enter
    <3>2. r # FreeSlot
      BY <3>1 DEF FreeSlot
    <3>3. /\ Held(slot, g) => Held(slot', g)
          /\ g = Head(waiting) => Held(slot', g)
      BY <2>1, <3>1, <3>2, HeldKept
    <3> QED BY <1>1, <2>1, <2>2, <3>1, <3>3 DEF Known
  <2>4. CASE SetupRaises(s)
    <3>1. slot' = slot /\ forsaken' = forsaken \cup {Head(waiting)}
      BY <2>4 DEF SetupRaises
    <3> QED BY <1>1, <2>1, <2>2, <3>1 DEF Known
  <2> QED BY <1>5, <2>3, <2>4 DEF Start
<1>6. ASSUME NEW s \in Slots, Task(s)
      PROVE  Known(queue', waiting', slot', events', forsaken', g)
  <2>1. /\ slot[s].pc # "free" /\ slot[s] # FreeSlot
        /\ UNCHANGED <<queue, waiting, forsaken>>
    BY <1>6 DEF Task, ExchangeAccepts, Executed, Fails, BroadcastFails, Alerted,
                Hangs, Finish, FreeSlot
  <2>2. CASE ~ Finish(s)
    <3>1. PICK r : /\ r.pc # "free" /\ r.signal = slot[s].signal
                   /\ slot' = [slot EXCEPT ![s] = r]
      BY <1>6, <2>2 DEF Task, ExchangeAccepts, Executed, Fails, BroadcastFails,
                        Alerted, Hangs, Enter, Announce
    <3>2. r # FreeSlot
      BY <3>1 DEF FreeSlot
    <3>3. Held(slot, g) => Held(slot', g)
      BY <3>1, <3>2, HeldKept
    <3> QED BY <1>1, <2>1, <3>3 DEF Known
  <2>3. CASE Finish(s)
    <3>1. slot' = [slot EXCEPT ![s] = FreeSlot]
      BY <2>3 DEF Finish, Leave
    <3>2. events[slot[s].signal] # {}
      BY <2>1, <2>3 DEF Finish, Recorded, Settled
    <3>3. Held(slot, g) => Held(slot', g) \/ g = slot[s].signal
      <4>1. \A u \in Slots : u # s => slot'[u] = slot[u]
        BY <3>1 DEF TypeOK
      <4> QED BY <4>1 DEF Held
    <3> QED BY <1>1, <2>1, <3>2, <3>3 DEF Known
  <2> QED BY <2>2, <2>3
<1>7. CASE ClientsMove \/ \E h \in Signals : LateArrival(h)
  BY <1>2, <1>7 DEF ClientsMove, LateArrival
<1>8. CASE Crash
  <2>1. forsaken' = forsaken \cup {h \in Signals : InPipeline(h)}
    BY <1>8 DEF Crash
  <2> QED BY <1>0, <1>1, <2>1 DEF Known, InPipeline, InQueue, Held
<1>9. CASE UNCHANGED vars
  BY <1>2, <1>9 DEF vars
<1> QED BY <1>3, <1>4, <1>5, <1>6, <1>7, <1>8, <1>9 DEF Next

\* A signal whose row has just been written is on the queue.
LEMMA NewRowQueued ==
  ASSUME TypeOK, [Next]_vars, NEW g \in persisted', g \notin persisted
  PROVE  InQueue(queue', g)
<1>1. PICK p \in Publishers : Put(p)
  <2>1. \A p \in Publishers : Publish(p) \/ Queued(p) \/ QueuedButRefused(p)
          => persisted' = persisted
    BY DEF Publish, Queued, QueuedButRefused
  <2>2. \A s \in Slots : Start(s) \/ Task(s) => persisted' = persisted
    BY DEF Start, Reject, SetupRaises, Accept, Task, ExchangeAccepts, Executed,
           Fails, BroadcastFails, Alerted, Hangs, Finish
  <2>3. Work \/ ClientsMove \/ Crash \/ UNCHANGED vars
          => persisted' = persisted
    BY DEF Work, Dispatch, ClientsMove, Crash, vars
  <2>4. \A h \in Signals : LateArrival(h) => persisted' = persisted
    BY DEF LateArrival
  <2> QED BY <2>1, <2>2, <2>3, <2>4 DEF Next, Publication
<1>2. publisher[p].signal \in Signals
  BY <1>1, PublisherHeld DEF Put, Listening, TypeOK
<1>3. g = publisher[p].signal /\ queue' = Append(queue, g)
  BY <1>1 DEF Put
<1> QED BY <1>2, <1>3, AppendHolds DEF TypeOK

\* No signal whose row is written is lost, except to a restart or to a set-up
\* that raises: whatever tasks, broadcasts and alerts do.
THEOREM NothingVanishesEver == Spec => []NothingVanishes
<1>1. Init => NothingVanishes
  BY DEF Init, NothingVanishes
<1>2. ASSUME TypeOK, Recorded, NothingVanishes, [Next]_vars
      PROVE  NothingVanishes'
  <2>1. ASSUME NEW g \in persisted'
        PROVE  Known(queue', waiting', slot', events', forsaken', g)
    <3>1. CASE g \in persisted
      BY <1>2, <3>1, KnownStep, VanishesKnown
    <3>2. CASE g \notin persisted
      BY <1>2, <3>2, NewRowQueued DEF Known
    <3> QED BY <3>1, <3>2
  <2> QED BY <2>1, VanishesKnown
<1>3. TypeOK /\ Recorded /\ NothingVanishes /\ [Next]_vars => NothingVanishes'
  BY <1>2
<1> QED BY TypeCorrect, RecordedAlways, <1>1, <1>3, PTL DEF Spec

-----------------------------------------------------------------------------
(* OncePerPublication.  Every publication of an intent is good for one     *)
(* copy of a signal, which is with its publisher, on the queue, waiting,   *)
(* about to be placed, under way, or at the exchange.  Steps move copies   *)
(* from one place to the next, or drop them.                               *)

Occurrences(q, g) == {n \in DOMAIN q : q[n] = g}
Putting(pb, g) == \E p \in Publishers : pb[p].pc = "put" /\ pb[p].signal = g

Queues(q, g) == Cardinality(Occurrences(q, g))
Puts(pb, g) == IF Putting(pb, g) THEN 1 ELSE 0
Asked(ex, la, g) == ex[g] + la[g]

Accounted ==
  \A g \in Signals :
    Asked(exchange, late, g) + Queues(queue, g) + Queues(waiting, g)
      + Places(slot, g) + Puts(publisher, g) <= published[g.intent]

\* No two publications of an intent are in service.
OneEach ==
  \A p, q \in Publishers :
    /\ publisher[p] # Listening /\ publisher[q] # Listening
    /\ publisher[p].signal.intent = publisher[q].signal.intent
    => p = q

\* A sequence has finitely many places.
LEMMA OccurrencesFinite ==
  ASSUME NEW S, NEW q \in Seq(S), NEW g
  PROVE  IsFiniteSet(Occurrences(q, g)) /\ Queues(q, g) \in Nat
<1>1. DOMAIN q = 1..Len(q) /\ Len(q) \in Nat
  OBVIOUS
<1>2. IsFiniteSet(DOMAIN q)
  BY <1>1, FS_Interval
<1>3. Occurrences(q, g) \in SUBSET (DOMAIN q)
  BY DEF Occurrences
<1>4. IsFiniteSet(Occurrences(q, g))
  BY <1>2, <1>3, FS_Subset
<1> QED BY <1>4, FS_CardinalityType DEF Queues

\* One more at the end of a queue.
LEMMA AppendCounts ==
  ASSUME NEW S, NEW q \in Seq(S), NEW e \in S, NEW g
  PROVE  Queues(Append(q, e), g) = Queues(q, g) + (IF e = g THEN 1 ELSE 0)
<1> DEFINE new == Len(q) + 1
<1>1. DOMAIN Append(q, e) = DOMAIN q \cup {new} /\ new \notin DOMAIN q
  OBVIOUS
<1>2. /\ \A n \in DOMAIN q : Append(q, e)[n] = q[n]
      /\ Append(q, e)[new] = e
  OBVIOUS
<1> HIDE DEF new
<1>3. CASE e = g
  <2>1. Occurrences(Append(q, e), g) = Occurrences(q, g) \cup {new}
    BY <1>1, <1>2, <1>3 DEF Occurrences
  <2>2. new \notin Occurrences(q, g)
    BY <1>1 DEF Occurrences
  <2> QED BY <1>3, <2>1, <2>2, OccurrencesFinite, FS_AddElement DEF Queues
<1>4. CASE e # g
  <2>1. Occurrences(Append(q, e), g) = Occurrences(q, g)
    BY <1>1, <1>2, <1>4 DEF Occurrences
  <2> QED BY <1>4, <2>1, OccurrencesFinite DEF Queues
<1> QED BY <1>3, <1>4

\* One less at its head.
LEMMA TailCounts ==
  ASSUME NEW S, NEW q \in Seq(S), q # <<>>, NEW g
  PROVE  Queues(q, g) = Queues(Tail(q), g) + (IF Head(q) = g THEN 1 ELSE 0)
<1> DEFINE R == Occurrences(q, g) \ {1}
           T == Occurrences(Tail(q), g)
           f == [n \in R |-> n - 1]
<1>1. /\ Tail(q) \in Seq(S) /\ DOMAIN q = 1..Len(q) /\ Len(q) \in Nat \ {0}
      /\ DOMAIN Tail(q) = 1..(Len(q) - 1)
      /\ \A n \in 1..(Len(q) - 1) : Tail(q)[n] = q[n + 1]
      /\ Head(q) = q[1]
  OBVIOUS
<1>2. R = {n \in 2..Len(q) : q[n] = g}
  BY <1>1 DEF Occurrences
<1>3. T = {n \in 1..(Len(q) - 1) : q[n + 1] = g}
  BY <1>1 DEF Occurrences
<1>4. f \in Bijection(R, T)
  <2>1. f \in [R -> T]
    BY <1>1, <1>2, <1>3
  <2>2. \A m, n \in R : f[m] = f[n] => m = n
    BY <1>2
  <2>3. \A k \in T : \E n \in R : f[n] = k
    <3>1. ASSUME NEW k \in T
          PROVE  k + 1 \in R /\ f[k + 1] = k
      BY <1>1, <1>2, <1>3
    <3> QED BY <3>1
  <2> HIDE DEF f, R, T
  <2> QED BY <2>1, <2>2, <2>3 DEF Bijection, Injection, IsInjective, Surjection
<1>5. IsFiniteSet(R) /\ Cardinality(R) =
        (IF 1 \in Occurrences(q, g) THEN Queues(q, g) - 1 ELSE Queues(q, g))
  BY OccurrencesFinite, FS_RemoveElement DEF Queues
<1>6. Cardinality(T) = Cardinality(R)
  <2>1. ExistsBijection(R, T)
    BY <1>4 DEF ExistsBijection
  <2> HIDE DEF R, T
  <2> QED BY <1>5, <2>1, FS_Bijection
<1>7. 1 \in Occurrences(q, g) <=> Head(q) = g
  BY <1>1 DEF Occurrences
<1>8. Queues(q, g) \in Nat /\ Queues(Tail(q), g) = Cardinality(T)
  BY OccurrencesFinite DEF Queues
<1> HIDE DEF R, T
<1> QED BY <1>5, <1>6, <1>7, <1>8

\* A task that begins to place adds one; one that moves on takes one away.
LEMMA PlacingCounts ==
  ASSUME NEW s \in Slots, NEW g, \A u \in Slots : u # s => slot'[u] = slot[u]
  PROVE  /\ slot'[s].pc = "place" /\ slot[s].pc # "place" =>
              Places(slot', g) = Places(slot, g) + (IF slot'[s].signal = g THEN 1 ELSE 0)
         /\ slot'[s].pc # "place" =>
              Places(slot', g) = Places(slot, g)
                - (IF slot[s].pc = "place" /\ slot[s].signal = g THEN 1 ELSE 0)
<1>2. /\ IsFiniteSet(Placing(slot, g)) /\ Places(slot, g) \in Nat
      /\ Places(slot, g) = Cardinality(Placing(slot, g))
      /\ Places(slot', g) = Cardinality(Placing(slot', g))
  BY PlacingFinite DEF Places
<1>3. ASSUME slot'[s].pc = "place", slot[s].pc # "place"
      PROVE  Places(slot', g) = Places(slot, g) + (IF slot'[s].signal = g THEN 1 ELSE 0)
  <2>1. s \notin Placing(slot, g)
    BY <1>3 DEF Placing
  <2>2. CASE slot'[s].signal = g
    <3>1. Placing(slot', g) = Placing(slot, g) \cup {s}
      BY <1>3, <2>2 DEF Placing
    <3> QED BY <1>2, <2>1, <2>2, <3>1, FS_AddElement
  <2>3. CASE slot'[s].signal # g
    <3>1. Placing(slot', g) = Placing(slot, g)
      BY <1>3, <2>3 DEF Placing
    <3> QED BY <1>2, <2>3, <3>1
  <2> QED BY <2>2, <2>3
<1>4. ASSUME slot'[s].pc # "place"
      PROVE  Places(slot', g) = Places(slot, g)
               - (IF slot[s].pc = "place" /\ slot[s].signal = g THEN 1 ELSE 0)
  <2>1. Placing(slot', g) = Placing(slot, g) \ {s}
    BY <1>4 DEF Placing
  <2>2. s \in Placing(slot, g) <=> slot[s].pc = "place" /\ slot[s].signal = g
    BY DEF Placing
  <2>3. Cardinality(Placing(slot, g) \ {s}) =
          (IF s \in Placing(slot, g) THEN Places(slot, g) - 1 ELSE Places(slot, g))
    BY <1>2, FS_RemoveElement, Zenon
  <2>a. Places(slot', g) = Cardinality(Placing(slot, g) \ {s})
    BY <1>2, <2>1, Zenon
  <2>4. CASE s \in Placing(slot, g)
    BY <2>2, <2>3, <2>4, <2>a
  <2>5. CASE s \notin Placing(slot, g)
    BY <1>2, <2>2, <2>3, <2>5, <2>a
  <2> QED BY <2>4, <2>5
<1> QED BY <1>3, <1>4

\* The copies of a signal before and after a step that adds at most one for
\* each publication.
CopiesKept(g) ==
  Asked(exchange', late', g) + Queues(queue', g) + Queues(waiting', g)
      + Places(slot', g) + Puts(publisher', g) - published'[g.intent]
    <= Asked(exchange, late, g) + Queues(queue, g) + Queues(waiting, g)
         + Places(slot, g) + Puts(publisher, g) - published[g.intent]

\* The counts are natural numbers.
LEMMA Counted ==
  ASSUME TypeOK, NEW g \in Signals
  PROVE  /\ Queues(queue, g) \in Nat /\ Queues(waiting, g) \in Nat
         /\ Places(slot, g) \in Nat /\ Puts(publisher, g) \in 0..1
         /\ exchange[g] \in Nat /\ late[g] \in Nat
         /\ Asked(exchange, late, g) \in Nat
         /\ exchange[g] + late[g] = Asked(exchange, late, g)
         /\ published[g.intent] \in Nat
         /\ g.intent \in Intents
<1>1. Queues(queue, g) \in Nat /\ Queues(waiting, g) \in Nat
  BY OccurrencesFinite DEF TypeOK
<1>2. Places(slot, g) \in Nat
  BY PlacingFinite
<1>3. g.intent \in Intents
  BY DEF Signals
<1>4. /\ exchange[g] \in Nat /\ late[g] \in Nat /\ published[g.intent] \in Nat
      /\ Asked(exchange, late, g) = exchange[g] + late[g]
  BY <1>3 DEF TypeOK, Asked
<1>5. Puts(publisher, g) \in 0..1
  BY DEF Puts
<1> QED BY <1>1, <1>2, <1>3, <1>4, <1>5

\* A publication makes one copy, and puts that one on the queue.
LEMMA PublicationKeeps ==
  ASSUME TypeOK, OneEach, NEW p \in Publishers, Publication(p), NEW g \in Signals
  PROVE  CopiesKept(g)
<1>0. publisher[p] \in PublisherState
  BY DEF TypeOK
<1>1. CASE Publish(p)
  <2>1. PICK i \in refusedTo :
          /\ \A q \in Publishers :
               publisher[q] # Listening => publisher[q].signal.intent # i
          /\ publisher' = [publisher EXCEPT ![p] =
                             [pc |-> "put", signal |-> NewSignal(i)]]
          /\ published' = [published EXCEPT ![i] = published[i] + 1]
    BY <1>1 DEF Publish
  <2>2. i \in Intents /\ published[i] \in Nat
    BY <2>1 DEF TypeOK
  <2>3. UNCHANGED <<exchange, late, queue, waiting, slot>>
    BY <1>1 DEF Publish, tables
  <2>4. \A q \in Publishers : q # p => publisher'[q] = publisher[q]
    BY <2>1 DEF TypeOK
  <2>5. publisher'[p].pc = "put" /\ publisher'[p].signal.intent = i
    BY <2>1 DEF TypeOK, NewSignal
  <2>6. CASE g.intent = i
    <3>1. published'[g.intent] = published[g.intent] + 1
      BY <2>1, <2>2, <2>6 DEF TypeOK
    <3>2. ~ Putting(publisher, g)
      BY <2>1, <2>6 DEF Putting, Listening
    <3>3. Puts(publisher', g) \in 0..1 /\ Puts(publisher, g) = 0
      BY <3>2 DEF Puts
    <3> QED BY <2>2, <2>3, <3>1, <3>3, Counted DEF CopiesKept
  <2>7. CASE g.intent # i
    <3>1. published'[g.intent] = published[g.intent]
      BY <2>1, <2>7, Counted DEF TypeOK
    <3>2. Putting(publisher', g) => Putting(publisher, g)
      BY <2>4, <2>5, <2>7 DEF Putting
    <3>3. Puts(publisher', g) \in 0..1 /\ Puts(publisher', g) <= Puts(publisher, g)
      BY <3>2 DEF Puts
    <3> QED BY <2>3, <3>1, <3>3, Counted DEF CopiesKept
  <2> QED BY <2>6, <2>7
<1>2. CASE Put(p)
  <2>1. publisher[p].pc = "put" /\ publisher[p] # Listening
    BY <1>2 DEF Put, Listening
  <2>2. PICK h \in Signals : h = publisher[p].signal
    BY <2>1, PublisherHeld DEF TypeOK
  <2>3. /\ queue' = Append(queue, h)
        /\ UNCHANGED <<exchange, late, waiting, slot, published>>
    BY <1>2, <2>2 DEF Put, tables
  <2>4. publisher'[p].pc # "put" /\ \A q \in Publishers : q # p => publisher'[q] = publisher[q]
    BY <1>2 DEF Put, TypeOK
  <2>5. Queues(queue', g) = Queues(queue, g) + (IF h = g THEN 1 ELSE 0)
    BY <2>3, AppendCounts DEF TypeOK
  <2>a. /\ Queues(waiting', g) = Queues(waiting, g) /\ Places(slot', g) = Places(slot, g)
        /\ Asked(exchange', late', g) = Asked(exchange, late, g)
      /\ published'[g.intent] = published[g.intent]
    BY <2>3
  <2>6. CASE h = g
    <3>1. Putting(publisher, g)
      BY <2>1, <2>2, <2>6 DEF Putting
    <3>2. ~ Putting(publisher', g)
      <4>1. ASSUME NEW q \in Publishers, publisher'[q].pc = "put",
                   publisher'[q].signal = g
            PROVE  FALSE
        <5>1. q # p /\ publisher[q].pc = "put" /\ publisher[q].signal = g
          BY <2>4, <4>1
        <5>2. publisher[q] # Listening
          BY <5>1 DEF Listening
        <5> QED BY <2>1, <2>2, <2>6, <5>1, <5>2 DEF OneEach
      <4> QED BY <4>1 DEF Putting
    <3>3. Puts(publisher, g) = 1 /\ Puts(publisher', g) = 0
      BY <3>1, <3>2 DEF Puts
    <3> QED BY <2>5, <2>6, <2>a, <3>3, Counted DEF CopiesKept
  <2>7. CASE h # g
    <3>1. Putting(publisher', g) => Putting(publisher, g)
      BY <2>4 DEF Putting
    <3>2. Puts(publisher', g) \in 0..1 /\ Puts(publisher', g) <= Puts(publisher, g)
      BY <3>1 DEF Puts
    <3> QED BY <2>5, <2>7, <2>a, <3>2, Counted DEF CopiesKept
  <2> QED BY <2>6, <2>7
<1>3. CASE Queued(p) \/ QueuedButRefused(p)
  <2>1. publisher' = [publisher EXCEPT ![p] = Listening]
        /\ UNCHANGED <<exchange, late, queue, waiting, slot, published>>
    BY <1>3 DEF Queued, QueuedButRefused, tables
  <2>2. Putting(publisher', g) => Putting(publisher, g)
    BY <2>1 DEF Putting, Listening, TypeOK
  <2>3. Puts(publisher', g) \in 0..1 /\ Puts(publisher', g) <= Puts(publisher, g)
    BY <2>2 DEF Puts
  <2> QED BY <2>1, <2>3, Counted DEF CopiesKept
<1> QED BY <1>1, <1>2, <1>3 DEF Publication

\* The worker moves a copy from the queue to the waiting tasks.
LEMMA DispatchKeeps ==
  ASSUME TypeOK, Work, NEW g \in Signals
  PROVE  CopiesKept(g)
<1>1. /\ queue # <<>> /\ queue' = Tail(queue) /\ waiting' = Append(waiting, Head(queue))
      /\ UNCHANGED <<exchange, late, slot, publisher, published>>
  BY DEF Work, Dispatch, tables
<1>2. Head(queue) \in Signals
  BY <1>1, TailKeeps DEF TypeOK
<1>3. Queues(queue, g) = Queues(queue', g) + (IF Head(queue) = g THEN 1 ELSE 0)
  BY <1>1, TailCounts DEF TypeOK
<1>4. Queues(waiting', g) = Queues(waiting, g) + (IF Head(queue) = g THEN 1 ELSE 0)
  BY <1>1, <1>2, AppendCounts DEF TypeOK
<1>5. Queues(queue', g) \in Nat
  BY <1>1, TailKeeps, OccurrencesFinite DEF TypeOK
<1>6. /\ Places(slot', g) = Places(slot, g) /\ Puts(publisher', g) = Puts(publisher, g)
      /\ Asked(exchange', late', g) = Asked(exchange, late, g)
      /\ published'[g.intent] = published[g.intent]
  BY <1>1
<1> QED BY <1>3, <1>4, <1>5, <1>6, Counted DEF CopiesKept

\* A task takes its copy with it, or drops it.
LEMMA StartKeeps ==
  ASSUME TypeOK, NEW s \in Slots, Start(s), NEW g \in Signals
  PROVE  CopiesKept(g)
<1>1. /\ waiting # <<>> /\ waiting' = Tail(waiting) /\ slot[s].pc = "free"
      /\ UNCHANGED <<exchange, late, queue, publisher, published>>
  BY DEF Start, Reject, SetupRaises, Accept, TakePermit, tables, FreeSlot
<1>2. Queues(waiting, g) = Queues(waiting', g) + (IF Head(waiting) = g THEN 1 ELSE 0)
  BY <1>1, TailCounts DEF TypeOK
<1>3. Queues(waiting', g) \in Nat
  BY <1>1, TailKeeps, OccurrencesFinite DEF TypeOK
<1>4. /\ Places(slot', g) \in Nat
      /\ Places(slot', g) <= Places(slot, g) + (IF Head(waiting) = g THEN 1 ELSE 0)
  <2>0. Places(slot, g) \in Nat /\ Places(slot', g) \in Nat
    BY PlacingFinite
  <2>1. CASE Reject(s)
    <3>1. PICK r : r.pc = "alertRejected" /\ slot' = [slot EXCEPT ![s] = r]
      BY <2>1 DEF Reject, Enter
    <3>a. slot'[s].pc # "place" /\ \A u \in Slots : u # s => slot'[u] = slot[u]
      BY <3>1 DEF TypeOK
    <3>2. Places(slot', g) = Places(slot, g)
             - (IF slot[s].pc = "place" /\ slot[s].signal = g THEN 1 ELSE 0)
      BY <3>a, PlacingCounts
    <3> QED BY <1>1, <2>0, <3>2
  <2>2. CASE SetupRaises(s)
    BY <2>0, <2>2 DEF SetupRaises
  <2>3. CASE Accept(s)
    <3>0. slot[s].pc # "place"
      BY <1>1
    <3>1. PICK r : /\ r.pc = "place" /\ r.signal = Head(waiting)
                   /\ slot' = [slot EXCEPT ![s] = r]
      BY <2>3 DEF Accept, Enter
    <3>a. /\ slot'[s].pc = "place" /\ slot'[s].signal = Head(waiting)
          /\ \A u \in Slots : u # s => slot'[u] = slot[u]
      BY <3>1 DEF TypeOK
    <3>2. Places(slot', g) = Places(slot, g)
            + (IF slot'[s].signal = g THEN 1 ELSE 0)
      BY <3>0, <3>a, PlacingCounts
    <3> QED BY <2>0, <3>a, <3>2
  <2> QED BY <2>1, <2>2, <2>3 DEF Start
<1>5. /\ Queues(queue', g) = Queues(queue, g) /\ Puts(publisher', g) = Puts(publisher, g)
      /\ Asked(exchange', late', g) = Asked(exchange, late, g)
      /\ published'[g.intent] = published[g.intent]
  BY <1>1
<1> QED BY <1>2, <1>3, <1>4, <1>5, Counted DEF CopiesKept

\* The exchange has the copy, or nobody has it any more.
LEMMA TaskKeeps ==
  ASSUME TypeOK, NEW s \in Slots, Task(s), NEW g \in Signals
  PROVE  CopiesKept(g)
<1>1. UNCHANGED <<queue, waiting, publisher, published>>
  BY DEF Task, ExchangeAccepts, Executed, Fails, BroadcastFails, Alerted, Hangs,
         Finish
<1>2. PICK r : r.pc # "place" /\ slot' = [slot EXCEPT ![s] = r]
  BY DEF Task, ExchangeAccepts, Executed, Fails, BroadcastFails, Alerted, Hangs,
         Finish, Enter, Announce, Leave, FreeSlot
<1>a. Places(slot', g) \in Nat
  BY PlacingFinite
<1>b. slot'[s].pc # "place" /\ \A u \in Slots : u # s => slot'[u] = slot[u]
  BY <1>2 DEF TypeOK
<1>3. Places(slot', g) = Places(slot, g)
        - (IF slot[s].pc = "place" /\ slot[s].signal = g THEN 1 ELSE 0)
  BY <1>b, PlacingCounts
<1>c. ASSUME UNCHANGED <<exchange, late>>
      PROVE  CopiesKept(g)
  <2>1. Asked(exchange', late', g) = Asked(exchange, late, g)
    BY <1>c
  <2> QED BY <1>1, <1>3, <1>a, <2>1, Counted DEF CopiesKept
<1>4. CASE ExchangeAccepts(s)
  <2>1. PICK h \in Signals : slot[s].signal = h /\ slot[s].pc = "place"
    BY <1>4, TaskSignal DEF ExchangeAccepts
  <2>2. exchange' = [exchange EXCEPT ![h] = exchange[h] + 1] /\ late' = late
    BY <1>4, <2>1 DEF ExchangeAccepts
  <2>3. exchange'[g] = exchange[g] + (IF h = g THEN 1 ELSE 0)
    BY <2>2, Counted DEF TypeOK
  <2>4. Asked(exchange', late', g) =
          Asked(exchange, late, g) + (IF h = g THEN 1 ELSE 0)
    BY <2>2, <2>3, Counted DEF Asked
  <2> QED BY <1>1, <1>3, <1>a, <2>1, <2>4, Counted DEF CopiesKept
<1>5. CASE Fails(s)
  <2>1. /\ late'[g] = late[g] + (IF slot[s].pc = "place" /\ slot[s].signal = g
                                    THEN 1 ELSE 0)
        /\ exchange' = exchange
    BY <1>5, FailsLate DEF Fails
  <2>2. Asked(exchange', late', g) = Asked(exchange, late, g)
          + (IF slot[s].pc = "place" /\ slot[s].signal = g THEN 1 ELSE 0)
    BY <2>1, Counted DEF Asked
  <2> QED BY <1>1, <1>3, <1>a, <2>2, Counted DEF CopiesKept
<1>6. CASE Executed(s) \/ BroadcastFails(s) \/ Alerted(s) \/ Hangs(s) \/ Finish(s)
  BY <1>6, <1>c DEF Executed, BroadcastFails, Alerted, Hangs, Finish, tables
<1> QED BY <1>4, <1>5, <1>6 DEF Task

\* A request that arrives late is at the exchange, or refused there.
LEMMA LateKeeps ==
  ASSUME TypeOK, NEW h \in Signals, LateArrival(h), NEW g \in Signals
  PROVE  CopiesKept(g)
<1>1. UNCHANGED <<queue, waiting, slot, publisher, published>>
  BY DEF LateArrival
<1>2. /\ exchange'[g] \in Nat /\ late'[g] \in Nat
      /\ exchange'[g] + late'[g] <= exchange[g] + late[g]
  BY LateArrives
<1>3. /\ Asked(exchange', late', g) \in Nat
      /\ Asked(exchange', late', g) <= Asked(exchange, late, g)
  BY <1>2 DEF Asked
<1>4. /\ Queues(queue', g) = Queues(queue, g)
      /\ Queues(waiting', g) = Queues(waiting, g)
      /\ Places(slot', g) = Places(slot, g) /\ Puts(publisher', g) = Puts(publisher, g)
      /\ published'[g.intent] = published[g.intent]
  BY <1>1
<1> QED BY <1>3, <1>4, Counted DEF CopiesKept

\* A restart drops all copies but those on their way to the exchange.
LEMMA CrashKeeps ==
  ASSUME TypeOK, Crash, NEW g \in Signals
  PROVE  CopiesKept(g)
<1>1. /\ queue' = <<>> /\ waiting' = <<>>
      /\ \A s \in Slots : slot'[s].pc # "place"
      /\ \A p \in Publishers : publisher'[p].pc # "put"
      /\ UNCHANGED <<exchange, published>>
      /\ late'[g] = late[g] + Places(slot, g)
  BY DEF Crash, Places, Placing, FreeSlot, Listening
<1>2. Queues(queue', g) = 0 /\ Queues(waiting', g) = 0
  <2>1. Occurrences(<<>>, g) = {}
    BY DEF Occurrences
  <2> QED BY <1>1, <2>1, FS_EmptySet DEF Queues
<1>3. Places(slot', g) = 0
  <2>1. Placing(slot', g) = {}
    BY <1>1 DEF Placing
  <2> QED BY <2>1, FS_EmptySet DEF Places
<1>4. Puts(publisher', g) = 0
  BY <1>1 DEF Puts, Putting
<1>5. Asked(exchange', late', g) = Asked(exchange, late, g) + Places(slot, g)
  BY <1>1, Counted DEF Asked
<1>6. published'[g.intent] = published[g.intent]
  BY <1>1
<1> QED BY SMTT(30), <1>2, <1>3, <1>4, <1>5, <1>6, Counted DEF CopiesKept

\* No step makes a copy without a publication.
LEMMA AccountedStep ==
  ASSUME TypeOK, TypeOK', OneEach, Accounted, [Next]_vars
  PROVE  Accounted'
<1> SUFFICES ASSUME NEW g \in Signals
             PROVE  Asked(exchange', late', g) + Queues(queue', g)
                      + Queues(waiting', g) + Places(slot', g) + Puts(publisher', g)
                      <= published'[g.intent]
  BY DEF Accounted
<1>1. CopiesKept(g)
  <2>1. CASE UNCHANGED <<exchange, late, queue, waiting, slot, publisher, published>>
    BY <2>1, Counted DEF CopiesKept
  <2>2. CASE ClientsMove \/ UNCHANGED vars
    BY <2>1, <2>2 DEF ClientsMove, vars, tables
  <2> QED BY <2>2, PublicationKeeps, DispatchKeeps, StartKeeps, TaskKeeps,
             LateKeeps, CrashKeeps DEF Next
<1>2. Asked(exchange, late, g) + Queues(queue, g) + Queues(waiting, g)
        + Places(slot, g) + Puts(publisher, g) <= published[g.intent]
  BY DEF Accounted
<1>3. /\ Queues(queue', g) \in Nat /\ Queues(waiting', g) \in Nat
      /\ Places(slot', g) \in Nat /\ Puts(publisher', g) \in 0..1
      /\ Asked(exchange', late', g) \in Nat /\ published'[g.intent] \in Nat
  <2>1. Queues(queue', g) \in Nat /\ Queues(waiting', g) \in Nat
    BY OccurrencesFinite DEF TypeOK
  <2>2. Places(slot', g) \in Nat
    BY PlacingFinite
  <2>3. Asked(exchange', late', g) \in Nat /\ published'[g.intent] \in Nat
    <3>1. exchange'[g] \in Nat /\ late'[g] \in Nat
      BY DEF TypeOK
    <3>2. g.intent \in Intents
      BY Counted
    <3> QED BY <3>1, <3>2 DEF TypeOK, Asked
  <2> QED BY <2>1, <2>2, <2>3 DEF Puts
<1>4. /\ Queues(queue, g) \in Nat /\ Queues(waiting, g) \in Nat
      /\ Places(slot, g) \in Nat /\ Puts(publisher, g) \in 0..1
      /\ Asked(exchange, late, g) \in Nat /\ published[g.intent] \in Nat
  BY Counted
<1> QED BY <1>1, <1>2, <1>3, <1>4 DEF CopiesKept

\* A publisher begins only when no other is in service with the same order.
LEMMA OneEachStep ==
  ASSUME TypeOK, OneEach, [Next]_vars
  PROVE  OneEach'
<1>1. CASE UNCHANGED publisher
  BY <1>1 DEF OneEach
<1>2. ASSUME NEW p \in Publishers, Publication(p)
      PROVE  OneEach'
  <2>1. CASE Publish(p)
    <3>1. PICK i \in refusedTo :
            /\ \A q \in Publishers :
                 publisher[q] # Listening => publisher[q].signal.intent # i
            /\ publisher' = [publisher EXCEPT ![p] =
                               [pc |-> "put", signal |-> NewSignal(i)]]
      BY <2>1 DEF Publish
    <3>2. /\ \A q \in Publishers : q # p => publisher'[q] = publisher[q]
          /\ publisher'[p].signal.intent = i
      BY <3>1 DEF TypeOK, NewSignal
    <3> QED BY <3>1, <3>2 DEF OneEach
  <2>2. CASE Put(p)
    <3>1. /\ \A q \in Publishers : q # p => publisher'[q] = publisher[q]
          /\ publisher'[p].signal = publisher[p].signal
          /\ publisher[p] # Listening
      BY <2>2 DEF Put, TypeOK, Listening
    <3> QED BY <3>1 DEF OneEach
  <2>3. CASE Queued(p) \/ QueuedButRefused(p)
    <3>1. /\ \A q \in Publishers : q # p => publisher'[q] = publisher[q]
          /\ publisher'[p] = Listening
      BY <2>3 DEF Queued, QueuedButRefused, TypeOK
    <3> QED BY <3>1 DEF OneEach
  <2> QED BY <1>2, <2>1, <2>2, <2>3 DEF Publication
<1>3. CASE Crash
  <2>1. \A p \in Publishers : publisher'[p] = Listening
    BY <1>3 DEF Crash
  <2> QED BY <2>1 DEF OneEach
<1>4. CASE \E s \in Slots : Start(s) \/ Task(s)
  BY <1>1, <1>4 DEF Start, Reject, SetupRaises, Accept, Task, ExchangeAccepts,
     Executed, Fails, BroadcastFails, Alerted, Hangs, Finish
<1>5. CASE \/ Work \/ ClientsMove \/ UNCHANGED vars
          \/ \E g \in Signals : LateArrival(g)
  BY <1>1, <1>5 DEF Work, Dispatch, ClientsMove, LateArrival, vars
<1> QED BY <1>2, <1>3, <1>4, <1>5 DEF Next

\* At the start there is nothing to count.
LEMMA AccountedInit == Init => Accounted /\ OneEach
<1> SUFFICES ASSUME Init PROVE Accounted /\ OneEach
  OBVIOUS
<1>1. OneEach
  BY DEF Init, OneEach
<1>2. ASSUME NEW g \in Signals
      PROVE  Asked(exchange, late, g) + Queues(queue, g) + Queues(waiting, g)
               + Places(slot, g) + Puts(publisher, g) <= published[g.intent]
  <2>1. Occurrences(<<>>, g) = {}
    BY DEF Occurrences
  <2>2. Placing(slot, g) = {}
    BY DEF Init, Placing, FreeSlot
  <2>3. Puts(publisher, g) = 0
    BY DEF Init, Puts, Putting, Listening
  <2>4. Queues(<<>>, g) = 0 /\ Places(slot, g) = 0
    BY <2>1, <2>2, FS_EmptySet DEF Queues, Places
  <2>5. g.intent \in Intents
    BY DEF Signals
  <2>6. /\ queue = <<>> /\ waiting = <<>>
        /\ Asked(exchange, late, g) = 0 /\ published[g.intent] = 0
    BY <2>5 DEF Init, Asked
  <2> QED BY <2>3, <2>4, <2>6
<1> QED BY <1>1, <1>2 DEF Accounted

\* A signal is executed at most as often as its order was published, under
\* every interleaving, fault and restart (copy_engine.py 60-107,
\* signal_bus.py 50-53).
THEOREM NeverMoreThanPublished == Spec => []OncePerPublication
<1>1. TypeOK /\ TypeOK' /\ OneEach /\ Accounted /\ [Next]_vars
        => OneEach' /\ Accounted'
  BY AccountedStep, OneEachStep
<1>2. TypeOK /\ Accounted => OncePerPublication
  <2> SUFFICES ASSUME TypeOK, Accounted, NEW g \in Signals
               PROVE  exchange[g] + late[g] <= published[g.intent]
    BY DEF OncePerPublication
  <2>1. Asked(exchange, late, g) + Queues(queue, g) + Queues(waiting, g)
          + Places(slot, g) + Puts(publisher, g) <= published[g.intent]
    BY DEF Accounted
  <2> QED BY <2>1, Counted
<1> QED BY TypeCorrect, AccountedInit, <1>1, <1>2, PTL DEF Spec
=============================================================================
