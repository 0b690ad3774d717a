----------------------- MODULE OrderExecution_proofs ------------------------
(***************************************************************************)
(* Proofs about OrderExecution, for every set of orders and of ticks, every *)
(* decision and every combination of faults the module knows.              *)
(***************************************************************************)
EXTENDS OrderExecution, FiniteSetTheorems, TLAPS

-----------------------------------------------------------------------------
(* The types.  The attempt counter stays in range because only a tick that *)
(* has attempts left sleeps.                                               *)

AttemptsLeft ==
  \A t \in Ticks : tick[t].pc = "sleep" => tick[t].attempt < MaxAttempts

\* A decision in service is a sequence of known orders, so is what is left of
\* it, and its first element is an order.
LEMMA TodoFacts ==
  ASSUME NEW d \in Seq(Keys), d # <<>>
  PROVE  Head(d) \in Keys /\ Tail(d) \in Seq(Keys)
OBVIOUS

\* The initial tables and ticks have their types.
LEMMA InitTypes == Init => TypeOK /\ AttemptsLeft
BY ConstantsAssumption
   DEF Init, TypeOK, AttemptsLeft, Absent, Idle, Row, RemoteOrder, TickState,
       RowStatus, Done, RemoteStates, Phases, Replies

\* A tick that goes on stays well typed.
LEMMA ContinueTypes ==
  ASSUME TypeOK, AttemptsLeft, NEW t \in Ticks, NEW phase \in Phases,
         NEW rest \in Seq(Keys), NEW n \in 0..MaxAttempts, NEW r \in Replies,
         phase = "sleep" => n < MaxAttempts,
         Continue(t, phase, rest, n, r)
  PROVE  tick' \in [Ticks -> TickState] /\ AttemptsLeft'
<1> DEFINE new == [pc |-> phase, todo |-> rest, adapter |-> tick[t].adapter,
                   attempt |-> n, reply |-> r]
<1>1. tick[t].adapter \in {"dry", "live", "blocked"}
  BY DEF TypeOK, TickState
<1>2. new \in TickState
  BY <1>1 DEF TickState
<1>3. new.pc = phase /\ new.attempt = n
  OBVIOUS
<1>4. tick' = [tick EXCEPT ![t] = new]
  BY DEF Continue
<1> HIDE DEF new
<1>5. tick' \in [Ticks -> TickState]
  BY <1>2, <1>4 DEF TypeOK
<1>6. AttemptsLeft'
  BY <1>3, <1>4 DEF TypeOK, AttemptsLeft
<1> QED
  BY <1>5, <1>6

\* The same for the ways the code moves on, and for a tick that ends.
LEMMA MoveTypes ==
  ASSUME TypeOK, AttemptsLeft, NEW t \in Ticks
  PROVE  /\ \A phase \in Phases :
              /\ phase = "sleep" => tick[t].attempt < MaxAttempts
              /\ Goto(t, phase)
              => tick' \in [Ticks -> TickState] /\ AttemptsLeft'
         /\ \A n \in 0..MaxAttempts :
              StartAttempt(t, n) => tick' \in [Ticks -> TickState] /\ AttemptsLeft'
         /\ \A r \in Replies :
              Receive(t, r) => tick' \in [Ticks -> TickState] /\ AttemptsLeft'
         /\ NextOrder(t) /\ tick[t].todo # <<>>
              => tick' \in [Ticks -> TickState] /\ AttemptsLeft'
         /\ EnterRetryLoop(t) /\ tick[t].todo # <<>>
              => tick' \in [Ticks -> TickState] /\ AttemptsLeft'
         /\ Abort(t) => tick' \in [Ticks -> TickState] /\ AttemptsLeft'
<1>1. tick[t] \in TickState
  BY DEF TypeOK
<1>2. /\ tick[t].pc \in Phases
      /\ tick[t].todo \in Seq(Keys)
      /\ tick[t].attempt \in 0..MaxAttempts
  BY <1>1 DEF TickState
<1>3. "none" \in Replies /\ "take" \in Phases /\ "send" \in Phases
  BY DEF Replies, Phases
<1>4. 0 \in 0..MaxAttempts
  BY ConstantsAssumption
<1>5. ASSUME NEW phase \in Phases, Goto(t, phase),
             phase = "sleep" => tick[t].attempt < MaxAttempts
      PROVE  tick' \in [Ticks -> TickState] /\ AttemptsLeft'
  BY <1>2, <1>3, <1>5, ContinueTypes DEF Goto
<1>6. ASSUME NEW n \in 0..MaxAttempts, StartAttempt(t, n)
      PROVE  tick' \in [Ticks -> TickState] /\ AttemptsLeft'
  BY <1>2, <1>3, <1>6, ContinueTypes DEF StartAttempt
<1>7. ASSUME NEW r \in Replies, Receive(t, r)
      PROVE  tick' \in [Ticks -> TickState] /\ AttemptsLeft'
  BY <1>2, <1>3, <1>7, ContinueTypes DEF Receive, AttemptsLeft
<1>8. ASSUME NextOrder(t), tick[t].todo # <<>>
      PROVE  tick' \in [Ticks -> TickState] /\ AttemptsLeft'
  BY <1>2, <1>3, <1>4, <1>8, TodoFacts, ContinueTypes DEF NextOrder
<1>9. ASSUME EnterRetryLoop(t), tick[t].todo # <<>>
      PROVE  tick' \in [Ticks -> TickState] /\ AttemptsLeft'
  <2>1. CASE MaxAttempts = 0
    BY <1>8, <1>9, <2>1 DEF EnterRetryLoop
  <2>2. CASE MaxAttempts # 0
    <3>1. 1 \in 0..MaxAttempts
      BY <2>2, ConstantsAssumption
    <3> QED
      BY <1>6, <1>9, <2>2, <3>1 DEF EnterRetryLoop
  <2> QED
    BY <2>1, <2>2
<1>10. ASSUME Abort(t)
       PROVE  tick' \in [Ticks -> TickState] /\ AttemptsLeft'
  <2>1. Idle \in TickState /\ Idle.pc # "sleep"
    BY <1>4 DEF Idle, TickState, Phases, Replies
  <2> QED
    BY <1>10, <2>1 DEF Abort, TypeOK, AttemptsLeft
<1> QED
  BY <1>5, <1>6, <1>7, <1>8, <1>9, <1>10

\* A written row stays well typed, and so does the exchange's record of an
\* order.
LEMMA WriteTypes ==
  ASSUME TypeOK, NEW k \in Keys
  PROVE  /\ \A s \in RowStatus, n \in 0..MaxAttempts :
              update_order(k, s, n) => orders' \in [Keys -> Row]
         /\ insert_order(k) \in Row
         /\ CreateOrder(k) => exchange' \in [Keys -> RemoteOrder]
<1>1. ASSUME NEW s \in RowStatus, NEW n \in 0..MaxAttempts, update_order(k, s, n)
      PROVE  orders' \in [Keys -> Row]
  BY <1>1 DEF update_order, TypeOK, Row
<1>2. insert_order(k) \in Row
  BY ConstantsAssumption DEF insert_order, TypeOK, Row, Pending, RowStatus
<1>3. ASSUME CreateOrder(k)
      PROVE  exchange' \in [Keys -> RemoteOrder]
  <2>1. PICK s \in RemoteStates :
          exchange' = [exchange EXCEPT ![k] = [created |-> exchange[k].created + 1,
                                               state |-> s]]
    BY <1>3 DEF CreateOrder, RemoteStates
  <2>2. exchange[k].created + 1 \in Nat
    BY DEF TypeOK, RemoteOrder
  <2> QED
    BY <2>1, <2>2 DEF TypeOK, RemoteOrder
<1> QED
  BY <1>1, <1>2, <1>3

\* Marking a failure keeps the types, and only a tick with attempts left
\* goes to sleep.
LEMMA FailureTypes ==
  ASSUME TypeOK, AttemptsLeft, NEW t \in Ticks, Current(t) \in Keys,
         MarkFailure(t)
  PROVE  /\ orders' \in [Keys -> Row]
         /\ tick' \in [Ticks -> TickState]
         /\ AttemptsLeft'
<1>1. tick[t].attempt \in 0..MaxAttempts
  BY DEF TypeOK, TickState
<1>2. {"RETRYING", "FAILED"} \subseteq RowStatus /\ {"sleep", "alarm"} \subseteq Phases
  BY DEF RowStatus, Phases
<1> QED
  BY <1>1, <1>2, MoveTypes, WriteTypes DEF MarkFailure

\* No action leaves the types, and only ticks with attempts left sleep.
LEMMA NextTypes ==
  TypeOK /\ AttemptsLeft /\ [Next]_vars => TypeOK' /\ AttemptsLeft'
<1> SUFFICES ASSUME TypeOK, AttemptsLeft, [Next]_vars
             PROVE  TypeOK' /\ AttemptsLeft'
  OBVIOUS
<1>0. /\ {"take", "lookup", "send", "wait", "notify", "recover"} \subseteq Phases
      /\ "mail" \in Phases
      /\ {"SENT", "FILLED", "CANCELED", "ACCEPTED_DRY_RUN"} \subseteq RowStatus
      /\ RemoteStates \cup {"accepted", "refused", "missing", "raised"}
           \subseteq Replies
  BY DEF Phases, RowStatus, Done, Replies
<1>a. ASSUME NEW t \in Ticks
      PROVE  /\ tick[t].pc \in Phases
             /\ tick[t].todo \in Seq(Keys)
             /\ tick[t].attempt \in 0..MaxAttempts
             /\ \A phase \in Phases \ {"idle"} :
                  At(t, phase) => tick[t].todo # <<>> /\ Current(t) \in Keys
  BY TodoFacts DEF TypeOK, TickState, At, Current
<1>1. ASSUME NEW t \in Ticks, BeginTick(t)
      PROVE  TypeOK' /\ AttemptsLeft'
  <2> DEFINE new(d, a) == [pc |-> "take", todo |-> d, adapter |-> a,
                           attempt |-> 0, reply |-> "none"]
  <2>1. PICK d \in Decisions, a \in build_adapter :
          tick' = [tick EXCEPT ![t] = new(d, a)]
    BY <1>1 DEF BeginTick
  <2>2. d \in Seq(Keys) /\ a \in {"dry", "live", "blocked"}
    BY ConstantsAssumption DEF build_adapter
  <2>3. new(d, a) \in TickState
    BY <2>2, ConstantsAssumption DEF TickState, Phases, Replies
  <2>4. new(d, a).pc # "sleep"
    OBVIOUS
  <2> HIDE DEF new
  <2>5. tick' \in [Ticks -> TickState]
    BY <2>1, <2>3 DEF TypeOK
  <2>6. AttemptsLeft'
    BY <2>1, <2>4 DEF TypeOK, AttemptsLeft
  <2> QED
    BY <1>1, <2>5, <2>6, ConstantsAssumption DEF BeginTick, TypeOK
<1>2. ASSUME NEW t \in Ticks, TakeOrder(t)
      PROVE  TypeOK' /\ AttemptsLeft'
  <2>1. tick[t].todo # <<>> /\ Current(t) \in Keys
    BY <1>a, <1>0, <1>2 DEF TakeOrder
  <2>2. orders' \in [Keys -> Row]
    <3>1. orders' = [orders EXCEPT ![Current(t)] = insert_order(Current(t))]
      BY <1>2 DEF TakeOrder
    <3>2. insert_order(Current(t)) \in Row
      BY <2>1, WriteTypes
    <3> QED
      BY <3>1, <3>2 DEF TypeOK
  <2>3. NextOrder(t) \/ Goto(t, "lookup") \/ EnterRetryLoop(t)
    BY <1>2 DEF TakeOrder
  <2>4. tick' \in [Ticks -> TickState] /\ AttemptsLeft'
    BY <1>0, <2>1, <2>3, MoveTypes
  <2> QED
    BY <1>2, <2>2, <2>4 DEF TakeOrder, TypeOK
<1>3. ASSUME NEW t \in Ticks, FinishTick(t)
      PROVE  TypeOK' /\ AttemptsLeft'
  BY <1>3, MoveTypes DEF FinishTick, TypeOK
<1>4. ASSUME NEW t \in Ticks, Lookup(t)
      PROVE  TypeOK' /\ AttemptsLeft'
  <2>1. Current(t) \in Keys
    BY <1>a, <1>0, <1>4 DEF Lookup
  <2>2. LookupAnswers(t) \subseteq Replies
    BY <1>0, <2>1 DEF LookupAnswers, TypeOK, RemoteOrder
  <2>3. tick' \in [Ticks -> TickState] /\ AttemptsLeft'
    BY <1>4, <2>2, MoveTypes DEF Lookup
  <2> QED
    BY <1>4, <2>3 DEF Lookup, TypeOK
<1>5. ASSUME NEW t \in Ticks, RemoteSynced(t)
      PROVE  TypeOK' /\ AttemptsLeft'
  <2>1. tick[t].todo # <<>> /\ Current(t) \in Keys
    BY <1>a, <1>0, <1>5 DEF RemoteSynced
  <2>2. normalize_order_status(tick[t].reply) \in RowStatus
    BY <1>5 DEF RemoteSynced, normalize_order_status, RemoteStates, RowStatus, Done
  <2>3. orders[Current(t)].attempts \in 0..MaxAttempts
    BY <2>1 DEF TypeOK, Row
  <2>4. orders' \in [Keys -> Row]
    BY <1>a, <1>5, <2>1, <2>2, <2>3, WriteTypes DEF RemoteSynced
  <2>5. tick' \in [Ticks -> TickState] /\ AttemptsLeft'
    BY <1>5, <2>1, MoveTypes DEF RemoteSynced
  <2> QED
    BY <1>5, <2>4, <2>5 DEF RemoteSynced, TypeOK
<1>6. ASSUME NEW t \in Ticks, EnterLoop(t)
      PROVE  TypeOK' /\ AttemptsLeft'
  <2>1. tick[t].todo # <<>>
    BY <1>a, <1>0, <1>6 DEF EnterLoop
  <2> QED
    BY <1>6, <2>1, MoveTypes DEF EnterLoop, TypeOK
<1>7. ASSUME NEW t \in Ticks, LookupRaised(t)
      PROVE  TypeOK' /\ AttemptsLeft'
  BY <1>7, MoveTypes DEF LookupRaised, TypeOK
<1>8. ASSUME NEW t \in Ticks, PlaceDry(t) \/ PlaceSucceeds(t)
      PROVE  TypeOK' /\ AttemptsLeft'
  <2>1. Current(t) \in Keys
    BY <1>a, <1>0, <1>8 DEF PlaceDry, PlaceSucceeds
  <2>2. orders' \in [Keys -> Row]
    BY <1>a, <1>0, <1>8, <2>1, WriteTypes DEF PlaceDry, PlaceSucceeds
  <2>3. tick' \in [Ticks -> TickState] /\ AttemptsLeft'
    BY <1>0, <1>8, MoveTypes DEF PlaceDry, PlaceSucceeds
  <2> QED
    BY <1>8, <2>2, <2>3 DEF PlaceDry, PlaceSucceeds, TypeOK
<1>9. ASSUME NEW t \in Ticks, PlaceBlocked(t) \/ GiveUpAttempt(t)
      PROVE  TypeOK' /\ AttemptsLeft'
  <2>1. Current(t) \in Keys
    BY <1>a, <1>0, <1>9 DEF PlaceBlocked, GiveUpAttempt
  <2> QED
    BY <1>9, <2>1, FailureTypes DEF PlaceBlocked, GiveUpAttempt, TypeOK
<1>10. ASSUME NEW t \in Ticks, PlaceLive(t)
       PROVE  TypeOK' /\ AttemptsLeft'
  BY <1>0, <1>10, MoveTypes DEF PlaceLive, TypeOK
<1>11. ASSUME NEW t \in Ticks, ExchangeHandles(t)
       PROVE  TypeOK' /\ AttemptsLeft'
  <2>1. Current(t) \in Keys
    BY <1>a, <1>0, <1>11 DEF ExchangeHandles
  <2>2. exchange' \in [Keys -> RemoteOrder]
    BY <1>11, <2>1, WriteTypes DEF ExchangeHandles, TypeOK
  <2>3. tick' \in [Ticks -> TickState] /\ AttemptsLeft'
    BY <1>0, <1>11, MoveTypes DEF ExchangeHandles
  <2> QED
    BY <1>11, <2>2, <2>3 DEF ExchangeHandles, TypeOK
<1>12. ASSUME NEW t \in Ticks, PlaceFails(t)
       PROVE  TypeOK' /\ AttemptsLeft'
  <2>1. Current(t) \in Keys
    BY <1>a, <1>0, <1>12 DEF PlaceFails
  <2>2. delayed' \in [Keys -> Nat]
    BY <1>12, <2>1 DEF PlaceFails, TypeOK
  <2>3. tick' \in [Ticks -> TickState] /\ AttemptsLeft'
    BY <1>0, <1>12, MoveTypes DEF PlaceFails
  <2> QED
    BY <1>12, <2>2, <2>3 DEF PlaceFails, TypeOK
<1>13. ASSUME NEW t \in Ticks, Retry(t)
       PROVE  TypeOK' /\ AttemptsLeft'
  <2>1. tick[t].attempt + 1 \in 0..MaxAttempts
    BY <1>a, <1>13, ConstantsAssumption DEF Retry, At, AttemptsLeft
  <2> QED
    BY <1>13, <2>1, MoveTypes DEF Retry, TypeOK
<1>14. ASSUME NEW t \in Ticks, Notify(t)
       PROVE  TypeOK' /\ AttemptsLeft'
  <2>1. tick[t].todo # <<>> /\ Current(t) \in Keys
    BY <1>a, <1>0, <1>14 DEF Notify
  <2>2. orders' \in [Keys -> Row] /\ tick' \in [Ticks -> TickState] /\ AttemptsLeft'
    BY <1>0, <1>14, <2>1, MoveTypes, FailureTypes DEF Notify, TypeOK
  <2> QED
    BY <1>14, <2>2 DEF Notify, TypeOK
<1>15. ASSUME NEW t \in Ticks, Alarm(t)
       PROVE  TypeOK' /\ AttemptsLeft'
  <2>1. tick[t].todo # <<>>
    BY <1>15 DEF Alarm, At
  <2> QED
    BY <1>0, <1>15, <2>1, MoveTypes DEF Alarm, TypeOK
<1>16. CASE PatchDryRun
  BY <1>16, ConstantsAssumption DEF PatchDryRun, TypeOK, AttemptsLeft
<1>17. ASSUME NEW k \in Keys, RemoteMoves(k)
       PROVE  TypeOK' /\ AttemptsLeft'
  <2>1. exchange' \in [Keys -> RemoteOrder]
    BY <1>17 DEF RemoteMoves, TypeOK, RemoteOrder, RemoteStates
  <2> QED
    BY <1>17, <2>1 DEF RemoteMoves, TypeOK, AttemptsLeft
<1>18. ASSUME NEW k \in Keys, LateArrival(k)
       PROVE  TypeOK' /\ AttemptsLeft'
  <2>1. exchange' \in [Keys -> RemoteOrder]
    BY <1>18, WriteTypes DEF LateArrival, TypeOK
  <2>2. delayed' \in [Keys -> Nat]
    BY <1>18 DEF LateArrival, TypeOK
  <2> QED
    BY <1>18, <2>1, <2>2 DEF LateArrival, TypeOK, AttemptsLeft
<1>19. CASE Crash
  <2>1. PICK S \in SUBSET Ticks :
          delayed' = [k \in Keys |-> delayed[k]
                        + Cardinality({t \in S : Current(t) = k})]
    BY <1>19 DEF Crash
  <2>2. ASSUME NEW k \in Keys
        PROVE  Cardinality({t \in S : Current(t) = k}) \in Nat
    <3>1. IsFiniteSet({t \in S : Current(t) = k})
      BY ConstantsAssumption, FS_Subset
    <3> QED
      BY <3>1, FS_CardinalityType
  <2>3. delayed' \in [Keys -> Nat]
    BY <2>1, <2>2 DEF TypeOK
  <2>4. Idle \in TickState /\ Idle.pc # "sleep"
    BY ConstantsAssumption DEF Idle, TickState, Phases, Replies
  <2>5. tick' \in [Ticks -> TickState] /\ AttemptsLeft'
    BY <1>19, <2>4 DEF Crash, AttemptsLeft
  <2> QED
    BY <1>19, <2>3, <2>5, ConstantsAssumption DEF Crash, TypeOK
<1>20. CASE UNCHANGED vars
  BY <1>20 DEF vars, TypeOK, AttemptsLeft
<1> QED
  BY <1>1, <1>2, <1>3, <1>4, <1>5, <1>6, <1>7, <1>8, <1>9, <1>10, <1>11,
     <1>12, <1>13, <1>14, <1>15, <1>16, <1>17, <1>18, <1>19, <1>20
  DEF Next, TickStep, LoopStep, Environment

\* Every reachable state of the executor is well typed; in particular no row
\* and no tick counts more attempts than the setting allows
\* (executor_release.py 52 and 71-73).
THEOREM TypeCorrect == Spec => []TypeOK
<1>1. Spec => [](TypeOK /\ AttemptsLeft)
  BY InitTypes, NextTypes, PTL DEF Spec
<1> QED
  BY <1>1, PTL

-----------------------------------------------------------------------------
(* What a tick knows.  An answer that says the exchange has the order is   *)
(* right for good, because the exchange forgets nothing; and past the top  *)
(* of the loop the order has its row, because rows are never deleted.      *)

Evidence ==
  \A t \in Ticks : tick[t].todo # <<>> =>
    /\ tick[t].reply \in {"accepted"} \cup RemoteStates
         => exchange[Current(t)].created >= 1
    /\ tick[t].pc \notin {"idle", "take"}
         => orders[Current(t)].status # "absent"

Sound == Evidence /\ LedgerNotAhead /\ WriteAhead

\* At the start nothing is on the exchange.
LEMMA InitSound == Init => Sound
BY DEF Init, Sound, Evidence, LedgerNotAhead, WriteAhead, OnExchange, Absent, Idle

\* The order in service is one of the orders.
LEMMA CurrentIsKey ==
  ASSUME TypeOK, NEW t \in Ticks, tick[t].todo # <<>>
  PROVE  Current(t) \in Keys
BY TodoFacts DEF TypeOK, TickState, Current

\* Rows are never deleted and the exchange forgets no order.
Grows ==
  \A k \in Keys : /\ exchange'[k].created >= exchange[k].created
                  /\ orders[k].status # "absent" => orders'[k].status # "absent"

\* What tick t knows in the next state.
EvidenceNext(t) ==
  tick'[t].todo # <<>> =>
    /\ tick'[t].reply \in {"accepted"} \cup RemoteStates
         => exchange'[Head(tick'[t].todo)].created >= 1
    /\ tick'[t].pc \notin {"idle", "take"}
         => orders'[Head(tick'[t].todo)].status # "absent"

\* A step of one tick leaves what the others know true.
LEMMA OthersSound ==
  ASSUME TypeOK, TypeOK', Sound, Grows, NEW t \in Ticks,
         \A u \in Ticks \ {t} : tick'[u] = tick[u],
         EvidenceNext(t)
  PROVE  Evidence'
<1> SUFFICES ASSUME NEW u \in Ticks PROVE EvidenceNext(u)
  BY DEF Evidence, EvidenceNext, Current
<1>1. CASE u = t
  BY <1>1
<1>2. CASE u # t /\ tick[u].todo # <<>>
  <2>1. Current(u) \in Keys
    BY <1>2, CurrentIsKey
  <2>2. /\ exchange[Current(u)].created \in Nat
        /\ exchange'[Current(u)].created \in Nat
    BY <2>1 DEF TypeOK, RemoteOrder
  <2> QED
    BY <1>2, <2>1, <2>2 DEF EvidenceNext, Sound, Evidence, Grows, Current
<1>3. CASE u # t /\ tick[u].todo = <<>>
  BY <1>3 DEF EvidenceNext
<1> QED
  BY <1>1, <1>2, <1>3

\* Leaving an order.
LEMMA Leaves ==
  ASSUME TypeOK, NEW t \in Ticks, NextOrder(t) \/ Abort(t)
  PROVE  EvidenceNext(t) /\ \A u \in Ticks \ {t} : tick'[u] = tick[u]
<1>1. CASE NextOrder(t)
  <2>1. tick'[t] = [pc |-> "take", todo |-> Tail(tick[t].todo),
                    adapter |-> tick[t].adapter, attempt |-> 0, reply |-> "none"]
    BY <1>1 DEF NextOrder, Continue, TypeOK
  <2>2. tick'[t].pc = "take" /\ tick'[t].reply = "none"
    BY <2>1
  <2>3. \A u \in Ticks \ {t} : tick'[u] = tick[u]
    BY <1>1 DEF NextOrder, Continue, TypeOK
  <2> QED
    BY <2>2, <2>3 DEF EvidenceNext, RemoteStates
<1>2. CASE Abort(t)
  <2>1. tick'[t] = Idle /\ \A u \in Ticks \ {t} : tick'[u] = tick[u]
    BY <1>2 DEF Abort, TypeOK
  <2>2. Idle.todo = <<>>
    BY DEF Idle
  <2> QED
    BY <2>1, <2>2 DEF EvidenceNext
<1> QED
  BY <1>1, <1>2

\* Going on with an order and no answer.
LEMMA Proceeds ==
  ASSUME TypeOK, NEW t \in Ticks, tick[t].todo # <<>>,
         orders'[Current(t)].status # "absent",
         \/ \E phase : Goto(t, phase)
         \/ \E n : StartAttempt(t, n)
  PROVE  EvidenceNext(t) /\ \A u \in Ticks \ {t} : tick'[u] = tick[u]
<1>1. PICK phase, n : Continue(t, phase, tick[t].todo, n, "none")
  BY DEF Goto, StartAttempt
<1>2. /\ tick'[t].todo = tick[t].todo
      /\ tick'[t].reply = "none"
      /\ \A u \in Ticks \ {t} : tick'[u] = tick[u]
  BY <1>1 DEF Continue, TypeOK
<1> QED
  BY <1>2 DEF EvidenceNext, Current, RemoteStates

\* Writing a row and creating an order are growth.
LEMMA Writing ==
  ASSUME TypeOK, NEW k \in Keys
  PROVE  /\ \A s \in RowStatus \ {"absent"}, n \in 0..MaxAttempts :
              update_order(k, s, n) =>
                /\ orders'[k].status = s
                /\ \A j \in Keys \ {k} : orders'[j] = orders[j]
         /\ CreateOrder(k) =>
              /\ exchange'[k].created = exchange[k].created + 1
              /\ \A j \in Keys \ {k} : exchange'[j] = exchange[j]
BY DEF update_order, CreateOrder, TypeOK, Row, RemoteOrder

\* Every action only adds rows and remote orders.
LEMMA NextGrows ==
  ASSUME TypeOK, [Next]_vars
  PROVE  Grows
<1>1. ASSUME NEW t \in Ticks, TakeOrder(t)
      PROVE  Grows
  <2>1. orders' = [orders EXCEPT ![Current(t)] = insert_order(Current(t))]
    BY <1>1 DEF TakeOrder
  <2>2. insert_order(Current(t)).status # "absent"
    BY DEF insert_order, Pending
  <2> QED
    BY <1>1, <2>1, <2>2 DEF Grows, TakeOrder, TypeOK, RemoteOrder
<1>2. ASSUME NEW t \in Ticks,
             RemoteSynced(t) \/ PlaceDry(t) \/ PlaceSucceeds(t)
               \/ PlaceBlocked(t) \/ GiveUpAttempt(t) \/ Notify(t)
      PROVE  Grows
  <2>1. exchange' = exchange
    BY <1>2 DEF RemoteSynced, PlaceDry, PlaceSucceeds, PlaceBlocked,
                GiveUpAttempt, Notify
  <2>2. CASE orders' = orders
    BY <2>1, <2>2 DEF Grows, TypeOK, RemoteOrder
  <2>3. CASE orders' # orders
    <3>1. PICK s, n : update_order(Current(t), s, n) /\ s # "absent"
      BY <1>2, <2>3
      DEF RemoteSynced, PlaceDry, PlaceSucceeds, PlaceBlocked, GiveUpAttempt,
          Notify, MarkFailure, normalize_order_status, RemoteStates
    <3> QED
      BY <2>1, <3>1 DEF Grows, update_order, TypeOK, RemoteOrder
  <2> QED
    BY <2>2, <2>3
<1>3. ASSUME NEW k \in Keys, CreateOrder(k), orders' = orders
      PROVE  Grows
  BY <1>3, Writing DEF Grows, TypeOK, RemoteOrder
<1>4. ASSUME NEW t \in Ticks, ExchangeHandles(t)
      PROVE  Grows
  <2>1. Current(t) \in Keys
    BY <1>4, CurrentIsKey DEF ExchangeHandles, At
  <2> QED
    BY <1>3, <1>4, <2>1 DEF ExchangeHandles, Grows, TypeOK, RemoteOrder
<1>5. ASSUME NEW k \in Keys, LateArrival(k)
      PROVE  Grows
  BY <1>3, <1>5 DEF LateArrival, Grows, TypeOK, RemoteOrder
<1>6. ASSUME NEW k \in Keys, RemoteMoves(k)
      PROVE  Grows
  BY <1>6 DEF RemoteMoves, Grows, TypeOK, RemoteOrder
<1>7. ASSUME UNCHANGED <<orders, exchange>>
      PROVE  Grows
  BY <1>7 DEF Grows, TypeOK, RemoteOrder
<1> QED
  BY <1>1, <1>2, <1>4, <1>5, <1>6, <1>7
  DEF Next, TickStep, LoopStep, Environment, vars, BeginTick, FinishTick, Lookup,
      EnterLoop, LookupRaised, PlaceLive, PlaceFails, Retry, Alarm, PatchDryRun,
      Crash

\* A row that comes to say the exchange has the order was written by a tick
\* that knew.
LEMMA NextLedger ==
  ASSUME TypeOK, TypeOK', Sound, Grows, [Next]_vars
  PROVE  LedgerNotAhead'
<1>1. ASSUME NEW k \in Keys, orders'[k].status \in OnExchange,
             orders[k].status \notin OnExchange
      PROVE  exchange[k].created >= 1
  <2>1. PICK t \in Ticks : /\ k = Current(t)
                           /\ tick[t].todo # <<>>
                           /\ tick[t].reply \in {"accepted"} \cup RemoteStates
    <3>1. ASSUME NEW t \in Ticks, TakeOrder(t)
          PROVE  FALSE
      <4>1. orders' = [orders EXCEPT ![Current(t)] = insert_order(Current(t))]
        BY <3>1 DEF TakeOrder
      <4>2. insert_order(Current(t)) = orders[Current(t)]
              \/ insert_order(Current(t)).status = "PENDING"
        BY DEF insert_order, Pending
      <4> QED
        BY <1>1, <4>1, <4>2 DEF TypeOK, OnExchange
    <3>2. ASSUME NEW t \in Ticks,
                 PlaceDry(t) \/ PlaceBlocked(t) \/ GiveUpAttempt(t) \/ Notify(t)
          PROVE  FALSE
      BY <1>1, <3>2
      DEF PlaceDry, PlaceBlocked, GiveUpAttempt, Notify, MarkFailure,
          update_order, TypeOK, OnExchange
    <3>3. ASSUME NEW t \in Ticks, RemoteSynced(t) \/ PlaceSucceeds(t)
          PROVE  /\ k = Current(t)
                 /\ tick[t].todo # <<>>
                 /\ tick[t].reply \in {"accepted"} \cup RemoteStates
      BY <1>1, <3>3 DEF RemoteSynced, PlaceSucceeds, At, update_order, TypeOK
    <3>4. CASE orders' = orders
      BY <1>1, <3>4
    <3> QED
      BY <3>1, <3>2, <3>3, <3>4
      DEF Next, TickStep, LoopStep, Environment, vars, BeginTick, FinishTick, Lookup,
          EnterLoop, LookupRaised, PlaceLive, ExchangeHandles, PlaceFails, Retry,
          Alarm, PatchDryRun, RemoteMoves, LateArrival, Crash
  <2> QED
    BY <2>1 DEF Sound, Evidence
<1>2. ASSUME NEW k \in Keys, orders'[k].status \in OnExchange
      PROVE  exchange'[k].created >= 1
  <2>1. exchange[k].created \in Nat /\ exchange'[k].created \in Nat
    BY DEF TypeOK, RemoteOrder
  <2> QED
    BY <1>1, <1>2, <2>1 DEF Sound, LedgerNotAhead, Grows
<1> QED
  BY <1>2 DEF LedgerNotAhead

\* A request leaves only for an order that has its row.
LEMMA NextWriteAhead ==
  ASSUME TypeOK, TypeOK', Sound, Grows, [Next]_vars
  PROVE  WriteAhead'
<1>1. ASSUME NEW k \in Keys,
             \/ exchange'[k].created # exchange[k].created
             \/ delayed'[k] > delayed[k]
      PROVE  orders[k].status # "absent"
  <2>1. ASSUME NEW t \in Ticks, ExchangeHandles(t) \/ PlaceFails(t)
        PROVE  orders[k].status # "absent"
    <3>1. tick[t].todo # <<>> /\ tick[t].pc = "wait"
      BY <2>1 DEF ExchangeHandles, PlaceFails, At
    <3>2. orders[Current(t)].status # "absent"
      BY <3>1 DEF Sound, Evidence
    <3>3. k = Current(t)
      BY <1>1, <2>1 DEF ExchangeHandles, PlaceFails, CreateOrder, TypeOK
    <3> QED
      BY <3>2, <3>3
  <2>2. ASSUME NEW j \in Keys, RemoteMoves(j)
        PROVE  FALSE
    BY <1>1, <2>2 DEF RemoteMoves, TypeOK
  <2>3. ASSUME NEW j \in Keys, LateArrival(j)
        PROVE  orders[k].status # "absent"
    <3>1. j = k /\ delayed[k] > 0
      BY <1>1, <2>3 DEF LateArrival, CreateOrder, TypeOK
    <3> QED
      BY <3>1 DEF Sound, WriteAhead, TypeOK, RemoteOrder
  <2>4. CASE Crash
    <3>1. PICK S \in SUBSET {t \in Ticks : At(t, "wait") /\ tick[t].reply = "none"} :
            delayed' = [j \in Keys |-> delayed[j]
                          + Cardinality({t \in S : Current(t) = j})]
      BY <2>4 DEF Crash
    <3>2. exchange' = exchange
      BY <2>4 DEF Crash
    <3>3. Cardinality({t \in S : Current(t) = k}) # 0
      BY <1>1, <3>1, <3>2 DEF TypeOK
    <3>4. PICK t \in S : Current(t) = k
      BY <3>3, FS_EmptySet
    <3> QED
      BY <3>4 DEF Sound, Evidence, At
  <2>5. CASE UNCHANGED <<exchange, delayed>>
    BY <1>1, <2>5 DEF TypeOK
  <2> QED
    BY <2>1, <2>2, <2>3, <2>4, <2>5
    DEF Next, TickStep, LoopStep, Environment, vars, BeginTick, TakeOrder, FinishTick,
        Lookup, RemoteSynced, EnterLoop, LookupRaised, PlaceDry, PlaceBlocked,
        PlaceLive, PlaceSucceeds, GiveUpAttempt, Retry, Notify, Alarm, PatchDryRun
<1>2. ASSUME NEW k \in Keys, exchange'[k].created + delayed'[k] > 0
      PROVE  orders'[k].status # "absent"
  <2>1. /\ exchange[k].created \in Nat /\ exchange'[k].created \in Nat
        /\ delayed[k] \in Nat /\ delayed'[k] \in Nat
    BY DEF TypeOK, RemoteOrder
  <2> QED
    BY <1>1, <1>2, <2>1 DEF Sound, WriteAhead, Grows
<1> QED
  BY <1>2 DEF WriteAhead

\* What the tick that moves knows afterwards is true.
LEMMA NextEvidence ==
  ASSUME TypeOK, AttemptsLeft, TypeOK', Sound, Grows, [Next]_vars
  PROVE  Evidence'
<1>1. ASSUME NEW t \in Ticks, BeginTick(t)
      PROVE  Evidence'
  <2>1. PICK d, a : tick' = [tick EXCEPT ![t] = [pc |-> "take", todo |-> d,
                       adapter |-> a, attempt |-> 0, reply |-> "none"]]
    BY <1>1 DEF BeginTick
  <2>2. tick'[t].pc = "take" /\ tick'[t].reply = "none"
    BY <2>1 DEF TypeOK
  <2>3. \A u \in Ticks \ {t} : tick'[u] = tick[u]
    BY <2>1 DEF TypeOK
  <2> QED
    BY <2>2, <2>3, OthersSound DEF EvidenceNext, RemoteStates
<1>2. ASSUME NEW t \in Ticks, NextOrder(t) \/ Abort(t)
      PROVE  Evidence'
  BY <1>2, Leaves, OthersSound
<1>3. ASSUME NEW t \in Ticks, tick[t].todo # <<>>,
             orders[Current(t)].status # "absent"
               \/ orders'[Current(t)].status # "absent",
             \/ \E phase : Goto(t, phase)
             \/ \E n : StartAttempt(t, n)
      PROVE  Evidence'
  <2>1. orders'[Current(t)].status # "absent"
    BY <1>3, CurrentIsKey DEF Grows
  <2> QED
    BY <1>3, <2>1, Proceeds, OthersSound
<1>4. ASSUME NEW t \in Ticks, tick[t].todo # <<>>,
             tick[t].pc \notin {"idle", "take"}
      PROVE  orders[Current(t)].status # "absent"
  BY <1>4 DEF Sound, Evidence
<1>5. ASSUME NEW t \in Ticks, TakeOrder(t)
      PROVE  Evidence'
  <2>1. tick[t].todo # <<>> /\ Current(t) \in Keys
    BY <1>5, CurrentIsKey DEF TakeOrder, At
  <2>2. orders'[Current(t)].status # "absent"
    BY <1>5, <2>1 DEF TakeOrder, TypeOK, insert_order, Pending
  <2>3. NextOrder(t) \/ Goto(t, "lookup") \/ StartAttempt(t, 1)
    BY <1>5 DEF TakeOrder, EnterRetryLoop
  <2> QED
    BY <1>2, <1>3, <2>1, <2>2, <2>3
<1>6. ASSUME NEW t \in Ticks, Lookup(t)
      PROVE  Evidence'
  <2>1. tick[t].todo # <<>> /\ Current(t) \in Keys
    BY <1>6, CurrentIsKey DEF Lookup, At
  <2>2. PICK r \in LookupAnswers(t) : Receive(t, r)
    BY <1>6 DEF Lookup
  <2>3. /\ tick'[t].todo = tick[t].todo /\ tick'[t].reply = r
        /\ tick'[t].pc = tick[t].pc
        /\ \A u \in Ticks \ {t} : tick'[u] = tick[u]
    BY <2>2 DEF Receive, Continue, TypeOK
  <2>4. r \in {"accepted"} \cup RemoteStates => exchange[Current(t)].created >= 1
    <3>1. exchange[Current(t)].created \in Nat
      BY <2>1 DEF TypeOK, RemoteOrder
    <3> QED
      BY <2>2, <3>1 DEF LookupAnswers, RemoteStates
  <2>5. exchange' = exchange /\ orders' = orders
    BY <1>6 DEF Lookup
  <2>6. EvidenceNext(t)
    BY <1>4, <2>1, <2>3, <2>4, <2>5 DEF EvidenceNext, Current
  <2> QED
    BY <2>3, <2>6, OthersSound
<1>7. ASSUME NEW t \in Ticks, ExchangeHandles(t)
      PROVE  Evidence'
  <2>1. tick[t].todo # <<>> /\ Current(t) \in Keys /\ tick[t].pc = "wait"
    BY <1>7, CurrentIsKey DEF ExchangeHandles, At
  <2>2. PICK r : /\ Receive(t, r)
                 /\ \/ r = "accepted" /\ CreateOrder(Current(t))
                    \/ r = "refused"
    BY <1>7 DEF ExchangeHandles
  <2>3. /\ tick'[t].todo = tick[t].todo /\ tick'[t].reply = r
        /\ \A u \in Ticks \ {t} : tick'[u] = tick[u]
    BY <2>2 DEF Receive, Continue, TypeOK
  <2>4. r = "accepted" => exchange'[Current(t)].created >= 1
    BY <2>1, <2>2, Writing DEF TypeOK, RemoteOrder
  <2>5. orders'[Current(t)].status # "absent"
    BY <1>4, <1>7, <2>1 DEF ExchangeHandles
  <2>6. EvidenceNext(t)
    BY <2>1, <2>2, <2>3, <2>4, <2>5 DEF EvidenceNext, Current, RemoteStates
  <2> QED
    BY <2>3, <2>6, OthersSound
<1>8. ASSUME NEW t \in Ticks,
             \/ RemoteSynced(t) \/ EnterLoop(t) \/ PlaceDry(t)
             \/ PlaceBlocked(t) \/ PlaceLive(t) \/ PlaceSucceeds(t)
             \/ PlaceFails(t) \/ GiveUpAttempt(t) \/ Retry(t) \/ Notify(t)
             \/ Alarm(t)
      PROVE  Evidence'
  <2>1. tick[t].todo # <<>> /\ tick[t].pc \notin {"idle", "take"}
    BY <1>8
    DEF RemoteSynced, EnterLoop, PlaceDry, PlaceBlocked, PlaceLive,
        PlaceSucceeds, PlaceFails, GiveUpAttempt, Retry, Notify, Alarm, At
  <2>2. orders[Current(t)].status # "absent"
    BY <1>4, <2>1
  <2>3. \/ NextOrder(t) \/ Abort(t)
        \/ \E phase : Goto(t, phase)
        \/ \E n : StartAttempt(t, n)
    BY <1>8
    DEF RemoteSynced, EnterLoop, PlaceDry, PlaceBlocked, PlaceLive,
        PlaceSucceeds, PlaceFails, GiveUpAttempt, Retry, Notify, Alarm,
        EnterRetryLoop, MarkFailure
  <2> QED
    BY <1>2, <1>3, <2>1, <2>2, <2>3
<1>9. ASSUME NEW t \in Ticks, FinishTick(t) \/ LookupRaised(t)
      PROVE  Evidence'
  BY <1>2, <1>9 DEF FinishTick, LookupRaised
<1>10. CASE Crash
  BY <1>10 DEF Crash, Evidence, Idle
<1>11. CASE UNCHANGED tick
  <2>1. ASSUME NEW u \in Ticks, tick[u].todo # <<>>
        PROVE  /\ exchange[Current(u)].created >= 1
                    => exchange'[Current(u)].created >= 1
               /\ orders[Current(u)].status # "absent"
                    => orders'[Current(u)].status # "absent"
    BY <2>1, CurrentIsKey DEF Grows, TypeOK, RemoteOrder
  <2> QED
    BY <1>11, <2>1 DEF Evidence, Sound, Current
<1> QED
  BY <1>1, <1>5, <1>6, <1>7, <1>8, <1>9, <1>10, <1>11
  DEF Next, TickStep, LoopStep, Environment, vars, PatchDryRun, RemoteMoves, LateArrival

IInv == TypeOK /\ AttemptsLeft /\ Sound

\* The inductive invariant holds throughout, under every fault.
LEMMA Inductive == Spec => []IInv
<1>1. Init => IInv
  BY InitTypes, InitSound DEF IInv
<1>2. IInv /\ [Next]_vars => IInv'
  <2> SUFFICES ASSUME IInv, [Next]_vars PROVE IInv'
    OBVIOUS
  <2>1. TypeOK' /\ AttemptsLeft'
    BY NextTypes DEF IInv
  <2>2. Grows
    BY NextGrows DEF IInv
  <2> QED
    BY <2>1, <2>2, NextEvidence, NextLedger, NextWriteAhead DEF IInv, Sound
<1> QED
  BY <1>1, <1>2, PTL DEF Spec

\* Whatever is lost, raised, late, repeated or interleaved, and whenever the
\* process restarts, the table never says of an order that the exchange has
\* it when it has not (executor_release.py 45-50, 54-56 and 64-70).
THEOREM LedgerNeverAhead == Spec => []LedgerNotAhead
BY Inductive, PTL DEF IInv, Sound

\* And an order that is on the exchange, or on its way there, has its row
\* (executor_release.py 41 before 54).
THEOREM WrittenAhead == Spec => []WriteAhead
BY Inductive, PTL DEF IInv, Sound

-----------------------------------------------------------------------------
(* No duplicates.  When lookups are true and one tick is in service at a   *)
(* time, a tick that may still send a request knows that the exchange does *)
(* not have the order: it asked, and nobody else sends in between.         *)

\* A lookup tells the truth or raises, and no create_order arrives after its
\* sender looked for it.
Truthful == "swallowed" \notin LookupFaults /\ ~LateDelivery

\* BotControl!OneTickPerBot says when this holds of the ticks of a bot.
OneInService ==
  \A t, u \in Ticks : tick[t].pc # "idle" /\ tick[u].pc # "idle" => t = u

\* In a Reliable environment both are so.
LEMMA ReliableIsOne == ASSUME Reliable PROVE Truthful /\ OneInService
BY DEF Reliable, Truthful, OneInService

\* Where a step takes its tick.
LEMMA TickMoves ==
  ASSUME NEW u \in Ticks, TickStep(u)
  PROVE  /\ tick[u].pc # "idle"
         /\ Abort(u) \/ \E phase, rest, n, r : Continue(u, phase, rest, n, r)
<1>1. tick[u].pc # "idle"
  BY DEF TickStep, LoopStep, TakeOrder, FinishTick, Lookup, RemoteSynced, EnterLoop,
         LookupRaised, PlaceDry, PlaceBlocked, PlaceLive, ExchangeHandles,
         PlaceFails, PlaceSucceeds, GiveUpAttempt, Retry, Notify, Alarm, At
<1>2. \/ Abort(u) \/ NextOrder(u)
      \/ \E phase : Goto(u, phase)
      \/ \E n : StartAttempt(u, n)
      \/ \E r : Receive(u, r)
  BY DEF TickStep, LoopStep, TakeOrder, FinishTick, Lookup, RemoteSynced, EnterLoop,
         LookupRaised, PlaceDry, PlaceBlocked, PlaceLive, ExchangeHandles,
         PlaceFails, PlaceSucceeds, GiveUpAttempt, Retry, Notify, Alarm,
         EnterRetryLoop, MarkFailure
<1> QED BY <1>1, <1>2 DEF NextOrder, Goto, StartAttempt, Receive

\* While one tick moves, every other is idle and stays so.
LEMMA OthersIdle ==
  ASSUME TypeOK, OneInService, OneInService', NEW u \in Ticks,
         BeginTick(u) \/ TickStep(u), NEW t \in Ticks \ {u}
  PROVE  tick[t].pc = "idle" /\ tick'[t] = tick[t]
<1>1. CASE BeginTick(u)
  <2>1. tick'[u].pc = "take" /\ tick'[t] = tick[t]
    BY <1>1 DEF BeginTick, TypeOK
  <2> QED BY <2>1 DEF OneInService
<1>2. CASE TickStep(u)
  <2>1. tick[u].pc # "idle"
    BY <1>2, TickMoves
  <2>2. tick'[t] = tick[t]
    BY <1>2, TickMoves DEF Abort, Continue, TypeOK
  <2> QED BY <2>1, <2>2 DEF OneInService
<1> QED BY <1>1, <1>2

MaySend(t) ==
  \/ tick[t].pc = "wait" /\ tick[t].reply \in {"none", "refused"}
  \/ /\ tick[t].adapter = "live"
     /\ \/ tick[t].pc \in {"send", "sleep"}
        \/ tick[t].pc \in {"lookup", "recover"} /\ tick[t].reply = "missing"

NotSentYet ==
  \A t \in Ticks :
    tick[t].todo # <<>> /\ MaySend(t) => exchange[Current(t)].created = 0

NothingDelayed == \A k \in Keys : delayed[k] = 0

Once == NoDuplicateOrder /\ NotSentYet /\ NothingDelayed

\* At the start nothing has been created.
LEMMA InitOnce == Init => Once
BY DEF Init, Once, NoDuplicateOrder, NotSentYet, MaySend, NothingDelayed, Idle

\* Without late deliveries nothing is ever left under way.
LEMMA NextDelayed ==
  ASSUME Truthful, TypeOK, NothingDelayed, [Next]_vars
  PROVE  NothingDelayed'
<1>1. CASE Crash
  <2>1. delayed' = [k \in Keys |-> delayed[k] + Cardinality({t \in {} : Current(t) = k})]
    BY <1>1 DEF Crash, Truthful
  <2>2. ASSUME NEW k \in Keys
        PROVE  Cardinality({t \in {} : Current(t) = k}) = 0
    <3>1. {t \in {} : Current(t) = k} = {}
      OBVIOUS
    <3> QED
      BY <3>1, FS_EmptySet
  <2> QED
    BY <2>1, <2>2 DEF NothingDelayed, TypeOK
<1>2. ASSUME NEW t \in Ticks, PlaceFails(t)
      PROVE  NothingDelayed'
  BY <1>2 DEF PlaceFails, Truthful, NothingDelayed
<1>3. ASSUME NEW k \in Keys, LateArrival(k)
      PROVE  FALSE
  BY <1>3 DEF LateArrival, NothingDelayed, TypeOK
<1>4. CASE UNCHANGED delayed
  BY <1>4 DEF NothingDelayed
<1> QED
  BY <1>1, <1>2, <1>3, <1>4
  DEF Next, TickStep, LoopStep, Environment, vars, BeginTick, TakeOrder, FinishTick,
      Lookup, RemoteSynced, EnterLoop, LookupRaised, PlaceDry, PlaceBlocked,
      PlaceLive, ExchangeHandles, PlaceSucceeds, GiveUpAttempt, Retry, Notify,
      Alarm, PatchDryRun, RemoteMoves

\* The exchange books an order only for a tick that waits, and only one that
\* it does not have.
LEMMA NextNoDuplicate ==
  ASSUME Truthful, TypeOK, Once, [Next]_vars
  PROVE  NoDuplicateOrder'
<1>1. ASSUME NEW t \in Ticks, ExchangeHandles(t)
      PROVE  NoDuplicateOrder'
  <2>1. tick[t].todo # <<>> /\ Current(t) \in Keys
    BY <1>1, CurrentIsKey DEF ExchangeHandles, At
  <2>2. exchange[Current(t)].created = 0
    BY <1>1, <2>1 DEF ExchangeHandles, At, Once, NotSentYet, MaySend
  <2>3. CASE UNCHANGED exchange
    BY <2>3 DEF Once, NoDuplicateOrder
  <2>4. CASE CreateOrder(Current(t))
    BY <2>1, <2>2, <2>4, Writing DEF Once, NoDuplicateOrder
  <2> QED
    BY <1>1, <2>3, <2>4 DEF ExchangeHandles
<1>2. ASSUME NEW k \in Keys, LateArrival(k)
      PROVE  FALSE
  BY <1>2 DEF LateArrival, Once, NothingDelayed, TypeOK
<1>3. ASSUME NEW k \in Keys, RemoteMoves(k)
      PROVE  NoDuplicateOrder'
  BY <1>3 DEF RemoteMoves, Once, NoDuplicateOrder, TypeOK
<1>4. CASE UNCHANGED exchange
  BY <1>4 DEF Once, NoDuplicateOrder
<1> QED
  BY <1>1, <1>2, <1>3, <1>4
  DEF Next, TickStep, LoopStep, Environment, vars, BeginTick, TakeOrder, FinishTick,
      Lookup, RemoteSynced, EnterLoop, LookupRaised, PlaceDry, PlaceBlocked,
      PlaceLive, PlaceFails, PlaceSucceeds, GiveUpAttempt, Retry, Notify,
      Alarm, PatchDryRun, Crash

\* A tick comes to a state in which it may send only by a true answer or
\* from such a state; and no other tick creates the order meanwhile.
LEMMA NextNotSent ==
  ASSUME Truthful, TypeOK, Once, OneInService, OneInService', [Next]_vars
  PROVE  NotSentYet'
<1> SUFFICES ASSUME NEW t \in Ticks, tick'[t].todo # <<>>, MaySend(t)'
             PROVE  exchange'[Head(tick'[t].todo)].created = 0
  BY DEF NotSentYet, Current
<1>0. ASSUME NEW u \in Ticks, BeginTick(u) \/ TickStep(u) PROVE u = t
  BY <1>0, OthersIdle DEF MaySend
<1>1. ASSUME NEW phase, NEW rest, NEW n, NEW r, Continue(t, phase, rest, n, r)
      PROVE  /\ tick'[t].pc = phase /\ tick'[t].todo = rest
             /\ tick'[t].adapter = tick[t].adapter /\ tick'[t].reply = r
  BY <1>1 DEF Continue, TypeOK
<1>2. CASE BeginTick(t) \/ NextOrder(t) \/ Abort(t) \/ Crash
  BY <1>2
  DEF BeginTick, NextOrder, Abort, Crash, Continue, MaySend, Idle, TypeOK
<1>3. CASE Goto(t, "lookup") \/ Goto(t, "notify") \/ Goto(t, "recover")
             \/ Goto(t, "alarm") \/ Goto(t, "mail")
  BY <1>3 DEF Goto, Continue, MaySend, TypeOK
<1>4. ASSUME tick[t].todo # <<>>, exchange' = exchange, tick[t].adapter = "live",
             MaySend(t),
             \/ \E phase : Goto(t, phase)
             \/ \E n : StartAttempt(t, n)
      PROVE  exchange'[Head(tick'[t].todo)].created = 0
  <2>1. tick'[t].todo = tick[t].todo
    BY <1>1, <1>4 DEF Goto, StartAttempt
  <2> QED
    BY <1>4, <2>1 DEF Once, NotSentYet, Current
<1>5. ASSUME tick[t].adapter # "live",
             \/ Goto(t, "sleep")
             \/ \E n : StartAttempt(t, n)
      PROVE  FALSE
  BY <1>1, <1>5 DEF Goto, StartAttempt, MaySend
<1>6. CASE Lookup(t)
  <2>1. PICK r \in LookupAnswers(t) : Receive(t, r)
    BY <1>6 DEF Lookup
  <2>2. /\ tick'[t].pc = tick[t].pc /\ tick'[t].todo = tick[t].todo
        /\ tick'[t].adapter = tick[t].adapter /\ tick'[t].reply = r
    BY <1>1, <2>1 DEF Receive
  <2>3. tick[t].adapter = "live" /\ r = "missing"
    BY <1>6, <2>2 DEF Lookup, At, MaySend
  <2>4. tick[t].todo # <<>> /\ Current(t) \in Keys
    BY <2>2, CurrentIsKey
  <2>5. exchange[Current(t)].created = 0
    <3>1. exchange[Current(t)] \in RemoteOrder
      BY <2>4 DEF TypeOK
    <3>2. exchange[Current(t)].created \in Nat
          /\ exchange[Current(t)].state # "missing"
      BY <3>1 DEF RemoteOrder, RemoteStates
    <3> QED
      BY <2>1, <2>3, <3>2 DEF LookupAnswers, Truthful
  <2> QED
    BY <1>6, <2>2, <2>5 DEF Lookup, Current
<1>7. CASE ExchangeHandles(t)
  <2>1. tick[t].todo # <<>> /\ MaySend(t)
    BY <1>7 DEF ExchangeHandles, At, MaySend
  <2>2. CASE Receive(t, "accepted")
    BY <1>1, <1>7, <2>2 DEF Receive, ExchangeHandles, At, MaySend
  <2>3. CASE Receive(t, "refused") /\ UNCHANGED exchange
    <3>1. tick'[t].todo = tick[t].todo
      BY <1>1, <2>3 DEF Receive
    <3> QED
      BY <2>1, <2>3, <3>1 DEF Once, NotSentYet, Current
  <2> QED
    BY <1>7, <2>2, <2>3 DEF ExchangeHandles
<1>8. CASE EnterLoop(t) \/ PlaceLive(t) \/ GiveUpAttempt(t) \/ Retry(t)
             \/ PlaceBlocked(t)
  <2>1. tick[t].todo # <<>> /\ exchange' = exchange
    BY <1>8 DEF EnterLoop, PlaceLive, GiveUpAttempt, Retry, PlaceBlocked, At
  <2>2. tick[t].adapter = "live" => MaySend(t)
    BY <1>8 DEF EnterLoop, PlaceLive, GiveUpAttempt, Retry, PlaceBlocked, At,
                MaySend
  <2>3. PlaceLive(t) => tick[t].adapter = "live"
    BY DEF PlaceLive
  <2>4. \/ NextOrder(t) \/ Goto(t, "alarm") \/ Goto(t, "sleep")
        \/ PlaceLive(t) /\ Goto(t, "wait")
        \/ \E n : StartAttempt(t, n)
    BY <1>8 DEF EnterLoop, EnterRetryLoop, PlaceLive, GiveUpAttempt, Retry,
                PlaceBlocked, MarkFailure
  <2> QED
    BY <1>2, <1>3, <1>4, <1>5, <2>1, <2>2, <2>3, <2>4
<1>9. CASE TakeOrder(t)
  <2>1. \/ NextOrder(t) \/ Goto(t, "lookup")
        \/ tick[t].adapter = "dry" /\ \E n : StartAttempt(t, n)
    BY <1>9 DEF TakeOrder, EnterRetryLoop
  <2> QED
    BY <1>2, <1>3, <1>5, <2>1
<1>10. CASE \/ FinishTick(t) \/ RemoteSynced(t) \/ LookupRaised(t)
            \/ PlaceDry(t) \/ PlaceSucceeds(t) \/ PlaceFails(t) \/ Alarm(t)
  BY <1>2, <1>3, <1>10
  DEF FinishTick, RemoteSynced, LookupRaised, PlaceDry, PlaceSucceeds,
      PlaceFails, Alarm
<1>11. CASE Notify(t)
  <2>1. \/ NextOrder(t) \/ Goto(t, "recover") \/ Goto(t, "alarm")
        \/ Goto(t, "mail")
        \/ tick[t].adapter # "live" /\ Goto(t, "sleep")
    BY <1>11 DEF Notify, MarkFailure
  <2> QED
    BY <1>2, <1>3, <1>5, <2>1
<1>12. CASE UNCHANGED <<tick, exchange>>
  BY <1>12 DEF Once, NotSentYet, MaySend, Current
<1>13. ASSUME NEW k \in Keys, RemoteMoves(k)
       PROVE  exchange'[Head(tick'[t].todo)].created = 0
  <2>1. exchange[Current(t)].created = 0 /\ Current(t) \in Keys
    BY <1>13, CurrentIsKey DEF RemoteMoves, Once, NotSentYet, MaySend
  <2> QED
    BY <1>13, <2>1 DEF RemoteMoves, Current, TypeOK
<1>14. ASSUME NEW k \in Keys, LateArrival(k)
       PROVE  FALSE
  BY <1>14 DEF LateArrival, Once, NothingDelayed, TypeOK
<1>15. CASE PatchDryRun \/ UNCHANGED vars
  BY <1>12, <1>15 DEF PatchDryRun, vars
<1>16. CASE BeginTick(t) \/ TickStep(t)
  BY <1>2, <1>6, <1>7, <1>8, <1>9, <1>10, <1>11, <1>16 DEF TickStep, LoopStep
<1>17. \/ BeginTick(t) \/ TickStep(t)
       \/ Environment \/ UNCHANGED vars
  BY <1>0 DEF Next
<1> QED
  BY <1>2, <1>13, <1>14, <1>15, <1>16, <1>17 DEF Environment

\* With one tick in service at a time the stronger invariant holds too.
LEMMA InductiveOnce ==
  ASSUME Truthful PROVE Spec /\ []OneInService => [](IInv /\ Once)
<1>1. IInv /\ Once /\ OneInService /\ OneInService' /\ [Next]_vars => Once'
  BY NextDelayed, NextNoDuplicate, NextNotSent DEF IInv, Once
<1> QED
  BY <1>1, InitOnce, Inductive, PTL DEF Spec

\* With one tick in service at a time, of however many, with lookups that
\* tell the truth or raise, and no late delivery, an order is created at most
\* once, over all attempts, later ticks, alerts that raise, changes of dry_run
\* and restarts (executor_release.py 42-50 and 64-70).
THEOREM NeverDuplicates ==
  ASSUME Truthful PROVE Spec /\ []OneInService => []NoDuplicateOrder
BY InductiveOnce, PTL DEF Once

\* In a Reliable environment no two ticks are in service at any time.
COROLLARY ReliableNeverDuplicates ==
  ASSUME Reliable PROVE Spec => []NoDuplicateOrder
<1>1. []OneInService
  BY ReliableIsOne, PTL
<1> QED BY <1>1, ReliableIsOne, NeverDuplicates, PTL

\* An exchange that refuses a client order id it has seen needs none of that.
THEOREM DedupSuffices == ASSUME ExchangeDedups PROVE Spec => []NoDuplicateOrder
<1>1. Init => NoDuplicateOrder
  BY DEF Init, NoDuplicateOrder
<1>2. TypeOK /\ NoDuplicateOrder /\ [Next]_vars => NoDuplicateOrder'
  <2> SUFFICES ASSUME TypeOK, NoDuplicateOrder, [Next]_vars
               PROVE  NoDuplicateOrder'
    OBVIOUS
  <2>1. ASSUME NEW k \in Keys, CreateOrder(k)
        PROVE  NoDuplicateOrder'
    BY <2>1 DEF CreateOrder, NoDuplicateOrder, TypeOK
  <2>2. ASSUME NEW t \in Ticks, ExchangeHandles(t)
        PROVE  NoDuplicateOrder'
    BY <2>1, <2>2, CurrentIsKey DEF ExchangeHandles, At, NoDuplicateOrder
  <2>3. ASSUME NEW k \in Keys, LateArrival(k)
        PROVE  NoDuplicateOrder'
    BY <2>1, <2>3 DEF LateArrival, NoDuplicateOrder
  <2>4. ASSUME NEW k \in Keys, RemoteMoves(k)
        PROVE  NoDuplicateOrder'
    BY <2>4 DEF RemoteMoves, NoDuplicateOrder, TypeOK
  <2>5. CASE UNCHANGED exchange
    BY <2>5 DEF NoDuplicateOrder
  <2> QED
    BY <2>2, <2>3, <2>4, <2>5
    DEF Next, TickStep, LoopStep, Environment, vars, BeginTick, TakeOrder, FinishTick,
        Lookup, RemoteSynced, EnterLoop, LookupRaised, PlaceDry, PlaceBlocked,
        PlaceLive, PlaceFails, PlaceSucceeds, GiveUpAttempt, Retry, Notify,
        Alarm, PatchDryRun, Crash
<1> QED
  BY <1>1, <1>2, TypeCorrect, PTL DEF Spec

-----------------------------------------------------------------------------
(* The refinement.  For a bot that only trades live, the rows and the      *)
(* exchange's orders are the intents and the effects of OrderLedger.       *)

AllLive ==
  /\ dryRun = FALSE
  /\ \A t \in Ticks : tick[t].pc # "idle" => tick[t].adapter = "live"
  /\ \A k \in Keys : orders[k].status # "ACCEPTED_DRY_RUN"

\* A bot that only trades live starts live.
LEMMA InitAllLive == ASSUME LiveOnly PROVE Init => AllLive
<1> SUFFICES ASSUME Init PROVE AllLive
  OBVIOUS
<1>1. dryRun = FALSE
  BY DEF Init, LiveOnly
<1>2. ASSUME NEW t \in Ticks PROVE tick[t].pc = "idle"
  BY DEF Init, Idle
<1>3. ASSUME NEW k \in Keys PROVE orders[k].status # "ACCEPTED_DRY_RUN"
  BY DEF Init, Absent
<1> QED
  BY <1>1, <1>2, <1>3 DEF AllLive

\* It stays so.
LEMMA NextAllLive ==
  ASSUME LiveOnly, TypeOK, AllLive, [Next]_vars
  PROVE  AllLive'
<1>1. dryRun' = FALSE
  BY DEF AllLive, LiveOnly, Next, TickStep, LoopStep, Environment, vars, BeginTick,
     TakeOrder, FinishTick, Lookup, RemoteSynced, EnterLoop, LookupRaised,
     PlaceDry, PlaceBlocked, PlaceLive, ExchangeHandles, PlaceFails,
     PlaceSucceeds, GiveUpAttempt, Retry, Notify, Alarm, PatchDryRun, Crash,
     RemoteMoves, LateArrival
<1>2. ASSUME NEW t \in Ticks, tick'[t].pc # "idle"
      PROVE  tick'[t].adapter = "live"
  <2>1. ASSUME NEW u \in Ticks, BeginTick(u)
        PROVE  tick'[t].adapter = "live"
    <3>1. PICK d, a : /\ a \in build_adapter
                      /\ tick' = [tick EXCEPT ![u] = [pc |-> "take", todo |-> d,
                             adapter |-> a, attempt |-> 0, reply |-> "none"]]
      BY <2>1 DEF BeginTick
    <3>2. a = "live"
      BY <3>1 DEF build_adapter, AllLive, LiveOnly
    <3> QED
      BY <1>2, <3>1, <3>2 DEF AllLive, TypeOK
  <2>2. ASSUME NEW u \in Ticks, tick[u].pc # "idle",
               \E phase, rest, n, r : Continue(u, phase, rest, n, r)
        PROVE  tick'[t].adapter = "live"
    BY <1>2, <2>2 DEF Continue, AllLive, TypeOK
  <2>3. ASSUME NEW u \in Ticks, Abort(u)
        PROVE  tick'[t].adapter = "live"
    BY <1>2, <2>3 DEF Abort, Idle, AllLive, TypeOK
  <2>4. CASE Crash
    BY <1>2, <2>4 DEF Crash, Idle
  <2>5. CASE UNCHANGED tick
    BY <1>2, <2>5 DEF AllLive
  <2>6. ASSUME NEW u \in Ticks, TickStep(u)
        PROVE  \/ Abort(u)
               \/ /\ tick[u].pc # "idle"
                  /\ \E phase, rest, n, r : Continue(u, phase, rest, n, r)
    BY <2>6, TickMoves
  <2> QED
    BY <2>1, <2>2, <2>3, <2>4, <2>5, <2>6
    DEF Next, Environment, vars, PatchDryRun, RemoteMoves, LateArrival
<1>3. ASSUME NEW k \in Keys
      PROVE  orders'[k].status # "ACCEPTED_DRY_RUN"
  <2>1. ASSUME NEW u \in Ticks, TakeOrder(u)
        PROVE  orders'[k].status # "ACCEPTED_DRY_RUN"
    <3>1. orders' = [orders EXCEPT ![Current(u)] = insert_order(Current(u))]
      BY <2>1 DEF TakeOrder
    <3>2. insert_order(Current(u)) = orders[Current(u)]
            \/ insert_order(Current(u)).status = "PENDING"
      BY DEF insert_order, Pending
    <3> QED
      BY <3>1, <3>2 DEF AllLive, TypeOK
  <2>2. ASSUME NEW u \in Ticks,
               PlaceBlocked(u) \/ GiveUpAttempt(u) \/ Notify(u) \/ PlaceSucceeds(u)
                 \/ RemoteSynced(u)
        PROVE  orders'[k].status # "ACCEPTED_DRY_RUN"
    BY <2>2
    DEF PlaceBlocked, GiveUpAttempt, Notify, PlaceSucceeds, RemoteSynced,
        MarkFailure, update_order, normalize_order_status, RemoteStates,
        AllLive, TypeOK
  <2>3. ASSUME NEW u \in Ticks, PlaceDry(u)
        PROVE  FALSE
    BY <2>3 DEF PlaceDry, At, AllLive
  <2>4. CASE UNCHANGED orders
    BY <2>4 DEF AllLive
  <2> QED
    BY <2>1, <2>2, <2>3, <2>4
    DEF Next, TickStep, LoopStep, Environment, vars, BeginTick, FinishTick, Lookup,
        EnterLoop, LookupRaised, PlaceLive, ExchangeHandles, PlaceFails, Retry,
        Alarm, PatchDryRun, RemoteMoves, LateArrival, Crash
<1> QED
  BY <1>1, <1>2, <1>3 DEF AllLive

\* A row written with status s is a step of the ledger when s says nothing
\* the exchange contradicts.
LEMMA RowIsLedgerStep ==
  ASSUME TypeOK, Once, AllLive, LedgerNotAhead, NEW k \in Keys,
         orders[k].status # "absent", NEW s \in RowStatus, NEW n,
         update_order(k, s, n), exchange' = exchange,
         \/ s \in OnExchange /\ exchange[k].created >= 1
         \/ s \in {"RETRYING", "FAILED"} /\ exchange[k].created = 0
  PROVE  [Ledger!Next]_(Ledger!vars)
<1>1. /\ orders'[k].status = s
      /\ \A j \in Keys \ {k} : orders'[j] = orders[j]
  BY DEF update_order, TypeOK
<1>2. exchange[k].created \in {0, 1}
  BY DEF Once, NoDuplicateOrder, TypeOK, RemoteOrder
<1>3. orders[k].status \in RowStatus \ {"absent", "ACCEPTED_DRY_RUN"}
  BY DEF TypeOK, Row, AllLive
<1>4. [j \in Keys |-> Intent(j)]'
        = [[j \in Keys |-> Intent(j)] EXCEPT ![k] = Intent(k)']
  BY <1>1 DEF Intent
<1>5. UNCHANGED [j \in Keys |-> exchange[j].created]
  OBVIOUS
<1>6. \A i : Intent(k)' = i => Ledger!Become(k, i)
  BY <1>4, <1>5 DEF Ledger!Become
<1>7. CASE s \in OnExchange
  <2>1. Intent(k)' = "settled" /\ exchange[k].created = 1
    BY <1>1, <1>2, <1>7 DEF Intent, OnExchange
  <2>2. CASE Intent(k) = "settled"
    BY <1>4, <1>5, <2>1, <2>2 DEF Ledger!vars
  <2>3. CASE Intent(k) # "settled"
    <3>1. Intent(k) \in {"registered", "abandoned"}
      BY <1>3, <2>3 DEF Intent
    <3> QED
      BY <1>6, <2>1, <3>1 DEF Ledger!Next, Ledger!Settle, Ledger!Open
  <2> QED
    BY <2>2, <2>3
<1>8. CASE s \in {"RETRYING", "FAILED"} /\ exchange[k].created = 0
  <2>1. Intent(k) \in {"registered", "abandoned"}
    BY <1>3, <1>8 DEF Intent, LedgerNotAhead, OnExchange, RowStatus, Done
  <2>2. CASE s = "FAILED"
    <3>1. Intent(k)' = "abandoned"
      BY <1>1, <2>2 DEF Intent
    <3> QED
      BY <1>6, <1>8, <2>1, <3>1 DEF Ledger!Next, Ledger!Abandon, Ledger!Open
  <2>3. CASE s = "RETRYING"
    <3>1. Intent(k)' = "registered"
      BY <1>1, <2>3 DEF Intent
    <3>2. CASE Intent(k) = "registered"
      BY <1>4, <1>5, <3>1, <3>2 DEF Ledger!vars
    <3>3. CASE Intent(k) = "abandoned"
      BY <1>6, <1>8, <3>1, <3>3 DEF Ledger!Next, Ledger!Resume
    <3> QED
      BY <2>1, <3>2, <3>3
  <2> QED
    BY <1>8, <2>2, <2>3
<1> QED
  BY <1>7, <1>8

\* Registering an order and booking it on the exchange are steps of the
\* ledger too.
LEMMA RegisterIsLedgerStep ==
  ASSUME TypeOK, NEW t \in Ticks, TakeOrder(t)
  PROVE  [Ledger!Next]_(Ledger!vars)
<1>1. PICK k \in Keys : k = Current(t)
  BY CurrentIsKey DEF TakeOrder, At
<1>2. orders' = [orders EXCEPT ![k] = insert_order(k)] /\ exchange' = exchange
  BY <1>1 DEF TakeOrder
<1>3. CASE orders[k].status = "absent"
  <2>1. /\ orders'[k].status = "PENDING"
        /\ \A j \in Keys \ {k} : orders'[j] = orders[j]
    BY <1>1, <1>2, <1>3 DEF insert_order, Pending, TypeOK
  <2>2. Intent(k) = "unknown" /\ Intent(k)' = "registered"
    BY <1>3, <2>1 DEF Intent
  <2>3. [j \in Keys |-> Intent(j)]'
          = [[j \in Keys |-> Intent(j)] EXCEPT ![k] = "registered"]
    BY <2>1, <2>2 DEF Intent
  <2> QED
    BY <1>1, <1>2, <2>2, <2>3 DEF Ledger!Next, Ledger!Register, Ledger!Become
<1>4. CASE orders[k].status # "absent"
  <2>1. orders' = orders
    BY <1>1, <1>2, <1>4 DEF insert_order, TypeOK
  <2> QED
    BY <1>2, <2>1 DEF Ledger!vars, Intent
<1> QED
  BY <1>3, <1>4

\* An order that the exchange books is a step of the abstract ledger.
LEMMA CreateIsLedgerStep ==
  ASSUME TypeOK, Sound, NEW k \in Keys, orders[k].status # "absent",
         exchange[k].created = 0, AllLive, CreateOrder(k), orders' = orders
  PROVE  [Ledger!Next]_(Ledger!vars)
<1>1. /\ exchange'[k].created = 1
      /\ \A j \in Keys \ {k} : exchange'[j] = exchange[j]
  BY Writing
<1>2. orders[k].status \in RowStatus \ (OnExchange \cup {"absent", "ACCEPTED_DRY_RUN"})
  BY DEF Sound, LedgerNotAhead, TypeOK, Row, AllLive
<1>3. Intent(k) \in {"registered", "abandoned"}
  BY <1>2 DEF Intent, RowStatus, Done, OnExchange
<1>4. [j \in Keys |-> exchange[j].created]'
        = [[j \in Keys |-> exchange[j].created] EXCEPT ![k] = 1]
  BY <1>1
<1>5. UNCHANGED [j \in Keys |-> Intent(j)]
  BY DEF Intent
<1> QED
  BY <1>3, <1>4, <1>5 DEF Ledger!Next, Ledger!TakeEffect, Ledger!Open

\* An order goes on to be filled or canceled: the ledger does not look.
LEMMA RemoteMoveIsStutter ==
  ASSUME TypeOK, NEW k \in Keys, RemoteMoves(k)
  PROVE  UNCHANGED Ledger!vars
<1>1. \A j \in Keys : exchange'[j].created = exchange[j].created
  BY DEF RemoteMoves, TypeOK
<1>2. orders' = orders
  BY DEF RemoteMoves
<1> QED
  BY <1>1, <1>2 DEF Ledger!vars, Intent

\* Every step of the executor is a step of the abstract ledger or none.
LEMMA NextKeepsLedger ==
  ASSUME LiveOnly, IInv, Once, AllLive, [Next]_vars
  PROVE  [Ledger!Next]_(Ledger!vars)
<1>1. ASSUME NEW t \in Ticks, tick[t].todo # <<>>
      PROVE  /\ Current(t) \in Keys
             /\ tick[t].pc \notin {"idle", "take"}
                  => orders[Current(t)].status # "absent"
             /\ tick[t].reply \in {"accepted"} \cup RemoteStates
                  => exchange[Current(t)].created >= 1
             /\ MaySend(t) => exchange[Current(t)].created = 0
  BY <1>1, CurrentIsKey DEF IInv, Sound, Evidence, Once, NotSentYet
<1>2. ASSUME NEW t \in Ticks, RemoteSynced(t) \/ PlaceSucceeds(t)
      PROVE  [Ledger!Next]_(Ledger!vars)
  <2>1. /\ tick[t].todo # <<>> /\ tick[t].pc \notin {"idle", "take"}
        /\ tick[t].reply \in {"accepted"} \cup RemoteStates
        /\ exchange' = exchange
    BY <1>2 DEF RemoteSynced, PlaceSucceeds, At
  <2>2. PICK s, n : update_order(Current(t), s, n) /\ s \in OnExchange
    BY <1>2 DEF RemoteSynced, PlaceSucceeds, normalize_order_status,
                RemoteStates, OnExchange
  <2>3. s \in RowStatus
    BY <2>2 DEF OnExchange, RowStatus, Done
  <2> QED
    BY <1>1, <2>1, <2>2, <2>3, RowIsLedgerStep DEF IInv, Sound
<1>3. ASSUME NEW t \in Ticks, MarkFailure(t), exchange' = exchange,
             tick[t].todo # <<>>, tick[t].pc \notin {"idle", "take"}, MaySend(t)
      PROVE  [Ledger!Next]_(Ledger!vars)
  <2>1. PICK s, n : update_order(Current(t), s, n) /\ s \in {"RETRYING", "FAILED"}
    BY <1>3 DEF MarkFailure
  <2>2. s \in RowStatus
    BY <2>1 DEF RowStatus
  <2> QED
    BY <1>1, <1>3, <2>1, <2>2, RowIsLedgerStep DEF IInv, Sound
<1>4. ASSUME NEW t \in Ticks,
             GiveUpAttempt(t) \/ PlaceDry(t) \/ PlaceBlocked(t) \/ Notify(t)
      PROVE  [Ledger!Next]_(Ledger!vars)
  <2>1. /\ tick[t].todo # <<>> /\ tick[t].pc \notin {"idle", "take"}
        /\ tick[t].adapter = "live" /\ exchange' = exchange
    BY <1>4 DEF GiveUpAttempt, PlaceDry, PlaceBlocked, Notify, At, AllLive
  <2>2. CASE GiveUpAttempt(t)
    BY <1>3, <2>1, <2>2 DEF GiveUpAttempt, MaySend, At
  <2>3. CASE orders' = orders
    BY <2>1, <2>3 DEF Ledger!vars, Intent
  <2> QED
    BY <1>4, <2>1, <2>2, <2>3 DEF PlaceDry, PlaceBlocked, Notify
<1>5. ASSUME NEW t \in Ticks, TakeOrder(t)
      PROVE  [Ledger!Next]_(Ledger!vars)
  BY <1>5, RegisterIsLedgerStep DEF IInv
<1>6. ASSUME NEW t \in Ticks, ExchangeHandles(t)
      PROVE  [Ledger!Next]_(Ledger!vars)
  <2>1. /\ tick[t].todo # <<>> /\ tick[t].pc \notin {"idle", "take"}
        /\ MaySend(t) /\ orders' = orders
    BY <1>6 DEF ExchangeHandles, At, MaySend
  <2>2. CASE CreateOrder(Current(t))
    BY <1>1, <2>1, <2>2, CreateIsLedgerStep DEF IInv
  <2>3. CASE exchange' = exchange
    BY <2>1, <2>3 DEF Ledger!vars, Intent
  <2> QED
    BY <1>6, <2>2, <2>3 DEF ExchangeHandles
<1>7. ASSUME NEW k \in Keys, RemoteMoves(k)
      PROVE  [Ledger!Next]_(Ledger!vars)
  BY <1>7, RemoteMoveIsStutter DEF IInv
<1>8. ASSUME NEW k \in Keys, LateArrival(k)
      PROVE  FALSE
  BY <1>8 DEF LateArrival, Once, NothingDelayed, IInv, TypeOK
<1>9. CASE UNCHANGED <<orders, exchange>>
  BY <1>9 DEF Ledger!vars, Intent
<1> QED
  BY <1>2, <1>4, <1>5, <1>6, <1>7, <1>8, <1>9
  DEF Next, TickStep, LoopStep, Environment, vars, BeginTick, FinishTick, Lookup,
      EnterLoop, LookupRaised, PlaceLive, PlaceFails, Retry, Alarm, PatchDryRun,
      Crash

\* For a bot that trades live, with one tick in service at a time, lookups
\* that tell the truth or raise and no late delivery, the release executor
\* implements OrderLedger: every order is registered first, takes effect at
\* most once, is settled only after it took effect and for good, and is given
\* up only when the exchange does not have it.
THEOREM ImplementsLedger ==
  ASSUME Truthful, LiveOnly PROVE Spec /\ []OneInService => KeepsLedger
<1>1. Init => Ledger!Init
  BY DEF Init, Ledger!Init, Intent, Absent
<1>2. Spec => []AllLive
  <2>1. IInv /\ AllLive /\ [Next]_vars => AllLive'
    BY NextAllLive DEF IInv
  <2> QED
    BY <2>1, InitAllLive, Inductive, PTL DEF Spec
<1>3. IInv /\ Once /\ AllLive /\ [Next]_vars => [Ledger!Next]_(Ledger!vars)
  BY NextKeepsLedger
<1> QED
  BY <1>1, <1>2, <1>3, InductiveOnce, PTL DEF Spec, KeepsLedger, Ledger!Spec

-----------------------------------------------------------------------------
(* A tick settles its order before it goes on.  It leaves an order in      *)
(* three places besides the two where it has just found or written the     *)
(* status: after the alert of a success, after the alert of a failure, and *)
(* where there is nothing to try.  At both alerts the row still says what  *)
(* the tick wrote before, as no other tick is there to write it.           *)

Unsettled == {"absent", "PENDING", "RETRYING"}

\* What the row of the order in service says at the two alerts.
Settling(t) ==
  /\ tick[t].pc = "idle" => tick[t].todo = <<>>
  /\ At(t, "notify") => orders[Current(t)].status \in {"SENT", "ACCEPTED_DRY_RUN"}
  /\ At(t, "alarm") => orders[Current(t)].status = "FAILED"

AllSettling == \A t \in Ticks : Settling(t)

\* The row of the order in service, after a step of its tick.
RowSettled(t) == orders'[Current(t)].status \notin Unsettled

\* What a step of tick t must do.
StepSettles(t) ==
  /\ Settling(t)'
  /\ tick[t].todo # <<>> /\ tick'[t].pc # "idle"
       /\ tick'[t].todo = Tail(tick[t].todo)
     => RowSettled(t)

\* Where a tick is after it went on, and after it ended.
LEMMA Moves ==
  ASSUME TypeOK, NEW t \in Ticks
  PROVE  /\ \A phase : Goto(t, phase) =>
              tick'[t].pc = phase /\ tick'[t].todo = tick[t].todo
         /\ \A n : StartAttempt(t, n) =>
              tick'[t].pc = "send" /\ tick'[t].todo = tick[t].todo
         /\ \A r : Receive(t, r) =>
              tick'[t].pc = tick[t].pc /\ tick'[t].todo = tick[t].todo
         /\ NextOrder(t) =>
              tick'[t].pc = "take" /\ tick'[t].todo = Tail(tick[t].todo)
         /\ Abort(t) => tick'[t].pc = "idle" /\ tick'[t].todo = <<>>
<1>1. ASSUME NEW phase, NEW rest, NEW n, NEW r, Continue(t, phase, rest, n, r)
      PROVE  tick'[t].pc = phase /\ tick'[t].todo = rest
  <2> DEFINE new == [pc |-> phase, todo |-> rest, adapter |-> tick[t].adapter,
                     attempt |-> n, reply |-> r]
  <2>1. tick' = [tick EXCEPT ![t] = new]
    BY <1>1 DEF Continue
  <2>2. new.pc = phase /\ new.todo = rest
    OBVIOUS
  <2> HIDE DEF new
  <2>3. tick'[t] = new
    BY <2>1 DEF TypeOK
  <2> QED
    BY <2>2, <2>3
<1>2. Abort(t) => tick'[t].pc = "idle" /\ tick'[t].todo = <<>>
  BY DEF Abort, Idle, TypeOK
<1> QED
  BY <1>1, <1>2 DEF Goto, StartAttempt, Receive, NextOrder

\* A tick that is elsewhere has nothing to know.
LEMMA Elsewhere ==
  ASSUME NEW t \in Ticks, tick'[t].pc \notin {"idle", "notify", "alarm"}
  PROVE  Settling(t)'
BY DEF Settling, At

\* Marking a failure leads to the alarm only with the row FAILED.
LEMMA FailureSettles ==
  ASSUME TypeOK, NEW t \in Ticks, tick[t].todo # <<>>, MarkFailure(t)
  PROVE  Settling(t)' /\ tick'[t].todo = tick[t].todo
<1>1. Current(t) \in Keys
  BY CurrentIsKey
<1>2. CASE tick[t].attempt < MaxAttempts
  <2>1. tick'[t].pc = "sleep" /\ tick'[t].todo = tick[t].todo
    BY <1>2, Moves DEF MarkFailure
  <2> QED
    BY <2>1, Elsewhere
<1>3. CASE ~(tick[t].attempt < MaxAttempts)
  <2>1. tick'[t].pc = "alarm" /\ tick'[t].todo = tick[t].todo
    BY <1>3, Moves DEF MarkFailure
  <2>2. orders'[Current(t)].status = "FAILED"
    BY <1>1, <1>3 DEF MarkFailure, update_order, TypeOK
  <2> QED
    BY <2>1, <2>2 DEF Settling, At, Current
<1> QED
  BY <1>2, <1>3

\* Each step of a tick keeps what it knows, and goes on to the next order of
\* its decision only past a settled row.
LEMMA TickSettles ==
  ASSUME MaxAttempts > 0, TypeOK, NEW t \in Ticks, Settling(t),
         BeginTick(t) \/ TickStep(t)
  PROVE  StepSettles(t)
<1>a. tick[t].todo # <<>> => Tail(tick[t].todo) # tick[t].todo
  <2>1. ASSUME NEW d \in Seq(Keys), d # <<>>
        PROVE  Tail(d) # d
    <3>1. Len(Tail(d)) = Len(d) - 1 /\ Len(d) \in Nat
      BY <2>1
    <3> QED BY <3>1
  <2> QED BY <2>1 DEF TypeOK, TickState
<1>b. tick[t].todo # <<>> => Current(t) \in Keys
  BY CurrentIsKey
\* Staying with the order, anywhere but at an alert.
<1>c. ASSUME tick'[t].todo = tick[t].todo,
             tick'[t].pc \notin {"idle", "notify", "alarm"}
      PROVE  StepSettles(t)
  BY <1>a, <1>c, Elsewhere DEF StepSettles
\* Leaving the order with a settled row.
<1>d. ASSUME NextOrder(t), RowSettled(t)
      PROVE  StepSettles(t)
  <2>1. tick'[t].pc = "take"
    BY <1>d, Moves
  <2> QED BY <1>d, <2>1, Elsewhere DEF StepSettles
<1>e. ASSUME Abort(t)
      PROVE  StepSettles(t)
  BY <1>e, Moves DEF StepSettles, Settling, At
<1>f. ASSUME MarkFailure(t), tick[t].todo # <<>>
      PROVE  StepSettles(t)
  BY <1>a, <1>f, FailureSettles DEF StepSettles
<1>g. ASSUME EnterRetryLoop(t)
      PROVE  tick'[t].pc = "send" /\ tick'[t].todo = tick[t].todo
  BY <1>g, Moves DEF EnterRetryLoop
<1>1. CASE BeginTick(t)
  <2>1. PICK d \in Decisions, a \in build_adapter :
          tick' = [tick EXCEPT ![t] = [pc |-> "take", todo |-> d, adapter |-> a,
                                       attempt |-> 0, reply |-> "none"]]
    BY <1>1 DEF BeginTick
  <2>2. tick'[t].pc = "take"
    BY <2>1 DEF TypeOK
  <2>3. tick[t].todo = <<>>
    BY <1>1 DEF BeginTick, At, Settling
  <2> QED BY <2>2, <2>3, Elsewhere DEF StepSettles
<1>2. CASE TakeOrder(t)
  <2>1. CASE NextOrder(t) /\ insert_order(Current(t)).status \in Done
    <3>1. Current(t) \in Keys
      BY <1>2, <1>b DEF TakeOrder, At
    <3>2. orders'[Current(t)] = insert_order(Current(t))
      BY <1>2, <3>1 DEF TakeOrder, TypeOK
    <3>3. RowSettled(t)
      BY <2>1, <3>2 DEF Done, Unsettled, RowSettled
    <3> QED BY <1>d, <2>1, <3>3
  <2>2. CASE Goto(t, "lookup") \/ EnterRetryLoop(t)
    <3>1. tick'[t].todo = tick[t].todo /\ tick'[t].pc \in {"lookup", "send"}
      BY <1>g, <2>2, Moves
    <3> QED BY <1>c, <3>1
  <2> QED BY <1>2, <2>1, <2>2 DEF TakeOrder
<1>3. CASE FinishTick(t) \/ LookupRaised(t)
  BY <1>3, <1>e DEF FinishTick, LookupRaised
<1>4. CASE Lookup(t)
  <2>1. tick[t].pc \in {"lookup", "recover"}
    BY <1>4 DEF Lookup, At
  <2>2. tick'[t].todo = tick[t].todo /\ tick'[t].pc = tick[t].pc
    BY <1>4, Moves DEF Lookup
  <2> QED BY <1>c, <2>1, <2>2
<1>5. CASE RemoteSynced(t)
  <2>1. Current(t) \in Keys
    BY <1>5, <1>b DEF RemoteSynced, At
  <2>2. orders'[Current(t)].status = normalize_order_status(tick[t].reply)
    BY <1>5, <2>1 DEF RemoteSynced, update_order, TypeOK
  <2>3. normalize_order_status(tick[t].reply) \in OnExchange
    BY <1>5 DEF RemoteSynced, normalize_order_status, RemoteStates, OnExchange
  <2>4. RowSettled(t)
    BY <2>2, <2>3 DEF OnExchange, Unsettled, RowSettled
  <2> QED BY <1>5, <1>d, <2>4 DEF RemoteSynced
<1>6. CASE EnterLoop(t)
  BY <1>6, <1>c, <1>g DEF EnterLoop
<1>7. CASE PlaceDry(t) \/ PlaceSucceeds(t)
  <2>1. Current(t) \in Keys /\ tick[t].todo # <<>>
    BY <1>7, <1>b DEF PlaceDry, PlaceSucceeds, At
  <2>2. orders'[Current(t)].status \in {"SENT", "ACCEPTED_DRY_RUN"}
    BY <1>7, <2>1 DEF PlaceDry, PlaceSucceeds, update_order, TypeOK
  <2>3. tick'[t].pc = "notify" /\ tick'[t].todo = tick[t].todo
    BY <1>7, Moves DEF PlaceDry, PlaceSucceeds
  <2> QED BY <1>a, <2>2, <2>3 DEF StepSettles, Settling, At, Current
<1>8. CASE PlaceBlocked(t) \/ GiveUpAttempt(t)
  BY <1>8, <1>f DEF PlaceBlocked, GiveUpAttempt, At
<1>9. CASE PlaceLive(t) \/ PlaceFails(t)
  <2>1. tick'[t].todo = tick[t].todo /\ tick'[t].pc \in {"wait", "recover"}
    BY <1>9, Moves DEF PlaceLive, PlaceFails
  <2> QED BY <1>c, <2>1
<1>10. CASE ExchangeHandles(t)
  <2>1. tick[t].pc = "wait"
    BY <1>10 DEF ExchangeHandles, At
  <2>2. tick'[t].todo = tick[t].todo /\ tick'[t].pc = tick[t].pc
    BY <1>10, Moves DEF ExchangeHandles
  <2> QED BY <1>c, <2>1, <2>2
<1>11. CASE Retry(t)
  <2>1. tick'[t].todo = tick[t].todo /\ tick'[t].pc = "send"
    BY <1>11, Moves DEF Retry
  <2> QED BY <1>c, <2>1
<1>12. CASE Notify(t)
  <2>1. tick[t].todo # <<>>
    BY <1>12 DEF Notify, At
  <2>2. CASE NextOrder(t) /\ UNCHANGED orders
    <3>1. RowSettled(t)
      BY <1>12, <2>2 DEF Notify, Settling, Unsettled, RowSettled
    <3> QED BY <1>d, <2>2, <3>1
  <2>3. CASE MarkFailure(t)
    BY <1>f, <2>1, <2>3
  <2>4. CASE Goto(t, "recover") \/ Goto(t, "mail")
    <3>1. tick'[t].todo = tick[t].todo /\ tick'[t].pc \in {"recover", "mail"}
      BY <2>4, Moves
    <3> QED BY <1>c, <3>1
  <2> QED BY <1>12, <2>2, <2>3, <2>4 DEF Notify
<1>13. CASE Alarm(t)
  <2>1. RowSettled(t)
    BY <1>13 DEF Alarm, Settling, Unsettled, RowSettled
  <2>2. CASE Goto(t, "mail")
    <3>1. tick'[t].todo = tick[t].todo /\ tick'[t].pc = "mail"
      BY <2>2, Moves
    <3> QED BY <1>c, <3>1
  <2> QED BY <1>13, <1>d, <1>e, <2>1, <2>2 DEF Alarm
<1> QED
  BY <1>1, <1>2, <1>3, <1>4, <1>5, <1>6, <1>7, <1>8, <1>9, <1>10, <1>11,
     <1>12, <1>13 DEF TickStep, LoopStep

\* With one tick in service nobody else moves a tick or writes its row.
LEMMA NextSettles ==
  ASSUME MaxAttempts > 0, TypeOK, OneInService, OneInService', AllSettling,
         [Next]_vars
  PROVE  AllSettling'
<1>1. ASSUME NEW t \in Ticks, BeginTick(t) \/ TickStep(t)
      PROVE  AllSettling'
  <2>1. Settling(t)'
    BY <1>1, TickSettles DEF AllSettling, StepSettles
  <2>2. ASSUME NEW u \in Ticks \ {t} PROVE Settling(u)'
    <3>1. tick[u].pc = "idle" /\ tick'[u] = tick[u]
      BY <1>1, <2>2, OthersIdle
    <3> QED BY <3>1 DEF AllSettling, Settling, At
  <2> QED BY <2>1, <2>2 DEF AllSettling
<1>2. CASE Crash
  BY <1>2 DEF Crash, Idle, AllSettling, Settling, At
<1>3. CASE UNCHANGED <<orders, tick>>
  BY <1>3 DEF AllSettling, Settling, At, Current
<1> QED
  BY <1>1, <1>2, <1>3
  DEF Next, Environment, PatchDryRun, RemoteMoves, LateArrival, vars

\* With one tick in service, a tick that goes on to the next order leaves a
\* row behind it that says how its order ended, on every path through the
\* retry loop and its alerts (executor_release.py 41-77).
THEOREM AlwaysSettles ==
  ASSUME MaxAttempts > 0
  PROVE  Spec /\ []OneInService => TickSettlesItsOrder
<1>1. Init => AllSettling
  BY DEF Init, AllSettling, Settling, At, Idle
<1>2. TypeOK /\ AllSettling /\ OneInService /\ OneInService' /\ [Next]_vars
        => AllSettling'
  BY NextSettles
<1>3. ASSUME TypeOK, AllSettling, OneInService, OneInService', [Next]_vars
      PROVE  [\A t \in Ticks :
                /\ tick[t].todo # <<>>
                /\ tick'[t].pc # "idle"
                /\ tick'[t].todo = Tail(tick[t].todo)
                => orders'[Current(t)].status
                     \notin {"absent", "PENDING", "RETRYING"}]_vars
  <2>1. ASSUME NEW t \in Ticks, BeginTick(t) \/ TickStep(t), NEW u \in Ticks,
               tick[u].todo # <<>>, tick'[u].pc # "idle",
               tick'[u].todo = Tail(tick[u].todo)
        PROVE  orders'[Current(u)].status \notin {"absent", "PENDING", "RETRYING"}
    <3>1. u = t
      BY <1>3, <2>1, OthersIdle
    <3> QED BY <1>3, <2>1, <3>1, TickSettles
         DEF AllSettling, StepSettles, RowSettled, Unsettled
  <2>2. CASE Crash
    <3>1. \A t \in Ticks : tick'[t].pc = "idle"
      BY <2>2 DEF Crash, Idle
    <3> QED BY <3>1
  <2>3. CASE UNCHANGED tick
    <3>1. ASSUME NEW t \in Ticks, tick[t].todo # <<>>
          PROVE  Tail(tick[t].todo) # tick[t].todo
      <4>1. ASSUME NEW d \in Seq(Keys), d # <<>>
            PROVE  Tail(d) # d
        <5>1. Len(Tail(d)) = Len(d) - 1 /\ Len(d) \in Nat
          BY <4>1
        <5> QED BY <5>1
      <4> QED BY <1>3, <3>1, <4>1 DEF TypeOK, TickState
    <3> QED BY <2>3, <3>1
  <2> QED
    BY <1>3, <2>1, <2>2, <2>3
    DEF Next, Environment, PatchDryRun, RemoteMoves, LateArrival, vars
<1> QED
  BY <1>1, <1>2, <1>3, TypeCorrect, PTL DEF Spec, TickSettlesItsOrder

-----------------------------------------------------------------------------
(* How often an order is sent.  A tick has so many attempts left for an    *)
(* order as the retry loop will still make; what has been created or is    *)
(* under way has been paid for by an attempt of a tick that has begun.     *)

\* A decision names an order once (Strategies!StrategiesApart, for the grids;
\* the other strategies decide on one order).
DecisionsDistinct ==
  \A d \in Decisions : \A m, n \in DOMAIN d : d[m] = d[n] => m = n

\* The next attempt of a tick in state s that has not reached the exchange.
NextAttempt(s) ==
  IF s.pc = "send" \/ (s.pc = "wait" /\ s.reply = "none")
    THEN s.attempt ELSE s.attempt + 1

\* The attempts that such a tick may still make for an order.
AttemptsOf(s, k) ==
  {n \in 1..MaxAttempts :
     \E m \in DOMAIN s.todo : s.todo[m] = k /\ (m = 1 => n >= NextAttempt(s))}

Left(k) ==
  {e \in Ticks \X (1..MaxAttempts) : e[2] \in AttemptsOf(tick[e[1]], k)}

\* The loop counts from one, and starts again for every order.
Counting(s) ==
  /\ \A m, n \in DOMAIN s.todo : s.todo[m] = s.todo[n] => m = n
  /\ s.pc \in {"take", "lookup"} => s.attempt = 0
  /\ s.pc \in {"send", "wait"} => s.attempt >= 1

Sendings(k) == exchange[k].created + delayed[k]

Budget ==
  /\ \A t \in Ticks : Counting(tick[t])
  /\ \A k \in Keys : Sendings(k) + Cardinality(Left(k)) <= MaxAttempts * runs

\* A step of tick t leaves it no more attempts than it had.
Fewer(t) ==
  /\ \A u \in Ticks \ {t} : tick'[u] = tick[u]
  /\ Counting(tick'[t])
  /\ \A k : AttemptsOf(tick'[t], k) \subseteq AttemptsOf(tick[t], k)

LEMMA LeftFinite ==
  ASSUME NEW k
  PROVE  IsFiniteSet(Left(k)) /\ Cardinality(Left(k)) \in Nat
<1>0. IsFiniteSet(1..MaxAttempts)
  BY ConstantsAssumption, FS_Interval
<1>1. IsFiniteSet(Ticks \X (1..MaxAttempts))
  BY <1>0, ConstantsAssumption, FS_Product
<1>2. IsFiniteSet(Left(k))
  BY <1>1, FS_Subset DEF Left
<1> QED BY <1>2, FS_CardinalityType

\* A tick without orders has no attempts left.
LEMMA IdleCounts == Counting(Idle) /\ \A k : AttemptsOf(Idle, k) = {}
BY DEF Counting, Idle, AttemptsOf

\* A tick that stays with its order and does not go back in the loop.
LEMMA StayFewer ==
  ASSUME TypeOK, NEW t \in Ticks, Counting(tick[t]),
         NEW phase, NEW n \in 0..MaxAttempts, NEW r,
         Continue(t, phase, tick[t].todo, n, r),
         phase \in {"take", "lookup"} => n = 0,
         phase \in {"send", "wait"} => n >= 1,
         NextAttempt(tick[t]) <= IF phase = "send" \/ (phase = "wait" /\ r = "none")
                                   THEN n ELSE n + 1
  PROVE  Fewer(t)
<1>1. /\ tick'[t].pc = phase /\ tick'[t].todo = tick[t].todo
      /\ tick'[t].attempt = n /\ tick'[t].reply = r
      /\ \A u \in Ticks \ {t} : tick'[u] = tick[u]
  BY DEF Continue, TypeOK
<1>2. Counting(tick'[t])
  BY <1>1 DEF Counting
<1>3. /\ NextAttempt(tick[t]) \in Int /\ NextAttempt(tick'[t]) \in Int
      /\ NextAttempt(tick[t]) <= NextAttempt(tick'[t])
  BY <1>1, ConstantsAssumption DEF NextAttempt, TypeOK, TickState
<1>4. \A k : AttemptsOf(tick'[t], k) \subseteq AttemptsOf(tick[t], k)
  <2>1. \A i \in 1..MaxAttempts :
          i >= NextAttempt(tick'[t]) => i >= NextAttempt(tick[t])
    BY <1>3
  <2> QED BY <1>1, <2>1 DEF AttemptsOf
<1> QED BY <1>1, <1>2, <1>4 DEF Fewer

\* A tick that goes on to its next order, or ends.
LEMMA LeaveFewer ==
  ASSUME TypeOK, NEW t \in Ticks, Counting(tick[t]),
         \/ NextOrder(t) /\ tick[t].todo # <<>>
         \/ Abort(t)
  PROVE  Fewer(t)
<1>1. CASE NextOrder(t) /\ tick[t].todo # <<>>
  <2> DEFINE todo == tick[t].todo
  <2>1. /\ tick'[t].pc = "take" /\ tick'[t].todo = Tail(todo)
        /\ tick'[t].attempt = 0
        /\ \A u \in Ticks \ {t} : tick'[u] = tick[u]
    BY <1>1 DEF NextOrder, Continue, TypeOK
  <2>2. todo \in Seq(Keys) /\ todo # <<>>
    BY <1>1 DEF TypeOK, TickState
  <2>3. \A m, n \in DOMAIN todo : todo[m] = todo[n] => m = n
    BY DEF Counting
  <2> HIDE DEF todo
  <2>4. \A m \in DOMAIN Tail(todo) :
          m \in Nat /\ m + 1 \in DOMAIN todo \ {1} /\ Tail(todo)[m] = todo[m + 1]
    BY <2>2
  <2>5. \A m, n \in DOMAIN Tail(todo) : Tail(todo)[m] = Tail(todo)[n] => m = n
    <3> SUFFICES ASSUME NEW m \in DOMAIN Tail(todo), NEW n \in DOMAIN Tail(todo),
                        Tail(todo)[m] = Tail(todo)[n]
                 PROVE  m = n
      OBVIOUS
    <3>1. m + 1 = n + 1
      BY <2>3, <2>4
    <3> QED BY <2>4, <3>1
  <2>6. Counting(tick'[t])
    BY <2>1, <2>5 DEF Counting
  <2>7. \A k : AttemptsOf(tick'[t], k) \subseteq AttemptsOf(tick[t], k)
    BY <2>1, <2>4 DEF AttemptsOf, todo
  <2> QED BY <2>1, <2>6, <2>7 DEF Fewer
<1>2. CASE Abort(t)
  <2>1. tick'[t] = Idle /\ \A u \in Ticks \ {t} : tick'[u] = tick[u]
    BY <1>2 DEF Abort, TypeOK
  <2> QED BY <2>1, IdleCounts DEF Fewer
<1> QED BY <1>1, <1>2

\* No step of a tick gives it an attempt back.
LEMMA TickFewer ==
  ASSUME TypeOK, AttemptsLeft, NEW t \in Ticks, Counting(tick[t]), TickStep(t)
  PROVE  Fewer(t)
<1>1. tick[t].attempt \in 0..MaxAttempts /\ MaxAttempts \in Nat
  BY ConstantsAssumption DEF TypeOK, TickState
<1>2. /\ tick[t].pc \in {"take", "lookup"} => tick[t].attempt = 0
      /\ tick[t].pc \in {"send", "wait"} => tick[t].attempt >= 1
  BY DEF Counting
<1>a. NextAttempt(tick[t]) \in Int /\ NextAttempt(tick[t]) <= tick[t].attempt + 1
  BY <1>1 DEF NextAttempt
<1>3. ASSUME NEW phase \in {"notify", "recover", "sleep", "alarm", "mail"},
             Goto(t, phase)
      PROVE  Fewer(t)
  <2>1. Continue(t, phase, tick[t].todo, tick[t].attempt, "none")
    BY <1>3 DEF Goto
  <2>2. phase \notin {"take", "lookup", "send", "wait"}
    OBVIOUS
  <2> QED BY <1>1, <1>a, <2>1, <2>2, StayFewer
<1>4. ASSUME MarkFailure(t) PROVE Fewer(t)
  BY <1>3, <1>4 DEF MarkFailure
<1>5. ASSUME EnterRetryLoop(t), tick[t].pc \in {"take", "lookup"},
             tick[t].todo # <<>>
      PROVE  Fewer(t)
  <2>1. CASE MaxAttempts = 0
    BY <1>5, <2>1, LeaveFewer DEF EnterRetryLoop
  <2>2. CASE MaxAttempts # 0
    <3>1. Continue(t, "send", tick[t].todo, 1, "none")
      BY <1>5, <2>2 DEF EnterRetryLoop, StartAttempt
    <3>2. 1 \in 0..MaxAttempts /\ NextAttempt(tick[t]) = 1
      BY <1>1, <1>2, <1>5, <2>2 DEF NextAttempt
    <3> QED BY <3>1, <3>2, StayFewer
  <2> QED BY <2>1, <2>2
<1>6. ASSUME NextOrder(t), tick[t].todo # <<>> PROVE Fewer(t)
  BY <1>6, LeaveFewer
<1>7. ASSUME Abort(t) PROVE Fewer(t)
  BY <1>7, LeaveFewer
<1>8. ASSUME NEW r, Receive(t, r), tick[t].pc # "send",
             r # "none" \/ tick[t].pc # "wait"
      PROVE  Fewer(t)
  <2>1. Continue(t, tick[t].pc, tick[t].todo, tick[t].attempt, r)
    BY <1>8 DEF Receive
  <2> QED BY <1>1, <1>2, <1>8, <1>a, <2>1, StayFewer
<1>9. CASE TakeOrder(t)
  <2>1. ASSUME Goto(t, "lookup"), tick[t].pc = "take" PROVE Fewer(t)
    <3>1. Continue(t, "lookup", tick[t].todo, tick[t].attempt, "none")
      BY <2>1 DEF Goto
    <3> QED BY <1>1, <1>2, <1>a, <2>1, <3>1, StayFewer
  <2> QED BY <1>5, <1>6, <1>9, <2>1 DEF TakeOrder, At
<1>10. CASE FinishTick(t) \/ LookupRaised(t)
  BY <1>7, <1>10 DEF FinishTick, LookupRaised
<1>11. CASE Lookup(t)
  BY <1>8, <1>11 DEF Lookup, At
<1>12. CASE RemoteSynced(t)
  BY <1>6, <1>12 DEF RemoteSynced, At
<1>13. CASE EnterLoop(t)
  BY <1>5, <1>13 DEF EnterLoop, At
<1>14. CASE PlaceDry(t) \/ PlaceSucceeds(t)
  BY <1>3, <1>14 DEF PlaceDry, PlaceSucceeds
<1>15. CASE PlaceBlocked(t) \/ GiveUpAttempt(t)
  BY <1>4, <1>15 DEF PlaceBlocked, GiveUpAttempt
<1>16. CASE PlaceLive(t)
  <2>1. /\ Continue(t, "wait", tick[t].todo, tick[t].attempt, "none")
        /\ tick[t].pc = "send"
    BY <1>16 DEF PlaceLive, At, Goto
  <2>2. NextAttempt(tick[t]) = tick[t].attempt
    BY <2>1 DEF NextAttempt
  <2>3. tick[t].attempt \in 0..MaxAttempts /\ tick[t].attempt >= 1
    BY <1>1, <1>2, <2>1
  <2>4. NextAttempt(tick[t]) <= IF "wait" = "send" \/ ("wait" = "wait" /\ "none" = "none")
                                  THEN tick[t].attempt ELSE tick[t].attempt + 1
    BY <1>1, <2>2
  <2>5. /\ "wait" \in {"take", "lookup"} => tick[t].attempt = 0
        /\ "wait" \in {"send", "wait"} => tick[t].attempt >= 1
    BY <2>3
  <2>6. Continue(t, "wait", tick[t].todo, tick[t].attempt, "none")
    BY <2>1
  <2> QED BY <2>3, <2>4, <2>5, <2>6, StayFewer
<1>17. CASE ExchangeHandles(t)
  BY <1>8, <1>17 DEF ExchangeHandles, At
<1>18. CASE PlaceFails(t)
  BY <1>3, <1>18 DEF PlaceFails
<1>19. CASE Retry(t)
  <2>1. /\ Continue(t, "send", tick[t].todo, tick[t].attempt + 1, "none")
        /\ tick[t].pc = "sleep"
    BY <1>19 DEF Retry, At, StartAttempt
  <2>2. PICK n : n = tick[t].attempt + 1
    OBVIOUS
  <2>3. n \in 0..MaxAttempts /\ n >= 1 /\ NextAttempt(tick[t]) <= n
    BY <1>1, <1>a, <2>1, <2>2 DEF AttemptsLeft
  <2>4. Continue(t, "send", tick[t].todo, n, "none")
    BY <2>1, <2>2
  <2>5. NextAttempt(tick[t]) <= IF "send" = "send" \/ ("send" = "wait" /\ "none" = "none")
                                  THEN n ELSE n + 1
    BY <2>3
  <2>6. /\ "send" \in {"take", "lookup"} => n = 0
        /\ "send" \in {"send", "wait"} => n >= 1
    BY <2>3
  <2> QED BY <2>3, <2>4, <2>5, <2>6, StayFewer
<1>20. CASE Notify(t)
  BY <1>3, <1>4, <1>6, <1>20 DEF Notify, At
<1>21. CASE Alarm(t)
  BY <1>3, <1>6, <1>7, <1>21 DEF Alarm, At
<1> QED BY <1>9, <1>10, <1>11, <1>12, <1>13, <1>14, <1>15, <1>16, <1>17, <1>18,
           <1>19, <1>20, <1>21 DEF TickStep, LoopStep

\* The attempts that are left after a step of tick t are among those before.
LEMMA LeftShrinks ==
  ASSUME NEW t \in Ticks, Fewer(t), NEW k
  PROVE  Left(k)' \subseteq Left(k)
BY DEF Fewer, Left

\* An attempt that waits for the exchange's answer is one of those left, and
\* none of them once it has been answered or given up.
LEMMA AttemptLeft ==
  ASSUME TypeOK, NEW t \in Ticks, Counting(tick[t]), At(t, "wait"),
         tick[t].reply = "none"
  PROVE  /\ Current(t) \in Keys
         /\ <<t, tick[t].attempt>> \in Left(Current(t))
<1>1. tick[t].todo \in Seq(Keys) /\ tick[t].todo # <<>>
  BY DEF TypeOK, TickState, At
<1>2. tick[t].attempt \in 1..MaxAttempts
  BY ConstantsAssumption DEF TypeOK, TickState, Counting, At
<1>3. 1 \in DOMAIN tick[t].todo /\ tick[t].todo[1] = Current(t)
  BY <1>1 DEF Current
<1>4. tick[t].attempt >= NextAttempt(tick[t])
  BY <1>2 DEF NextAttempt, At
<1> QED BY <1>1, <1>2, <1>3, <1>4 DEF Left, AttemptsOf, Current

LEMMA AttemptSpent ==
  ASSUME TypeOK, NEW t \in Ticks, Counting(tick[t]), At(t, "wait"),
         tick[t].reply = "none",
         \/ \E r : r # "none" /\ Receive(t, r)
         \/ Goto(t, "recover")
  PROVE  <<t, tick[t].attempt>> \notin Left(Current(t))'
<1>1. /\ tick'[t].todo = tick[t].todo /\ tick'[t].attempt = tick[t].attempt
      /\ \/ tick'[t].pc = "recover"
         \/ tick'[t].pc = "wait" /\ tick'[t].reply # "none"
  <2>1. CASE \E r : r # "none" /\ Receive(t, r)
    BY <2>1 DEF Receive, At, Continue, TypeOK
  <2>2. CASE Goto(t, "recover")
    BY <2>2 DEF Goto, Continue, TypeOK
  <2> QED BY <2>1, <2>2
<1>2. tick[t].attempt \in Nat
  BY ConstantsAssumption DEF TypeOK, TickState
<1>3. ~(tick[t].attempt >= NextAttempt(tick'[t]))
  BY <1>1, <1>2 DEF NextAttempt
<1>4. tick[t].todo \in Seq(Keys) /\ tick[t].todo # <<>>
  BY DEF TypeOK, TickState, At
<1>5. \A m \in DOMAIN tick[t].todo : tick[t].todo[m] = Current(t) => m = 1
  BY <1>4 DEF Counting, Current
<1>6. Current(t)' = Current(t)
  BY <1>1 DEF Current
<1> QED BY <1>1, <1>3, <1>5, <1>6 DEF Left, AttemptsOf

\* The books balance when no more is sent than attempts are spent.
LEMMA BudgetKept ==
  ASSUME TypeOK, TypeOK', NEW k \in Keys, UNCHANGED runs,
         Sendings(k) + Cardinality(Left(k)) <= MaxAttempts * runs,
         \/ /\ Sendings(k)' <= Sendings(k)
            /\ Left(k)' \subseteq Left(k)
         \/ /\ Sendings(k)' <= Sendings(k) + 1
            /\ \E e \in Left(k) : Left(k)' \subseteq Left(k) \ {e}
  PROVE  (Sendings(k) + Cardinality(Left(k)) <= MaxAttempts * runs)'
<1>1. /\ Sendings(k) \in Nat /\ Sendings(k)' \in Nat
      /\ MaxAttempts * runs \in Nat
  BY ConstantsAssumption DEF TypeOK, RemoteOrder, Sendings
<1>2. IsFiniteSet(Left(k)) /\ Cardinality(Left(k)) \in Nat
  BY LeftFinite
<1>3. Cardinality(Left(k)') \in Nat
  <2>1. Left(k)' \subseteq Left(k)
    OBVIOUS
  <2> QED BY <1>2, <2>1, FS_Subset, FS_CardinalityType
<1>4. CASE Sendings(k)' <= Sendings(k) /\ Left(k)' \subseteq Left(k)
  <2>1. Cardinality(Left(k)') <= Cardinality(Left(k))
    BY <1>2, <1>4, FS_Subset
  <2> QED BY <1>1, <1>2, <1>3, <1>4, <2>1
<1>5. ASSUME NEW e \in Left(k), Left(k)' \subseteq Left(k) \ {e},
             Sendings(k)' <= Sendings(k) + 1
      PROVE  (Sendings(k) + Cardinality(Left(k)) <= MaxAttempts * runs)'
  <2>1. /\ IsFiniteSet(Left(k) \ {e})
        /\ Cardinality(Left(k) \ {e}) = Cardinality(Left(k)) - 1
    BY <1>2, FS_RemoveElement
  <2>2. Cardinality(Left(k)') <= Cardinality(Left(k)) - 1
    BY <1>5, <2>1, FS_Subset
  <2> QED BY <1>1, <1>2, <1>3, <1>5, <2>2
<1> QED BY <1>4, <1>5

\* Every tick counts its attempts, and no step puts more under way than it
\* spends: the answer of the exchange and the time-out each spend one, and a
\* restart the attempts of the requests that it leaves under way.
LEMMA BudgetStep ==
  ASSUME DecisionsDistinct, TypeOK, TypeOK', AttemptsLeft, Budget, [Next]_vars
  PROVE  Budget'
<1> DEFINE Balanced(k) == Sendings(k) + Cardinality(Left(k)) <= MaxAttempts * runs
           AllCount == \A t \in Ticks : Counting(tick[t])
<1>1. (\A t \in Ticks : Counting(tick[t])) /\ \A k \in Keys : Balanced(k)
  BY DEF Budget
<1>2. SUFFICES AllCount' /\ \A k \in Keys : Balanced(k)'
  BY DEF Budget
<1>3. ASSUME NEW t \in Ticks, BeginTick(t)
      PROVE  AllCount' /\ \A k \in Keys : Balanced(k)'
  <2>1. PICK d \in Decisions, a \in build_adapter :
          tick' = [tick EXCEPT ![t] = [pc |-> "take", todo |-> d, adapter |-> a,
                                       attempt |-> 0, reply |-> "none"]]
    BY <1>3 DEF BeginTick
  <2>2. /\ tick'[t].pc = "take" /\ tick'[t].todo = d /\ tick'[t].attempt = 0
        /\ \A u \in Ticks \ {t} : tick'[u] = tick[u]
    BY <2>1 DEF TypeOK
  <2>3. Counting(tick'[t])
    BY <2>2 DEF Counting, DecisionsDistinct
  <2>4. AllCount'
    BY <1>1, <2>2, <2>3
  <2>5. ASSUME NEW k \in Keys PROVE Balanced(k)'
    <3> DEFINE New == {t} \X (1..MaxAttempts)
    <3>1. Left(k)' \subseteq Left(k) \cup New
      BY <2>2 DEF Left
    <3>2. IsFiniteSet(1..MaxAttempts) /\ Cardinality(1..MaxAttempts) = MaxAttempts
      BY ConstantsAssumption, FS_Interval
    <3>3. IsFiniteSet({t}) /\ Cardinality({t}) = 1
      BY FS_Singleton
    <3>4. IsFiniteSet(New) /\ Cardinality(New) = MaxAttempts
      <4>1. 1 * MaxAttempts = MaxAttempts
        BY ConstantsAssumption
      <4>2. /\ IsFiniteSet(New)
            /\ Cardinality(New) = Cardinality({t}) * Cardinality(1..MaxAttempts)
        BY <3>2, <3>3, FS_Product
      <4> QED BY <3>2, <3>3, <4>1, <4>2
    <3>5. IsFiniteSet(Left(k)) /\ Cardinality(Left(k)) \in Nat
      BY LeftFinite
    <3> HIDE DEF New
    <3>6. /\ IsFiniteSet(Left(k) \cup New)
          /\ Cardinality(Left(k) \cup New) <= Cardinality(Left(k)) + MaxAttempts
      <4>1. Cardinality(Left(k) \cap New) \in Nat
        BY <3>5, FS_Intersection, FS_CardinalityType
      <4>2. /\ IsFiniteSet(Left(k) \cup New)
            /\ Cardinality(Left(k) \cup New)
               = Cardinality(Left(k)) + MaxAttempts - Cardinality(Left(k) \cap New)
        BY <3>4, <3>5, FS_Union
      <4> QED BY <3>5, <4>1, <4>2, ConstantsAssumption
    <3>7. /\ Cardinality(Left(k)') <= Cardinality(Left(k) \cup New)
          /\ Cardinality(Left(k)') \in Nat /\ Cardinality(Left(k) \cup New) \in Nat
      BY <3>1, <3>6, FS_Subset, FS_CardinalityType
    <3>8. Sendings(k)' = Sendings(k) /\ Sendings(k) \in Nat
      BY <1>3 DEF BeginTick, Sendings, TypeOK, RemoteOrder
    <3>9. /\ runs \in Nat /\ MaxAttempts \in Nat /\ runs' = runs + 1
      BY <1>3, ConstantsAssumption DEF BeginTick, TypeOK
    <3>10. MaxAttempts * runs' = MaxAttempts * runs + MaxAttempts
      BY <3>9
    <3>11. Balanced(k) /\ MaxAttempts * runs \in Nat
      BY <1>1, <3>9
    <3> QED BY <3>5, <3>6, <3>7, <3>8, <3>9, <3>10, <3>11
  <2> QED BY <2>4, <2>5
<1>4. ASSUME NEW t \in Ticks, TickStep(t)
      PROVE  AllCount' /\ \A k \in Keys : Balanced(k)'
  <2>1. Fewer(t)
    BY <1>1, <1>4, TickFewer
  <2>2. AllCount'
    BY <1>1, <2>1 DEF Fewer
  <2>3. runs' = runs
    BY <1>4 DEF TickStep, LoopStep, TakeOrder, FinishTick, Lookup, RemoteSynced, EnterLoop,
                LookupRaised, PlaceDry, PlaceBlocked, PlaceLive, ExchangeHandles,
                PlaceSucceeds, PlaceFails, GiveUpAttempt, Retry, Notify, Alarm
  <2>4. ASSUME NEW k \in Keys,
               \/ Sendings(k)' <= Sendings(k)
               \/ /\ Sendings(k)' <= Sendings(k) + 1
                  /\ \E e \in Left(k) : e \notin Left(k)'
        PROVE  Balanced(k)'
    <3>1. Left(k)' \subseteq Left(k)
      BY <2>1, LeftShrinks
    <3> QED BY <1>1, <2>3, <2>4, <3>1, BudgetKept
  <2>5. ASSUME NEW k \in Keys, UNCHANGED <<exchange, delayed>>
        PROVE  Balanced(k)'
    BY <2>4, <2>5 DEF Sendings, TypeOK, RemoteOrder
  <2>6. ASSUME NEW k \in Keys,
               At(t, "wait"), tick[t].reply = "none",
               \/ \E r : r # "none" /\ Receive(t, r)
               \/ Goto(t, "recover"),
               \A j \in Keys : Sendings(j)' <= IF j = Current(t) THEN Sendings(j) + 1
                                               ELSE Sendings(j)
        PROVE  Balanced(k)'
    <3>1. CASE k = Current(t)
      <4>1. Counting(tick[t])
        BY <1>1
      <4>2. <<t, tick[t].attempt>> \in Left(k)
        BY <2>6, <3>1, <4>1, AttemptLeft
      <4>3. <<t, tick[t].attempt>> \notin Left(Current(t))'
        BY <2>6, <4>1, AttemptSpent
      <4>4. Current(t)' = Current(t)
        BY <2>6 DEF Current, Receive, Goto, Continue, TypeOK
      <4>5. <<t, tick[t].attempt>> \notin Left(k)'
        BY <3>1, <4>3, <4>4 DEF Left
      <4> QED BY <2>4, <2>6, <3>1, <4>2, <4>5
    <3>2. CASE k # Current(t)
      BY <2>4, <2>6, <3>2
    <3> QED BY <3>1, <3>2
  <2>7. CASE ExchangeHandles(t)
    <3>1. /\ At(t, "wait") /\ tick[t].reply = "none" /\ delayed' = delayed
          /\ \E r : r # "none" /\ Receive(t, r)
          /\ CreateOrder(Current(t)) \/ UNCHANGED exchange
      BY <2>7 DEF ExchangeHandles
    <3>2. Current(t) \in Keys
      BY <3>1, CurrentIsKey DEF At
    <3>3. \A j \in Keys : Sendings(j)' <= IF j = Current(t) THEN Sendings(j) + 1
                                          ELSE Sendings(j)
      <4>1. CASE CreateOrder(Current(t))
        BY <3>1, <3>2, <4>1, Writing DEF Sendings, TypeOK, RemoteOrder
      <4>2. CASE UNCHANGED exchange
        BY <3>1, <4>2 DEF Sendings, TypeOK, RemoteOrder
      <4> QED BY <3>1, <4>1, <4>2
    <3> QED BY <2>2, <2>6, <3>1, <3>3
  <2>8. CASE PlaceFails(t)
    <3>1. CASE UNCHANGED delayed
      BY <2>2, <2>5, <2>8, <3>1 DEF PlaceFails
    <3>2. CASE /\ tick[t].reply = "none"
               /\ delayed' = [delayed EXCEPT ![Current(t)] = @ + 1]
      <4>1. \A j \in Keys : Sendings(j)' <= IF j = Current(t) THEN Sendings(j) + 1
                                            ELSE Sendings(j)
        BY <2>8, <3>2 DEF PlaceFails, Sendings, TypeOK, RemoteOrder
      <4> QED BY <2>2, <2>6, <2>8, <3>2, <4>1 DEF PlaceFails
    <3> QED BY <2>8, <3>1, <3>2 DEF PlaceFails
  <2>9. CASE ~ExchangeHandles(t) /\ ~PlaceFails(t)
    <3>1. UNCHANGED <<exchange, delayed>>
      BY <1>4, <2>9
      DEF TickStep, LoopStep, TakeOrder, FinishTick, Lookup, RemoteSynced, EnterLoop,
          LookupRaised, PlaceDry, PlaceBlocked, PlaceLive, PlaceSucceeds,
          GiveUpAttempt, Retry, Notify, Alarm
    <3> QED BY <2>2, <2>5, <3>1
  <2> QED BY <2>7, <2>8, <2>9
<1>5. ASSUME UNCHANGED <<tick, runs>>, \A k \in Keys : Sendings(k)' <= Sendings(k)
      PROVE  AllCount' /\ \A k \in Keys : Balanced(k)'
  <2>1. \A k : Left(k)' = Left(k)
    BY <1>5 DEF Left
  <2> QED BY <1>1, <1>5, <2>1, BudgetKept
<1>6. ASSUME PatchDryRun \/ UNCHANGED vars
      PROVE  UNCHANGED <<tick, runs>> /\ \A k \in Keys : Sendings(k)' <= Sendings(k)
  BY <1>6 DEF PatchDryRun, vars, Sendings, TypeOK, RemoteOrder
<1>7. ASSUME NEW j \in Keys, RemoteMoves(j)
      PROVE  UNCHANGED <<tick, runs>> /\ \A k \in Keys : Sendings(k)' <= Sendings(k)
  BY <1>7 DEF RemoteMoves, Sendings, TypeOK, RemoteOrder
<1>8. ASSUME NEW j \in Keys, LateArrival(j)
      PROVE  UNCHANGED <<tick, runs>> /\ \A k \in Keys : Sendings(k)' <= Sendings(k)
  <2>1. delayed' = [delayed EXCEPT ![j] = delayed[j] - 1]
    BY <1>8 DEF LateArrival
  <2>2. CASE CreateOrder(j)
    BY <1>8, <2>1, <2>2, Writing DEF LateArrival, Sendings, TypeOK, RemoteOrder
  <2>3. CASE UNCHANGED exchange
    BY <1>8, <2>1, <2>3 DEF LateArrival, Sendings, TypeOK, RemoteOrder
  <2> QED BY <1>8, <2>2, <2>3 DEF LateArrival
<1>9. CASE Crash
  <2>1. PICK S \in SUBSET {t \in Ticks : At(t, "wait") /\ tick[t].reply = "none"} :
          delayed' = [k \in Keys |-> delayed[k]
                        + Cardinality({t \in S : Current(t) = k})]
    BY <1>9 DEF Crash
  <2>2. tick' = [t \in Ticks |-> Idle]
    BY <1>9 DEF Crash
  <2>3. AllCount'
    BY <2>2, IdleCounts
  <2>4. ASSUME NEW k \in Keys PROVE Balanced(k)'
    <3> DEFINE Hit == {t \in S : Current(t) = k}
               spend == [t \in Hit |-> <<t, tick[t].attempt>>]
    <3>1. \A t \in Hit : <<t, tick[t].attempt>> \in Left(k)
      BY <1>1, <2>1, AttemptLeft
    <3>2. spend \in Injection(Hit, Left(k))
      <4>1. spend \in [Hit -> Left(k)]
        BY <3>1
      <4>2. \A t, u \in Hit : spend[t] = spend[u] => t = u
        OBVIOUS
      <4> QED BY <4>1, <4>2 DEF Injection, IsInjective
    <3>3. IsFiniteSet(Left(k)) /\ Cardinality(Left(k)) \in Nat
      BY LeftFinite
    <3>4. IsFiniteSet(Hit) /\ Cardinality(Hit) <= Cardinality(Left(k))
      BY <3>2, <3>3, FS_Injection
    <3>5. Cardinality(Hit) \in Nat
      BY <3>4, FS_CardinalityType
    <3>6. Left(k)' = {}
      BY <2>2, IdleCounts DEF Left
    <3>7. Cardinality(Left(k)') = 0
      BY <3>6, FS_EmptySet
    <3>8. Sendings(k)' = Sendings(k) + Cardinality(Hit) /\ Sendings(k) \in Nat
      BY <1>9, <2>1, <3>5 DEF Crash, Sendings, TypeOK, RemoteOrder
    <3>9. Balanced(k) /\ runs' = runs /\ MaxAttempts * runs \in Nat
      BY <1>1, <1>9, ConstantsAssumption DEF Crash, TypeOK
    <3> HIDE DEF Hit
    <3> QED BY <3>3, <3>4, <3>5, <3>7, <3>8, <3>9
  <2> QED BY <2>3, <2>4
<1> QED BY <1>3, <1>4, <1>5, <1>6, <1>7, <1>8, <1>9 DEF Next, Environment

LEMMA BudgetInit == Init => Budget
<1> SUFFICES ASSUME Init PROVE Budget
  OBVIOUS
<1>1. \A t \in Ticks : tick[t] = Idle
  BY DEF Init
<1>2. ASSUME NEW k \in Keys
      PROVE  Sendings(k) + Cardinality(Left(k)) <= MaxAttempts * runs
  <2>1. Left(k) = {}
    BY <1>1, IdleCounts DEF Left
  <2>2. Cardinality(Left(k)) = 0
    BY <2>1, FS_EmptySet
  <2>3. MaxAttempts * 0 = 0
    BY ConstantsAssumption
  <2> QED BY <2>2, <2>3 DEF Init, Sendings
<1> QED BY <1>1, <1>2, IdleCounts DEF Budget

\* However often answers are lost, requests arrive late, lookups and alerts
\* fail and the process restarts, an order is sent at most so many times as
\* the ticks that have begun have attempts, for every number of ticks at a
\* time (executor_release.py 52-80).
THEOREM CreationBounded ==
  ASSUME DecisionsDistinct PROVE Spec => []BoundedCreation
<1>1. TypeOK /\ Budget => BoundedCreation
  <2> SUFFICES ASSUME TypeOK, Budget, NEW k \in Keys
               PROVE  exchange[k].created + delayed[k] <= MaxAttempts * runs
    BY DEF BoundedCreation
  <2>1. /\ Sendings(k) \in Nat /\ MaxAttempts * runs \in Nat
        /\ Cardinality(Left(k)) \in Nat
    BY ConstantsAssumption, LeftFinite DEF TypeOK, RemoteOrder, Sendings
  <2> QED BY <2>1 DEF Budget, Sendings
<1>2. TypeOK /\ AttemptsLeft /\ Budget /\ [Next]_vars
      => TypeOK' /\ AttemptsLeft' /\ Budget'
  BY NextTypes, BudgetStep
<1> QED BY <1>1, <1>2, InitTypes, BudgetInit, PTL DEF Spec
=============================================================================
