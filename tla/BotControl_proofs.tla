-------------------------- MODULE BotControl_proofs -------------------------
(***************************************************************************)
(* What BotControl promises for every fleet, every set of patches and any  *)
(* number of updates, ticks and restarts.                                  *)
(*                                                                         *)
(* None of the three is inductive.  PatchesStand needs to know what an     *)
(* update in service is about to write; StopTrails that a place the worker *)
(* still has to serve has not been served since its bot was stopped;       *)
(* OneTickPerBot that a tick nobody gave up on is the one the worker       *)
(* awaits.                                                                 *)
(***************************************************************************)
EXTENDS BotControl, WellFoundedInduction, TLAPS

\* An update beside which its bot was not written has the bot, patched.
UpdateInv ==
  \A w \in Writers \ stale : writer[w] # NoBot =>
    writer[w].new = Merge(Current(writer[w].bot), writer[w].patch)

\* What the worker has read is stale, but a place is served once.
TrailInv ==
  /\ \A b \in Bots : Running(b) => trailing[b] = 0
  /\ StopTrails
  /\ \A n \in worker.todo :
       \/ trailing[Fleet[n]] = 0
       \/ worker.pc = "await" /\ n = First(worker.todo)

\* Whose the ticks in service are.
AwaitInv ==
  \A b \in Bots \ orphaned : \A t \in InService(b) :
    worker.pc = "await" /\ worker.request = t /\ Turn = b

-----------------------------------------------------------------------------
(* The operators.                                                          *)

\* The natural numbers are well-ordered, so that a round has a next place.
LEMMA FirstIsPlace ==
  ASSUME NEW places \in SUBSET DOMAIN Fleet, places # {}
  PROVE  First(places) \in places
<1> DEFINE R == {ss \in Nat \X Nat : ss[1] < ss[2]}
<1>1. places \subseteq Nat
  BY ConstantsAssumption
<1>2. IsWellFoundedOn(R, Nat)
  BY NatLessThanWellFounded DEF OpToRel
<1>3. \E x \in places : \A y \in places : ~(<<y, x>> \in R)
  <2> HIDE DEF R
  <2> QED BY <1>1, <1>2, WFMin
<1>4. PICK x \in places : \A y \in places : ~(<<y, x>> \in R)
  BY <1>3
<1>5. ASSUME NEW y \in places PROVE x <= y
  <2>1. ~(<<y, x>> \in R)
    BY <1>4
  <2>2. x \in Nat /\ y \in Nat
    BY <1>1
  <2>3. ~(y < x)
    BY <2>1, <2>2
  <2> QED BY <2>2, <2>3
<1>6. \E n \in places : \A m \in places : n <= m
  BY <1>5
<1> QED BY <1>6 DEF First

\* A bot has its turn.
LEMMA TurnIsBot ==
  ASSUME TypeOK, worker.todo # {}
  PROVE  /\ worker.todo \in SUBSET DOMAIN Fleet
         /\ First(worker.todo) \in worker.todo
         /\ Turn \in Bots
<1>1. worker.todo \in SUBSET DOMAIN Fleet
  BY DEF TypeOK, WorkerState
<1>2. First(worker.todo) \in worker.todo
  BY <1>1, FirstIsPlace
<1>3. \A n \in DOMAIN Fleet : Fleet[n] \in Bots
  BY ConstantsAssumption
<1> QED BY <1>1, <1>2, <1>3 DEF Turn

\* A patch leaves a bot a bot, whichever columns it names.
LEMMA MergeIsBot ==
  ASSUME NEW r \in Bot, NEW p \in Patches
  PROVE  Merge(r, p) \in Bot
<1> DEFINE columns == {"id", "status", "dryRun"}
           value(c) == IF c \in DOMAIN p THEN p[c] ELSE r[c]
<1>1. PICK named \in SUBSET columns, bot \in Bot :
        p = [c \in named |-> bot[c]]
  BY DEF Patches
<1>2. DOMAIN r = columns
  BY DEF Bot
<1>3. /\ value("id") \in Ids /\ value("status") \in {"RUNNING", "STOPPED"}
      /\ value("dryRun") \in BOOLEAN
  BY <1>1 DEF Bot
<1>4. Merge(r, p) = [c \in columns |-> value(c)]
  BY <1>2 DEF Merge
<1>5. [c \in columns |-> value(c)]
      = [id |-> value("id"), status |-> value("status"),
         dryRun |-> value("dryRun")]
  OBVIOUS
<1> HIDE DEF value
<1> QED BY <1>3, <1>4, <1>5 DEF Bot

\* What an update holds, and what it leaves of a row.
LEMMA UpdateTyped ==
  ASSUME TypeOK, NEW w \in Writers, writer[w] # NoBot
  PROVE  /\ writer[w].bot \in Bots /\ writer[w].patch \in Patches
         /\ writer[w].new \in Bot
         /\ \A r \in Row : Written(r, writer[w].new) \in Row
<1>1. /\ writer[w].bot \in Bots /\ writer[w].patch \in Patches
      /\ writer[w].new \in Bot
  BY DEF TypeOK, UpdateState
<1> QED BY <1>1 DEF Bot, Row, Written

-----------------------------------------------------------------------------
(* Types.                                                                  *)

LEMMA TypeInit == Init => TypeOK
<1> SUFFICES ASSUME Init PROVE TypeOK
  OBVIOUS
<1>1. row \in [Bots -> Row]
  BY ConstantsAssumption DEF Init
<1>2. worker \in WorkerState /\ worker.pc # "await"
  BY ConstantsAssumption DEF Init, WorkerState, Asleep
<1> QED
  BY <1>1, <1>2, ConstantsAssumption
  DEF Init, TypeOK, UpdateState, TickState

LEMMA TypeStep == TypeOK /\ [Next]_vars => TypeOK'
<1> SUFFICES ASSUME TypeOK, [Next]_vars PROVE TypeOK'
  OBVIOUS
<1> USE DEF bots, posts
<1>0. /\ ReconcileEvery \in Nat \ {0} /\ MaxFaults \in Nat
      /\ worker.todo \in SUBSET DOMAIN Fleet
      /\ worker.index \in 0..(ReconcileEvery - 1)
      /\ (worker.index + 1) % ReconcileEvery \in 0..(ReconcileEvery - 1)
  BY ConstantsAssumption DEF TypeOK, WorkerState
<1>1. ASSUME NEW w \in Writers, ReadRow(w) PROVE TypeOK'
  <2>1. PICK b \in Bots : \E p \in Edits[b] :
          writer' = [writer EXCEPT ![w] = [pc |-> "merged", bot |-> b,
                       patch |-> p, new |-> Merge(Current(b), p)]]
    BY <1>1 DEF ReadRow
  <2>2. PICK p \in Edits[b] :
          writer' = [writer EXCEPT ![w] = [pc |-> "merged", bot |-> b,
                       patch |-> p, new |-> Merge(Current(b), p)]]
    BY <2>1
  <2>3. p \in Patches
    BY ConstantsAssumption
  <2>4. Current(b) \in Bot
    BY DEF TypeOK, Current, Bot, Row, Ids
  <2>5. Merge(Current(b), p) \in Bot
    BY <2>3, <2>4, MergeIsBot
  <2>6. [pc |-> "merged", bot |-> b, patch |-> p, new |-> Merge(Current(b), p)]
          \in UpdateState
    BY <2>3, <2>5 DEF UpdateState
  <2>7. writer' \in [Writers -> UpdateState]
    BY <2>2, <2>6 DEF TypeOK
  <2> QED BY <1>1, <2>7 DEF ReadRow, TypeOK
<1>2. ASSUME NEW w \in Writers, WriteRow(w) PROVE TypeOK'
  <2>1. \A r \in Row : Written(r, writer[w].new) \in Row
    BY <1>2, UpdateTyped DEF WriteRow
  <2>2. row' \in [Bots -> Row]
    BY <1>2, <2>1 DEF WriteRow, TypeOK
  <2>3. trailing' \in [Bots -> Nat]
    BY <1>2 DEF WriteRow, TypeOK
  <2>4. writer' \in [Writers -> UpdateState] /\ stale' \subseteq Writers
    BY <1>2 DEF WriteRow, TypeOK, UpdateState
  <2> QED BY <1>2, <2>2, <2>3, <2>4 DEF WriteRow, TypeOK
<1>3. ASSUME NEW t \in Ticks, OperatorTick(t) PROVE TypeOK'
  BY <1>3 DEF OperatorTick, Serve, TypeOK, TickState
<1>4. ASSUME NEW t \in Ticks, PostTick(t) PROVE TypeOK'
  <2>1. Turn \in Bots
    BY <1>4, TurnIsBot DEF PostTick
  <2>2. tick' \in [Ticks -> TickState]
    BY <1>4, <2>1 DEF PostTick, Serve, TypeOK, TickState
  <2>3. trailing' \in [Bots -> Nat]
    BY <1>4, <2>1 DEF PostTick, TypeOK
  <2>4. worker' \in WorkerState /\ worker'.todo # {}
    BY <1>0, <1>4 DEF PostTick, WorkerState
  <2> QED BY <1>4, <2>2, <2>3, <2>4 DEF PostTick, TypeOK
<1>5. ASSUME NEW t \in Ticks, EndTick(t) PROVE TypeOK'
  <2>1. worker' \in WorkerState /\ (worker'.pc = "await" => worker'.todo # {})
    BY <1>0, <1>5 DEF EndTick, TypeOK, WorkerState, AfterTurn
  <2>2. tick' \in [Ticks -> TickState] /\ orphaned' \subseteq Bots
    BY <1>5 DEF EndTick, TypeOK, TickState
  <2> QED BY <1>5, <2>1, <2>2 DEF EndTick, TypeOK
<1>6. CASE ReadDashboard
  <2>1. worker' \in WorkerState /\ worker'.pc # "await"
    BY <1>0, <1>6 DEF ReadDashboard, WorkerState
  <2> QED BY <1>6, <2>1 DEF ReadDashboard, TypeOK
<1>7. CASE GiveUp
  <2>1. Turn \in Bots
    BY <1>7, TurnIsBot DEF GiveUp, TypeOK
  <2>2. worker' \in WorkerState /\ worker'.pc # "await"
    BY <1>0, <1>7 DEF GiveUp, Asleep, WorkerState
  <2> QED BY <1>7, <2>1, <2>2 DEF GiveUp, TypeOK
<1>8. CASE FinishRound
  <2>1. worker' \in WorkerState /\ worker'.pc # "await"
    BY <1>0, <1>8 DEF FinishRound, Asleep, TypeOK, WorkerState
  <2> QED BY <1>8, <2>1 DEF FinishRound, TypeOK
<1>9. CASE Reconciled
  <2>1. worker' \in WorkerState /\ worker'.pc # "await"
    BY <1>0, <1>9 DEF Reconciled, Asleep, WorkerState
  <2> QED BY <1>9, <2>1 DEF Reconciled, TypeOK
<1>10. CASE Crash
  <2>1. worker' \in WorkerState /\ (worker'.pc = "await" => worker'.todo # {})
    <3>1. CASE UNCHANGED worker
      BY <3>1 DEF TypeOK
    <3>2. CASE worker' = Asleep(worker.index)
      BY <1>0, <3>2 DEF Asleep, WorkerState
    <3>3. CASE worker' = Asleep((worker.index + 1) % ReconcileEvery)
      BY <1>0, <3>3 DEF Asleep, WorkerState
    <3> QED BY <1>10, <3>1, <3>2, <3>3 DEF Crash
  <2>2. faults' \in 0..MaxFaults
    BY <1>0, <1>10 DEF Crash, TypeOK
  <2> QED BY <1>10, <2>1, <2>2 DEF Crash, TypeOK, UpdateState, TickState
<1>11. CASE RestartWorker
  <2>1. worker.pc = "await" => Turn \in Bots
    BY TurnIsBot DEF TypeOK
  <2>2. worker' \in WorkerState /\ worker'.pc # "await"
    BY <1>0, <1>11 DEF RestartWorker, Asleep, WorkerState
  <2>3. faults' \in 0..MaxFaults
    BY <1>0, <1>11 DEF RestartWorker, TypeOK
  <2> QED BY <1>11, <2>1, <2>2, <2>3 DEF RestartWorker, TypeOK
<1>12. CASE UNCHANGED vars
  BY <1>12 DEF vars, TypeOK
<1>13. CASE DashboardFails
  <2>1. worker' \in WorkerState /\ worker'.pc # "await"
    BY <1>0, <1>13 DEF DashboardFails, Asleep, WorkerState
  <2>2. faults' \in 0..MaxFaults
    BY <1>0, <1>13 DEF DashboardFails, TypeOK
  <2> QED BY <1>13, <2>1, <2>2 DEF DashboardFails, TypeOK
<1> QED
  BY <1>1, <1>2, <1>3, <1>4, <1>5, <1>6, <1>7, <1>8, <1>9, <1>10, <1>11,
     <1>12, <1>13 DEF Next, Round

\* Every variable keeps its type, for every fleet and every set of patches.
THEOREM TypeCorrect == Spec => []TypeOK
  BY TypeInit, TypeStep, PTL DEF Spec

-----------------------------------------------------------------------------
(* Updates.                                                                *)

\* What PatchesStand says of a step.
PatchStands ==
  \A w \in Writers \ stale :
    writer[w] # NoBot /\ writer'[w] = NoBot /\ faults' = faults
    => LET bot == Merge(Current(writer[w].bot), writer[w].patch) IN
       row' = [b \in Bots |->
                 IF b = bot.id
                   THEN [status |-> bot.status, dryRun |-> bot.dryRun]
                   ELSE row[b]]

\* Only a write changes the row of a bot, and it marks whoever has read it.
LEMMA UpdateStep == TypeOK /\ UpdateInv /\ [Next]_vars => UpdateInv'
<1> SUFFICES ASSUME TypeOK, UpdateInv, [Next]_vars PROVE UpdateInv'
  OBVIOUS
<1>1. ASSUME NEW w \in Writers, ReadRow(w) PROVE UpdateInv'
  <2>1. PICK b \in Bots : \E p \in Edits[b] :
          writer' = [writer EXCEPT ![w] = [pc |-> "merged", bot |-> b,
                       patch |-> p, new |-> Merge(Current(b), p)]]
    BY <1>1 DEF ReadRow
  <2>2. PICK p \in Edits[b] :
          writer' = [writer EXCEPT ![w] = [pc |-> "merged", bot |-> b,
                       patch |-> p, new |-> Merge(Current(b), p)]]
    BY <2>1
  <2>3. row' = row /\ stale' = stale
    BY <1>1 DEF ReadRow
  <2>4. ASSUME NEW u \in Writers \ stale', writer'[u] # NoBot
        PROVE  (writer[u].new = Merge(Current(writer[u].bot), writer[u].patch))'
    <3>1. CASE u = w
      <4>1. /\ writer'[u].bot = b /\ writer'[u].patch = p
            /\ writer'[u].new = Merge(Current(b), p)
        BY <2>2, <3>1 DEF TypeOK
      <4> QED BY <2>3, <4>1 DEF Current
    <3>2. CASE u # w
      <4>1. writer'[u] = writer[u]
        BY <2>2, <3>2 DEF TypeOK
      <4>2. writer[u].new = Merge(Current(writer[u].bot), writer[u].patch)
        BY <2>3, <2>4, <4>1 DEF UpdateInv
      <4> QED BY <2>3, <4>1, <4>2 DEF Current
    <3> QED BY <3>1, <3>2
  <2> QED BY <2>4 DEF UpdateInv
<1>2. ASSUME NEW w \in Writers, WriteRow(w) PROVE UpdateInv'
  <2>1. ASSUME NEW u \in Writers \ stale', writer'[u] # NoBot
        PROVE  (writer[u].new = Merge(Current(writer[u].bot), writer[u].patch))'
    <3>1. u # w /\ writer'[u] = writer[u] /\ writer[u] # NoBot
      BY <1>2, <2>1 DEF WriteRow, TypeOK
    <3>2. u \notin stale /\ writer[u].bot # Target(w)
      BY <1>2, <2>1, <3>1 DEF WriteRow
    <3>3. writer[u].bot \in Bots
      BY <3>1, UpdateTyped
    <3>4. row'[writer[u].bot] = row[writer[u].bot]
      BY <1>2, <3>2, <3>3 DEF WriteRow
    <3>5. writer[u].new = Merge(Current(writer[u].bot), writer[u].patch)
      BY <3>1, <3>2 DEF UpdateInv
    <3> QED BY <3>1, <3>4, <3>5 DEF Current
  <2> QED BY <2>1 DEF UpdateInv
<1>3. CASE Crash
  BY <1>3 DEF Crash, UpdateInv
<1>4. ASSUME UNCHANGED bots PROVE UpdateInv'
  BY <1>4 DEF bots, UpdateInv, Current
<1> QED
  BY <1>1, <1>2, <1>3, <1>4
  DEF Next, Round, vars, bots, OperatorTick, PostTick, EndTick, ReadDashboard,
      DashboardFails, GiveUp, FinishRound, Reconciled, RestartWorker

LEMMA PatchStandsStep == TypeOK /\ UpdateInv /\ [Next]_vars => PatchStands
<1> SUFFICES ASSUME TypeOK, UpdateInv, [Next]_vars, NEW w \in Writers \ stale,
                    writer[w] # NoBot, writer'[w] = NoBot, faults' = faults
             PROVE  LET bot == Merge(Current(writer[w].bot), writer[w].patch)
                    IN
                    row' = [b \in Bots |->
                              IF b = bot.id
                                THEN [status |-> bot.status,
                                      dryRun |-> bot.dryRun]
                                ELSE row[b]]
  BY DEF PatchStands
<1>1. ASSUME NEW u \in Writers, ReadRow(u) PROVE FALSE
  BY <1>1 DEF ReadRow, TypeOK, NoBot
<1>2. ~Crash
  BY DEF Crash, TypeOK
<1>3. PICK u \in Writers : WriteRow(u)
  BY <1>1, <1>2
  DEF Next, Round, vars, bots, OperatorTick, PostTick, EndTick, ReadDashboard,
      DashboardFails, GiveUp, FinishRound, Reconciled, RestartWorker
<1>4. u = w
  BY <1>3 DEF WriteRow, TypeOK
<1>5. writer[w].new = Merge(Current(writer[w].bot), writer[w].patch)
  BY DEF UpdateInv
<1> QED BY <1>3, <1>4, <1>5 DEF WriteRow, Written, Target

\* The patch of an update that returns is in force, in the row of the id that
\* it names and in no other, unless its bot was written by another update
\* since it had read it: for every set of patches and any number of updates,
\* of this and other bots, in service.
THEOREM PatchesAlwaysStand == Spec => PatchesStand
<1>1. Init => UpdateInv
  BY DEF Init, UpdateInv
<1>2. TypeOK /\ UpdateInv /\ [Next]_vars => PatchStands
  BY PatchStandsStep
<1> QED BY <1>1, <1>2, TypeInit, TypeStep, UpdateStep, PTL
        DEF Spec, PatchesStand, PatchStands

-----------------------------------------------------------------------------
(* Stops.                                                                  *)

\* No place comes twice, and no other place has the bot of the turn.
LEMMA OtherPlaces ==
  ASSUME TypeOK, worker.todo # {}, NEW n \in AfterTurn
  PROVE  /\ n \in worker.todo /\ n # First(worker.todo)
         /\ Fleet[n] \in Bots /\ Fleet[n] # Turn
<1>1. /\ worker.todo \in SUBSET DOMAIN Fleet
      /\ First(worker.todo) \in worker.todo
  BY TurnIsBot
<1>2. n \in worker.todo /\ n # First(worker.todo)
  BY DEF AfterTurn
<1>3. Fleet[n] # Turn
  BY <1>1, <1>2, ConstantsAssumption DEF Turn
<1> QED BY <1>1, <1>2, <1>3, ConstantsAssumption

LEMMA TrailStep == TypeOK /\ TrailInv /\ [Next]_vars => TrailInv'
<1> SUFFICES ASSUME TypeOK, TrailInv, [Next]_vars PROVE TrailInv'
  OBVIOUS
<1> USE DEF bots, posts
<1>0. worker.todo \in SUBSET DOMAIN Fleet /\ \A n \in DOMAIN Fleet : Fleet[n] \in Bots
  BY ConstantsAssumption DEF TypeOK, WorkerState
<1>1. ASSUME NEW w \in Writers, WriteRow(w) PROVE TrailInv'
  <2>1. worker' = worker
    BY <1>1 DEF WriteRow
  <2>2. \A c \in Bots : trailing'[c] = 0 \/ trailing'[c] = trailing[c]
    BY <1>1 DEF WriteRow
  <2>3. ASSUME NEW c \in Bots, Running(c)' PROVE trailing'[c] = 0
    <3>1. CASE c = Target(w)
      <4>1. writer[w].new.status = "RUNNING"
        BY <1>1, <2>3, <3>1 DEF WriteRow, Written, Running
      <4> QED BY <1>1, <3>1, <4>1 DEF WriteRow
    <3>2. CASE c # Target(w)
      <4>1. Running(c)
        BY <1>1, <2>3, <3>2 DEF WriteRow, Running
      <4> QED BY <2>2, <4>1 DEF TrailInv
    <3> QED BY <3>1, <3>2
  <2>4. StopTrails'
    BY <2>2 DEF TrailInv, StopTrails
  <2>5. \A n \in worker'.todo :
          \/ trailing'[Fleet[n]] = 0
          \/ worker'.pc = "await" /\ n = First(worker'.todo)
    BY <1>0, <2>1, <2>2 DEF TrailInv
  <2> QED BY <2>3, <2>4, <2>5 DEF TrailInv
<1>2. ASSUME NEW t \in Ticks, PostTick(t) PROVE TrailInv'
  <2>1. worker.pc = "serve" /\ worker.todo # {}
    BY <1>2 DEF PostTick
  <2>2. /\ First(worker.todo) \in worker.todo /\ Turn \in Bots
        /\ trailing[Turn] = 0
    BY <2>1, TurnIsBot DEF TrailInv, Turn
  <2>3. /\ trailing' = [trailing EXCEPT ![Turn] =
             IF Running(Turn) THEN @ ELSE @ + 1]
        /\ worker'.pc = "await" /\ worker'.todo = worker.todo
        /\ row' = row
    BY <1>2 DEF PostTick
  <2>4. /\ trailing'[Turn] = IF Running(Turn) THEN 0 ELSE 1
        /\ \A c \in Bots \ {Turn} : trailing'[c] = trailing[c]
    BY <2>2, <2>3 DEF TypeOK
  <2>5. \A c \in Bots : Running(c)' => trailing'[c] = 0
    BY <2>3, <2>4 DEF TrailInv, Running
  <2>6. StopTrails'
    BY <2>4 DEF TrailInv, StopTrails
  <2>7. ASSUME NEW n \in worker'.todo, n # First(worker'.todo)
        PROVE  trailing'[Fleet[n]] = 0
    <3>1. n \in AfterTurn
      BY <2>3, <2>7 DEF AfterTurn
    <3>2. Fleet[n] \in Bots /\ Fleet[n] # Turn
      BY <2>1, <3>1, OtherPlaces
    <3>3. trailing[Fleet[n]] = 0
      BY <2>1, <2>3 DEF TrailInv
    <3> QED BY <2>4, <3>2, <3>3
  <2> QED BY <2>3, <2>5, <2>6, <2>7 DEF TrailInv
<1>3. ASSUME NEW t \in Ticks, EndTick(t) PROVE TrailInv'
  <2>1. trailing' = trailing /\ row' = row
    BY <1>3 DEF EndTick
  <2>2. CASE worker' = worker
    BY <2>1, <2>2 DEF TrailInv, StopTrails, Running
  <2>3. CASE worker' # worker
    <3>1. worker.pc = "await" /\ worker'.todo = AfterTurn
      BY <1>3, <2>3 DEF EndTick
    <3>2. worker.todo # {}
      BY <3>1 DEF TypeOK
    <3>3. \A n \in worker'.todo : trailing'[Fleet[n]] = 0
      BY <2>1, <3>1, <3>2, OtherPlaces DEF TrailInv
    <3> QED BY <2>1, <3>3 DEF TrailInv, StopTrails, Running
  <2> QED BY <2>2, <2>3
<1>4. CASE ReadDashboard
  <2>1. trailing' = trailing /\ row' = row
    BY <1>4 DEF ReadDashboard
  <2>2. \A n \in worker'.todo : trailing[Fleet[n]] = 0
    BY <1>0, <1>4 DEF ReadDashboard, TrailInv
  <2> QED BY <2>1, <2>2 DEF TrailInv, StopTrails, Running
<1>5. ASSUME UNCHANGED <<row, trailing>>,
             worker'.todo = {} \/ worker' = worker
      PROVE  TrailInv'
  BY <1>5 DEF TrailInv, StopTrails, Running
<1>6. CASE GiveUp \/ Reconciled \/ RestartWorker \/ DashboardFails
  <2>1. worker'.todo = {}
    BY <1>6 DEF GiveUp, Reconciled, RestartWorker, DashboardFails, Asleep
  <2> QED
    BY <1>5, <1>6, <2>1 DEF GiveUp, Reconciled, RestartWorker, DashboardFails
<1>7. CASE FinishRound
  <2>1. worker'.todo = {}
    BY <1>7 DEF FinishRound, Asleep, TypeOK, WorkerState
  <2> QED BY <1>5, <1>7, <2>1 DEF FinishRound
<1>8. CASE Crash
  <2>1. worker'.todo = {} \/ worker' = worker
    BY <1>8 DEF Crash, Asleep
  <2> QED BY <1>5, <1>8, <2>1 DEF Crash
<1>9. ASSUME UNCHANGED <<row, trailing, worker>> PROVE TrailInv'
  BY <1>5, <1>9
<1> QED
  BY <1>1, <1>2, <1>3, <1>4, <1>6, <1>7, <1>8, <1>9
  DEF Next, Round, vars, ReadRow, OperatorTick

\* A bot that was stopped is ticked by the worker once more at most: for every
\* fleet, every patch and over any number of time-outs and restarts.
THEOREM StopTrailsByOne == Spec => []StopTrails
<1>1. Init => TrailInv
  BY DEF Init, TrailInv, StopTrails, Asleep
<1>2. TrailInv => StopTrails
  BY DEF TrailInv
<1> QED BY <1>1, <1>2, TypeCorrect, TrailStep, PTL DEF Spec

-----------------------------------------------------------------------------
(* Ticks.                                                                  *)

LEMMA AwaitStep == TypeOK /\ AwaitInv /\ [Next]_vars => AwaitInv'
<1> SUFFICES ASSUME TypeOK, AwaitInv, [Next]_vars PROVE AwaitInv'
  OBVIOUS
<1> USE DEF bots, posts
<1>1. ASSUME NEW t \in Ticks, OperatorTick(t) PROVE AwaitInv'
  <2>1. PICK b \in Bots : Serve(t, b) /\ orphaned' = orphaned \cup {b}
    BY <1>1 DEF OperatorTick
  <2>2. \A c \in Bots \ {b} : InService(c)' = InService(c)
    BY <2>1 DEF Serve, InService, TypeOK
  <2> QED BY <1>1, <2>1, <2>2 DEF OperatorTick, AwaitInv, Turn
<1>2. ASSUME NEW t \in Ticks, PostTick(t) PROVE AwaitInv'
  <2>1. \A b \in Bots \ orphaned : InService(b) = {}
    BY <1>2 DEF PostTick, AwaitInv
  <2>2. /\ tick' = [tick EXCEPT ![t] = [pc |-> "served", bot |-> Turn]]
        /\ worker'.pc = "await" /\ worker'.request = t
        /\ worker'.todo = worker.todo /\ orphaned' = orphaned
    BY <1>2 DEF PostTick, Serve
  <2>3. \A b \in Bots \ orphaned' : \A u \in InService(b)' : u = t /\ b = Turn
    BY <2>1, <2>2 DEF InService, TypeOK
  <2>4. Turn' = Turn
    BY <2>2 DEF Turn
  <2> QED BY <2>2, <2>3, <2>4 DEF AwaitInv
<1>3. ASSUME NEW t \in Ticks, EndTick(t) PROVE AwaitInv'
  <2>1. /\ tick' = [tick EXCEPT ![t] = NoBot]
        /\ orphaned' = IF InService(tick[t].bot) = {t}
                         THEN orphaned \ {tick[t].bot} ELSE orphaned
    BY <1>3 DEF EndTick
  <2>2. \A b \in Bots : InService(b)' = InService(b) \ {t}
    BY <2>1 DEF InService, TypeOK
  <2>3. ASSUME NEW b \in Bots \ orphaned', NEW u \in InService(b)'
        PROVE  worker'.pc = "await" /\ worker'.request = u /\ Turn' = b
    <3>1. u # t /\ u \in InService(b)
      BY <2>2
    <3>2. b \notin orphaned
      BY <2>1, <3>1
    <3>3. worker.pc = "await" /\ worker.request = u /\ Turn = b
      BY <3>1, <3>2 DEF AwaitInv
    <3>4. worker' = worker
      BY <1>3, <3>1, <3>3 DEF EndTick
    <3> QED BY <3>3, <3>4 DEF Turn
  <2> QED BY <2>3 DEF AwaitInv
<1>4. ASSUME tick' = tick, worker.pc # "await", orphaned' = orphaned
      PROVE  AwaitInv'
  BY <1>4 DEF AwaitInv, InService
<1>5. ASSUME tick' = tick, orphaned' = orphaned \cup {Turn}
      PROVE  AwaitInv'
  BY <1>5 DEF AwaitInv, InService
<1>6. CASE Crash
  BY <1>6 DEF Crash, AwaitInv, InService
<1>7. ASSUME UNCHANGED <<tick, orphaned, worker>> PROVE AwaitInv'
  BY <1>7 DEF AwaitInv, InService, Turn
<1>8. CASE RestartWorker
  BY <1>4, <1>5, <1>8 DEF RestartWorker
<1> QED
  BY <1>1, <1>2, <1>3, <1>4, <1>5, <1>6, <1>7, <1>8
  DEF Next, Round, vars, ReadRow, WriteRow, ReadDashboard, DashboardFails,
      GiveUp, FinishRound, Reconciled

\* Two ticks of a bot meet only when an operator posted one or the worker gave
\* up on one: for every number of places for ticks and every restart.
THEOREM OneTickAtATime == Spec => []OneTickPerBot
<1>1. Init => AwaitInv
  BY DEF Init, AwaitInv, InService
<1>2. AwaitInv => OneTickPerBot
  BY DEF AwaitInv, OneTickPerBot
<1> QED BY <1>1, <1>2, TypeCorrect, AwaitStep, PTL DEF Spec
=============================================================================
