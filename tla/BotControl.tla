----------------------------- MODULE BotControl -----------------------------
(***************************************************************************)
(* Bots, the operator who patches and ticks them (api_rc.py, db.py) and    *)
(* the worker that ticks the running ones round after round (worker.py).   *)
(*                                                                         *)
(* update_bot reads a row and writes all of it back, into the row of the   *)
(* id that it holds by then: a patch may name that too.  Its handlers run  *)
(* in a thread pool, so that two of them overlap.  An update whose values  *)
(* are refused, by int, the encoder or the table, changes nothing and is   *)
(* no step.                                                                *)
(*                                                                         *)
(* The worker reads the dashboard once per round and then posts the ticks  *)
(* one after the other, each awaited for 30 s at most; a time-out ends its *)
(* round, and the tick goes on in the API.  What a tick does with its      *)
(* orders is the subject of OrderExecution; here it is in service or not.  *)
(***************************************************************************)
EXTENDS Naturals, Sequences

CONSTANTS
  Bots,            \* rows of the table bots
  Nobody,          \* any other id
  Fleet,           \* the same in the order of list_bots
  Created,         \* the tables the operator may have set up
  Edits,           \* bot -> the patches its operator may send
  Slow,            \* bots whose ticks may take more than 30 s
  Writers,         \* update requests the API may be serving
  Ticks,           \* tick requests the API may be serving
  ReconcileEvery,  \* RECONCILE_EVERY_TICKS
  MaxFaults        \* bound: restarts of the API and of the worker, and
                   \* dashboards that are not read

\* STOPPED stands for DRAFT and PAUSED too: no code tells them apart.
Row == [status : {"RUNNING", "STOPPED"}, dryRun : BOOLEAN]

Ids == Bots \cup {Nobody}

\* What get_bot returns, and the patch is merged into.
Bot == [id : Ids, status : {"RUNNING", "STOPPED"}, dryRun : BOOLEAN]

\* A patch is a dict that names some of the columns, the id among them.
Patches ==
  {[c \in columns |-> bot[c]] :
     columns \in SUBSET {"id", "status", "dryRun"}, bot \in Bot}

ASSUME ConstantsAssumption ==
  /\ Nobody \notin Bots
  /\ Fleet \in Seq(Bots)
  /\ \A m, n \in DOMAIN Fleet : Fleet[m] = Fleet[n] => m = n
  /\ Created \subseteq [Bots -> Row]
  /\ Edits \in [Bots -> SUBSET Patches]
  /\ Slow \subseteq Bots
  /\ ReconcileEvery \in Nat \ {0}
  /\ MaxFaults \in Nat

VARIABLES
  row,        \* table bots
  writer,     \* the updates in service
  tick,       \* the ticks in service: the bot of each
  worker,     \* run_once: where it is, the places in the fleet it still has
              \* to serve, its request, and tick_index modulo ReconcileEvery
  faults,
  \* What the code does not keep, for the properties:
  stale,      \* updates whose bot was written by another since they read it
  orphaned,   \* bots with a tick in service nobody, or an operator, awaits
  trailing    \* the worker's ticks of a bot since it was stopped

vars == <<row, writer, tick, worker, faults, stale, orphaned, trailing>>

bots  == <<row, writer, stale>>
posts == <<tick, orphaned, trailing>>

NoBot == [pc |-> "idle"]

UpdateState ==
  {NoBot} \cup [pc : {"merged"}, bot : Bots, patch : Patches, new : Bot]
TickState == {NoBot} \cup [pc : {"served"}, bot : Bots]

Asleep(i) == [pc |-> "sleep", todo |-> {}, index |-> i]

WorkerState ==
  [pc : {"sleep", "serve", "reconcile"}, todo : SUBSET DOMAIN Fleet,
   index : 0..(ReconcileEvery - 1)]
  \cup [pc : {"await"}, todo : SUBSET DOMAIN Fleet,
        index : 0..(ReconcileEvery - 1), request : Ticks]

TypeOK ==
  /\ row \in [Bots -> Row]
  /\ writer \in [Writers -> UpdateState]
  /\ tick \in [Ticks -> TickState]
  /\ worker \in WorkerState
  /\ worker.pc = "await" => worker.todo # {}
  /\ faults \in 0..MaxFaults
  /\ stale \subseteq Writers /\ orphaned \subseteq Bots
  /\ trailing \in [Bots -> Nat]

Init ==
  /\ row \in Created
  /\ writer = [w \in Writers |-> NoBot]
  /\ tick = [t \in Ticks |-> NoBot]
  /\ worker = Asleep(0)
  /\ faults = 0
  /\ stale = {} /\ orphaned = {}
  /\ trailing = [b \in Bots |-> 0]

-----------------------------------------------------------------------------
(* update_bot.                                                             *)

Running(b) == row[b].status = "RUNNING"

\* Mutant of Merge: the patch is taken for the row.
MergePatchOnly(r, patch) == patch

\* current.update(patch)
Merge(r, patch) ==
  [f \in DOMAIN r |-> IF f \in DOMAIN patch THEN patch[f] ELSE r[f]]

\* Mutant of Written: a column is missing in the UPDATE.
WrittenInPart(old, new) == [old EXCEPT !.status = new.status]

\* The UPDATE sets every column, also those the patch did not name.
Written(old, new) == [status |-> new.status, dryRun |-> new.dryRun]

Current(b) == [id |-> b, status |-> row[b].status, dryRun |-> row[b].dryRun]

\* The row is read and the patch merged into it.
ReadRow(w) ==
  /\ writer[w] = NoBot
  /\ \E b \in Bots : \E p \in Edits[b] :
       writer' = [writer EXCEPT ![w] =
         [pc |-> "merged", bot |-> b, patch |-> p,
          new |-> Merge(Current(b), p)]]
  /\ UNCHANGED <<row, stale, worker, faults, posts>>

\* The row that the UPDATE finds, if there is one.
Target(w) == writer[w].new.id

\* The row is written back.  The last of several that overlap decides.
WriteRow(w) ==
  /\ writer[w] # NoBot
  /\ row' = [b \in Bots |->
       IF b = Target(w) THEN Written(row[b], writer[w].new) ELSE row[b]]
  /\ writer' = [writer EXCEPT ![w] = NoBot]
  /\ stale' = (stale \cup {v \in Writers : writer[v] # NoBot
                                          /\ writer[v].bot = Target(w)}) \ {w}
  /\ trailing' = [b \in Bots |->
       IF b = Target(w) /\ (Running(b) \/ writer[w].new.status = "RUNNING")
         THEN 0 ELSE trailing[b]]
  /\ UNCHANGED <<tick, orphaned, worker, faults>>

-----------------------------------------------------------------------------
(* Ticks.                                                                  *)

\* The bot whose turn it is: the dashboard's order is the fleet's.
First(places) == CHOOSE n \in places : \A m \in places : n <= m
Turn == Fleet[First(worker.todo)]
AfterTurn == worker.todo \ {First(worker.todo)}

InService(b) == {t \in Ticks : tick[t] # NoBot /\ tick[t].bot = b}

Serve(t, b) ==
  /\ tick[t] = NoBot
  /\ tick' = [tick EXCEPT ![t] = [pc |-> "served", bot |-> b]]

\* POST /v1/bots/{bot_id}/tick by the operator; the status is not looked at.
OperatorTick(t) ==
  /\ \E b \in Bots : Serve(t, b) /\ orphaned' = orphaned \cup {b}
  /\ UNCHANGED <<worker, faults, trailing, bots>>

\* The tick returns or raises: the worker does not look at the status code.
EndTick(t) ==
  /\ tick[t] # NoBot
  /\ tick' = [tick EXCEPT ![t] = NoBot]
  /\ orphaned' = IF InService(tick[t].bot) = {t}
                   THEN orphaned \ {tick[t].bot} ELSE orphaned
  /\ worker' = IF worker.pc = "await" /\ worker.request = t
                 THEN [pc |-> "serve", todo |-> AfterTurn,
                       index |-> worker.index]
                 ELSE worker
  /\ UNCHANGED <<faults, trailing, bots>>

-----------------------------------------------------------------------------
(* The worker.                                                             *)

\* Mutant of ReadDashboard: a bot that does not run ends the list.
ReadDashboardBreaks ==
  /\ worker.pc = "sleep"
  /\ worker' = [pc |-> "serve",
                todo |-> {n \in DOMAIN Fleet : \A m \in 1..n : Running(Fleet[m])},
                index |-> (worker.index + 1) % ReconcileEvery]
  /\ UNCHANGED <<faults, bots, posts>>

\* GET /v1/dashboard is not answered, or not in time: the round is over.
DashboardFails ==
  /\ worker.pc = "sleep"
  /\ faults < MaxFaults /\ faults' = faults + 1
  /\ worker' = Asleep((worker.index + 1) % ReconcileEvery)
  /\ UNCHANGED <<bots, posts>>

\* The running bots of GET /v1/dashboard, in its order.
ReadDashboard ==
  /\ worker.pc = "sleep"
  /\ worker' = [pc |-> "serve",
                todo |-> {n \in DOMAIN Fleet : Running(Fleet[n])},
                index |-> (worker.index + 1) % ReconcileEvery]
  /\ UNCHANGED <<faults, bots, posts>>

\* Mutant of PostTick: the answer is not awaited.
PostTickUnawaited(t) ==
  /\ worker.pc = "serve" /\ worker.todo # {}
  /\ Serve(t, Turn)
  /\ trailing' = [trailing EXCEPT ![Turn] = IF Running(Turn) THEN @ ELSE @ + 1]
  /\ worker' = [worker EXCEPT !.todo = AfterTurn]
  /\ UNCHANGED <<faults, orphaned, bots>>

PostTick(t) ==
  /\ worker.pc = "serve" /\ worker.todo # {}
  /\ Serve(t, Turn)
  /\ trailing' = [trailing EXCEPT ![Turn] = IF Running(Turn) THEN @ ELSE @ + 1]
  /\ worker' = [pc |-> "await", todo |-> worker.todo, index |-> worker.index,
                request |-> t]
  /\ UNCHANGED <<faults, orphaned, bots>>

\* Mutant of GiveUp: the tick is posted again.
GiveUpRetries ==
  /\ worker.pc = "await"
  /\ Turn \in Slow
  /\ orphaned' = orphaned \cup {Turn}
  /\ worker' = [pc |-> "serve", todo |-> worker.todo, index |-> worker.index]
  /\ UNCHANGED <<tick, faults, trailing, bots>>

\* The request times out; the exception ends the round.
GiveUp ==
  /\ worker.pc = "await"
  /\ Turn \in Slow
  /\ orphaned' = orphaned \cup {Turn}
  /\ worker' = Asleep(worker.index)
  /\ UNCHANGED <<tick, faults, trailing, bots>>

\* Mutant of FinishRound: the index is compared before it is reduced.
FinishRoundLate ==
  /\ worker.pc = "serve" /\ worker.todo = {}
  /\ worker' = IF worker.index = ReconcileEvery
                 THEN [worker EXCEPT !.pc = "reconcile"]
                 ELSE Asleep(worker.index)
  /\ UNCHANGED <<faults, bots, posts>>

\* All bots are served.
FinishRound ==
  /\ worker.pc = "serve" /\ worker.todo = {}
  /\ worker' = IF worker.index = 0
                 THEN [worker EXCEPT !.pc = "reconcile"]
                 ELSE Asleep(worker.index)
  /\ UNCHANGED <<faults, bots, posts>>

\* POST /v1/reconcile is answered or times out.
Reconciled ==
  /\ worker.pc = "reconcile"
  /\ worker' = Asleep(worker.index)
  /\ UNCHANGED <<faults, bots, posts>>

-----------------------------------------------------------------------------
(* Restarts.                                                               *)

\* The API: its requests are gone.  What the worker waits for raises; it may
\* miss a round, or notice nothing between two requests.
Crash ==
  /\ faults < MaxFaults
  /\ faults' = faults + 1
  /\ writer' = [w \in Writers |-> NoBot]
  /\ tick' = [t \in Ticks |-> NoBot]
  /\ stale' = {} /\ orphaned' = {}
  /\ \/ worker.pc = "serve" /\ UNCHANGED worker
     \/ worker.pc # "sleep" /\ worker' = Asleep(worker.index)
     \/ /\ worker.pc = "sleep"
        /\ worker' \in {worker, Asleep((worker.index + 1) % ReconcileEvery)}
  /\ UNCHANGED <<row, trailing>>

\* The worker: it starts counting anew, its request stays in service.
RestartWorker ==
  /\ faults < MaxFaults
  /\ faults' = faults + 1
  /\ orphaned' = IF worker.pc = "await" THEN orphaned \cup {Turn}
                 ELSE orphaned
  /\ worker' = Asleep(0)
  /\ UNCHANGED <<tick, trailing, bots>>

Round == ReadDashboard \/ DashboardFails \/ GiveUp \/ FinishRound \/ Reconciled

Next ==
  \/ \E w \in Writers : ReadRow(w) \/ WriteRow(w)
  \/ \E t \in Ticks : OperatorTick(t) \/ PostTick(t) \/ EndTick(t)
  \/ Round \/ Crash \/ RestartWorker

Spec == Init /\ [][Next]_vars

\* The worker's loop goes on, and ticks end.  That they do is
\* OrderExecution!TickTerminates, on its premise that no alert hangs in the
\* mail server: one that does freezes the API until a restart.
\* The places for ticks are a bound of the model and not of the server, so
\* the worker gets one again and again: strong fairness.
Fairness ==
  /\ WF_vars(ReadDashboard \/ FinishRound \/ Reconciled)
  /\ SF_vars(\E t \in Ticks : PostTick(t))
  /\ \A t \in Ticks : WF_vars(EndTick(t))

FairSpec == Spec /\ Fairness

-----------------------------------------------------------------------------
(* Properties.                                                             *)

\* The patch of an update that returns is in force in the row of the id that
\* it names, by default its bot's, which is otherwise what its bot was right
\* before; no other row changes.  It does not hold of an update whose bot was
\* written by another between its reading and its writing: that one takes the
\* other's patch back (db.py 112-123).
PatchesStand ==
  [][\A w \in Writers \ stale :
       writer[w] # NoBot /\ writer'[w] = NoBot /\ faults' = faults
       => LET bot == Merge(Current(writer[w].bot), writer[w].patch) IN
          row' = [b \in Bots |->
                    IF b = bot.id
                      THEN [status |-> bot.status, dryRun |-> bot.dryRun]
                      ELSE row[b]]]_vars

\* A bot that was stopped, by whatever patch, is ticked by the worker once
\* more at most, over time-outs, restarts and further patches
\* (worker.py 17-25).
StopTrails == \A b \in Bots : trailing[b] <= 1

\* Two ticks of a bot are in service at once only when an operator posted one
\* or the worker gave up on one: the condition under which
\* OrderExecution!Reliable may assume one tick at a time.
OneTickPerBot ==
  \A b \in Bots \ orphaned : \A t, u \in InService(b) : t = u

\* A running bot has its turn again and again, unless a slow one that runs
\* is served before it.
Behind(b) ==
  \E m, n \in DOMAIN Fleet :
    m < n /\ Fleet[n] = b /\ Fleet[m] \in Slow /\ Running(Fleet[m])

TurnForAll ==
  \A n \in DOMAIN Fleet :
    []<>(\/ ~ Running(Fleet[n]) \/ Behind(Fleet[n])
         \/ worker.pc = "await" /\ Turn = Fleet[n])

\* The worker reconciles again and again once no slow bot runs any more.
ReconcileTurn ==
  <>[](\A b \in Slow : ~ Running(b)) => []<>(worker.pc = "reconcile")
=============================================================================
