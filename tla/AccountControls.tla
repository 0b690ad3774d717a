--------------------------- MODULE AccountControls ---------------------------
(***************************************************************************)
(* The controls of one account (account_controls.py) under the executions  *)
(* of the copy engine that share it (copy_engine.py): the risk budget, the *)
(* token bucket, the circuit breaker and the daily notional.               *)
(*                                                                         *)
(* An execution checks the controls, awaits the exchange, and records how  *)
(* it went.  The event loop runs other executions while one awaits, so a   *)
(* check does not see what is in flight.  Budget and metrics are rows; the *)
(* bucket and the list of failures are memory and are lost on a restart.   *)
(*                                                                         *)
(* Time is counted in beats, Minute of them a minute, on one clock for     *)
(* time.time() and time.monotonic().  Tokens are counted in units of       *)
(* 1/Minute, so that the refill of a beat is the limit per minute.         *)
(*                                                                         *)
(* No number that a signal or the operator sends has its sign checked: a   *)
(* notional and every limit of a budget may be negative.  A notional that  *)
(* is infinite or not a number, which a JSON body can be, is left out.     *)
(***************************************************************************)
EXTENDS Integers, Sequences, FiniteSets, FiniteSetsExt

CONSTANTS
  Slots,          \* executions the engine's semaphore lets run at a time
  Notionals,      \* notionals of the orders that signals ask for
  Slips,          \* does a signal ask for more slippage than the budget has?
  Budgets,        \* rows the operator may give account_risk_budgets
  DefaultBudget,  \* the row that set_account_risk_budget(id, {}) writes
  MaxRate,        \* the largest capacity a bucket gets from Budgets
  Minute,         \* beats in a minute
  Window,         \* beats in the 300 seconds over which failures count
  Day,            \* beats in a day
  Keep,           \* newest failures kept: at least every threshold
  RaisingBroadcasts, \* may the broadcast after a success raise?
  MaxTime,        \* bound: beats
  MaxCrashes      \* bound: restarts

Budget == [maxOrder : Int, maxDaily : Int, limit : Int, threshold : Int,
           breakFor : Int]

\* Mutant of Capacity: a limit of 0 is taken as it is.
CapacityOfLimit(b) == b.limit

\* max(rate_limit_per_minute, 1)
Capacity(b) == IF b.limit > 1 THEN b.limit ELSE 1

ASSUME ConstantsAssumption ==
  /\ IsFiniteSet(Slots)
  /\ Notionals \subseteq Int
  /\ Slips \subseteq BOOLEAN
  /\ Budgets \subseteq Budget
  /\ DefaultBudget \in Budgets
  /\ MaxRate \in Nat
  /\ \A b \in Budgets : Capacity(b) <= MaxRate /\ b.threshold <= Keep
  /\ Minute \in Nat \ {0}
  /\ Window \in Nat
  /\ Day \in Nat \ {0}
  /\ Keep \in Nat \ {0}
  /\ RaisingBroadcasts \in BOOLEAN
  /\ MaxTime \in Nat
  /\ MaxCrashes \in Nat

VARIABLES
  now,
  budget,    \* account_risk_budgets: {} or the one row
  metrics,   \* account_runtime_metrics: {} or the one row
  bucket,    \* _BUCKETS: {} or the one bucket
  failures,  \* _FAILURES: times, the newest Keep of them
  slot,      \* the executions in service
  crashes,
  \* What the code does not count, for the properties:
  since,     \* beat s -> admissions at s or later, of this process
  placed,    \* notional handed to the exchange, without negative ones
  lowered,   \* what charging negative ones took off the daily notional
  today,     \* notional handed over today
  refuseTo,  \* the end of the pause the last failed executions call for
  erred      \* when an execution was last refused or failed

vars == <<now, budget, metrics, bucket, failures, slot, crashes,
          since, placed, lowered, today, refuseTo, erred>>

Beats == 0..MaxTime
Free  == [pc |-> "free", notional |-> 0]

SoundBucket(b) ==
  /\ b \in [capacity : 1..MaxRate, tokens : Nat, at : Beats]
  /\ b.tokens <= b.capacity * Minute
  /\ b.at <= now

TypeOK ==
  /\ now \in Beats
  /\ budget = {} \/ \E b \in Budgets : budget = {b}
  /\ \A m \in metrics : m \in [daily : Int, until : Int]
  /\ \A b \in bucket : SoundBucket(b)
  /\ failures \in Seq(Beats)
  /\ slot \in [Slots -> [pc : {"free", "placing", "announcing"},
                         notional : Notionals \cup {0}]]
  /\ crashes \in 0..MaxCrashes
  /\ since \in [Beats -> Nat]
  /\ {placed, lowered, erred} \subseteq Nat
  /\ {today, refuseTo} \subseteq Int

Init ==
  /\ now = 0
  /\ budget \in {{}} \cup {{b} : b \in Budgets}
  /\ metrics = {}
  /\ bucket = {}
  /\ failures = <<>>
  /\ slot = [s \in Slots |-> Free]
  /\ crashes = 0
  /\ since = [s \in Beats |-> 0]
  /\ placed = 0
  /\ lowered = 0
  /\ today = 0
  /\ refuseTo = 0
  /\ erred = 0

-----------------------------------------------------------------------------
(* The checks of account_can_execute.                                      *)

\* get_account_risk_budget: the row, or the default, which is then stored.
get_account_risk_budget ==
  IF budget = {} THEN DefaultBudget ELSE CHOOSE b \in Budgets : budget = {b}

BreakerOpen == \E m \in metrics : m.until > now

\* Mutant of OverDaily: the order itself is not counted.
OverDailyAlready(n) ==
  \E m \in metrics : m.daily > get_account_risk_budget.maxDaily

\* Without a metrics row the daily budget is not looked at.
OverDaily(n) == \E m \in metrics : m.daily + n > get_account_risk_budget.maxDaily

\* Every check before the token bucket.
Refused(n, slips) ==
  \/ BreakerOpen
  \/ n > get_account_risk_budget.maxOrder
  \/ slips
  \/ OverDaily(n)

\* _bucket_for: a bucket keeps the capacity it was created with.
_bucket_for ==
  IF bucket # {} THEN CHOOSE b \in bucket : TRUE
  ELSE LET c == Capacity(get_account_risk_budget)
       IN [capacity |-> c, tokens |-> c * Minute, at |-> now]

\* Mutant of refill: it is not stamped.
refillUnstamped(b) ==
  LET t == b.tokens + (now - b.at) * b.capacity
  IN [capacity |-> b.capacity, at |-> b.at,
      tokens |-> IF t <= b.capacity * Minute THEN t ELSE b.capacity * Minute]

\* The first half of TokenBucket.allow.
refill(b) ==
  LET t == b.tokens + (now - b.at) * b.capacity
  IN [capacity |-> b.capacity, at |-> now,
      tokens |-> IF t <= b.capacity * Minute THEN t ELSE b.capacity * Minute]

\* The second half: the cost of a request is one token.
spend(b) == [capacity |-> b.capacity, at |-> b.at, tokens |-> b.tokens - Minute]

-----------------------------------------------------------------------------
(* record_account_execution.                                               *)

\* The failures with one more now, and how many of them count.
failuresPlus ==
  LET all == Append(failures, now)
  IN SubSeq(all, IF Len(all) > Keep THEN 2 ELSE 1, Len(all))

Trips(fs, b) ==
  Cardinality({i \in DOMAIN fs : now - fs[i] < Window}) >= b.threshold

Daily == IF metrics = {} THEN 0 ELSE (CHOOSE m \in metrics : TRUE).daily
Until == IF metrics = {} THEN 0 ELSE (CHOOSE m \in metrics : TRUE).until

\* Mutant of RecordSuccess: a success closes the breaker.
RecordSuccessCloses(n) ==
  /\ failures' = <<>>
  /\ metrics' = {[daily |-> Daily + n, until |-> 0]}
  /\ UNCHANGED erred

RecordSuccess(n) ==
  /\ failures' = <<>>
  /\ metrics' = {[daily |-> Daily + n, until |-> Until]}
  /\ UNCHANGED erred

\* Mutant of RecordError: the pause is added to what is left of one.
RecordErrorAddsUp(n) ==
  LET b == get_account_risk_budget IN
  /\ failures' = failuresPlus
  /\ metrics' = {[daily |-> Daily + n,
                  until |-> IF Trips(failuresPlus, b)
                              THEN Max({now, Until}) + b.breakFor ELSE Until]}
  /\ erred' = now

RecordError(n) ==
  LET b == get_account_risk_budget IN
  /\ failures' = failuresPlus
  /\ metrics' = {[daily |-> Daily + n,
                  until |-> IF Trips(failuresPlus, b)
                              THEN now + b.breakFor ELSE Until]}
  /\ erred' = now

-----------------------------------------------------------------------------
(* execute_copy_signal, as far as it touches the controls.                 *)

Positive(n) == IF n > 0 THEN n ELSE 0

\* A refused execution is recorded as an error of notional 0.
Refuse(s) ==
  /\ slot[s].pc = "free"
  /\ \E n \in Notionals, slips \in Slips : Refused(n, slips)
  /\ budget' = {get_account_risk_budget}
  /\ RecordError(0)
  /\ UNCHANGED <<now, bucket, slot, crashes, since, placed, lowered, today, refuseTo>>

\* No token: the bucket is refilled all the same.
Throttle(s) ==
  /\ slot[s].pc = "free"
  /\ \E n \in Notionals, slips \in Slips : ~Refused(n, slips)
  /\ refill(_bucket_for).tokens < Minute
  /\ bucket' = {refill(_bucket_for)}
  /\ budget' = {get_account_risk_budget}
  /\ RecordError(0)
  /\ UNCHANGED <<now, slot, crashes, since, placed, lowered, today, refuseTo>>

\* Every check passes.  Between the check and the try block the account's
\* credentials, the mainnet gate and insert_order may raise: the token is
\* then spent and nothing is recorded.
Admit(s) ==
  /\ slot[s].pc = "free"
  /\ refill(_bucket_for).tokens >= Minute
  /\ bucket' = {spend(refill(_bucket_for))}
  /\ budget' = {get_account_risk_budget}
  /\ since' = [x \in Beats |-> IF x <= now THEN since[x] + 1 ELSE since[x]]
  /\ \E n \in Notionals, slips \in Slips :
       /\ ~Refused(n, slips)
       /\ \/ /\ slot' = [slot EXCEPT ![s] = [pc |-> "placing", notional |-> n]]
             /\ placed' = placed + Positive(n)
             /\ today' = today + n
          \/ UNCHANGED <<slot, placed, today>>
  /\ UNCHANGED <<now, metrics, failures, crashes, lowered, refuseTo, erred>>

Succeed(s) ==
  /\ slot[s].pc = "placing"
  /\ RecordSuccess(slot[s].notional)
  /\ lowered' = lowered + Positive(-slot[s].notional)
  /\ slot' = [slot EXCEPT ![s] = [pc |-> "announcing",
                                  notional |-> slot[s].notional]]
  /\ UNCHANGED <<now, budget, bucket, crashes, since, placed, today, refuseTo>>

\* The except block.  A failure that trips the breaker calls for a pause.
FailWith(s) ==
  /\ RecordError(slot[s].notional)
  /\ lowered' = lowered + Positive(-slot[s].notional)
  /\ refuseTo' = IF Trips(failuresPlus, get_account_risk_budget)
                   THEN now + get_account_risk_budget.breakFor ELSE refuseTo
  /\ slot' = [slot EXCEPT ![s] = Free]
  /\ UNCHANGED <<now, budget, bucket, crashes, since, placed, today>>

Fail(s) == slot[s].pc = "placing" /\ FailWith(s)

\* The broadcast after a success is inside the try: one that raises records
\* the execution a second time, as a failure.
BroadcastRaises(s) ==
  slot[s].pc = "announcing" /\ RaisingBroadcasts /\ FailWith(s)

Announced(s) ==
  /\ slot[s].pc = "announcing"
  /\ slot' = [slot EXCEPT ![s] = Free]
  /\ UNCHANGED <<now, budget, metrics, bucket, failures, crashes,
                 since, placed, lowered, today, refuseTo, erred>>

-----------------------------------------------------------------------------
(* The environment.                                                        *)

\* POST /v1/accounts/{id}/risk-budget
SetBudget ==
  /\ \E b \in Budgets : budget' = {b}
  /\ UNCHANGED <<now, metrics, bucket, failures, slot, crashes,
                 since, placed, lowered, today, refuseTo, erred>>

Beat ==
  /\ now < MaxTime
  /\ now' = now + 1
  /\ today' = IF (now + 1) % Day = 0 THEN 0 ELSE today
  /\ UNCHANGED <<budget, metrics, bucket, failures, slot, crashes,
                 since, placed, lowered, refuseTo, erred>>

\* A restart of the API process: memory is lost, the rows stay.
Crash ==
  /\ crashes < MaxCrashes
  /\ crashes' = crashes + 1
  /\ bucket' = {}
  /\ failures' = <<>>
  /\ slot' = [s \in Slots |-> Free]
  /\ since' = [s \in Beats |-> 0]
  /\ UNCHANGED <<now, budget, metrics, placed, lowered, today, refuseTo, erred>>

Execution(s) ==
  \/ Refuse(s) \/ Throttle(s) \/ Admit(s) \/ Succeed(s) \/ Fail(s)
  \/ BroadcastRaises(s) \/ Announced(s)

Next == (\E s \in Slots : Execution(s)) \/ SetBudget \/ Beat \/ Crash

Spec == Init /\ [][Next]_vars

-----------------------------------------------------------------------------
(* Properties.                                                             *)

\* The token bucket bounds bursts and rate together: in every stretch of
\* time one process admits at most a bucketful plus what the stretch
\* refills, also when refused requests touch the bucket in between.
RateBound ==
  \A s \in Beats :
    s <= now => Minute * since[s] <= MaxRate * (Minute + (now - s))

\* The check does not see what is in flight, so concurrent executions may
\* pass the daily budget, but only by one order per further slot and, for
\* every restart, by what was in flight then.  Beyond that it is passed by
\* what negative notionals have taken off the counter, since nothing checks
\* their sign (account_controls.py 124, 147), and by nothing else.  (For
\* budgets with an order limit within the daily one, the largest of them not
\* negative; o and d are the largest of the budgets.)
DailyOvershoot ==
  LET slots == Cardinality(Slots)
  IN \A o, d \in Budgets :
       /\ 0 <= o.maxOrder
       /\ \A b \in Budgets : /\ b.maxOrder <= b.maxDaily
                             /\ b.maxOrder <= o.maxOrder
                             /\ b.maxDaily <= d.maxDaily
       => placed <= d.maxDaily + lowered
                      + (slots - 1 + crashes * slots) * o.maxOrder

\* While the pause that failed executions call for lasts no execution gets to
\* the exchange: not after a success of one that was in flight, not after a
\* restart, not after refusals.  (For budgets that agree on the length of the
\* pause: an operator who shortens it shortens a running one.)
BreakerProtects ==
  [][\A s \in Slots : slot[s].pc = "free" /\ slot'[s].pc # "free"
                      => now >= refuseTo]_vars

\* Refusals count as failures, those of the open breaker too, so that a
\* steady flow of signals keeps it open (copy_engine.py 67): but pauses do
\* not add up.  However many executions failed or were refused, the account
\* is open again a pause after the last of them.  (For budgets that agree on
\* the length of the pause.)
BreakerLetsGo ==
  \A b \in Budgets : BreakerOpen => now < erred + b.breakFor

\* The daily notional counts the orders of the day
\* (SINGLE_ACCOUNT_FAST_COPY_CN.md 112).
DailyCountsToday == Daily <= today
=============================================================================
