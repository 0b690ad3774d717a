----------------------- MODULE AccountControls_proofs -----------------------
(***************************************************************************)
(* What AccountControls promises for every set of budgets, every number of *)
(* concurrent executions and every horizon.                                *)
(*                                                                         *)
(* RateBound is not inductive: that a stretch of time has admitted little  *)
(* says nothing of how many tokens are left.  RateInv is: what was         *)
(* admitted since s and what the bucket still holds is together no more    *)
(* than a bucketful and the refill from s to the bucket's last update.     *)
(* BreakerProtects rests on BreakerInv: the breaker stays open at least as *)
(* long as the pause, and no pause reaches further than one that would     *)
(* start now.  LetGoInv is its counterpart for BreakerLetsGo.  For         *)
(* DailyOvershoot, DailyInv says that what was handed to the exchange is   *)
(* charged, taken off by negative notionals, in flight, or was in flight   *)
(* at a restart.                                                           *)
(***************************************************************************)
EXTENDS AccountControls, FiniteSetTheorems, TLAPS

BucketType == [capacity : 1..MaxRate, tokens : Nat, at : Beats]

\* What RateBound needs of the bucket b; n[s] counts admissions since s.
RateInvOf(b, n) ==
  \A s \in Beats :
    /\ s <= b.at => Minute * n[s] + b.tokens
                      <= b.capacity * Minute + b.capacity * (b.at - s)
    /\ s > b.at => n[s] = 0

RateInv ==
  /\ bucket = {} => \A s \in Beats : since[s] = 0
  /\ \A b \in bucket : RateInvOf(b, since)

BreakerInv ==
  \/ refuseTo <= now
  \/ /\ refuseTo <= Until
     /\ \A b \in Budgets : refuseTo <= now + b.breakFor

-----------------------------------------------------------------------------
(* The operators.                                                          *)

\* get_account_risk_budget returns a row the operator may have written.
LEMMA BudgetInBudgets ==
  ASSUME TypeOK
  PROVE  get_account_risk_budget \in Budgets
<1>1. CASE budget = {}
  BY <1>1, ConstantsAssumption DEF get_account_risk_budget
<1>2. CASE budget # {}
  <2>1. \E b \in Budgets : budget = {b}
    BY <1>2 DEF TypeOK
  <2> QED BY <1>2, <2>1 DEF get_account_risk_budget
<1> QED BY <1>1, <1>2

\* A capacity is never 0 and never beyond MaxRate.
LEMMA CapacityInRange ==
  ASSUME NEW b \in Budgets
  PROVE  Capacity(b) \in 1..MaxRate
<1>1. b \in Budget /\ Capacity(b) <= MaxRate /\ MaxRate \in Nat
  BY ConstantsAssumption
<1>2. b.limit \in Int
  BY <1>1 DEF Budget
<1> QED BY <1>1, <1>2 DEF Capacity

\* The bucket that allow works on, the stored one or a new one, is sound.
LEMMA BucketForSound ==
  ASSUME TypeOK
  PROVE  SoundBucket(_bucket_for)
<1>1. CASE bucket # {}
  BY <1>1 DEF TypeOK, _bucket_for
<1>2. CASE bucket = {}
  <2> DEFINE c == Capacity(get_account_risk_budget)
  <2>1. c \in 1..MaxRate
    BY BudgetInBudgets, CapacityInRange
  <2>2. _bucket_for = [capacity |-> c, tokens |-> c * Minute, at |-> now]
    BY <1>2 DEF _bucket_for
  <2>3. now \in Beats /\ Minute \in Nat /\ MaxRate \in Nat /\ Beats \subseteq Nat
    BY ConstantsAssumption DEF TypeOK, Beats
  <2> HIDE DEF c
  <2>4. c * Minute \in Nat
    BY <2>1, <2>3
  <2> QED BY <2>1, <2>2, <2>3, <2>4 DEF SoundBucket
<1> QED BY <1>1, <1>2

\* Refilling keeps a bucket sound, stamps it, and adds at most the refill of
\* the time that has passed.
LEMMA RefillSound ==
  ASSUME NEW b, SoundBucket(b), now \in Beats
  PROVE  /\ SoundBucket(refill(b))
         /\ refill(b).capacity = b.capacity
         /\ refill(b).at = now
         /\ refill(b).tokens <= b.tokens + (now - b.at) * b.capacity
         /\ refill(b).tokens <= b.capacity * Minute
<1>1. /\ b.capacity \in 1..MaxRate /\ b.tokens \in Nat
      /\ b.at \in Nat /\ now \in Nat /\ b.at <= now
      /\ b.tokens <= b.capacity * Minute
      /\ Minute \in Nat /\ MaxRate \in Nat
  BY ConstantsAssumption DEF SoundBucket, Beats
<1> DEFINE earned == (now - b.at) * b.capacity
           full   == b.capacity * Minute
           left   == IF b.tokens + earned <= full THEN b.tokens + earned ELSE full
<1>2. earned \in Nat /\ full \in Nat
  BY <1>1
<1>3. refill(b) = [capacity |-> b.capacity, at |-> now, tokens |-> left]
  BY DEF refill
<1>4. b.tokens <= full
  BY <1>1
<1> HIDE DEF earned, full
<1>5. left \in Nat /\ left <= full /\ left <= b.tokens + earned
  BY <1>1, <1>2, <1>4
<1> HIDE DEF left
<1>6. /\ refill(b).capacity = b.capacity
      /\ refill(b).at = now
      /\ refill(b).tokens = left
  BY <1>3
<1>7. refill(b) \in BucketType
  BY <1>1, <1>3, <1>5 DEF BucketType
<1>8. refill(b).tokens <= b.tokens + (now - b.at) * b.capacity
  BY <1>5, <1>6 DEF earned
<1>9. refill(b).tokens <= b.capacity * Minute
  BY <1>5, <1>6 DEF full
<1>10. SoundBucket(refill(b))
  BY <1>1, <1>6, <1>7, <1>9 DEF SoundBucket, BucketType
<1> QED BY <1>6, <1>8, <1>9, <1>10

\* Spending keeps a bucket sound that holds a token.
LEMMA SpendSound ==
  ASSUME NEW b, SoundBucket(b), b.tokens >= Minute
  PROVE  /\ SoundBucket(spend(b))
         /\ spend(b).capacity = b.capacity
         /\ spend(b).at = b.at
         /\ spend(b).tokens = b.tokens - Minute
<1>1. Minute \in Nat /\ b \in BucketType /\ b.tokens <= b.capacity * Minute
      /\ b.at <= now
  BY ConstantsAssumption DEF SoundBucket, BucketType
<1>2. b.tokens - Minute \in Nat /\ b.tokens - Minute <= b.tokens
  BY <1>1 DEF BucketType
<1> DEFINE left == b.tokens - Minute
<1>3. spend(b) = [capacity |-> b.capacity, at |-> b.at, tokens |-> left]
  BY DEF spend
<1>4. left \in Nat /\ left <= b.capacity * Minute
  <2>1. b.capacity \in Nat
    BY <1>1, ConstantsAssumption DEF BucketType
  <2>2. b.capacity * Minute \in Nat /\ b.tokens \in Nat
    BY <1>1, <2>1 DEF BucketType
  <2> QED BY <1>1, <1>2, <2>2
<1> HIDE DEF left
<1>5. spend(b) \in BucketType
  BY <1>1, <1>3, <1>4 DEF BucketType
<1>6. SoundBucket(spend(b))
  BY <1>1, <1>3, <1>4, <1>5 DEF SoundBucket, BucketType
<1> QED BY <1>3, <1>6 DEF left

\* The list of failures stays a list of beats.
LEMMA FailuresPlusType ==
  ASSUME TypeOK
  PROVE  failuresPlus \in Seq(Beats)
<1> DEFINE all == Append(failures, now)
<1>1. all \in Seq(Beats) /\ Len(all) \in Nat /\ Len(all) >= 1
  BY DEF TypeOK
<1>2. failuresPlus = SubSeq(all, IF Len(all) > Keep THEN 2 ELSE 1, Len(all))
  BY DEF failuresPlus
<1>3. Keep >= 1
  BY ConstantsAssumption
<1> HIDE DEF all
<1> QED BY <1>1, <1>2, <1>3

\* The columns read from the metrics row, 0 without a row.
LEMMA MetricsType ==
  ASSUME TypeOK
  PROVE  Daily \in Int /\ Until \in Int
BY DEF TypeOK, Daily, Until

\* The end of the pause that a budget asks for is a number.
LEMMA PauseType ==
  ASSUME TypeOK
  PROVE  now + get_account_risk_budget.breakFor \in Int
<1> DEFINE b == get_account_risk_budget
<1>1. b \in Budget
  BY BudgetInBudgets, ConstantsAssumption
<1> HIDE DEF b
<1>2. b.breakFor \in Int
  BY <1>1 DEF Budget
<1>3. now \in Nat
  BY ConstantsAssumption DEF TypeOK, Beats
<1>4. now + b.breakFor \in Int
  BY <1>2, <1>3
<1> QED BY <1>4 DEF b

\* Recording an error keeps failures and metrics well formed.
LEMMA RecordErrorType ==
  ASSUME TypeOK, NEW n \in Int, RecordError(n)
  PROVE  /\ failures' \in Seq(Beats)
         /\ \A m \in metrics' : m \in [daily : Int, until : Int]
         /\ erred' \in Nat
<1> DEFINE u == IF Trips(failuresPlus, get_account_risk_budget)
                  THEN now + get_account_risk_budget.breakFor ELSE Until
<1>1. metrics' = {[daily |-> Daily + n, until |-> u]}
      /\ failures' = failuresPlus /\ erred' = now
  BY DEF RecordError
<1>2. u \in Int /\ Daily + n \in Int
  BY MetricsType, PauseType
<1> HIDE DEF u
<1>3. erred' \in Nat
  BY <1>1, ConstantsAssumption DEF TypeOK, Beats
<1> QED BY <1>1, <1>2, <1>3, FailuresPlusType

-----------------------------------------------------------------------------
(* Type correctness.                                                       *)

\* The initial rows, bucket and slots have their types.
LEMMA TypeInit == Init => TypeOK
<1> SUFFICES ASSUME Init PROVE TypeOK
  OBVIOUS
<1> USE ConstantsAssumption DEF Init, TypeOK, Beats
<1>1. now \in Beats /\ crashes \in 0..MaxCrashes
  OBVIOUS
<1>2. budget = {} \/ \E b \in Budgets : budget = {b}
  OBVIOUS
<1>3. slot \in [Slots -> [pc : {"free", "placing", "announcing"},
                          notional : Notionals \cup {0}]]
  BY DEF Free
<1>4. since \in [Beats -> Nat] /\ failures \in Seq(Beats)
  OBVIOUS
<1> QED BY <1>1, <1>2, <1>3, <1>4

\* A slot that changes keeps its type.
LEMMA SlotType ==
  ASSUME TypeOK, NEW s \in Slots,
         NEW p \in {"free", "placing", "announcing"},
         NEW n \in Notionals \cup {0},
         slot' = [slot EXCEPT ![s] = [pc |-> p, notional |-> n]]
  PROVE  slot' \in [Slots -> [pc : {"free", "placing", "announcing"},
                              notional : Notionals \cup {0}]]
<1> DEFINE r == [pc |-> p, notional |-> n]
           T == [pc : {"free", "placing", "announcing"},
                 notional : Notionals \cup {0}]
<1>1. r \in T
  OBVIOUS
<1>2. slot' = [slot EXCEPT ![s] = r]
  OBVIOUS
<1>3. slot \in [Slots -> T]
  BY DEF TypeOK
<1> HIDE DEF r, T
<1>4. slot' \in [Slots -> T]
  BY <1>1, <1>2, <1>3
<1> QED BY <1>4 DEF T

\* The notional of a slot is a number.
LEMMA SlotNotional ==
  ASSUME TypeOK, NEW s \in Slots
  PROVE  slot[s].notional \in Notionals \cup {0} /\ slot[s].notional \in Int
<1> DEFINE n == slot[s].notional
<1>1. n \in Notionals \cup {0}
  BY DEF TypeOK
<1>2. \A x \in Notionals : x \in Int
  BY ConstantsAssumption
<1> HIDE DEF n
<1>3. n \in Int
  BY <1>1, <1>2
<1> QED BY <1>1, <1>3 DEF n

\* The part of a number above zero, and that of a sum of a number and what
\* charging it takes off.
LEMMA PositiveType ==
  ASSUME NEW n \in Int
  PROVE  /\ Positive(n) \in Nat /\ Positive(-n) \in Nat
         /\ n + Positive(-n) = Positive(n)
         /\ n > 0 => Positive(n) = n
         /\ ~(n > 0) => Positive(n) = 0
BY DEF Positive

LEMMA LoweredType ==
  ASSUME TypeOK, NEW s \in Slots
  PROVE  lowered + Positive(-slot[s].notional) \in Nat
<1> DEFINE n == slot[s].notional
<1>1. n \in Int
  BY SlotNotional
<1> HIDE DEF n
<1>2. Positive(-n) \in Nat
  BY <1>1, PositiveType
<1>3. lowered \in Nat
  BY DEF TypeOK
<1>4. lowered + Positive(-n) \in Nat
  BY <1>2, <1>3
<1> QED BY <1>4 DEF n

\* The bucket that a request leaves behind is sound.
LEMMA BucketsSound ==
  ASSUME TypeOK
  PROVE  /\ SoundBucket(refill(_bucket_for))
         /\ refill(_bucket_for).tokens >= Minute
              => SoundBucket(spend(refill(_bucket_for)))
<1>1. SoundBucket(refill(_bucket_for))
  BY BucketForSound, RefillSound DEF TypeOK
<1> QED BY <1>1, SpendSound

\* No step of an execution breaks a type, refilled and spent buckets included.
LEMMA TypeExecution ==
  ASSUME TypeOK, NEW s \in Slots, Execution(s)
  PROVE  TypeOK'
<1> USE DEF TypeOK
<1>0. budget' = {get_account_risk_budget}
        => \E b \in Budgets : budget' = {b}
  BY BudgetInBudgets
<1>1. CASE Refuse(s)
  <2>1. /\ failures' \in Seq(Beats)
        /\ \A m \in metrics' : m \in [daily : Int, until : Int]
        /\ erred' \in Nat
    BY <1>1, RecordErrorType DEF Refuse
  <2>2. /\ budget' = {get_account_risk_budget}
        /\ UNCHANGED <<now, bucket, slot, crashes, since, placed, lowered,
                       today, refuseTo>>
    BY <1>1 DEF Refuse
  <2> QED BY <1>0, <2>1, <2>2 DEF SoundBucket
<1>2. CASE Throttle(s)
  <2>1. /\ failures' \in Seq(Beats)
        /\ \A m \in metrics' : m \in [daily : Int, until : Int]
        /\ erred' \in Nat
    BY <1>2, RecordErrorType DEF Throttle
  <2>2. /\ budget' = {get_account_risk_budget}
        /\ UNCHANGED <<now, slot, crashes, since, placed, lowered, today,
                       refuseTo>>
    BY <1>2 DEF Throttle
  <2> DEFINE r == refill(_bucket_for)
  <2>3. bucket' = {r}
    BY <1>2 DEF Throttle
  <2>4. SoundBucket(r)
    BY BucketsSound
  <2> HIDE DEF r
  <2>5. \A b \in bucket' : SoundBucket(b)'
    BY <2>2, <2>3, <2>4 DEF SoundBucket
  <2> QED BY <1>0, <2>1, <2>2, <2>5
<1>3. CASE Admit(s)
  <2> DEFINE r == spend(refill(_bucket_for))
  <2>1. /\ budget' = {get_account_risk_budget}
        /\ bucket' = {r}
        /\ UNCHANGED <<now, metrics, failures, crashes, lowered, refuseTo, erred>>
    BY <1>3 DEF Admit
  <2>2. SoundBucket(r)
    BY <1>3, BucketsSound DEF Admit
  <2> HIDE DEF r
  <2>3. \A b \in bucket' : SoundBucket(b)'
    BY <2>1, <2>2 DEF SoundBucket
  <2>4. since' \in [Beats -> Nat]
    BY <1>3 DEF Admit
  <2>5. PICK n \in Notionals :
          \/ /\ slot' = [slot EXCEPT ![s] = [pc |-> "placing", notional |-> n]]
             /\ placed' = placed + Positive(n)
             /\ today' = today + n
          \/ UNCHANGED <<slot, placed, today>>
    BY <1>3 DEF Admit
  <2>6. slot' \in [Slots -> [pc : {"free", "placing", "announcing"},
                             notional : Notionals \cup {0}]]
    BY <2>5, SlotType
  <2>7. placed' \in Nat /\ today' \in Int
    <3>1. n \in Int /\ Positive(n) \in Nat
      BY ConstantsAssumption, PositiveType
    <3>2. \/ placed' = placed + Positive(n) /\ today' = today + n
          \/ placed' = placed /\ today' = today
      BY <2>5
    <3>3. placed \in Nat /\ today \in Int
      OBVIOUS
    <3> QED BY <3>1, <3>2, <3>3
  <2> QED BY <1>0, <2>1, <2>3, <2>4, <2>6, <2>7
<1>4. CASE Succeed(s)
  <2>1. /\ failures' = <<>>
        /\ metrics' = {[daily |-> Daily + slot[s].notional, until |-> Until]}
    BY <1>4 DEF Succeed, RecordSuccess
  <2>2. Daily + slot[s].notional \in Int /\ Until \in Int
    BY MetricsType, SlotNotional
  <2>3. \A m \in metrics' : m \in [daily : Int, until : Int]
    BY <2>1, <2>2
  <2>4. slot' = [slot EXCEPT ![s] = [pc |-> "announcing",
                                     notional |-> slot[s].notional]]
    BY <1>4 DEF Succeed
  <2>5. slot' \in [Slots -> [pc : {"free", "placing", "announcing"},
                             notional : Notionals \cup {0}]]
    BY <2>4, SlotNotional, SlotType
  <2>6. UNCHANGED <<now, budget, bucket, crashes, since, placed, today,
                    refuseTo, erred>>
    BY <1>4 DEF Succeed, RecordSuccess
  <2>7. failures' \in Seq(Beats)
    BY <2>1
  <2>8. lowered' \in Nat
    BY <1>4, LoweredType DEF Succeed
  <2> QED BY <2>3, <2>5, <2>6, <2>7, <2>8 DEF SoundBucket
<1>5. CASE FailWith(s)
  <2>1. /\ failures' \in Seq(Beats)
        /\ \A m \in metrics' : m \in [daily : Int, until : Int]
        /\ erred' \in Nat
    BY <1>5, SlotNotional, RecordErrorType DEF FailWith
  <2>2. refuseTo' \in Int
    BY <1>5, PauseType DEF FailWith
  <2>3. slot' = [slot EXCEPT ![s] = [pc |-> "free", notional |-> 0]]
    BY <1>5 DEF FailWith, Free
  <2>4. slot' \in [Slots -> [pc : {"free", "placing", "announcing"},
                             notional : Notionals \cup {0}]]
    BY <2>3, SlotType
  <2>5. UNCHANGED <<now, budget, bucket, crashes, since, placed, today>>
    BY <1>5 DEF FailWith
  <2>6. lowered' \in Nat
    BY <1>5, LoweredType DEF FailWith
  <2> QED BY <2>1, <2>2, <2>4, <2>5, <2>6 DEF SoundBucket
<1>6. CASE Announced(s)
  <2>1. slot' = [slot EXCEPT ![s] = [pc |-> "free", notional |-> 0]]
    BY <1>6 DEF Announced, Free
  <2>2. slot' \in [Slots -> [pc : {"free", "placing", "announcing"},
                             notional : Notionals \cup {0}]]
    BY <2>1, SlotType
  <2> QED BY <1>6, <2>2 DEF Announced, SoundBucket
<1> QED
  BY <1>1, <1>2, <1>3, <1>4, <1>5, <1>6 DEF Execution, Fail, BroadcastRaises

\* No step at all does.
LEMMA TypeStep == TypeOK /\ [Next]_vars => TypeOK'
<1> SUFFICES ASSUME TypeOK, [Next]_vars PROVE TypeOK'
  OBVIOUS
<1>1. CASE \E s \in Slots : Execution(s)
  BY <1>1, TypeExecution
<1>2. CASE SetBudget
  BY <1>2 DEF SetBudget, TypeOK, SoundBucket
<1>3. CASE Beat
  <2>1. now' \in Beats /\ now' = now + 1
    BY <1>3, ConstantsAssumption DEF Beat, TypeOK, Beats
  <2>2. today' \in Int
    BY <1>3 DEF Beat, TypeOK
  <2>3. \A b \in bucket : SoundBucket(b)'
    BY <2>1, ConstantsAssumption DEF TypeOK, SoundBucket, Beats
  <2> QED BY <1>3, <2>1, <2>2, <2>3 DEF Beat, TypeOK
<1>4. CASE Crash
  <2>1. slot' \in [Slots -> [pc : {"free", "placing", "announcing"},
                             notional : Notionals \cup {0}]]
    BY <1>4 DEF Crash, Free
  <2>2. since' \in [Beats -> Nat] /\ failures' \in Seq(Beats)
    BY <1>4 DEF Crash
  <2>3. crashes' \in 0..MaxCrashes
    BY <1>4, ConstantsAssumption DEF Crash, TypeOK
  <2> QED BY <1>4, <2>1, <2>2, <2>3 DEF Crash, TypeOK
<1>5. CASE UNCHANGED vars
  BY <1>5 DEF vars, TypeOK, SoundBucket
<1> QED BY <1>1, <1>2, <1>3, <1>4, <1>5 DEF Next

\* Every bucket is within its capacity, every counter a number, whatever the
\* operator, the clock, the exchange and restarts do.
THEOREM TypeCorrect == Spec => []TypeOK
BY TypeInit, TypeStep, PTL DEF Spec

-----------------------------------------------------------------------------
(* The token bucket.                                                       *)

\* Products are taken apart by this lemma alone.
LEMMA Distribute ==
  ASSUME NEW a \in Int, NEW b \in Int, NEW c \in Int
  PROVE  a * (b + c) = a * b + a * c
OBVIOUS

\* A product grows with its first factor.
LEMMA ProductMonotone ==
  ASSUME NEW a \in Nat, NEW b \in Nat, NEW c \in Nat, a <= b
  PROVE  a * c <= b * c /\ a * c \in Nat /\ b * c \in Nat
<1>1. PICK d \in Nat : b = a + d
  <2>1. b - a \in Nat /\ b = a + (b - a)
    OBVIOUS
  <2> QED BY <2>1
<1>2. b * c = a * c + d * c
  BY <1>1
<1>3. a * c \in Nat /\ d * c \in Nat
  BY <1>1
<1> QED BY <1>2, <1>3

\* A bucket just created has nothing to answer for.
LEMMA RateBucketFor ==
  ASSUME TypeOK, RateInv
  PROVE  RateInvOf(_bucket_for, since)
<1>1. CASE bucket # {}
  BY <1>1 DEF RateInv, _bucket_for
<1>2. CASE bucket = {}
  <2> DEFINE c == Capacity(get_account_risk_budget)
  <2>1. c \in Nat
    BY BudgetInBudgets, CapacityInRange, ConstantsAssumption
  <2>2. _bucket_for = [capacity |-> c, tokens |-> c * Minute, at |-> now]
    BY <1>2 DEF _bucket_for
  <2>3. now \in Nat /\ Minute \in Nat /\ Beats \subseteq Nat
    BY ConstantsAssumption DEF TypeOK, Beats
  <2> HIDE DEF c
  <2>4. ASSUME NEW s \in Beats, s <= now
        PROVE  Minute * since[s] + c * Minute <= c * Minute + c * (now - s)
    <3>1. since[s] = 0
      BY <1>2 DEF RateInv
    <3>2. now - s \in Nat
      BY <2>3, <2>4
    <3>3. c * (now - s) \in Nat /\ c * Minute \in Nat /\ Minute * 0 = 0
      BY <2>1, <2>3, <3>2
    <3> QED BY <3>1, <3>3
  <2>5. \A s \in Beats : since[s] = 0
    BY <1>2 DEF RateInv
  <2> QED BY <2>2, <2>4, <2>5 DEF RateInvOf
<1> QED BY <1>1, <1>2

\* A refill adds no more than the time since the last update allows.
LEMMA RateRefill ==
  ASSUME TypeOK, NEW b, SoundBucket(b), RateInvOf(b, since)
  PROVE  \A s \in Beats :
           /\ s <= now => Minute * since[s] + refill(b).tokens
                            <= b.capacity * Minute + b.capacity * (now - s)
           /\ s > now => since[s] = 0
<1> DEFINE r == refill(b).tokens
           c == b.capacity
<1>1. /\ c \in Nat /\ b.tokens \in Nat /\ b.at \in Nat /\ now \in Nat
      /\ b.at <= now /\ Minute \in Nat /\ Beats \subseteq Nat
  BY ConstantsAssumption DEF TypeOK, SoundBucket, Beats
<1>2. /\ r <= b.tokens + (now - b.at) * c
      /\ r <= c * Minute
      /\ r \in Nat
  <2>1. SoundBucket(refill(b))
    BY RefillSound DEF TypeOK
  <2> QED BY <2>1, RefillSound DEF TypeOK, SoundBucket
<1>3. \A s \in Beats :
        /\ s <= b.at => Minute * since[s] + b.tokens
                          <= c * Minute + c * (b.at - s)
        /\ s > b.at => since[s] = 0
  BY DEF RateInvOf
<1>4. \A s \in Beats : since[s] \in Nat
  BY DEF TypeOK
<1> HIDE DEF r, c
<1>5. ASSUME NEW s \in Beats, s <= now
      PROVE  Minute * since[s] + r <= c * Minute + c * (now - s)
  <2> DEFINE e == (now - b.at) * c
             m == Minute * since[s]
             f == c * Minute
  <2>1. s \in Nat /\ m \in Nat /\ f \in Nat /\ e \in Nat
    BY <1>1, <1>4
  <2>2. CASE s <= b.at
    <3>1. c * (now - s) = c * (b.at - s) + e
      <4>1. (b.at - s) \in Int /\ (now - b.at) \in Int /\ c \in Int
        BY <1>1, <2>1
      <4>2. now - s = (b.at - s) + (now - b.at)
        BY <1>1, <2>1
      <4>3. c * ((b.at - s) + (now - b.at)) = c * (b.at - s) + c * (now - b.at)
        BY <4>1, Distribute
      <4>4. c * (now - b.at) = e
        BY <4>1
      <4> QED BY <4>2, <4>3, <4>4
    <3>2. m + b.tokens <= f + c * (b.at - s)
      BY <1>3, <2>2
    <3>3. c * (b.at - s) \in Int
      BY <1>1, <2>1
    <3>4. r <= b.tokens + e /\ r \in Nat
      BY <1>2
    <3> HIDE DEF m, e, f
    <3>5. m + r <= f + c * (now - s)
      BY <1>1, <2>1, <3>1, <3>2, <3>3, <3>4
    <3> QED BY <3>5 DEF m, f
  <2>3. CASE s > b.at
    <3>1. m = 0
      BY <1>1, <1>3, <2>3
    <3>2. now - s \in Nat
      BY <1>1, <1>5, <2>1
    <3>3. c * (now - s) \in Nat
      BY <1>1, <3>2
    <3>4. r <= f /\ r \in Nat
      BY <1>2
    <3> HIDE DEF m, f
    <3>5. m + r <= f + c * (now - s)
      BY <2>1, <3>1, <3>3, <3>4
    <3> QED BY <3>5 DEF m, f
  <2> QED BY <1>1, <2>1, <2>2, <2>3
<1>6. ASSUME NEW s \in Beats, s > now
      PROVE  since[s] = 0
  BY <1>1, <1>3, <1>6
<1> QED BY <1>5, <1>6 DEF r, c

\* An admission pays for itself with a token.
LEMMA RateAdmit ==
  ASSUME TypeOK, RateInv, NEW s \in Slots, Admit(s)
  PROVE  RateInv'
<1> DEFINE b == _bucket_for
           r == refill(b)
<1>1. SoundBucket(b) /\ RateInvOf(b, since)
  BY BucketForSound, RateBucketFor
<1>2. /\ SoundBucket(r) /\ r.at = now /\ r.capacity = b.capacity
      /\ r.tokens >= Minute /\ bucket' = {spend(r)}
  BY <1>1, RefillSound DEF Admit, TypeOK
<1>3. \A x \in Beats :
        /\ x <= now => Minute * since[x] + r.tokens
                         <= b.capacity * Minute + b.capacity * (now - x)
        /\ x > now => since[x] = 0
  BY <1>1, RateRefill
<1>4. /\ spend(r).at = now /\ spend(r).capacity = b.capacity
      /\ spend(r).tokens = r.tokens - Minute
  BY <1>2, SpendSound
<1>5. since' = [x \in Beats |-> IF x <= now THEN since[x] + 1 ELSE since[x]]
  BY DEF Admit
<1>6. /\ r.tokens \in Nat /\ b.capacity \in Nat /\ Minute \in Nat
      /\ now \in Nat /\ Beats \subseteq Nat
      /\ \A x \in Beats : since[x] \in Nat
  <2>1. MaxTime \in Nat /\ MaxRate \in Nat /\ Minute \in Nat
    BY ConstantsAssumption
  <2> QED BY SMTT(30), <1>1, <1>2, <2>1 DEF SoundBucket, TypeOK, Beats
<1> DEFINE t == r.tokens
           c == b.capacity
           q == spend(r)
<1> HIDE DEF b, r
<1>7. ASSUME NEW x \in Beats, x <= now
      PROVE  Minute * since'[x] + (t - Minute) <= c * Minute + c * (now - x)
  <2>1. since'[x] = since[x] + 1
    BY <1>5, <1>7
  <2>2. Minute * (since[x] + 1) = Minute * since[x] + Minute
    BY <1>6
  <2>3. Minute * since[x] + t <= c * Minute + c * (now - x)
    BY <1>3, <1>7
  <2>4. Minute * since[x] \in Nat /\ c * Minute \in Nat /\ c * (now - x) \in Int
    BY <1>6
  <2>5. t \in Nat
    BY <1>6
  <2> HIDE DEF t, c
  <2> QED BY <1>6, <2>1, <2>2, <2>3, <2>4, <2>5
<1>8. ASSUME NEW x \in Beats, x > now
      PROVE  since'[x] = 0
  BY <1>3, <1>5, <1>6, <1>8
<1>9. q.at = now /\ q.capacity = c /\ q.tokens = t - Minute /\ bucket' = {q}
  BY <1>2, <1>4
<1> HIDE DEF q, t, c
<1>10. RateInvOf(q, since')
  BY <1>7, <1>8, <1>9 DEF RateInvOf
<1> QED BY <1>9, <1>10 DEF RateInv

\* A refused request may refill the bucket, and takes nothing.
LEMMA RateThrottle ==
  ASSUME TypeOK, RateInv, NEW s \in Slots, Throttle(s)
  PROVE  RateInv'
<1> DEFINE b == _bucket_for
           r == refill(b)
<1>1. SoundBucket(b) /\ RateInvOf(b, since)
  BY BucketForSound, RateBucketFor
<1>2. r.at = now /\ r.capacity = b.capacity
  BY <1>1, RefillSound DEF TypeOK
<1>3. \A x \in Beats :
        /\ x <= now => Minute * since[x] + r.tokens
                         <= b.capacity * Minute + b.capacity * (now - x)
        /\ x > now => since[x] = 0
  BY <1>1, RateRefill
<1>4. RateInvOf(r, since)
  BY <1>2, <1>3 DEF RateInvOf
<1>5. bucket' = {r} /\ since' = since
  BY DEF Throttle
<1> HIDE DEF r
<1> QED BY <1>4, <1>5 DEF RateInv

\* RateInv is inductive: only an admission, a throttled request and a
\* restart touch the bucket or the count.
LEMMA RateStep == TypeOK /\ RateInv /\ [Next]_vars => RateInv'
<1> SUFFICES ASSUME TypeOK, RateInv, [Next]_vars PROVE RateInv'
  OBVIOUS
<1>1. CASE UNCHANGED <<bucket, since>>
  BY <1>1 DEF RateInv
<1>2. ASSUME NEW s \in Slots, Execution(s)
      PROVE  RateInv'
  <2>1. CASE Admit(s)
    BY <2>1, RateAdmit
  <2>2. CASE Throttle(s)
    BY <2>2, RateThrottle
  <2>3. CASE ~Admit(s) /\ ~Throttle(s)
    BY <1>1, <1>2, <2>3
       DEF Execution, Refuse, Succeed, Fail, FailWith, BroadcastRaises, Announced
  <2> QED BY <2>1, <2>2, <2>3
<1>3. CASE Crash
  BY <1>3 DEF Crash, RateInv
<1>4. CASE SetBudget \/ Beat
  BY <1>1, <1>4 DEF SetBudget, Beat
<1>5. CASE UNCHANGED vars
  BY <1>1, <1>5 DEF vars
<1> QED BY <1>2, <1>3, <1>4, <1>5 DEF Next

\* No bucket, no admission.
LEMMA RateInit == Init => RateInv
BY DEF Init, RateInv

\* A bound for the bucket's capacity is a bound for MaxRate.
LEMMA RateImplies == TypeOK /\ RateInv => RateBound
<1> SUFFICES ASSUME TypeOK, RateInv, NEW s \in Beats, s <= now
             PROVE  Minute * since[s] <= MaxRate * (Minute + (now - s))
  BY DEF RateBound
<1>0. /\ s \in Nat /\ now \in Nat /\ Minute \in Nat /\ MaxRate \in Nat
      /\ since[s] \in Nat
  BY ConstantsAssumption DEF TypeOK, Beats
<1> DEFINE w == Minute + (now - s)
           m == Minute * since[s]
<1>1. w \in Nat /\ MaxRate * w \in Nat
  <2>1. now - s \in Nat
    BY <1>0
  <2> QED BY <1>0, <2>1
<1>2. CASE since[s] = 0
  BY <1>0, <1>1, <1>2
<1>3. CASE since[s] # 0
  <2>1. PICK b \in bucket : SoundBucket(b) /\ RateInvOf(b, since)
    BY <1>3 DEF RateInv, TypeOK
  <2> DEFINE c == b.capacity
             t == b.tokens
             a == b.at
  <2>2. /\ c \in Nat /\ c <= MaxRate /\ t \in Nat /\ a \in Nat /\ a <= now
        /\ b.tokens = t /\ b.at = a /\ b.capacity = c
    BY <1>0, <2>1, ConstantsAssumption DEF SoundBucket, Beats
  <2> HIDE DEF c, t, a
  <2>3. ~(s > a)
    BY <1>3, <2>1, <2>2 DEF RateInvOf
  <2>4. s <= a
    BY <1>0, <2>2, <2>3
  <2>5. m + t <= c * Minute + c * (a - s)
    BY <2>1, <2>2, <2>4 DEF RateInvOf
  <2>6. c * Minute + c * (a - s) <= c * Minute + c * (now - s)
    <3>1. PICK d \in Nat : now - s = (a - s) + d
      <4>1. now - a \in Nat /\ now - s = (a - s) + (now - a)
        BY <1>0, <2>2
      <4> QED BY <4>1
    <3>2. c * (now - s) = c * (a - s) + c * d
      BY <1>0, <2>2, <3>1, Distribute
    <3>3. c * d \in Nat /\ c * (a - s) \in Int /\ c * Minute \in Nat
      BY <1>0, <2>2, <3>1
    <3> QED BY <3>2, <3>3
  <2>7. c * Minute + c * (now - s) = c * w
    BY <1>0, <2>2, Distribute
  <2>8. c * w <= MaxRate * w
    BY <1>0, <1>1, <2>2, ProductMonotone
  <2>9. m \in Nat /\ c * w \in Nat /\ c * (a - s) \in Int /\ c * Minute \in Nat
    BY <1>0, <1>1, <2>2
  <2> HIDE DEF m, w
  <2>10. m <= MaxRate * w
    BY <1>1, <2>2, <2>5, <2>6, <2>7, <2>8, <2>9
  <2> QED BY <2>10 DEF m, w
<1> QED BY <1>2, <1>3

\* Whatever stretch of time one looks at, one process admits no more than a
\* bucketful and the refill: for every budget, horizon and interleaving.
THEOREM RateBounded == Spec => []RateBound
<1>1. Init => TypeOK /\ RateInv
  BY TypeInit, RateInit
<1>2. TypeOK /\ RateInv /\ [Next]_vars => (TypeOK /\ RateInv)'
  BY TypeStep, RateStep
<1> QED BY <1>1, <1>2, RateImplies, PTL DEF Spec

-----------------------------------------------------------------------------
(* The circuit breaker.                                                    *)

\* The budgets agree on how long the breaker stays open.
SamePause == \A b, c \in Budgets : b.breakFor = c.breakFor

\* The columns of a row that has just been written.
LEMMA RowWritten ==
  ASSUME NEW d, NEW u, metrics' = {[daily |-> d, until |-> u]}
  PROVE  Until' = u
<1> DEFINE r == [daily |-> d, until |-> u]
<1>1. metrics' = {r} /\ r.until = u
  OBVIOUS
<1> HIDE DEF r
<1>2. metrics' # {} /\ (CHOOSE m \in metrics' : TRUE) = r
  BY <1>1
<1>3. Until' = (CHOOSE m \in metrics' : TRUE).until
  BY <1>2 DEF Until
<1> QED BY <1>1, <1>2, <1>3

\* What an error writes: a pause from now, or the one there is.
LEMMA ErrorKeepsPause ==
  ASSUME NEW n \in Int, RecordError(n)
  PROVE  Until' = IF Trips(failuresPlus, get_account_risk_budget)
                    THEN now + get_account_risk_budget.breakFor ELSE Until
<1> DEFINE u == IF Trips(failuresPlus, get_account_risk_budget)
                  THEN now + get_account_risk_budget.breakFor ELSE Until
<1>1. metrics' = {[daily |-> Daily + n, until |-> u]}
  BY DEF RecordError
<1> HIDE DEF u
<1>2. Until' = u
  BY <1>1, RowWritten
<1> QED BY <1>2 DEF u

\* A row keeps its until when only the daily notional moves.
LEMMA SuccessKeepsPause ==
  ASSUME NEW n \in Int, RecordSuccess(n)
  PROVE  Until' = Until
<1> DEFINE u == Until
<1>1. metrics' = {[daily |-> Daily + n, until |-> u]}
  BY DEF RecordSuccess
<1> HIDE DEF u
<1>2. Until' = u
  BY <1>1, RowWritten
<1> QED BY <1>2 DEF u

\* No pause has been called for.
LEMMA BreakerInit == Init => BreakerInv
BY DEF Init, BreakerInv

\* An error that calls for no pause leaves that of another one alone, and
\* one that does sets both ends alike.
LEMMA BreakerError ==
  ASSUME SamePause, TypeOK, BreakerInv, NEW n \in Int, RecordError(n),
         now' = now,
         \/ refuseTo' = refuseTo
         \/ /\ Trips(failuresPlus, get_account_risk_budget)
            /\ refuseTo' = now + get_account_risk_budget.breakFor
  PROVE  BreakerInv'
<1> DEFINE g == get_account_risk_budget
           p == now + g.breakFor
<1>1. /\ now \in Int /\ refuseTo \in Int /\ Until \in Int /\ p \in Int
  <2>1. now \in Int
    BY ConstantsAssumption DEF TypeOK, Beats
  <2>2. refuseTo \in Int
    BY DEF TypeOK
  <2>3. Until \in Int /\ p \in Int
    BY MetricsType, PauseType
  <2> QED BY <2>1, <2>2, <2>3
<1>2. Until' = p \/ Until' = Until
  BY ErrorKeepsPause
<1>3. \A b \in Budgets : p = now + b.breakFor
  BY BudgetInBudgets DEF SamePause
<1>4. Trips(failuresPlus, g) => Until' = p
  BY ErrorKeepsPause
<1>5. refuseTo' = refuseTo \/ (refuseTo' = p /\ Until' = p)
  BY <1>4
<1> HIDE DEF p, g
<1>6. CASE refuseTo' = p /\ Until' = p
  BY <1>1, <1>3, <1>6 DEF BreakerInv
<1>7. CASE refuseTo' = refuseTo
  <2>1. CASE refuseTo <= now
    BY <1>7, <2>1 DEF BreakerInv
  <2>2. CASE /\ refuseTo <= Until
             /\ \A b \in Budgets : refuseTo <= now + b.breakFor
    <3>1. refuseTo <= p
      <4>1. \E b \in Budgets : p = now + b.breakFor
        BY <1>3, ConstantsAssumption
      <4> QED BY <2>2, <4>1
    <3>2. refuseTo <= Until'
      BY <1>2, <2>2, <3>1
    <3> QED BY <1>7, <2>2, <3>2 DEF BreakerInv
  <2> QED BY <2>1, <2>2 DEF BreakerInv
<1> QED BY <1>5, <1>6, <1>7

\* BreakerInv is inductive when the budgets agree on the pause.
LEMMA BreakerStep ==
  ASSUME SamePause, TypeOK, BreakerInv, [Next]_vars
  PROVE  BreakerInv'
<1>0. \A b \in Budgets : b.breakFor \in Int
  BY ConstantsAssumption DEF Budget
<1>1. now \in Nat /\ refuseTo \in Int /\ Until \in Int
  <2>1. now \in Nat
    BY ConstantsAssumption DEF TypeOK, Beats
  <2>2. refuseTo \in Int
    BY DEF TypeOK
  <2> QED BY <2>1, <2>2, MetricsType
<1>2. CASE UNCHANGED <<now, metrics, refuseTo>>
  BY <1>2 DEF BreakerInv, Until
<1>3. ASSUME NEW s \in Slots, Execution(s)
      PROVE  BreakerInv'
  <2>1. CASE Refuse(s) \/ Throttle(s)
    BY <2>1, BreakerError DEF Refuse, Throttle
  <2>2. CASE Admit(s) \/ Announced(s)
    BY <1>2, <2>2 DEF Admit, Announced
  <2>3. CASE Succeed(s)
    <3>1. Until' = Until
      BY <2>3, SuccessKeepsPause, SlotNotional DEF Succeed
    <3> QED BY <2>3, <3>1 DEF Succeed, BreakerInv
  <2>4. CASE FailWith(s)
    <3>1. /\ RecordError(slot[s].notional) /\ now' = now
          /\ \/ refuseTo' = refuseTo
             \/ /\ Trips(failuresPlus, get_account_risk_budget)
                /\ refuseTo' = now + get_account_risk_budget.breakFor
      BY <2>4 DEF FailWith
    <3> QED BY <3>1, SlotNotional, BreakerError
  <2> QED
    BY <1>3, <2>1, <2>2, <2>3, <2>4 DEF Execution, Fail, BroadcastRaises
<1>4. CASE Beat
  <2>1. now' = now + 1 /\ UNCHANGED <<metrics, refuseTo>>
    BY <1>4 DEF Beat
  <2>2. Until' = Until
    BY <2>1 DEF Until
  <2> QED BY <1>0, <1>1, <2>1, <2>2 DEF BreakerInv
<1>5. CASE SetBudget \/ Crash
  BY <1>2, <1>5 DEF SetBudget, Crash
<1>6. CASE UNCHANGED vars
  BY <1>2, <1>6 DEF vars
<1> QED BY <1>3, <1>4, <1>5, <1>6 DEF Next

\* Only an admission gives a free slot an order, and only when the breaker is
\* closed.
LEMMA AdmissionWaits ==
  ASSUME TypeOK, BreakerInv, [Next]_vars,
         NEW s \in Slots, slot[s].pc = "free", slot'[s].pc # "free"
  PROVE  now >= refuseTo
<1>1. CASE \E u \in Slots : Admit(u)
  <2>1. \A m \in metrics : ~(m.until > now)
    BY <1>1 DEF Admit, Refused, BreakerOpen
  <2>2. now \in Nat /\ refuseTo \in Int /\ Until \in Int
    <3>1. now \in Nat
      BY ConstantsAssumption DEF TypeOK, Beats
    <3>2. refuseTo \in Int
      BY DEF TypeOK
    <3> QED BY <3>1, <3>2, MetricsType
  <2>3. Until <= now
    <3>1. CASE metrics = {}
      BY <2>2, <3>1 DEF Until
    <3>2. CASE metrics # {}
      <4>1. PICK m \in metrics : Until = m.until
        BY <3>2 DEF Until
      <4>2. ~(Until > now)
        BY <2>1, <4>1
      <4> QED BY <2>2, <4>2
    <3> QED BY <3>1, <3>2
  <2> QED BY <2>2, <2>3 DEF BreakerInv
<1>2. CASE ~ \E u \in Slots : Admit(u)
  <2>1. ASSUME NEW u \in Slots, Execution(u)
        PROVE  slot'[s].pc = "free"
    <3>1. CASE slot' = slot
      BY <3>1
    <3>2. CASE /\ slot[u].pc # "free"
               /\ \E e : slot' = [slot EXCEPT ![u] = e]
      BY <3>2 DEF TypeOK
    <3> QED BY <1>2, <2>1, <3>1, <3>2
            DEF Execution, Refuse, Throttle, Succeed, Fail, FailWith,
                BroadcastRaises, Announced
  <2>2. CASE SetBudget \/ Beat \/ UNCHANGED vars
    BY <2>2 DEF SetBudget, Beat, vars
  <2>3. CASE Crash
    BY <2>3 DEF Crash, Free
  <2> QED BY <2>1, <2>2, <2>3 DEF Next
<1> QED BY <1>1, <1>2

\* The breaker protects the account across concurrent successes, refusals
\* and restarts, for budgets that agree on the pause.
THEOREM BreakerProtected ==
  ASSUME SamePause
  PROVE  Spec => BreakerProtects
<1>1. Init => TypeOK /\ BreakerInv
  BY TypeInit, BreakerInit
<1>2. TypeOK /\ BreakerInv /\ [Next]_vars => (TypeOK /\ BreakerInv)'
  BY TypeStep, BreakerStep
<1>3. TypeOK /\ BreakerInv /\ [Next]_vars
        => [\A s \in Slots : slot[s].pc = "free" /\ slot'[s].pc # "free"
                             => now >= refuseTo]_vars
  BY AdmissionWaits
<1> QED BY <1>1, <1>2, <1>3, PTL DEF Spec, BreakerProtects

-----------------------------------------------------------------------------
(* The end of a pause.                                                     *)

\* No pause reaches further than one from the last error.
LetGoInv ==
  /\ erred <= now
  /\ \A m \in metrics :
       m.until <= 0 \/ \A b \in Budgets : m.until <= erred + b.breakFor

\* The numbers of the columns and of the budgets.
LEMMA PauseNumbers ==
  ASSUME TypeOK
  PROVE  /\ now \in Nat /\ erred \in Nat /\ Until \in Int
         /\ \A b \in Budgets : b.breakFor \in Int
         /\ \A m \in metrics : m.until \in Int
<1>1. \A m \in metrics : m.until \in Int
  BY DEF TypeOK
<1>2. \A b \in Budgets : b.breakFor \in Int
  BY ConstantsAssumption DEF Budget
<1> QED BY <1>1, <1>2, MetricsType, ConstantsAssumption DEF TypeOK, Beats

\* An error restarts the clock of the pause and never adds to it.
LEMMA ErrorLetsGo ==
  ASSUME SamePause, TypeOK, LetGoInv, NEW n \in Int, RecordError(n), now' = now
  PROVE  LetGoInv'
<1> DEFINE g == get_account_risk_budget
           p == now + g.breakFor
           u == IF Trips(failuresPlus, g) THEN p ELSE Until
<1>1. g \in Budgets
  BY BudgetInBudgets
<1>2. /\ metrics' = {[daily |-> Daily + n, until |-> u]}
      /\ erred' = now
  BY DEF RecordError
<1>3. \A b \in Budgets : p <= now + b.breakFor
  <2>1. \A b \in Budgets : b.breakFor = g.breakFor /\ b.breakFor \in Int
    BY <1>1, PauseNumbers DEF SamePause
  <2> QED BY <2>1, PauseNumbers
<1>4. Until <= 0 \/ \A b \in Budgets : Until <= now + b.breakFor
  <2>1. CASE metrics = {}
    BY <2>1, PauseNumbers DEF Until
  <2>2. CASE metrics # {}
    <3>1. PICK m \in metrics : Until = m.until
      BY <2>2 DEF Until
    <3> QED BY <3>1, PauseNumbers DEF LetGoInv
  <2> QED BY <2>1, <2>2
<1> HIDE DEF p
<1>5. u <= 0 \/ \A b \in Budgets : u <= now + b.breakFor
  BY <1>3, <1>4
<1> HIDE DEF u
<1>6. \A m \in metrics' : m.until = u
  BY <1>2
<1> QED BY <1>2, <1>5, <1>6, PauseNumbers DEF LetGoInv

\* LetGoInv is inductive when the budgets agree on the pause.
LEMMA LetGoStep ==
  ASSUME SamePause, TypeOK, LetGoInv, [Next]_vars
  PROVE  LetGoInv'
<1>1. CASE UNCHANGED <<now, metrics, erred>>
  BY <1>1 DEF LetGoInv
<1>2. ASSUME NEW s \in Slots, Execution(s)
      PROVE  LetGoInv'
  <2>1. CASE Refuse(s) \/ Throttle(s)
    BY <2>1, ErrorLetsGo DEF Refuse, Throttle
  <2>2. CASE Admit(s) \/ Announced(s)
    BY <1>1, <2>2 DEF Admit, Announced
  <2>3. CASE Succeed(s)
    <3>1. /\ metrics' = {[daily |-> Daily + slot[s].notional, until |-> Until]}
          /\ UNCHANGED <<now, erred>>
      BY <2>3 DEF Succeed, RecordSuccess
    <3> DEFINE u == Until
    <3>2. u <= 0 \/ \A b \in Budgets : u <= erred + b.breakFor
      <4>1. CASE metrics = {}
        BY <4>1, PauseNumbers DEF Until
      <4>2. CASE metrics # {}
        <5>1. PICK m \in metrics : Until = m.until
          BY <4>2 DEF Until
        <5> QED BY <5>1 DEF LetGoInv
      <4> QED BY <4>1, <4>2
    <3>3. metrics' = {[daily |-> Daily + slot[s].notional, until |-> u]}
      BY <3>1
    <3> HIDE DEF u
    <3>4. \A m \in metrics' : m.until = u
      BY <3>3
    <3> QED BY <3>1, <3>2, <3>4 DEF LetGoInv
  <2>4. CASE Fail(s) \/ BroadcastRaises(s)
    <3>1. RecordError(slot[s].notional) /\ now' = now
      BY <2>4 DEF Fail, BroadcastRaises, FailWith
    <3> QED BY <3>1, ErrorLetsGo, SlotNotional
  <2> QED BY <1>2, <2>1, <2>2, <2>3, <2>4 DEF Execution
<1>3. CASE Beat
  <2>1. now' = now + 1 /\ UNCHANGED <<metrics, erred>>
    BY <1>3 DEF Beat
  <2> QED BY <2>1, PauseNumbers DEF LetGoInv
<1>4. CASE SetBudget \/ Crash
  BY <1>1, <1>4 DEF SetBudget, Crash
<1>5. CASE UNCHANGED vars
  BY <1>1, <1>5 DEF vars
<1> QED BY <1>2, <1>3, <1>4, <1>5 DEF Next

\* An account that is left alone opens again: no number of failures and
\* refusals makes the breaker reach further than a pause from the last of
\* them, for budgets that agree on the pause.
THEOREM BreakerAlwaysLetsGo ==
  ASSUME SamePause
  PROVE  Spec => []BreakerLetsGo
<1>1. Init => TypeOK /\ LetGoInv
  <2>1. Init => LetGoInv
    BY DEF Init, LetGoInv
  <2> QED BY <2>1, TypeInit
<1>2. TypeOK /\ LetGoInv /\ [Next]_vars => (TypeOK /\ LetGoInv)'
  BY TypeStep, LetGoStep
<1>3. TypeOK /\ LetGoInv => BreakerLetsGo
  <2> SUFFICES ASSUME TypeOK, LetGoInv, NEW b \in Budgets, NEW m \in metrics,
                      m.until > now
               PROVE  now < erred + b.breakFor
    BY DEF BreakerLetsGo, BreakerOpen
  <2> QED BY PauseNumbers DEF LetGoInv
<1> QED BY <1>1, <1>2, <1>3, PTL DEF Spec

-----------------------------------------------------------------------------
(* The daily budget.  Notionals in flight are counted as a set of units,   *)
(* one pair for each of them, so that they add up to a cardinality.        *)

Units(f, max) ==
  {e \in Slots \X (1..max) : f[e[1]].pc = "placing" /\ e[2] <= f[e[1]].notional}

\* What is handed over is charged, in flight, or was in flight at a restart.
DailyInvOf(max) ==
  /\ \A s \in Slots : slot[s].pc = "placing" => slot[s].notional <= max
  /\ placed <= Daily + lowered + Cardinality(Units(slot, max))
                + crashes * (Cardinality(Slots) * max)

\* o and d have the largest limits of all budgets.
Largest(o, d) ==
  /\ o \in Budgets /\ d \in Budgets /\ 0 <= o.maxOrder
  /\ \A b \in Budgets : /\ b.maxOrder <= b.maxDaily
                       /\ b.maxOrder <= o.maxOrder /\ b.maxDaily <= d.maxDaily

DailyInv ==
  /\ \A o, d \in Budgets : Largest(o, d) => DailyInvOf(o.maxOrder)
  /\ DailyOvershoot

\* Slots times the units of an order.
LEMMA AllUnits ==
  ASSUME NEW S \in SUBSET Slots, NEW max \in Nat
  PROVE  /\ IsFiniteSet(S \X (1..max))
         /\ Cardinality(S \X (1..max)) = Cardinality(S) * max
         /\ Cardinality(S) \in Nat
<1>1. IsFiniteSet(S) /\ Cardinality(S) \in Nat
  BY FS_Subset, FS_CardinalityType, ConstantsAssumption
<1>2. IsFiniteSet(1..max) /\ Cardinality(1..max) = max
  BY FS_Interval
<1> QED BY <1>1, <1>2, FS_Product

LEMMA UnitsFinite ==
  ASSUME NEW f, NEW max \in Nat
  PROVE  IsFiniteSet(Units(f, max)) /\ Cardinality(Units(f, max)) \in Nat
<1>1. Units(f, max) \subseteq Slots \X (1..max)
  BY DEF Units
<1> QED BY <1>1, AllUnits, FS_Subset, FS_CardinalityType

\* An execution that is admitted with a notional of n adds n units.
LEMMA UnitsJoin ==
  ASSUME NEW f, NEW g, NEW s \in Slots, NEW max \in Nat, NEW n \in Nat,
         n <= max, f[s].pc # "placing", g[s].pc = "placing", g[s].notional = n,
         \A u \in Slots \ {s} : f[u] = g[u]
  PROVE  Cardinality(Units(g, max)) = Cardinality(Units(f, max)) + n
<1> DEFINE new == {s} \X (1..n)
<1>1. IsFiniteSet(new) /\ Cardinality(new) = n
  <2>1. IsFiniteSet({s}) /\ Cardinality({s}) = 1
    BY FS_Singleton
  <2>2. IsFiniteSet(1..n) /\ Cardinality(1..n) = n
    BY FS_Interval
  <2>3. IsFiniteSet(new) /\ Cardinality(new) = Cardinality({s}) * Cardinality(1..n)
    BY <2>1, <2>2, FS_Product, Zenon
  <2> QED BY <2>1, <2>2, <2>3
<1>2. Units(g, max) = Units(f, max) \cup new
  BY DEF Units
<1>3. Units(f, max) \cap new = {}
  BY DEF Units
<1> HIDE DEF new
<1>4. Cardinality(Units(f, max) \cup new)
        = Cardinality(Units(f, max)) + Cardinality(new)
            - Cardinality(Units(f, max) \cap new)
  <2>1. IsFiniteSet(Units(f, max))
    BY UnitsFinite
  <2> QED BY <1>1, <2>1, FS_Union, Zenon
<1>5. Cardinality({}) = 0
  BY FS_EmptySet
<1>6. Cardinality(Units(f, max)) \in Nat
  BY UnitsFinite
<1>7. Cardinality(Units(g, max)) = Cardinality(Units(f, max)) + n - 0
  BY <1>1, <1>2, <1>3, <1>4, <1>5
<1> QED BY <1>6, <1>7

\* With a slot free, the others have room for an order each.
LEMMA UnitsBounded ==
  ASSUME NEW f, NEW s \in Slots, NEW max \in Nat, f[s].pc # "placing"
  PROVE  Cardinality(Units(f, max)) <= (Cardinality(Slots) - 1) * max
<1>1. Units(f, max) \subseteq (Slots \ {s}) \X (1..max)
  BY DEF Units
<1>2. Cardinality(Slots \ {s}) = Cardinality(Slots) - 1
  BY FS_RemoveElement, ConstantsAssumption
<1>3. /\ IsFiniteSet((Slots \ {s}) \X (1..max))
      /\ Cardinality((Slots \ {s}) \X (1..max)) = Cardinality(Slots \ {s}) * max
  BY AllUnits
<1>4. Cardinality(Units(f, max)) <= Cardinality((Slots \ {s}) \X (1..max))
  BY <1>1, <1>3, FS_Subset
<1> QED BY <1>2, <1>3, <1>4

\* The daily column of a row that has just been written.
LEMMA DailyWritten ==
  ASSUME NEW d, NEW u, metrics' = {[daily |-> d, until |-> u]}
  PROVE  Daily' = d
<1> DEFINE r == [daily |-> d, until |-> u]
<1>1. metrics' = {r} /\ r.daily = d
  OBVIOUS
<1> HIDE DEF r
<1>2. metrics' # {} /\ (CHOOSE m \in metrics' : TRUE) = r
  BY <1>1
<1>3. Daily' = (CHOOSE m \in metrics' : TRUE).daily
  BY <1>2 DEF Daily
<1> QED BY <1>1, <1>2, <1>3

\* Every outcome of an execution is charged, whether it trips the breaker or
\* not.
LEMMA OutcomeCharged ==
  ASSUME TypeOK, NEW n \in Int, RecordError(n) \/ RecordSuccess(n)
  PROVE  Daily' = Daily + n
<1>1. PICK u : metrics' = {[daily |-> Daily + n, until |-> u]}
  BY DEF RecordError, RecordSuccess
<1> DEFINE d == Daily + n
<1>2. metrics' = {[daily |-> d, until |-> u]}
  BY <1>1
<1> HIDE DEF d
<1>3. Daily' = d
  BY <1>2, DailyWritten
<1> QED BY <1>3 DEF d

\* The numbers of the daily budget.
LEMMA DailyNumbers ==
  ASSUME TypeOK, NEW b \in Budgets
  PROVE  /\ b.maxOrder \in Int /\ b.maxDaily \in Int
         /\ Cardinality(Slots) \in Nat /\ lowered \in Nat
         /\ placed \in Nat /\ crashes \in Nat /\ Daily \in Int
<1>1. b \in Budget
  BY ConstantsAssumption
<1>2. Cardinality(Slots) \in Nat
  BY ConstantsAssumption, FS_CardinalityType
<1>3. crashes \in Nat
  BY ConstantsAssumption DEF TypeOK
<1> QED BY <1>1, <1>2, <1>3, MetricsType DEF Budget, TypeOK

\* An admitted notional is within the largest order limit, and with what is
\* charged within the largest daily one.
LEMMA AdmittedFits ==
  ASSUME TypeOK, NEW o, NEW d, Largest(o, d), NEW n \in Int, NEW slips,
         ~Refused(n, slips)
  PROVE  n <= o.maxOrder /\ Daily + n <= d.maxDaily
<1> DEFINE g == get_account_risk_budget
<1>1. g \in Budgets /\ o \in Budgets /\ d \in Budgets
  BY BudgetInBudgets DEF Largest
<1>2. /\ g.maxOrder \in Int /\ g.maxDaily \in Int
      /\ o.maxOrder \in Int /\ d.maxDaily \in Int /\ Daily \in Int
  BY <1>1, DailyNumbers
<1>3. /\ g.maxOrder <= o.maxOrder /\ g.maxDaily <= d.maxDaily
      /\ g.maxOrder <= g.maxDaily
  BY <1>1 DEF Largest
<1>4. n <= g.maxOrder
  BY <1>2 DEF Refused
<1>5. Daily + n <= g.maxDaily
  <2>1. CASE metrics = {}
    <3>1. Daily = 0
      BY <2>1 DEF Daily
    <3> QED BY <1>2, <1>3, <1>4, <3>1
  <2>2. CASE metrics # {}
    <3>1. PICK m \in metrics : Daily = m.daily
      BY <2>2 DEF Daily
    <3>2. ~(Daily + n > g.maxDaily)
      BY <3>1 DEF Refused, OverDaily
    <3> QED BY <1>2, <3>2
  <2> QED BY <2>1, <2>2
<1> HIDE DEF g
<1> QED BY <1>2, <1>3, <1>4, <1>5

\* What a restart adds to the bound, and what it reads as without products.
LEMMA DailyBound ==
  ASSUME NEW k \in Nat, NEW max \in Nat, NEW c \in Nat
  PROVE  /\ (k - 1 + c * k) * max = (k - 1) * max + c * (k * max)
         /\ (k - 1) * max \in Int /\ c * (k * max) \in Nat /\ k * max \in Nat
         /\ (c + 1) * (k * max) = c * (k * max) + k * max
OBVIOUS

\* How far executions in flight and restarts reach beyond the daily budget.
Room(max) == (Cardinality(Slots) - 1 + crashes * Cardinality(Slots)) * max

\* A step that admits nothing: what it takes out of flight it charges.
LEMMA DailyKept ==
  ASSUME TypeOK, NEW o, NEW d, Largest(o, d), DailyInvOf(o.maxOrder),
         UNCHANGED <<placed, crashes>>, Daily' \in Int, lowered' \in Nat,
         Daily + lowered + Cardinality(Units(slot, o.maxOrder))
           <= Daily' + lowered' + Cardinality(Units(slot', o.maxOrder)),
         \A s \in Slots : slot'[s].pc = "placing"
                            => slot'[s].notional <= o.maxOrder
  PROVE  DailyInvOf(o.maxOrder)'
<1>1. o.maxOrder \in Nat /\ Daily \in Int /\ placed \in Nat /\ crashes \in Nat
      /\ Cardinality(Slots) \in Nat /\ lowered \in Nat
  BY DailyNumbers DEF Largest
<1>2. crashes * (Cardinality(Slots) * o.maxOrder) \in Nat
  BY <1>1, DailyBound
<1>3. /\ Cardinality(Units(slot, o.maxOrder)) \in Nat
      /\ Cardinality(Units(slot', o.maxOrder)) \in Nat
  BY <1>1, UnitsFinite
<1> DEFINE c == crashes * (Cardinality(Slots) * o.maxOrder)
           x == Cardinality(Units(slot, o.maxOrder))
           y == Cardinality(Units(slot', o.maxOrder))
<1>4. placed <= Daily + lowered + x + c
  BY DEF DailyInvOf
<1>5. /\ c \in Nat /\ x \in Nat /\ y \in Nat
      /\ Daily + lowered + x <= Daily' + lowered' + y
  BY <1>2, <1>3
<1> HIDE DEF c, x, y
<1>6. placed' <= Daily' + lowered' + y + c
  BY <1>1, <1>4, <1>5
<1> QED BY <1>6 DEF DailyInvOf, c, y

\* An admission, with the execution's slot not among those in flight.
LEMMA DailyAdmit ==
  ASSUME TypeOK, NEW o, NEW d, Largest(o, d), DailyInvOf(o.maxOrder),
         NEW s \in Slots, slot[s].pc = "free", NEW n \in Nat,
         n <= o.maxOrder, Daily + n <= d.maxDaily,
         UNCHANGED <<metrics, crashes, lowered>>, placed' = placed + n,
         slot' = [slot EXCEPT ![s] = [pc |-> "placing", notional |-> n]]
  PROVE  /\ DailyInvOf(o.maxOrder)'
         /\ placed' <= d.maxDaily + lowered' + Room(o.maxOrder)'
<1> DEFINE k == Cardinality(Slots)
           max == o.maxOrder
           c == crashes * (k * max)
           x == Cardinality(Units(slot, max))
           y == Cardinality(Units(slot', max))
           l == (k - 1) * max
           e == Room(max)
<1>1. /\ max \in Nat /\ Daily \in Int /\ placed \in Nat /\ crashes \in Nat
      /\ k \in Nat /\ d.maxDaily \in Int /\ lowered \in Nat
  BY DailyNumbers DEF Largest
<1>2. c \in Nat /\ l \in Int /\ e = l + c
  BY <1>1, DailyBound DEF Room
<1>3. slot'[s] = [pc |-> "placing", notional |-> n]
      /\ \A u \in Slots \ {s} : slot[u] = slot'[u]
  BY DEF TypeOK
<1>4. y = x + n
  <2>1. /\ slot[s].pc # "placing"
        /\ slot'[s].pc = "placing" /\ slot'[s].notional = n
    BY <1>3
  <2>2. ASSUME NEW f, NEW g, f[s].pc # "placing", g[s].pc = "placing",
               g[s].notional = n, \A u \in Slots \ {s} : f[u] = g[u]
        PROVE  Cardinality(Units(g, max)) = Cardinality(Units(f, max)) + n
    BY <1>1, <2>2, UnitsJoin
  <2>3. \A u \in Slots \ {s} : slot[u] = slot'[u]
    BY <1>3
  <2> QED BY <2>1, <2>2, <2>3, Zenon
<1>5. x <= l /\ x \in Nat
  BY <1>1, UnitsBounded, UnitsFinite
<1>6. placed <= Daily + lowered + x + c
  BY DEF DailyInvOf
<1>7. \A u \in Slots : slot'[u].pc = "placing" => slot'[u].notional <= max
  BY <1>3 DEF DailyInvOf
<1>8. Daily' = Daily /\ lowered' = lowered
  BY DEF Daily
<1>9. crashes' = crashes /\ Room(max)' = e
  BY DEF Room
<1> HIDE DEF c, x, y, l, e
<1>10. placed' <= Daily' + lowered' + y + c
  BY <1>1, <1>2, <1>4, <1>5, <1>6, <1>8
<1>11. placed' <= d.maxDaily + lowered' + e
  BY <1>1, <1>2, <1>5, <1>6, <1>8
<1>12. DailyInvOf(max)'
  BY <1>7, <1>9, <1>10 DEF DailyInvOf, c, y
<1> QED BY <1>9, <1>11, <1>12

\* A notional that is not positive joins without a unit.
LEMMA DailyAdmitNothing ==
  ASSUME TypeOK, NEW o, NEW d, Largest(o, d), DailyInvOf(o.maxOrder),
         NEW s \in Slots, slot[s].pc = "free", NEW n \in Int, ~(n > 0),
         UNCHANGED <<metrics, crashes, lowered, placed>>,
         slot' = [slot EXCEPT ![s] = [pc |-> "placing", notional |-> n]]
  PROVE  DailyInvOf(o.maxOrder)'
<1>1. /\ o.maxOrder \in Nat /\ Daily \in Int /\ lowered \in Nat
      /\ Cardinality(Units(slot, o.maxOrder)) \in Nat
  BY DailyNumbers, UnitsFinite DEF Largest
<1>2. slot'[s] = [pc |-> "placing", notional |-> n]
      /\ \A u \in Slots \ {s} : slot[u] = slot'[u]
  BY DEF TypeOK
<1>3. Units(slot', o.maxOrder) = Units(slot, o.maxOrder)
  BY <1>1, <1>2 DEF Units
<1>4. \A u \in Slots : slot'[u].pc = "placing"
                         => slot'[u].notional <= o.maxOrder
  BY <1>1, <1>2 DEF DailyInvOf
<1>5. Daily' = Daily
  BY DEF Daily
<1> DEFINE x == Cardinality(Units(slot, o.maxOrder))
           y == Cardinality(Units(slot', o.maxOrder))
<1>6. x \in Nat /\ y = x
  BY <1>1, <1>3
<1> HIDE DEF x, y
<1>7. Daily + lowered + x <= Daily' + lowered' + y
  BY <1>1, <1>5, <1>6
<1> QED BY <1>1, <1>4, <1>5, <1>7, DailyKept DEF x, y

\* What is in flight at a restart is charged to the restart.
LEMMA DailyCrash ==
  ASSUME TypeOK, NEW o, NEW d, Largest(o, d), DailyInvOf(o.maxOrder), Crash
  PROVE  DailyInvOf(o.maxOrder)'
<1> DEFINE k == Cardinality(Slots)
           m == k * o.maxOrder
           x == Cardinality(Units(slot, o.maxOrder))
           y == Cardinality(Units(slot', o.maxOrder))
<1>1. /\ o.maxOrder \in Nat /\ Daily \in Int /\ placed \in Nat /\ crashes \in Nat
      /\ k \in Nat /\ lowered \in Nat
  BY DailyNumbers DEF Largest
<1>2. m \in Nat /\ crashes * m \in Nat /\ (crashes + 1) * m = crashes * m + m
  BY <1>1, DailyBound
<1>3. x <= m /\ x \in Nat /\ y \in Nat
  <2>1. Units(slot, o.maxOrder) \subseteq Slots \X (1..o.maxOrder)
    BY DEF Units
  <2>2. /\ IsFiniteSet(Slots \X (1..o.maxOrder))
        /\ Cardinality(Slots \X (1..o.maxOrder)) = m
    BY <1>1, AllUnits
  <2>3. x <= Cardinality(Slots \X (1..o.maxOrder))
    BY <2>1, <2>2, FS_Subset
  <2> QED BY <1>1, <2>2, <2>3, UnitsFinite
<1>4. placed <= Daily + lowered + x + crashes * m
  BY DEF DailyInvOf
<1>5. /\ Daily' = Daily /\ crashes' = crashes + 1 /\ placed' = placed
      /\ lowered' = lowered /\ \A s \in Slots : slot'[s].pc # "placing"
  BY DEF Crash, Daily, Free
<1> DEFINE c == crashes * m
           z == (crashes + 1) * m
<1>6. placed <= Daily + lowered + x + c /\ z = c + m /\ c \in Nat
  BY <1>2, <1>4
<1> HIDE DEF m, x, y, c, z
<1>7. placed' <= Daily' + lowered' + y + z
  BY <1>1, <1>2, <1>3, <1>5, <1>6
<1>8. z = crashes' * (Cardinality(Slots) * o.maxOrder)
  BY <1>5 DEF z, m
<1> QED BY <1>5, <1>7, <1>8 DEF DailyInvOf, y

\* A restart makes room for what was in flight.
LEMMA RoomGrows ==
  ASSUME TypeOK, NEW max \in Nat
  PROVE  /\ Room(max) \in Int
         /\ crashes' = crashes => Room(max)' = Room(max)
         /\ crashes' = crashes + 1 => Room(max)' \in Int /\ Room(max)' >= Room(max)
<1> DEFINE k == Cardinality(Slots)
           c == crashes + 1
           l == (k - 1) * max
           m == k * max
<1>1. k \in Nat /\ crashes \in Nat
  BY ConstantsAssumption, FS_CardinalityType DEF TypeOK
<1>2. c \in Nat
  BY <1>1
<1>3. /\ Room(max) = l + crashes * m /\ l \in Int /\ m \in Nat
      /\ crashes * m \in Nat /\ c * m = crashes * m + m
  BY <1>1, DailyBound DEF Room
<1>4. crashes' = c => Room(max)' = l + c * m
  <2> HIDE DEF c
  <2>1. (k - 1 + c * k) * max = (k - 1) * max + c * (k * max)
    BY <1>1, <1>2, DailyBound
  <2>2. crashes' = c => Room(max)' = (k - 1 + c * k) * max
    BY DEF Room
  <2> QED BY <2>1, <2>2
<1>5. crashes' = crashes => Room(max)' = Room(max)
  BY DEF Room
<1> DEFINE e == crashes * m
           h == c * m
<1>6. /\ Room(max) = l + e /\ l \in Int /\ m \in Nat /\ e \in Nat /\ h = e + m
      /\ crashes' = crashes + 1 => Room(max)' = l + h
  BY <1>3, <1>4
<1> HIDE DEF l, m, e, h
<1> QED BY <1>5, <1>6

\* DailyInv is inductive, for the largest limits.
LEMMA DailyStep ==
  ASSUME TypeOK, NEW o, NEW d, Largest(o, d), DailyInvOf(o.maxOrder),
         placed <= d.maxDaily + lowered + Room(o.maxOrder),
         [Next]_vars
  PROVE  /\ DailyInvOf(o.maxOrder)'
         /\ placed' <= d.maxDaily + lowered' + Room(o.maxOrder)'
<1> DEFINE max == o.maxOrder
<1>1. /\ max \in Nat /\ Daily \in Int /\ Cardinality(Slots) \in Nat
      /\ crashes \in Nat /\ d.maxDaily \in Int /\ placed \in Nat
      /\ lowered \in Nat
  BY DailyNumbers DEF Largest
<1>2. Cardinality(Units(slot, max)) \in Nat
  BY <1>1, UnitsFinite
\* The bound stays where nothing is handed over.
<1>b. ASSUME placed' = placed, lowered' \in Nat, lowered' >= lowered,
             crashes' = crashes \/ crashes' = crashes + 1
      PROVE  placed' <= d.maxDaily + lowered' + Room(max)'
  <2> DEFINE e == Room(max)
             f == Room(max)'
  <2>1. e \in Int /\ f \in Int /\ e <= f
    <3>1. CASE crashes' = crashes
      BY <1>1, <3>1, RoomGrows
    <3>2. CASE crashes' = crashes + 1
      BY <1>1, <3>2, RoomGrows
    <3> QED BY <1>b, <3>1, <3>2
  <2>2. placed <= d.maxDaily + lowered + e
    OBVIOUS
  <2> HIDE DEF e, f
  <2>3. placed' <= d.maxDaily + lowered' + f
    BY <1>1, <1>b, <2>1, <2>2
  <2> QED BY <2>3 DEF f
<1>3. CASE UNCHANGED <<slot, placed, metrics, crashes, lowered>>
  <2>1. Daily' = Daily
    BY <1>3 DEF Daily
  <2>2. \A s \in Slots : slot'[s].pc = "placing" => slot'[s].notional <= max
    BY <1>3 DEF DailyInvOf
  <2>3. DailyInvOf(max)'
    BY <1>1, <1>2, <1>3, <2>1, <2>2, DailyKept
  <2> QED BY <1>1, <1>3, <1>b, <2>3
<1>4. ASSUME NEW s \in Slots, Refuse(s) \/ Throttle(s)
      PROVE  DailyInvOf(max)' /\ UNCHANGED <<placed, crashes, lowered>>
  <2>1. RecordError(0) /\ UNCHANGED <<slot, placed, crashes, lowered>>
    BY <1>4 DEF Refuse, Throttle
  <2>2. Daily' = Daily + 0
    BY <2>1, OutcomeCharged
  <2>3. Daily' = Daily
    BY <1>1, <2>2
  <2>4. \A u \in Slots : slot'[u].pc = "placing" => slot'[u].notional <= max
    BY <2>1 DEF DailyInvOf
  <2> QED BY <1>1, <1>2, <2>1, <2>3, <2>4, DailyKept
<1>5. ASSUME NEW s \in Slots, Succeed(s) \/ FailWith(s), slot[s].pc # "free",
             Succeed(s) => slot[s].pc = "placing"
      PROVE  /\ DailyInvOf(max)' /\ UNCHANGED <<placed, crashes>>
             /\ lowered' \in Nat /\ lowered' >= lowered
  <2> DEFINE n == slot[s].notional
             a == Positive(n)
             w == Positive(-n)
  <2>1. /\ RecordError(n) \/ RecordSuccess(n)
        /\ lowered' = lowered + w
        /\ UNCHANGED <<placed, crashes>>
    BY <1>5 DEF Succeed, FailWith
  <2>2. n \in Int /\ Daily' = Daily + n
    BY <2>1, SlotNotional, OutcomeCharged
  <2>a. /\ a \in Nat /\ w \in Nat /\ n + w = a
        /\ n > 0 => a = n
        /\ ~(n > 0) => a = 0
    BY <2>2, PositiveType
  <2>3. /\ slot'[s].pc # "placing"
        /\ \A u \in Slots \ {s} : slot'[u] = slot[u]
    BY <1>5 DEF Succeed, FailWith, Free, TypeOK
  <2>4. \A u \in Slots : slot'[u].pc = "placing" => slot'[u].notional <= max
    BY <2>3 DEF DailyInvOf
  <2>6. Cardinality(Units(slot', max)) \in Nat
    BY <1>1, UnitsFinite
  <2>5. Cardinality(Units(slot, max)) <= Cardinality(Units(slot', max)) + a
    <3>1. CASE slot[s].pc = "placing" /\ n > 0
      <4>1. n <= max /\ n \in Nat
        BY <2>2, <3>1 DEF DailyInvOf
      <4>2. ASSUME NEW f, NEW g, f[s].pc # "placing", g[s].pc = "placing",
                   g[s].notional = n, \A u \in Slots \ {s} : f[u] = g[u]
            PROVE  Cardinality(Units(g, max)) = Cardinality(Units(f, max)) + n
        BY <1>1, <4>1, <4>2, UnitsJoin
      <4>3. Cardinality(Units(slot, max)) = Cardinality(Units(slot', max)) + n
        BY <2>3, <3>1, <4>2, Zenon
      <4> DEFINE x == Cardinality(Units(slot, max))
                 y == Cardinality(Units(slot', max)) + a
      <4>4. x = y /\ x \in Nat
        BY <1>2, <2>a, <3>1, <4>3
      <4> HIDE DEF x, y
      <4>5. x <= y
        BY <4>4
      <4> QED BY <4>5 DEF x, y
    <3>2. CASE ~(slot[s].pc = "placing" /\ n > 0)
      <4>1. Units(slot, max) \subseteq Units(slot', max)
        BY <1>1, <2>2, <2>3, <3>2 DEF Units
      <4>2. Cardinality(Units(slot, max)) <= Cardinality(Units(slot', max))
        BY <1>1, <4>1, UnitsFinite, FS_Subset
      <4> HIDE DEF n, a
      <4> QED BY <1>2, <2>a, <2>6, <4>2
    <3> QED BY <3>1, <3>2
  <2> HIDE DEF n, a, w
  <2>7. /\ Daily' \in Int /\ lowered' \in Nat /\ lowered' >= lowered
        /\ Daily + lowered + Cardinality(Units(slot, max))
              <= Daily' + lowered' + Cardinality(Units(slot', max))
    BY <1>1, <1>2, <2>1, <2>2, <2>a, <2>5, <2>6
  <2> QED BY <2>1, <2>4, <2>7, DailyKept
<1>6. ASSUME NEW s \in Slots, Admit(s)
      PROVE  /\ DailyInvOf(max)'
             /\ placed' <= d.maxDaily + lowered' + Room(max)'
  <2>1. slot[s].pc = "free" /\ UNCHANGED <<metrics, crashes, lowered>>
    BY <1>6 DEF Admit
  <2>2. PICK n \in Notionals, slips \in Slips :
          /\ ~Refused(n, slips)
          /\ \/ /\ slot' = [slot EXCEPT ![s] = [pc |-> "placing", notional |-> n]]
                /\ placed' = placed + Positive(n)
             \/ UNCHANGED <<slot, placed>>
    BY <1>6 DEF Admit
  <2>3. n \in Int
    BY ConstantsAssumption
  <2>4. n <= max /\ Daily + n <= d.maxDaily
    BY <2>2, <2>3, AdmittedFits
  <2>5. CASE UNCHANGED <<slot, placed>>
    BY <1>3, <2>1, <2>5
  <2>6. CASE /\ slot' = [slot EXCEPT ![s] = [pc |-> "placing", notional |-> n]]
             /\ placed' = placed + Positive(n)
    <3>1. CASE n > 0
      <4>1. n \in Nat /\ placed' = placed + n
        BY <2>3, <2>6, <3>1, PositiveType
      <4> QED BY <2>1, <2>4, <2>6, <4>1, DailyAdmit
    <3>2. CASE ~(n > 0)
      <4>1. Positive(n) = 0
        BY <2>3, <3>2, PositiveType
      <4>2. placed' = placed
        BY <1>1, <2>6, <4>1
      <4>3. DailyInvOf(max)'
        BY <2>1, <2>3, <2>6, <3>2, <4>2, DailyAdmitNothing
      <4> QED BY <1>1, <1>b, <2>1, <4>2, <4>3
    <3> QED BY <3>1, <3>2
  <2> QED BY <2>2, <2>5, <2>6
<1>7. ASSUME NEW s \in Slots, Announced(s)
      PROVE  DailyInvOf(max)' /\ UNCHANGED <<placed, crashes, lowered>>
  <2>1. /\ UNCHANGED <<metrics, placed, crashes, lowered>>
        /\ slot[s].pc # "placing" /\ slot'[s].pc # "placing"
        /\ \A u \in Slots \ {s} : slot[u] = slot'[u]
    BY <1>7 DEF Announced, Free, TypeOK
  <2>2. Daily' = Daily
    BY <2>1 DEF Daily
  <2>3. Units(slot, max) = Units(slot', max)
    BY <2>1 DEF Units
  <2>4. \A u \in Slots : slot'[u].pc = "placing" => slot'[u].notional <= max
    BY <2>1 DEF DailyInvOf
  <2>5. Daily + lowered + Cardinality(Units(slot, max))
          <= Daily' + lowered' + Cardinality(Units(slot', max))
    BY <1>1, <1>2, <2>1, <2>2, <2>3
  <2> QED BY <1>1, <2>1, <2>2, <2>4, <2>5, DailyKept
<1>8. CASE Crash
  <2>1. /\ DailyInvOf(max)' /\ crashes' = crashes + 1
        /\ placed' = placed /\ lowered' = lowered
    BY <1>8, DailyCrash DEF Crash
  <2> QED BY <1>1, <1>b, <2>1
<1>9. CASE SetBudget \/ Beat \/ UNCHANGED vars
  BY <1>3, <1>9 DEF SetBudget, Beat, vars
<1>10. CASE \E s \in Slots : Execution(s)
  <2>1. PICK s \in Slots : Execution(s)
    BY <1>10
  <2>2. CASE Refuse(s) \/ Throttle(s) \/ Announced(s)
    BY <1>1, <1>4, <1>7, <1>b, <2>2
  <2>3. CASE Succeed(s) \/ Fail(s) \/ BroadcastRaises(s)
    BY <1>5, <1>b, <2>3 DEF Succeed, Fail, BroadcastRaises
  <2> QED BY <1>6, <2>1, <2>2, <2>3 DEF Execution
<1> QED BY <1>8, <1>9, <1>10 DEF Next

\* The largest limits are those of any budget at the start.
LEMMA DailyInit == Init => DailyInv
<1> SUFFICES ASSUME Init, NEW o \in Budgets, NEW d \in Budgets, Largest(o, d)
             PROVE  /\ DailyInvOf(o.maxOrder)
                    /\ placed <= d.maxDaily + lowered + Room(o.maxOrder)
  BY DEF DailyInv, DailyOvershoot, Largest, Room
<1> DEFINE k == Cardinality(Slots)
           max == o.maxOrder
<1>1. TypeOK
  BY TypeInit
<1>2. max \in Nat /\ d.maxDaily \in Int /\ k \in Nat
  BY <1>1, DailyNumbers DEF Largest
<1>3. max <= d.maxDaily
  <2>1. o.maxOrder <= o.maxDaily /\ o.maxDaily <= d.maxDaily
    BY DEF Largest
  <2> QED BY <1>1, <1>2, <2>1, DailyNumbers
<1>4. placed = 0 /\ crashes = 0 /\ Daily = 0 /\ lowered = 0
      /\ \A s \in Slots : slot[s].pc # "placing"
  BY DEF Init, Daily, Free
<1>5. Cardinality(Units(slot, max)) \in Nat
  BY <1>2, UnitsFinite
<1>6. crashes * (k * max) = 0
  BY <1>2, <1>4
<1>7. DailyInvOf(max)
  BY <1>4, <1>5, <1>6 DEF DailyInvOf
<1>8. Room(max) >= - max /\ Room(max) \in Int
  <2>1. (k - 1 + 0 * k) * max >= - max /\ (k - 1 + 0 * k) * max \in Int
    BY <1>2
  <2> QED BY <1>4, <2>1 DEF Room
<1> QED BY <1>2, <1>3, <1>4, <1>7, <1>8

\* Executions that run beside each other pass the largest daily budget by no
\* more than an order for each further slot and for every slot at a restart,
\* and by what negative notionals have taken off the counter: for every set
\* of budgets and of notionals, of either sign, and any number of slots.
THEOREM DailyOvershootBounded == Spec => []DailyOvershoot
<1>1. TypeOK /\ DailyInv /\ [Next]_vars => DailyInv'
  <2> SUFFICES ASSUME TypeOK, DailyInv, [Next]_vars,
                      NEW o \in Budgets, NEW d \in Budgets, Largest(o, d)
               PROVE  /\ DailyInvOf(o.maxOrder)'
                      /\ placed' <= d.maxDaily + lowered' + Room(o.maxOrder)'
    BY DEF DailyInv, DailyOvershoot, Largest, Room
  <2>1. placed <= d.maxDaily + lowered + Room(o.maxOrder)
    BY DEF DailyInv, DailyOvershoot, Largest, Room
  <2>2. DailyInvOf(o.maxOrder)
    BY DEF DailyInv
  <2> QED BY <2>1, <2>2, DailyStep
<1>2. DailyInv => DailyOvershoot
  BY DEF DailyInv
<1> QED BY <1>1, <1>2, TypeInit, TypeStep, DailyInit, PTL DEF Spec
=============================================================================
