----------------------------- MODULE OrderLedger ----------------------------
(***************************************************************************)
(* What the order pipeline promises for every order a strategy decides on: *)
(* the order is registered before anything happens to it, it takes effect  *)
(* at most once, it is settled only after it took effect and then for      *)
(* good, and it is given up only while it has had no effect.  An order     *)
(* given up may be tried again.                                            *)
(***************************************************************************)
EXTENDS Naturals

CONSTANT Orders

VARIABLES
  intent,   \* what the ledger says of an order
  effect    \* how often the order took effect

vars == <<intent, effect>>

Intents == {"unknown", "registered", "settled", "abandoned"}

TypeOK ==
  /\ intent \in [Orders -> Intents]
  /\ effect \in [Orders -> {0, 1}]

Init ==
  /\ intent = [o \in Orders |-> "unknown"]
  /\ effect = [o \in Orders |-> 0]

Open(o) == intent[o] \in {"registered", "abandoned"}

Become(o, i) == intent' = [intent EXCEPT ![o] = i] /\ UNCHANGED effect

Register(o) == intent[o] = "unknown" /\ Become(o, "registered")

TakeEffect(o) ==
  /\ Open(o)
  /\ effect[o] = 0
  /\ effect' = [effect EXCEPT ![o] = 1]
  /\ UNCHANGED intent

Settle(o) == Open(o) /\ effect[o] = 1 /\ Become(o, "settled")

Abandon(o) == Open(o) /\ effect[o] = 0 /\ Become(o, "abandoned")

Resume(o) == intent[o] = "abandoned" /\ effect[o] = 0 /\ Become(o, "registered")

Next == \E o \in Orders :
  Register(o) \/ TakeEffect(o) \/ Settle(o) \/ Abandon(o) \/ Resume(o)

Spec == Init /\ [][Next]_vars
=============================================================================
