---------------------------- MODULE MCBotControl ----------------------------
(***************************************************************************)
(* Instances of BotControl for TLC.                                        *)
(***************************************************************************)
EXTENDS BotControl, TLC

CONSTANTS b1, b2, nobody, w1, w2, t1, t2

TwoBots    == {b1, b2}
InOrder    == <<b2, b1>>
FirstSlow  == {b2}
TwoWriters == {w1, w2}
TwoTicks   == {t1, t2}

Start == [status |-> "RUNNING"]
Stop  == [status |-> "STOPPED"]
GoDry == [dryRun |-> TRUE]
Other(b) == [id |-> b]

AllRunning == {[b \in TwoBots |-> [status |-> "RUNNING", dryRun |-> FALSE]]}

\* The slow bot is started, or stopped and switched in one; the other one is
\* stopped, or sent back under the id of the slow one or of none.
SomeEdits ==
  b1 :> {Stop, Other(b2), Other(nobody)} @@ b2 :> {Start, Stop @@ GoDry}
=============================================================================
