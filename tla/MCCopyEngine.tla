---------------------------- MODULE MCCopyEngine ----------------------------
(***************************************************************************)
(* Instances of CopyEngine for TLC.                                        *)
(***************************************************************************)
EXTENDS CopyEngine, TLC

CONSTANTS i1, i2, p1, s1, s2

OneIntent  == {i1}
TwoIntents == {i1, i2}

\* The first order may be published again.
TwiceAndOnce == i1 :> 2 @@ i2 :> 1
Twice == i1 :> 2

OnePublisher == {p1}
OneSlot  == {s1}
TwoSlots == {s1, s2}
=============================================================================
