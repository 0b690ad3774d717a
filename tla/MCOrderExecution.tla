-------------------------- MODULE MCOrderExecution --------------------------
(***************************************************************************)
(* Instances of OrderExecution for TLC.                                    *)
(***************************************************************************)
EXTENDS OrderExecution

CONSTANTS k1, k2, t1, t2

OneKey  == {k1}
TwoKeys == {k1, k2}
OneTick  == {t1}
TwoTicks == {t1, t2}

\* Strategies return one order (martingale, funding) or several (the grids);
\* the next tick may decide on some of the same orders.
OneOrder  == {<<k1>>}
Overlapping == {<<k1, k2>>, <<k2>>, <<>>}
=============================================================================
