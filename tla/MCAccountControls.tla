-------------------------- MODULE MCAccountControls --------------------------
(***************************************************************************)
(* Instances of AccountControls for TLC.                                   *)
(***************************************************************************)
EXTENDS AccountControls, TLC

CONSTANTS s1, s2

OneSlot  == {s1}
TwoSlots == {s1, s2}
SlotSymmetry == Permutations(TwoSlots)

\* Two admissions at once, two failures trip.
Default == [maxOrder |-> 1, maxDaily |-> 2, limit |-> 2, threshold |-> 2,
            breakFor |-> 2]
\* A limit of 0 still makes a bucket of one token; one failure trips.
Strict  == [maxOrder |-> 1, maxDaily |-> 2, limit |-> 0, threshold |-> 1,
            breakFor |-> 2]

\* Nothing but the breaker and the daily notional refuses anything.
Roomy   == [maxOrder |-> 1, maxDaily |-> 3, limit |-> 9, threshold |-> 2,
            breakFor |-> 2]

AllNotionals == {-1, 1, 3}
RoomyBudget == {Roomy}
TwoBudgets == {Default, Strict}
=============================================================================
