------------------------------ MODULE MCUnits ------------------------------
(* Instances of Units. *)
EXTENDS Units

\* A cycle that fits the period, one at the tolerance and one that is past it.
MCExecs == {1, Period + MaxOverrun, Period + MaxOverrun + 1}
\* The reference clock behind, beside and ahead of the host's.
MCOffsets == {-7, 0, 9}
\* Times below zero, at zero, in the range and at its end.
MCTimes == {-1, 0, 2, MaxTime}
MCDeltas == {-1, 0, 1, 3, MaxTime}
MCMinInt == -MaxInt
MCNumbers == {-1, 0, MaxInt}
=============================================================================
