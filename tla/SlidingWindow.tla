---------------------------- MODULE SlidingWindow ----------------------------
(***************************************************************************)
(* What a bounded history promises: the newest Size items, oldest first.   *)
(* The rings of fault_recorder.rs and metrics.rs and the fault list of the *)
(* web UI's state.rs implement it.                                         *)
(***************************************************************************)
EXTENDS Sequences, Integers

CONSTANTS Items, Size

VARIABLE window

Newest(s, n) == SubSeq(s, IF Len(s) > n THEN Len(s) - n + 1 ELSE 1, Len(s))

Init == window = <<>>
Push(x) == window' = Newest(Append(window, x), Size)
Clear == window' = <<>>
Next == Clear \/ \E x \in Items : Push(x)

Spec == Init /\ [][Next]_window

=============================================================================
