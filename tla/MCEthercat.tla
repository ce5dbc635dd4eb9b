----------------------------- MODULE MCEthercat -----------------------------
(* Instances of Ethercat. *)
EXTENDS Ethercat, Sequences

\* Two slaves with inputs and outputs, one of them with a clock; and a slave
\* without process data before one with a byte of outputs, which no channel fits.
Buses == {
  <<[in |-> 1, out |-> 4, dc |-> FALSE], [in |-> 2, out |-> 2, dc |-> TRUE]>>,
  <<[in |-> 0, out |-> 0, dc |-> FALSE], [in |-> 0, out |-> 1, dc |-> TRUE]>>}
MCNetworks == {[p \in 0..Len(b) - 1 |-> b[p + 1]] : b \in Buses}
=============================================================================
