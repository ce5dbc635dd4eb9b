----------------------------- MODULE MCWasmHost -----------------------------
(* A program with every export, a smaller one without init and fault, and one that *)
(* has no step.                                                                    *)
EXTENDS WasmHost

MCPrograms == [n \in {"full", "plain", "broken"} |->
  [step |-> n # "broken", memory |-> TRUE, init |-> n # "plain", fault |-> n = "full",
   size |-> IF n = "plain" THEN 1 ELSE 2]]
=============================================================================
