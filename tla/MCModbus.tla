------------------------------ MODULE MCModbus ------------------------------
(***************************************************************************)
(* Instances of Modbus for TLC.                                            *)
(***************************************************************************)
EXTENDS Modbus

\* Reads before writes, and two writes of which one may fail; one word of each
\* direction alone, so that the requests of two exchanges look alike.
SomeMappings == {{"di", "do", "ao"}, {"ai"}, {"do"}}
=============================================================================
