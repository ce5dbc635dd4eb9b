------------------------------ MODULE MCDaemon ------------------------------
(* Small instances of Daemon for TLC. *)
EXTENDS Daemon

Off == [digital |-> 0, analog |-> 0]
On == [digital |-> 1, analog |-> 1]
TwoOutputs == {Off, On}
OnePolicy == {"UserDefined"}
FaultOnOverrun == {"Fault"}
=============================================================================
