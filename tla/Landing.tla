------------------------------ MODULE Landing ------------------------------
(***************************************************************************)
(* How the outputs of an exchange reach a device.  exchange() of           *)
(* plc-fieldbus/src/modbus.rs writes one word after the other; a call that *)
(* returns an error leaves the words it asked for with the server, which   *)
(* may have written them, may write them later, or may never do so: after  *)
(* a header that does not match, send_request() even keeps the connection. *)
(* The daemon's loop (Daemon) is modelled over this, the driver (Modbus)   *)
(* is proved to keep to it.  An image is a record [digital, analog].       *)
(***************************************************************************)

\* No write is left behind.
Nothing == [digital |-> {}, analog |-> {}]

\* What may be written still, after an exchange of o that returned an error.
LeftBehind(left, o) ==
  [digital |-> left.digital \cup {o.digital}, analog |-> left.analog \cup {o.analog}]

\* The device after one of the writes left behind.
Landed(device, left) ==
  {[device EXCEPT !.digital = v] : v \in left.digital}
    \cup {[device EXCEPT !.analog = v] : v \in left.analog}
=============================================================================
