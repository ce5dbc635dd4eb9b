---------------------------- MODULE AtomicImage ----------------------------
(***************************************************************************)
(* What one direction of the process image promises its callers: a single  *)
(* value per word, replaced as a whole by write_inputs / write_outputs and *)
(* returned as a whole by read_inputs / read_outputs.  A read takes effect *)
(* in one instant.  This is the specification; SeqlockBuffer is the code.  *)
(***************************************************************************)
CONSTANTS
  Words,    \* the fields of ProcessData that are copied one at a time
  Values,   \* what a field can hold
  Readers   \* the threads that call read()

VARIABLES
  image,    \* the published process data
  got       \* got[r]: what the last completed read of r returned

Images == [Words -> Values]

Init ==
  /\ image \in Images
  /\ got = [r \in Readers |-> image]

\* A write replaces every word in one step.
Publish(v) ==
  /\ image' = v
  /\ UNCHANGED got

\* A read returns the published words, all of the same instant.
Read(r) ==
  /\ got' = [got EXCEPT ![r] = image]
  /\ UNCHANGED image

Next ==
  \/ \E v \in Images : Publish(v)
  \/ \E r \in Readers : Read(r)

Spec == Init /\ [][Next]_<<image, got>>
=============================================================================
