------------------------------- MODULE Timers -------------------------------
(***************************************************************************)
(* The timer blocks of plc-stdlib/src/timers.rs, Ton, Tof and Tp, called   *)
(* in every scan with the same input, preset and elapsed time. Beside each *)
(* stands what it has to show, in times measured from the input's edges.   *)
(***************************************************************************)
EXTENDS Integers

CONSTANTS
  MaxTime,  \* i64::MAX
  Presets,  \* values of PT, negative ones too
  Deltas,   \* values of delta_t, negative ones too
  Long      \* bound: longer times are not told apart

MaxTimeAssumption == MaxTime \in Nat
PresetsAssumption == Presets \subseteq Int /\ \A p \in Presets : p <= MaxTime
DeltasAssumption == Deltas \subseteq Int /\ \A d \in Deltas : d <= MaxTime
LongAssumption == Long \in Nat /\ MaxTime <= Long

VARIABLES
  in, pt,      \* of the last scan
  ton, tof, tp,
  high,        \* history: how long the input has been TRUE
  steady,      \* history: the preset is the same since it became TRUE
  low,         \* history: how long it has been FALSE since it was TRUE
  expired,     \* history: the off-delay is over, or none has begun
  pulse        \* history: the pulse in progress and how long it lasts

history == <<high, steady, low, expired, pulse>>
vars == <<in, pt, ton, tof, tp, history>>

Min(a, b) == IF a < b THEN a ELSE b
NonNegative(x) == IF x < 0 THEN 0 ELSE x

\* Mutant: times wrap around.
WrapAdd(a, b) == (a + b) % (MaxTime + 1)

\* i64::saturating_add.
SatAdd(a, b) == Min(a + b, MaxTime)

TypeOK ==
  /\ in \in BOOLEAN /\ pt \in 0..MaxTime
  /\ ton \in [q : BOOLEAN, et : 0..MaxTime, prev : BOOLEAN]
  /\ {tof, tp} \subseteq [q : BOOLEAN, et : 0..MaxTime, prev : BOOLEAN, running : BOOLEAN]
  /\ {high, low} \subseteq 0..Long
  /\ steady \in BOOLEAN /\ expired \in BOOLEAN
  /\ pulse \in [on : BOOLEAN, time : 0..Long]

Idle == [q |-> FALSE, et |-> 0, prev |-> FALSE, running |-> FALSE]

Init ==
  /\ in = FALSE /\ pt = 0
  /\ ton = [q |-> FALSE, et |-> 0, prev |-> FALSE] /\ tof = Idle /\ tp = Idle
  /\ high = 0 /\ steady = TRUE /\ low = 0 /\ expired = TRUE
  /\ pulse = [on |-> FALSE, time |-> 0]

-----------------------------------------------------------------------------

\* Mutant: the time is kept when the input falls.
TonCallRetentive(t, i, p, d) ==
  LET et == IF i /\ t.et < p THEN Min(SatAdd(t.et, d), p) ELSE t.et
  IN [q |-> i /\ et >= p, et |-> et, prev |-> i]

\* Ton::call.
TonCall(t, i, p, d) ==
  LET et == IF ~i THEN 0 ELSE IF t.et < p THEN Min(SatAdd(t.et, d), p) ELSE t.et
  IN [q |-> i /\ et >= p, et |-> et, prev |-> i]

\* Mutant: a delay that is over goes on when the preset grows.
TofCallAgain(t, i, p, d) ==
  LET et == Min(IF t.prev THEN d ELSE SatAdd(t.et, d), p)
  IN CASE i -> [q |-> TRUE, et |-> 0, prev |-> TRUE, running |-> FALSE]
       [] ~i /\ t.prev -> [q |-> et < p, et |-> et, prev |-> FALSE, running |-> TRUE]
       [] ~i /\ ~t.prev /\ t.running -> [q |-> et < p, et |-> et, prev |-> FALSE, running |-> et < p]
       [] OTHER -> [t EXCEPT !.prev = FALSE]

\* Tof::call: the edge itself leaves a delay running that it has already ended.
TofCall(t, i, p, d) ==
  LET et == Min(IF t.prev THEN d ELSE SatAdd(t.et, d), p)
  IN CASE i -> [q |-> TRUE, et |-> 0, prev |-> TRUE, running |-> FALSE]
       [] ~i /\ t.prev -> [q |-> et < p, et |-> et, prev |-> FALSE, running |-> TRUE]
       [] ~i /\ ~t.prev /\ t.running ->
            [q |-> t.q /\ et < p, et |-> et, prev |-> FALSE, running |-> et < p]
       [] OTHER -> [t EXCEPT !.prev = FALSE]

\* Mutant: an edge in a pulse starts it again.
TpCallRetriggered(t, i, p, d) ==
  LET starts == i /\ ~t.prev
      et == Min(SatAdd(IF starts THEN 0 ELSE t.et, d), p)
  IN IF starts \/ t.running
       THEN [q |-> et < p, et |-> IF et < p THEN et ELSE 0, prev |-> i, running |-> et < p]
       ELSE [t EXCEPT !.prev = i]

\* Tp::call.
TpCall(t, i, p, d) ==
  LET starts == i /\ ~t.prev /\ ~t.running
      et == Min(SatAdd(IF starts THEN 0 ELSE t.et, d), p)
  IN IF starts \/ t.running
       THEN [q |-> (starts \/ t.q) /\ et < p, et |-> IF et < p THEN et ELSE 0,
             prev |-> i, running |-> et < p]
       ELSE [t EXCEPT !.prev = i]

\* The times from the edges, with the current scan's.
Observe(i, p, d) ==
  /\ in' = i /\ pt' = p
  /\ high' = IF i THEN Min(high + d, Long) ELSE 0
  /\ steady' = (~in \/ (steady /\ p = pt))
  /\ low' = IF i THEN 0 ELSE Min(low + d, Long)
  /\ expired' = (~i /\ (expired \/ low' >= p))
  /\ LET starts == i /\ ~in /\ ~pulse.on
         time == Min(IF starts THEN d ELSE pulse.time + d, Long)
     IN pulse' = [on |-> (starts \/ pulse.on) /\ time < p,
                  time |-> IF starts \/ pulse.on THEN time ELSE 0]

\* A scan calls the three blocks; negative times count as zero.
Scan(i, preset, delta) ==
  LET p == NonNegative(preset)
      d == NonNegative(delta)
  IN /\ ton' = TonCall(ton, i, p, d)
     /\ tof' = TofCall(tof, i, p, d)
     /\ tp' = TpCall(tp, i, p, d)
     /\ Observe(i, p, d)

\* reset() of the three.
Reset ==
  /\ in' = FALSE /\ pt' = pt
  /\ ton' = [q |-> FALSE, et |-> 0, prev |-> FALSE] /\ tof' = Idle /\ tp' = Idle
  /\ high' = 0 /\ steady' = TRUE /\ low' = 0 /\ expired' = TRUE
  /\ pulse' = [on |-> FALSE, time |-> 0]

Next == Reset \/ \E i \in BOOLEAN, p \in Presets, d \in Deltas : Scan(i, p, d)

Spec == Init /\ [][Next]_vars

-----------------------------------------------------------------------------
(* Properties. *)

\* TON is on only when its input has been TRUE for the preset, however the preset was
\* changed on the way, and with a steady preset it is on from then on; its ET is that
\* time, up to the preset.
TonIsOnDelay ==
  /\ ton.q => in /\ high >= pt
  /\ in /\ steady /\ high >= pt => ton.q
  /\ steady => ton.et = Min(high, pt)

\* TOF is on while its input is TRUE and until it has been FALSE for the preset; then
\* it stays off, even if the preset grows, until the input is TRUE again.
TofIsOffDelay ==
  tof.q <=> in \/ ~expired

\* TP's pulse lasts until its time has reached the preset, whatever the input does, and
\* only a new edge after that starts another.
TpIsPulse ==
  /\ tp.q <=> pulse.on
  /\ tp.running = tp.q
  /\ tp.q => tp.et = Min(pulse.time, MaxTime)

-----------------------------------------------------------------------------
(* The inductive invariant. *)

\* Each block remembers the input of the last scan.
InputsSeen == ton.prev = in /\ tof.prev = in /\ tp.prev = in

\* TON's Q compares its ET, which never runs ahead of the input.
TonFollows ==
  /\ ton.q <=> in /\ ton.et >= pt
  /\ ton.et <= high
  /\ ~in => ton.et = 0 /\ high = 0

\* A running off-delay has counted all the time since the input fell.
TofFollows ==
  /\ in => ~expired /\ low = 0
  /\ ~in /\ ~expired => tof.running /\ tof.et = low /\ low < pt

IInv == TypeOK /\ InputsSeen /\ TonFollows /\ TofFollows
        /\ TonIsOnDelay /\ TofIsOffDelay /\ TpIsPulse

=============================================================================
