------------------------------ MODULE Latches ------------------------------
(***************************************************************************)
(* The bistable and edge blocks of plc-stdlib/src/bistable.rs and          *)
(* triggers.rs: an RS latch, an SR latch wired as its complement, and both *)
(* triggers on one clock.                                                  *)
(***************************************************************************)

VARIABLES
  sr, rs,        \* Q1
  rising,        \* RTrig: its prev_clk and its output in the last scan
  falling,       \* FTrig
  clk,           \* of the last scan
  last,          \* history: which trigger fired last since reset()
  driven         \* history: a set or reset input was TRUE since the latches' reset()

vars == <<sr, rs, rising, falling, clk, last, driven>>

Trigger == [prev : BOOLEAN, q : BOOLEAN]

TypeOK ==
  /\ {sr, rs, clk, driven} \subseteq BOOLEAN
  /\ {rising, falling} \subseteq Trigger
  /\ last \in {"none", "rising", "falling"}

\* new() or with_state(): the latches begin in opposite states.
Init ==
  /\ rs \in BOOLEAN /\ sr = ~rs
  /\ rising = [prev |-> FALSE, q |-> FALSE] /\ falling = [prev |-> FALSE, q |-> FALSE]
  /\ clk = FALSE /\ last = "none" /\ driven = TRUE

\* Mutant: the reset wins.
SrCallReset(q1, set1, reset) == ~reset /\ (set1 \/ q1)

\* Sr::call.
SrCall(q1, set1, reset) == set1 \/ (~reset /\ q1)

\* Rs::call.
RsCall(q1, s, r1) == ~r1 /\ (s \/ q1)

\* Mutant: the clock is kept only when the trigger fires.
RTrigCallKeeping(b, c) == LET q == c /\ ~b.prev IN [prev |-> IF q THEN c ELSE b.prev, q |-> q]

\* RTrig::call.
RTrigCall(b, c) == [prev |-> c, q |-> c /\ ~b.prev]

\* FTrig::call.
FTrigCall(b, c) == [prev |-> c, q |-> ~c /\ b.prev]

\* One scan: the SR latch has the inputs of the RS latch the other way round.
Scan(s, r, c) ==
  /\ rs' = RsCall(rs, s, r)
  /\ sr' = SrCall(sr, r, s)
  /\ rising' = RTrigCall(rising, c)
  /\ falling' = FTrigCall(falling, c)
  /\ clk' = c
  /\ last' = IF rising'.q THEN "rising" ELSE IF falling'.q THEN "falling" ELSE last
  /\ driven' = (driven \/ s \/ r)

\* reset() of the latches.
ResetLatches ==
  /\ sr' = FALSE /\ rs' = FALSE /\ driven' = FALSE
  /\ UNCHANGED <<rising, falling, clk, last>>

\* reset() of the triggers: an edge may be seen twice, or not at all.
ResetTriggers ==
  /\ rising' = [rising EXCEPT !.prev = FALSE] /\ falling' = [falling EXCEPT !.prev = FALSE]
  /\ last' = "none"
  /\ UNCHANGED <<sr, rs, clk, driven>>

Next == ResetLatches \/ ResetTriggers \/ \E s, r, c \in BOOLEAN : Scan(s, r, c)

Spec == Init /\ [][Next]_vars

-----------------------------------------------------------------------------
(* Properties. *)

\* Each latch does what its dominant input says: an RS latch is the complement of an
\* SR latch with set and reset exchanged, in every scan; after a reset() that made
\* them equal, from the first input on.
LatchesAreDual == driven => rs = ~sr

\* The triggers take turns: no edge is reported twice, and none is lost.
EdgesAlternate ==
  [][(\E s, t, c \in BOOLEAN : Scan(s, t, c)) =>
       /\ rising'.q => last # "rising"
       /\ falling'.q => last = "rising"
       /\ last # "none" => (clk' <=> last' = "rising")]_vars

-----------------------------------------------------------------------------
(* The inductive invariant. *)

\* Both triggers remember the same clock, and it is what the last edge left.
TriggersAgree ==
  /\ rising.prev = falling.prev
  /\ rising.prev <=> last = "rising"

IInv == TypeOK /\ LatchesAreDual /\ TriggersAgree

=============================================================================
