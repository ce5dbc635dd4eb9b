------------------------------ MODULE Counters ------------------------------
(***************************************************************************)
(* The counter blocks of plc-stdlib/src/counters.rs, Ctu, Ctd and Ctud,    *)
(* called in every scan with the same inputs. The history counts the edges *)
(* since the value was last set.                                           *)
(***************************************************************************)
EXTENDS Integers

CONSTANTS
  MaxInt, MinInt,  \* i32::MAX and i32::MIN
  Presets          \* values of PV

RangeAssumption == MaxInt \in Nat /\ MinInt \in Int /\ MinInt < 0
PresetsAssumption == Presets \subseteq MinInt..MaxInt

VARIABLES
  cu, cd, r, ld, pv,  \* of the last scan
  ctu, ctd, ctud,
  ups, downs,   \* history: edges since ctu's and ctd's value was set
  base,         \* history: what CTD was set to
  net,          \* history: the value CTUD was set to, plus and minus its edges
  inRange       \* history: the sum has stayed inside the type since then

inputs == <<cu, cd, r, ld, pv>>
vars == <<inputs, ctu, ctd, ctud, ups, downs, base, net, inRange>>

CounterValues == MinInt..MaxInt

TypeOK ==
  /\ {cu, cd, r, ld} \subseteq BOOLEAN /\ pv \in CounterValues
  /\ ctu \in [cv : 0..MaxInt, q : BOOLEAN, prev : BOOLEAN]
  /\ ctd \in [cv : CounterValues, q : BOOLEAN, prev : BOOLEAN]
  /\ ctud \in [cv : CounterValues, qu : BOOLEAN, qd : BOOLEAN, prevU : BOOLEAN, prevD : BOOLEAN]
  /\ {ups, downs} \subseteq Nat
  /\ base \in CounterValues
  /\ net \in MinInt - 1..MaxInt + 1
  /\ inRange \in BOOLEAN

\* new(): all blocks begin at 0, with Q FALSE.
Init ==
  /\ cu = FALSE /\ cd = FALSE /\ r = FALSE /\ ld = FALSE /\ pv = 0
  /\ ctu = [cv |-> 0, q |-> FALSE, prev |-> FALSE]
  /\ ctd = [cv |-> 0, q |-> FALSE, prev |-> FALSE]
  /\ ctud = [cv |-> 0, qu |-> FALSE, qd |-> FALSE, prevU |-> FALSE, prevD |-> FALSE]
  /\ ups = 0 /\ downs = 0 /\ base = 0 /\ net = 0 /\ inRange = TRUE

-----------------------------------------------------------------------------

\* Mutant: the value wraps around.
UpWrapping(v, edge) == IF ~edge THEN v ELSE IF v = MaxInt THEN MinInt ELSE v + 1

\* Mutant: the value is not held at the end of its type.
UpUnbounded(v, edge) == IF edge THEN v + 1 ELSE v

Up(v, edge) == IF edge /\ v < MaxInt THEN v + 1 ELSE v
Down(v, edge) == IF edge /\ v > MinInt THEN v - 1 ELSE v

\* Mutant: an edge during a reset counts when the reset is over.
CtuCallLate(b, u, reset, p) ==
  LET cv == IF reset THEN 0 ELSE Up(b.cv, u /\ ~b.prev)
  IN [cv |-> cv, q |-> cv >= p, prev |-> u /\ ~reset]

\* Ctu::call: R comes first, and the edge detector sees every scan.
CtuCall(b, u, reset, p) ==
  LET cv == IF reset THEN 0 ELSE Up(b.cv, u /\ ~b.prev)
  IN [cv |-> cv, q |-> cv >= p, prev |-> u]

\* Ctd::call.
CtdCall(b, d, load, p) ==
  LET cv == IF load THEN p ELSE Down(b.cv, d /\ ~b.prev)
  IN [cv |-> cv, q |-> cv <= 0, prev |-> d]

\* Mutant: an edge of CU hides one of CD.
CtudCallOneEdge(b, u, d, reset, load, p) ==
  LET cv == IF reset THEN 0
            ELSE IF load THEN p
            ELSE IF u /\ ~b.prevU THEN Up(b.cv, TRUE) ELSE Down(b.cv, d /\ ~b.prevD)
  IN [cv |-> cv, qu |-> cv >= p, qd |-> cv <= 0, prevU |-> u, prevD |-> d]

\* Ctud::call: R before LD before the edges, up before down.
CtudCall(b, u, d, reset, load, p) ==
  LET cv == IF reset THEN 0
            ELSE IF load THEN p
            ELSE Down(Up(b.cv, u /\ ~b.prevU), d /\ ~b.prevD)
  IN [cv |-> cv, qu |-> cv >= p, qd |-> cv <= 0, prevU |-> u, prevD |-> d]

\* The edges of this scan, and what they add up to. The sum leaves the type when
\* the edge up does, even if one down comes with it.
Observe(u, d, reset, load, p) ==
  LET rise == u /\ ~cu
      fall == d /\ ~cd
      sum == net + (IF rise THEN 1 ELSE 0) - (IF fall THEN 1 ELSE 0)
      stays == sum \in CounterValues /\ ~(rise /\ net = MaxInt)
  IN /\ ups' = IF reset THEN 0 ELSE IF rise /\ ups < MaxInt THEN ups + 1 ELSE ups
     /\ base' = IF load THEN p ELSE base
     /\ downs' = IF load THEN 0 ELSE IF fall /\ base - downs > MinInt THEN downs + 1 ELSE downs
     /\ net' = IF reset THEN 0 ELSE IF load THEN p ELSE IF inRange /\ stays THEN sum ELSE net
     /\ inRange' = (reset \/ load \/ (inRange /\ stays))

Scan(u, d, reset, load, p) ==
  /\ cu' = u /\ cd' = d /\ r' = reset /\ ld' = load /\ pv' = p
  /\ ctu' = CtuCall(ctu, u, reset, p)
  /\ ctd' = CtdCall(ctd, d, load, p)
  /\ ctud' = CtudCall(ctud, u, d, reset, load, p)
  /\ Observe(u, d, reset, load, p)

\* reset() of the three: unlike new(), it sets Q of a block that is at 0.
Reset ==
  /\ cu' = FALSE /\ cd' = FALSE /\ r' = FALSE /\ ld' = FALSE /\ pv' = pv
  /\ ctu' = [cv |-> 0, q |-> FALSE, prev |-> FALSE]
  /\ ctd' = [cv |-> 0, q |-> TRUE, prev |-> FALSE]
  /\ ctud' = [cv |-> 0, qu |-> FALSE, qd |-> TRUE, prevU |-> FALSE, prevD |-> FALSE]
  /\ ups' = 0 /\ downs' = 0 /\ base' = 0 /\ net' = 0 /\ inRange' = TRUE

Next ==
  \/ Reset
  \/ \E u, d, reset, load \in BOOLEAN, p \in Presets : Scan(u, d, reset, load, p)

Spec == Init /\ [][Next]_vars

-----------------------------------------------------------------------------
(* Properties. *)

\* The one-way counters stand at the edges since they were set, saturated at the end
\* of their type, however edges, resets and loads fall into the same scans.
CountsEveryEdge == ctu.cv = ups /\ ctd.cv = base - downs

\* The two-way counter stands at the difference of its edges, unless the end of the
\* type came between: two edges in one scan cancel each other.
NetOfEdges == inRange => ctud.cv = net

\* No sequence of edges takes a counter past the end of its type and around: only a
\* reset or a load moves it by more than one.
NeverWraps ==
  [][\/ r' \/ ld' \/ inputs' = <<FALSE, FALSE, FALSE, FALSE, pv>>
     \/ /\ ctu'.cv - ctu.cv \in 0..1 /\ ctd.cv - ctd'.cv \in 0..1
        /\ ctud'.cv - ctud.cv \in -1..1]_vars

-----------------------------------------------------------------------------
(* The inductive invariant. *)

\* The edge detectors have seen what the history's have.
EdgesSeen ==
  /\ ctu.prev = cu /\ ctd.prev = cd
  /\ ctud.prevU = cu /\ ctud.prevD = cd

\* The history's sums are values of the type as long as they are compared.
SumsInRange == inRange => net \in CounterValues

IInv == TypeOK /\ EdgesSeen /\ SumsInRange /\ CountsEveryEdge /\ NetOfEdges

=============================================================================
