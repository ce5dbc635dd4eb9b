----------------------------- MODULE Units_proofs -----------------------------
(***************************************************************************)
(* For every size, range and bound of the sequential units: what each of   *)
(* them promises holds in all its states and steps.  The last section is   *)
(* about the compiler's memory layout, for every list of declarations.     *)
(***************************************************************************)
EXTENDS Units, SequenceTheorems, FiniteSetTheorems, WellFoundedInduction, TLAPS

(* Every unit moves by its own steps. *)

\* A step of the whole is a step of each unit or leaves that unit alone.
LEMMA EachMoves ==
  ASSUME [Next]_vars
  PROVE  /\ [Timing!Next]_(Timing!vars) /\ [Recorder!Next]_(Recorder!vars)
         /\ [Clock!Next]_(Clock!vars) /\ [Web!Next]_(Web!vars)
         /\ [Delays!Next]_(Delays!vars) /\ [Counts!Next]_(Counts!vars) /\ [Bits!Next]_(Bits!vars)
BY DEF Next, NextRecord, NextBlock, vars, records, blocks, timing, recorder, clock, web, timers,
       counters, latches, Timing!vars, Recorder!vars, Clock!vars, Web!vars, Delays!vars,
       Delays!history, Counts!vars, Counts!inputs, Bits!vars

-----------------------------------------------------------------------------
(* Counters. *)

\* What a block's value becomes.
LEMMA CounterMoves ==
  ASSUME NEW v \in Counts!CounterValues, NEW edge \in BOOLEAN
  PROVE  /\ Counts!Up(v, edge) \in Counts!CounterValues
         /\ Counts!Down(v, edge) \in Counts!CounterValues
         /\ Counts!Up(v, edge) - v \in 0..1 /\ v - Counts!Down(v, edge) \in 0..1
         /\ v >= 0 => Counts!Up(v, edge) >= 0
BY CountersAssumption DEF Counts!CounterValues, Counts!RangeAssumption, Counts!Up, Counts!Down

\* New counters.
LEMMA CountersInit == ASSUME Counts!Init PROVE Counts!IInv
<1>1. 0 \in Counts!CounterValues /\ 0 \in 0..MaxInt /\ 0 \in MinInt - 1..MaxInt + 1
  BY CountersAssumption DEF Counts!RangeAssumption, Counts!CounterValues
<1>2. pv \in Counts!CounterValues /\ {cu, cd, r, ld} \subseteq BOOLEAN
  BY <1>1 DEF Counts!Init
<1>3. /\ ctu \in [cv : 0..MaxInt, q : BOOLEAN, prev : BOOLEAN]
      /\ ctd \in [cv : Counts!CounterValues, q : BOOLEAN, prev : BOOLEAN]
      /\ ctud \in [cv : Counts!CounterValues, qu : BOOLEAN, qd : BOOLEAN,
                prevU : BOOLEAN, prevD : BOOLEAN]
  BY <1>1 DEF Counts!Init
<1>4. Counts!TypeOK
  BY <1>1, <1>2, <1>3 DEF Counts!Init, Counts!TypeOK
<1>5. Counts!EdgesSeen
  BY Zenon DEF Counts!Init, Counts!EdgesSeen
<1>6. Counts!SumsInRange /\ Counts!CountsEveryEdge /\ Counts!NetOfEdges
  BY <1>1 DEF Counts!Init, Counts!SumsInRange, Counts!CountsEveryEdge, Counts!NetOfEdges
<1>7. QED
  BY <1>4, <1>5, <1>6 DEF Counts!IInv

\* reset() of the three.
LEMMA CountersReset == ASSUME Counts!IInv, Counts!Reset PROVE Counts!IInv'
<1>1. 0 \in Counts!CounterValues /\ 0 \in 0..MaxInt /\ 0 \in MinInt - 1..MaxInt + 1
  BY CountersAssumption DEF Counts!RangeAssumption, Counts!CounterValues
<1>2. pv' \in Counts!CounterValues /\ {cu', cd', r', ld'} \subseteq BOOLEAN
  BY <1>1 DEF Counts!Reset, Counts!IInv, Counts!TypeOK
<1>3. /\ ctu' \in [cv : 0..MaxInt, q : BOOLEAN, prev : BOOLEAN]
      /\ ctd' \in [cv : Counts!CounterValues, q : BOOLEAN, prev : BOOLEAN]
      /\ ctud' \in [cv : Counts!CounterValues, qu : BOOLEAN, qd : BOOLEAN,
                prevU : BOOLEAN, prevD : BOOLEAN]
  BY <1>1 DEF Counts!Reset
<1>4. Counts!TypeOK'
  BY <1>1, <1>2, <1>3 DEF Counts!Reset, Counts!TypeOK, Counts!CounterValues
<1>5. Counts!EdgesSeen'
  BY Zenon DEF Counts!Reset, Counts!EdgesSeen
<1>6. Counts!SumsInRange' /\ Counts!CountsEveryEdge' /\ Counts!NetOfEdges'
  BY <1>1
  DEF Counts!Reset, Counts!SumsInRange, Counts!CountsEveryEdge, Counts!NetOfEdges,
      Counts!CounterValues
<1>7. QED
  BY <1>4, <1>5, <1>6 DEF Counts!IInv

\* What a scan makes of the values: one edge, up or down, moves a value by one.
CountersMoved(u, d, reset, load, p) ==
  /\ ctu'.cv = IF reset THEN 0 ELSE Counts!Up(ctu.cv, u /\ ~cu)
  /\ ctd'.cv = IF load THEN p ELSE Counts!Down(ctd.cv, d /\ ~cd)
  /\ ctud'.cv = IF reset THEN 0 ELSE IF load THEN p
                ELSE Counts!Down(Counts!Up(ctud.cv, u /\ ~cu), d /\ ~cd)

LEMMA CountersScanned ==
  ASSUME Counts!IInv, NEW u \in BOOLEAN, NEW d \in BOOLEAN, NEW reset \in BOOLEAN,
         NEW load \in BOOLEAN, NEW p \in Numbers, Counts!Scan(u, d, reset, load, p)
  PROVE  CountersMoved(u, d, reset, load, p) /\ Counts!EdgesSeen'
<1>1. Counts!EdgesSeen
  BY DEF Counts!IInv
<1>2. /\ cu' = u /\ cd' = d
      /\ ctu' = Counts!CtuCall(ctu, u, reset, p) /\ ctd' = Counts!CtdCall(ctd, d, load, p)
      /\ ctud' = Counts!CtudCall(ctud, u, d, reset, load, p)
  BY Zenon DEF Counts!Scan
<1>3. ctu'.prev = u /\ ctd'.prev = d /\ ctud'.prevU = u /\ ctud'.prevD = d
  BY <1>2, Zenon DEF Counts!CtuCall, Counts!CtdCall, Counts!CtudCall
<1>4. Counts!EdgesSeen'
  BY <1>2, <1>3, Zenon DEF Counts!EdgesSeen
<1>5. ctu'.cv = IF reset THEN 0 ELSE Counts!Up(ctu.cv, u /\ ~ctu.prev)
  BY <1>2, Zenon DEF Counts!CtuCall
<1>6. ctd'.cv = IF load THEN p ELSE Counts!Down(ctd.cv, d /\ ~ctd.prev)
  BY <1>2, Zenon DEF Counts!CtdCall
<1>7. ctud'.cv = IF reset THEN 0 ELSE IF load THEN p
                 ELSE Counts!Down(Counts!Up(ctud.cv, u /\ ~ctud.prevU), d /\ ~ctud.prevD)
  BY <1>2, Zenon DEF Counts!CtudCall
<1>8. QED
  BY <1>1, <1>4, <1>5, <1>6, <1>7, Zenon DEF CountersMoved, Counts!EdgesSeen

\* The types, after a scan.
LEMMA CountersTyped ==
  ASSUME Counts!IInv, NEW u \in BOOLEAN, NEW d \in BOOLEAN, NEW reset \in BOOLEAN,
         NEW load \in BOOLEAN, NEW p \in Numbers, Counts!Scan(u, d, reset, load, p)
  PROVE  Counts!TypeOK'
<1>1. CountersMoved(u, d, reset, load, p)
  BY CountersScanned
<1>2. /\ MaxInt \in Nat /\ MinInt \in Int /\ MinInt < 0 /\ p \in Counts!CounterValues
      /\ 0 \in 0..MaxInt /\ 0 \in Counts!CounterValues
  BY CountersAssumption DEF Counts!RangeAssumption, Counts!PresetsAssumption, Counts!CounterValues
<1>3. /\ ctu.cv \in 0..MaxInt /\ ctd.cv \in Counts!CounterValues
      /\ ctud.cv \in Counts!CounterValues
      /\ ups \in Nat /\ downs \in Nat /\ base \in Counts!CounterValues
      /\ net \in MinInt - 1..MaxInt + 1
      /\ cu \in BOOLEAN /\ cd \in BOOLEAN /\ inRange \in BOOLEAN
  BY DEF Counts!IInv, Counts!TypeOK
<1>4. (u /\ ~cu) \in BOOLEAN /\ (d /\ ~cd) \in BOOLEAN /\ ctu.cv \in Counts!CounterValues
  BY <1>2, <1>3 DEF Counts!CounterValues
<1>5. Counts!Up(ctu.cv, u /\ ~cu) \in 0..MaxInt
  <2>1. /\ Counts!Up(ctu.cv, u /\ ~cu) \in Counts!CounterValues
        /\ ctu.cv >= 0 => Counts!Up(ctu.cv, u /\ ~cu) >= 0
    BY <1>4, CounterMoves
  <2>2. QED
    BY <1>2, <1>3, <2>1 DEF Counts!CounterValues
<1>6. Counts!Up(ctud.cv, u /\ ~cu) \in Counts!CounterValues
  BY <1>3, <1>4, CounterMoves
<1>7. /\ Counts!Down(Counts!Up(ctud.cv, u /\ ~cu), d /\ ~cd) \in Counts!CounterValues
      /\ Counts!Down(ctd.cv, d /\ ~cd) \in Counts!CounterValues
  BY <1>3, <1>4, <1>6, CounterMoves
<1>8. ctu'.cv \in 0..MaxInt /\ ctd'.cv \in Counts!CounterValues
      /\ ctud'.cv \in Counts!CounterValues
  BY <1>1, <1>2, <1>5, <1>7 DEF CountersMoved
<1>9. /\ ctu' \in [cv : 0..MaxInt, q : BOOLEAN, prev : BOOLEAN]
      /\ ctd' \in [cv : Counts!CounterValues, q : BOOLEAN, prev : BOOLEAN]
      /\ ctud' \in [cv : Counts!CounterValues, qu : BOOLEAN, qd : BOOLEAN,
                prevU : BOOLEAN, prevD : BOOLEAN]
  BY <1>8 DEF Counts!Scan, Counts!CtuCall, Counts!CtdCall, Counts!CtudCall
<1>10. /\ ups' \in Nat /\ downs' \in Nat /\ base' \in Counts!CounterValues
       /\ net' \in MinInt - 1..MaxInt + 1
  BY <1>2, <1>3 DEF Counts!Scan, Counts!Observe, Counts!CounterValues
<1>11. inRange' \in BOOLEAN
  BY Zenon DEF Counts!Scan, Counts!Observe
<1>12. pv' \in Counts!CounterValues /\ {cu', cd', r', ld'} \subseteq BOOLEAN
  BY <1>2 DEF Counts!Scan
<1>13. QED
  BY <1>9, <1>10, <1>11, <1>12 DEF Counts!TypeOK, Counts!CounterValues

\* The values and the edges, after a scan.
LEMMA CountersAgree ==
  ASSUME Counts!IInv, NEW u \in BOOLEAN, NEW d \in BOOLEAN, NEW reset \in BOOLEAN,
         NEW load \in BOOLEAN, NEW p \in Numbers, Counts!Scan(u, d, reset, load, p)
  PROVE  Counts!SumsInRange' /\ Counts!CountsEveryEdge' /\ Counts!NetOfEdges'
<1> DEFINE rise == u /\ ~cu
           fall == d /\ ~cd
           sum == net + (IF rise THEN 1 ELSE 0) - (IF fall THEN 1 ELSE 0)
           stays == sum \in Counts!CounterValues /\ ~(rise /\ net = MaxInt)
<1>1. CountersMoved(u, d, reset, load, p)
  BY CountersScanned
<1>2. /\ MaxInt \in Nat /\ MinInt \in Int /\ MinInt < 0 /\ p \in MinInt..MaxInt
  BY CountersAssumption DEF Counts!RangeAssumption, Counts!PresetsAssumption, Counts!CounterValues
<1>3. /\ ctu.cv \in 0..MaxInt /\ ctd.cv \in MinInt..MaxInt /\ ctud.cv \in MinInt..MaxInt
      /\ ups \in Nat /\ downs \in Nat /\ base \in MinInt..MaxInt
      /\ net \in MinInt - 1..MaxInt + 1
      /\ ctu.cv = ups /\ ctd.cv = base - downs
      /\ inRange => ctud.cv = net /\ net \in MinInt..MaxInt
  BY DEF Counts!IInv, Counts!TypeOK, Counts!CounterValues, Counts!SumsInRange,
     Counts!CountsEveryEdge,
         Counts!NetOfEdges
<1>4. /\ ups' = IF reset THEN 0 ELSE IF rise /\ ups < MaxInt THEN ups + 1 ELSE ups
      /\ base' = IF load THEN p ELSE base
      /\ downs' = IF load THEN 0 ELSE IF fall /\ base - downs > MinInt THEN downs + 1 ELSE downs
      /\ net' = IF reset THEN 0 ELSE IF load THEN p ELSE IF inRange /\ stays THEN sum ELSE net
      /\ inRange' = (reset \/ load \/ (inRange /\ stays))
  BY Zenon DEF Counts!Scan, Counts!Observe
<1>5. rise \in BOOLEAN /\ fall \in BOOLEAN
  OBVIOUS
<1>6. /\ ctu'.cv = IF reset THEN 0 ELSE Counts!Up(ctu.cv, rise)
      /\ ctd'.cv = IF load THEN p ELSE Counts!Down(ctd.cv, fall)
      /\ ctud'.cv = IF reset THEN 0 ELSE IF load THEN p
                    ELSE Counts!Down(Counts!Up(ctud.cv, rise), fall)
  BY <1>1 DEF CountersMoved
<1>7. stays <=> sum \in MinInt..MaxInt /\ ~(rise /\ net = MaxInt)
  BY DEF Counts!CounterValues
<1> HIDE DEF rise, fall, stays
<1>8. ctu'.cv = ups'
  BY <1>2, <1>3, <1>4, <1>5, <1>6 DEF Counts!Up
<1>9. ctd'.cv = base' - downs'
  BY <1>2, <1>3, <1>4, <1>5, <1>6 DEF Counts!Down
<1>10. reset \/ load => ctud'.cv = net' /\ net' \in MinInt..MaxInt
  BY <1>2, <1>4, <1>6
<1>11. ~(reset \/ load) /\ inRange /\ stays => ctud'.cv = net' /\ net' \in MinInt..MaxInt
  BY <1>2, <1>3, <1>4, <1>5, <1>6, <1>7 DEF Counts!Up, Counts!Down
<1>12. QED
  BY <1>4, <1>8, <1>9, <1>10, <1>11 DEF Counts!SumsInRange, Counts!CountsEveryEdge,
     Counts!NetOfEdges, Counts!CounterValues

\* Every number of edges, resets and loads in any order of the scans.
LEMMA CountersStep == ASSUME Counts!IInv, [Counts!Next]_(Counts!vars) PROVE Counts!IInv'
<1>1. CASE Counts!Reset
  BY <1>1, CountersReset
<1>2. ASSUME NEW u \in BOOLEAN, NEW d \in BOOLEAN, NEW reset \in BOOLEAN, NEW load \in BOOLEAN,
             NEW p \in Numbers, Counts!Scan(u, d, reset, load, p)
      PROVE  Counts!IInv'
  BY <1>2, CountersScanned, CountersTyped, CountersAgree DEF Counts!IInv
<1>3. CASE UNCHANGED Counts!vars
  BY <1>3 DEF Counts!vars, Counts!inputs, Counts!IInv, Counts!TypeOK, Counts!EdgesSeen,
     Counts!SumsInRange, Counts!CountsEveryEdge, Counts!NetOfEdges
<1>4. QED
  BY <1>1, <1>2, <1>3 DEF Counts!Next

\* A step never takes a counter around the end of its type.
LEMMA CountersNeverWrap ==
  ASSUME Counts!IInv, [Counts!Next]_(Counts!vars)
  PROVE  [\/ r' \/ ld' \/ Counts!inputs' = <<FALSE, FALSE, FALSE, FALSE, pv>>
          \/ /\ ctu'.cv - ctu.cv \in 0..1 /\ ctd.cv - ctd'.cv \in 0..1
             /\ ctud'.cv - ctud.cv \in -1..1]_(Counts!vars)
<1>1. CASE Counts!Reset
  BY <1>1 DEF Counts!Reset, Counts!inputs
<1>2. ASSUME NEW u \in BOOLEAN, NEW d \in BOOLEAN, NEW reset \in BOOLEAN, NEW load \in BOOLEAN,
             NEW p \in Numbers, Counts!Scan(u, d, reset, load, p)
      PROVE  \/ r' \/ ld'
             \/ /\ ctu'.cv - ctu.cv \in 0..1 /\ ctd.cv - ctd'.cv \in 0..1
                /\ ctud'.cv - ctud.cv \in -1..1
  <2>1. CountersMoved(u, d, reset, load, p) /\ r' = reset /\ ld' = load
    BY <1>2, CountersScanned DEF Counts!Scan
  <2>2. /\ ctu.cv \in Counts!CounterValues /\ ctd.cv \in Counts!CounterValues
        /\ ctud.cv \in Counts!CounterValues
        /\ MaxInt \in Nat /\ MinInt \in Int
    BY CountersAssumption
    DEF Counts!IInv, Counts!TypeOK, Counts!CounterValues, Counts!RangeAssumption
  <2>3. (u /\ ~cu) \in BOOLEAN /\ (d /\ ~cd) \in BOOLEAN
    OBVIOUS
  <2>4. /\ Counts!Up(ctud.cv, u /\ ~cu) \in Counts!CounterValues
        /\ Counts!Up(ctud.cv, u /\ ~cu) - ctud.cv \in 0..1
        /\ Counts!Up(ctu.cv, u /\ ~cu) - ctu.cv \in 0..1
        /\ ctd.cv - Counts!Down(ctd.cv, d /\ ~cd) \in 0..1
    BY <2>2, <2>3, CounterMoves
  <2>5. Counts!Up(ctud.cv, u /\ ~cu)
          - Counts!Down(Counts!Up(ctud.cv, u /\ ~cu), d /\ ~cd) \in 0..1
        /\ Counts!Down(Counts!Up(ctud.cv, u /\ ~cu), d /\ ~cd) \in Counts!CounterValues
    BY <2>3, <2>4, CounterMoves
  <2>6. ~reset /\ ~load =>
          /\ ctu'.cv - ctu.cv \in 0..1 /\ ctd.cv - ctd'.cv \in 0..1
          /\ ctud'.cv - ctud.cv \in -1..1
    BY <2>1, <2>2, <2>4, <2>5 DEF CountersMoved, Counts!CounterValues
  <2>7. QED
    BY <2>1, <2>6
<1>3. QED
  BY <1>1, <1>2 DEF Counts!Next

-----------------------------------------------------------------------------
(* Latches and triggers. *)

LEMMA LatchesInit == ASSUME Bits!Init PROVE Bits!IInv
<1>1. {sr, rs, clk, driven} \subseteq BOOLEAN /\ last \in {"none", "rising", "falling"}
  BY DEF Bits!Init
<1>2. {rising, falling} \subseteq Bits!Trigger
  BY DEF Bits!Init, Bits!Trigger
<1>3. Bits!LatchesAreDual
  BY Zenon DEF Bits!Init, Bits!LatchesAreDual
<1>4. rising.prev = FALSE /\ falling.prev = FALSE /\ last # "rising"
  BY Zenon DEF Bits!Init
<1>5. QED
  BY <1>1, <1>2, <1>3, <1>4 DEF Bits!IInv, Bits!TypeOK, Bits!TriggersAgree

\* A scan in the terms of its inputs.
LEMMA LatchesScanned ==
  ASSUME Bits!IInv, NEW s \in BOOLEAN, NEW t \in BOOLEAN, NEW c \in BOOLEAN, Bits!Scan(s, t, c)
  PROVE  /\ rising'.prev = c /\ falling'.prev = c
         /\ rising'.q <=> c /\ last # "rising"
         /\ falling'.q <=> ~c /\ last = "rising"
         /\ clk' = c
         /\ last' = IF c THEN "rising" ELSE IF last = "rising" THEN "falling" ELSE last
         /\ rs' = (~t /\ (s \/ rs)) /\ sr' = (t \/ (~s /\ sr)) /\ driven' = (driven \/ s \/ t)
<1>1. rising.prev = falling.prev /\ (rising.prev <=> last = "rising")
  BY DEF Bits!IInv, Bits!TriggersAgree
<1>2. /\ rising' = Bits!RTrigCall(rising, c) /\ falling' = Bits!FTrigCall(falling, c)
      /\ clk' = c
      /\ last' = IF rising'.q THEN "rising" ELSE IF falling'.q THEN "falling" ELSE last
  BY Zenon DEF Bits!Scan
<1>3. /\ rising'.prev = c /\ rising'.q = (c /\ ~rising.prev)
      /\ falling'.prev = c /\ falling'.q = (~c /\ falling.prev)
  BY <1>2, Zenon DEF Bits!RTrigCall, Bits!FTrigCall
<1>4. (rising'.q <=> c /\ last # "rising") /\ (falling'.q <=> ~c /\ last = "rising")
  BY <1>1, <1>3, Zenon
<1>5. last' = IF c THEN "rising" ELSE IF last = "rising" THEN "falling" ELSE last
  BY <1>2, <1>4, Zenon
<1>6. rs' = (~t /\ (s \/ rs)) /\ sr' = (t \/ (~s /\ sr)) /\ driven' = (driven \/ s \/ t)
  BY Zenon DEF Bits!Scan, Bits!RsCall, Bits!SrCall
<1>7. QED
  BY <1>2, <1>3, <1>4, <1>5, <1>6, Zenon

LEMMA LatchesStep == ASSUME Bits!IInv, [Bits!Next]_(Bits!vars) PROVE Bits!IInv'
<1>1. /\ sr \in BOOLEAN /\ rs \in BOOLEAN /\ clk \in BOOLEAN /\ driven \in BOOLEAN
      /\ rising \in Bits!Trigger /\ falling \in Bits!Trigger
      /\ last \in {"none", "rising", "falling"} /\ (driven => rs = ~sr)
  BY DEF Bits!IInv, Bits!TypeOK, Bits!LatchesAreDual
<1>2. ASSUME NEW s \in BOOLEAN, NEW t \in BOOLEAN, NEW c \in BOOLEAN, Bits!Scan(s, t, c)
      PROVE  Bits!IInv'
  <2>1. /\ rising'.prev = c /\ falling'.prev = c
        /\ clk' = c
        /\ last' = IF c THEN "rising" ELSE IF last = "rising" THEN "falling" ELSE last
        /\ rs' = (~t /\ (s \/ rs)) /\ sr' = (t \/ (~s /\ sr)) /\ driven' = (driven \/ s \/ t)
    BY <1>2, LatchesScanned
  <2>2. rs' \in BOOLEAN /\ sr' \in BOOLEAN /\ driven' \in BOOLEAN /\ clk' \in BOOLEAN
    BY <2>1, Zenon
  <2>3. rising' \in Bits!Trigger /\ falling' \in Bits!Trigger
    BY <1>2 DEF Bits!Scan, Bits!RTrigCall, Bits!FTrigCall, Bits!Trigger
  <2>4. last' \in {"none", "rising", "falling"} /\ (last' = "rising" <=> c)
    BY <1>1, <2>1
  <2>5. driven' => rs' = ~sr'
    BY <1>1, <2>1, Zenon
  <2>6. Bits!TypeOK'
    BY <2>2, <2>3, <2>4 DEF Bits!TypeOK
  <2>7. Bits!LatchesAreDual'
    BY <2>5 DEF Bits!LatchesAreDual
  <2>8. Bits!TriggersAgree'
    BY <2>1, <2>4, Zenon DEF Bits!TriggersAgree
  <2>9. QED
    BY <2>6, <2>7, <2>8 DEF Bits!IInv
<1>3. CASE Bits!ResetLatches
  BY <1>1, <1>3
  DEF Bits!ResetLatches, Bits!IInv, Bits!TypeOK, Bits!LatchesAreDual, Bits!TriggersAgree
<1>4. CASE Bits!ResetTriggers
  <2>1. rising' \in Bits!Trigger /\ falling' \in Bits!Trigger
    BY <1>1, <1>4 DEF Bits!ResetTriggers, Bits!Trigger
  <2>2. rising'.prev = FALSE /\ falling'.prev = FALSE
    BY <1>1, <1>4 DEF Bits!ResetTriggers, Bits!Trigger
  <2>3. last' = "none" /\ UNCHANGED <<sr, rs, clk, driven>>
    BY <1>4 DEF Bits!ResetTriggers
  <2>4. Bits!TypeOK' /\ Bits!LatchesAreDual'
    BY <1>1, <2>1, <2>3 DEF Bits!TypeOK, Bits!LatchesAreDual
  <2>5. Bits!TriggersAgree'
    BY <2>2, <2>3 DEF Bits!TriggersAgree
  <2>6. QED
    BY <2>4, <2>5 DEF Bits!IInv
<1>5. CASE UNCHANGED Bits!vars
  BY <1>5 DEF Bits!vars, Bits!IInv, Bits!TypeOK, Bits!LatchesAreDual, Bits!TriggersAgree
<1>6. QED
  BY <1>2, <1>3, <1>4, <1>5 DEF Bits!Next

\* No edge of the clock is reported twice, and none is lost.
LEMMA TriggersAlternate ==
  ASSUME Bits!IInv
  PROVE  (\E s, t, c \in BOOLEAN : Bits!Scan(s, t, c)) =>
           /\ rising'.q => last # "rising"
           /\ falling'.q => last = "rising"
           /\ last # "none" => (clk' <=> last' = "rising")
<1> SUFFICES ASSUME NEW s \in BOOLEAN, NEW t \in BOOLEAN, NEW c \in BOOLEAN, Bits!Scan(s, t, c)
             PROVE  /\ rising'.q => last # "rising"
                    /\ falling'.q => last = "rising"
                    /\ last # "none" => (clk' <=> last' = "rising")
  OBVIOUS
<1>1. /\ rising'.q <=> c /\ last # "rising"
      /\ falling'.q <=> ~c /\ last = "rising"
      /\ clk' = c
      /\ last' = IF c THEN "rising" ELSE IF last = "rising" THEN "falling" ELSE last
  BY LatchesScanned
<1>2. QED
  BY <1>1

-----------------------------------------------------------------------------
(* Timers. *)

\* A preset or a time that a block is called with, after the negative ones are gone.
LEMMA TimesCounted ==
  ASSUME NEW x \in Times \cup Deltas
  PROVE  Delays!NonNegative(x) \in 0..MaxTime
BY TimersAssumption DEF Delays!MaxTimeAssumption, Delays!PresetsAssumption,
   Delays!DeltasAssumption, Delays!NonNegative

\* What the types say, without the records.
TimersTyped ==
  /\ MaxTime \in Nat /\ Long \in Nat /\ MaxTime <= Long
  /\ in \in BOOLEAN /\ pt \in 0..MaxTime
  /\ ton.q \in BOOLEAN /\ ton.et \in 0..MaxTime
  /\ tof.q \in BOOLEAN /\ tof.et \in 0..MaxTime /\ tof.running \in BOOLEAN
  /\ tp.q \in BOOLEAN /\ tp.et \in 0..MaxTime /\ tp.running \in BOOLEAN
  /\ high \in 0..Long /\ low \in 0..Long /\ steady \in BOOLEAN /\ expired \in BOOLEAN
  /\ pulse.on \in BOOLEAN /\ pulse.time \in 0..Long

LEMMA TimersOpened == ASSUME Delays!TypeOK PROVE TimersTyped
<1>1. MaxTime \in Nat /\ Long \in Nat /\ MaxTime <= Long
  BY TimersAssumption DEF Delays!MaxTimeAssumption, Delays!LongAssumption
<1>2. ton \in [q : BOOLEAN, et : 0..MaxTime, prev : BOOLEAN]
  BY DEF Delays!TypeOK
<1>3. /\ tof \in [q : BOOLEAN, et : 0..MaxTime, prev : BOOLEAN, running : BOOLEAN]
      /\ tp \in [q : BOOLEAN, et : 0..MaxTime, prev : BOOLEAN, running : BOOLEAN]
  BY DEF Delays!TypeOK
<1>4. pulse \in [on : BOOLEAN, time : 0..Long]
  BY DEF Delays!TypeOK
<1>5. /\ in \in BOOLEAN /\ pt \in 0..MaxTime /\ high \in 0..Long /\ low \in 0..Long
      /\ steady \in BOOLEAN /\ expired \in BOOLEAN
  BY DEF Delays!TypeOK
<1>6. QED
  BY <1>1, <1>2, <1>3, <1>4, <1>5 DEF TimersTyped

LEMMA TimersInit == ASSUME Delays!Init PROVE Delays!IInv
<1>1. 0 \in 0..MaxTime /\ 0 \in 0..Long /\ MaxTime \in Nat
  BY TimersAssumption DEF Delays!MaxTimeAssumption, Delays!LongAssumption
<1>2. /\ in = FALSE /\ pt = 0 /\ ton.q = FALSE /\ ton.et = 0 /\ ton.prev = FALSE
      /\ tof.q = FALSE /\ tof.prev = FALSE /\ tp.q = FALSE /\ tp.prev = FALSE
      /\ tp.running = FALSE /\ pulse.on = FALSE
      /\ high = 0 /\ low = 0 /\ steady = TRUE /\ expired = TRUE
  BY Zenon DEF Delays!Init, Delays!Idle
<1>3. Delays!TypeOK
  <2>1. ton \in [q : BOOLEAN, et : 0..MaxTime, prev : BOOLEAN]
    BY <1>1 DEF Delays!Init
  <2>2. /\ tof \in [q : BOOLEAN, et : 0..MaxTime, prev : BOOLEAN, running : BOOLEAN]
        /\ tp \in [q : BOOLEAN, et : 0..MaxTime, prev : BOOLEAN, running : BOOLEAN]
    BY <1>1 DEF Delays!Init, Delays!Idle
  <2>3. pulse \in [on : BOOLEAN, time : 0..Long]
    BY <1>1 DEF Delays!Init
  <2>4. QED
    BY <1>1, <1>2, <2>1, <2>2, <2>3 DEF Delays!TypeOK
<1>4. Delays!InputsSeen
  BY <1>2, Zenon DEF Delays!InputsSeen
<1>5. Delays!TonFollows /\ Delays!TofFollows
  BY <1>2 DEF Delays!TonFollows, Delays!TofFollows
<1>6. Delays!TonIsOnDelay /\ Delays!TofIsOffDelay
  BY <1>2 DEF Delays!TonIsOnDelay, Delays!TofIsOffDelay, Delays!Min
<1>7. Delays!TpIsPulse
  BY <1>2, Zenon DEF Delays!TpIsPulse
<1>8. QED
  BY <1>3, <1>4, <1>5, <1>6, <1>7 DEF Delays!IInv

LEMMA TimersReset == ASSUME Delays!IInv, Delays!Reset PROVE Delays!IInv'
<1>1. 0 \in 0..MaxTime /\ 0 \in 0..Long /\ MaxTime \in Nat /\ pt \in 0..MaxTime
  BY TimersAssumption
  DEF Delays!MaxTimeAssumption, Delays!LongAssumption, Delays!IInv, Delays!TypeOK
<1>2. /\ in' = FALSE /\ pt' = pt /\ ton'.q = FALSE /\ ton'.et = 0 /\ ton'.prev = FALSE
      /\ tof'.q = FALSE /\ tof'.prev = FALSE /\ tp'.q = FALSE /\ tp'.prev = FALSE
      /\ tp'.running = FALSE /\ pulse'.on = FALSE
      /\ high' = 0 /\ low' = 0 /\ steady' = TRUE /\ expired' = TRUE
  BY Zenon DEF Delays!Reset, Delays!Idle
<1>3. Delays!TypeOK'
  <2>1. ton' \in [q : BOOLEAN, et : 0..MaxTime, prev : BOOLEAN]
    BY <1>1 DEF Delays!Reset
  <2>2. /\ tof' \in [q : BOOLEAN, et : 0..MaxTime, prev : BOOLEAN, running : BOOLEAN]
        /\ tp' \in [q : BOOLEAN, et : 0..MaxTime, prev : BOOLEAN, running : BOOLEAN]
    BY <1>1 DEF Delays!Reset, Delays!Idle
  <2>3. pulse' \in [on : BOOLEAN, time : 0..Long]
    BY <1>1 DEF Delays!Reset
  <2>4. QED
    BY <1>1, <1>2, <2>1, <2>2, <2>3 DEF Delays!TypeOK
<1>4. Delays!InputsSeen'
  BY <1>2, Zenon DEF Delays!InputsSeen
<1>5. Delays!TonFollows' /\ Delays!TofFollows'
  BY <1>2 DEF Delays!TonFollows, Delays!TofFollows
<1>6. Delays!TonIsOnDelay' /\ Delays!TofIsOffDelay'
  BY <1>1, <1>2 DEF Delays!TonIsOnDelay, Delays!TofIsOffDelay, Delays!Min
<1>7. Delays!TpIsPulse'
  BY <1>2, Zenon DEF Delays!TpIsPulse
<1>8. QED
  BY <1>3, <1>4, <1>5, <1>6, <1>7 DEF Delays!IInv

\* The history of a scan with the preset p and the elapsed time d.
LEMMA TimersObserved ==
  ASSUME Delays!IInv, NEW i \in BOOLEAN, NEW p \in 0..MaxTime, NEW d \in 0..MaxTime,
         Delays!Observe(i, p, d)
  PROVE  /\ in' = i /\ pt' = p
         /\ high' = IF i THEN IF high + d < Long THEN high + d ELSE Long ELSE 0
         /\ steady' = (~in \/ (steady /\ p = pt))
         /\ low' = IF i THEN 0 ELSE IF low + d < Long THEN low + d ELSE Long
         /\ expired' = (~i /\ (expired \/ low' >= p))
         /\ high' \in 0..Long /\ low' \in 0..Long /\ pulse' \in [on : BOOLEAN, time : 0..Long]
<1>1. TimersTyped
  BY TimersOpened DEF Delays!IInv
<1>2. /\ in' = i /\ pt' = p
      /\ high' = IF i THEN IF high + d < Long THEN high + d ELSE Long ELSE 0
      /\ steady' = (~in \/ (steady /\ p = pt))
      /\ low' = IF i THEN 0 ELSE IF low + d < Long THEN low + d ELSE Long
      /\ expired' = (~i /\ (expired \/ low' >= p))
  BY Zenon DEF Delays!Observe, Delays!Min
<1>3. high' \in 0..Long /\ low' \in 0..Long
  BY <1>1, <1>2 DEF TimersTyped
<1>4. pulse' \in [on : BOOLEAN, time : 0..Long]
  <2> DEFINE starts == i /\ ~in /\ ~pulse.on
             time == IF (IF starts THEN d ELSE pulse.time + d) < Long
                       THEN (IF starts THEN d ELSE pulse.time + d) ELSE Long
  <2>1. pulse' = [on |-> (starts \/ pulse.on) /\ time < p,
                  time |-> IF starts \/ pulse.on THEN time ELSE 0]
    BY Zenon DEF Delays!Observe, Delays!Min
  <2>2. time \in 0..Long /\ 0 \in 0..Long
    BY <1>1 DEF TimersTyped
  <2>3. ((starts \/ pulse.on) /\ time < p) \in BOOLEAN
    OBVIOUS
  <2> HIDE DEF starts, time
  <2>4. QED
    BY <2>1, <2>2, <2>3
<1>5. QED
  BY <1>2, <1>3, <1>4

\* TON in a scan.
LEMMA TonStep ==
  ASSUME Delays!IInv, NEW i \in BOOLEAN, NEW p \in 0..MaxTime, NEW d \in 0..MaxTime,
         ton' = Delays!TonCall(ton, i, p, d), Delays!Observe(i, p, d)
  PROVE  /\ ton' \in [q : BOOLEAN, et : 0..MaxTime, prev : BOOLEAN] /\ ton'.prev = i
         /\ Delays!TonFollows' /\ Delays!TonIsOnDelay'
<1> DEFINE sum == IF ton.et + d < MaxTime THEN ton.et + d ELSE MaxTime
           et == IF ~i THEN 0 ELSE IF ton.et < p THEN IF sum < p THEN sum ELSE p ELSE ton.et
<1>1. TimersTyped
  BY TimersOpened DEF Delays!IInv
<1>2. /\ ton.q <=> in /\ ton.et >= pt
      /\ ton.et <= high
      /\ ~in => ton.et = 0 /\ high = 0
      /\ steady => ton.et = IF high < pt THEN high ELSE pt
  BY DEF Delays!IInv, Delays!TonFollows, Delays!TonIsOnDelay, Delays!Min
<1>3. /\ in' = i /\ pt' = p
      /\ high' = IF i THEN IF high + d < Long THEN high + d ELSE Long ELSE 0
      /\ steady' = (~in \/ (steady /\ p = pt))
  BY TimersObserved
<1>4. ton' = [q |-> i /\ et >= p, et |-> et, prev |-> i]
  BY Zenon DEF Delays!TonCall, Delays!SatAdd, Delays!Min
<1>5. et \in 0..MaxTime
  BY <1>1 DEF TimersTyped
<1>6. /\ et <= high'
      /\ ~i => et = 0 /\ high' = 0
  BY <1>1, <1>2, <1>3 DEF TimersTyped
<1>7. steady' => et = IF high' < p THEN high' ELSE p
  <2> SUFFICES ASSUME steady' PROVE et = IF high' < p THEN high' ELSE p
    OBVIOUS
  <2>1. CASE ~i
    BY <1>1, <1>3, <2>1 DEF TimersTyped
  <2>2. CASE i /\ ~in
    <3>1. ton.et = 0 /\ high = 0 /\ high' = IF d < Long THEN d ELSE Long
      BY <1>2, <1>3, <2>2
    <3>2. QED
      BY <1>1, <2>2, <3>1 DEF TimersTyped
  <2>3. CASE i /\ in
    <3>1. p = pt /\ ton.et = IF high < p THEN high ELSE p
      BY <1>2, <1>3, <2>3
    <3>2. high' = IF high + d < Long THEN high + d ELSE Long
      BY <1>3, <2>3
    <3>3. QED
      BY <1>1, <2>3, <3>1, <3>2 DEF TimersTyped
  <2>4. QED
    BY <2>1, <2>2, <2>3
<1> HIDE DEF et
<1>8. ton'.et = et /\ ton'.prev = i /\ ton'.q = (i /\ et >= p)
  <2> DEFINE q == i /\ et >= p
  <2>1. ton' = [q |-> q, et |-> et, prev |-> i]
    BY <1>4
  <2> HIDE DEF q
  <2>2. ton'.et = et /\ ton'.prev = i /\ ton'.q = q
    BY <2>1
  <2>3. QED
    BY <2>2 DEF q
<1>9. ton' \in [q : BOOLEAN, et : 0..MaxTime, prev : BOOLEAN]
  BY <1>4, <1>5
<1>10. Delays!TonFollows'
  BY <1>3, <1>6, <1>8 DEF Delays!TonFollows
<1>11. Delays!TonIsOnDelay'
  <2>1. high' \in 0..Long
    BY TimersObserved
  <2>2. ton'.q => in' /\ high' >= pt'
    <3>1. et >= p => high' >= p
      BY <1>5, <1>6, <2>1
    <3>2. QED
      BY <1>3, <1>8, <3>1, Zenon
  <2>3. in' /\ steady' /\ high' >= pt' => ton'.q
    <3>1. steady' /\ high' >= p => et >= p
      BY <1>7, <2>1
    <3>2. QED
      BY <1>3, <1>8, <3>1, Zenon
  <2>4. steady' => ton'.et = IF high' < pt' THEN high' ELSE pt'
    BY <1>3, <1>7, <1>8
  <2>5. QED
    BY <2>2, <2>3, <2>4 DEF Delays!TonIsOnDelay, Delays!Min
<1>12. QED
  BY <1>8, <1>9, <1>10, <1>11

\* TOF in a scan.
LEMMA TofStep ==
  ASSUME Delays!IInv, NEW i \in BOOLEAN, NEW p \in 0..MaxTime, NEW d \in 0..MaxTime,
         tof' = Delays!TofCall(tof, i, p, d), Delays!Observe(i, p, d)
  PROVE  /\ tof' \in [q : BOOLEAN, et : 0..MaxTime, prev : BOOLEAN, running : BOOLEAN]
         /\ tof'.prev = i
         /\ Delays!TofFollows' /\ Delays!TofIsOffDelay'
<1> DEFINE sum == IF tof.et + d < MaxTime THEN tof.et + d ELSE MaxTime
           some == IF tof.prev THEN d ELSE sum
           et == IF some < p THEN some ELSE p
           more == et < p
<1>1. TimersTyped
  BY TimersOpened DEF Delays!IInv
<1>2. /\ tof.prev = in
      /\ tof.q <=> in \/ ~expired
      /\ in => ~expired /\ low = 0
      /\ ~in /\ ~expired => tof.running /\ tof.et = low /\ low < pt
  BY DEF Delays!IInv, Delays!InputsSeen, Delays!TofFollows, Delays!TofIsOffDelay
<1>3. /\ in' = i /\ pt' = p
      /\ low' = IF i THEN 0 ELSE IF low + d < Long THEN low + d ELSE Long
      /\ expired' = (~i /\ (expired \/ low' >= p))
      /\ low' \in 0..Long
  BY TimersObserved
<1>4. tof' = CASE i -> [q |-> TRUE, et |-> 0, prev |-> TRUE, running |-> FALSE]
               [] ~i /\ tof.prev -> [q |-> more, et |-> et, prev |-> FALSE, running |-> TRUE]
               [] ~i /\ ~tof.prev /\ tof.running ->
                    [q |-> tof.q /\ more, et |-> et, prev |-> FALSE, running |-> more]
               [] OTHER -> [tof EXCEPT !.prev = FALSE]
  BY Zenon DEF Delays!TofCall, Delays!SatAdd, Delays!Min
<1>5. et \in 0..MaxTime /\ 0 \in 0..MaxTime
  BY <1>1 DEF TimersTyped
<1>6. more \in BOOLEAN
  OBVIOUS
<1>7. tof \in [q : BOOLEAN, et : 0..MaxTime, prev : BOOLEAN, running : BOOLEAN]
  BY DEF Delays!IInv, Delays!TypeOK
<1>8. ~i /\ in => (more <=> low' < p) /\ (more => et = low')
  BY <1>1, <1>2, <1>3 DEF TimersTyped
<1>9. ~i /\ ~in /\ ~expired => (more <=> low' < p) /\ (more => et = low')
  <2> SUFFICES ASSUME ~i, ~in, ~expired
               PROVE  (more <=> low' < p) /\ (more => et = low')
    OBVIOUS
  <2>1. some = IF low + d < MaxTime THEN low + d ELSE MaxTime
    BY <1>2
  <2>2. low' = IF low + d < Long THEN low + d ELSE Long
    BY <1>3
  <2>3. QED
    BY <1>1, <2>1, <2>2 DEF TimersTyped
<1>10. low' >= p <=> ~(low' < p)
  BY <1>3
<1> HIDE DEF et, more
<1> DEFINE Goal == /\ tof' \in [q : BOOLEAN, et : 0..MaxTime, prev : BOOLEAN, running : BOOLEAN]
                   /\ tof'.prev = i
                   /\ in' => ~expired' /\ low' = 0
                   /\ ~in' /\ ~expired' => tof'.running /\ tof'.et = low' /\ low' < pt'
                   /\ tof'.q <=> in' \/ ~expired'
<1>11. CASE i
  <2>1. tof' = [q |-> TRUE, et |-> 0, prev |-> TRUE, running |-> FALSE]
    BY <1>4, <1>11, Zenon
  <2>2. tof'.q = TRUE /\ tof'.prev = TRUE
    BY <2>1
  <2>3. tof' \in [q : BOOLEAN, et : 0..MaxTime, prev : BOOLEAN, running : BOOLEAN]
    BY <1>5, <2>1
  <2>4. Goal
    BY <1>3, <1>11, <2>2, <2>3, Zenon
  <2>5. QED
    BY <2>4 DEF Delays!TofFollows, Delays!TofIsOffDelay
<1>12. CASE ~i /\ in
  <2>1. tof' = [q |-> more, et |-> et, prev |-> FALSE, running |-> TRUE]
    BY <1>2, <1>4, <1>12, Zenon
  <2>2. tof'.q = more /\ tof'.prev = FALSE /\ tof'.running = TRUE /\ tof'.et = et
    BY <2>1
  <2>3. tof' \in [q : BOOLEAN, et : 0..MaxTime, prev : BOOLEAN, running : BOOLEAN]
    BY <1>5, <1>6, <2>1
  <2>4. Goal
    BY <1>2, <1>3, <1>8, <1>10, <1>12, <2>2, <2>3, Zenon
  <2>5. QED
    BY <2>4 DEF Delays!TofFollows, Delays!TofIsOffDelay
<1>13. CASE ~i /\ ~in /\ tof.running
  <2>1. tof' = [q |-> tof.q /\ more, et |-> et, prev |-> FALSE, running |-> more]
    BY <1>2, <1>4, <1>13, Zenon
  <2>2. tof'.q = (tof.q /\ more) /\ tof'.prev = FALSE /\ tof'.running = more /\ tof'.et = et
    <3> DEFINE q == tof.q /\ more
    <3>1. tof' = [q |-> q, et |-> et, prev |-> FALSE, running |-> more]
      BY <2>1
    <3> HIDE DEF q
    <3>2. tof'.q = q /\ tof'.prev = FALSE /\ tof'.running = more /\ tof'.et = et
      BY <3>1
    <3>3. QED
      BY <3>2 DEF q
  <2>3. tof' \in [q : BOOLEAN, et : 0..MaxTime, prev : BOOLEAN, running : BOOLEAN]
    BY <1>5, <1>6, <2>1
  <2>4. Goal
    BY <1>2, <1>3, <1>9, <1>10, <1>13, <2>2, <2>3, Zenon
  <2>5. QED
    BY <2>4 DEF Delays!TofFollows, Delays!TofIsOffDelay
<1>14. CASE ~i /\ ~in /\ ~tof.running
  <2>1. tof' = [tof EXCEPT !.prev = FALSE]
    BY <1>2, <1>4, <1>14, Zenon
  <2>2. tof'.q = tof.q /\ tof'.prev = FALSE /\ tof'.running = tof.running
    BY <1>7, <2>1
  <2>3. tof' \in [q : BOOLEAN, et : 0..MaxTime, prev : BOOLEAN, running : BOOLEAN]
    BY <1>7, <2>1
  <2>4. Goal
    BY <1>2, <1>3, <1>14, <2>2, <2>3, Zenon
  <2>5. QED
    BY <2>4 DEF Delays!TofFollows, Delays!TofIsOffDelay
<1>15. QED
  BY <1>11, <1>12, <1>13, <1>14

\* TP in a scan.
LEMMA TpStep ==
  ASSUME Delays!IInv, NEW i \in BOOLEAN, NEW p \in 0..MaxTime, NEW d \in 0..MaxTime,
         tp' = Delays!TpCall(tp, i, p, d), Delays!Observe(i, p, d)
  PROVE  /\ tp' \in [q : BOOLEAN, et : 0..MaxTime, prev : BOOLEAN, running : BOOLEAN]
         /\ tp'.prev = i
         /\ Delays!TpIsPulse'
<1> DEFINE starts == i /\ ~in /\ ~pulse.on
           from == IF starts THEN 0 ELSE tp.et
           sum == IF from + d < MaxTime THEN from + d ELSE MaxTime
           et == IF sum < p THEN sum ELSE p
           more == et < p
           kept == IF more THEN et ELSE 0
           past == IF starts THEN d ELSE pulse.time + d
           time == IF past < Long THEN past ELSE Long
<1>1. TimersTyped
  BY TimersOpened DEF Delays!IInv
<1>2. /\ tp.prev = in
      /\ tp.q <=> pulse.on
      /\ tp.running = tp.q
      /\ tp.q => tp.et = IF pulse.time < MaxTime THEN pulse.time ELSE MaxTime
      /\ tp.q \in BOOLEAN
  BY DEF Delays!IInv, Delays!InputsSeen, Delays!TpIsPulse, Delays!Min, Delays!TypeOK
<1>3. starts <=> i /\ ~tp.prev /\ ~tp.running
  BY <1>2
<1>4. tp' = IF starts \/ tp.running
              THEN [q |-> (starts \/ tp.q) /\ more, et |-> kept, prev |-> i, running |-> more]
              ELSE [tp EXCEPT !.prev = i]
  <2>1. tp' = LET s == i /\ ~tp.prev /\ ~tp.running
                  f == IF s THEN 0 ELSE tp.et
                  u == IF f + d < MaxTime THEN f + d ELSE MaxTime
                  e == IF u < p THEN u ELSE p
              IN IF s \/ tp.running
                   THEN [q |-> (s \/ tp.q) /\ e < p, et |-> IF e < p THEN e ELSE 0,
                         prev |-> i, running |-> e < p]
                   ELSE [tp EXCEPT !.prev = i]
    BY Zenon DEF Delays!TpCall, Delays!SatAdd, Delays!Min
  <2>2. starts = (i /\ ~tp.prev /\ ~tp.running)
    BY <1>3
  <2>3. QED
    BY <2>1, <2>2, Zenon
<1>5. pulse' = [on |-> (starts \/ pulse.on) /\ time < p,
                time |-> IF starts \/ pulse.on THEN time ELSE 0]
  BY Zenon DEF Delays!Observe, Delays!Min
<1>6. et \in 0..MaxTime /\ kept \in 0..MaxTime
  BY <1>1 DEF TimersTyped
<1>7. tp \in [q : BOOLEAN, et : 0..MaxTime, prev : BOOLEAN, running : BOOLEAN]
  BY DEF Delays!IInv, Delays!TypeOK
<1>8. starts \/ pulse.on => (more <=> time < p)
                            /\ (more => kept = IF time < MaxTime THEN time ELSE MaxTime)
  <2>1. CASE starts
    <3>1. past = d /\ from = 0
      BY <2>1
    <3>2. QED
      BY <1>1, <3>1 DEF TimersTyped
  <2>2. CASE ~starts /\ pulse.on
    <3>1. past = pulse.time + d /\ from = IF pulse.time < MaxTime THEN pulse.time ELSE MaxTime
      BY <1>2, <2>2
    <3>2. QED
      BY <1>1, <3>1 DEF TimersTyped
  <2>3. QED
    BY <2>1, <2>2
<1> DEFINE on == time < p
<1>9. more \in BOOLEAN /\ on \in BOOLEAN /\ starts \in BOOLEAN
  OBVIOUS
<1>10. starts \/ pulse.on => (more <=> on)
                             /\ (more => kept = IF time < MaxTime THEN time ELSE MaxTime)
  BY <1>8
<1>11. pulse' = [on |-> (starts \/ pulse.on) /\ on,
                 time |-> IF starts \/ pulse.on THEN time ELSE 0]
  BY <1>5
<1> HIDE DEF kept, more, on, starts, time
<1> DEFINE Goal ==
      /\ tp' \in [q : BOOLEAN, et : 0..MaxTime, prev : BOOLEAN, running : BOOLEAN]
      /\ tp'.prev = i
      /\ tp'.q <=> pulse'.on
      /\ tp'.running = tp'.q
      /\ tp'.q => tp'.et = IF pulse'.time < MaxTime THEN pulse'.time ELSE MaxTime
<1>12. CASE starts \/ pulse.on
  <2>1. tp' = [q |-> more, et |-> kept, prev |-> i, running |-> more]
    <3>1. ((starts \/ tp.q) /\ more) = more
      BY <1>2, <1>9, <1>12
    <3>2. tp' = [q |-> (starts \/ tp.q) /\ more, et |-> kept, prev |-> i, running |-> more]
      BY <1>2, <1>4, <1>12, Zenon
    <3>3. QED
      BY <3>1, <3>2
  <2>2. tp'.q = more /\ tp'.prev = i /\ tp'.running = more /\ tp'.et = kept
    BY <2>1
  <2>3. pulse' = [on |-> more, time |-> time]
    <3>1. ((starts \/ pulse.on) /\ on) = more
      BY <1>9, <1>10, <1>12
    <3>2. QED
      BY <1>11, <1>12, <3>1
  <2>4. pulse'.on = more /\ pulse'.time = time
    BY <2>3
  <2>5. tp' \in [q : BOOLEAN, et : 0..MaxTime, prev : BOOLEAN, running : BOOLEAN]
    BY <1>6, <1>9, <2>1
  <2>6. Goal
    BY <1>10, <1>12, <2>2, <2>4, <2>5, Zenon
  <2>7. QED
    BY <2>6 DEF Delays!TpIsPulse, Delays!Min
<1>13. CASE ~(starts \/ pulse.on)
  <2>1. tp' = [tp EXCEPT !.prev = i] /\ ~tp.q
    BY <1>2, <1>4, <1>13, Zenon
  <2>2. ~tp'.q /\ tp'.prev = i /\ tp'.running = tp'.q
    BY <1>2, <1>7, <2>1
  <2>3. ((starts \/ pulse.on) /\ on) = FALSE
    BY <1>13
  <2>4. ~pulse'.on
    BY <1>11, <2>3
  <2>5. tp' \in [q : BOOLEAN, et : 0..MaxTime, prev : BOOLEAN, running : BOOLEAN]
    BY <1>7, <2>1
  <2>6. Goal
    BY <2>2, <2>4, <2>5, Zenon
  <2>7. QED
    BY <2>6 DEF Delays!TpIsPulse, Delays!Min
<1>14. QED
  BY <1>12, <1>13

\* IInv of the timers is preserved.
LEMMA TimersStep == ASSUME Delays!IInv, [Delays!Next]_timers PROVE Delays!IInv'
<1>1. CASE Delays!Reset
  BY <1>1, TimersReset
<1>2. ASSUME NEW i \in BOOLEAN, NEW preset \in Times, NEW delta \in Deltas,
             Delays!Scan(i, preset, delta)
      PROVE  Delays!IInv'
  <2> DEFINE p == Delays!NonNegative(preset)
             d == Delays!NonNegative(delta)
  <2>1. p \in 0..MaxTime /\ d \in 0..MaxTime
    BY TimesCounted
  <2>2. /\ ton' = Delays!TonCall(ton, i, p, d)
        /\ tof' = Delays!TofCall(tof, i, p, d)
        /\ tp' = Delays!TpCall(tp, i, p, d)
        /\ Delays!Observe(i, p, d)
    BY <1>2 DEF Delays!Scan
  <2> HIDE DEF p, d
  <2>3. /\ ton' \in [q : BOOLEAN, et : 0..MaxTime, prev : BOOLEAN] /\ ton'.prev = i
        /\ Delays!TonFollows' /\ Delays!TonIsOnDelay'
    BY <2>1, <2>2, TonStep
  <2>4. /\ tof' \in [q : BOOLEAN, et : 0..MaxTime, prev : BOOLEAN, running : BOOLEAN]
        /\ tof'.prev = i /\ Delays!TofFollows' /\ Delays!TofIsOffDelay'
    BY <2>1, <2>2, TofStep
  <2>5. /\ tp' \in [q : BOOLEAN, et : 0..MaxTime, prev : BOOLEAN, running : BOOLEAN]
        /\ tp'.prev = i /\ Delays!TpIsPulse'
    BY <2>1, <2>2, TpStep
  <2>6. /\ in' = i /\ pt' = p
        /\ steady' = (~in \/ (steady /\ p = pt))
        /\ expired' = (~i /\ (expired \/ low' >= p))
        /\ high' \in 0..Long /\ low' \in 0..Long /\ pulse' \in [on : BOOLEAN, time : 0..Long]
    BY <2>1, <2>2, TimersObserved
  <2>7. steady' \in BOOLEAN /\ expired' \in BOOLEAN
    BY <2>6
  <2>8. Delays!TypeOK'
    BY <2>1, <2>3, <2>4, <2>5, <2>6, <2>7 DEF Delays!TypeOK
  <2>9. Delays!InputsSeen'
    BY <2>3, <2>4, <2>5, <2>6 DEF Delays!InputsSeen
  <2>10. QED
    BY <2>3, <2>4, <2>5, <2>8, <2>9 DEF Delays!IInv
<1>3. CASE UNCHANGED timers
  BY <1>3 DEF timers, Delays!IInv, Delays!TypeOK, Delays!InputsSeen, Delays!TonFollows,
     Delays!TofFollows, Delays!TonIsOnDelay, Delays!TofIsOffDelay, Delays!TpIsPulse
<1>4. QED
  BY <1>1, <1>2, <1>3 DEF Delays!Next

\* The blocks together.
BlocksIInv == Delays!IInv /\ Counts!IInv /\ Bits!IInv

LEMMA BlocksInductive == Spec => []BlocksIInv
<1>1. Init => BlocksIInv
  BY TimersInit, CountersInit, LatchesInit DEF Init, BlocksIInv
<1>2. BlocksIInv /\ [Next]_vars => BlocksIInv'
  <2> SUFFICES ASSUME BlocksIInv, [Next]_vars PROVE BlocksIInv'
    OBVIOUS
  <2>1. Delays!IInv'
    <3>1. [Delays!Next]_timers
      BY EachMoves DEF timers, Delays!vars, Delays!history
    <3>2. QED
      BY <3>1, TimersStep DEF BlocksIInv
  <2>2. Counts!IInv' /\ Bits!IInv'
    BY EachMoves, CountersStep, LatchesStep DEF BlocksIInv
  <2>3. QED
    BY <2>1, <2>2 DEF BlocksIInv
<1>3. QED
  BY <1>1, <1>2, PTL DEF Spec

\* For every range of the types and every sequence of inputs, presets and times: each
\* timer, counter and latch shows what IEC 61131-3 asks of it.
THEOREM BlocksAreRight == Spec => []BlocksInv
<1>1. BlocksIInv => BlocksInv
  BY DEF BlocksIInv, BlocksInv, Delays!IInv, Counts!IInv, Bits!IInv
<1>2. QED
  BY <1>1, BlocksInductive, PTL

-----------------------------------------------------------------------------
(* Logs. *)

\* The newest items of a log, with one more: the oldest makes room when it is full.
LEMMA NewestWithOne ==
  ASSUME NEW size \in Nat \ {0}, NEW Item, NEW s \in Seq(Item), Len(s) <= size,
         NEW f \in Item, NEW t \in Seq(Item),
         Len(t) = IF Len(s) < size THEN Len(s) + 1 ELSE size,
         \A i \in 1..Len(t) :
           t[i] = IF i = Len(t) THEN f ELSE IF Len(s) < size THEN s[i] ELSE s[i + 1]
  PROVE  LET all == Append(s, f)
         IN t = SubSeq(all, IF Len(all) > size THEN Len(all) - size + 1 ELSE 1, Len(all))
<1> DEFINE all == Append(s, f)
           from == IF Len(all) > size THEN Len(all) - size + 1 ELSE 1
           w == SubSeq(all, from, Len(all))
<1>1. size \in Nat \ {0} /\ Len(s) \in Nat
  OBVIOUS
<1>2. /\ all \in Seq(Item) /\ Len(all) = Len(s) + 1
      /\ \A i \in 1..Len(all) : all[i] = IF i = Len(all) THEN f ELSE s[i]
  BY <1>1
<1> HIDE DEF all
<1>3. from \in 1..Len(all) /\ from = IF Len(s) < size THEN 1 ELSE 2
  BY <1>1, <1>2
<1> HIDE DEF from
<1>4. /\ w \in Seq(Item) /\ Len(w) = Len(all) - from + 1
      /\ \A i \in 1..Len(all) - from + 1 : w[i] = all[from + i - 1]
  BY <1>1, <1>2, <1>3, SubSeqProperties
<1> HIDE DEF w
<1>5. Len(t) = Len(w)
  BY <1>1, <1>2, <1>3, <1>4
<1>6. ASSUME NEW i \in 1..Len(t) PROVE t[i] = w[i]
  <2>1. /\ from + i - 1 \in 1..Len(all) /\ i \in 1..Len(all) - from + 1
        /\ i = Len(t) <=> from + i - 1 = Len(all)
    BY <1>1, <1>2, <1>3, <1>4, <1>5
  <2>2. w[i] = IF from + i - 1 = Len(all) THEN f ELSE s[from + i - 1]
    BY <1>2, <1>4, <2>1
  <2>3. CASE i = Len(t)
    BY <2>1, <2>2, <2>3
  <2>4. CASE i # Len(t)
    BY <1>1, <1>3, <2>1, <2>2, <2>4
  <2>5. QED
    BY <2>3, <2>4
<1>7. t = w
  BY <1>4, <1>5, <1>6, SeqEqual
<1>8. QED
  BY <1>7 DEF w, from, all

-----------------------------------------------------------------------------
(* The fault recorder. *)

\* The remainder of an index that runs at most once around the ring.
LEMMA RingWrap ==
  ASSUME Recorder!RecorderAssumption, NEW x \in 0..2 * Capacity - 1
  PROVE  x % Capacity = IF x < Capacity THEN x ELSE x - Capacity
  BY DEF Recorder!RecorderAssumption, Recorder!CapacityAssumption

\* The next position.
LEMMA RecorderAdvances ==
  ASSUME Recorder!RecorderAssumption, NEW p \in Recorder!Slots
  PROVE  Recorder!Advance(p) = IF p = Capacity - 1 THEN 0 ELSE p + 1
  BY RingWrap
  DEF Recorder!RecorderAssumption, Recorder!CapacityAssumption, Recorder!Slots, Recorder!Advance

-----------------------------------------------------------------------------
(* The invariant. *)

\* A new recorder.
LEMMA RecorderInit == ASSUME Recorder!RecorderAssumption, Recorder!Init PROVE Recorder!IInv
<1>1. Recorder!Blank \in Recorder!Frames /\ Recorder!Blank.reason = "None"
  <2>1. (CHOOSE c \in Cycles : TRUE) \in Cycles
    BY DEF Recorder!RecorderAssumption
  <2>2. QED
    BY <2>1 DEF Recorder!Blank, Recorder!Frames
<1>2. Capacity \in Nat \ {0} /\ MaxCount \in Nat
  BY DEF Recorder!RecorderAssumption, Recorder!CapacityAssumption, Recorder!MaxCountAssumption
<1>3. frozen \in BOOLEAN
  BY Zenon DEF Recorder!Init
<1>4. Recorder!TypeOK
  BY <1>1, <1>2, <1>3 DEF Recorder!Init, Recorder!TypeOK, Recorder!Slots
<1>5. Recorder!PositionFollowsCount
  BY <1>2, RingWrap DEF Recorder!Init, Recorder!PositionFollowsCount
<1>6. Recorder!FaultIsLast
  BY <1>1 DEF Recorder!Init, Recorder!FaultIsLast
<1>7. QED
  BY <1>4, <1>5, <1>6 DEF Recorder!IInv

\* A frame moves the position and the count together.
LEMMA RecorderWrites ==
  ASSUME Recorder!RecorderAssumption, Recorder!IInv, NEW f \in Recorder!Frames, Recorder!Write(f)
  PROVE  /\ frames' \in [Recorder!Slots -> Recorder!Frames] /\ writePos' \in Recorder!Slots
         /\ frameCount' \in 1..MaxCount
         /\ Recorder!PositionFollowsCount'
         /\ Recorder!Newest' = writePos
         /\ \A s \in Recorder!Slots : frames'[s] = IF s = writePos THEN f ELSE frames[s]
<1>1. Capacity \in Nat \ {0} /\ MaxCount \in Nat /\ MaxCount > Capacity
  BY DEF Recorder!RecorderAssumption, Recorder!CapacityAssumption, Recorder!MaxCountAssumption
<1>2. /\ frames \in [Recorder!Slots -> Recorder!Frames] /\ writePos \in Recorder!Slots
      /\ frameCount \in 0..MaxCount
      /\ Recorder!PositionFollowsCount
  BY DEF Recorder!IInv, Recorder!TypeOK
<1>3. /\ frames' = [frames EXCEPT ![writePos] = f]
      /\ writePos' = IF writePos = Capacity - 1 THEN 0 ELSE writePos + 1
      /\ frameCount' = IF frameCount < MaxCount THEN frameCount + 1 ELSE frameCount
  BY <1>2, RecorderAdvances DEF Recorder!Write
<1>4. frames' \in [Recorder!Slots -> Recorder!Frames]
      /\ \A s \in Recorder!Slots : frames'[s] = IF s = writePos THEN f ELSE frames[s]
  BY <1>2, <1>3
<1>5. writePos' \in Recorder!Slots /\ frameCount' \in 1..MaxCount /\ Recorder!Newest' = writePos
  BY <1>1, <1>2, <1>3 DEF Recorder!Slots, Recorder!Newest
<1>6. Recorder!PositionFollowsCount'
  <2> SUFFICES ASSUME frameCount' <= Capacity PROVE writePos' = frameCount' % Capacity
    BY DEF Recorder!PositionFollowsCount
  <2>1. frameCount < Capacity /\ frameCount' = frameCount + 1
    BY <1>1, <1>2, <1>3
  <2>2. writePos = frameCount
    BY <1>1, <1>2, <2>1, RingWrap DEF Recorder!PositionFollowsCount
  <2>3. frameCount' % Capacity =
          IF frameCount' < Capacity THEN frameCount' ELSE frameCount' - Capacity
    BY <1>1, <1>2, <2>1, RingWrap
  <2>4. QED
    BY <1>1, <1>2, <1>3, <2>1, <2>2, <2>3
<1>7. QED
  BY <1>4, <1>5, <1>6

\* Every operation keeps the invariant.
LEMMA RecorderStep ==
  ASSUME Recorder!RecorderAssumption, Recorder!IInv, [Recorder!Next]_(Recorder!vars)
  PROVE  Recorder!IInv'
<1>1. ASSUME NEW c \in Cycles, NEW io \in BOOLEAN, Recorder!RecordCycle(c, io)
      PROVE  Recorder!IInv'
  <2> DEFINE f == [cycle |-> c, reason |-> "None", io |-> io]
  <2>1. f \in Recorder!Frames /\ f.reason = "None"
    BY DEF Recorder!Frames
  <2>2. Recorder!Write(f) /\ ~frozen /\ UNCHANGED <<frozen, faultIndex>>
    BY <1>1, Zenon DEF Recorder!RecordCycle, Recorder!Write
  <2>3. /\ frames' \in [Recorder!Slots -> Recorder!Frames] /\ writePos' \in Recorder!Slots
        /\ frameCount' \in 1..MaxCount
        /\ Recorder!PositionFollowsCount'
        /\ \A s \in Recorder!Slots : frames'[s] = IF s = writePos THEN f ELSE frames[s]
    BY <2>1, <2>2, RecorderWrites
  <2>4. faultIndex = Recorder!NoIndex /\ {s \in Recorder!Slots : frames[s].reason # "None"} = {}
    BY <2>2 DEF Recorder!IInv, Recorder!FaultIsLast
  <2> HIDE DEF f
  <2>5. {s \in Recorder!Slots : frames'[s].reason # "None"} = {}
    BY <2>1, <2>3, <2>4
  <2>6. Recorder!FaultIsLast'
    BY <2>2, <2>4, <2>5 DEF Recorder!FaultIsLast
  <2>7. Recorder!TypeOK'
    BY <2>2, <2>3 DEF Recorder!IInv, Recorder!TypeOK
  <2>8. QED
    BY <2>3, <2>6, <2>7 DEF Recorder!IInv
<1>2. ASSUME NEW c \in Cycles, NEW io \in BOOLEAN, NEW because \in Reasons,
             Recorder!RecordFault(c, because, io)
      PROVE  Recorder!IInv'
  <2> DEFINE f == [cycle |-> c, reason |-> because, io |-> io]
  <2>1. f \in Recorder!Frames /\ f.reason # "None"
    BY DEF Recorder!Frames, Recorder!RecorderAssumption, Recorder!ReasonsAssumption
  <2>2. Recorder!Write(f) /\ ~frozen /\ frozen' = TRUE /\ faultIndex' = writePos
    BY <1>2, Zenon DEF Recorder!RecordFault, Recorder!Write
  <2>3. /\ frames' \in [Recorder!Slots -> Recorder!Frames] /\ writePos' \in Recorder!Slots
        /\ frameCount' \in 1..MaxCount
        /\ Recorder!PositionFollowsCount' /\ Recorder!Newest' = writePos
        /\ \A s \in Recorder!Slots : frames'[s] = IF s = writePos THEN f ELSE frames[s]
    BY <2>1, <2>2, RecorderWrites
  <2>4. faultIndex = Recorder!NoIndex /\ {s \in Recorder!Slots : frames[s].reason # "None"} = {}
        /\ writePos \in Recorder!Slots
    BY <2>2 DEF Recorder!IInv, Recorder!FaultIsLast, Recorder!TypeOK
  <2> HIDE DEF f
  <2>5. {s \in Recorder!Slots : frames'[s].reason # "None"} = {writePos}
    BY <2>1, <2>3, <2>4
  <2>6. Recorder!FaultIsLast'
    BY <2>2, <2>3, <2>4, <2>5 DEF Recorder!FaultIsLast, Recorder!Slots, Recorder!NoIndex
  <2>7. Recorder!TypeOK'
    BY <2>2, <2>3, <2>4 DEF Recorder!TypeOK
  <2>8. QED
    BY <2>3, <2>6, <2>7 DEF Recorder!IInv
<1>3. CASE Recorder!Freeze
  BY <1>3
  DEF Recorder!Freeze, Recorder!IInv, Recorder!TypeOK, Recorder!PositionFollowsCount,
      Recorder!FaultIsLast, Recorder!Newest
<1>4. CASE Recorder!Reset
  <2>1. Recorder!Init'
    BY <1>4 DEF Recorder!Reset, Recorder!Init
  <2>2. Recorder!Init' => Recorder!IInv'
    BY RecorderInit, PTL
  <2>3. QED
    BY <2>1, <2>2
<1>5. CASE UNCHANGED Recorder!vars
  BY <1>5
  DEF Recorder!vars, Recorder!IInv, Recorder!TypeOK, Recorder!PositionFollowsCount,
      Recorder!FaultIsLast, Recorder!Newest
<1>6. QED
  BY <1>1, <1>2, <1>3, <1>4, <1>5 DEF Recorder!Next

\* The ring's types, its position and the place of a fault's frame, for every capacity.
THEOREM RecorderInductive ==
  ASSUME Recorder!RecorderAssumption
  PROVE  Recorder!Spec => []Recorder!IInv
<1>1. Recorder!Init => Recorder!IInv
  BY RecorderInit
<1>2. Recorder!IInv /\ [Recorder!Next]_(Recorder!vars) => Recorder!IInv'
  BY RecorderStep
<1>3. QED
  BY <1>1, <1>2, PTL DEF Recorder!Spec

-----------------------------------------------------------------------------
(* What is read. *)

\* The slot of the i-th frame in chronological order.
RecorderSlot(i) == LET oldest == IF frameCount > Capacity THEN writePos ELSE 0
           IN IF oldest + i - 1 < Capacity THEN oldest + i - 1 ELSE oldest + i - 1 - Capacity

\* The chronological frames, without remainders: the last one is the newest, and no
\* slot is read twice.
RecorderInOrder ==
  /\ Recorder!Count \in 0..Capacity
  /\ Recorder!Chronological \in [1..Recorder!Count -> Recorder!Frames]
  /\ Recorder!Chronological \in Seq(Recorder!Frames)
  /\ Len(Recorder!Chronological) = Recorder!Count
  /\ \A i \in 1..Recorder!Count :
       RecorderSlot(i) \in Recorder!Slots /\ Recorder!Chronological[i] = frames[RecorderSlot(i)]
  /\ \A i, j \in 1..Recorder!Count : RecorderSlot(i) = RecorderSlot(j) => i = j
  /\ Recorder!Count > 0 => RecorderSlot(Recorder!Count) = Recorder!Newest

LEMMA RecorderOrder == ASSUME Recorder!RecorderAssumption, Recorder!IInv PROVE RecorderInOrder
<1> DEFINE oldest == IF frameCount > Capacity THEN writePos ELSE 0
<1>1. /\ Capacity \in Nat \ {0} /\ writePos \in 0..Capacity - 1 /\ frameCount \in Nat
      /\ frames \in [Recorder!Slots -> Recorder!Frames] /\ Recorder!PositionFollowsCount
  BY DEF Recorder!RecorderAssumption, Recorder!CapacityAssumption, Recorder!MaxCountAssumption,
     Recorder!IInv, Recorder!TypeOK, Recorder!Slots
<1>2. Recorder!Count \in 0..Capacity /\ Recorder!Count \in Nat
  BY <1>1 DEF Recorder!Count
<1>3. ASSUME NEW i \in 1..Recorder!Count
      PROVE  (oldest + i - 1) % Capacity = RecorderSlot(i) /\ RecorderSlot(i) \in Recorder!Slots
  <2>1. oldest \in 0..Capacity - 1
    BY <1>1
  <2>2. RecorderSlot(i) =
          IF oldest + i - 1 < Capacity THEN oldest + i - 1 ELSE oldest + i - 1 - Capacity
    BY Zenon DEF RecorderSlot, oldest
  <2> HIDE DEF oldest
  <2> DEFINE x == oldest + i - 1
  <2>3. x \in 0..2 * Capacity - 1
    BY <1>1, <1>2, <2>1
  <2>4. x % Capacity = IF x < Capacity THEN x ELSE x - Capacity
    <3> HIDE DEF x
    <3>1. QED
      BY <1>1, <2>3, RingWrap
  <2>5. QED
    BY <1>1, <1>2, <2>1, <2>2, <2>3, <2>4 DEF Recorder!Slots
<1>4. Recorder!Chronological = [i \in 1..Recorder!Count |-> frames[(oldest + i - 1) % Capacity]]
  BY Zenon DEF Recorder!Chronological
<1> HIDE DEF oldest
<1>5. \A i \in 1..Recorder!Count : Recorder!Chronological[i] = frames[RecorderSlot(i)]
  BY <1>3, <1>4
<1>6. Recorder!Chronological \in [1..Recorder!Count -> Recorder!Frames]
  BY <1>1, <1>3, <1>4
<1>7. Recorder!Chronological \in Seq(Recorder!Frames)
      /\ Len(Recorder!Chronological) = Recorder!Count
  BY <1>2, <1>6
<1>8. \A i, j \in 1..Recorder!Count : RecorderSlot(i) = RecorderSlot(j) => i = j
  BY <1>1, <1>2 DEF RecorderSlot
<1>9. Recorder!Count > 0 => RecorderSlot(Recorder!Count) = Recorder!Newest
  <2>1. CASE frameCount > Capacity
    BY <1>1, <1>2, <2>1 DEF RecorderSlot, Recorder!Newest, Recorder!Count
  <2>2. CASE frameCount = Capacity
    <3>1. writePos = 0
      BY <1>1, <2>2, RingWrap DEF Recorder!PositionFollowsCount
    <3>2. QED
      BY <1>1, <2>2, <3>1 DEF RecorderSlot, Recorder!Newest, Recorder!Count
  <2>3. CASE frameCount < Capacity
    <3>1. writePos = frameCount
      BY <1>1, <2>3, RingWrap DEF Recorder!PositionFollowsCount
    <3>2. QED
      BY <1>1, <2>3, <3>1 DEF RecorderSlot, Recorder!Newest, Recorder!Count
  <2>4. QED
    BY <1>1, <2>1, <2>2, <2>3
<1>10. QED
  BY <1>2, <1>3, <1>5, <1>6, <1>7, <1>8, <1>9 DEF RecorderInOrder

\* The fault's frame is the last a reader gets, and the only one with a reason.
LEMMA FaultNewest ==
  ASSUME Recorder!RecorderAssumption, Recorder!IInv
  PROVE  Recorder!FaultIsNewest
<1> DEFINE all == Recorder!Chronological
           faulty == {i \in 1..Len(all) : all[i].reason # "None"}
<1>1. /\ Recorder!Count \in 0..Capacity /\ Len(all) = Recorder!Count
      /\ \A i \in 1..Recorder!Count :
           RecorderSlot(i) \in Recorder!Slots /\ all[i] = frames[RecorderSlot(i)]
      /\ \A i, j \in 1..Recorder!Count : RecorderSlot(i) = RecorderSlot(j) => i = j
      /\ Recorder!Count > 0 => RecorderSlot(Recorder!Count) = Recorder!Newest
  BY RecorderOrder DEF RecorderInOrder
<1>2. Capacity \in Nat \ {0} /\ frameCount \in Nat
  BY DEF Recorder!RecorderAssumption, Recorder!CapacityAssumption, Recorder!MaxCountAssumption,
     Recorder!IInv, Recorder!TypeOK
<1> HIDE DEF all
<1>3. CASE faultIndex = Recorder!NoIndex
  <2>1. faulty = {}
    BY <1>1, <1>3 DEF Recorder!IInv, Recorder!FaultIsLast
  <2>2. QED
    BY <1>3, <2>1 DEF Recorder!FaultIsNewest, all
<1>4. CASE faultIndex # Recorder!NoIndex
  <2>1. /\ frozen /\ frameCount > 0 /\ faultIndex = Recorder!Newest
        /\ \A s \in Recorder!Slots : frames[s].reason # "None" <=> s = faultIndex
        /\ faultIndex \in Recorder!Slots
    BY <1>4 DEF Recorder!IInv, Recorder!FaultIsLast, Recorder!TypeOK
  <2>2. Recorder!Count > 0 /\ Recorder!Count \in 1..Recorder!Count
    BY <1>1, <1>2, <2>1 DEF Recorder!Count
  <2>3. \A i \in 1..Recorder!Count : all[i].reason # "None" <=> i = Recorder!Count
    BY <1>1, <2>1, <2>2
  <2>4. faulty = {Len(all)}
    BY <1>1, <2>2, <2>3
  <2>5. all # <<>> /\ all[Len(all)] = frames[faultIndex]
    BY <1>1, <2>1, <2>2
  <2>6. QED
    BY <1>4, <2>1, <2>4, <2>5 DEF Recorder!FaultIsNewest, all
<1>5. QED
  BY <1>3, <1>4

\* recent_frames() is frames_chronological() from its other end.
LEMMA RecentReversed ==
  ASSUME Recorder!RecorderAssumption, Recorder!IInv
  PROVE  Recorder!RecentIsReversed
<1> DEFINE all == Recorder!Chronological
<1>1. /\ Recorder!Count \in 0..Capacity /\ Len(all) = Recorder!Count
      /\ \A i \in 1..Recorder!Count : all[i] = frames[RecorderSlot(i)]
  BY RecorderOrder DEF RecorderInOrder
<1>2. /\ Capacity \in Nat \ {0} /\ writePos \in 0..Capacity - 1 /\ frameCount \in Nat
      /\ Recorder!PositionFollowsCount
  BY DEF Recorder!RecorderAssumption, Recorder!CapacityAssumption, Recorder!MaxCountAssumption,
     Recorder!IInv, Recorder!TypeOK, Recorder!Slots
<1> HIDE DEF all
<1> SUFFICES ASSUME NEW n \in 0..Capacity + 1
             PROVE  LET k == Len(Recorder!Recent(n))
                    IN /\ k = IF n < Len(all) THEN n ELSE Len(all)
                       /\ \A i \in 1..k : Recorder!Recent(n)[i] = all[Len(all) - i + 1]
  BY DEF Recorder!RecentIsReversed, all
<1> DEFINE k == IF n < Recorder!Count THEN n ELSE Recorder!Count
           at(i) == IF writePos = 0 THEN Capacity - i ELSE (writePos + Capacity - i) % Capacity
<1>3. k \in Nat /\ k <= Recorder!Count
  BY <1>1
<1>4. Recorder!Recent(n) = [i \in 1..k |-> frames[at(i)]]
  BY Zenon DEF Recorder!Recent
<1>5. ASSUME NEW i \in 1..k
      PROVE  at(i) = RecorderSlot(Recorder!Count - i + 1)
             /\ Recorder!Count - i + 1 \in 1..Recorder!Count
  <2>0. i \in 1..Recorder!Count
    BY <1>1, <1>3
  <2>1. Recorder!Count - i + 1 \in 1..Recorder!Count
    BY <1>1, <2>0
  <2>2. writePos # 0 =>
          at(i) = IF writePos + Capacity - i < Capacity THEN writePos + Capacity - i
                  ELSE writePos - i
    <3>1. writePos + Capacity - i \in 0..2 * Capacity - 1
      BY <1>1, <1>2, <2>0
    <3>2. QED
      BY <1>2, <2>0, <3>1, RingWrap
  <2>3. CASE frameCount >= Capacity
    <3>1. Recorder!Count = Capacity /\ (frameCount = Capacity => writePos = 0)
      BY <1>2, <2>3, RingWrap DEF Recorder!Count, Recorder!PositionFollowsCount
    <3>2. at(i) = RecorderSlot(Recorder!Count - i + 1)
      BY <1>2, <2>0, <2>2, <2>3, <3>1 DEF RecorderSlot
    <3>3. QED
      BY <2>1, <3>2
  <2>4. CASE frameCount < Capacity
    <3>1. Recorder!Count = frameCount /\ writePos = frameCount
      BY <1>2, <2>4, RingWrap DEF Recorder!Count, Recorder!PositionFollowsCount
    <3>2. at(i) = RecorderSlot(Recorder!Count - i + 1)
      BY <1>2, <2>0, <2>2, <2>4, <3>1 DEF RecorderSlot
    <3>3. QED
      BY <2>1, <3>2
  <2>5. QED
    BY <1>2, <2>3, <2>4
<1> HIDE DEF at, k
<1>6. Len(Recorder!Recent(n)) = k
  BY <1>3, <1>4
<1>7. ASSUME NEW i \in 1..k PROVE Recorder!Recent(n)[i] = all[Len(all) - i + 1]
  BY <1>1, <1>4, <1>5
<1>8. QED
  BY <1>1, <1>6, <1>7 DEF k

\* For every capacity: a recorded fault is the last frame that is read and the only one
\* with a reason, and both orders of reading agree.
THEOREM RecorderReads ==
  ASSUME Recorder!RecorderAssumption
  PROVE  Recorder!Spec => [](Recorder!FaultIsNewest /\ Recorder!RecentIsReversed)
<1>1. Recorder!IInv => Recorder!FaultIsNewest /\ Recorder!RecentIsReversed
  BY FaultNewest, RecentReversed
<1>2. QED
  BY <1>1, RecorderInductive, PTL

-----------------------------------------------------------------------------
(* The ring is a window. *)

\* What a recorded frame does to the frames in order.
LEMMA RecorderPushes ==
  ASSUME Recorder!RecorderAssumption, Recorder!IInv, NEW f \in Recorder!Frames,
         Recorder!Write(f), Recorder!IInv'
  PROVE  Recorder!Window!Push(f)
<1>1. RecorderInOrder
  BY RecorderOrder
<1>2. RecorderInOrder'
  <2>1. Recorder!IInv' => RecorderInOrder'
    BY RecorderOrder, PTL
  <2>2. QED
    BY <2>1
<1>3. /\ Capacity \in Nat \ {0} /\ MaxCount \in Nat /\ MaxCount > Capacity
      /\ writePos \in 0..Capacity - 1 /\ frameCount \in Nat
      /\ frames \in [Recorder!Slots -> Recorder!Frames]
      /\ Recorder!PositionFollowsCount
  BY DEF Recorder!RecorderAssumption, Recorder!CapacityAssumption, Recorder!MaxCountAssumption,
     Recorder!IInv, Recorder!TypeOK, Recorder!Slots
<1>4. /\ writePos' = IF writePos = Capacity - 1 THEN 0 ELSE writePos + 1
      /\ frameCount' = IF frameCount < MaxCount THEN frameCount + 1 ELSE frameCount
  BY <1>3, RecorderAdvances DEF Recorder!Write, Recorder!Slots
<1>5. \A s \in Recorder!Slots : frames'[s] = IF s = writePos THEN f ELSE frames[s]
  BY <1>3 DEF Recorder!Write
<1>6. Recorder!Count' = IF Recorder!Count < Capacity THEN Recorder!Count + 1 ELSE Capacity
  BY <1>3, <1>4 DEF Recorder!Count
<1>7. ASSUME NEW i \in 1..Recorder!Count'
      PROVE  Recorder!Chronological'[i] = IF i = Recorder!Count' THEN f
                                 ELSE IF Recorder!Count < Capacity THEN Recorder!Chronological[i]
                                 ELSE Recorder!Chronological[i + 1]
  <2>1. RecorderSlot(i)' \in Recorder!Slots
        /\ Recorder!Chronological'[i] = frames'[RecorderSlot(i)']
    BY <1>2 DEF RecorderInOrder
  <2>2. CASE frameCount < Capacity
    <3>1. writePos = frameCount /\ Recorder!Count = frameCount
      BY <1>3, <2>2, RingWrap DEF Recorder!PositionFollowsCount, Recorder!Count
    <3>2. RecorderSlot(i)' = i - 1
      BY <1>3, <1>4, <1>6, <2>2, <3>1 DEF RecorderSlot
    <3>3. i # Recorder!Count' => RecorderSlot(i) = i - 1 /\ i \in 1..Recorder!Count
      BY <1>3, <1>6, <2>2, <3>1 DEF RecorderSlot
    <3>4. QED
      BY <1>1, <1>3, <1>5, <1>6, <2>1, <2>2, <3>1, <3>2, <3>3 DEF RecorderInOrder
  <2>3. CASE frameCount >= Capacity
    <3>1. Recorder!Count = Capacity /\ Recorder!Count' = Capacity
          /\ (frameCount = Capacity => writePos = 0)
      BY <1>3, <1>6, <2>3, RingWrap DEF Recorder!PositionFollowsCount, Recorder!Count
    <3>2. frameCount' > Capacity
      BY <1>3, <1>4, <2>3
    <3>3. i = Capacity => RecorderSlot(i)' = writePos
      BY <1>3, <1>4, <3>1, <3>2 DEF RecorderSlot
    <3>4. i # Capacity => RecorderSlot(i)' = RecorderSlot(i + 1)
          /\ i + 1 \in 1..Recorder!Count /\ RecorderSlot(i + 1) # writePos
      BY <1>3, <1>4, <2>3, <3>1, <3>2 DEF RecorderSlot
    <3>5. QED
      BY <1>1, <1>5, <2>1, <3>1, <3>3, <3>4 DEF RecorderInOrder
  <2>4. QED
    BY <1>3, <2>2, <2>3
<1>8. /\ Recorder!Chronological \in Seq(Recorder!Frames)
      /\ Len(Recorder!Chronological) = Recorder!Count /\ Recorder!Count <= Capacity
      /\ Recorder!Chronological' \in Seq(Recorder!Frames)
      /\ Len(Recorder!Chronological') = Recorder!Count'
  BY <1>1, <1>2, <1>3 DEF RecorderInOrder
<1>9. Recorder!Chronological' = Recorder!Window!Newest(Append(Recorder!Chronological, f), Capacity)
  <2> DEFINE s == Recorder!Chronological
             t == Recorder!Chronological'
  <2>1. /\ s \in Seq(Recorder!Frames) /\ Len(s) <= Capacity /\ t \in Seq(Recorder!Frames)
        /\ Len(t) = IF Len(s) < Capacity THEN Len(s) + 1 ELSE Capacity
        /\ \A i \in 1..Len(t) :
             t[i] = IF i = Len(t) THEN f ELSE IF Len(s) < Capacity THEN s[i] ELSE s[i + 1]
    BY <1>6, <1>7, <1>8
  <2> HIDE DEF s, t
  <2>2. t = LET all == Append(s, f)
            IN SubSeq(all, IF Len(all) > Capacity THEN Len(all) - Capacity + 1 ELSE 1, Len(all))
    BY <1>3, <2>1, NewestWithOne
  <2>3. QED
    BY <2>2 DEF Recorder!Window!Newest, s, t
<1>10. QED
  BY <1>9 DEF Recorder!Window!Push

\* For every capacity: the recorder shows the newest frames, oldest first, whatever is
\* recorded, frozen and reset.
THEOREM RecorderIsWindow ==
  ASSUME Recorder!RecorderAssumption
  PROVE  Recorder!Spec => Recorder!WindowSpec
<1>1. Recorder!Init => Recorder!Window!Init
  BY DEF Recorder!Init, Recorder!Window!Init, Recorder!Chronological, Recorder!Count,
     Recorder!RecorderAssumption, Recorder!CapacityAssumption
<1>2. Recorder!IInv /\ Recorder!IInv'
      /\ [Recorder!Next]_(Recorder!vars) => [Recorder!Window!Next]_(Recorder!Chronological)
  <2> SUFFICES ASSUME Recorder!IInv, Recorder!IInv', [Recorder!Next]_(Recorder!vars)
               PROVE  [Recorder!Window!Next]_(Recorder!Chronological)
    OBVIOUS
  <2>1. ASSUME NEW c \in Cycles, NEW io \in BOOLEAN, Recorder!RecordCycle(c, io)
        PROVE  \E x \in Recorder!Frames : Recorder!Window!Push(x)
    <3> DEFINE f == [cycle |-> c, reason |-> "None", io |-> io]
    <3>1. f \in Recorder!Frames
      BY DEF Recorder!Frames
    <3>2. Recorder!Write(f)
      BY <2>1, Zenon DEF Recorder!RecordCycle
    <3>3. Recorder!Window!Push(f)
      BY <3>1, <3>2, RecorderPushes
    <3>4. QED
      BY <3>1, <3>3
  <2>2. ASSUME NEW c \in Cycles, NEW io \in BOOLEAN, NEW because \in Reasons,
               Recorder!RecordFault(c, because, io)
        PROVE  \E x \in Recorder!Frames : Recorder!Window!Push(x)
    <3> DEFINE f == [cycle |-> c, reason |-> because, io |-> io]
    <3>1. f \in Recorder!Frames
      BY DEF Recorder!Frames
    <3>2. Recorder!Write(f)
      BY <2>2, Zenon DEF Recorder!RecordFault
    <3>3. Recorder!Window!Push(f)
      BY <3>1, <3>2, RecorderPushes
    <3>4. QED
      BY <3>1, <3>3
  <2>3. ASSUME Recorder!Freeze \/ UNCHANGED Recorder!vars PROVE UNCHANGED Recorder!Chronological
    BY <2>3 DEF Recorder!Freeze, Recorder!vars, Recorder!Chronological, Recorder!Count
  <2>4. CASE Recorder!Reset
    <3>1. Capacity \in Nat \ {0}
      BY DEF Recorder!RecorderAssumption, Recorder!CapacityAssumption
    <3>2. Recorder!Count' = 0
      BY <2>4, <3>1 DEF Recorder!Reset, Recorder!Count
    <3>3. Recorder!Chronological' = <<>>
      BY <3>2 DEF Recorder!Chronological
    <3>4. QED
      BY <3>3 DEF Recorder!Window!Next, Recorder!Window!Clear
  <2>5. QED
    BY <2>1, <2>2, <2>3, <2>4 DEF Recorder!Next, Recorder!Window!Next, Recorder!Window!Clear
<1>3. QED
  BY <1>1, <1>2, RecorderInductive, PTL
  DEF Recorder!Spec, Recorder!WindowSpec, Recorder!Window!Spec

\* The recorder as one of the units.
LEMMA RecorderMoves == Spec => Recorder!Spec
<1>1. Init => Recorder!Init
  BY DEF Init
<1>2. [Next]_vars => [Recorder!Next]_(Recorder!vars)
  BY EachMoves
<1>3. QED
  BY <1>1, <1>2, PTL DEF Spec, Recorder!Spec

\* For every capacity: what a reader of the recorder gets after any recording, freezing
\* and resetting is the window of the last frames, from either end, and a fault is its
\* newest.
THEOREM RecorderIsRight == Spec => []RecorderInv
<1>1. Recorder!RecorderAssumption
  BY RecorderAssumption DEF RecorderAssumption
<1>2. Recorder!Spec => []Recorder!IInv
  BY <1>1, RecorderInductive
<1>3. Recorder!Spec => [](Recorder!FaultIsNewest /\ Recorder!RecentIsReversed)
  BY <1>1, RecorderReads
<1>4. Recorder!IInv /\ Recorder!FaultIsNewest /\ Recorder!RecentIsReversed => RecorderInv
  BY DEF Recorder!IInv, RecorderInv
<1>5. QED
  BY <1>2, <1>3, <1>4, RecorderMoves, PTL

-----------------------------------------------------------------------------
(* The DC system time. *)

\* A quotient that is rounded down lies between the number and zero.
LEMMA QuotientBetween ==
  ASSUME NEW n \in Nat \ {0}, NEW d \in Int
  PROVE  /\ d \div n \in Int
         /\ d >= 0 => d \div n \in 0..d
         /\ d < 0 => d \div n \in d..0
<1> DEFINE q == d \div n
           s == d % n
<1>1. q \in Int /\ s \in 0..n - 1 /\ d = n * q + s
  OBVIOUS
<1> HIDE DEF q, s
<1>2. q >= 1 => n * q >= q /\ n * q >= n
  BY <1>1
<1>3. q <= -1 => n * q <= q /\ n * q <= -n
  BY <1>1
<1>4. d >= 0 => q \in 0..d
  BY <1>1, <1>2, <1>3
<1>5. d < 0 => q \in d..0
  BY <1>1, <1>2, <1>3
<1>6. QED
  BY <1>1, <1>4, <1>5 DEF q

\* The constants, without the quotient that Half stands for.
ClockSizes ==
  /\ Clock!Half \in Nat \ {0} /\ Word \in Nat /\ Word = 2 * Clock!Half
  /\ Filter \in Nat \ {0} /\ Threshold \in Nat /\ MaxElapsed \in Nat /\ MaxJumps \in Nat
  /\ Offsets \subseteq Int /\ StartTimes \subseteq 0..Word - 1 /\ 0 \in Offsets
  /\ Offsets \subseteq Clock!Signed

LEMMA ClockSized == ClockSizes
<1>1. /\ Clock!Half \in Nat \ {0} /\ Word = 2 * Clock!Half
      /\ Filter \in Nat \ {0} /\ Threshold \in Nat /\ MaxElapsed \in Nat /\ MaxJumps \in Nat
      /\ Offsets \subseteq Int /\ StartTimes \subseteq 0..Word - 1 /\ 0 \in Offsets
  BY ClockAssumption, Zenon DEF Clock!WordAssumption, Clock!OffsetsAssumption
<1>2. Word \in Nat
  BY <1>1
<1>3. \A o \in Offsets : o - 0 \in Clock!Signed
  BY <1>1, ClockAssumption, Zenon DEF Clock!OffsetsAssumption
<1>4. Offsets \subseteq Clock!Signed
  BY <1>1, <1>3
<1>5. QED
  BY <1>1, <1>2, <1>4 DEF ClockSizes

LEMMA ClockInit == ASSUME Clock!Init PROVE Clock!IInv
<1>1. ClockSizes
  BY ClockSized
<1>2. stats \in [min : Clock!Signed, max : Clock!Signed, error : BOOLEAN]
  BY <1>1 DEF Clock!Init, Clock!NewStats, ClockSizes, Clock!Signed
<1>3. 0 \in Clock!Signed
  BY <1>1 DEF ClockSizes
<1>4. Clock!TypeOK
  <2>1. active = FALSE
    BY Zenon DEF Clock!Init
  <2>2. reference \in 0..Word - 1 /\ elapsed \in 0..MaxElapsed /\ jumps \in 0..MaxJumps
    BY <1>1 DEF Clock!Init, ClockSizes
  <2>3. {correction, deviation} \subseteq Clock!Signed /\ offset \in Offsets /\ seen = {}
    BY <1>1, <1>3 DEF Clock!Init, ClockSizes
  <2>4. QED
    BY <1>2, <2>1, <2>2, <2>3 DEF Clock!TypeOK
<1>5. Clock!CorrectionIsBetween
  <2>1. 0 <= correction /\ correction <= 0 /\ ~active
    BY DEF Clock!Init
  <2>2. QED
    BY <1>1, <2>1 DEF Clock!CorrectionIsBetween, ClockSizes
<1>6. Clock!NewUntilSeen /\ Clock!StatsHold
  BY DEF Clock!Init, Clock!NewUntilSeen, Clock!StatsHold
<1>7. QED
  BY <1>4, <1>5, <1>6 DEF Clock!IInv

\* An update measures how far the correction is from the reference's offset, whatever
\* the width of the type, and goes part of the way.
LEMMA ClockMeasures ==
  ASSUME Clock!IInv, Clock!Update
  PROVE  LET d == offset - correction
         IN /\ d \in Clock!Signed
            /\ deviation' = d /\ seen' = seen \cup {d}
            /\ correction' = correction + d \div Filter
            /\ stats' = [min |-> IF stats.min < d THEN stats.min ELSE d,
                         max |-> IF stats.max > d THEN stats.max ELSE d,
                         error |-> stats.error \/ d > Threshold \/ -d > Threshold]
<1> DEFINE d == offset - correction
<1>1. /\ ClockSizes /\ elapsed \in 0..MaxElapsed /\ offset \in Offsets
      /\ correction \in Clock!Signed
      /\ reference \in StartTimes
  BY ClockSized DEF Clock!IInv, Clock!TypeOK, Clock!CorrectionIsBetween, Clock!Update
<1>2. PICK least \in Offsets, most \in Offsets : least <= correction /\ correction <= most
  BY DEF Clock!IInv, Clock!CorrectionIsBetween
<1>3. \A s \in StartTimes, o \in Offsets : s + o >= 0 /\ s + o + MaxElapsed < Word
  BY ClockAssumption, Zenon DEF Clock!OffsetsAssumption
<1>4. offset - least \in Clock!Signed /\ offset - most \in Clock!Signed
  BY <1>1, <1>2, ClockAssumption, Zenon DEF Clock!OffsetsAssumption
<1>5. d \in Clock!Signed
  BY <1>1, <1>2, <1>4 DEF ClockSizes, Clock!Signed
<1>6. /\ reference + least >= 0 /\ reference + most + MaxElapsed < Word
      /\ reference + offset >= 0 /\ reference + offset + MaxElapsed < Word
  BY <1>1, <1>2, <1>3
<1>7. Clock!Expected = reference + elapsed + correction
  <2>1. reference + elapsed + correction \in 0..Word - 1
    BY <1>1, <1>2, <1>6 DEF ClockSizes, Clock!Signed
  <2>2. QED
    BY <2>1, <1>1 DEF Clock!Expected, Clock!Smaller, Clock!Larger, ClockSizes
<1>8. Clock!Reading - Clock!Expected = d
  BY <1>1, <1>7 DEF Clock!Reading, ClockSizes, Clock!Signed
<1>9. Clock!Difference(Clock!Reading, Clock!Expected) = d
  <2>1. d + Clock!Half \in 0..Word - 1
    BY <1>1, <1>5 DEF ClockSizes, Clock!Signed
  <2> DEFINE x == d + Clock!Half
  <2>2. x % Word = x
    <3> HIDE DEF x
    <3>1. QED
      BY <1>1, <2>1 DEF ClockSizes, x
  <2>3. Clock!Difference(Clock!Reading, Clock!Expected) = (x % Word) - Clock!Half
    BY <1>8 DEF Clock!Difference
  <2>4. QED
    BY <1>1, <1>5, <2>2, <2>3 DEF ClockSizes, Clock!Signed
<1> HIDE DEF d
<1>10. /\ deviation' = d /\ seen' = seen \cup {d}
       /\ correction' = correction + d \div Filter
       /\ stats' = [min |-> IF stats.min < d THEN stats.min ELSE d,
                    max |-> IF stats.max > d THEN stats.max ELSE d,
                    error |-> stats.error \/ d > Threshold \/ -d > Threshold]
  BY <1>9, Zenon DEF Clock!Update, Clock!Filtered, Clock!Smaller, Clock!Larger
<1>11. QED
  BY <1>5, <1>10 DEF d

\* The extremes and the error after an update.
LEMMA ClockRecords ==
  ASSUME Clock!IInv, Clock!Update
  PROVE  /\ stats' \in [min : Clock!Signed, max : Clock!Signed, error : BOOLEAN]
         /\ seen' \subseteq Clock!Signed
         /\ Clock!NewUntilSeen' /\ Clock!StatsHold'
<1> DEFINE d == offset - correction
           least == IF stats.min < d THEN stats.min ELSE d
           most == IF stats.max > d THEN stats.max ELSE d
           far == d > Threshold \/ -d > Threshold
<1>1. /\ d \in Clock!Signed /\ seen' = seen \cup {d}
      /\ stats' = [min |-> least, max |-> most, error |-> stats.error \/ far]
  <2>1. stats' = [min |-> least, max |-> most,
                  error |-> stats.error \/ d > Threshold \/ -d > Threshold]
    BY ClockMeasures, Zenon
  <2>2. (stats.error \/ d > Threshold \/ -d > Threshold) = (stats.error \/ far)
    OBVIOUS
  <2>3. QED
    BY <2>1, <2>2, ClockMeasures
<1>2. /\ ClockSizes /\ stats.min \in Clock!Signed /\ stats.max \in Clock!Signed
      /\ stats.error \in BOOLEAN /\ seen \subseteq Clock!Signed
  BY ClockSized DEF Clock!IInv, Clock!TypeOK
<1>3. seen = {} => stats.min = Clock!Half - 1 /\ stats.max = -Clock!Half /\ stats.error = FALSE
  BY DEF Clock!IInv, Clock!NewUntilSeen, Clock!NewStats
<1>4. seen # {} => /\ {stats.min, stats.max} \subseteq seen
                   /\ \A x \in seen : stats.min <= x /\ x <= stats.max
                   /\ stats.error <=> \E x \in seen : x \notin -Threshold..Threshold
  BY DEF Clock!IInv, Clock!StatsHold
<1>5. far <=> d \notin -Threshold..Threshold
  BY <1>1, <1>2 DEF ClockSizes, Clock!Signed
<1>6. least \in Clock!Signed /\ most \in Clock!Signed
  BY <1>1, <1>2
<1>7. {least, most} \subseteq seen'
  BY <1>1, <1>2, <1>3, <1>4 DEF ClockSizes, Clock!Signed
<1>8. \A x \in seen' : least <= x /\ x <= most
  <2> SUFFICES ASSUME NEW x \in seen' PROVE least <= x /\ x <= most
    OBVIOUS
  <2>1. CASE x = d
    BY <1>1, <1>2, <2>1 DEF Clock!Signed, ClockSizes
  <2>2. CASE x \in seen
    <3>1. stats.min <= x /\ x <= stats.max /\ x \in Clock!Signed
      BY <1>2, <1>4, <2>2
    <3>2. QED
      BY <1>1, <1>2, <3>1 DEF Clock!Signed, ClockSizes
  <2>3. QED
    BY <1>1, <2>1, <2>2
<1> HIDE DEF d, least, most, far
<1>9. (stats.error \/ far) <=> \E x \in seen' : x \notin -Threshold..Threshold
  <2>1. stats.error <=> \E x \in seen : x \notin -Threshold..Threshold
    BY <1>3, <1>4
  <2>2. QED
    BY <1>1, <1>5, <2>1
<1>10. stats'.min = least /\ stats'.max = most /\ stats'.error = (stats.error \/ far)
  <2> DEFINE error == stats.error \/ far
  <2>1. stats' = [min |-> least, max |-> most, error |-> error]
    BY <1>1
  <2> HIDE DEF error
  <2>2. stats'.min = least /\ stats'.max = most /\ stats'.error = error
    BY <2>1
  <2>3. QED
    BY <2>2 DEF error
<1>11. stats' \in [min : Clock!Signed, max : Clock!Signed, error : BOOLEAN]
  <2>1. (stats.error \/ far) \in BOOLEAN
    OBVIOUS
  <2>2. QED
    BY <1>1, <1>6, <2>1
<1>12. seen' \subseteq Clock!Signed /\ seen' # {}
  BY <1>1, <1>2
<1>13. Clock!NewUntilSeen'
  BY <1>12 DEF Clock!NewUntilSeen
<1>14. Clock!StatsHold'
  BY <1>7, <1>8, <1>9, <1>10, Zenon DEF Clock!StatsHold
<1>15. QED
  BY <1>11, <1>12, <1>13, <1>14

\* The correction stays between offsets that the reference has had.
LEMMA ClockUpdated == ASSUME Clock!IInv, Clock!Update PROVE Clock!IInv'
<1> DEFINE d == offset - correction
           q == d \div Filter
<1>1. d \in Clock!Signed /\ deviation' = d /\ correction' = correction + q
  BY ClockMeasures
<1>2. /\ ClockSizes /\ offset \in Offsets /\ correction \in Clock!Signed /\ active \in BOOLEAN
      /\ reference \in 0..Word - 1 /\ elapsed \in 0..MaxElapsed /\ jumps \in 0..MaxJumps
      /\ active => reference \in StartTimes
  BY ClockSized DEF Clock!IInv, Clock!TypeOK, Clock!CorrectionIsBetween
<1>3. UNCHANGED <<active, reference, elapsed, offset, jumps>>
  BY DEF Clock!Update
<1>4. PICK least \in Offsets, most \in Offsets : least <= correction /\ correction <= most
  BY DEF Clock!IInv, Clock!CorrectionIsBetween
<1>5. d \in Int /\ q \in Int /\ (d >= 0 => q \in 0..d) /\ (d < 0 => q \in d..0)
  <2>1. d \in Int /\ Filter \in Nat \ {0}
    BY <1>2 DEF ClockSizes, Clock!Signed
  <2> HIDE DEF d
  <2>2. QED
    BY <2>1, QuotientBetween
<1> HIDE DEF q
<1>6. least \in Int /\ most \in Int /\ offset \in Int /\ correction \in Int
  BY <1>2, <1>4 DEF ClockSizes, Clock!Signed
<1>7. \E a, b \in Offsets : a <= correction' /\ correction' <= b
  <2>1. CASE d >= 0
    <3>1. least <= correction' /\ correction' <= offset
      BY <1>1, <1>4, <1>5, <1>6, <2>1
    <3>2. QED
      BY <1>2, <1>4, <3>1
  <2>2. CASE d < 0
    <3>1. offset <= correction' /\ correction' <= most
      BY <1>1, <1>4, <1>5, <1>6, <2>2
    <3>2. QED
      BY <1>2, <1>4, <3>1
  <2>3. QED
    BY <1>5, <2>1, <2>2
<1>8. correction' \in Clock!Signed
  <2>1. correction' \in Int /\ offset \in Clock!Signed
    BY <1>1, <1>2, <1>5, <1>6 DEF ClockSizes
  <2>2. QED
    BY <1>1, <1>2, <1>5, <1>6, <2>1 DEF ClockSizes, Clock!Signed
<1>9. Clock!CorrectionIsBetween'
  BY <1>2, <1>3, <1>7 DEF Clock!CorrectionIsBetween
<1>10. Clock!TypeOK'
  BY <1>1, <1>2, <1>3, <1>8, ClockRecords DEF Clock!TypeOK
<1>11. QED
  BY <1>9, <1>10, ClockRecords DEF Clock!IInv

LEMMA ClockStep == ASSUME Clock!IInv, [Clock!Next]_(Clock!vars) PROVE Clock!IInv'
<1>1. /\ ClockSizes /\ offset \in Offsets /\ active \in BOOLEAN /\ jumps \in 0..MaxJumps
      /\ reference \in 0..Word - 1 /\ elapsed \in 0..MaxElapsed
      /\ {correction, deviation} \subseteq Clock!Signed /\ seen \subseteq Clock!Signed
      /\ stats \in [min : Clock!Signed, max : Clock!Signed, error : BOOLEAN]
      /\ active => reference \in StartTimes
  BY ClockSized DEF Clock!IInv, Clock!TypeOK, Clock!CorrectionIsBetween
<1>2. 0 \in Offsets /\ 0 \in Clock!Signed /\ 0 \in 0..MaxElapsed /\ 0 \in 0..Word - 1
  BY <1>1 DEF ClockSizes
<1>3. Clock!NewStats \in [min : Clock!Signed, max : Clock!Signed, error : BOOLEAN]
  BY <1>1 DEF Clock!NewStats, ClockSizes, Clock!Signed
<1>4. correction' = 0 => \E a, b \in Offsets : a <= correction' /\ correction' <= b
  BY <1>2
<1>5. ASSUME NEW t \in StartTimes, Clock!Initialize(t) PROVE Clock!IInv'
  <2>1. /\ active' = TRUE /\ reference' = t /\ elapsed' = 0 /\ correction' = 0 /\ deviation' = 0
        /\ stats' = Clock!NewStats /\ offset' = 0 /\ seen' = {} /\ jumps' = jumps
    BY <1>5, Zenon DEF Clock!Initialize
  <2>2. t \in 0..Word - 1
    BY <1>1 DEF ClockSizes
  <2>3. Clock!TypeOK'
    BY <1>1, <1>2, <1>3, <2>1, <2>2 DEF Clock!TypeOK
  <2>4. QED
    BY <1>4, <2>1, <2>3
       DEF Clock!IInv, Clock!CorrectionIsBetween, Clock!NewUntilSeen, Clock!StatsHold
<1>6. CASE Clock!Clear
  <2>1. /\ active' = FALSE /\ jumps' = jumps + 1 /\ jumps < MaxJumps
        /\ reference' = 0 /\ elapsed' = 0 /\ correction' = 0 /\ stats' = Clock!NewStats
        /\ seen' = {} /\ deviation' = deviation /\ offset' = offset
    BY <1>6, Zenon DEF Clock!Clear
  <2>2. jumps' \in 0..MaxJumps
    BY <1>1, <2>1 DEF ClockSizes
  <2>3. Clock!TypeOK'
    BY <1>1, <1>2, <1>3, <2>1, <2>2 DEF Clock!TypeOK
  <2>4. QED
    BY <1>4, <2>1, <2>3
       DEF Clock!IInv, Clock!CorrectionIsBetween, Clock!NewUntilSeen, Clock!StatsHold
<1>7. ASSUME Clock!Tick \/ \E o \in Offsets : Clock!Drift(o) PROVE Clock!IInv'
  <2>1. /\ UNCHANGED <<active, reference, correction, deviation, stats, seen>>
        /\ elapsed' \in 0..MaxElapsed /\ jumps' \in 0..MaxJumps /\ offset' \in Offsets
    BY <1>1, <1>7 DEF Clock!Tick, Clock!Drift, ClockSizes
  <2>2. Clock!TypeOK'
    BY <1>1, <2>1 DEF Clock!TypeOK
  <2>3. QED
    BY <2>1, <2>2
       DEF Clock!IInv, Clock!CorrectionIsBetween, Clock!NewUntilSeen, Clock!StatsHold
<1>8. CASE UNCHANGED Clock!vars
  BY <1>8 DEF Clock!vars, Clock!IInv, Clock!TypeOK, Clock!CorrectionIsBetween,
     Clock!NewUntilSeen, Clock!StatsHold
<1>9. QED
  BY <1>5, <1>6, <1>7, <1>8, ClockUpdated DEF Clock!Next

\* An update never takes the clock past the reference.
LEMMA ClockApproaches ==
  ASSUME Clock!IInv, Clock!Update
  PROVE  LET was == offset - correction
             is == offset - correction'
         IN IF was >= 0 THEN is \in 0..was ELSE is \in was..0
<1> DEFINE d == offset - correction
           q == d \div Filter
<1>1. d \in Clock!Signed /\ correction' = correction + q
  BY ClockMeasures
<1>2. Filter \in Nat \ {0} /\ Clock!Half \in Nat /\ offset \in Int /\ correction \in Int
  BY ClockSized DEF ClockSizes, Clock!IInv, Clock!TypeOK, Clock!Signed
<1>3. d \in Int
  BY <1>2
<1>4. q \in Int /\ (d >= 0 => q \in 0..d) /\ (d < 0 => q \in d..0)
  <2> HIDE DEF d
  <2>1. QED
    BY <1>2, <1>3, QuotientBetween
<1> HIDE DEF q
<1>5. offset - correction' = d - q
  BY <1>1, <1>2, <1>4
<1>6. QED
  BY <1>2, <1>4, <1>5

LEMMA ClockInductive == Spec => []Clock!IInv
<1>1. Init => Clock!IInv
  BY ClockInit DEF Init
<1>2. Clock!IInv /\ [Next]_vars => Clock!IInv'
  BY EachMoves, ClockStep
<1>3. QED
  BY <1>1, <1>2, PTL DEF Spec

\* For every width of the type, filter and drift of the reference: the statistics are
\* those of the measurements since initialize().
THEOREM ClockIsRight == Spec => []ClockInv
<1>1. Clock!IInv => ClockInv
  BY DEF Clock!IInv, ClockInv
<1>2. QED
  BY <1>1, ClockInductive, PTL

\* In every step of a unit: no counter runs past the end of its type, no trigger reports
\* an edge twice, and the clock does not overtake the reference.
THEOREM UnitsStepRight == Spec => UnitSteps
<1>1. BlocksIInv /\ [Next]_vars =>
        [\/ r' \/ ld' \/ Counts!inputs' = <<FALSE, FALSE, FALSE, FALSE, pv>>
         \/ /\ ctu'.cv - ctu.cv \in 0..1 /\ ctd.cv - ctd'.cv \in 0..1
            /\ ctud'.cv - ctud.cv \in -1..1]_(Counts!vars)
  BY EachMoves, CountersNeverWrap DEF BlocksIInv
<1>2. BlocksIInv /\ [Next]_vars =>
        [(\E s, t, c \in BOOLEAN : Bits!Scan(s, t, c)) =>
           /\ rising'.q => last # "rising"
           /\ falling'.q => last = "rising"
           /\ last # "none" => (clk' <=> last' = "rising")]_(Bits!vars)
  BY TriggersAlternate DEF BlocksIInv
<1>3. Clock!IInv /\ [Next]_vars =>
        [Clock!Update =>
           LET was == offset - correction
               is == offset - correction'
           IN IF was >= 0 THEN is \in 0..was ELSE is \in was..0]_(Clock!vars)
  BY ClockApproaches
<1>4. Spec => Counts!NeverWraps
  BY <1>1, BlocksInductive, PTL DEF Spec, Counts!NeverWraps
<1>5. Spec => Bits!EdgesAlternate
  BY <1>2, BlocksInductive, PTL DEF Spec, Bits!EdgesAlternate
<1>6. Spec => Clock!NeverOvershoots
  BY <1>3, ClockInductive, PTL DEF Spec, Clock!NeverOvershoots
<1>7. QED
  BY <1>4, <1>5, <1>6 DEF UnitSteps

-----------------------------------------------------------------------------
(* The statistics of the cycles. *)

TimingSizes ==
  /\ Period \in Nat \ {0} /\ MaxOverrun \in Nat /\ Execs \subseteq 0..Modulus - 1
  /\ Outside \subseteq Nat /\ Wakes \subseteq Nat
  /\ Size \in Nat \ {0} /\ Modulus \in Nat \ {0}

LEMMA TimingSized == TimingSizes
BY TimingAssumption DEF TimingSizes, Timing!PeriodAssumption, Timing!TimesAssumption,
   Timing!SizeAssumption, Timing!ModulusAssumption

\* The record of the metrics, opened.
LEMMA MetricsOpened ==
  ASSUME NEW m \in Timing!Metrics
  PROVE  /\ m.samples \in [Timing!Slots -> 0..Modulus - 1] /\ m.writePos \in Timing!Slots
         /\ m.count \in 0..Size /\ m.total \in Nat
         /\ m.min \in 0..Modulus - 1 /\ m.max \in 0..Modulus - 1
         /\ m.sum \in 0..Modulus - 1 /\ m.overruns \in Nat
BY DEF Timing!Metrics

\* What recording one cycle does to every field.
LEMMA MetricsRecorded ==
  ASSUME NEW m \in Timing!Metrics, NEW e \in 0..Modulus - 1, NEW n,
         n = Timing!RecordNs(m, e, Period)
  PROVE  /\ n.samples = [m.samples EXCEPT ![m.writePos] = e]
         /\ n.writePos = (m.writePos + 1) % Size
         /\ n.count = IF m.count < Size THEN m.count + 1 ELSE Size
         /\ n.total = m.total + 1
         /\ n.min = IF e < m.min THEN e ELSE m.min
         /\ n.max = IF e > m.max THEN e ELSE m.max
         /\ n.sum = (m.sum + e) % Modulus
         /\ n.overruns = IF e > Period THEN m.overruns + 1 ELSE m.overruns
BY DEF Timing!RecordNs, Timing!Metrics

\* What the types say, opened.
TimingTyped ==
  /\ TimingSizes
  /\ now \in Nat /\ deadline \in Nat /\ exec \in Nat /\ start \in Nat /\ excess \in Nat
  /\ work \in Nat
  /\ kicks[1] \in Nat /\ kicks[2] \in Nat /\ between[1] \in Nat /\ between[2] \in Nat
  /\ done \in Seq(Execs) /\ Len(done) \in Nat
  /\ metrics \in Timing!Metrics
  /\ diag.cycles \in Nat /\ diag.overruns \in Nat

LEMMA TimingOpened == ASSUME Timing!TypeOK PROVE TimingTyped
<1>1. /\ now \in Nat /\ deadline \in Nat /\ exec \in Nat /\ start \in Nat /\ excess \in Nat
      /\ work \in Nat /\ metrics \in Timing!Metrics /\ done \in Seq(Execs)
      /\ kicks \in Nat \X Nat /\ between \in Nat \X Nat
      /\ diag \in [cycles : Nat, overruns : Nat]
  BY DEF Timing!TypeOK
<1>2. kicks[1] \in Nat /\ kicks[2] \in Nat /\ between[1] \in Nat /\ between[2] \in Nat
  BY <1>1
<1>3. diag.cycles \in Nat /\ diag.overruns \in Nat
  BY <1>1
<1>4. Len(done) \in Nat
  BY <1>1, LenProperties
<1>5. QED
  BY <1>1, <1>2, <1>3, <1>4, TimingSized DEF TimingTyped

\* The position after a sample.
LEMMA PositionMoves ==
  ASSUME NEW p \in Timing!Slots
  PROVE  (p + 1) % Size = IF p = Size - 1 THEN 0 ELSE p + 1
<1>1. Size \in Nat \ {0}
  BY TimingSized DEF TimingSizes
<1>2. CASE p = Size - 1
  BY <1>1, <1>2
<1>3. CASE p # Size - 1
  BY <1>1, <1>3 DEF Timing!Slots
<1>4. QED
  BY <1>2, <1>3

\* Every slot but the one that is written keeps its cycle.
LEMMA SlotsKeep ==
  ASSUME NEW n \in Nat, NEW w \in Timing!Slots, NEW s \in Timing!Slots,
         n < Size => w = n, n = Size => w = 0,
         s <= n
  PROVE  LET v == IF w = Size - 1 THEN 0 ELSE w + 1
             c == IF n < Size THEN n ELSE Size
         IN /\ s = w => Timing!CycleOf(n + 1, v, s) = n + 1
            /\ s # w => /\ s \in 0..c - 1
                        /\ Timing!CycleOf(n, w, s) \in 1..n
                        /\ Timing!CycleOf(n + 1, v, s) = Timing!CycleOf(n, w, s)
<1>1. Size \in Nat \ {0}
  BY TimingSized DEF TimingSizes
<1>2. QED
  BY <1>1 DEF Timing!Slots, Timing!CycleOf

\* The record after a sample is a record.
LEMMA MetricsTyped ==
  ASSUME NEW m \in Timing!Metrics, NEW e \in 0..Modulus - 1
  PROVE  Timing!RecordNs(m, e, Period) \in Timing!Metrics
<1> DEFINE samples == [m.samples EXCEPT ![m.writePos] = e]
           position == (m.writePos + 1) % Size
           count == IF m.count < Size THEN m.count + 1 ELSE Size
           total == m.total + 1
           least == IF e < m.min THEN e ELSE m.min
           most == IF e > m.max THEN e ELSE m.max
           sum == (m.sum + e) % Modulus
           overruns == IF e > Period THEN m.overruns + 1 ELSE m.overruns
<1>1. /\ Size \in Nat \ {0} /\ Modulus \in Nat \ {0}
      /\ m.samples \in [Timing!Slots -> 0..Modulus - 1] /\ m.writePos \in Timing!Slots
      /\ m.count \in 0..Size /\ m.total \in Nat
      /\ m.min \in 0..Modulus - 1 /\ m.max \in 0..Modulus - 1
      /\ m.sum \in 0..Modulus - 1 /\ m.overruns \in Nat
  BY TimingSized, MetricsOpened DEF TimingSizes
<1>3. samples \in [Timing!Slots -> 0..Modulus - 1]
  BY <1>1
<1>4. position \in Timing!Slots
  <2>1. position = IF m.writePos = Size - 1 THEN 0 ELSE m.writePos + 1
    BY <1>1, PositionMoves
  <2>2. QED
    BY <1>1, <2>1 DEF Timing!Slots
<1>5. sum \in 0..Modulus - 1
  <2>1. m.sum + e \in Int
    BY <1>1
  <2>2. QED
    BY <1>1, <2>1
<1>6. count \in 0..Size
  BY <1>1
<1>7. total \in Nat /\ overruns \in Nat
  BY <1>1
<1>8. least \in 0..Modulus - 1 /\ most \in 0..Modulus - 1
  BY <1>1
<1> DEFINE m1 == [m EXCEPT !.samples = samples]
           m2 == [m1 EXCEPT !.writePos = position]
           m3 == [m2 EXCEPT !.count = count]
           m4 == [m3 EXCEPT !.total = total]
           m5 == [m4 EXCEPT !.min = least]
           m6 == [m5 EXCEPT !.max = most]
           m7 == [m6 EXCEPT !.sum = sum]
           m8 == [m7 EXCEPT !.overruns = overruns]
<1>9. Timing!RecordNs(m, e, Period) = m8
  BY DEF Timing!RecordNs
<1> HIDE DEF samples, position, count, total, least, most, sum, overruns
<1> HIDE DEF m8, m7, m6, m5, m4, m3, m2
<1>10. m1 \in Timing!Metrics
  BY <1>3 DEF Timing!Metrics
<1> HIDE DEF m1
<1>11. m2 \in Timing!Metrics
  BY <1>4, <1>10 DEF Timing!Metrics, m2
<1>12. m3 \in Timing!Metrics
  BY <1>6, <1>11 DEF Timing!Metrics, m3
<1>13. m4 \in Timing!Metrics
  BY <1>7, <1>12 DEF Timing!Metrics, m4
<1>14. m5 \in Timing!Metrics
  BY <1>8, <1>13 DEF Timing!Metrics, m5
<1>15. m6 \in Timing!Metrics
  BY <1>8, <1>14 DEF Timing!Metrics, m6
<1>16. m7 \in Timing!Metrics
  BY <1>5, <1>15 DEF Timing!Metrics, m7
<1>17. m8 \in Timing!Metrics
  BY <1>7, <1>16 DEF Timing!Metrics, m8
<1>18. QED
  BY <1>9, <1>17

\* One more sample in the ring.
LEMMA RingTakes ==
  ASSUME TimingTyped, Timing!RingHoldsLast, NEW e \in Execs,
         metrics' = Timing!RecordNs(metrics, e, Period), done' = Append(done, e)
  PROVE  Timing!RingHoldsLast'
<1> DEFINE n == Len(done)
           w == metrics.writePos
           v == IF w = Size - 1 THEN 0 ELSE w + 1
<1>1. /\ Size \in Nat \ {0} /\ e \in 0..Modulus - 1 /\ n \in Nat
      /\ metrics \in Timing!Metrics
  BY DEF TimingTyped, TimingSizes
<1>2. /\ metrics.samples \in [Timing!Slots -> 0..Modulus - 1] /\ w \in Timing!Slots
      /\ metrics.total \in Nat
  BY <1>1, MetricsOpened
<1>3. /\ metrics'.samples = [metrics.samples EXCEPT ![w] = e]
      /\ metrics'.writePos = v
      /\ metrics'.count = IF metrics.count < Size THEN metrics.count + 1 ELSE Size
      /\ metrics'.total = metrics.total + 1
  <2>1. /\ metrics'.samples = [metrics.samples EXCEPT ![w] = e]
        /\ metrics'.writePos = (w + 1) % Size
        /\ metrics'.count = IF metrics.count < Size THEN metrics.count + 1 ELSE Size
        /\ metrics'.total = metrics.total + 1
    BY <1>1, MetricsRecorded, ZenonT(60)
  <2>2. (w + 1) % Size = v
    BY <1>2, PositionMoves
  <2>3. QED
    BY <2>1, <2>2
<1>4. /\ metrics.total = n /\ metrics.count = IF n < Size THEN n ELSE Size
      /\ n < Size => w = n
      /\ n = Size => w = 0
      /\ \A s \in 0..metrics.count - 1 : metrics.samples[s] = done[Timing!CycleOf(n, w, s)]
  BY DEF Timing!RingHoldsLast
<1>5. /\ Len(done') = n + 1 /\ done'[n + 1] = e
      /\ \A i \in 1..n : done'[i] = done[i]
  BY DEF TimingTyped
<1>6. metrics'.count = IF n + 1 < Size THEN n + 1 ELSE Size
  BY <1>1, <1>3, <1>4
<1>7. ASSUME NEW s \in 0..metrics'.count - 1
      PROVE  metrics'.samples[s] = done'[Timing!CycleOf(n + 1, v, s)]
  <2>1. s \in Timing!Slots /\ s <= n
    BY <1>1, <1>6 DEF Timing!Slots
  <2>2. /\ s = w => Timing!CycleOf(n + 1, v, s) = n + 1
        /\ s # w => /\ s \in 0..metrics.count - 1
                    /\ Timing!CycleOf(n, w, s) \in 1..n
                    /\ Timing!CycleOf(n + 1, v, s) = Timing!CycleOf(n, w, s)
    BY <1>1, <1>2, <1>4, <2>1, SlotsKeep, ZenonT(60)
  <2>3. metrics'.samples[s] = IF s = w THEN e ELSE metrics.samples[s]
    BY <1>2, <1>3, <2>1
  <2>4. QED
    BY <1>4, <1>5, <2>2, <2>3
<1>8. /\ n + 1 < Size => v = n + 1
      /\ n + 1 = Size => v = 0
  BY <1>1, <1>2, <1>4 DEF Timing!Slots
<1> HIDE DEF v
<1>9. /\ metrics'.total = Len(done')
      /\ metrics'.count = IF Len(done') < Size THEN Len(done') ELSE Size
      /\ Len(done') < Size => metrics'.writePos = Len(done')
      /\ Len(done') = Size => metrics'.writePos = 0
  BY <1>3, <1>4, <1>5, <1>6, <1>8
<1>10. \A s \in 0..metrics'.count - 1 :
         metrics'.samples[s] = done'[Timing!CycleOf(Len(done'), metrics'.writePos, s)]
  BY <1>3, <1>5, <1>7
<1>11. QED
  BY <1>9, <1>10 DEF Timing!RingHoldsLast

LEMMA ProductsGrow ==
  ASSUME NEW n \in Nat, NEW a \in Nat, NEW b \in Nat, a <= b
  PROVE  n * a \in Nat /\ n * b \in Nat /\ n * a <= n * b
<1> DEFINE d == b - a
<1>1. d \in Nat /\ b = a + d
  OBVIOUS
<1> HIDE DEF d
<1>2. n * d \in Nat /\ n * b = n * a + n * d
  BY <1>1
<1>3. n * a \in Nat
  OBVIOUS
<1>4. QED
  BY <1>2, <1>3

\* A number between n times a and n times b, divided by n.
LEMMA QuotientOfSum ==
  ASSUME NEW n \in Nat \ {0}, NEW a \in Nat, NEW b \in Nat, NEW x \in Nat,
         n * a <= x, x <= n * b
  PROVE  a <= x \div n /\ x \div n <= b
<1> DEFINE q == x \div n
           s == x % n
<1>1. q \in Int /\ s \in 0..n - 1 /\ x = n * q + s
  OBVIOUS
<1> HIDE DEF q, s
<1>2. a <= q
  <2> SUFFICES ASSUME q + 1 <= a PROVE FALSE
    BY <1>1
  <2>1. q + 1 \in Int
    BY <1>1
  <2>2. n * (a - (q + 1)) >= 0
    BY <1>1
  <2>3. n * (a - (q + 1)) = n * a - n * q - n
    BY <1>1
  <2>4. QED
    BY <1>1, <2>2, <2>3
<1>3. q <= b
  <2> SUFFICES ASSUME b + 1 <= q PROVE FALSE
    BY <1>1
  <2>1. n * (q - (b + 1)) >= 0
    BY <1>1
  <2>2. n * (q - (b + 1)) = n * q - n * b - n
    BY <1>1
  <2>3. QED
    BY <1>1, <2>1, <2>2
<1>4. QED
  BY <1>2, <1>3 DEF q

\* One more execution time in the extremes and the sum.
LEMMA ExtremesTake ==
  ASSUME TimingTyped, Timing!ExtremesHold, NEW e \in Execs,
         metrics' = Timing!RecordNs(metrics, e, Period), done' = Append(done, e),
         work' = work + e
  PROVE  Timing!ExtremesHold'
<1> DEFINE n == Len(done)
           least == IF e < metrics.min THEN e ELSE metrics.min
           most == IF e > metrics.max THEN e ELSE metrics.max
<1>1. /\ Modulus \in Nat \ {0} /\ e \in 0..Modulus - 1 /\ n \in Nat /\ work \in Nat
      /\ metrics \in Timing!Metrics /\ Execs \subseteq 0..Modulus - 1 /\ done \in Seq(Execs)
  BY DEF TimingTyped, TimingSizes
<1>2. /\ metrics.min \in 0..Modulus - 1 /\ metrics.max \in 0..Modulus - 1
      /\ metrics.sum \in 0..Modulus - 1
  BY <1>1, MetricsOpened
<1>3. metrics'.min = least /\ metrics'.max = most /\ metrics'.sum = (metrics.sum + e) % Modulus
  BY <1>1, MetricsRecorded, ZenonT(60)
<1>4. /\ Len(done') = n + 1 /\ done'[n + 1] = e /\ done' # <<>> /\ DOMAIN done' = 1..n + 1
      /\ \A i \in 1..n : done'[i] = done[i]
  BY <1>1
<1>5. DOMAIN done = 1..n /\ (done = <<>> <=> n = 0) /\ \A i \in 1..n : done[i] \in 0..Modulus - 1
  <2>1. DOMAIN done = 1..n /\ \A i \in 1..n : done[i] \in Execs
    BY <1>1, LenProperties, ElementOfSeq
  <2>2. done = <<>> <=> n = 0
    BY <1>1, EmptySeq
  <2>3. QED
    BY <1>1, <2>1, <2>2
<1>6. /\ n = 0 => metrics.min = Modulus - 1 /\ metrics.max = 0
      /\ n # 0 => \E i, j \in 1..n : metrics.min = done[i] /\ metrics.max = done[j]
      /\ \A i \in 1..n : metrics.min <= done[i] /\ done[i] <= metrics.max
      /\ n * metrics.min <= work /\ work <= n * metrics.max
      /\ work < Modulus => metrics.sum = work
  BY <1>5 DEF Timing!ExtremesHold
<1>7. least \in Nat /\ most \in Nat /\ least <= metrics.min /\ metrics.max <= most
      /\ least <= e /\ e <= most
  BY <1>1, <1>2
<1>8. \E i, j \in 1..n + 1 : least = done'[i] /\ most = done'[j]
  <2>1. CASE n = 0
    <3>1. least = e /\ most = e
      BY <1>1, <1>6, <2>1
    <3>2. QED
      BY <1>1, <1>4, <3>1
  <2>2. CASE n # 0
    <3>1. PICK i \in 1..n, j \in 1..n : metrics.min = done[i] /\ metrics.max = done[j]
      BY <1>6, <2>2
    <3>2. /\ i \in 1..n + 1 /\ j \in 1..n + 1 /\ n + 1 \in 1..n + 1
          /\ done'[i] = metrics.min /\ done'[j] = metrics.max
      BY <1>1, <1>4, <3>1
    <3>3. (least = e \/ least = metrics.min) /\ (most = e \/ most = metrics.max)
      OBVIOUS
    <3>4. QED
      BY <1>4, <3>2, <3>3
  <2>3. QED
    BY <2>1, <2>2
<1>9. ASSUME NEW i \in 1..n + 1 PROVE least <= done'[i] /\ done'[i] <= most
  <2>1. CASE i = n + 1
    BY <1>4, <1>7, <2>1
  <2>2. CASE i # n + 1
    <3>1. i \in 1..n
      BY <1>1, <2>2
    <3>2. done'[i] = done[i] /\ metrics.min <= done[i] /\ done[i] <= metrics.max
          /\ done[i] \in 0..Modulus - 1
      BY <1>4, <1>5, <1>6, <3>1
    <3>3. QED
      BY <1>2, <1>7, <3>2
  <2>3. QED
    BY <2>1, <2>2
<1> HIDE DEF least, most
<1>10. (n + 1) * least <= work' /\ work' <= (n + 1) * most
  <2>0. metrics.min \in Nat /\ metrics.max \in Nat
    BY <1>1, <1>2
  <2>1. /\ n * least <= n * metrics.min /\ n * metrics.max <= n * most
        /\ n * least \in Nat /\ n * most \in Nat /\ n * metrics.min \in Nat
        /\ n * metrics.max \in Nat
    BY <1>1, <1>7, <2>0, ProductsGrow, Zenon
  <2>2. (n + 1) * least = n * least + least /\ (n + 1) * most = n * most + most
    BY <1>1, <1>7
  <2>3. QED
    BY <1>1, <1>6, <1>7, <2>1, <2>2, SMTT(30)
<1>11. work' < Modulus => metrics'.sum = work'
  <2> SUFFICES ASSUME work' < Modulus PROVE metrics'.sum = work'
    OBVIOUS
  <2>1. metrics.sum = work
    BY <1>1, <1>6
  <2>2. work + e \in 0..Modulus - 1
    BY <1>1
  <2>3. (work + e) % Modulus = work + e
    BY <1>1, <2>2
  <2>4. QED
    BY <1>3, <2>1, <2>3
<1>12. QED
  BY <1>3, <1>4, <1>8, <1>9, <1>10, <1>11 DEF Timing!ExtremesHold

-----------------------------------------------------------------------------
(* The time of the cycles. *)

LEMMA TimingInit == ASSUME Timing!Init PROVE Timing!IInv
<1>1. /\ state = "Run" /\ pc = "outside" /\ now = 0 /\ start = 0 /\ deadline = Period
      /\ metrics = Timing!NewMetrics /\ diag = [cycles |-> 0, overruns |-> 0]
      /\ exec = 0 /\ kicks = <<0, 0>> /\ between = <<0, 0>> /\ excess = 0
      /\ done = <<>> /\ work = 0 /\ why = "none" /\ onOverrun \in {"Fault", "Warn", "Ignore"}
  BY TimingSized DEF Timing!Init, Timing!FirstDeadline, TimingSizes
<1>2. Size \in Nat \ {0} /\ Modulus \in Nat \ {0} /\ Period \in Nat \ {0}
  BY TimingSized DEF TimingSizes
<1>3. Timing!NewMetrics \in Timing!Metrics
  <2>1. [s \in Timing!Slots |-> 0] \in [Timing!Slots -> 0..Modulus - 1] /\ 0 \in Timing!Slots
    BY <1>2 DEF Timing!Slots
  <2>2. 0 \in 0..Size /\ 0 \in Nat /\ 0 \in 0..Modulus - 1 /\ Modulus - 1 \in 0..Modulus - 1
    BY <1>2
  <2>3. QED
    BY <2>1, <2>2 DEF Timing!Metrics, Timing!NewMetrics
<1>4. /\ metrics.writePos = 0 /\ metrics.count = 0 /\ metrics.total = 0
      /\ metrics.min = Modulus - 1 /\ metrics.max = 0 /\ metrics.sum = 0 /\ metrics.overruns = 0
  BY <1>1 DEF Timing!NewMetrics
<1>5. Len(done) = 0 /\ DOMAIN done = {} /\ done \in Seq(Execs)
  BY <1>1
<1>6. Timing!TypeOK
  BY <1>1, <1>2, <1>3, <1>5 DEF Timing!TypeOK
<1>7. Timing!StatesAgree
  BY <1>1 DEF Timing!StatesAgree
<1>8. Timing!OnSchedule
  BY <1>1, <1>2, <1>5 DEF Timing!OnSchedule, Timing!Due, Timing!Ran
<1>9. Timing!OnTheGrid /\ Timing!KicksInTime
  BY <1>1 DEF Timing!OnTheGrid, Timing!KicksInTime
<1>10. Timing!CountsAgree
  BY <1>1, <1>4 DEF Timing!CountsAgree
<1>11. Timing!RingHoldsLast
  BY <1>2, <1>4, <1>5 DEF Timing!RingHoldsLast
<1>12. Timing!ExtremesHold
  BY <1>1, <1>2, <1>4, <1>5 DEF Timing!ExtremesHold
<1>13. QED
  BY <1>6, <1>7, <1>8, <1>9, <1>10, <1>11, <1>12 DEF Timing!IInv

\* What a step that runs no cycle leaves as it is.
LEMMA RecordsStay ==
  ASSUME Timing!IInv, UNCHANGED <<metrics, done, work>>
  PROVE  Timing!RingHoldsLast' /\ Timing!ExtremesHold'
BY DEF Timing!IInv, Timing!RingHoldsLast, Timing!ExtremesHold

LEMMA DueTyped ==
  ASSUME TimingTyped
  PROVE  Timing!Due \in Nat /\ Timing!Larger(Period, exec) \in Nat
<1>1. Period \in Nat /\ Len(done) \in Nat /\ start \in Nat /\ exec \in Nat
  BY DEF TimingTyped, TimingSizes
<1>2. Len(done) * Period \in Nat
  BY <1>1, ProductsGrow
<1>3. QED
  BY <1>1, <1>2 DEF Timing!Due, Timing!Larger

\* The daemon comes back.
LEMMA TimingEnters ==
  ASSUME Timing!IInv, NEW t \in Outside, Timing!Enter(t) PROVE Timing!IInv'
<1>1. /\ TimingTyped /\ t \in Nat
  <2>1. TimingTyped
    BY TimingOpened DEF Timing!IInv
  <2>2. QED
    BY <2>1 DEF TimingTyped, TimingSizes
<1>2. /\ pc = "outside" /\ state = "Run" /\ pc' = "cycle" /\ now' = now + t
      /\ kicks' = <<kicks[2], now'>> /\ between' = <<t, between[2]>>
      /\ UNCHANGED <<onOverrun, state, deadline, metrics, diag, exec, start, excess, done, work,
                     why>>
  BY DEF Timing!Enter
<1>3. /\ why = "none"
      /\ deadline = Timing!Due + IF Timing!Ran THEN 0 ELSE Period
      /\ Timing!Due <= now /\ now <= Timing!Due + between[2] + excess
      /\ done # <<>> => now - kicks[2] <= Timing!Larger(Period, exec) + between[2]
  BY <1>2 DEF Timing!IInv, Timing!StatesAgree, Timing!OnSchedule
<1>4. Timing!Due \in Nat /\ Timing!Larger(Period, exec) \in Nat
  BY <1>1, DueTyped
<1>5. kicks'[1] = kicks[2] /\ kicks'[2] = now + t /\ between'[1] = t /\ between'[2] = between[2]
  BY <1>2
<1>6. Timing!TypeOK'
  <2>1. now' \in Nat /\ kicks' \in Nat \X Nat /\ between' \in Nat \X Nat
    BY <1>1, <1>2 DEF TimingTyped
  <2>2. QED
    BY <1>2, <2>1 DEF Timing!IInv, Timing!TypeOK
<1>7. Timing!StatesAgree'
  BY <1>2, <1>3 DEF Timing!StatesAgree
<1>8. Timing!Due' = Timing!Due /\ (Timing!Ran' <=> Timing!Ran)
  BY <1>2, <1>3 DEF Timing!Due, Timing!Ran
<1>9. Timing!OnSchedule'
  BY <1>2, <1>3, <1>5, <1>8 DEF Timing!OnSchedule
<1>10. Timing!OnTheGrid'
  <2>1. Timing!Due <= now + t /\ now + t <= Timing!Due + t + between[2] + excess
    BY <1>1, <1>3, <1>4, SMTT(30) DEF TimingTyped
  <2>2. QED
    BY <1>2, <1>5, <1>8, <2>1 DEF Timing!OnTheGrid, Timing!Due
<1>11. Timing!KicksInTime'
  <2> SUFFICES ASSUME done # <<>>
               PROVE  kicks'[2] - kicks'[1] <= Timing!Larger(Period, exec)'
                                               + between'[1] + between'[2]
    BY <1>2 DEF Timing!KicksInTime, Timing!Larger
  <2> DEFINE longer == Timing!Larger(Period, exec)
  <2>1. longer' = longer
    BY <1>2 DEF Timing!Larger
  <2> HIDE DEF longer
  <2>2. now - kicks[2] <= longer + between[2] /\ longer \in Nat
    BY <1>3, <1>4 DEF longer
  <2>3. now + t - kicks[2] <= longer + t + between[2]
    BY <1>1, <2>2 DEF TimingTyped
  <2>4. kicks'[2] - kicks'[1] <= longer' + between'[1] + between'[2]
    BY <1>1, <1>5, <2>1, <2>2, <2>3 DEF TimingTyped
  <2>5. QED
    BY <2>4 DEF longer
<1>12. Timing!CountsAgree'
  BY <1>2, <1>3 DEF Timing!IInv, Timing!CountsAgree
<1>13. QED
  BY <1>2, <1>6, <1>7, <1>9, <1>10, <1>11, <1>12, RecordsStay DEF Timing!IInv

\* The engine fails.
LEMMA TimingFails ==
  ASSUME Timing!IInv, NEW e \in Execs, Timing!LogicFails(e) PROVE Timing!IInv'
<1>1. TimingTyped /\ e \in Nat
  <2>1. TimingTyped
    BY TimingOpened DEF Timing!IInv
  <2>2. QED
    BY <2>1 DEF TimingTyped, TimingSizes
<1>2. /\ pc = "cycle" /\ pc' = "outside" /\ state' = "Fault" /\ why' = "logic" /\ now' = now + e
      /\ UNCHANGED <<onOverrun, deadline, metrics, diag, exec, start, kicks, between, excess,
                     done, work>>
  BY DEF Timing!LogicFails
<1>3. state = "Run" /\ why = "none" /\ deadline = Timing!Due + Period
  BY <1>2 DEF Timing!IInv, Timing!StatesAgree, Timing!OnSchedule, Timing!Ran
<1>4. Timing!TypeOK'
  <2>1. now' \in Nat
    BY <1>1, <1>2 DEF TimingTyped
  <2>2. QED
    BY <1>2, <2>1 DEF Timing!IInv, Timing!TypeOK
<1>5. Timing!StatesAgree'
  BY <1>2 DEF Timing!StatesAgree
<1>6. Timing!OnSchedule'
  <2>1. Timing!Due' = Timing!Due /\ ~Timing!Ran'
    BY <1>2 DEF Timing!Due, Timing!Ran
  <2>2. QED
    BY <1>2, <1>3, <2>1 DEF Timing!OnSchedule
<1>7. Timing!OnTheGrid' /\ Timing!KicksInTime'
  BY <1>2 DEF Timing!OnTheGrid, Timing!KicksInTime
<1>8. Timing!CountsAgree'
  BY <1>2, <1>3 DEF Timing!IInv, Timing!CountsAgree
<1>9. QED
  BY <1>2, <1>4, <1>5, <1>6, <1>7, <1>8, RecordsStay DEF Timing!IInv

\* A cycle's work is done.
LEMMA TimingExecutes ==
  ASSUME Timing!IInv, NEW e \in Execs, Timing!Execute(e) PROVE Timing!IInv'
<1> DEFINE extra == between[1] + between[2] + e - Period
           over == IF extra > 0 THEN extra ELSE 0
<1>1. TimingTyped /\ e \in Nat /\ e \in 0..Modulus - 1 /\ Period \in Nat /\ MaxOverrun \in Nat
  <2>1. TimingTyped
    BY TimingOpened DEF Timing!IInv
  <2>2. QED
    BY <2>1 DEF TimingTyped, TimingSizes
<1>2. /\ pc = "cycle" /\ now' = now + e /\ exec' = e
      /\ metrics' = Timing!RecordNs(metrics, e, Period)
      /\ done' = Append(done, e) /\ work' = work + e /\ excess' = excess + over
      /\ UNCHANGED <<onOverrun, deadline, diag, start, kicks, between>>
  BY DEF Timing!Execute, Timing!Positive
<1>3. \/ /\ onOverrun = "Fault" /\ e > Period + MaxOverrun
         /\ state' = "Fault" /\ pc' = "outside" /\ why' = "overrun"
      \/ pc' = "wait" /\ UNCHANGED <<state, why>>
  BY DEF Timing!Execute, Timing!Critical
<1>4. /\ state = "Run" /\ why = "none" /\ deadline = Timing!Due + Period /\ now = kicks[2]
      /\ Timing!Due <= now /\ now <= Timing!Due + between[1] + between[2] + excess
  BY <1>2 DEF Timing!IInv, Timing!StatesAgree, Timing!OnSchedule, Timing!OnTheGrid, Timing!Ran,
     Timing!Due
<1>5. Timing!Due \in Nat
  BY <1>1, DueTyped
<1>6. over \in Nat /\ over >= extra /\ extra \in Int
  BY <1>1 DEF TimingTyped
<1>7. /\ metrics' \in Timing!Metrics /\ metrics'.total = metrics.total + 1
      /\ metrics'.overruns = IF e > Period THEN metrics.overruns + 1 ELSE metrics.overruns
      /\ metrics.total \in Nat /\ metrics.overruns \in Nat
  <2>1. metrics \in Timing!Metrics
    BY <1>1 DEF TimingTyped
  <2>2. metrics' \in Timing!Metrics
    BY <1>1, <1>2, <2>1, MetricsTyped
  <2>3. /\ metrics'.total = metrics.total + 1
        /\ metrics'.overruns = IF e > Period THEN metrics.overruns + 1 ELSE metrics.overruns
    BY <1>1, <1>2, <2>1, MetricsRecorded, ZenonT(60)
  <2>4. QED
    BY <2>1, <2>2, <2>3, MetricsOpened
<1>8. done' \in Seq(Execs) /\ Len(done') = Len(done) + 1
  BY <1>1, <1>2 DEF TimingTyped
<1>9. Timing!Due' = Timing!Due + Period
  <2>1. (Len(done) + 1) * Period = Len(done) * Period + Period /\ Len(done) * Period \in Nat
    <3>1. Len(done) \in Nat
      BY <1>1 DEF TimingTyped
    <3>2. QED
      BY <1>1, <3>1, ProductsGrow
  <2>2. Timing!Due' = start + (Len(done) + 1) * Period
    BY <1>2, <1>8 DEF Timing!Due
  <2>3. QED
    BY <1>1, <2>1, <2>2 DEF TimingTyped, Timing!Due
<1> HIDE DEF over
<1>10. now + e <= Timing!Due + Period + (excess + over)
  <2> DEFINE a == between[1]
             b == between[2]
  <2>0. a \in Nat /\ b \in Nat /\ now \in Nat /\ excess \in Nat /\ Period \in Nat /\ e \in Nat
        /\ now <= Timing!Due + a + b + excess /\ extra = a + b + e - Period
    BY <1>1, <1>4 DEF TimingTyped
  <2> HIDE DEF a, b, extra
  <2>1. now + e <= Timing!Due + Period + excess + extra
    BY <1>5, <2>0
  <2>2. QED
    BY <1>1, <1>5, <1>6, <2>1 DEF TimingTyped
<1>11. Timing!TypeOK'
  <2>1. now' \in Nat /\ work' \in Nat /\ excess' \in Nat /\ exec' \in Nat
    BY <1>1, <1>2, <1>6 DEF TimingTyped
  <2>2. pc' \in {"outside", "wait"} /\ state' \in {"Run", "Fault"}
        /\ why' \in {"none", "overrun"}
    BY <1>3, <1>4
  <2>3. QED
    BY <1>2, <1>7, <1>8, <2>1, <2>2 DEF Timing!IInv, Timing!TypeOK
<1>12. Timing!StatesAgree'
  BY <1>3, <1>4 DEF Timing!StatesAgree
<1>13. Timing!OnSchedule'
  <2>1. Timing!Ran'
    BY <1>3 DEF Timing!Ran
  <2>2. deadline' = Timing!Due' + 0
    BY <1>1, <1>2, <1>4, <1>5, <1>9
  <2>3. now' = kicks[2] + exec' /\ Timing!Due' <= kicks[2] + Period
        /\ now' <= Timing!Due' + excess'
    BY <1>1, <1>2, <1>4, <1>5, <1>9, <1>10 DEF TimingTyped
  <2>4. pc' # "cycle" /\ ~(pc' = "outside" /\ state' = "Run")
    BY <1>3
  <2>5. QED
    BY <1>2, <2>1, <2>2, <2>3, <2>4 DEF Timing!OnSchedule
<1>14. Timing!OnTheGrid' /\ Timing!KicksInTime'
  BY <1>3 DEF Timing!OnTheGrid, Timing!KicksInTime
<1>15. Timing!CountsAgree'
  <2>1. metrics.total = diag.cycles /\ metrics.overruns = diag.overruns
    BY <1>1, <1>2, <1>4 DEF Timing!IInv, Timing!CountsAgree, TimingTyped
  <2>2. pc' = "wait" \/ why' = "overrun"
    BY <1>3
  <2>3. why' = "overrun" => e > Period + MaxOverrun /\ onOverrun = "Fault"
    BY <1>3, <1>4
  <2>4. /\ metrics'.total = diag'.cycles + 1
        /\ metrics'.overruns = diag'.overruns + IF exec' > Period THEN 1 ELSE 0
    BY <1>1, <1>2, <1>7, <2>1 DEF TimingTyped
  <2>5. QED
    BY <1>2, <2>2, <2>3, <2>4 DEF Timing!CountsAgree
<1>16. Timing!RingHoldsLast' /\ Timing!ExtremesHold'
  BY <1>1, <1>2, RingTakes, ExtremesTake DEF Timing!IInv
<1>17. QED
  BY <1>11, <1>12, <1>13, <1>14, <1>15, <1>16 DEF Timing!IInv

\* The wait is over.
LEMMA TimingReturns ==
  ASSUME Timing!IInv, NEW late \in Wakes, Timing!Return(late) PROVE Timing!IInv'
<1> DEFINE woken == IF deadline <= now THEN now ELSE deadline + late
           slept == IF deadline <= now THEN 0 ELSE late
           over == IF exec > Period THEN 1 ELSE 0
<1>1. TimingTyped /\ late \in Nat /\ Period \in Nat
  <2>1. TimingTyped
    BY TimingOpened DEF Timing!IInv
  <2>2. QED
    BY <2>1 DEF TimingTyped, TimingSizes
<1>2. /\ pc = "wait" /\ pc' = "outside" /\ now' = woken /\ deadline' = deadline + Period
      /\ between' = <<0, slept>>
      /\ diag' = [cycles |-> diag.cycles + 1, overruns |-> diag.overruns + over]
      /\ UNCHANGED <<onOverrun, state, metrics, exec, start, kicks, excess, done, work, why>>
  BY DEF Timing!Return, Timing!Wake, Timing!Rearm, Timing!DiagOverrun
<1>3. /\ state = "Run" /\ why = "none" /\ deadline = Timing!Due + 0
      /\ now = kicks[2] + exec /\ Timing!Due <= kicks[2] + Period
      /\ now <= Timing!Due + excess
  BY <1>2 DEF Timing!IInv, Timing!StatesAgree, Timing!OnSchedule, Timing!Ran
<1>4. Timing!Due \in Nat /\ deadline = Timing!Due
  BY <1>1, <1>3, DueTyped
<1>5. woken \in Nat /\ slept \in Nat /\ over \in {0, 1}
  BY <1>1 DEF TimingTyped
<1>6. Timing!Due <= woken /\ woken <= Timing!Due + slept + excess
  BY <1>1, <1>3, <1>4 DEF TimingTyped
<1>7. woken - kicks[2] <= Timing!Larger(Period, exec) + slept
  BY <1>1, <1>3, <1>4, SMTT(30) DEF TimingTyped, Timing!Larger
<1>8. between'[1] = 0 /\ between'[2] = slept
  BY <1>2
<1>9. diag'.cycles = diag.cycles + 1 /\ diag'.overruns = diag.overruns + over
  BY <1>2
<1>10. Timing!Due' = Timing!Due /\ ~Timing!Ran'
  BY <1>2, <1>3 DEF Timing!Due, Timing!Ran
<1> HIDE DEF woken, slept
<1>11. Timing!TypeOK'
  <2>1. deadline' \in Nat /\ now' \in Nat /\ between' \in Nat \X Nat
    BY <1>1, <1>2, <1>5 DEF TimingTyped
  <2>2. diag' \in [cycles : Nat, overruns : Nat]
    BY <1>1, <1>2, <1>5 DEF TimingTyped
  <2>3. QED
    BY <1>2, <2>1, <2>2 DEF Timing!IInv, Timing!TypeOK
<1>12. Timing!StatesAgree'
  BY <1>2, <1>3 DEF Timing!StatesAgree
<1>13. Timing!OnSchedule'
  <2>1. deadline' = Timing!Due' + Period
    BY <1>2, <1>4, <1>10
  <2>2. Timing!Due' <= now' /\ now' <= Timing!Due' + between'[2] + excess'
    BY <1>2, <1>6, <1>8, <1>10
  <2>3. Timing!Larger(Period, exec)' = Timing!Larger(Period, exec)
    BY <1>2 DEF Timing!Larger
  <2>4. now' - kicks'[2] <= Timing!Larger(Period, exec)' + between'[2]
    BY <1>2, <1>7, <1>8, <2>3
  <2>5. QED
    BY <1>2, <1>8, <1>10, <2>1, <2>2, <2>4 DEF Timing!OnSchedule
<1>14. Timing!OnTheGrid' /\ Timing!KicksInTime'
  BY <1>2 DEF Timing!OnTheGrid, Timing!KicksInTime
<1>15. Timing!CountsAgree'
  <2>1. metrics.total = diag.cycles + 1 /\ metrics.overruns = diag.overruns + over
    BY <1>2 DEF Timing!IInv, Timing!CountsAgree
  <2>2. metrics' = metrics /\ why' = "none"
    BY <1>2, <1>3
  <2>3. metrics'.total = diag'.cycles + 0 /\ metrics'.overruns = diag'.overruns + 0
    BY <1>1, <1>5, <1>9, <2>1, <2>2 DEF TimingTyped
  <2>4. QED
    BY <1>2, <2>2, <2>3 DEF Timing!CountsAgree
<1>16. QED
  BY <1>2, <1>11, <1>12, <1>13, <1>14, <1>15, RecordsStay DEF Timing!IInv

LEMMA TimingStep == ASSUME Timing!IInv, [Timing!Next]_(Timing!vars) PROVE Timing!IInv'
<1>1. CASE UNCHANGED Timing!vars
  <2>1. Timing!RingHoldsLast' /\ Timing!ExtremesHold'
    BY <1>1, RecordsStay DEF Timing!vars
  <2>2. QED
    BY <1>1, <2>1
    DEF Timing!vars, Timing!IInv, Timing!TypeOK, Timing!StatesAgree, Timing!OnSchedule,
       Timing!OnTheGrid, Timing!KicksInTime, Timing!CountsAgree, Timing!Due, Timing!Ran,
       Timing!Larger
<1>2. QED
  BY <1>1, TimingEnters, TimingFails, TimingExecutes, TimingReturns DEF Timing!Next

-----------------------------------------------------------------------------
(* What the statistics say. *)

\* Some member of a set of natural numbers that is not empty is the least.
LEMMA LeastMember ==
  ASSUME NEW S, S \subseteq Nat, S # {} PROVE \E x \in S : \A y \in S : x <= y
<1> DEFINE less == {ss \in Nat \X Nat : ss[1] < ss[2]}
<1>1. IsWellFoundedOn(less, Nat)
  BY NatLessThanWellFounded DEF OpToRel
<1> HIDE DEF less
<1>2. PICK x \in S : \A y \in S : ~(<<y, x>> \in less)
  BY <1>1, WFMin
<1>3. \A y \in S : x <= y
  <2> SUFFICES ASSUME NEW y \in S, y < x PROVE FALSE
    OBVIOUS
  <2>1. <<y, x>> \in Nat \X Nat /\ <<y, x>>[1] < <<y, x>>[2]
    OBVIOUS
  <2>2. <<y, x>> \in less
    BY <2>1, Zenon DEF less
  <2>3. QED
    BY <1>2, <2>2
<1>4. QED
  BY <1>3

\* Of c samples, at most k are below v and more than k are up to it.
Ranked(samples, c, k, v) ==
  /\ Cardinality({s \in 0..c - 1 : samples[s] < v}) <= k
  /\ k < Cardinality({s \in 0..c - 1 : samples[s] <= v})

\* Of c samples there is one with at most k below it and more than k up to it.
LEMMA RankExists ==
  ASSUME NEW c \in Nat \ {0}, NEW M \in Nat \ {0}, NEW samples,
         \A s \in 0..c - 1 : samples[s] \in 0..M - 1,
         NEW k \in 0..c - 1
  PROVE  \E v \in {samples[s] : s \in 0..c - 1} : Ranked(samples, c, k, v)
<1> DEFINE All == 0..c - 1
           Below(v) == {s \in All : samples[s] < v}
           UpTo(v) == {s \in All : samples[s] <= v}
           Enough == {v \in Nat : k < Cardinality(UpTo(v))}
<1>1. IsFiniteSet(All) /\ Cardinality(All) = c
  BY FS_Interval
<1>2. \A v \in Nat : /\ Cardinality(Below(v)) \in Nat /\ Cardinality(UpTo(v)) \in Nat
  <2> TAKE v \in Nat
  <2>1. Below(v) \in SUBSET All /\ UpTo(v) \in SUBSET All
    OBVIOUS
  <2> HIDE DEF All, Below, UpTo
  <2>2. QED
    BY <1>1, <2>1, FS_Subset, FS_CardinalityType
<1>3. M - 1 \in Enough
  <2>1. UpTo(M - 1) = All
    OBVIOUS
  <2> HIDE DEF UpTo, All
  <2>2. QED
    BY <1>1, <2>1
<1>4. PICK v \in Enough : \A w \in Enough : v <= w
  <2>1. Enough \subseteq Nat /\ Enough # {}
    BY <1>3
  <2> HIDE DEF Enough
  <2>2. QED
    BY <2>1, LeastMember
<1>5. v \in Nat /\ k < Cardinality(UpTo(v))
  BY <1>4
<1>6. Cardinality(Below(v)) <= k
  <2>1. CASE v = 0
    <3>1. Below(v) = {}
      BY <2>1
    <3>2. Cardinality(Below(v)) = 0
      BY <3>1, FS_EmptySet
    <3>3. QED
      BY <3>2
  <2>2. CASE v # 0
    <3>1. v - 1 \in Nat /\ v - 1 \notin Enough
      BY <1>4, <1>5, <2>2
    <3>2. Below(v) = UpTo(v - 1)
      BY <1>5, <2>2
    <3>3. ~(k < Cardinality(UpTo(v - 1)))
      BY <3>1
    <3>4. Cardinality(UpTo(v - 1)) \in Nat
      BY <1>2, <3>1
    <3> HIDE DEF Below, UpTo
    <3>5. QED
      BY <3>2, <3>3, <3>4
  <2>3. QED
    BY <2>1, <2>2
<1>7. v \in {samples[s] : s \in All}
  <2> SUFFICES ASSUME v \notin {samples[s] : s \in All} PROVE FALSE
    OBVIOUS
  <2>1. Below(v) = UpTo(v)
    BY <1>5
  <2>2. Cardinality(Below(v)) \in Nat
    BY <1>2, <1>5
  <2> HIDE DEF Below, UpTo
  <2>3. QED
    BY <1>5, <1>6, <2>1, <2>2
<1>8. QED
  BY <1>5, <1>6, <1>7 DEF Ranked

\* The rank that is asked for is that of a sample.
LEMMA RankInRange ==
  ASSUME NEW c \in Nat \ {0}, NEW p \in {0, 50, 100}
  PROVE  /\ (2 * p * (c - 1) + 100) \div 200 \in 0..c - 1
         /\ p = 0 => (2 * p * (c - 1) + 100) \div 200 = 0
         /\ p = 100 => (2 * p * (c - 1) + 100) \div 200 = c - 1
<1>1. CASE p = 0
  BY <1>1
<1>2. CASE p = 50
  BY <1>2
<1>3. CASE p = 100
  BY <1>3
<1>4. QED
  BY <1>1, <1>2, <1>3

\* The slots of the ring, in the order of their cycles.
SampleSlot(i) ==
  ((IF metrics.total > Size THEN metrics.writePos ELSE 0) + i - 1) % Size

\* The ring read in order is the end of all the cycles.
SamplesInOrder ==
  /\ Timing!Samples \in Seq(Execs) /\ Len(Timing!Samples) = metrics.count
  /\ metrics.count <= Len(done) /\ metrics.count <= Size
  /\ \A i \in 1..metrics.count :
       /\ SampleSlot(i) \in 0..metrics.count - 1
       /\ Timing!Samples[i] = metrics.samples[SampleSlot(i)]
       /\ Timing!Samples[i] = done[Len(done) - metrics.count + i]

\* Where a position in the order is in the ring, and where a slot is in the order.
LEMMA RingPlaces ==
  ASSUME NEW n \in Nat, NEW w \in Timing!Slots, NEW c \in Nat,
         n < Size => w = n, n = Size => w = 0,
         c = IF n < Size THEN n ELSE Size
  PROVE  /\ Timing!Positive(n - Size) = n - c
         /\ \A s \in 0..c - 1 : Timing!CycleOf(n, w, s) \in n - c + 1..n
         /\ \A i \in 1..c :
              LET s == ((IF n > Size THEN w ELSE 0) + i - 1) % Size
              IN s \in 0..c - 1 /\ Timing!CycleOf(n, w, s) = n - c + i
<1>1. Size \in Nat \ {0} /\ w \in 0..Size - 1
  BY TimingSized DEF TimingSizes, Timing!Slots
<1>2. Timing!Positive(n - Size) = n - c
  BY <1>1 DEF Timing!Positive
<1>3. \A s \in 0..c - 1 : Timing!CycleOf(n, w, s) \in n - c + 1..n
  BY <1>1 DEF Timing!CycleOf
<1>4. ASSUME NEW i \in 1..c, NEW x, x = (IF n > Size THEN w ELSE 0) + i - 1
      PROVE  x % Size \in 0..c - 1 /\ Timing!CycleOf(n, w, x % Size) = n - c + i
  <2>1. x \in Nat /\ x < 2 * Size /\ (n <= Size => x = i - 1) /\ (n > Size => x = w + i - 1)
    BY <1>1, <1>4
  <2>2. x % Size = IF x < Size THEN x ELSE x - Size
    <3>1. CASE x < Size
      BY <1>1, <2>1, <3>1
    <3>2. CASE x >= Size
      <4>1. x - Size \in 0..Size - 1 /\ x = Size * 1 + (x - Size)
        BY <1>1, <2>1, <3>2
      <4>2. QED
        BY <1>1, <2>1, <3>2, <4>1
    <3>3. QED
      BY <1>1, <2>1, <3>1, <3>2
  <2>3. CASE x < Size
    BY <1>1, <2>1, <2>2, <2>3 DEF Timing!CycleOf
  <2>4. CASE x >= Size
    BY <1>1, <2>1, <2>2, <2>4 DEF Timing!CycleOf
  <2>5. QED
    BY <1>1, <2>1, <2>3, <2>4
<1>5. QED
  BY <1>2, <1>3, <1>4

\* The facts of the ring that the order needs.
LEMMA RingRead ==
  ASSUME TimingTyped, Timing!RingHoldsLast
  PROVE  LET n == Len(done)
             w == metrics.writePos
             c == metrics.count
         IN /\ n \in Nat /\ w \in Timing!Slots /\ c \in Nat /\ c <= n /\ c <= Size
            /\ Size \in Nat /\ Timing!Positive(n - Size) = n - c
            /\ \A s \in 0..c - 1 : Timing!CycleOf(n, w, s) \in n - c + 1..n
            /\ \A i \in 1..c : /\ SampleSlot(i) \in 0..c - 1
                               /\ Timing!CycleOf(n, w, SampleSlot(i)) = n - c + i
<1> DEFINE n == Len(done)
           w == metrics.writePos
           c == metrics.count
<1>1. /\ Size \in Nat \ {0} /\ n \in Nat /\ metrics \in Timing!Metrics
  BY DEF TimingTyped, TimingSizes
<1>2. w \in Timing!Slots /\ c \in Nat
  BY <1>1, MetricsOpened
<1>3. /\ metrics.total = n /\ c = IF n < Size THEN n ELSE Size
      /\ n < Size => w = n
      /\ n = Size => w = 0
  BY DEF Timing!RingHoldsLast
<1>4. \A i : SampleSlot(i) = ((IF n > Size THEN w ELSE 0) + i - 1) % Size
  BY <1>3 DEF SampleSlot
<1> HIDE DEF n, w, c
<1>5. /\ Timing!Positive(n - Size) = n - c
      /\ \A s \in 0..c - 1 : Timing!CycleOf(n, w, s) \in n - c + 1..n
      /\ \A i \in 1..c :
           LET s == ((IF n > Size THEN w ELSE 0) + i - 1) % Size
           IN s \in 0..c - 1 /\ Timing!CycleOf(n, w, s) = n - c + i
  BY <1>1, <1>2, <1>3, RingPlaces
<1>6. \A i \in 1..c : /\ SampleSlot(i) \in 0..c - 1
                     /\ Timing!CycleOf(n, w, SampleSlot(i)) = n - c + i
  BY <1>4, <1>5
<1>7. c <= n /\ c <= Size
  BY <1>1, <1>2, <1>3
<1>8. QED
  BY <1>1, <1>2, <1>5, <1>6, <1>7 DEF n, w, c

LEMMA SamplesOrder ==
  ASSUME TimingTyped, Timing!RingHoldsLast
  PROVE  SamplesInOrder
<1>1. done \in Seq(Execs) /\ Len(done) \in Nat
  BY DEF TimingTyped
<1>2. metrics.count \in Nat /\ metrics.count <= Len(done) /\ metrics.count <= Size
  BY RingRead
<1>3. \A s \in 0..metrics.count - 1 :
        metrics.samples[s] = done[Timing!CycleOf(Len(done), metrics.writePos, s)]
  BY DEF Timing!RingHoldsLast
<1>4. Timing!Samples = [i \in 1..metrics.count |-> metrics.samples[SampleSlot(i)]]
  BY DEF Timing!Samples, SampleSlot
<1>5. ASSUME NEW i \in 1..metrics.count
      PROVE  /\ SampleSlot(i) \in 0..metrics.count - 1
             /\ Timing!Samples[i] = metrics.samples[SampleSlot(i)]
             /\ Timing!Samples[i] = done[Len(done) - metrics.count + i]
             /\ done[Len(done) - metrics.count + i] \in Execs
  <2>1. /\ SampleSlot(i) \in 0..metrics.count - 1
        /\ Timing!CycleOf(Len(done), metrics.writePos, SampleSlot(i))
             = Len(done) - metrics.count + i
    BY RingRead
  <2>2. Timing!Samples[i] = metrics.samples[SampleSlot(i)]
    BY <1>4
  <2>3. Len(done) - metrics.count + i \in 1..Len(done)
    BY <1>1, <1>2
  <2>4. done[Len(done) - metrics.count + i] \in Execs
    BY <1>1, <2>3, ElementOfSeq
  <2>5. QED
    BY <1>3, <2>1, <2>2, <2>4
<1>6. Timing!Samples \in Seq(Execs) /\ Len(Timing!Samples) = metrics.count
  <2>1. \A i \in 1..metrics.count : metrics.samples[SampleSlot(i)] \in Execs
    BY <1>5
  <2>2. Timing!Samples \in [1..metrics.count -> Execs]
    BY <1>4, <2>1
  <2>3. QED
    BY <1>2, <2>2, SeqDef, LenProperties
<1>7. QED
  BY <1>2, <1>5, <1>6 DEF SamplesInOrder

\* The values in the ring are the execution times of the last cycles.
LEMMA RingIsNewest ==
  ASSUME TimingTyped, Timing!RingHoldsLast
  PROVE  {metrics.samples[s] : s \in 0..metrics.count - 1}
           = {done[i] : i \in Timing!Positive(Len(done) - Size) + 1..Len(done)}
<1> DEFINE n == Len(done)
           w == metrics.writePos
           c == metrics.count
<1>1. /\ n \in Nat /\ c \in Nat /\ Timing!Positive(n - Size) = n - c
      /\ \A s \in 0..c - 1 : Timing!CycleOf(n, w, s) \in n - c + 1..n
  BY RingRead
<1>2. \A s \in 0..c - 1 : metrics.samples[s] = done[Timing!CycleOf(n, w, s)]
  BY DEF Timing!RingHoldsLast
<1>3. \A i \in 1..c : \E s \in 0..c - 1 : done[n - c + i] = metrics.samples[s]
  BY SamplesOrder DEF SamplesInOrder
<1> HIDE DEF n, w, c
<1>4. ASSUME NEW i \in n - c + 1..n PROVE \E s \in 0..c - 1 : done[i] = metrics.samples[s]
  <2> DEFINE j == i - (n - c)
  <2>1. j \in 1..c /\ n - c + j = i
    BY <1>1
  <2> HIDE DEF j
  <2>2. QED
    BY <1>3, <2>1
<1>5. {metrics.samples[s] : s \in 0..c - 1} = {done[i] : i \in n - c + 1..n}
  BY <1>1, <1>2, <1>4
<1>6. QED
  BY <1>1, <1>5 DEF n, c

LEMMA SameCardinality == \A S : Timing!Cardinality(S) = Cardinality(S)
BY DEF Timing!Cardinality, Cardinality

\* A percentile is a sample with at most its rank below it and more up to it.
LEMMA PercentileRanks ==
  ASSUME NEW m \in Timing!Metrics, m.count # 0, NEW p \in {0, 50, 100}
  PROVE  LET v == Timing!Percentile(m, p)
             k == (2 * p * (m.count - 1) + 100) \div 200
         IN /\ v \in {m.samples[s] : s \in 0..m.count - 1}
            /\ Cardinality({s \in 0..m.count - 1 : m.samples[s] < v}) <= k
            /\ k < Cardinality({s \in 0..m.count - 1 : m.samples[s] <= v})
<1> DEFINE c == m.count
           k == (2 * p * (c - 1) + 100) \div 200
           samples == m.samples
           Measured == {samples[s] : s \in 0..c - 1}
<1>1. /\ samples \in [0..Size - 1 -> 0..Modulus - 1] /\ c \in 0..Size
      /\ Size \in Nat \ {0} /\ Modulus \in Nat \ {0} /\ c # 0
  BY MetricsOpened, TimingSized DEF TimingSizes, Timing!Slots
<1>2. Timing!Percentile(m, p) = CHOOSE v \in Measured : Ranked(samples, c, k, v)
  BY SameCardinality, ZenonT(60) DEF Timing!Percentile, Ranked
<1> HIDE DEF c, samples
<1>3. c \in Nat \ {0} /\ Modulus \in Nat \ {0} /\ \A s \in 0..c - 1 : samples[s] \in 0..Modulus - 1
  BY <1>1
<1>4. k \in 0..c - 1
  BY <1>3, RankInRange
<1> HIDE DEF k
<1>5. \E v \in Measured : Ranked(samples, c, k, v)
  BY <1>3, <1>4, RankExists
<1> HIDE DEF Measured
<1>6. Timing!Percentile(m, p) \in Measured /\ Ranked(samples, c, k, Timing!Percentile(m, p))
  BY <1>2, <1>5
<1>7. QED
  BY <1>6 DEF Measured, Ranked, k, c, samples

\* The extreme percentiles are the least and the greatest sample.
LEMMA PercentilesBound ==
  ASSUME NEW m \in Timing!Metrics, m.count # 0, NEW s \in 0..m.count - 1
  PROVE  Timing!Percentile(m, 0) <= m.samples[s] /\ m.samples[s] <= Timing!Percentile(m, 100)
<1> DEFINE c == m.count
           All == 0..c - 1
           least == Timing!Percentile(m, 0)
           most == Timing!Percentile(m, 100)
           Below == {x \in All : m.samples[x] < least}
           UpTo == {x \in All : m.samples[x] <= most}
<1>1. /\ m.samples \in [0..Size - 1 -> 0..Modulus - 1] /\ c \in 0..Size
      /\ Size \in Nat \ {0} /\ Modulus \in Nat \ {0} /\ c # 0
  BY MetricsOpened, TimingSized DEF TimingSizes, Timing!Slots
<1> HIDE DEF c
<1>2. /\ (2 * 0 * (c - 1) + 100) \div 200 = 0
      /\ (2 * 100 * (c - 1) + 100) \div 200 = c - 1
  BY <1>1, RankInRange
<1>3. /\ least \in {m.samples[x] : x \in All} /\ most \in {m.samples[x] : x \in All}
      /\ Cardinality(Below) <= 0 /\ c - 1 < Cardinality(UpTo)
  BY <1>1, <1>2, PercentileRanks, ZenonT(60) DEF c
<1> HIDE DEF least, most
<1>4. \A x \in All : m.samples[x] \in Nat
  BY <1>1
<1>5. least \in Nat /\ most \in Nat
  BY <1>3, <1>4
<1>6. s \in All
  BY DEF c
<1>7. IsFiniteSet(All) /\ Cardinality(All) = c
  <2>1. c \in Nat \ {0} /\ 0 \in Int /\ c - 1 \in Int /\ ~(0 > c - 1) /\ c - 1 - 0 + 1 = c
    BY <1>1
  <2>2. IsFiniteSet(0..c - 1)
        /\ Cardinality(0..c - 1) = IF 0 > c - 1 THEN 0 ELSE c - 1 - 0 + 1
    BY <2>1, FS_Interval, Zenon
  <2>3. QED
    BY <2>1, <2>2
<1>8. Below \in SUBSET All /\ UpTo \in SUBSET All
  OBVIOUS
<1>9. s \notin Below /\ s \in UpTo
  <2> HIDE DEF Below, UpTo, All
  <2>1. IsFiniteSet(Below) /\ Cardinality(Below) \in Nat /\ Cardinality(UpTo) \in Nat
    BY <1>7, <1>8, FS_Subset, FS_CardinalityType
  <2>2. Cardinality(Below) = 0
    BY <1>3, <2>1
  <2>3. Below = {}
    BY <2>1, <2>2, FS_EmptySet
  <2>4. Cardinality(UpTo) <= c /\ (Cardinality(UpTo) = c => UpTo = All)
    BY <1>7, <1>8, FS_Subset
  <2>5. Cardinality(UpTo) = c
    BY <1>1, <1>3, <2>1, <2>4
  <2>6. QED
    BY <1>6, <2>3, <2>4, <2>5
<1>10. m.samples[s] \in Nat /\ ~(m.samples[s] < least) /\ m.samples[s] <= most
  BY <1>4, <1>6, <1>9
<1>11. QED
  BY <1>5, <1>10 DEF least, most

\* What the statistics say of the cycles.
LEMMA StatisticsTold == ASSUME Timing!IInv PROVE Timing!StatisticsHold
<1> SUFFICES ASSUME done # <<>>
             PROVE  LET all == {done[i] : i \in 1..Len(done)}
                        newest == {done[i] : i \in Timing!Positive(Len(done) - Size) + 1..Len(done)}
                    IN /\ metrics.min \in all /\ metrics.max \in all
                       /\ \A e \in all : metrics.min <= e /\ e <= metrics.max
                       /\ work < Modulus => /\ metrics.min <= Timing!Mean(metrics)
                                            /\ Timing!Mean(metrics) <= metrics.max
                       /\ \A p \in {0, 50, 100} : Timing!Percentile(metrics, p) \in newest
                       /\ \A e \in newest : /\ Timing!Percentile(metrics, 0) <= e
                                            /\ e <= Timing!Percentile(metrics, 100)
  BY DEF Timing!StatisticsHold
<1> DEFINE n == Len(done)
           newest == {done[i] : i \in Timing!Positive(n - Size) + 1..n}
<1>1. TimingTyped /\ Timing!RingHoldsLast /\ Timing!ExtremesHold
  BY TimingOpened DEF Timing!IInv
<1>2. /\ metrics \in Timing!Metrics /\ n \in Nat /\ work \in Nat /\ Size \in Nat \ {0}
      /\ done \in Seq(Execs)
  BY <1>1 DEF TimingTyped, TimingSizes
<1>3. DOMAIN done = 1..n /\ n # 0
  BY <1>2, LenProperties, EmptySeq
<1>4. /\ \E i, j \in 1..n : metrics.min = done[i] /\ metrics.max = done[j]
      /\ \A i \in 1..n : metrics.min <= done[i] /\ done[i] <= metrics.max
      /\ n * metrics.min <= work /\ work <= n * metrics.max
      /\ work < Modulus => metrics.sum = work
  BY <1>1, <1>3 DEF Timing!ExtremesHold
<1>5. /\ metrics.total = n
      /\ metrics.count = IF n < Size THEN n ELSE Size
  BY <1>1 DEF Timing!RingHoldsLast
<1>6. metrics.count # 0
  BY <1>2, <1>3, <1>5
<1>7. {metrics.samples[s] : s \in 0..metrics.count - 1} = newest
  BY <1>1, RingIsNewest
<1>8. \A p \in {0, 50, 100} : Timing!Percentile(metrics, p) \in newest
  BY <1>2, <1>6, <1>7, PercentileRanks, ZenonT(60)
<1>9. ASSUME NEW e \in newest
      PROVE  Timing!Percentile(metrics, 0) <= e /\ e <= Timing!Percentile(metrics, 100)
  <2> HIDE DEF newest
  <2>1. PICK s \in 0..metrics.count - 1 : e = metrics.samples[s]
    BY <1>7
  <2>2. QED
    BY <1>2, <1>6, <2>1, PercentilesBound
<1>10. work < Modulus =>
         metrics.min <= Timing!Mean(metrics) /\ Timing!Mean(metrics) <= metrics.max
  <2> SUFFICES ASSUME work < Modulus
               PROVE  metrics.min <= work \div n /\ work \div n <= metrics.max
    BY <1>4, <1>5 DEF Timing!Mean
  <2>1. metrics.min \in Nat /\ metrics.max \in Nat
    BY <1>2, MetricsOpened, TimingSized DEF TimingSizes
  <2> HIDE DEF n
  <2>2. QED
    BY <1>2, <1>3, <1>4, <2>1, QuotientOfSum
<1>11. QED
  BY <1>4, <1>8, <1>9, <1>10

LEMMA TimingInductive == Spec => []Timing!IInv
<1>1. Init => Timing!IInv
  BY TimingInit DEF Init
<1>2. Timing!IInv /\ [Next]_vars => Timing!IInv'
  BY TimingStep, EachMoves
<1>3. QED
  BY <1>1, <1>2, PTL DEF Spec

\* For every period, tolerance, policy, size of the ring and width of the sum, and every
\* execution and wake-up time: scans keep to the grid, kicks come in time, the counts of
\* the scheduler and the daemon agree, and the statistics are those of the cycles run.
THEOREM TimingIsRight == Spec => []TimingInv
<1>1. Timing!IInv => TimingInv
  BY StatisticsTold DEF Timing!IInv, TimingInv
<1>2. QED
  BY <1>1, TimingInductive, PTL

\* What a recorded cycle does to the samples in order.
LEMMA SamplesPushed ==
  ASSUME TimingTyped, SamplesInOrder, SamplesInOrder', NEW e \in Execs,
         Timing!RingHoldsLast, Timing!RingHoldsLast',
         done' = Append(done, e)
  PROVE  Timing!Window!Push(e)
<1> DEFINE s == Timing!Samples
           t == Timing!Samples'
           n == Len(done)
           c == metrics.count
           d == metrics'.count
<1>1. /\ n \in Nat /\ Size \in Nat \ {0} /\ done \in Seq(Execs)
  BY DEF TimingTyped, TimingSizes
<1>2. /\ Len(done') = n + 1 /\ done'[n + 1] = e
      /\ \A i \in 1..n : done'[i] = done[i]
  BY <1>1
<1>3. /\ c = IF n < Size THEN n ELSE Size
      /\ d = IF n + 1 < Size THEN n + 1 ELSE Size
  BY <1>2 DEF Timing!RingHoldsLast
<1>4. /\ s \in Seq(Execs) /\ Len(s) = c /\ \A i \in 1..c : s[i] = done[n - c + i]
      /\ t \in Seq(Execs) /\ Len(t) = d /\ \A i \in 1..d : t[i] = done'[n + 1 - d + i]
  <2>1. s \in Seq(Execs) /\ Len(s) = c /\ \A i \in 1..c : s[i] = done[n - c + i]
    BY DEF SamplesInOrder
  <2>2. t \in Seq(Execs) /\ Len(t) = d /\ \A i \in 1..d : t[i] = done'[Len(done') - d + i]
    BY DEF SamplesInOrder
  <2>3. d \in Nat
    BY <1>1, <1>3
  <2> HIDE DEF s, t, n, c, d
  <2>4. ASSUME NEW i \in 1..d PROVE t[i] = done'[n + 1 - d + i]
    <3>1. Len(done') - d + i = n + 1 - d + i
      BY <1>1, <1>2, <2>3
    <3>2. QED
      BY <2>2, <3>1
  <2>5. QED
    BY <2>1, <2>2, <2>4
<1> HIDE DEF s, t, n, c, d
<1>5. ASSUME NEW i \in 1..d
      PROVE  t[i] = IF i = d THEN e ELSE IF c < Size THEN s[i] ELSE s[i + 1]
  <2>1. CASE i = d
    <3>1. n + 1 - d + i = n + 1
      BY <1>1, <1>3, <2>1
    <3>2. QED
      BY <1>2, <1>4, <2>1, <3>1
  <2>2. CASE i # d /\ c < Size
    <3>1. n + 1 - d + i \in 1..n /\ i \in 1..c /\ n + 1 - d + i = n - c + i
      BY <1>1, <1>3, <2>2
    <3>2. QED
      BY <1>2, <1>4, <2>2, <3>1, ZenonT(60)
  <2>3. CASE i # d /\ ~(c < Size)
    <3>1. n + 1 - d + i \in 1..n /\ i + 1 \in 1..c /\ n + 1 - d + i = n - c + (i + 1)
      BY <1>1, <1>3, <2>3
    <3>2. s[i + 1] = done[n + 1 - d + i] /\ t[i] = done'[n + 1 - d + i]
      BY <1>4, <3>1
    <3>3. QED
      BY <1>2, <2>3, <3>1, <3>2
  <2>4. QED
    BY <2>1, <2>2, <2>3
<1>6. Len(s) <= Size /\ Len(t) = IF Len(s) < Size THEN Len(s) + 1 ELSE Size
  BY <1>1, <1>3, <1>4
<1>7. \A i \in 1..Len(t) :
        t[i] = IF i = Len(t) THEN e ELSE IF Len(s) < Size THEN s[i] ELSE s[i + 1]
  BY <1>4, <1>5
<1>8. t = LET all == Append(s, e)
          IN SubSeq(all, IF Len(all) > Size THEN Len(all) - Size + 1 ELSE 1, Len(all))
  BY <1>1, <1>4, <1>6, <1>7, NewestWithOne
<1>9. QED
  BY <1>8 DEF Timing!Window!Push, Timing!Window!Newest, s, t

\* For every size of the ring: its samples are the window of the execution times.
LEMMA SamplesWindow == Spec => Timing!SamplesAreWindow
<1>1. Init => Timing!Window!Init
  <2> SUFFICES ASSUME Timing!Init PROVE Timing!Samples = <<>>
    BY DEF Init, Timing!Window!Init
  <2>1. metrics.count = 0
    BY DEF Timing!Init, Timing!NewMetrics
  <2>2. QED
    BY <2>1 DEF Timing!Samples
<1>2. Timing!IInv /\ Timing!IInv' /\ [Next]_vars => [Timing!Window!Next]_(Timing!Samples)
  <2> SUFFICES ASSUME Timing!IInv, Timing!IInv', [Timing!Next]_(Timing!vars)
               PROVE  [Timing!Window!Next]_(Timing!Samples)
    BY EachMoves
  <2>1. TimingTyped /\ Timing!RingHoldsLast /\ Timing!RingHoldsLast'
    BY TimingOpened DEF Timing!IInv
  <2>2. TimingTyped'
    <3>1. Timing!TypeOK' => TimingTyped'
      BY TimingOpened, PTL
    <3>2. QED
      BY <3>1 DEF Timing!IInv
  <2>3. SamplesInOrder
    BY <2>1, SamplesOrder
  <2>4. SamplesInOrder'
    <3>1. TimingTyped' /\ Timing!RingHoldsLast' => SamplesInOrder'
      BY SamplesOrder, PTL
    <3>2. QED
      BY <2>1, <2>2, <3>1
  <2>5. ASSUME NEW e \in Execs, Timing!Execute(e)
        PROVE  \E x \in Execs : Timing!Window!Push(x)
    <3>1. done' = Append(done, e)
      BY <2>5 DEF Timing!Execute
    <3>2. QED
      BY <2>1, <2>3, <2>4, <3>1, SamplesPushed
  <2>6. ASSUME metrics' = metrics PROVE UNCHANGED Timing!Samples
    BY <2>6 DEF Timing!Samples
  <2>7. ASSUME NEW e \in Execs, Timing!LogicFails(e) PROVE metrics' = metrics
    BY <2>7 DEF Timing!LogicFails
  <2>8. ASSUME NEW t \in Outside, Timing!Enter(t) PROVE metrics' = metrics
    BY <2>8 DEF Timing!Enter
  <2>9. ASSUME NEW late \in Wakes, Timing!Return(late) PROVE metrics' = metrics
    BY <2>9 DEF Timing!Return
  <2>10. QED
    BY <2>5, <2>6, <2>7, <2>8, <2>9 DEF Timing!Next, Timing!vars, Timing!Window!Next
<1>3. QED
  BY <1>1, <1>2, TimingInductive, PTL DEF Spec, Timing!SamplesAreWindow, Timing!Window!Spec

-----------------------------------------------------------------------------
(* The web UI. *)

WebSizes ==
  /\ Fields \subseteq {"state", "io", "metrics"} /\ "fault" \notin Fields /\ "none" \notin Fields
  /\ "faults" \notin Fields
  /\ Values \subseteq Nat /\ 0 \in Values
  /\ Cap \in Nat \ {0} /\ KeptFaults \in Nat \ {0} /\ FullFaults \in Nat \ {0}
  /\ PageFaults \in Nat \ {0} /\ MaxSends \in Nat \ {0} /\ 2 * FullFaults <= PageFaults

LEMMA WebSized == WebSizes
BY WebAssumption DEF WebSizes, Web!FieldsAssumption, Web!ValuesAssumption, Web!SizesAssumption

\* t has the newest of at most n items s and one more, x.
OneMore(s, x, n, t) ==
  /\ Len(t) = IF Len(s) < n THEN Len(s) + 1 ELSE n
  /\ \A i \in 1..Len(t) : t[i] = IF i = Len(t) THEN x ELSE s[i + Len(s) + 1 - Len(t)]

\* The newest items of a sequence with one more.
LEMMA NewestTakes ==
  ASSUME NEW Item, NEW s \in Seq(Item), NEW x \in Item, NEW n \in Nat \ {0}, Len(s) <= n,
         NEW t, t = Web!Newest(Append(s, x), n)
  PROVE  t \in Seq(Item) /\ OneMore(s, x, n, t)
<1> DEFINE all == Append(s, x)
           from == IF Len(all) > n THEN Len(all) - n + 1 ELSE 1
<1>1. /\ all \in Seq(Item) /\ Len(all) = Len(s) + 1 /\ Len(s) \in Nat
      /\ \A i \in 1..Len(all) : all[i] = IF i = Len(all) THEN x ELSE s[i]
  OBVIOUS
<1>2. t = SubSeq(all, from, Len(all))
  BY DEF Web!Newest
<1> HIDE DEF all
<1>3. from \in 1..Len(all) /\ from = IF Len(s) < n THEN 1 ELSE 2
  BY <1>1
<1> HIDE DEF from
<1>4. /\ t \in Seq(Item) /\ Len(t) = Len(all) - from + 1
      /\ \A i \in 1..Len(all) - from + 1 : t[i] = all[from + i - 1]
  BY <1>1, <1>2, <1>3, SubSeqProperties
<1>5. Len(t) = IF Len(s) < n THEN Len(s) + 1 ELSE n
  BY <1>1, <1>3, <1>4
<1>6. ASSUME NEW i \in 1..Len(t)
      PROVE  t[i] = IF i = Len(t) THEN x ELSE s[i + Len(s) + 1 - Len(t)]
  <2>1. /\ from + i - 1 \in 1..Len(all) /\ i \in 1..Len(all) - from + 1
        /\ from + i - 1 = i + Len(s) + 1 - Len(t)
        /\ i = Len(t) <=> from + i - 1 = Len(all)
    <3> DEFINE a == Len(all)
               b == Len(t)
               c == Len(s)
    <3>1. a = c + 1 /\ c \in Nat /\ from \in 1..a /\ b = a - from + 1 /\ i \in 1..b
      BY <1>1, <1>3, <1>4
    <3> HIDE DEF a, b, c
    <3>2. /\ from + i - 1 \in 1..a /\ i \in 1..a - from + 1
          /\ from + i - 1 = i + c + 1 - b
          /\ i = b <=> from + i - 1 = a
      BY <3>1
    <3>3. QED
      BY <3>2 DEF a, b, c
  <2>2. t[i] = IF from + i - 1 = Len(all) THEN x ELSE s[from + i - 1]
    BY <1>1, <1>4, <2>1
  <2>3. QED
    BY <2>1, <2>2
<1>7. QED
  BY <1>4, <1>5, <1>6 DEF OneMore

\* The newest items, newest first: what a full message adds to the page.
LEMMA NewestReversed ==
  ASSUME NEW Item, NEW s \in Seq(Item), NEW n \in Nat \ {0},
         NEW t, t = Web!Reversed(Web!Newest(s, n))
  PROVE  /\ t \in Seq(Item)
         /\ Len(t) = IF Len(s) < n THEN Len(s) ELSE n
         /\ \A i \in 1..Len(t) : t[i] = s[Len(s) + 1 - i]
<1> DEFINE from == IF Len(s) > n THEN Len(s) - n + 1 ELSE 1
           u == SubSeq(s, from, Len(s))
           len == Len(s)
<1>1. Len(s) \in Nat
  OBVIOUS
<1>2. from \in 1..Len(s) + 1 /\ Len(s) - from + 1 = IF Len(s) < n THEN Len(s) ELSE n
  <2>1. len \in Nat
    BY <1>1
  <2> HIDE DEF len
  <2>2. (IF len > n THEN len - n + 1 ELSE 1) \in 1..len + 1
        /\ len - (IF len > n THEN len - n + 1 ELSE 1) + 1 = IF len < n THEN len ELSE n
    BY <2>1
  <2>3. QED
    BY <2>2 DEF len
<1> HIDE DEF len
<1>3. Web!Newest(s, n) = u
  BY DEF Web!Newest
<1> HIDE DEF from
<1>4. /\ u \in Seq(Item) /\ Len(u) = Len(s) - from + 1
      /\ \A i \in 1..Len(s) - from + 1 : u[i] = s[from + i - 1]
  BY <1>1, <1>2, SubSeqProperties
<1> HIDE DEF u
<1>5. t = [i \in 1..Len(u) |-> u[Len(u) + 1 - i]]
  BY <1>3 DEF Web!Reversed
<1>6. ASSUME NEW i \in 1..Len(u) PROVE t[i] = s[Len(s) + 1 - i] /\ t[i] \in Item
  <2>1. /\ Len(u) + 1 - i \in 1..Len(s) - from + 1 /\ Len(u) \in Nat
        /\ from + (Len(u) + 1 - i) - 1 = Len(s) + 1 - i /\ Len(s) + 1 - i \in 1..Len(s)
    BY <1>1, <1>2, <1>4
  <2>2. u[Len(u) + 1 - i] = s[Len(s) + 1 - i]
    BY <1>4, <2>1
  <2>3. QED
    BY <1>5, <2>1, <2>2, ElementOfSeq
<1>7. t \in Seq(Item) /\ Len(t) = Len(u)
  <2>1. t \in [1..Len(u) -> Item] /\ Len(u) \in Nat
    BY <1>4, <1>5, <1>6
  <2>2. QED
    BY <2>1, SeqDef, LenProperties
<1>8. QED
  BY <1>2, <1>4, <1>6, <1>7

\* The first items of a sequence.
LEMMA FirstTakes ==
  ASSUME NEW Item, NEW s \in Seq(Item), NEW n \in Nat, NEW t, t = Web!First(s, n)
  PROVE  /\ t \in Seq(Item)
         /\ Len(t) = IF Len(s) < n THEN Len(s) ELSE n
         /\ \A i \in 1..Len(t) : t[i] = s[i]
<1> DEFINE last_ == IF Len(s) < n THEN Len(s) ELSE n
<1>1. Len(s) \in Nat
  OBVIOUS
<1>2. last_ \in 0..Len(s)
  BY <1>1
<1>3. t = SubSeq(s, 1, last_)
  BY DEF Web!First
<1> HIDE DEF last_
<1>4. /\ t \in Seq(Item) /\ Len(t) = last_ - 1 + 1
      /\ \A i \in 1..last_ - 1 + 1 : t[i] = s[1 + i - 1]
  BY <1>1, <1>2, <1>3, SubSeqProperties
<1>5. Len(t) = last_ /\ \A i \in 1..Len(t) : t[i] = s[i]
  BY <1>1, <1>2, <1>4
<1>6. QED
  BY <1>4, <1>5 DEF last_

\* What the types say, opened.
WebTyped ==
  /\ WebSizes
  /\ shared \in Web!Snapshot /\ page \in Web!Snapshot /\ conn.snapshot \in Web!Snapshot
  /\ shared.fields \in [Fields -> Values \cup {-1}]
  /\ page.fields \in [Fields -> Values \cup {-1}]
  /\ conn.snapshot.fields \in [Fields -> Values \cup {-1}]
  /\ shared.faults \in Seq(Web!Faults) /\ page.faults \in Seq(Web!Faults)
  /\ conn.snapshot.faults \in Seq(Web!Faults)
  /\ Len(shared.faults) \in Nat /\ Len(page.faults) \in Nat /\ Len(conn.snapshot.faults) \in Nat
  /\ Len(shared.faults) <= KeptFaults /\ Len(page.faults) <= PageFaults
  /\ ring \in Seq(Web!Update) /\ Len(ring) \in Nat /\ Len(ring) <= Cap
  /\ pending \in Web!Update \cup {Web!NoUpdate}
  /\ sent \in Nat /\ sent <= MaxSends
  /\ prom \in [cycles : Values, last : Values, faults : Nat]
  /\ conn \in [stage : {"off", "reading", "open"}, next : 0..MaxSends, lagged : BOOLEAN,
               snapshot : Web!Snapshot, unread : SUBSET (Fields \cup {"faults"})]
  /\ conn.next \in Nat /\ conn.next <= MaxSends

LEMMA WebOpened == ASSUME Web!TypeOK PROVE WebTyped
<1>1. /\ shared \in Web!Snapshot /\ page \in Web!Snapshot
      /\ Len(shared.faults) <= KeptFaults /\ Len(page.faults) <= PageFaults
      /\ ring \in Seq(Web!Update) /\ Len(ring) <= Cap
      /\ pending \in Web!Update \cup {Web!NoUpdate}
      /\ sent \in 0..MaxSends
      /\ prom \in [cycles : Values, last : Values, faults : Nat]
      /\ conn \in [stage : {"off", "reading", "open"}, next : 0..MaxSends, lagged : BOOLEAN,
                   snapshot : Web!Snapshot, unread : SUBSET (Fields \cup {"faults"})]
  BY DEF Web!TypeOK
<1>2. conn.snapshot \in Web!Snapshot /\ conn.next \in 0..MaxSends
  BY <1>1
<1>3. \A s \in Web!Snapshot : /\ s.fields \in [Fields -> Values \cup {-1}]
                              /\ s.faults \in Seq(Web!Faults) /\ Len(s.faults) \in Nat
  BY LenProperties DEF Web!Snapshot
<1>4. Len(ring) \in Nat
  BY <1>1, LenProperties
<1>5. WebSizes
  BY WebSized
<1>6. /\ sent \in Nat /\ sent <= MaxSends /\ conn.next \in Nat /\ conn.next <= MaxSends
  BY <1>1, <1>2, <1>5 DEF WebSizes
<1> HIDE <1>1
<1>7. QED
  BY <1>1, <1>2, <1>3, <1>4, <1>5, <1>6 DEF WebTyped

\* The kinds of updates.
LEMMA KindsOfUpdates ==
  /\ Web!NoUpdate.kind = "none"
  /\ \A u \in Web!Update : /\ u.kind # "none" /\ u # Web!NoUpdate
                           /\ \/ u.kind \in Fields /\ u.kind # "fault" /\ u.value \in Values
                              \/ u.kind = "fault" /\ u.kind \notin Fields
                                 /\ u.value \in Web!Faults
BY WebSized DEF Web!Update, Web!NoUpdate, WebSizes

\* What the first half of an update does.
LEMMA WebBegun ==
  ASSUME WebTyped, NEW u \in Web!Updates, Web!Begin(u)
  PROVE  /\ pending = Web!NoUpdate /\ pending.kind = "none" /\ sent < MaxSends
         /\ pending' = u /\ u \in Web!Update
         /\ shared' \in Web!Snapshot
         /\ \/ /\ u.kind \in Fields /\ u.kind # "fault" /\ u.value \in Values
               /\ shared'.faults = shared.faults
               /\ shared'.fields = [shared.fields EXCEPT ![u.kind] = u.value]
            \/ /\ u.kind = "fault" /\ u.kind \notin Fields /\ u.value = sent + 1
               /\ shared'.fields = shared.fields
               /\ shared'.faults \in Seq(Web!Faults)
               /\ shared'.faults = Web!Keep(shared.faults, u.value)
<1>1. pending = Web!NoUpdate /\ sent < MaxSends /\ shared' = Web!Store(u) /\ pending' = u
  BY DEF Web!Begin
<1>2. /\ sent \in Nat /\ MaxSends \in Nat /\ shared \in Web!Snapshot
      /\ shared.fields \in [Fields -> Values \cup {-1}] /\ shared.faults \in Seq(Web!Faults)
      /\ Len(shared.faults) <= KeptFaults /\ KeptFaults \in Nat \ {0}
      /\ "fault" \notin Fields
  BY DEF WebTyped, WebSizes
<1>3. sent + 1 \in Web!Faults
  BY <1>1, <1>2 DEF Web!Faults
<1>4. \/ u.kind \in Fields /\ u.value \in Values /\ u = [kind |-> u.kind, value |-> u.value]
      \/ u.kind = "fault" /\ u.value = sent + 1 /\ u = [kind |-> u.kind, value |-> u.value]
  BY DEF Web!Updates
<1>5. u \in Web!Update
  BY <1>3, <1>4 DEF Web!Update
<1>6. CASE u.kind \in Fields
  <2>1. u.kind # "fault" /\ u.value \in Values
    BY <1>2, <1>4, <1>6
  <2>2. shared' = [shared EXCEPT !.fields = [@ EXCEPT ![u.kind] = u.value]]
    BY <1>1, <2>1 DEF Web!Store
  <2>3. [shared.fields EXCEPT ![u.kind] = u.value] \in [Fields -> Values \cup {-1}]
    BY <1>2, <2>1
  <2>4. /\ shared' \in Web!Snapshot /\ shared'.faults = shared.faults
        /\ shared'.fields = [shared.fields EXCEPT ![u.kind] = u.value]
    BY <1>2, <2>2, <2>3 DEF Web!Snapshot
  <2>5. QED
    BY <1>1, <1>5, <1>6, <2>1, <2>4, KindsOfUpdates
<1>7. CASE u.kind = "fault"
  <2>1. u.value = sent + 1 /\ u.kind \notin Fields
    BY <1>2, <1>4, <1>7
  <2>2. shared' = [shared EXCEPT !.faults = Web!Keep(shared.faults, u.value)]
    BY <1>1, <1>7 DEF Web!Store
  <2>3. Web!Keep(shared.faults, u.value) \in Seq(Web!Faults)
    BY <1>2, <1>3, <2>1, NewestTakes DEF Web!Keep
  <2>4. /\ shared' \in Web!Snapshot /\ shared'.fields = shared.fields
        /\ shared'.faults = Web!Keep(shared.faults, u.value)
    BY <1>2, <2>2, <2>3 DEF Web!Snapshot
  <2>5. QED
    BY <1>1, <1>5, <1>7, <2>1, <2>3, <2>4, KindsOfUpdates
<1>8. QED
  BY <1>4, <1>6, <1>7

\* What is silent after an update has begun was so before, and is not its field.
LEMMA SilenceAtBegin ==
  ASSUME Web!NoUpdate = pending, pending' # Web!NoUpdate, ring' = ring, NEW f, NEW k, f # "none",
         Web!Silent(f, k)'
  PROVE  Web!Silent(f, k) /\ pending'.kind # f
BY KindsOfUpdates DEF Web!Silent

\* How the places in a list move when its first d items go and one is added.
LEMMA PlacesMove ==
  ASSUME NEW a \in Nat, NEW b \in Nat \ {0}, NEW d \in Nat, d = a + 1 - b
  PROVE  /\ \A i \in 1..b - 1 : i + d \in 1..a /\ i \in 1..b /\ i # b /\ i + a + 1 - b = i + d
         /\ \A j \in 1..a : j > d => j - d \in 1..b - 1 /\ j - d + d = j
OBVIOUS

\* t is s without its first d items, at most one, and with x at its end.
Shifted(s, x, t) ==
  LET d == Len(s) + 1 - Len(t)
  IN /\ Len(t) \in Nat \ {0} /\ d \in {0, 1} /\ t[Len(t)] = x
     /\ \A i \in 1..Len(t) - 1 : i + d \in 1..Len(s) /\ t[i] = s[i + d]
     /\ \A j \in 1..Len(s) : j > d => j - d \in 1..Len(t) - 1 /\ t[j - d] = s[j]

\* In a list that takes one more item, the others keep their order and the first may go.
LEMMA OneMoreShifts ==
  ASSUME NEW s, Len(s) \in Nat, NEW x, NEW n \in Nat \ {0}, Len(s) <= n,
         NEW t, OneMore(s, x, n, t)
  PROVE  Len(t) <= n /\ Shifted(s, x, t)
<1> DEFINE a == Len(s)
           b == Len(t)
           d == a + 1 - b
<1>1. /\ a \in Nat /\ a <= n /\ d = a + 1 - b
      /\ b = IF a < n THEN a + 1 ELSE n
      /\ \A i \in 1..b : t[i] = IF i = b THEN x ELSE s[i + a + 1 - b]
  BY DEF OneMore
<1> HIDE DEF a, b, d
<1>2. b \in Nat \ {0} /\ b <= n /\ d \in {0, 1} /\ d \in Nat
  BY <1>1
<1>3. /\ \A i \in 1..b - 1 : i + d \in 1..a /\ i \in 1..b /\ i # b /\ i + a + 1 - b = i + d
      /\ \A j \in 1..a : j > d => j - d \in 1..b - 1 /\ j - d + d = j
  BY <1>1, <1>2, PlacesMove
<1>4. t[b] = x
  BY <1>1, <1>2
<1>5. ASSUME NEW i \in 1..b - 1 PROVE i + d \in 1..a /\ t[i] = s[i + d]
  BY <1>1, <1>3
<1>6. ASSUME NEW j \in 1..a, j > d PROVE j - d \in 1..b - 1 /\ t[j - d] = s[j]
  BY <1>3, <1>5, <1>6
<1>7. QED
  BY <1>2, <1>4, <1>5, <1>6 DEF a, b, d, Shifted

\* The faults that are kept when one more comes.
LEMMA FaultKept ==
  ASSUME WebTyped, Web!FaultsNumbered, pending.kind = "none", sent < MaxSends,
         NEW t, t = Web!Keep(shared.faults, sent + 1)
  PROVE  LET d == Len(shared.faults) + 1 - Len(t) IN
         /\ t \in Seq(Web!Faults) /\ Len(t) \in Nat \ {0} /\ Len(t) <= KeptFaults /\ d \in {0, 1}
         /\ t[Len(t)] = sent + 1
         /\ \A i \in 1..Len(t) - 1 : i + d \in 1..Len(shared.faults)
                                    /\ t[i] = shared.faults[i + d] /\ t[i] <= sent
         /\ \A j \in 1..Len(shared.faults) :
              j > d => j - d \in 1..Len(t) - 1 /\ t[j - d] = shared.faults[j]
<1> DEFINE s == shared.faults
           d == Len(s) + 1 - Len(t)
<1>1. /\ s \in Seq(Web!Faults) /\ Len(s) \in Nat /\ Len(s) <= KeptFaults
      /\ KeptFaults \in Nat \ {0} /\ sent \in Nat /\ MaxSends \in Nat
  BY DEF WebTyped, WebSizes
<1>2. sent + 1 \in Web!Faults
  BY <1>1 DEF Web!Faults
<1>3. \A i \in 1..Len(s) : s[i] <= sent
  <2>1. DOMAIN s = 1..Len(s)
    BY <1>1, LenProperties
  <2>2. QED
    BY <2>1 DEF Web!FaultsNumbered
<1>4. t = Web!Newest(Append(s, sent + 1), KeptFaults)
  BY DEF Web!Keep
<1> HIDE DEF s
<1>5. t \in Seq(Web!Faults) /\ OneMore(s, sent + 1, KeptFaults, t)
  BY <1>1, <1>2, <1>4, NewestTakes
<1>6. Len(t) <= KeptFaults /\ Shifted(s, sent + 1, t)
  BY <1>1, <1>5, OneMoreShifts
<1>7. \A i \in 1..Len(t) - 1 : i + d \in 1..Len(s) /\ t[i] = s[i + d] /\ t[i] <= sent
  BY <1>3, <1>6 DEF Shifted
<1>8. QED
  BY <1>5, <1>6, <1>7 DEF s, Shifted

\* What a fault that begins does to the shared list: the first d go, it comes last.
FaultShifts(u) ==
  LET s == shared.faults
      t == shared'.faults
      d == Len(s) + 1 - Len(t)
  IN /\ u.value = sent + 1
     /\ t \in Seq(Web!Faults) /\ Len(t) \in Nat \ {0} /\ d \in {0, 1}
     /\ t[Len(t)] = sent + 1
     /\ \A i \in 1..Len(t) - 1 : i + d \in 1..Len(s) /\ t[i] = s[i + d] /\ t[i] <= sent
     /\ \A j \in 1..Len(s) : j > d => j - d \in 1..Len(t) - 1 /\ t[j - d] = s[j]
     /\ DOMAIN s = 1..Len(s) /\ Len(s) \in Nat
     /\ \A i \in DOMAIN s : s[i] \in Nat
     /\ DOMAIN t = 1..Len(t) /\ t # <<>> /\ \A i \in 1..Len(t) : t[i] \in Nat

LEMMA BeginShifts ==
  ASSUME WebTyped, Web!FaultsNumbered, NEW u \in Web!Updates, Web!Begin(u), u.kind = "fault"
  PROVE  FaultShifts(u)
<1> DEFINE s == shared.faults
           t == shared'.faults
           d == Len(s) + 1 - Len(t)
<1>1. pending.kind = "none" /\ sent < MaxSends
  BY WebBegun
<1>2. u.value = sent + 1 /\ t = Web!Keep(s, sent + 1)
  BY WebBegun
<1>3. /\ t \in Seq(Web!Faults) /\ Len(t) \in Nat \ {0} /\ d \in {0, 1}
      /\ t[Len(t)] = sent + 1
      /\ \A i \in 1..Len(t) - 1 : i + d \in 1..Len(s) /\ t[i] = s[i + d] /\ t[i] <= sent
      /\ \A j \in 1..Len(s) : j > d => j - d \in 1..Len(t) - 1 /\ t[j - d] = s[j]
  BY <1>1, <1>2, FaultKept
<1>4. /\ DOMAIN s = 1..Len(s) /\ Len(s) \in Nat
      /\ \A i \in DOMAIN s : s[i] \in Nat
  <2>1. s \in Seq(Web!Faults) /\ Web!Faults \subseteq Nat
    BY DEF WebTyped, Web!Faults, WebSizes
  <2>2. QED
    BY <2>1, LenProperties, ElementOfSeq
<1>5. DOMAIN t = 1..Len(t) /\ t # <<>> /\ \A i \in 1..Len(t) : t[i] \in Nat
  <2>1. t \in Seq(Web!Faults) /\ Web!Faults \subseteq Nat
    BY <1>3 DEF WebTyped, Web!Faults, WebSizes
  <2>2. QED
    BY <1>3, <2>1, LenProperties, ElementOfSeq, EmptySeq
<1>6. QED
  BY <1>2, <1>3, <1>4, <1>5 DEF FaultShifts

\* The fields after an update has begun.
LEMMA BeginFields ==
  ASSUME WebTyped, NEW u \in Web!Updates, Web!Begin(u)
  PROVE  /\ \A f \in Fields : u.kind = f => shared'.fields[f] = u.value
         /\ \A f \in Fields : u.kind # f => shared'.fields[f] = shared.fields[f]
<1>1. shared.fields \in [Fields -> Values \cup {-1}]
  BY DEF WebTyped
<1>2. \/ shared'.fields = [shared.fields EXCEPT ![u.kind] = u.value]
      \/ shared'.fields = shared.fields /\ u.kind \notin Fields
  BY WebBegun
<1>3. QED
  BY <1>1, <1>2

\* An update that begins: the messages and the counters.
LEMMA BeginMessages ==
  ASSUME Web!IInv, NEW u \in Web!Updates, Web!Begin(u)
  PROVE  Web!TypeOK' /\ Web!Behind' /\ Web!MessagesCarry' /\ Web!CountersAgree'
<1>1. WebTyped
  BY WebOpened DEF Web!IInv
<1>2. UNCHANGED <<ring, sent, prom, conn, page>>
  BY DEF Web!Begin
<1>3. /\ pending = Web!NoUpdate /\ pending.kind = "none" /\ sent < MaxSends
      /\ pending' = u /\ u \in Web!Update /\ shared' \in Web!Snapshot
  BY <1>1, WebBegun
<1>4. \/ /\ u.kind \in Fields /\ u.kind # "fault" /\ u.value \in Values
         /\ shared'.faults = shared.faults
         /\ shared'.fields = [shared.fields EXCEPT ![u.kind] = u.value]
      \/ /\ u.kind = "fault" /\ u.kind \notin Fields /\ u.value = sent + 1
         /\ shared'.fields = shared.fields
         /\ shared'.faults = Web!Keep(shared.faults, u.value)
  BY <1>1, WebBegun
<1>5. Len(shared'.faults) <= KeptFaults
  <2>1. CASE u.kind = "fault"
    <3>1. shared'.faults = Web!Keep(shared.faults, sent + 1)
      BY <1>4, <2>1
    <3>2. QED
      BY <1>1, <1>3, <3>1, FaultKept DEF Web!IInv
  <2>2. CASE u.kind # "fault"
    BY <1>1, <1>4, <2>2 DEF WebTyped
  <2>3. QED
    BY <2>1, <2>2
<1>6. Web!TypeOK'
  BY <1>2, <1>3, <1>5 DEF Web!IInv, Web!TypeOK
<1>7. Web!Behind'
  BY <1>2 DEF Web!IInv, Web!Behind
<1>8. /\ \A f \in Fields : u.kind = f => shared'.fields[f] = u.value
      /\ \A f \in Fields : u.kind # f => shared'.fields[f] = shared.fields[f]
  BY <1>1, BeginFields
<1>9. u # Web!NoUpdate /\ u.kind # "none"
  BY <1>3, KindsOfUpdates
<1>10. Web!MessagesCarry'
  <2>1. \A f \in Fields : pending'.kind = f => pending'.value = shared'.fields[f]
    BY <1>3, <1>8
  <2>2. ASSUME NEW f \in Fields, NEW i \in DOMAIN ring, ring[i].kind = f, Web!Silent(f, i)'
        PROVE  ring[i].value = shared'.fields[f]
    <3>0. f # "none"
      BY <1>1 DEF WebTyped, WebSizes
    <3>1. Web!Silent(f, i) /\ u.kind # f
      BY <1>2, <1>3, <1>9, <2>2, <3>0, SilenceAtBegin
    <3>2. QED
      BY <1>8, <2>2, <3>1 DEF Web!IInv, Web!MessagesCarry
  <2>3. QED
    BY <1>2, <1>3, <2>1, <2>2 DEF Web!MessagesCarry
<1>11. Web!CountersAgree'
  BY <1>2, <1>3, <1>8 DEF Web!IInv, Web!CountersAgree
<1>12. QED
  BY <1>6, <1>7, <1>10, <1>11

\* An update that begins: the numbers of the faults.
LEMMA BeginFaults ==
  ASSUME Web!IInv, NEW u \in Web!Updates, Web!Begin(u)
  PROVE  Web!FaultsNumbered'
<1>1. WebTyped /\ Web!FaultsNumbered
  BY WebOpened DEF Web!IInv
<1>2. ring' = ring /\ sent' = sent
  BY DEF Web!Begin
<1>3. pending.kind = "none" /\ sent < MaxSends /\ pending' = u /\ sent \in Nat
  BY <1>1, WebBegun DEF WebTyped
<1>4. Web!Oldest' = Web!Oldest
  BY <1>2 DEF Web!Oldest
<1>5. CASE u.kind # "fault"
  <2>1. shared'.faults = shared.faults
    BY <1>1, <1>5, WebBegun
  <2>2. QED
    BY <1>1, <1>2, <1>3, <1>4, <1>5, <2>1 DEF Web!FaultsNumbered
<1>6. CASE u.kind = "fault"
  <2> DEFINE s == shared.faults
             t == shared'.faults
             d == Len(s) + 1 - Len(t)
  <2>0. FaultShifts(u)
    BY <1>1, <1>6, BeginShifts
  <2>1. u.value = sent + 1
    BY <2>0 DEF FaultShifts
  <2>2. /\ t \in Seq(Web!Faults) /\ Len(t) \in Nat \ {0} /\ d \in {0, 1}
        /\ t[Len(t)] = sent + 1
        /\ \A i \in 1..Len(t) - 1 : i + d \in 1..Len(s) /\ t[i] = s[i + d] /\ t[i] <= sent
        /\ \A j \in 1..Len(s) : j > d => j - d \in 1..Len(t) - 1 /\ t[j - d] = s[j]
    BY <2>0 DEF FaultShifts
  <2>3. /\ DOMAIN s = 1..Len(s) /\ Len(s) \in Nat
        /\ \A i \in DOMAIN s : s[i] \in Nat
    BY <2>0 DEF FaultShifts
  <2>4. DOMAIN t = 1..Len(t) /\ t # <<>> /\ \A i \in 1..Len(t) : t[i] \in Nat
    BY <2>0 DEF FaultShifts
  <2> HIDE DEF s, t, d
  <2>5. ASSUME NEW i \in DOMAIN t, NEW j \in DOMAIN t, i < j PROVE t[i] < t[j]
    <3>1. i \in 1..Len(t) - 1
      BY <2>2, <2>4, <2>5
    <3>2. CASE j = Len(t)
      <4>1. t[i] <= sent /\ t[i] \in Nat /\ t[j] = sent + 1
        BY <2>2, <2>4, <3>1, <3>2
      <4>2. QED
        BY <1>3, <4>1
    <3>3. CASE j # Len(t)
      <4>1. j \in 1..Len(t) - 1
        BY <2>2, <2>4, <3>3
      <4>2. /\ i + d \in DOMAIN s /\ j + d \in DOMAIN s
            /\ t[i] = s[i + d] /\ t[j] = s[j + d]
        BY <2>2, <2>3, <3>1, <4>1
      <4>3. i + d < j + d
        BY <2>2, <2>5, <3>1, <4>1
      <4>4. QED
        BY <1>1, <4>2, <4>3 DEF Web!FaultsNumbered, s
    <3>4. QED
      BY <3>2, <3>3
  <2>6. ASSUME NEW v \in Int, v <= sent,
               \/ \E j \in DOMAIN s : s[j] = v
               \/ \A j \in DOMAIN s : s[j] > v
        PROVE  \/ \E j \in DOMAIN t : t[j] = v
               \/ \A j \in DOMAIN t : t[j] > v
    <3>1. CASE \A j \in DOMAIN s : s[j] > v
      <4>1. ASSUME NEW j \in DOMAIN t PROVE t[j] > v
        <5>1. CASE j = Len(t)
          BY <1>3, <2>2, <2>6, <5>1
        <5>2. CASE j # Len(t)
          <6>1. j \in 1..Len(t) - 1
            BY <2>2, <2>4, <5>2
          <6>2. j + d \in DOMAIN s /\ t[j] = s[j + d]
            BY <2>2, <2>3, <6>1
          <6>3. QED
            BY <3>1, <6>2
        <5>3. QED
          BY <5>1, <5>2
      <4>2. QED
        BY <4>1
    <3>2. ASSUME NEW j \in DOMAIN s, s[j] = v, j > d PROVE \E k \in DOMAIN t : t[k] = v
      <4>1. j - d \in 1..Len(t) - 1 /\ t[j - d] = v
        BY <2>2, <2>3, <3>2
      <4>2. j - d \in DOMAIN t
        BY <2>2, <2>4, <4>1
      <4>3. QED
        BY <4>1, <4>2
    <3>3. ASSUME NEW j \in DOMAIN s, s[j] = v, ~(j > d) PROVE \A k \in DOMAIN t : t[k] > v
      <4>1. j = 1 /\ d = 1
        BY <2>2, <2>3, <3>3
      <4> SUFFICES ASSUME NEW k \in DOMAIN t PROVE t[k] > v
        OBVIOUS
      <4>2. CASE k = Len(t)
        BY <1>3, <2>2, <2>6, <4>2
      <4>3. CASE k # Len(t)
        <5>1. k \in 1..Len(t) - 1
          BY <2>2, <2>4, <4>3
        <5>2. k + 1 \in DOMAIN s /\ t[k] = s[k + 1] /\ 1 < k + 1 /\ 1 \in DOMAIN s
          BY <2>2, <2>3, <3>3, <4>1, <5>1
        <5>3. s[1] < s[k + 1]
          BY <1>1, <5>2 DEF Web!FaultsNumbered, s
        <5>4. s[1] \in Nat /\ s[k + 1] \in Nat
          BY <2>3, <5>2
        <5>5. QED
          BY <3>3, <4>1, <5>2, <5>3, <5>4
      <4>4. QED
        BY <4>2, <4>3
    <3>4. QED
      BY <2>6, <3>1, <3>2, <3>3
  <2>7. ASSUME NEW i \in DOMAIN ring, ring[i].kind = "fault"
        PROVE  /\ ring[i].value = Web!Oldest + i
               /\ \/ \E j \in DOMAIN t : t[j] = Web!Oldest + i
                  \/ \A j \in DOMAIN t : t[j] > Web!Oldest + i
    <3>1. /\ ring[i].value = Web!Oldest + i
          /\ \/ \E j \in DOMAIN s : s[j] = Web!Oldest + i
             \/ \A j \in DOMAIN s : s[j] > Web!Oldest + i
      BY <1>1, <2>7 DEF Web!FaultsNumbered, s
    <3>2. Web!Oldest + i \in Int /\ Web!Oldest + i <= sent
      <4>1. ring \in Seq(Web!Update) /\ Len(ring) \in Nat
        BY <1>1 DEF WebTyped
      <4>2. i \in 1..Len(ring)
        BY <4>1, LenProperties
      <4>3. QED
        BY <1>3, <4>1, <4>2 DEF Web!Oldest
    <3>3. QED
      BY <2>6, <3>1, <3>2
  <2>8. QED
    BY <1>2, <1>3, <1>4, <1>6, <2>1, <2>2, <2>4, <2>5, <2>7 DEF Web!FaultsNumbered, t
<1>7. QED
  BY <1>5, <1>6

LEMMA BeginOthers ==
  ASSUME Web!IInv, NEW u \in Web!Updates, Web!Begin(u)
  PROVE  Web!OthersBringNone'
<1>1. WebTyped /\ Web!FaultsNumbered /\ Web!OthersBringNone
  BY WebOpened DEF Web!IInv
<1>2. ring' = ring /\ sent' = sent /\ Web!Oldest' = Web!Oldest
  BY DEF Web!Begin, Web!Oldest
<1>3. CASE u.kind # "fault"
  <2>1. shared'.faults = shared.faults
    BY <1>1, <1>3, WebBegun
  <2>2. QED
    BY <1>1, <1>2, <2>1 DEF Web!OthersBringNone
<1>4. CASE u.kind = "fault"
  <2> DEFINE s == shared.faults
             t == shared'.faults
             d == Len(s) + 1 - Len(t)
  <2>1. FaultShifts(u)
    BY <1>1, <1>4, BeginShifts
  <2>2. /\ Len(t) \in Nat \ {0} /\ t[Len(t)] = sent + 1 /\ DOMAIN t = 1..Len(t)
        /\ \A i \in 1..Len(t) - 1 : i + d \in 1..Len(s) /\ t[i] = s[i + d]
        /\ DOMAIN s = 1..Len(s)
    BY <2>1 DEF FaultShifts
  <2> HIDE DEF s, t, d
  <2>3. ASSUME NEW i \in DOMAIN ring, ring[i].kind # "fault", NEW j \in DOMAIN t
        PROVE  t[j] # Web!Oldest + i
    <3>1. CASE j = Len(t)
      <4>1. ring \in Seq(Web!Update) /\ Len(ring) \in Nat /\ sent \in Nat
        BY <1>1 DEF WebTyped
      <4>2. i \in 1..Len(ring)
        BY <2>3, <4>1, LenProperties
      <4>3. Web!Oldest + i <= sent
        BY <4>1, <4>2 DEF Web!Oldest
      <4>4. Web!Oldest + i \in Int
        BY <4>1, <4>2 DEF Web!Oldest
      <4>5. QED
        BY <2>2, <3>1, <4>1, <4>3, <4>4
    <3>2. CASE j # Len(t)
      <4>1. j \in 1..Len(t) - 1
        BY <2>2, <2>3, <3>2
      <4>2. j + d \in DOMAIN s /\ t[j] = s[j + d]
        BY <2>2, <4>1
      <4>3. QED
        BY <1>1, <2>3, <4>2 DEF Web!OthersBringNone, s
    <3>3. QED
      BY <3>1, <3>2
  <2>4. QED
    BY <1>2, <2>3 DEF Web!OthersBringNone, t
<1>5. QED
  BY <1>3, <1>4

\* The last fault up to the message n is the same before a fault has begun and after.
LEMMA LastShifts ==
  ASSUME WebTyped, NEW u, FaultShifts(u), NEW n \in Nat, n <= sent,
         NEW t, t = shared'.faults,
         NEW k \in DOMAIN t, t[k] <= n, \A i \in DOMAIN t : i > k => t[i] > n
  PROVE  LET d == Len(shared.faults) + 1 - Len(t)
         IN k # Len(t) /\ k + d \in DOMAIN shared.faults /\ Web!LastUpTo(k + d, n)
<1> DEFINE s == shared.faults
           d == Len(s) + 1 - Len(t)
<1>1. /\ Len(t) \in Nat \ {0} /\ d \in {0, 1} /\ t[Len(t)] = sent + 1
      /\ \A i \in 1..Len(t) - 1 : i + d \in 1..Len(s) /\ t[i] = s[i + d]
      /\ \A j \in 1..Len(s) : j > d => j - d \in 1..Len(t) - 1 /\ t[j - d] = s[j]
      /\ DOMAIN s = 1..Len(s) /\ Len(s) \in Nat /\ DOMAIN t = 1..Len(t)
  BY DEF FaultShifts
<1>2. sent \in Nat
  BY DEF WebTyped
<1> HIDE DEF s, d
<1>3. k # Len(t)
  BY <1>1, <1>2
<1>4. k \in 1..Len(t) - 1
  BY <1>1, <1>3
<1>5. k + d \in DOMAIN s /\ s[k + d] <= n
  BY <1>1, <1>4
<1>6. ASSUME NEW i \in DOMAIN s, i > k + d PROVE s[i] > n
  <2>1. i > d /\ i - d \in Int /\ i - d > k
    BY <1>1, <1>4, <1>6
  <2>2. i - d \in 1..Len(t) - 1 /\ t[i - d] = s[i]
    BY <1>1, <2>1
  <2>3. i - d \in DOMAIN t
    BY <1>1, <2>2
  <2>4. t[i - d] > n
    BY <2>1, <2>3
  <2>5. QED
    BY <2>2, <2>4
<1>7. QED
  BY <1>3, <1>5, <1>6 DEF Web!LastUpTo, s, d

\* An update that begins: what was read.
LEMMA BeginSnapshot ==
  ASSUME Web!IInv, NEW u \in Web!Updates, Web!Begin(u)
  PROVE  Web!SnapshotHolds'
<1>1. WebTyped /\ Web!FaultsNumbered /\ Web!SnapshotHolds /\ Web!Behind
  BY WebOpened DEF Web!IInv
<1>2. ring' = ring /\ sent' = sent /\ conn' = conn
  BY DEF Web!Begin
<1>3. /\ pending = Web!NoUpdate /\ pending' = u /\ u # Web!NoUpdate
      /\ conn.next \in Nat /\ conn.next <= sent /\ sent \in Nat
  BY <1>1, WebBegun, KindsOfUpdates DEF WebTyped, Web!Behind
<1>4. Web!Oldest' = Web!Oldest
  BY <1>2 DEF Web!Oldest
<1> SUFFICES ASSUME conn.stage = "reading" PROVE Web!SnapshotHolds'
  BY <1>2 DEF Web!SnapshotHolds
<1>5. ASSUME NEW f \in Fields, f \notin conn.unread, Web!Oldest <= conn.next,
             Web!Silent(f, conn.next - Web!Oldest)'
      PROVE  conn.snapshot.fields[f] = shared'.fields[f]
  <2>1. Web!Silent(f, conn.next - Web!Oldest) /\ u.kind # f
    <3>1. f # "none"
      BY <1>1 DEF WebTyped, WebSizes
    <3>2. \A k : Web!Silent(f, k)' => Web!Silent(f, k) /\ u.kind # f
      BY <1>2, <1>3, <3>1, SilenceAtBegin
    <3>3. QED
      BY <1>2, <1>4, <1>5, <3>2
  <2>2. conn.snapshot.fields[f] = shared.fields[f]
    BY <1>1, <1>5, <2>1 DEF Web!SnapshotHolds
  <2>3. QED
    BY <1>1, <2>1, <2>2, BeginFields
<1>6. ASSUME "faults" \notin conn.unread, NEW j \in DOMAIN shared'.faults,
             shared'.faults[j] <= conn.next
      PROVE  \E i \in DOMAIN conn.snapshot.faults :
               /\ conn.snapshot.faults[i] = shared'.faults[j]
               /\ Len(conn.snapshot.faults) - i <= Len(shared'.faults) - j
  <2>1. CASE u.kind # "fault"
    <3>1. shared'.faults = shared.faults
      BY <1>1, <2>1, WebBegun
    <3>2. QED
      BY <1>1, <1>6, <3>1 DEF Web!SnapshotHolds
  <2>2. CASE u.kind = "fault"
    <3> DEFINE s == shared.faults
               t == shared'.faults
               r_ == conn.snapshot.faults
               d == Len(s) + 1 - Len(t)
    <3>1. /\ Len(t) \in Nat \ {0} /\ d \in {0, 1} /\ t[Len(t)] = sent + 1
          /\ \A i \in 1..Len(t) - 1 : i + d \in 1..Len(s) /\ t[i] = s[i + d]
          /\ DOMAIN s = 1..Len(s) /\ Len(s) \in Nat /\ DOMAIN t = 1..Len(t)
      BY <1>1, <2>2, BeginShifts DEF FaultShifts
    <3>2. \A i \in DOMAIN s : s[i] <= conn.next =>
            \E k \in DOMAIN r_ : r_[k] = s[i] /\ Len(r_) - k <= Len(s) - i
      BY <1>1, <1>6 DEF Web!SnapshotHolds
    <3>3. j \in DOMAIN t /\ t[j] <= conn.next
      BY <1>6
    <3>4. DOMAIN r_ = 1..Len(r_) /\ Len(r_) \in Nat
      BY <1>1, LenProperties DEF WebTyped
    <3>5. d = Len(s) + 1 - Len(t)
      OBVIOUS
    <3> HIDE DEF s, t, r_, d
    <3>6. j \in 1..Len(t) - 1
      BY <1>3, <3>1, <3>3
    <3>7. j + d \in DOMAIN s /\ s[j + d] = t[j]
      BY <3>1, <3>6
    <3>8. PICK k \in DOMAIN r_ : r_[k] = s[j + d] /\ Len(r_) - k <= Len(s) - (j + d)
      BY <3>2, <3>3, <3>7
    <3>9. Len(r_) - k <= Len(t) - j
      <4> DEFINE a == Len(s)
                 b == Len(t)
                 c == Len(r_)
      <4>1. a \in Nat /\ b \in Nat /\ c \in Nat /\ d \in Nat
        BY <3>1, <3>4
      <4>2. k \in Nat /\ j \in Nat
        BY <3>1, <3>4, <3>6
      <4>3. d = a + 1 - b /\ c - k <= a - (j + d)
        BY <3>5, <3>8
      <4> HIDE DEF a, b, c
      <4>4. c - k <= b - j
        BY <4>1, <4>2, <4>3
      <4>5. QED
        BY <4>4 DEF b, c
    <3>10. QED
      BY <3>7, <3>8, <3>9 DEF r_, t
  <2>3. QED
    BY <2>1, <2>2
<1>7. QED
  BY <1>2, <1>4, <1>5, <1>6 DEF Web!SnapshotHolds

\* An update that begins: the page.
LEMMA BeginPage ==
  ASSUME Web!IInv, NEW u \in Web!Updates, Web!Begin(u)
  PROVE  Web!PageHolds'
<1>1. WebTyped /\ Web!FaultsNumbered /\ Web!PageHolds /\ Web!Behind
  BY WebOpened DEF Web!IInv
<1>2. ring' = ring /\ sent' = sent /\ conn' = conn /\ page' = page
  BY DEF Web!Begin
<1>3. /\ pending = Web!NoUpdate /\ pending' = u /\ u # Web!NoUpdate
      /\ conn.next \in Nat /\ conn.next <= sent /\ sent \in Nat
  BY <1>1, WebBegun, KindsOfUpdates DEF WebTyped, Web!Behind
<1>4. Web!Oldest' = Web!Oldest
  BY <1>2 DEF Web!Oldest
<1> SUFFICES ASSUME conn.stage = "open", ~conn.lagged PROVE Web!PageHolds'
  BY <1>2 DEF Web!PageHolds
<1>5. ASSUME NEW f \in Fields, Web!Oldest <= conn.next,
             Web!Silent(f, conn.next - Web!Oldest)'
      PROVE  page.fields[f] = shared'.fields[f]
  <2>1. Web!Silent(f, conn.next - Web!Oldest) /\ u.kind # f
    <3>1. f # "none"
      BY <1>1 DEF WebTyped, WebSizes
    <3>2. \A k : Web!Silent(f, k)' => Web!Silent(f, k) /\ u.kind # f
      BY <1>2, <1>3, <3>1, SilenceAtBegin
    <3>3. QED
      BY <1>2, <1>4, <1>5, <3>2
  <2>2. page.fields[f] = shared.fields[f]
    BY <1>1, <1>5, <2>1 DEF Web!PageHolds
  <2>3. QED
    BY <1>1, <2>1, <2>2, BeginFields
<1>6. CASE u.kind # "fault"
  <2>1. shared'.faults = shared.faults
    BY <1>1, <1>6, WebBegun
  <2>2. QED
    BY <1>1, <1>2, <1>4, <1>5, <2>1 DEF Web!PageHolds, Web!LastUpTo
<1>7. CASE u.kind = "fault"
  <2> DEFINE s == shared.faults
             t == shared'.faults
             d == Len(s) + 1 - Len(t)
             n == conn.next
  <2>1. FaultShifts(u)
    BY <1>1, <1>7, BeginShifts
  <2>2. /\ Len(t) \in Nat \ {0} /\ d \in {0, 1} /\ t[Len(t)] = sent + 1
        /\ \A i \in 1..Len(t) - 1 : i + d \in 1..Len(s) /\ t[i] = s[i + d]
        /\ DOMAIN s = 1..Len(s) /\ Len(s) \in Nat /\ DOMAIN t = 1..Len(t)
    BY <2>1 DEF FaultShifts
  <2>3. ~Web!LastUpTo(Len(shared.faults), conn.next)'
    BY <1>2, <1>3, <2>2 DEF Web!LastUpTo
  <2>4. ASSUME NEW k \in DOMAIN t, Web!LastUpTo(k, conn.next)', NEW j \in 1..k,
               Len(t) - j < FullFaults
        PROVE  \E i \in DOMAIN page.faults : i <= FullFaults + k - j /\ page.faults[i] = t[j]
    <3>1. t[k] <= n /\ \A i \in DOMAIN t : i > k => t[i] > n
      BY <1>2, <2>4 DEF Web!LastUpTo
    <3>2. k # Len(t) /\ k + d \in DOMAIN s /\ Web!LastUpTo(k + d, n)
      BY <1>1, <1>3, <2>1, <3>1, LastShifts
    <3>3. FullFaults \in Nat /\ d = Len(s) + 1 - Len(t)
      BY <1>1 DEF WebTyped, WebSizes
    <3>4. \A l \in 1..k + d : Len(s) - l < FullFaults =>
            \E i \in DOMAIN page.faults :
              i <= FullFaults + (k + d) - l /\ page.faults[i] = s[l]
      BY <1>1, <3>2 DEF Web!PageHolds
    <3> HIDE DEF s, t, d, n
    <3>5. k \in 1..Len(t) - 1 /\ j \in 1..Len(t) - 1 /\ j \in Nat /\ k \in Nat /\ d \in Nat
      BY <2>2, <3>2
    <3>6. s[j + d] = t[j]
      BY <2>2, <3>5
    <3>7. j + d \in 1..k + d
      BY <3>5
    <3>8. Len(s) - (j + d) < FullFaults /\ FullFaults + (k + d) - (j + d) = FullFaults + k - j
      <4> DEFINE a == Len(s)
                 b == Len(t)
      <4>1. a \in Nat /\ b \in Nat /\ d = a + 1 - b /\ b - j < FullFaults
        BY <2>2, <2>4, <3>3
      <4> HIDE DEF a, b
      <4>2. a - (j + d) < FullFaults
        BY <3>3, <3>5, <4>1
      <4>3. FullFaults + (k + d) - (j + d) = FullFaults + k - j
        BY <3>3, <3>5
      <4>4. QED
        BY <4>2, <4>3 DEF a
    <3>9. QED
      BY <3>4, <3>6, <3>7, <3>8
  <2>5. QED
    BY <1>2, <1>4, <1>5, <2>3, <2>4 DEF Web!PageHolds
<1>8. QED
  BY <1>6, <1>7

LEMMA WebBegins ==
  ASSUME Web!IInv, NEW u \in Web!Updates, Web!Begin(u)
  PROVE  Web!IInv'
BY BeginMessages, BeginFaults, BeginOthers, BeginSnapshot, BeginPage DEF Web!IInv

\* How many messages the channel drops when it takes one.
Dropped == Len(ring) + 1 - Len(ring')

\* What a message that is sent does to the channel.
ChannelTakes ==
  /\ Dropped \in Nat /\ Dropped <= 1 /\ Len(ring) \in Nat /\ Len(ring') \in Nat
  /\ Len(ring') # 0 /\ Len(ring') = Len(ring) + 1 - Dropped
  /\ ring'[Len(ring')] = pending
  /\ \A i \in 1..Len(ring') - 1 : i + Dropped \in 1..Len(ring) /\ ring'[i] = ring[i + Dropped]
  /\ \A j \in 1..Len(ring) : j > Dropped =>
       j - Dropped \in 1..Len(ring') - 1 /\ ring'[j - Dropped] = ring[j]
  /\ DOMAIN ring = 1..Len(ring) /\ DOMAIN ring' = 1..Len(ring')
  /\ ring' \in Seq(Web!Update) /\ Len(ring') <= Cap
  /\ pending \in Web!Update /\ pending' = Web!NoUpdate
  /\ sent' = sent + 1 /\ sent < MaxSends /\ sent \in Nat
  /\ Web!Oldest \in Nat /\ Web!Oldest = sent - Len(ring) /\ Web!Oldest' = Web!Oldest + Dropped

LEMMA SendShifts == ASSUME Web!IInv, Web!Send PROVE ChannelTakes
<1>1. WebTyped /\ Web!MessagesCarry /\ Web!Behind
  BY WebOpened DEF Web!IInv
<1>2. /\ pending # Web!NoUpdate /\ pending' = Web!NoUpdate
      /\ ring' = Web!Newest(Append(ring, pending), Cap) /\ sent' = sent + 1
  BY DEF Web!Send
<1>3. /\ ring \in Seq(Web!Update) /\ Len(ring) \in Nat /\ Len(ring) <= Cap
      /\ Cap \in Nat \ {0} /\ sent \in Nat /\ pending \in Web!Update
  BY <1>1, <1>2 DEF WebTyped, WebSizes
<1>4. ring' \in Seq(Web!Update) /\ OneMore(ring, pending, Cap, ring')
  BY <1>2, <1>3, NewestTakes
<1>5. Len(ring') <= Cap /\ Shifted(ring, pending, ring')
  BY <1>3, <1>4, OneMoreShifts
<1>6. DOMAIN ring = 1..Len(ring) /\ DOMAIN ring' = 1..Len(ring')
  BY <1>3, <1>4, LenProperties
<1>7. sent < MaxSends
  BY <1>1, <1>2 DEF Web!MessagesCarry
<1>8. Len(ring) <= sent
  BY <1>1 DEF Web!Behind
<1>9. /\ Len(ring') \in Nat \ {0} /\ Dropped \in {0, 1} /\ ring'[Len(ring')] = pending
      /\ \A i \in 1..Len(ring') - 1 :
           i + Dropped \in 1..Len(ring) /\ ring'[i] = ring[i + Dropped]
      /\ \A j \in 1..Len(ring) : j > Dropped =>
           j - Dropped \in 1..Len(ring') - 1 /\ ring'[j - Dropped] = ring[j]
  BY <1>5 DEF Shifted, Dropped
<1>10. /\ Web!Oldest = sent - Len(ring) /\ Web!Oldest' = sent' - Len(ring')
       /\ Dropped = Len(ring) + 1 - Len(ring')
  BY DEF Web!Oldest, Dropped
<1>11. /\ Web!Oldest' = Web!Oldest + Dropped /\ Web!Oldest \in Nat
       /\ Len(ring') = Len(ring) + 1 - Dropped
  BY <1>2, <1>3, <1>8, <1>9, <1>10
<1>12. Dropped \in Nat /\ Dropped <= 1 /\ Len(ring') \in Nat /\ Len(ring') # 0
  BY <1>9
<1>13. QED
  BY <1>2, <1>3, <1>4, <1>5, <1>6, <1>7, <1>9, <1>10, <1>11, <1>12 DEF ChannelTakes

\* No item of s after k is of the kind f.
QuietAfter(s, f, k) == \A i \in DOMAIN s : i > k => s[i].kind # f

LEMMA SilenceAtSend ==
  ASSUME Web!IInv, Web!Send, NEW f \in Fields, NEW k \in Nat, k < Len(ring'),
         QuietAfter(ring', f, k)
  PROVE  pending.kind # f /\ Web!Silent(f, k + Dropped)
<1> DEFINE t == ring'
           d == Dropped
<1>1. /\ Len(t) \in Nat \ {0} /\ d \in Nat /\ t[Len(t)] = pending
      /\ \A j \in 1..Len(ring) : j > d => j - d \in 1..Len(t) - 1 /\ t[j - d] = ring[j]
      /\ DOMAIN ring = 1..Len(ring) /\ DOMAIN t = 1..Len(t) /\ Len(ring) \in Nat
  BY SendShifts DEF ChannelTakes
<1>2. \A i \in DOMAIN t : i > k => t[i].kind # f
  BY DEF QuietAfter
<1>3. k < Len(t)
  OBVIOUS
<1> HIDE DEF t, d
<1>4. pending.kind # f
  BY <1>1, <1>2, <1>3
<1>5. ASSUME NEW i \in DOMAIN ring, i > k + d PROVE ring[i].kind # f
  <2>1. i \in Nat /\ d \in Nat /\ i > d /\ i - d > k
    BY <1>1, <1>5
  <2>2. i - d \in DOMAIN t /\ t[i - d] = ring[i]
    BY <1>1, <2>1
  <2>3. QED
    BY <1>2, <2>1, <2>2
<1>6. QED
  BY <1>4, <1>5 DEF Web!Silent, d, t

\* A message that is sent: what it carries, and the counters.
LEMMA SendMessages ==
  ASSUME Web!IInv, Web!Send
  PROVE  Web!TypeOK' /\ Web!Behind' /\ Web!MessagesCarry' /\ Web!CountersAgree'
<1>1. WebTyped /\ Web!MessagesCarry /\ Web!Behind /\ Web!CountersAgree
  BY WebOpened DEF Web!IInv
<1>2. UNCHANGED <<shared, conn, page>>
  BY DEF Web!Send
<1>0. ChannelTakes
  BY SendShifts
<1>3. /\ ring' \in Seq(Web!Update) /\ Len(ring') <= Cap
      /\ pending \in Web!Update /\ sent' = sent + 1 /\ sent < MaxSends /\ sent \in Nat
      /\ pending' = Web!NoUpdate
  BY <1>0 DEF ChannelTakes
<1>4. /\ prom.cycles \in Nat /\ prom.last \in Nat /\ prom.faults \in Nat
      /\ prom.cycles = prom.last /\ prom.cycles \in Values
      /\ prom = [cycles |-> prom.cycles, last |-> prom.last, faults |-> prom.faults]
  BY <1>1 DEF WebTyped, WebSizes, Web!CountersAgree
<1>5. /\ prom' \in [cycles : Values, last : Values, faults : Nat] /\ prom'.cycles = prom'.last
      /\ "metrics" \in Fields => prom'.last = shared.fields["metrics"]
  <2>1. CASE pending.kind = "metrics"
    <3> DEFINE n == pending.value
    <3>1. n \in Values /\ n \in Nat /\ "metrics" \in Fields
      BY <1>1, <1>3, <2>1, KindsOfUpdates DEF WebTyped, WebSizes
    <3>2. prom' = Web!Counted(n)
      BY <2>1 DEF Web!Send
    <3>3. n = shared.fields["metrics"]
      BY <1>1, <2>1, <3>1 DEF Web!MessagesCarry
    <3> HIDE DEF n
    <3>4. (IF n < prom.last THEN n ELSE prom.cycles + (n - prom.last)) = n
      BY <1>4, <3>1
    <3>5. prom' = [prom EXCEPT !.cycles = n, !.last = n]
      BY <3>2, <3>4 DEF Web!Counted
    <3>6. QED
      BY <1>4, <3>1, <3>3, <3>5
  <2>2. CASE pending.kind # "metrics"
    <3>1. prom' = prom \/ prom' = [prom EXCEPT !.faults = prom.faults + 1]
      BY <2>2 DEF Web!Send
    <3>2. prom'.cycles = prom.cycles /\ prom'.last = prom.last
          /\ prom' \in [cycles : Values, last : Values, faults : Nat]
      BY <1>4, <3>1
    <3>3. QED
      BY <1>1, <1>4, <2>2, <3>2 DEF Web!CountersAgree
  <2>3. QED
    BY <2>1, <2>2
<1>6. Web!CountersAgree'
  BY <1>2, <1>5 DEF Web!CountersAgree
<1>7. Web!TypeOK'
  <2>1. sent' \in 0..MaxSends
    BY <1>1, <1>3 DEF WebTyped, WebSizes
  <2>2. QED
    BY <1>2, <1>3, <1>5, <2>1 DEF Web!IInv, Web!TypeOK
<1>8. Web!Behind'
  <2>1. Len(ring') <= Len(ring) + 1 /\ Len(ring') \in Nat
    BY <1>0 DEF ChannelTakes
  <2>2. conn.next \in Nat /\ conn.next <= sent /\ Len(ring) <= sent
    BY <1>1 DEF Web!Behind, WebTyped
  <2>3. QED
    BY <1>2, <1>3, <2>1, <2>2 DEF Web!Behind
<1>9. Web!MessagesCarry'
  <2> DEFINE t == ring'
             d == Dropped
  <2>0. /\ Len(t) \in Nat /\ t[Len(t)] = pending
        /\ DOMAIN t = 1..Len(t) /\ DOMAIN ring = 1..Len(ring)
        /\ \A i \in 1..Len(t) - 1 : i + d \in 1..Len(ring) /\ t[i] = ring[i + d]
    BY <1>0 DEF ChannelTakes
  <2>1. ASSUME NEW f \in Fields, NEW i \in DOMAIN t, t[i].kind = f, Web!Silent(f, i)'
        PROVE  t[i].value = shared.fields[f]
    <3>1. CASE i = Len(t)
      BY <1>1, <2>0, <2>1, <3>1 DEF Web!MessagesCarry
    <3>2. CASE i # Len(t)
      <4>1. i \in Nat /\ i < Len(t) /\ i \in 1..Len(t) - 1
        BY <2>0, <3>2
      <4>2. Web!Silent(f, i + d)
        <5>1. QuietAfter(ring', f, i)
          BY <2>1 DEF QuietAfter, Web!Silent
        <5>2. QED
          BY <4>1, <5>1, SilenceAtSend
      <4>3. i + d \in DOMAIN ring /\ t[i] = ring[i + d]
        BY <2>0, <4>1
      <4>4. QED
        BY <1>1, <2>1, <4>2, <4>3 DEF Web!MessagesCarry
    <3>3. QED
      BY <3>1, <3>2
  <2>2. \A f \in Fields : pending'.kind # f
    BY <1>1, <1>3, KindsOfUpdates DEF WebTyped, WebSizes
  <2>3. QED
    BY <1>2, <1>3, <2>1, <2>2 DEF Web!MessagesCarry
<1>10. QED
  BY <1>6, <1>7, <1>8, <1>9

\* A message that is sent: the numbers of the faults.
LEMMA SendFaults ==
  ASSUME Web!IInv, Web!Send
  PROVE  Web!FaultsNumbered'
<1> DEFINE s == shared.faults
           t == ring'
           d == Dropped
<1>1. WebTyped /\ Web!FaultsNumbered
  BY WebOpened DEF Web!IInv
<1>2. shared' = shared
  BY DEF Web!Send
<1>3. /\ DOMAIN ring = 1..Len(ring) /\ DOMAIN t = 1..Len(t) /\ Len(ring) \in Nat
      /\ sent' = sent + 1 /\ sent \in Nat /\ Web!Oldest' = Web!Oldest + d /\ Web!Oldest \in Nat
      /\ pending' = Web!NoUpdate
  BY SendShifts DEF ChannelTakes
<1>4. /\ Len(t) \in Nat \ {0} /\ d \in Nat /\ t[Len(t)] = pending
      /\ \A i \in 1..Len(t) - 1 : i + d \in 1..Len(ring) /\ t[i] = ring[i + d]
      /\ Len(t) = Len(ring) + 1 - d /\ Web!Oldest = sent - Len(ring)
  BY SendShifts DEF ChannelTakes
<1>5. DOMAIN s = 1..Len(s) /\ Len(s) \in Nat /\ \A i \in DOMAIN s : s[i] \in Nat
  <2>1. s \in Seq(Web!Faults) /\ Web!Faults \subseteq Nat
    BY <1>1 DEF WebTyped, Web!Faults, WebSizes
  <2>2. QED
    BY <2>1, LenProperties, ElementOfSeq
<1>6. ASSUME NEW i \in DOMAIN s PROVE s[i] <= sent + 1
  <2>1. CASE pending.kind # "fault"
    <3>1. s[i] <= sent
      BY <1>1, <2>1 DEF Web!FaultsNumbered
    <3>2. QED
      BY <1>3, <1>5, <3>1
  <2>2. CASE pending.kind = "fault"
    <3>1. s[Len(s)] = sent + 1
      BY <1>1, <2>2 DEF Web!FaultsNumbered
    <3> HIDE DEF s
    <3>2. Len(s) \in DOMAIN s /\ (i = Len(s) \/ i < Len(s))
      BY <1>5
    <3>3. i < Len(s) => s[i] < s[Len(s)]
      BY <1>1, <3>2 DEF Web!FaultsNumbered, s
    <3>4. QED
      BY <1>3, <1>5, <3>1, <3>2, <3>3
  <2>3. QED
    BY <2>1, <2>2
<1>7. ASSUME NEW i \in DOMAIN t, t[i].kind = "fault"
      PROVE  /\ t[i].value = Web!Oldest + d + i
             /\ \/ \E j \in DOMAIN s : s[j] = Web!Oldest + d + i
                \/ \A j \in DOMAIN s : s[j] > Web!Oldest + d + i
  <2>1. CASE i = Len(t)
    <3>1. s # <<>> /\ pending.value = sent + 1 /\ s[Len(s)] = sent + 1
      BY <1>1, <1>4, <1>7, <2>1 DEF Web!FaultsNumbered
    <3>2. Web!Oldest + d + i = sent + 1
      <4> DEFINE a == Len(ring)
                 b == Len(t)
      <4>1. a \in Nat /\ b \in Nat /\ b = a + 1 - d /\ Web!Oldest = sent - a /\ i = b
        BY <1>3, <1>4, <2>1
      <4> HIDE DEF a, b, d
      <4>2. QED
        BY <1>3, <1>4, <4>1, SMTT(30)
    <3>3. Len(s) \in DOMAIN s
      <4>1. Len(s) # 0
        BY <1>1, <3>1, EmptySeq DEF WebTyped
      <4>2. QED
        BY <1>5, <4>1
    <3>4. QED
      BY <1>4, <2>1, <3>1, <3>2, <3>3
  <2>2. CASE i # Len(t)
    <3> DEFINE b == Len(t)
    <3>0. i \in 1..b /\ b \in Nat /\ i # b
      BY <1>3, <1>4, <1>7, <2>2
    <3> HIDE DEF d, t, b
    <3>1. i \in 1..b - 1
      BY <3>0
    <3>2. i + d \in DOMAIN ring /\ t[i] = ring[i + d]
      BY <1>3, <1>4, <3>1 DEF b
    <3>3. Web!Oldest + (i + d) = Web!Oldest + d + i
      BY <1>3, <1>4, <3>0
    <3>4. /\ ring[i + d].value = Web!Oldest + (i + d)
          /\ \/ \E j \in DOMAIN s : s[j] = Web!Oldest + (i + d)
             \/ \A j \in DOMAIN s : s[j] > Web!Oldest + (i + d)
      BY <1>1, <1>7, <3>2 DEF Web!FaultsNumbered
    <3>5. QED
      BY <3>2, <3>3, <3>4
  <2>3. QED
    BY <2>1, <2>2
<1>8. pending'.kind # "fault"
  BY <1>3, KindsOfUpdates
<1>9. \A i, j \in DOMAIN s : i < j => s[i] < s[j]
  BY <1>1 DEF Web!FaultsNumbered
<1>10. QED
  BY <1>2, <1>3, <1>6, <1>7, <1>8, <1>9 DEF Web!FaultsNumbered

LEMMA SendOthers ==
  ASSUME Web!IInv, Web!Send
  PROVE  Web!OthersBringNone'
<1> DEFINE s == shared.faults
           t == ring'
           d == Dropped
           a == Len(ring)
           b == Len(t)
           o == Web!Oldest
<1>1. WebTyped /\ Web!FaultsNumbered /\ Web!OthersBringNone
  BY WebOpened DEF Web!IInv
<1>2. shared' = shared
  BY DEF Web!Send
<1>3. /\ DOMAIN ring = 1..a /\ DOMAIN t = 1..b /\ a \in Nat /\ b \in Nat /\ d \in Nat
      /\ Web!Oldest' = o + d /\ o \in Nat /\ o = sent - a /\ b = a + 1 - d
      /\ sent \in Nat /\ t[b] = pending
      /\ \A i \in 1..b - 1 : i + d \in 1..a /\ t[i] = ring[i + d]
  BY SendShifts DEF ChannelTakes
<1>4. \A j \in DOMAIN s : s[j] \in Nat
  BY <1>1, ElementOfSeq DEF WebTyped, Web!Faults, WebSizes
<1> HIDE DEF d, a, b, o, t
<1>5. ASSUME NEW i \in DOMAIN t, t[i].kind # "fault", NEW j \in DOMAIN s
      PROVE  s[j] # o + d + i
  <2>1. CASE i = b
    <3>1. s[j] <= sent /\ s[j] \in Nat
      BY <1>1, <1>3, <1>4, <1>5, <2>1 DEF Web!FaultsNumbered
    <3> HIDE DEF s
    <3>2. o + d + i = sent + 1
      BY <1>3, <2>1
    <3>3. QED
      BY <1>3, <3>1, <3>2
  <2>2. CASE i # b
    <3>1. i \in 1..b - 1
      BY <1>3, <1>5, <2>2
    <3>2. i + d \in DOMAIN ring /\ t[i] = ring[i + d] /\ o + (i + d) = o + d + i
      BY <1>3, <3>1
    <3>3. s[j] # o + (i + d)
      BY <1>1, <1>5, <3>2 DEF Web!OthersBringNone, o
    <3>4. QED
      BY <3>2, <3>3
  <2>3. QED
    BY <2>1, <2>2
<1>6. QED
  BY <1>2, <1>3, <1>5 DEF Web!OthersBringNone, t

\* A message that is sent: what was read, and the page.
LEMMA SendViews ==
  ASSUME Web!IInv, Web!Send
  PROVE  Web!SnapshotHolds' /\ Web!PageHolds'
<1> DEFINE d == Dropped
<1>1. WebTyped /\ Web!SnapshotHolds /\ Web!PageHolds /\ Web!Behind
  BY WebOpened DEF Web!IInv
<1>2. shared' = shared /\ conn' = conn /\ page' = page
  BY DEF Web!Send
<1>3. ASSUME NEW f \in Fields, Web!Oldest' <= conn.next,
             Web!Silent(f, conn.next - Web!Oldest)'
      PROVE  Web!Oldest <= conn.next /\ Web!Silent(f, conn.next - Web!Oldest)
  <2> DEFINE o == Web!Oldest
             p == Web!Oldest'
             b == Len(ring')
  <2>1. /\ p = o + d /\ o \in Nat /\ Len(ring) \in Nat /\ sent \in Nat
        /\ d \in Nat /\ b \in Nat /\ b = Len(ring) + 1 - d /\ o = sent - Len(ring)
    BY SendShifts DEF ChannelTakes
  <2>2. conn.next \in Nat /\ conn.next <= sent
    BY <1>1 DEF WebTyped, Web!Behind
  <2>3. p <= conn.next
    BY <1>3
  <2>4. QuietAfter(ring', f, conn.next - p)
    BY <1>2, <1>3 DEF Web!Silent, QuietAfter
  <2> HIDE DEF d, b, o, p
  <2>5. /\ conn.next - p \in Nat /\ conn.next - p < b
        /\ (conn.next - p) + d = conn.next - o /\ o <= conn.next
    BY <2>1, <2>2, <2>3
  <2>6. Web!Silent(f, (conn.next - p) + d)
    BY <2>4, <2>5, SilenceAtSend DEF b, d
  <2>7. QED
    BY <2>5, <2>6 DEF o
<1>4. Web!SnapshotHolds'
  BY <1>1, <1>2, <1>3 DEF Web!SnapshotHolds
<1>5. Web!PageHolds'
  BY <1>1, <1>2, <1>3 DEF Web!PageHolds, Web!LastUpTo
<1>6. QED
  BY <1>4, <1>5

LEMMA WebSends == ASSUME Web!IInv, Web!Send PROVE Web!IInv'
BY SendMessages, SendFaults, SendOthers, SendViews DEF Web!IInv

LEMMA WebInit == ASSUME Web!Init PROVE Web!IInv
<1>1. /\ shared = [fields |-> Web!Empty, faults |-> <<>>]
      /\ pending = Web!NoUpdate /\ ring = <<>> /\ sent = 0
      /\ prom = [cycles |-> 0, last |-> 0, faults |-> 0]
      /\ conn = Web!Off /\ page = [fields |-> Web!Blank, faults |-> <<>>]
  BY DEF Web!Init
<1>2. WebSizes
  BY WebSized
<1>3. shared \in Web!Snapshot /\ page \in Web!Snapshot /\ Web!Off.snapshot \in Web!Snapshot
  BY <1>1, <1>2 DEF Web!Snapshot, Web!Empty, Web!Blank, Web!Off, WebSizes
<1>4. /\ Len(shared.faults) = 0 /\ Len(page.faults) = 0 /\ Len(ring) = 0
      /\ DOMAIN ring = {} /\ DOMAIN shared.faults = {} /\ shared.faults = <<>>
  BY <1>1, LenProperties
<1>5. conn \in [stage : {"off", "reading", "open"}, next : 0..MaxSends, lagged : BOOLEAN,
                snapshot : Web!Snapshot, unread : SUBSET (Fields \cup {"faults"})]
  BY <1>1, <1>2, <1>3 DEF Web!Off, WebSizes
<1>6. conn.stage = "off" /\ conn.next = 0 /\ pending.kind = "none" /\ sent = 0
  BY <1>1, KindsOfUpdates DEF Web!Off
<1>7. Web!TypeOK
  BY <1>1, <1>2, <1>3, <1>4, <1>5 DEF Web!TypeOK, WebSizes
<1>8. Web!Behind /\ Web!SnapshotHolds /\ Web!PageHolds
  BY <1>4, <1>6 DEF Web!Behind, Web!SnapshotHolds, Web!PageHolds
<1>9. Web!MessagesCarry /\ Web!FaultsNumbered /\ Web!OthersBringNone
  BY <1>1, <1>2, <1>4, <1>6
  DEF Web!MessagesCarry, Web!FaultsNumbered, Web!OthersBringNone, WebSizes
<1>10. Web!CountersAgree
  BY <1>1 DEF Web!CountersAgree, Web!Empty
<1>11. QED
  BY <1>7, <1>8, <1>9, <1>10 DEF Web!IInv

\* A step of the connection or the page leaves the daemon's side as it is.
LEMMA WebViewMoves ==
  ASSUME Web!IInv, UNCHANGED <<shared, pending, ring, sent, prom>>,
         conn' \in [stage : {"off", "reading", "open"}, next : 0..MaxSends, lagged : BOOLEAN,
                    snapshot : Web!Snapshot, unread : SUBSET (Fields \cup {"faults"})],
         page' \in Web!Snapshot, Len(page'.faults) <= PageFaults,
         conn'.next <= sent, Web!SnapshotHolds', Web!PageHolds'
  PROVE  Web!IInv'
<1>1. Web!TypeOK'
  BY DEF Web!IInv, Web!TypeOK
<1>2. Web!Behind'
  BY DEF Web!IInv, Web!Behind
<1>3. Web!MessagesCarry'
  BY DEF Web!IInv, Web!MessagesCarry, Web!Silent
<1>4. Web!FaultsNumbered' /\ Web!OthersBringNone'
  BY DEF Web!IInv, Web!FaultsNumbered, Web!OthersBringNone, Web!Oldest
<1>5. Web!CountersAgree'
  BY DEF Web!IInv, Web!CountersAgree
<1>6. QED
  BY <1>1, <1>2, <1>3, <1>4, <1>5 DEF Web!IInv

LEMMA WebConnects == ASSUME Web!IInv, Web!Connect PROVE Web!IInv'
<1>1. WebTyped
  BY WebOpened DEF Web!IInv
<1>2. /\ conn' = [Web!Off EXCEPT !.stage = "reading", !.next = sent,
                                 !.unread = Fields \cup {"faults"}]
      /\ UNCHANGED <<shared, pending, ring, sent, prom, page>>
  BY DEF Web!Connect
<1>3. Web!Off.snapshot \in Web!Snapshot
  BY <1>1 DEF Web!Snapshot, Web!Blank, Web!Off, WebSizes
<1>4. /\ conn' = [stage |-> "reading", next |-> sent, lagged |-> FALSE,
                  snapshot |-> Web!Off.snapshot, unread |-> Fields \cup {"faults"}]
  BY <1>2 DEF Web!Off
<1>5. conn' \in [stage : {"off", "reading", "open"}, next : 0..MaxSends, lagged : BOOLEAN,
                 snapshot : Web!Snapshot, unread : SUBSET (Fields \cup {"faults"})]
  BY <1>1, <1>3, <1>4 DEF WebTyped, WebSizes
<1>6. Web!SnapshotHolds' /\ Web!PageHolds'
  BY <1>4 DEF Web!SnapshotHolds, Web!PageHolds
<1>7. conn'.next <= sent
  BY <1>1, <1>4 DEF WebTyped
<1>8. QED
  BY <1>1, <1>2, <1>5, <1>6, <1>7, WebViewMoves DEF WebTyped

LEMMA WebDisconnects == ASSUME Web!IInv, Web!Disconnect PROVE Web!IInv'
<1>1. WebTyped
  BY WebOpened DEF Web!IInv
<1>2. /\ conn' = Web!Off
      /\ UNCHANGED <<shared, pending, ring, sent, prom>>
      /\ page' = [page EXCEPT !.fields = [f \in Fields |-> IF f = "state" THEN -1 ELSE @[f]]]
  BY DEF Web!Disconnect
<1>3. Web!Off.snapshot \in Web!Snapshot
  BY <1>1 DEF Web!Snapshot, Web!Blank, Web!Off, WebSizes
<1>4. conn' \in [stage : {"off", "reading", "open"}, next : 0..MaxSends, lagged : BOOLEAN,
                 snapshot : Web!Snapshot, unread : SUBSET (Fields \cup {"faults"})]
      /\ conn'.stage = "off" /\ conn'.next = 0
  BY <1>1, <1>2, <1>3 DEF Web!Off, WebTyped, WebSizes
<1>5. page' \in Web!Snapshot /\ page'.faults = page.faults
  <2>1. [f \in Fields |-> IF f = "state" THEN -1 ELSE page.fields[f]]
          \in [Fields -> Values \cup {-1}]
    BY <1>1 DEF WebTyped
  <2>2. QED
    BY <1>1, <1>2, <2>1 DEF WebTyped, Web!Snapshot
<1>6. Web!SnapshotHolds' /\ Web!PageHolds'
  BY <1>4 DEF Web!SnapshotHolds, Web!PageHolds
<1>7. QED
  BY <1>1, <1>2, <1>4, <1>5, <1>6, WebViewMoves DEF WebTyped

\* A receiver that has missed messages promises nothing more.
LEMMA WebLags == ASSUME Web!IInv, Web!Lag PROVE Web!IInv'
<1>1. WebTyped /\ Web!Behind
  BY WebOpened DEF Web!IInv
<1>2. /\ conn.stage = "open" /\ conn' = [conn EXCEPT !.next = Web!Oldest, !.lagged = TRUE]
      /\ UNCHANGED <<shared, pending, ring, sent, prom, page>>
  BY DEF Web!Lag
<1>3. Web!Oldest \in 0..MaxSends /\ Web!Oldest <= sent
  BY <1>1 DEF WebTyped, WebSizes, Web!Behind, Web!Oldest
<1>4. conn' \in [stage : {"off", "reading", "open"}, next : 0..MaxSends, lagged : BOOLEAN,
                 snapshot : Web!Snapshot, unread : SUBSET (Fields \cup {"faults"})]
      /\ conn'.stage = "open" /\ conn'.next = Web!Oldest /\ conn'.lagged = TRUE
  BY <1>1, <1>2, <1>3 DEF WebTyped
<1>5. Web!SnapshotHolds' /\ Web!PageHolds'
  BY <1>4 DEF Web!SnapshotHolds, Web!PageHolds
<1>6. QED
  BY <1>1, <1>2, <1>3, <1>4, <1>5, WebViewMoves DEF WebTyped

\* One part of the snapshot is read: it is the shared one.
LEMMA WebReads ==
  ASSUME Web!IInv, NEW part \in Fields \cup {"faults"}, Web!ReadPart(part)
  PROVE  Web!IInv'
<1> DEFINE sn == conn.snapshot
           tn == conn'.snapshot
<1>1. WebTyped /\ Web!Behind /\ Web!SnapshotHolds
  BY WebOpened DEF Web!IInv
<1>2. /\ conn.stage = "reading" /\ part \in conn.unread
      /\ conn' = [conn EXCEPT
           !.unread = @ \ {part},
           !.snapshot = IF part = "faults" THEN [@ EXCEPT !.faults = shared.faults]
                        ELSE [@ EXCEPT !.fields[part] = shared.fields[part]]]
      /\ UNCHANGED <<shared, pending, ring, sent, prom, page>>
  BY DEF Web!ReadPart
<1>3. /\ conn'.stage = "reading" /\ conn'.next = conn.next /\ conn'.unread = conn.unread \ {part}
      /\ conn'.lagged = conn.lagged
      /\ tn = IF part = "faults" THEN [sn EXCEPT !.faults = shared.faults]
              ELSE [sn EXCEPT !.fields[part] = shared.fields[part]]
  BY <1>1, <1>2 DEF WebTyped
<1>4. tn \in Web!Snapshot
      /\ (part = "faults" => tn.faults = shared.faults /\ tn.fields = sn.fields)
      /\ (part # "faults" => tn.faults = sn.faults
                             /\ tn.fields = [sn.fields EXCEPT ![part] = shared.fields[part]])
  <2>1. sn \in Web!Snapshot /\ shared \in Web!Snapshot
    BY <1>1 DEF WebTyped
  <2>2. CASE part = "faults"
    BY <1>3, <2>1, <2>2 DEF Web!Snapshot
  <2>3. CASE part # "faults"
    <3>1. /\ sn.fields \in [Fields -> Values \cup {-1}] /\ part \in Fields
          /\ shared.fields[part] \in Values \cup {-1}
      BY <2>1, <2>3 DEF Web!Snapshot
    <3>2. [sn.fields EXCEPT ![part] = shared.fields[part]] \in [Fields -> Values \cup {-1}]
      BY <3>1
    <3>3. tn = [sn EXCEPT !.fields = [sn.fields EXCEPT ![part] = shared.fields[part]]]
      BY <1>3, <2>1, <2>3 DEF Web!Snapshot
    <3>4. QED
      BY <2>1, <2>3, <3>2, <3>3 DEF Web!Snapshot
  <2>4. QED
    BY <2>2, <2>3
<1>5. conn' \in [stage : {"off", "reading", "open"}, next : 0..MaxSends, lagged : BOOLEAN,
                 snapshot : Web!Snapshot, unread : SUBSET (Fields \cup {"faults"})]
  <2>1. conn' = [conn EXCEPT !.unread = conn.unread \ {part}, !.snapshot = tn]
    BY <1>1, <1>2, <1>3 DEF WebTyped
  <2>2. conn.unread \ {part} \in SUBSET (Fields \cup {"faults"})
    BY <1>1 DEF WebTyped
  <2> HIDE DEF tn
  <2>3. QED
    BY <1>1, <1>4, <2>1, <2>2 DEF WebTyped
<1>6. ASSUME NEW f \in Fields, f \notin conn'.unread, Web!Oldest <= conn.next,
             Web!Silent(f, conn.next - Web!Oldest)
      PROVE  tn.fields[f] = shared.fields[f]
  <2>1. CASE f = part
    <3>1. part # "faults"
      BY <1>1, <2>1 DEF WebTyped, WebSizes
    <3>2. sn.fields \in [Fields -> Values \cup {-1}]
      BY <1>1 DEF WebTyped
    <3>3. QED
      BY <1>4, <2>1, <3>1, <3>2
  <2>2. CASE f # part
    <3>1. sn.fields[f] = shared.fields[f]
      BY <1>1, <1>2, <1>3, <1>6, <2>2 DEF Web!SnapshotHolds
    <3>2. sn.fields \in [Fields -> Values \cup {-1}]
      BY <1>1 DEF WebTyped
    <3>3. tn.fields[f] = sn.fields[f]
      BY <1>4, <2>2, <3>2
    <3>4. QED
      BY <3>1, <3>3
  <2>3. QED
    BY <2>1, <2>2
<1>7. ASSUME "faults" \notin conn'.unread, NEW j \in DOMAIN shared.faults,
             shared.faults[j] <= conn.next
      PROVE  \E i \in DOMAIN tn.faults :
               /\ tn.faults[i] = shared.faults[j]
               /\ Len(tn.faults) - i <= Len(shared.faults) - j
  <2>1. CASE part = "faults"
    <3>1. tn.faults = shared.faults
      BY <1>4, <2>1
    <3>2. Len(shared.faults) \in Nat /\ j \in 1..Len(shared.faults)
      BY <1>1, <1>7, LenProperties DEF WebTyped
    <3>3. Len(shared.faults) - j <= Len(shared.faults) - j
      BY <3>2
    <3>4. QED
      BY <3>1, <3>3
  <2>2. CASE part # "faults"
    <3>1. "faults" \notin conn.unread /\ tn.faults = sn.faults
      BY <1>3, <1>4, <1>7, <2>2
    <3>2. QED
      BY <1>1, <1>2, <1>7, <3>1 DEF Web!SnapshotHolds
  <2>3. QED
    BY <2>1, <2>2
<1>8. Web!SnapshotHolds'
  <2>1. Web!Oldest' = Web!Oldest
    BY <1>2 DEF Web!Oldest
  <2>2. ASSUME NEW f \in Fields, Web!Silent(f, conn.next - Web!Oldest)'
        PROVE  Web!Silent(f, conn.next - Web!Oldest)
    BY <1>2, <1>3, <2>1, <2>2 DEF Web!Silent
  <2>3. QED
    BY <1>2, <1>3, <1>6, <1>7, <2>1, <2>2 DEF Web!SnapshotHolds
<1>9. Web!PageHolds'
  BY <1>3 DEF Web!PageHolds
<1>10. QED
  BY <1>1, <1>2, <1>3, <1>5, <1>8, <1>9, WebViewMoves DEF WebTyped, Web!Behind

\* The last FullFaults of sn are the first of the list, the newest first.
FullMessage(sn, list) ==
  \A i \in 1..Len(sn) : Len(sn) - i < FullFaults =>
    Len(sn) + 1 - i \in DOMAIN list /\ list[Len(sn) + 1 - i] = sn[i]

\* What a full message does to the page.
LEMMA FullMessageShown ==
  ASSUME Web!IInv, Web!Opened
  PROVE  /\ page' \in Web!Snapshot /\ Len(page'.faults) <= PageFaults
         /\ page'.fields = conn.snapshot.fields
         /\ FullMessage(conn.snapshot.faults, page'.faults)
<1> DEFINE sn == conn.snapshot.faults
           old == page.faults
           new == Web!Reversed(Web!Newest(sn, FullFaults))
           all == new \o old
           list == Web!First(all, PageFaults)
<1>1. WebTyped
  BY WebOpened DEF Web!IInv
<1>2. page' = [fields |-> conn.snapshot.fields, faults |-> list]
  BY DEF Web!Opened
<1>3. /\ sn \in Seq(Web!Faults) /\ old \in Seq(Web!Faults) /\ Len(sn) \in Nat /\ Len(old) \in Nat
      /\ FullFaults \in Nat \ {0} /\ PageFaults \in Nat \ {0} /\ 2 * FullFaults <= PageFaults
  BY <1>1 DEF WebTyped, WebSizes
<1> HIDE DEF sn, old
<1>4. /\ new \in Seq(Web!Faults)
      /\ Len(new) = IF Len(sn) < FullFaults THEN Len(sn) ELSE FullFaults
      /\ \A i \in 1..Len(new) : new[i] = sn[Len(sn) + 1 - i]
  BY <1>3, NewestReversed
<1> HIDE DEF new
<1>5. /\ all \in Seq(Web!Faults) /\ Len(all) = Len(new) + Len(old)
      /\ \A i \in 1..Len(new) : all[i] = new[i]
  <2>1. new \in Seq(Web!Faults) /\ old \in Seq(Web!Faults)
    BY <1>3, <1>4
  <2>2. new \o old \in Seq(Web!Faults) /\ Len(new \o old) = Len(new) + Len(old)
    BY <2>1, ConcatProperties
  <2>3. ASSUME NEW i \in 1..Len(new) PROVE (new \o old)[i] = new[i]
    <3>1. i \in 1..Len(new) + Len(old) /\ i <= Len(new)
      BY <2>1, LenProperties
    <3>2. QED
      BY <2>1, <3>1, ConcatProperties
  <2>4. QED
    BY <2>2, <2>3
<1> HIDE DEF all
<1>6. /\ list \in Seq(Web!Faults)
      /\ Len(list) = IF Len(all) < PageFaults THEN Len(all) ELSE PageFaults
      /\ \A i \in 1..Len(list) : list[i] = all[i]
  BY <1>3, <1>5, FirstTakes
<1> HIDE DEF list
<1>7. Len(list) <= PageFaults /\ Len(list) \in Nat /\ Len(new) <= Len(list) /\ Len(new) \in Nat
  <2> DEFINE a == Len(new)
             b == Len(all)
             c == Len(list)
             m == Len(sn)
             q == Len(old)
  <2>1. /\ m \in Nat /\ q \in Nat /\ a = (IF m < FullFaults THEN m ELSE FullFaults)
        /\ b = a + q /\ c = (IF b < PageFaults THEN b ELSE PageFaults)
    BY <1>3, <1>4, <1>5, <1>6
  <2> HIDE DEF a, b, c, m, q
  <2>2. c <= PageFaults /\ c \in Nat /\ a <= c /\ a \in Nat
    BY <1>3, <2>1
  <2>3. QED
    BY <2>2 DEF a, c
<1>8. page' \in Web!Snapshot /\ page'.faults = list /\ page'.fields = conn.snapshot.fields
  BY <1>1, <1>2, <1>6 DEF WebTyped, Web!Snapshot
<1>9. DOMAIN list = 1..Len(list)
  BY <1>6, LenProperties
<1>10. ASSUME NEW i \in 1..Len(sn), Len(sn) - i < FullFaults
       PROVE  Len(sn) + 1 - i \in DOMAIN list /\ list[Len(sn) + 1 - i] = sn[i]
  <2> DEFINE p == Len(sn) + 1 - i
             m == Len(sn)
             a == Len(new)
             c == Len(list)
  <2>1. p \in 1..a /\ p \in 1..c /\ m + 1 - p = i
    <3>1. /\ m \in Nat /\ i \in 1..m /\ m - i < FullFaults /\ p = m + 1 - i
          /\ a = (IF m < FullFaults THEN m ELSE FullFaults) /\ a <= c /\ c \in Nat /\ a \in Nat
      BY <1>3, <1>4, <1>7, <1>10
    <3> HIDE DEF p, m, a, c
    <3>2. QED
      BY <1>3, <3>1
  <2>2. all[p] = new[p] /\ new[p] = sn[m + 1 - p] /\ list[p] = all[p]
    BY <1>4, <1>5, <1>6, <2>1
  <2>3. QED
    BY <1>9, <2>1, <2>2
<1>11. QED
  BY <1>7, <1>8, <1>10 DEF FullMessage, sn

LEMMA WebOpens == ASSUME Web!IInv, Web!Opened PROVE Web!IInv'
<1> DEFINE s == shared.faults
           sn == conn.snapshot.faults
           list == page'.faults
<1>1. WebTyped /\ Web!Behind /\ Web!SnapshotHolds /\ Web!FaultsNumbered
  BY WebOpened DEF Web!IInv
<1>2. /\ conn.stage = "reading" /\ conn.unread = {}
      /\ conn' = [Web!Off EXCEPT !.stage = "open", !.next = conn.next]
      /\ UNCHANGED <<shared, pending, ring, sent, prom>>
  BY DEF Web!Opened
<1>3. Web!Off.snapshot \in Web!Snapshot
  BY <1>1 DEF Web!Snapshot, Web!Blank, Web!Off, WebSizes
<1>4. conn' \in [stage : {"off", "reading", "open"}, next : 0..MaxSends, lagged : BOOLEAN,
                 snapshot : Web!Snapshot, unread : SUBSET (Fields \cup {"faults"})]
      /\ conn'.stage = "open" /\ conn'.next = conn.next
  BY <1>1, <1>2, <1>3 DEF Web!Off, WebTyped, WebSizes
<1>5. /\ page' \in Web!Snapshot /\ Len(list) <= PageFaults
      /\ page'.fields = conn.snapshot.fields /\ FullMessage(sn, list)
  BY FullMessageShown
<1>6. /\ s \in Seq(Web!Faults) /\ DOMAIN s = 1..Len(s) /\ Len(s) \in Nat
      /\ sn \in Seq(Web!Faults) /\ DOMAIN sn = 1..Len(sn) /\ Len(sn) \in Nat
      /\ list \in Seq(Web!Faults) /\ DOMAIN list = 1..Len(list) /\ Len(list) \in Nat
      /\ conn.next \in Nat /\ FullFaults \in Nat \ {0}
  BY <1>1, <1>5, LenProperties DEF WebTyped, WebSizes, Web!Snapshot
<1>7. \A i \in DOMAIN s : s[i] \in Nat
  BY <1>1, <1>6, ElementOfSeq, SMTT(30) DEF Web!Faults, WebSizes, WebTyped
<1>8. ASSUME NEW j \in DOMAIN s, s[j] <= conn.next, Len(s) - j < FullFaults
      PROVE  \E i \in DOMAIN list : i <= Len(s) - j + 1 /\ list[i] = s[j]
  <2>1. PICK i \in DOMAIN sn : sn[i] = s[j] /\ Len(sn) - i <= Len(s) - j
    BY <1>1, <1>2, <1>8 DEF Web!SnapshotHolds
  <2> HIDE DEF s, sn, list
  <2>2. Len(sn) - i < FullFaults /\ i \in 1..Len(sn) /\ Len(sn) + 1 - i <= Len(s) - j + 1
    BY <1>6, <1>8, <2>1
  <2>3. Len(sn) + 1 - i \in DOMAIN list /\ list[Len(sn) + 1 - i] = s[j]
    BY <1>5, <2>1, <2>2 DEF FullMessage
  <2>4. QED
    BY <2>2, <2>3
<1>9. ASSUME NEW f \in Fields, Web!Oldest <= conn.next, Web!Silent(f, conn.next - Web!Oldest)
      PROVE  page'.fields[f] = shared.fields[f]
  BY <1>1, <1>2, <1>5, <1>9 DEF Web!SnapshotHolds
<1>10. ASSUME Web!LastUpTo(Len(s), conn.next) PROVE list # <<>> /\ list[1] = s[Len(s)]
  <2>1. Len(s) \in DOMAIN s /\ s[Len(s)] <= conn.next
    BY <1>10 DEF Web!LastUpTo
  <2> HIDE DEF s, list
  <2>2. Len(s) - Len(s) < FullFaults /\ Len(s) - Len(s) + 1 = 1
    BY <1>6
  <2>3. PICK i \in DOMAIN list : i <= 1 /\ list[i] = s[Len(s)]
    BY <1>8, <2>1, <2>2
  <2>4. i = 1
    BY <1>6, <2>3
  <2>5. list # <<>>
    BY <1>6, <2>3, LenProperties
  <2>6. QED
    BY <2>3, <2>4, <2>5
<1>11. ASSUME NEW k \in DOMAIN s, Web!LastUpTo(k, conn.next), NEW j \in 1..k,
              Len(s) - j < FullFaults
       PROVE  \E i \in DOMAIN list : i <= FullFaults + k - j /\ list[i] = s[j]
  <2>1. s[k] <= conn.next
    BY <1>11 DEF Web!LastUpTo
  <2>2. \A i, m \in DOMAIN s : i < m => s[i] < s[m]
    BY <1>1 DEF Web!FaultsNumbered
  <2> HIDE DEF s, list
  <2>3. j \in DOMAIN s /\ (j = k \/ j < k) /\ k \in DOMAIN s
    BY <1>6, <1>11
  <2>4. s[j] <= conn.next
    <3>1. j < k => s[j] < s[k]
      BY <2>2, <2>3
    <3>2. s[j] \in Nat /\ s[k] \in Nat
      BY <1>7, <2>3
    <3>3. QED
      BY <1>6, <2>1, <2>3, <3>1, <3>2
  <2>5. PICK i \in DOMAIN list : i <= Len(s) - j + 1 /\ list[i] = s[j]
    BY <1>8, <1>11, <2>3, <2>4
  <2>6. i <= FullFaults + k - j
    BY <1>6, <1>11, <2>3, <2>5
  <2>7. QED
    BY <2>5, <2>6
<1>12. Web!Oldest' = Web!Oldest
       /\ \A f \in Fields : Web!Silent(f, conn.next - Web!Oldest)' =>
            Web!Silent(f, conn.next - Web!Oldest)
  BY <1>2, <1>4 DEF Web!Oldest, Web!Silent
<1>13. \A k : Web!LastUpTo(k, conn.next)' => Web!LastUpTo(k, conn.next)
  BY <1>2, <1>4 DEF Web!LastUpTo
<1>14. Web!SnapshotHolds'
  BY <1>4 DEF Web!SnapshotHolds
<1>15. Web!PageHolds'
  BY <1>2, <1>4, <1>9, <1>10, <1>11, <1>12, <1>13 DEF Web!PageHolds, Web!LastUpTo
<1>16. QED
  BY <1>1, <1>2, <1>4, <1>5, <1>14, <1>15, WebViewMoves DEF Web!Behind

\* A list that takes a fault at its head keeps the others, one place further down.
HeadTakes(list, x, t) ==
  /\ t # <<>> /\ t[1] = x
  /\ \A i \in DOMAIN list : i < PageFaults => i + 1 \in DOMAIN t /\ t[i + 1] = list[i]

LEMMA AddFaultShifts ==
  ASSUME WebTyped, NEW list \in Seq(Web!Faults), NEW x \in Web!Faults
  PROVE  /\ Web!AddFault(list, x) \in Seq(Web!Faults)
         /\ Len(Web!AddFault(list, x)) <= PageFaults
         /\ HeadTakes(list, x, Web!AddFault(list, x))
<1> DEFINE all == <<x>> \o list
           t == Web!First(all, PageFaults)
           a == Len(list)
           b == Len(all)
           c == Len(t)
<1>0. Web!AddFault(list, x) = t
  BY DEF Web!AddFault
<1>1. PageFaults \in Nat \ {0} /\ a \in Nat /\ DOMAIN list = 1..a
  BY LenProperties DEF WebTyped, WebSizes
<1>2. <<x>> \in Seq(Web!Faults) /\ Len(<<x>>) = 1
  OBVIOUS
<1>3. all \in Seq(Web!Faults) /\ b = 1 + a
  BY <1>2, ConcatProperties
<1>4. all[1] = x /\ \A i \in 1..a : all[i + 1] = list[i]
  <2>1. \A i \in 1..1 + a : all[i] = IF i <= 1 THEN <<x>>[i] ELSE list[i - 1]
    BY <1>2, ConcatProperties
  <2> HIDE DEF all, a
  <2>2. 1 \in 1..1 + a
    BY <1>1
  <2>3. ASSUME NEW i \in 1..a PROVE i + 1 \in 1..1 + a /\ ~(i + 1 <= 1) /\ i + 1 - 1 = i
    BY <1>1
  <2>4. all[1] = x
    BY <2>1, <2>2
  <2>5. ASSUME NEW i \in 1..a PROVE all[i + 1] = list[i]
    BY <2>1, <2>3
  <2>6. QED
    BY <2>4, <2>5
<1> HIDE DEF all
<1>5. /\ t \in Seq(Web!Faults) /\ c = (IF b < PageFaults THEN b ELSE PageFaults)
      /\ \A i \in 1..c : t[i] = all[i]
  BY <1>1, <1>3, FirstTakes
<1>6. DOMAIN t = 1..c /\ c \in Nat
  BY <1>5, LenProperties
<1> HIDE DEF t, a, b, c
<1>7. c <= PageFaults /\ 1 \in 1..c /\ \A i \in 1..a : i < PageFaults => i + 1 \in 1..c
  BY <1>1, <1>3, <1>5, <1>6
<1>8. t # <<>> /\ t[1] = x
  <2>1. t[1] = x
    BY <1>4, <1>5, <1>7
  <2>2. Len(t) # 0
    BY <1>6, <1>7 DEF c
  <2>3. QED
    BY <2>1, <2>2, LenProperties
<1>9. ASSUME NEW i \in DOMAIN list, i < PageFaults
      PROVE  i + 1 \in DOMAIN t /\ t[i + 1] = list[i]
  <2>1. i + 1 \in 1..c /\ i \in 1..a
    BY <1>1, <1>7, <1>9
  <2>2. QED
    BY <1>4, <1>5, <1>6, <2>1
<1>10. HeadTakes(list, x, t)
  BY <1>8, <1>9 DEF HeadTakes
<1>11. QED
  BY <1>0, <1>5, <1>7, <1>10 DEF c

\* The message the receiver takes.
Taken == ring[conn.next - Web!Oldest + 1]

LEMMA WebTakes ==
  ASSUME Web!IInv, Web!Receive
  PROVE  /\ conn.next - Web!Oldest + 1 \in DOMAIN ring /\ Taken \in Web!Update
         /\ Web!Oldest \in Nat /\ conn.next \in Nat /\ sent \in Nat
         /\ Web!Oldest + (conn.next - Web!Oldest + 1) = conn.next + 1
         /\ conn.next + 1 <= sent /\ conn.stage = "open" /\ page' = Web!Show(Taken)
         /\ conn' = [conn EXCEPT !.next = conn.next + 1]
         /\ conn'.next = conn.next + 1 /\ conn'.stage = "open" /\ conn'.lagged = conn.lagged
         /\ UNCHANGED <<shared, pending, ring, sent, prom>> /\ Web!Oldest' = Web!Oldest
<1> DEFINE o == Web!Oldest
           n == conn.next
           a == Len(ring)
<1>1. WebTyped /\ Web!Behind
  BY WebOpened DEF Web!IInv
<1>2. /\ conn.stage = "open" /\ o <= n /\ n < sent
      /\ page' = Web!Show(Taken)
      /\ conn' = [conn EXCEPT !.next = @ + 1]
      /\ UNCHANGED <<shared, pending, ring, sent, prom>>
  BY DEF Web!Receive, Taken
<1>3. /\ ring \in Seq(Web!Update) /\ a \in Nat /\ n \in Nat /\ sent \in Nat /\ a <= sent
      /\ o = sent - a /\ DOMAIN ring = 1..a
  BY <1>1, LenProperties DEF WebTyped, Web!Behind, Web!Oldest
<1>4. conn' = [conn EXCEPT !.next = n + 1] /\ conn'.next = n + 1 /\ conn'.stage = "open"
      /\ conn'.lagged = conn.lagged
  BY <1>1, <1>2 DEF WebTyped
<1>5. o \in Nat /\ n - o + 1 \in 1..a /\ o + (n - o + 1) = n + 1 /\ n + 1 <= sent
  <2> HIDE DEF o, n, a
  <2>1. QED
    BY <1>2, <1>3
<1>6. Taken \in Web!Update
  BY <1>3, <1>5, ElementOfSeq DEF Taken
<1>7. Web!Oldest' = Web!Oldest
  BY <1>2 DEF Web!Oldest
<1>8. QED
  BY <1>2, <1>3, <1>4, <1>5, <1>6, <1>7

\* What the message does to the page.
LEMMA MessageShown ==
  ASSUME Web!IInv, Web!Receive
  PROVE  /\ page' \in Web!Snapshot /\ Len(page'.faults) <= PageFaults
         /\ \/ /\ Taken.kind = "fault" /\ Taken.kind \notin Fields
               /\ page'.fields = page.fields
               /\ HeadTakes(page.faults, Taken.value, page'.faults)
            \/ /\ Taken.kind \in Fields /\ Taken.kind # "fault"
               /\ page'.faults = page.faults
               /\ page'.fields = [page.fields EXCEPT ![Taken.kind] = Taken.value]
<1>1. WebTyped
  BY WebOpened DEF Web!IInv
<1>2. Taken \in Web!Update /\ page' = Web!Show(Taken)
  BY WebTakes
<1>3. page \in Web!Snapshot /\ page.fields \in [Fields -> Values \cup {-1}]
      /\ page.faults \in Seq(Web!Faults) /\ Len(page.faults) <= PageFaults
  BY <1>1 DEF WebTyped
<1>4. CASE Taken.kind = "fault"
  <2> DEFINE t == Web!AddFault(page.faults, Taken.value)
  <2>1. Taken.value \in Web!Faults /\ Taken.kind \notin Fields
    BY <1>2, <1>4, KindsOfUpdates
  <2>2. t \in Seq(Web!Faults) /\ Len(t) <= PageFaults /\ HeadTakes(page.faults, Taken.value, t)
    BY <1>1, <1>3, <2>1, AddFaultShifts
  <2>3. page' = [page EXCEPT !.faults = t]
    BY <1>2, <1>4 DEF Web!Show
  <2> HIDE DEF t
  <2>4. page' \in Web!Snapshot /\ page'.faults = t /\ page'.fields = page.fields
    BY <1>3, <2>2, <2>3 DEF Web!Snapshot
  <2>5. QED
    BY <1>4, <2>1, <2>2, <2>4
<1>5. CASE Taken.kind # "fault"
  <2> DEFINE g == [page.fields EXCEPT ![Taken.kind] = Taken.value]
  <2>1. Taken.value \in Values /\ Taken.kind \in Fields
    BY <1>2, <1>5, KindsOfUpdates
  <2>2. g \in [Fields -> Values \cup {-1}]
    BY <1>3, <2>1
  <2>3. page' = [page EXCEPT !.fields = g]
    BY <1>2, <1>5 DEF Web!Show
  <2> HIDE DEF g
  <2>4. page' \in Web!Snapshot /\ page'.fields = g /\ page'.faults = page.faults
    BY <1>3, <2>2, <2>3 DEF Web!Snapshot
  <2>5. QED
    BY <1>3, <1>5, <2>1, <2>4 DEF g
<1>6. QED
  BY <1>4, <1>5

\* A field the page shows after a message.
LEMMA ReceiveFields ==
  ASSUME Web!IInv, Web!Receive, ~conn.lagged, NEW f \in Fields,
         Web!Silent(f, conn.next + 1 - Web!Oldest)
  PROVE  page'.fields[f] = shared.fields[f]
<1> DEFINE p == conn.next - Web!Oldest + 1
<1>1. WebTyped /\ Web!MessagesCarry /\ Web!PageHolds
  BY WebOpened DEF Web!IInv
<1>2. /\ p \in DOMAIN ring /\ Taken = ring[p] /\ conn.next \in Nat /\ Web!Oldest \in Nat
      /\ conn.stage = "open"
  BY WebTakes DEF Taken
<1>3. DOMAIN ring = 1..Len(ring) /\ page.fields \in [Fields -> Values \cup {-1}]
  BY <1>1, LenProperties DEF WebTyped
<1>4. conn.next + 1 - Web!Oldest = p
  BY <1>2
<1>5. Web!Silent(f, p)
  BY <1>4
<1>6. CASE Taken.kind = f
  <2>1. ring[p].value = shared.fields[f]
    <3> HIDE DEF p
    <3>1. QED
      BY <1>1, <1>2, <1>5, <1>6 DEF Web!MessagesCarry
  <2>2. f # "fault"
    BY <1>1 DEF WebTyped, WebSizes
  <2>3. page'.fields = [page.fields EXCEPT ![f] = Taken.value]
    BY <1>6, <2>2, MessageShown
  <2>4. QED
    BY <1>2, <1>3, <2>1, <2>3
<1>7. CASE Taken.kind # f
  <2>1. Web!Silent(f, conn.next - Web!Oldest)
    <3>1. ASSUME NEW i \in DOMAIN ring, i > conn.next - Web!Oldest PROVE ring[i].kind # f
      <4>1. i = p \/ i > p
        BY <1>2, <1>3, <3>1
      <4> HIDE DEF p
      <4>2. QED
        BY <1>2, <1>5, <1>7, <4>1 DEF Web!Silent
    <3>2. pending.kind # f
      BY DEF Web!Silent
    <3>3. QED
      BY <3>1, <3>2 DEF Web!Silent
  <2>2. Web!Oldest <= conn.next
    BY DEF Web!Receive
  <2>3. page.fields[f] = shared.fields[f]
    BY <1>1, <1>2, <2>1, <2>2 DEF Web!PageHolds
  <2>4. page'.fields = page.fields
        \/ page'.fields = [page.fields EXCEPT ![Taken.kind] = Taken.value]
    BY MessageShown
  <2>5. QED
    BY <1>3, <1>7, <2>3, <2>4
<1>8. QED
  BY <1>6, <1>7

\* The faults before a message, when that message is none of them.
LEMMA LastBeforeOther ==
  ASSUME WebTyped, Web!OthersBringNone, NEW p \in DOMAIN ring, ring[p].kind # "fault",
         NEW n \in Nat, Web!Oldest + p = n + 1, NEW k, Web!LastUpTo(k, n + 1)
  PROVE  Web!LastUpTo(k, n)
<1> DEFINE s == shared.faults
<1>1. \A j \in DOMAIN s : s[j] \in Nat
  BY ElementOfSeq DEF WebTyped, Web!Faults, WebSizes
<1>2. \A j \in DOMAIN s : s[j] # n + 1
  BY DEF Web!OthersBringNone
<1>3. k \in DOMAIN s /\ s[k] <= n + 1 /\ \A i \in DOMAIN s : i > k => s[i] > n + 1
  BY DEF Web!LastUpTo
<1> HIDE DEF s
<1>4. s[k] <= n
  BY <1>1, <1>2, <1>3
<1>5. ASSUME NEW i \in DOMAIN s, i > k PROVE s[i] > n
  BY <1>1, <1>3, <1>5
<1>6. QED
  BY <1>3, <1>4, <1>5 DEF Web!LastUpTo, s

\* The last fault up to a message that brings one is the one it brings.
LEMMA LastIsTaken ==
  ASSUME WebTyped, Web!FaultsNumbered, NEW p \in DOMAIN ring, ring[p].kind = "fault",
         NEW n \in Nat, Web!Oldest + p = n + 1, NEW k, Web!LastUpTo(k, n + 1)
  PROVE  /\ k \in DOMAIN shared.faults /\ shared.faults[k] = n + 1 /\ ring[p].value = n + 1
         /\ k > 1 => Web!LastUpTo(k - 1, n)
<1> DEFINE s == shared.faults
<1>1. \A j \in DOMAIN s : s[j] \in Nat
  BY ElementOfSeq DEF WebTyped, Web!Faults, WebSizes
<1>2. DOMAIN s = 1..Len(s) /\ Len(s) \in Nat
  BY LenProperties DEF WebTyped
<1>3. /\ ring[p].value = n + 1
      /\ \/ \E j \in DOMAIN s : s[j] = n + 1
         \/ \A j \in DOMAIN s : s[j] > n + 1
      /\ \A i, j \in DOMAIN s : i < j => s[i] < s[j]
  BY DEF Web!FaultsNumbered
<1>4. k \in DOMAIN s /\ s[k] <= n + 1 /\ \A i \in DOMAIN s : i > k => s[i] > n + 1
  BY DEF Web!LastUpTo
<1> HIDE DEF s
<1>5. s[k] = n + 1
  <2>1. PICK j \in DOMAIN s : s[j] = n + 1
    BY <1>1, <1>3, <1>4
  <2>2. ~(j > k)
    BY <1>1, <1>4, <2>1
  <2>3. ~(j < k)
    <3>1. j < k => s[j] < s[k]
      BY <1>3, <1>4, <2>1
    <3>2. s[j] \in Nat /\ s[k] \in Nat
      BY <1>1, <1>4, <2>1
    <3>3. QED
      BY <1>4, <2>1, <3>1, <3>2
  <2>4. j = k
    BY <1>2, <1>4, <2>1, <2>2, <2>3
  <2>5. QED
    BY <2>1, <2>4
<1>6. ASSUME k > 1 PROVE Web!LastUpTo(k - 1, n)
  <2>1. k - 1 \in DOMAIN s /\ k - 1 < k /\ k \in Nat
    BY <1>2, <1>4, <1>6
  <2>2. s[k - 1] <= n
    <3>1. s[k - 1] < s[k] /\ s[k - 1] \in Nat
      BY <1>1, <1>3, <1>4, <2>1
    <3>2. QED
      BY <1>5, <3>1
  <2>3. ASSUME NEW i \in DOMAIN s, i > k - 1 PROVE s[i] > n
    <3>1. i = k \/ i > k
      BY <1>2, <2>1, <2>3
    <3>2. s[i] \in Nat /\ s[i] >= n + 1
      BY <1>1, <1>4, <1>5, <3>1
    <3>3. QED
      BY <3>2
  <2>4. QED
    BY <2>1, <2>2, <2>3 DEF Web!LastUpTo, s
<1>7. QED
  BY <1>3, <1>4, <1>5, <1>6 DEF s

\* The faults the page lists after a message.
LEMMA ReceiveFaults ==
  ASSUME Web!IInv, Web!Receive, ~conn.lagged,
         NEW k \in DOMAIN shared.faults, Web!LastUpTo(k, conn.next + 1)
  PROVE  /\ k = Len(shared.faults) =>
              page'.faults # <<>> /\ page'.faults[1] = shared.faults[k]
         /\ \A j \in 1..k : Len(shared.faults) - j < FullFaults =>
              \E i \in DOMAIN page'.faults :
                i <= FullFaults + k - j /\ page'.faults[i] = shared.faults[j]
<1> DEFINE p == conn.next - Web!Oldest + 1
           s == shared.faults
           old == page.faults
           list == page'.faults
           n == conn.next
<1>1. /\ WebTyped /\ Web!FaultsNumbered /\ Web!OthersBringNone /\ Web!PageHolds
  BY WebOpened DEF Web!IInv
<1>2. /\ p \in DOMAIN ring /\ Taken = ring[p] /\ n \in Nat /\ Web!Oldest + p = n + 1
      /\ conn.stage = "open"
  BY WebTakes DEF Taken
<1>3. /\ Web!LastUpTo(Len(s), n) => old # <<>> /\ old[1] = s[Len(s)]
      /\ \A m \in DOMAIN s : Web!LastUpTo(m, n) =>
           \A j \in 1..m : Len(s) - j < FullFaults =>
             \E i \in DOMAIN old : i <= FullFaults + m - j /\ old[i] = s[j]
  BY <1>1, <1>2 DEF Web!PageHolds
<1>4. Web!LastUpTo(k, n + 1)
  OBVIOUS
<1>5. /\ Len(s) \in Nat /\ k \in 1..Len(s) /\ DOMAIN s = 1..Len(s) /\ FullFaults \in Nat \ {0}
      /\ PageFaults \in Nat /\ 2 * FullFaults <= PageFaults
  BY <1>1, LenProperties DEF WebTyped, WebSizes
<1>6. DOMAIN old = 1..Len(old) /\ Len(old) \in Nat
  BY <1>1, LenProperties DEF WebTyped
<1> HIDE DEF p, n
<1>7. CASE Taken.kind # "fault"
  <2>1. list = old
    BY <1>7, MessageShown
  <2>2. Web!LastUpTo(k, n)
    BY <1>1, <1>2, <1>4, <1>7, LastBeforeOther
  <2> HIDE DEF s, old, list
  <2>3. QED
    BY <1>3, <2>1, <2>2 DEF s, list
<1>8. CASE Taken.kind = "fault"
  <2>1. HeadTakes(old, Taken.value, list)
    BY <1>8, MessageShown
  <2>2. s[k] = n + 1 /\ Taken.value = n + 1 /\ (k > 1 => Web!LastUpTo(k - 1, n))
    BY <1>1, <1>2, <1>4, <1>8, LastIsTaken
  <2> HIDE DEF s, old, list
  <2>3. list # <<>> /\ list[1] = s[k]
    BY <2>1, <2>2 DEF HeadTakes
  <2>4. 1 \in DOMAIN list
    <3>1. list \in Seq(Web!Faults)
      BY MessageShown DEF list, Web!Snapshot
    <3>2. Len(list) # 0 /\ Len(list) \in Nat /\ DOMAIN list = 1..Len(list)
      BY <2>3, <3>1, LenProperties, EmptySeq
    <3>3. QED
      BY <3>2
  <2>5. ASSUME NEW j \in 1..k, Len(s) - j < FullFaults
        PROVE  \E i \in DOMAIN list : i <= FullFaults + k - j /\ list[i] = s[j]
    <3>1. CASE j = k
      <4>1. 1 <= FullFaults + k - j
        BY <1>5, <3>1
      <4>2. QED
        BY <2>3, <2>4, <3>1, <4>1
    <3>2. CASE j # k
      <4>1. k > 1 /\ j \in 1..k - 1 /\ k - 1 \in DOMAIN s
        BY <1>5, <2>5, <3>2
      <4>2. PICK i \in DOMAIN old : i <= FullFaults + (k - 1) - j /\ old[i] = s[j]
        BY <1>3, <2>2, <2>5, <4>1
      <4>3. i \in Nat /\ i < PageFaults /\ i + 1 <= FullFaults + k - j
        BY <1>5, <1>6, <2>5, <4>1, <4>2, SMTT(30)
      <4>4. i + 1 \in DOMAIN list /\ list[i + 1] = s[j]
        BY <2>1, <4>2, <4>3 DEF HeadTakes
      <4>5. QED
        BY <4>3, <4>4
    <3>3. QED
      BY <3>1, <3>2
  <2>6. QED
    BY <2>3, <2>5 DEF s, list
<1>9. QED
  BY <1>7, <1>8

LEMMA WebReceives == ASSUME Web!IInv, Web!Receive PROVE Web!IInv'
<1> DEFINE s == shared.faults
           n == conn.next
           o == Web!Oldest
<1>1. WebTyped
  BY WebOpened DEF Web!IInv
<1>2. /\ n \in Nat /\ sent \in Nat /\ n + 1 <= sent /\ Web!Oldest' = o
      /\ conn' = [conn EXCEPT !.next = n + 1]
      /\ conn'.next = n + 1 /\ conn'.stage = "open" /\ conn'.lagged = conn.lagged
      /\ UNCHANGED <<shared, pending, ring, sent, prom>>
  BY WebTakes
<1>3. page' \in Web!Snapshot /\ Len(page'.faults) <= PageFaults
  BY MessageShown
<1>4. conn' \in [stage : {"off", "reading", "open"}, next : 0..MaxSends, lagged : BOOLEAN,
                 snapshot : Web!Snapshot, unread : SUBSET (Fields \cup {"faults"})]
  <2>1. n + 1 \in 0..MaxSends
    BY <1>1, <1>2 DEF WebTyped, WebSizes
  <2>2. QED
    BY <1>1, <1>2, <2>1 DEF WebTyped
<1>5. Web!SnapshotHolds'
  BY <1>2 DEF Web!SnapshotHolds
<1>6. Web!PageHolds'
  <2>1. \A k : Web!LastUpTo(k, conn.next)' => Web!LastUpTo(k, n + 1)
    BY <1>2 DEF Web!LastUpTo
  <2>2. ASSUME NEW f \in Fields, Web!Silent(f, conn.next - Web!Oldest)'
        PROVE  Web!Silent(f, n + 1 - o)
    <3>1. /\ pending'.kind # f
          /\ \A i \in DOMAIN ring' : i > conn'.next - Web!Oldest' => ring'[i].kind # f
      BY <2>2 DEF Web!Silent
    <3> DEFINE o1 == Web!Oldest'
               n1 == conn'.next
    <3>2. /\ pending' = pending /\ ring' = ring /\ n1 = n + 1 /\ o1 = o
          /\ n \in Nat /\ o \in Nat
      BY <1>2, WebTakes
    <3> HIDE DEF n, o, n1, o1
    <3>3. \A i \in DOMAIN ring : i > n1 - o1 => ring[i].kind # f
      BY <3>1, <3>2 DEF n1, o1
    <3>4. QED
      BY <3>1, <3>2, <3>3 DEF Web!Silent
  <2>3. ASSUME ~conn.lagged, NEW f \in Fields, Web!Silent(f, n + 1 - o)
        PROVE  page'.fields[f] = shared.fields[f]
    BY <2>3, ReceiveFields
  <2>4. ASSUME ~conn.lagged, Web!LastUpTo(Len(s), n + 1)
        PROVE  page'.faults # <<>> /\ page'.faults[1] = s[Len(s)]
    <3>1. Len(s) \in DOMAIN s
      BY <2>4 DEF Web!LastUpTo
    <3>2. QED
      BY <2>4, <3>1, ReceiveFaults
  <2>5. ASSUME ~conn.lagged, NEW k \in DOMAIN s, Web!LastUpTo(k, n + 1),
               NEW j \in 1..k, Len(s) - j < FullFaults
        PROVE  \E i \in DOMAIN page'.faults :
                 i <= FullFaults + k - j /\ page'.faults[i] = s[j]
    BY <2>5, ReceiveFaults
  <2> HIDE DEF n, o
  <2>6. QED
    BY <1>2, <2>1, <2>2, <2>3, <2>4, <2>5 DEF Web!PageHolds
<1>7. QED
  BY <1>2, <1>3, <1>4, <1>5, <1>6, WebViewMoves

LEMMA WebStep == ASSUME Web!IInv, [Web!Next]_(Web!vars) PROVE Web!IInv'
<1>1. CASE UNCHANGED Web!vars
  <2>1. UNCHANGED <<shared, pending, ring, sent, prom, conn, page>>
    BY <1>1 DEF Web!vars
  <2>2. Web!SnapshotHolds' /\ Web!PageHolds'
    BY <2>1 DEF Web!IInv, Web!SnapshotHolds, Web!PageHolds, Web!Silent, Web!LastUpTo, Web!Oldest
  <2>3. WebTyped /\ Web!Behind
    BY WebOpened DEF Web!IInv
  <2>4. QED
    BY <2>1, <2>2, <2>3, WebViewMoves DEF WebTyped, Web!Behind
<1>2. CASE Web!Next
  BY <1>2, WebBegins, WebSends, WebConnects, WebOpens, WebReceives, WebLags, WebDisconnects,
     WebReads DEF Web!Next
<1>3. QED
  BY <1>1, <1>2

LEMMA WebInductive == Spec => []Web!IInv
<1>1. Init => Web!IInv
  BY WebInit DEF Init
<1>2. Web!IInv /\ [Next]_vars => Web!IInv'
  BY WebStep, EachMoves
<1>3. QED
  BY <1>1, <1>2, PTL DEF Spec

\* The items of the newest n are among the last n.
LEMMA NewestAreLast ==
  ASSUME NEW Item, NEW s \in Seq(Item), NEW n \in Nat \ {0}
  PROVE  \A x \in Web!Elements(Web!Newest(s, n)) :
           \E j \in 1..Len(s) : Len(s) - j < n /\ x = s[j]
<1> DEFINE len == Len(s)
           from == IF len > n THEN len - n + 1 ELSE 1
           t == SubSeq(s, from, len)
<1>1. len \in Nat
  BY LenProperties
<1>2. Web!Newest(s, n) = t
  BY DEF Web!Newest
<1> HIDE DEF len
<1>3. from \in 1..len + 1 /\ \A i \in 1..len - from + 1 :
        from + i - 1 \in 1..len /\ len - (from + i - 1) < n
  BY <1>1
<1> HIDE DEF from
<1>4. /\ Len(t) = len - from + 1
      /\ \A i \in 1..len - from + 1 : t[i] = s[from + i - 1]
  BY <1>1, <1>3, SubSeqProperties DEF len
<1> HIDE DEF t
<1>5. ASSUME NEW x \in Web!Elements(t) PROVE \E j \in 1..len : len - j < n /\ x = s[j]
  <2>1. PICK i \in 1..Len(t) : x = t[i]
    BY DEF Web!Elements
  <2>2. QED
    BY <1>3, <1>4, <2>1
<1>6. QED
  BY <1>2, <1>5 DEF len

\* A page that has taken all its messages.
LEMMA WebShown ==
  ASSUME Web!IInv
  PROVE  Web!ShowsCurrent /\ Web!ShowsRecentFaults /\ Web!CountersFollow
<1> DEFINE s == shared.faults
           list == page.faults
<1>1. /\ WebTyped /\ Web!Behind /\ Web!FaultsNumbered /\ Web!PageHolds /\ Web!CountersAgree
  BY WebOpened DEF Web!IInv
<1>2. ASSUME Web!UpToDate
      PROVE  /\ conn.stage = "open" /\ ~conn.lagged /\ conn.next = sent /\ pending.kind = "none"
             /\ Web!Oldest <= conn.next
             /\ \A f \in Fields : Web!Silent(f, conn.next - Web!Oldest)
  <2>1. /\ conn.stage = "open" /\ ~conn.lagged /\ conn.next = sent /\ pending.kind = "none"
    BY <1>2, KindsOfUpdates DEF Web!UpToDate
  <2>2. /\ Len(ring) \in Nat /\ sent \in Nat /\ DOMAIN ring = 1..Len(ring)
        /\ "none" \notin Fields
    BY <1>1, LenProperties DEF WebTyped, WebSizes
  <2>3. Web!Oldest <= conn.next /\ conn.next - Web!Oldest = Len(ring)
    BY <2>1, <2>2 DEF Web!Oldest
  <2>4. ASSUME NEW f \in Fields PROVE Web!Silent(f, Len(ring))
    <3>1. \A i \in DOMAIN ring : ~(i > Len(ring))
      BY <2>2
    <3>2. QED
      BY <2>1, <2>2, <3>1 DEF Web!Silent
  <2>5. QED
    BY <2>1, <2>3, <2>4
<1>3. ASSUME Web!UpToDate PROVE page.fields = shared.fields
  <2>1. \A f \in Fields : page.fields[f] = shared.fields[f]
    BY <1>1, <1>2, <1>3 DEF Web!PageHolds
  <2>2. page.fields \in [Fields -> Values \cup {-1}]
        /\ shared.fields \in [Fields -> Values \cup {-1}]
    BY <1>1 DEF WebTyped
  <2>3. QED
    BY <2>1, <2>2
<1>4. ASSUME Web!UpToDate, s # <<>>
      PROVE  /\ list[1] = s[Len(s)]
             /\ Web!Elements(Web!Newest(s, FullFaults)) \subseteq Web!Elements(list)
  <2>1. /\ s \in Seq(Web!Faults) /\ list \in Seq(Web!Faults) /\ Len(s) \in Nat
        /\ DOMAIN s = 1..Len(s) /\ DOMAIN list = 1..Len(list) /\ FullFaults \in Nat \ {0}
    BY <1>1, LenProperties DEF WebTyped, WebSizes
  <2>2. Len(s) \in DOMAIN s /\ \A i \in DOMAIN s : ~(i > Len(s))
    <3>1. Len(s) # 0
      BY <1>4, <2>1, EmptySeq
    <3> HIDE DEF s
    <3>2. QED
      BY <2>1, <3>1
  <2>3. s[Len(s)] <= conn.next
    BY <1>1, <1>2, <1>4, <2>2 DEF Web!FaultsNumbered
  <2>4. Web!LastUpTo(Len(s), conn.next)
    BY <2>2, <2>3 DEF Web!LastUpTo
  <2>5. list[1] = s[Len(s)]
    BY <1>1, <1>2, <1>4, <2>4 DEF Web!PageHolds
  <2>6. \A j \in 1..Len(s) : Len(s) - j < FullFaults => \E i \in DOMAIN list : list[i] = s[j]
    BY <1>1, <1>2, <1>4, <2>2, <2>4 DEF Web!PageHolds
  <2>7. ASSUME NEW x \in Web!Elements(Web!Newest(s, FullFaults)) PROVE x \in Web!Elements(list)
    <3>1. PICK j \in 1..Len(s) : Len(s) - j < FullFaults /\ x = s[j]
      BY <2>1, NewestAreLast
    <3>2. PICK i \in DOMAIN list : list[i] = x
      BY <2>6, <3>1
    <3>3. QED
      BY <2>1, <3>2 DEF Web!Elements
  <2>8. QED
    BY <2>5, <2>7
<1>5. Web!CountersFollow
  BY <1>1, KindsOfUpdates DEF Web!CountersAgree, Web!CountersFollow
<1>6. QED
  BY <1>3, <1>4, <1>5 DEF Web!ShowsCurrent, Web!ShowsRecentFaults

\* For every capacity of the channel and length of the lists: a page that has taken all its
\* messages, none of them lost to a lag, shows the shared state and misses no recent fault,
\* whatever the daemon stored and sent while it connected.
THEOREM WebIsRight == Spec => []WebInv
<1>1. Web!IInv => WebInv
  BY WebShown DEF Web!IInv, WebInv
<1>2. QED
  BY <1>1, WebInductive, PTL

\* The shared list of faults changes only by a fault that is kept.
LEMMA FaultsWindow == Spec => Web!FaultsAreWindow
<1>1. Init => Web!FaultHistory!Init
  BY DEF Init, Web!Init, Web!FaultHistory!Init
<1>2. Web!IInv /\ [Next]_vars => [Web!FaultHistory!Next]_(shared.faults)
  <2> SUFFICES ASSUME Web!IInv, [Web!Next]_(Web!vars)
               PROVE  [Web!FaultHistory!Next]_(shared.faults)
    BY EachMoves
  <2>0. WebTyped
    BY WebOpened DEF Web!IInv
  <2>1. ASSUME NEW u \in Web!Updates, Web!Begin(u)
        PROVE  \/ UNCHANGED shared.faults
               \/ \E x \in Web!Faults : Web!FaultHistory!Push(x)
    <3>1. CASE u.kind = "fault"
      <4>1. u.value \in Web!Faults
        BY <2>0, <2>1, <3>1, WebBegun, KindsOfUpdates
      <4>2. shared'.faults = Web!Keep(shared.faults, u.value)
        BY <2>0, <2>1, <3>1, WebBegun
      <4>3. Web!FaultHistory!Push(u.value)
        BY <4>2 DEF Web!FaultHistory!Push, Web!FaultHistory!Newest, Web!Keep, Web!Newest
      <4>4. QED
        BY <4>1, <4>3
    <3>2. CASE u.kind # "fault"
      BY <2>0, <2>1, <3>2, WebBegun
    <3>3. QED
      BY <3>1, <3>2
  <2>2. ASSUME UNCHANGED shared PROVE UNCHANGED shared.faults
    BY <2>2
  <2>3. QED
    BY <2>1, <2>2 DEF Web!Next, Web!Send, Web!Connect, Web!Opened, Web!Receive, Web!Lag,
       Web!Disconnect, Web!ReadPart, Web!vars, Web!FaultHistory!Next
<1>3. QED
  BY <1>1, <1>2, WebInductive, PTL DEF Spec, Web!FaultsAreWindow, Web!FaultHistory!Spec

\* For every capacity of the three: the ring of latency samples, the flight recorder and
\* the shared list of faults each are the window of what was last put into them, in the
\* order it was put there.
THEOREM LogsAreRight == Spec => LogsAreWindows
<1>1. Recorder!Spec => Recorder!WindowSpec
  BY RecorderIsWindow, RecorderAssumption
<1>2. Spec => Recorder!WindowSpec
  BY <1>1, RecorderMoves
<1>3. QED
  BY <1>2, SamplesWindow, FaultsWindow, RecorderIsRight, PTL DEF LogsAreWindows

-----------------------------------------------------------------------------
(* Where the compiler puts the variables of a unit. *)

Layout == INSTANCE StLayout

\* A mask below 8 shares at most itself with a number.
LEMMA CommonBounds ==
  ASSUME NEW n \in Nat, NEW mask \in 0..7
  PROVE  Layout!Common(n, mask) \in 0..mask
<1>1. mask = 4 * ((mask \div 4) % 2) + 2 * ((mask \div 2) % 2) + (mask % 2)
  OBVIOUS
<1>2. /\ (mask \div 4) % 2 \in {0, 1} /\ (mask \div 2) % 2 \in {0, 1} /\ mask % 2 \in {0, 1}
      /\ mask \div 1 = mask
  OBVIOUS
<1> QED
  BY <1>1, <1>2 DEF Layout!Common

\* An aligned offset is at most an alignment away.
LEMMA AlignBounds ==
  ASSUME NEW next \in Nat, NEW size \in Nat \ {0}
  PROVE  /\ Layout!Align(next, size) \in Nat
         /\ next <= Layout!Align(next, size)
         /\ Layout!Align(next, size) < next + size
         /\ Layout!Align(next, size) < next + 8
<1>1. Layout!Mask(size) \in 0..7 /\ Layout!Mask(size) < size
  BY DEF Layout!Mask
<1>2. Layout!Common(next + Layout!Mask(size), Layout!Mask(size)) \in 0..Layout!Mask(size)
  BY <1>1, CommonBounds
<1> QED
  BY <1>1, <1>2 DEF Layout!Align

\* What is as long as whole units of 1, 2, 4 or 8 bytes is put on a multiple of the unit.
LEMMA AlignNatural ==
  ASSUME NEW next \in Nat, NEW e \in {1, 2, 4, 8}, NEW size \in Nat \ {0}, size % e = 0
  PROVE  Layout!Align(next, size) % e = 0
<1> DEFINE m == Layout!Mask(size)
           n == next + m
<1>1. size >= e
  OBVIOUS
<1>2. m \in 0..7 /\ n \in Nat
  BY DEF Layout!Mask
<1>3. Layout!Align(next, size) = n - Layout!Common(n, m)
  BY DEF Layout!Align
<1> HIDE DEF n
<1>4. CASE e = 1
  BY <1>4, <1>2, <1>3, CommonBounds
<1>5. CASE e = 2
  <2>1. m % 2 = 1
    BY <1>1, <1>5 DEF Layout!Mask
  <2> HIDE DEF m
  <2>2. (n - Layout!Common(n, m)) % 2 = 0
    BY <1>2, <2>1 DEF Layout!Common
  <2> QED
    BY <1>3, <1>5, <2>2
<1>6. CASE e = 4
  <2>1. m \in {3, 7}
    BY <1>1, <1>6 DEF Layout!Mask
  <2> HIDE DEF m
  <2>2. (n - Layout!Common(n, m)) % 4 = 0
    BY <1>2, <2>1 DEF Layout!Common
  <2> QED
    BY <1>3, <1>6, <2>2
<1>7. CASE e = 8
  <2>1. m = 7
    BY <1>1, <1>7 DEF Layout!Mask
  <2> HIDE DEF m
  <2>2. (n - Layout!Common(n, m)) % 8 = 0
    BY <1>2, <2>1 DEF Layout!Common
  <2> QED
    BY <1>3, <1>7, <2>2
<1> QED
  BY <1>4, <1>5, <1>6, <1>7

\* The offsets that NextOffset names exist and have the equations it is
\* written with.
LEMMA NextOffsetExists ==
  ASSUME NEW first \in Nat, NEW sizes \in Seq(Nat \ {0})
  PROVE  Layout!NextOffset(first, sizes)
           = [n \in 0..Len(sizes) |-> IF n = 0 THEN first
                             ELSE Layout!Advance(Layout!NextOffset(first, sizes)[n - 1], sizes[n])]
<1> DEFINE N == Len(sizes)
<1>0. N \in Nat /\ sizes \in [1..N -> Nat \ {0}]
  OBVIOUS
<1> HIDE DEF N
<1> USE <1>0
<1> DEFINE Step(g, n) == IF n = 0 THEN first ELSE Layout!Advance(g[n - 1], sizes[n])
           Upto(k) == {g \in [0..k -> Nat] : \A n \in 0..k : g[n] = Step(g, n)}
           Bad == {k \in 0..N : Upto(k) = {}}
<1>1. Bad = {}
  <2> SUFFICES ASSUME Bad # {} PROVE FALSE
    OBVIOUS
  <2>1. PICK k \in Bad : \A y \in Bad : k <= y
    <3>1. Bad \subseteq Nat
      OBVIOUS
    <3>2. QED
      BY <3>1, LeastMember
  <2>2. k \in 0..N /\ Upto(k) = {}
    BY <2>1
  <2> HIDE DEF Bad
  <2>3. CASE k = 0
    <3>1. [n \in 0..0 |-> first] \in Upto(0)
      OBVIOUS
    <3>2. QED
      BY <2>2, <2>3, <3>1
  <2>4. CASE k > 0
    <3>1. k - 1 \in 0..N /\ ~(k <= k - 1)
      BY <2>2, <2>4
    <3>2. Upto(k - 1) # {}
      BY <2>1, <3>1 DEF Bad
    <3>3. PICK g \in Upto(k - 1) : TRUE
      BY <3>2
    <3>4. g \in [0..k - 1 -> Nat] /\ \A n \in 0..k - 1 : g[n] = Step(g, n)
      BY <3>3
    <3> DEFINE a == Layout!Advance(g[k - 1], sizes[k])
               h == [n \in 0..k |-> IF n = k THEN a ELSE g[n]]
    <3>5. a \in Nat
      <4>1. g[k - 1] \in Nat /\ sizes[k] \in Nat \ {0}
        BY <2>2, <2>4, <3>4
      <4>2. Layout!Align(g[k - 1], sizes[k]) \in Nat
        BY <4>1, AlignBounds
      <4>3. a = Layout!Align(g[k - 1], sizes[k]) + sizes[k]
        BY Zenon DEF Layout!Advance
      <4> HIDE DEF a
      <4>4. QED
        BY <4>1, <4>2, <4>3
    <3> HIDE DEF a
    <3>6. h \in [0..k -> Nat]
      BY <2>2, <2>4, <3>4, <3>5
    <3>7. ASSUME NEW n \in 0..k PROVE h[n] = Step(h, n)
      <4>1. CASE n = k
        <5>1. h[n - 1] = g[k - 1] /\ h[n] = a
          BY <2>2, <2>4, <4>1
        <5>2. QED
          BY <2>4, <4>1, <5>1 DEF a
      <4>2. CASE n # k
        <5>1. n \in 0..k - 1 /\ h[n] = g[n] /\ (n # 0 => n - 1 \in 0..k /\ n - 1 # k)
          BY <2>2, <2>4, <4>2
        <5>2. n # 0 => h[n - 1] = g[n - 1]
          BY <5>1
        <5>3. QED
          BY <3>4, <5>1, <5>2
      <4>3. QED
        BY <4>1, <4>2
    <3> HIDE DEF h
    <3>8. h \in Upto(k)
      BY <3>6, <3>7
    <3>9. QED
      BY <2>2, <3>8
  <2>5. QED
    BY <2>2, <2>3, <2>4
<1>2. PICK g \in Upto(N) : TRUE
  <2>1. N \in 0..N
    OBVIOUS
  <2>2. N \notin Bad
    BY <1>1
  <2>3. QED
    BY <2>1, <2>2
<1>3. g = [n \in 0..N |-> Step(g, n)] /\ g \in [0..N -> Nat] /\ \A n \in 0..N : g[n] = Step(g, n)
  <2>1. g \in [0..N -> Nat] /\ \A n \in 0..N : g[n] = Step(g, n)
    BY <1>2
  <2> HIDE DEF Upto, Step
  <2>2. QED
    BY <2>1
<1> HIDE DEF Upto, Bad
<1>4. QED
  BY <1>3, Zenon DEF Layout!NextOffset, N

\* They are natural numbers, each the advance of the one before.
LEMMA NextOffsetType ==
  ASSUME NEW first \in Nat, NEW sizes \in Seq(Nat \ {0})
  PROVE  /\ Layout!NextOffset(first, sizes) \in [0..Len(sizes) -> Nat]
         /\ Layout!NextOffset(first, sizes)[0] = first
         /\ \A n \in 1..Len(sizes) :
              Layout!NextOffset(first, sizes)[n]
                = Layout!Align(Layout!NextOffset(first, sizes)[n - 1], sizes[n]) + sizes[n]
<1> DEFINE N == Len(sizes)
<1>0. N \in Nat /\ sizes \in [1..N -> Nat \ {0}]
  OBVIOUS
<1> HIDE DEF N
<1> USE <1>0
<1> DEFINE next == Layout!NextOffset(first, sizes)
           Bad == {n \in 0..N : next[n] \notin Nat}
<1>1. next = [n \in 0..N |-> IF n = 0 THEN first ELSE Layout!Advance(next[n - 1], sizes[n])]
  BY NextOffsetExists, Zenon DEF N
<1> HIDE DEF next
<1>2. next[0] = first /\ \A n \in 1..N : next[n] = Layout!Advance(next[n - 1], sizes[n])
  BY <1>1
<1>3. \A n \in 1..N : next[n] = Layout!Align(next[n - 1], sizes[n]) + sizes[n]
  BY <1>2, Zenon DEF Layout!Advance
<1>4. Bad = {}
  <2> SUFFICES ASSUME Bad # {} PROVE FALSE
    OBVIOUS
  <2>1. PICK k \in Bad : \A y \in Bad : k <= y
    <3>1. Bad \subseteq Nat
      OBVIOUS
    <3> HIDE DEF Bad
    <3>2. QED
      BY <3>1, LeastMember
  <2>2. k \in 0..N /\ next[k] \notin Nat /\ k # 0
    BY <1>2, <2>1
  <2>3. k - 1 \in 0..N /\ ~(k <= k - 1) /\ k \in 1..N /\ sizes[k] \in Nat \ {0}
    BY <2>2
  <2>4. next[k - 1] \in Nat
    BY <2>1, <2>3
  <2>5. Layout!Align(next[k - 1], sizes[k]) \in Nat
    BY <2>3, <2>4, AlignBounds
  <2>6. QED
    BY <1>3, <2>2, <2>3, <2>5
<1>5. next \in [0..N -> Nat]
  <2>1. \A n \in 0..N : next[n] \in Nat
    BY <1>4
  <2>2. DOMAIN next = 0..N
    BY <1>1
  <2>3. next = [n \in 0..N |-> next[n]]
    BY <1>1, <2>2
  <2>4. QED
    BY <2>1, <2>3
<1>6. QED
  BY <1>2, <1>3, <1>5 DEF next, N

\* The n-th declaration's own offset, before the last name of a kind is picked.
Place(first, sizes, n) == Layout!Align(Layout!NextOffset(first, sizes)[n - 1], sizes[n])

\* A declaration is placed at or after where its predecessors end, and next_offset behind it.
LEMMA Places ==
  ASSUME NEW first \in Nat, NEW sizes \in Seq(Nat \ {0})
  PROVE  /\ Layout!NextOffset(first, sizes) \in [0..Len(sizes) -> Nat]
         /\ Layout!NextOffset(first, sizes)[0] = first
         /\ \A n \in 1..Len(sizes) :
              /\ Place(first, sizes, n) \in Nat
              /\ Layout!NextOffset(first, sizes)[n - 1] <= Place(first, sizes, n)
              /\ Place(first, sizes, n) + sizes[n] = Layout!NextOffset(first, sizes)[n]
<1> DEFINE N == Len(sizes)
<1>0. N \in Nat /\ sizes \in [1..N -> Nat \ {0}]
  OBVIOUS
<1> HIDE DEF N
<1> USE <1>0
<1> DEFINE next == Layout!NextOffset(first, sizes)
<1>1. /\ next \in [0..N -> Nat] /\ next[0] = first
      /\ \A n \in 1..N : next[n] = Layout!Align(next[n - 1], sizes[n]) + sizes[n]
  BY NextOffsetType, Zenon DEF N
<1>2. \A n \in 1..N : Place(first, sizes, n) = Layout!Align(next[n - 1], sizes[n])
  BY Zenon DEF Place
<1> HIDE DEF next
<1>3. ASSUME NEW n \in 1..N
      PROVE  /\ Layout!Align(next[n - 1], sizes[n]) \in Nat
             /\ next[n - 1] <= Layout!Align(next[n - 1], sizes[n])
  <2>1. next[n - 1] \in Nat /\ sizes[n] \in Nat \ {0}
    BY <1>1
  <2>2. QED
    BY <2>1, AlignBounds
<1>4. QED
  BY <1>1, <1>2, <1>3 DEF next, N

\* What is declared later is placed behind.
LEMMA PlacesGrow ==
  ASSUME NEW first \in Nat, NEW sizes \in Seq(Nat \ {0}),
         NEW i \in 0..Len(sizes), NEW j \in i + 1..Len(sizes)
  PROVE  Layout!NextOffset(first, sizes)[i] <= Place(first, sizes, j)
<1> DEFINE N == Len(sizes)
<1>0. N \in Nat /\ sizes \in [1..N -> Nat \ {0}]
  OBVIOUS
<1> HIDE DEF N
<1> USE <1>0
<1> DEFINE next == Layout!NextOffset(first, sizes)
           Bad == {n \in i + 1..N : ~(next[i] <= Place(first, sizes, n))}
<1>1. /\ next \in [0..N -> Nat]
      /\ \A n \in 1..N : /\ Place(first, sizes, n) \in Nat /\ next[n - 1] <= Place(first, sizes, n)
                          /\ Place(first, sizes, n) + sizes[n] = next[n]
  BY Places, Zenon DEF N
<1> HIDE DEF next
<1> SUFFICES ASSUME Bad # {} PROVE FALSE
  BY DEF next, N
<1>2. PICK k \in Bad : \A y \in Bad : k <= y
  <2>1. Bad \subseteq Nat
    OBVIOUS
  <2> HIDE DEF Bad
  <2>2. QED
    BY <2>1, LeastMember
<1>3. k \in i + 1..N /\ k \in 1..N /\ ~(next[i] <= Place(first, sizes, k))
  BY <1>2
<1>4. k # i + 1
  <2>1. next[k - 1] <= Place(first, sizes, k)
    BY <1>1, <1>3
  <2>2. k = i + 1 => k - 1 = i
    OBVIOUS
  <2> HIDE DEF Bad
  <2>3. QED
    BY <1>3, <2>1, <2>2
<1>5. k - 1 \in i + 1..N /\ k - 1 \in 1..N /\ ~(k <= k - 1)
  BY <1>3, <1>4
<1>6. next[i] <= Place(first, sizes, k - 1)
  BY <1>2, <1>5
<1>7. /\ Place(first, sizes, k - 1) + sizes[k - 1] = next[k - 1]
      /\ next[k - 1] <= Place(first, sizes, k)
      /\ Place(first, sizes, k - 1) \in Nat /\ Place(first, sizes, k) \in Nat /\ next[k - 1] \in Nat
      /\ next[i] \in Nat /\ sizes[k - 1] \in Nat
  BY <1>1, <1>3, <1>5
<1>8. \A v, w, x, y, z \in Nat : v <= w /\ w + x = y /\ y <= z => v <= z
  OBVIOUS
<1>9. QED
  BY <1>3, <1>6, <1>7, <1>8, Zenon

\* LastOf finds a declaration of the name.
LEMMA LastOfExists ==
  ASSUME NEW N \in Nat, NEW names, Len(names) = N, NEW name \in {names[n] : n \in 1..N}
  PROVE  Layout!LastOf(names, name) \in 1..N /\ names[Layout!LastOf(names, name)] = name
<1> DEFINE Own == {back \in 0..N : N - back \in 1..N /\ names[N - back] = name}
<1>1. PICK back \in Own : \A y \in Own : back <= y
  <2>1. Own \subseteq Nat
    OBVIOUS
  <2>2. Own # {}
    <3>1. PICK n \in 1..N : names[n] = name
      OBVIOUS
    <3>2. N - n \in 0..N /\ N - (N - n) = n
      OBVIOUS
    <3>3. N - n \in Own
      BY <3>1, <3>2
    <3>4. QED
      BY <3>3
  <2> HIDE DEF Own
  <2>3. QED
    BY <2>1, <2>2, LeastMember
<1> DEFINE final == N - back
<1>2. final \in 1..N /\ names[final] = name
  BY <1>1
<1>3. ASSUME NEW m \in 1..N, names[m] = name PROVE m <= final
  <2>1. N - m \in 0..N /\ N - (N - m) = m
    OBVIOUS
  <2>2. N - m \in Own
    BY <1>3, <2>1
  <2>3. back <= N - m
    BY <1>1, <2>2
  <2>4. back \in Int
    BY <1>1
  <2> HIDE DEF Own
  <2>5. QED
    BY <2>3, <2>4
<1> HIDE DEF final
<1>4. \E n \in 1..N : names[n] = name /\ \A m \in 1..N : names[m] = name => m <= n
  BY <1>2, <1>3
<1>5. QED
  BY <1>4 DEF Layout!LastOf

\* Two declarations are placed apart, and not below the first offset.
LEMMA PlacesApart ==
  ASSUME NEW first \in Nat, NEW sizes \in Seq(Nat \ {0}),
         NEW i \in 1..Len(sizes), NEW j \in 1..Len(sizes), i # j
  PROVE  /\ Place(first, sizes, i) \in Nat /\ first <= Place(first, sizes, i)
         /\ \/ Place(first, sizes, i) + sizes[i] <= Place(first, sizes, j)
            \/ Place(first, sizes, j) + sizes[j] <= Place(first, sizes, i)
<1> DEFINE N == Len(sizes)
<1>0. N \in Nat /\ sizes \in [1..N -> Nat \ {0}]
  OBVIOUS
<1> HIDE DEF N
<1> USE <1>0
<1> DEFINE next == Layout!NextOffset(first, sizes)
<1>1. next \in [0..N -> Nat] /\ next[0] = first
  BY NextOffsetType, Zenon DEF N
<1>2. ASSUME NEW n \in 1..N
      PROVE  /\ Place(first, sizes, n) \in Nat
             /\ next[n - 1] <= Place(first, sizes, n)
             /\ Place(first, sizes, n) + sizes[n] = next[n]
  BY Places, Zenon DEF N
<1>3. next[0] <= Place(first, sizes, i)
  BY PlacesGrow DEF N
<1>4. i < j => next[i] <= Place(first, sizes, j)
  BY PlacesGrow DEF N
<1>5. j < i => next[j] <= Place(first, sizes, i)
  BY PlacesGrow DEF N
<1> HIDE DEF next
<1>6. QED
  BY <1>1, <1>2, <1>3, <1>4, <1>5

\* No two variables of a unit share a byte, and none lies below the first offset: what a store
\* to one changes, no other variable sees.
THEOREM VariablesApart ==
  ASSUME NEW first \in Nat, NEW sizes \in Seq(Nat \ {0}), NEW names, Len(names) = Len(sizes),
         NEW a \in DOMAIN Layout!Offsets(first, names, sizes),
         NEW b \in DOMAIN Layout!Offsets(first, names, sizes), a # b
  PROVE  LET place == Layout!Offsets(first, names, sizes)
             size(name) == sizes[Layout!LastOf(names, name)]
         IN  /\ place[a] \in Nat /\ first <= place[a]
             /\ \/ place[a] + size(a) <= place[b]
                \/ place[b] + size(b) <= place[a]
<1> DEFINE N == Len(sizes)
           place == Layout!Offsets(first, names, sizes)
           i == Layout!LastOf(names, a)
           j == Layout!LastOf(names, b)
<1>1. DOMAIN place = {names[n] : n \in 1..N}
  BY DEF Layout!Offsets
<1>2. place[a] = Place(first, sizes, i) /\ place[b] = Place(first, sizes, j)
  BY <1>1 DEF Layout!Offsets, Place
<1>3. i \in 1..N /\ j \in 1..N /\ i # j
  BY <1>1, LastOfExists
<1> HIDE DEF i, j
<1>4. /\ Place(first, sizes, i) \in Nat /\ first <= Place(first, sizes, i)
      /\ \/ Place(first, sizes, i) + sizes[i] <= Place(first, sizes, j)
         \/ Place(first, sizes, j) + sizes[j] <= Place(first, sizes, i)
  BY <1>3, PlacesApart
<1> HIDE DEF place
<1>5. /\ place[a] \in Nat /\ first <= place[a]
      /\ place[a] + sizes[i] <= place[b] \/ place[b] + sizes[j] <= place[a]
  BY <1>2, <1>4
<1>6. QED
  BY <1>5 DEF i, j, place

\* The offset of a variable made of whole elements is a multiple of the element.
THEOREM VariablesAligned ==
  ASSUME NEW first \in Nat, NEW sizes \in Seq(Nat \ {0}), NEW names, Len(names) = Len(sizes),
         NEW a \in DOMAIN Layout!Offsets(first, names, sizes), NEW e \in {1, 2, 4, 8},
         sizes[Layout!LastOf(names, a)] % e = 0
  PROVE  Layout!Offsets(first, names, sizes)[a] % e = 0
<1> DEFINE next == Layout!NextOffset(first, sizes)
           place == Layout!Offsets(first, names, sizes)
           i == Layout!LastOf(names, a)
<1>1. DOMAIN place = {names[n] : n \in 1..Len(sizes)}
  BY DEF Layout!Offsets
<1>2. place[a] = Layout!Align(next[i - 1], sizes[i])
  BY <1>1 DEF Layout!Offsets
<1>3. i \in 1..Len(sizes)
  BY <1>1, LastOfExists
<1>4. next \in [0..Len(sizes) -> Nat]
  BY NextOffsetType, Zenon
<1> HIDE DEF i, next, place
<1>5. next[i - 1] \in Nat /\ sizes[i] \in Nat \ {0}
  <2>1. i - 1 \in 0..Len(sizes)
    BY <1>3
  <2>2. next[i - 1] \in Nat
    BY <1>4, <2>1, Zenon
  <2>3. sizes[i] \in Nat \ {0}
    BY <1>3
  <2>4. QED
    BY <2>2, <2>3
<1>6. Layout!Align(next[i - 1], sizes[i]) % e = 0
  BY <1>5, AlignNatural DEF i
<1>7. QED
  BY <1>2, <1>6 DEF place

\* A store writes no more than its type has room for.
LEMMA StoredFits ==
  ASSUME NEW kind \in Layout!Scalars
  PROVE  /\ Layout!ScalarSize(kind) \in {1, 2, 4, 8}
         /\ Layout!Stored(kind) \in 1..Layout!ScalarSize(kind)
BY DEF Layout!Scalars, Layout!ScalarSize, Layout!Stored,
       Layout!OneByte, Layout!TwoBytes, Layout!FourBytes, Layout!EightBytes

\* What lies in an element of a variable lies in the variable.
LEMMA BytesWithin ==
  ASSUME NEW f \in Nat, NEW p \in Nat, NEW s \in Nat, NEW d \in Nat, NEW w \in Nat, NEW l \in Nat,
         f <= p, w <= l, d + l <= s
  PROVE  \A x \in p + d..p + d + w - 1 : f <= x /\ x \in p..p + s - 1
OBVIOUS

\* What lies in a variable lies in none that is apart.
LEMMA BytesApart ==
  ASSUME NEW p \in Nat, NEW s \in Nat, NEW q \in Nat, NEW t \in Nat,
         p + s <= q \/ q + t <= p
  PROVE  \A x \in p..p + s - 1 : x \notin q..q + t - 1
OBVIOUS

\* A store to an element of an array of scalars, or to a scalar, which is an array of one,
\* is aligned and writes bytes of this variable and of no other.
THEOREM StoresStayInside ==
  ASSUME NEW first \in Nat, NEW sizes \in Seq(Nat \ {0}), NEW names, Len(names) = Len(sizes),
         NEW a \in DOMAIN Layout!Offsets(first, names, sizes),
         NEW b \in DOMAIN Layout!Offsets(first, names, sizes), a # b,
         NEW kind \in Layout!Scalars, NEW count \in Nat \ {0},
         sizes[Layout!LastOf(names, a)] = count * Layout!ScalarSize(kind),
         NEW element \in 0..count - 1
  PROVE  LET place == Layout!Offsets(first, names, sizes)
             size(name) == sizes[Layout!LastOf(names, name)]
             address == place[a] + element * Layout!ScalarSize(kind)
         IN  /\ address % Layout!ScalarSize(kind) = 0
             /\ \A byte \in address..address + Layout!Stored(kind) - 1 :
                  /\ first <= byte
                  /\ byte \in place[a]..place[a] + size(a) - 1
                  /\ byte \notin place[b]..place[b] + size(b) - 1
<1> DEFINE place == Layout!Offsets(first, names, sizes)
           e == Layout!ScalarSize(kind)
           A == sizes[Layout!LastOf(names, a)]
           B == sizes[Layout!LastOf(names, b)]
           address == place[a] + element * e
<1>1. /\ place[a] \in Nat /\ first <= place[a]
      /\ place[a] + A <= place[b] \/ place[b] + B <= place[a]
  BY VariablesApart
<1>2. place[b] \in Nat
  BY VariablesApart
<1>3. B \in Nat /\ A \in Nat
  <2>1. DOMAIN place = {names[n] : n \in 1..Len(sizes)}
    BY DEF Layout!Offsets
  <2>2. /\ Layout!LastOf(names, a) \in 1..Len(sizes)
        /\ Layout!LastOf(names, b) \in 1..Len(sizes)
    BY <2>1, LastOfExists
  <2>3. QED
    BY <2>2
<1>4. e \in {1, 2, 4, 8} /\ Layout!Stored(kind) \in 1..e
  BY StoredFits
<1> HIDE DEF e
<1> DEFINE before == element * e
<1>5. /\ before \in Nat /\ before + e <= count * e
      /\ before % e = 0 /\ (count * e) % e = 0
  <2>1. CASE e = 1
    BY <2>1
  <2>2. CASE e = 2
    BY <2>2
  <2>3. CASE e = 4
    BY <2>3
  <2>4. CASE e = 8
    BY <2>4
  <2>5. QED
    BY <1>4, <2>1, <2>2, <2>3, <2>4
<1>6. A = count * e
  BY DEF e
<1>7. before + e <= A /\ A % e = 0
  <2> HIDE DEF A, before
  <2>1. QED
    BY <1>5, <1>6
<1>8. place[a] % e = 0
  BY <1>4, <1>7, VariablesAligned
<1> HIDE DEF place, A, B, before
<1>9. address % e = 0
  <2>1. \A d \in {1, 2, 4, 8} : \A x \in Nat : \A y \in Nat :
          x % d = 0 /\ y % d = 0 => (x + y) % d = 0
    OBVIOUS
  <2>2. address = place[a] + before
    BY Zenon DEF before
  <2>3. (place[a] + before) % e = 0
    BY <1>1, <1>4, <1>5, <1>8, <2>1, Zenon
  <2> HIDE DEF address
  <2>4. QED
    BY <2>2, <2>3, Zenon
<1>10. ASSUME NEW byte \in address..address + Layout!Stored(kind) - 1
       PROVE  /\ first <= byte
              /\ byte \in place[a]..place[a] + A - 1
              /\ byte \notin place[b]..place[b] + B - 1
  <2>1. byte \in place[a] + before..place[a] + before + Layout!Stored(kind) - 1
    BY <1>10, Zenon DEF before
  <2>2. /\ Layout!Stored(kind) \in Nat /\ e \in Nat /\ Layout!Stored(kind) <= e
        /\ before \in Nat /\ before + e <= A
    BY <1>4, <1>5, <1>7
  <2>3. first <= byte /\ byte \in place[a]..place[a] + A - 1
    BY <1>1, <1>3, <2>1, <2>2, BytesWithin
  <2>4. byte \notin place[b]..place[b] + B - 1
    BY <1>1, <1>2, <1>3, <2>3, BytesApart
  <2>5. QED
    BY <2>3, <2>4
<1>11. QED
  BY <1>9, <1>10 DEF place, A, B, e
=============================================================================
