-------------------------- MODULE Ethercat_proofs --------------------------
(***************************************************************************)
(* For every network, threshold and number of faults: the EtherCAT         *)
(* master's state is honest, its errors are counted, its init() heals, and *)
(* the layout of the process image gives every slave its own bytes.  What  *)
(* the recursive sums compute is shown by their least counterexample,      *)
(* which the well-foundedness of the natural numbers provides.             *)
(***************************************************************************)
EXTENDS Ethercat, FiniteSetTheorems, WellFoundedInduction, TLAPS

\* A set of natural numbers that is not empty has a least member.
LEMMA LeastOne == ASSUME NEW S, S \subseteq Nat, S # {}
                  PROVE  Least(S) \in S /\ \A y \in S : Least(S) <= y
<1> DEFINE below == {ss \in Nat \X Nat : ss[1] < ss[2]}
<1>1. IsWellFoundedOn(below, Nat)
  BY NatLessThanWellFounded DEF OpToRel
<1> HIDE DEF below
<1>2. PICK x \in S : \A y \in S : ~(<<y, x>> \in below)
  BY <1>1, WFMin
<1>3. \A y \in S : x <= y
  <2> SUFFICES ASSUME NEW y \in S, y < x PROVE FALSE
    OBVIOUS
  <2>1. <<y, x>> \in Nat \X Nat /\ <<y, x>>[1] < <<y, x>>[2]
    OBVIOUS
  <2>2. <<y, x>> \in below
    BY <2>1, Zenon DEF below
  <2>3. QED
    BY <1>2, <2>2
<1>4. QED
  BY <1>3 DEF Least

-----------------------------------------------------------------------------
(* Sums: what the recursive function computes, by the least counterexample. *)

\* The function that Sums names exists and has the equations it is written with.
LEMMA SumsExist ==
  ASSUME NEW N \in Nat, NEW share \in [0..N - 1 -> Nat]
  PROVE  Sums(share) = [n \in 0..N |-> IF n = 0 THEN 0 ELSE Sums(share)[n - 1] + share[n - 1]]
<1> DEFINE Upto(k) == {g \in [0..k -> Nat] :
                         \A n \in 0..k : g[n] = IF n = 0 THEN 0 ELSE g[n - 1] + share[n - 1]}
           Bad == {k \in 0..N : Upto(k) = {}}
<1>1. Bad = {}
  <2> SUFFICES ASSUME Bad # {} PROVE FALSE
    OBVIOUS
  <2> DEFINE k == Least(Bad)
  <2>1. k \in Bad /\ \A y \in Bad : k <= y
    <3>1. Bad \subseteq Nat
      OBVIOUS
    <3>2. QED
      BY <3>1, LeastOne
  <2>2. k \in 0..N /\ Upto(k) = {}
    BY <2>1
  <2> HIDE DEF k, Bad
  <2>3. CASE k = 0
    <3>1. [n \in 0..0 |-> 0] \in Upto(0)
      OBVIOUS
    <3>2. QED
      BY <2>2, <2>3, <3>1
  <2>4. CASE k > 0
    <3>1. k - 1 \in 0..N /\ ~(k <= k - 1)
      BY <2>2, <2>4
    <3>2. Upto(k - 1) # {}
      BY <2>1, <3>1 DEF Bad
    <3>3. PICK g \in Upto(k - 1) : TRUE
      BY <3>2
    <3>4. /\ g \in [0..k - 1 -> Nat]
          /\ \A n \in 0..k - 1 : g[n] = IF n = 0 THEN 0 ELSE g[n - 1] + share[n - 1]
      BY <3>3
    <3> DEFINE h == [n \in 0..k |-> IF n = k THEN g[k - 1] + share[k - 1] ELSE g[n]]
    <3>5. share[k - 1] \in Nat /\ g[k - 1] \in Nat
      BY <2>2, <2>4, <3>4
    <3>6. h \in [0..k -> Nat]
      BY <2>2, <2>4, <3>4, <3>5
    <3>7. ASSUME NEW n \in 0..k PROVE h[n] = IF n = 0 THEN 0 ELSE h[n - 1] + share[n - 1]
      <4>1. CASE n = k
        BY <2>2, <2>4, <4>1
      <4>2. CASE n # k
        <5>1. n \in 0..k - 1 /\ h[n] = g[n] /\ (n # 0 => n - 1 \in 0..k /\ n - 1 # k)
          BY <2>2, <2>4, <4>2
        <5>2. n # 0 => h[n - 1] = g[n - 1]
          BY <5>1
        <5>3. QED
          BY <3>4, <5>1, <5>2
      <4>3. QED
        BY <4>1, <4>2
    <3> HIDE DEF h
    <3>8. QED
      BY <2>2, <3>6, <3>7
  <2>5. QED
    BY <2>2, <2>3, <2>4
<1>2. PICK g \in Upto(N) : TRUE
  <2>1. N \in 0..N
    OBVIOUS
  <2>2. QED
    BY <1>1, <2>1
<1>3. g = [n \in 0..N |-> IF n = 0 THEN 0 ELSE g[n - 1] + share[n - 1]]
  <2>1. /\ g \in [0..N -> Nat]
        /\ \A n \in 0..N : g[n] = IF n = 0 THEN 0 ELSE g[n - 1] + share[n - 1]
    BY <1>2
  <2> HIDE DEF Upto
  <2>2. QED
    BY <2>1
<1>4. Cardinality(DOMAIN share) = N
  <2>1. DOMAIN share = 0..N - 1
    OBVIOUS
  <2>2. QED
    BY <2>1, FS_Interval
<1> HIDE DEF Upto, Bad
<1>5. QED
  BY <1>3, <1>4, Zenon DEF Sums

\* A sum of natural numbers is one, and each adds the next share.
LEMMA SumsType ==
  ASSUME NEW N \in Nat, NEW share \in [0..N - 1 -> Nat]
  PROVE  /\ Sums(share) \in [0..N -> Nat]
         /\ Sums(share)[0] = 0
         /\ \A n \in 1..N : Sums(share)[n] = Sums(share)[n - 1] + share[n - 1]
<1> DEFINE s == Sums(share)
           Bad == {n \in 0..N : s[n] \notin Nat}
<1>1. s = [n \in 0..N |-> IF n = 0 THEN 0 ELSE s[n - 1] + share[n - 1]]
  BY SumsExist, Zenon
<1> HIDE DEF s
<1>2. s[0] = 0 /\ \A n \in 1..N : s[n] = s[n - 1] + share[n - 1]
  BY <1>1
<1>3. Bad = {}
  <2> SUFFICES ASSUME Bad # {} PROVE FALSE
    OBVIOUS
  <2> DEFINE k == Least(Bad)
  <2>1. Bad \subseteq Nat
    OBVIOUS
  <2>2. k \in Bad /\ \A y \in Bad : k <= y
    BY <2>1, LeastOne
  <2> HIDE DEF k
  <2>3. k \in 0..N /\ s[k] \notin Nat /\ k # 0
    BY <1>2, <2>2
  <2>4. k - 1 \in 0..N /\ ~(k <= k - 1)
    BY <2>3
  <2>5. s[k - 1] \in Nat
    BY <2>2, <2>4
  <2>6. QED
    BY <1>2, <2>3, <2>4, <2>5
<1>4. QED
  <2>1. \A n \in 0..N : s[n] \in Nat
    BY <1>3
  <2>2. DOMAIN s = 0..N
    BY <1>1
  <2>3. s = [n \in 0..N |-> s[n]]
    BY <1>1, <2>2
  <2>4. s \in [0..N -> Nat]
    BY <2>1, <2>3
  <2>5. QED
    BY <1>2, <2>4 DEF s

\* The share of p lies below every later sum.
LEMMA SumsGrow ==
  ASSUME NEW N \in Nat, NEW share \in [0..N - 1 -> Nat],
         NEW p \in 0..N - 1, NEW q \in p + 1..N
  PROVE  Sums(share)[p] + share[p] <= Sums(share)[q]
<1> DEFINE s == Sums(share)
           Bad == {n \in p + 1..N : ~(s[p] + share[p] <= s[n])}
<1>1. s \in [0..N -> Nat] /\ \A n \in 1..N : s[n] = s[n - 1] + share[n - 1]
  BY SumsType, Zenon
<1> HIDE DEF s
<1> SUFFICES ASSUME Bad # {} PROVE FALSE
  BY DEF s
<1> DEFINE k == Least(Bad)
<1>2. k \in Bad /\ \A y \in Bad : k <= y
  <2>1. Bad \subseteq Nat
    OBVIOUS
  <2>2. QED
    BY <2>1, LeastOne
<1> HIDE DEF k
<1>3. k \in p + 1..N /\ ~(s[p] + share[p] <= s[k])
  BY <1>2
<1>4. s[k] = s[k - 1] + share[k - 1]
  BY <1>1, <1>3
<1>5. k # p + 1
  BY <1>1, <1>3, <1>4
<1>6. k - 1 \in p + 1..N /\ ~(k <= k - 1)
  BY <1>3, <1>5
<1>7. s[p] + share[p] <= s[k - 1]
  BY <1>2, <1>6
<1>8. s[p] \in Nat /\ s[k - 1] \in Nat /\ share[p] \in Nat /\ share[k - 1] \in Nat
  BY <1>1, <1>3, <1>6
<1>9. QED
  BY <1>3, <1>4, <1>7, <1>8

\* Shares no larger than others make the same sum only if they are the same.
LEMMA SumsTight ==
  ASSUME NEW N \in Nat, NEW small \in [0..N - 1 -> Nat], NEW big \in [0..N - 1 -> Nat],
         \A p \in 0..N - 1 : small[p] <= big[p],
         Sums(small)[N] = Sums(big)[N]
  PROVE  \A p \in 0..N - 1 : small[p] = big[p]
<1> DEFINE s == Sums(small)
           b == Sums(big)
           Bad == {n \in 0..N : ~(/\ s[n] <= b[n]
                                  /\ \A p \in 0..n - 1 : small[p] < big[p] => s[n] < b[n])}
<1>1. /\ s \in [0..N -> Nat] /\ s[0] = 0
      /\ \A n \in 1..N : s[n] = s[n - 1] + small[n - 1]
  BY SumsType, Zenon
<1>2. /\ b \in [0..N -> Nat] /\ b[0] = 0
      /\ \A n \in 1..N : b[n] = b[n - 1] + big[n - 1]
  BY SumsType, Zenon
<1> HIDE DEF s, b
<1>3. Bad = {}
  <2> SUFFICES ASSUME Bad # {} PROVE FALSE
    OBVIOUS
  <2> DEFINE k == Least(Bad)
  <2>1. k \in Bad /\ \A y \in Bad : k <= y
    <3>1. Bad \subseteq Nat
      OBVIOUS
    <3>2. QED
      BY <3>1, LeastOne
  <2> HIDE DEF k
  <2>2. k \in 0..N /\ k # 0
    BY <1>1, <1>2, <2>1
  <2>3. k - 1 \in 0..N /\ ~(k <= k - 1)
    BY <2>2
  <2>4. /\ s[k - 1] <= b[k - 1]
        /\ \A p \in 0..k - 2 : small[p] < big[p] => s[k - 1] < b[k - 1]
    BY <2>1, <2>3
  <2>5. s[k] = s[k - 1] + small[k - 1] /\ b[k] = b[k - 1] + big[k - 1]
    BY <1>1, <1>2, <2>2
  <2>6. /\ s[k - 1] \in Nat /\ b[k - 1] \in Nat
        /\ small[k - 1] \in Nat /\ big[k - 1] \in Nat /\ small[k - 1] <= big[k - 1]
    BY <1>1, <1>2, <2>2, <2>3
  <2>7. s[k] <= b[k]
    BY <2>4, <2>5, <2>6
  <2>8. ASSUME NEW p \in 0..k - 1, small[p] < big[p] PROVE s[k] < b[k]
    <3>1. CASE p = k - 1
      BY <2>4, <2>5, <2>6, <2>8, <3>1
    <3>2. CASE p # k - 1
      <4>1. p \in 0..k - 2
        BY <2>2, <3>2
      <4>2. s[k - 1] < b[k - 1]
        BY <2>4, <2>8, <4>1
      <4>3. QED
        BY <2>5, <2>6, <4>2
    <3>3. QED
      BY <3>1, <3>2
  <2>9. QED
    BY <2>1, <2>7, <2>8
<1>4. N \in 0..N /\ s[N] = b[N] /\ s[N] \in Nat
  BY <1>1 DEF s, b
<1>5. ASSUME NEW p \in 0..N - 1 PROVE ~(small[p] < big[p])
  <2>1. N \notin Bad
    BY <1>3
  <2>2. small[p] < big[p] => s[N] < b[N]
    BY <1>4, <2>1
  <2>3. QED
    BY <1>4, <2>2
<1>6. QED
  BY <1>5

-----------------------------------------------------------------------------
(* The bus. *)

\* What is on the bus is numbered from 0 and has sizes.
LEMMA BusType ==
  ASSUME plant \in Networks
  PROVE  LET N == Cardinality(Positions)
         IN /\ N \in Nat /\ Positions = 0..N - 1
            /\ \A p \in Positions : plant[p].in \in Nat /\ plant[p].out \in Nat
  BY NetworksAssumption, FS_CardinalityType DEF Positions

\* The layout of a process image: every slave's bytes lie inside it, each
\* slave's after those of the slaves before it.
LEMMA Layout ==
  ASSUME NEW N \in Nat, NEW net, DOMAIN net = 0..N - 1, NEW dir,
         \A p \in 0..N - 1 : net[p][dir] \in Nat
  PROVE  /\ Offset(net, dir) \in [0..N -> Nat]
         /\ Size(net, dir) = Offset(net, dir)[N]
         /\ Size(net, dir) \in Nat
         /\ \A p \in 0..N - 1 : \A q \in p + 1..N :
              Offset(net, dir)[p] + net[p][dir] <= Offset(net, dir)[q]
<1> DEFINE share == [p \in DOMAIN net |-> net[p][dir]]
<1>1. share \in [0..N - 1 -> Nat] /\ \A p \in 0..N - 1 : share[p] = net[p][dir]
  OBVIOUS
<1> HIDE DEF share
<1>2. Offset(net, dir) = Sums(share)
  BY Zenon DEF Offset, share
<1>3. Sums(share) \in [0..N -> Nat]
  BY <1>1, SumsType
<1>4. Size(net, dir) = Offset(net, dir)[N]
  <2>1. Cardinality(DOMAIN net) = N
    BY FS_Interval
  <2>2. QED
    BY <2>1, Zenon DEF Size
<1>5. N \in 0..N
  OBVIOUS
<1>6. \A p \in 0..N - 1 : \A q \in p + 1..N : Sums(share)[p] + share[p] <= Sums(share)[q]
  BY <1>1, SumsGrow
<1>7. QED
  BY <1>1, <1>2, <1>3, <1>4, <1>5, <1>6

\* The working counter of a network, whoever answers.
LEMMA WkcType ==
  ASSUME NEW N \in Nat, NEW net, DOMAIN net = 0..N - 1, NEW R, NEW W
  PROVE  /\ Shares(net, R, W) \in [0..N - 1 -> Nat]
         /\ Wkc(net, R, W) = Sums(Shares(net, R, W))[N]
         /\ Wkc(net, R, W) \in Nat
<1>1. Shares(net, R, W) \in [0..N - 1 -> Nat]
  BY DEF Shares
<1>2. Cardinality(DOMAIN net) = N
  BY FS_Interval
<1>3. Wkc(net, R, W) = Sums(Shares(net, R, W))[N]
  BY <1>2, Zenon DEF Wkc
<1>4. Sums(Shares(net, R, W)) \in [0..N -> Nat]
  BY <1>1, SumsType, Zenon
<1>5. QED
  BY <1>1, <1>3, <1>4

\* The list a scan makes of the bus.
LEMMA ListedType ==
  ASSUME plant \in Networks
  PROVE  /\ Listed \in [Positions -> [in : Nat, out : Nat]]
         /\ DOMAIN Listed = Positions
         /\ Simulated => \A p \in Positions : /\ Listed[p].in = plant[p].in
                                              /\ Listed[p].out = plant[p].out
  BY BusType DEF Listed

\* On the simulated transport the master expects what all slaves together make.
LEMMA ExpectedOfAll ==
  ASSUME plant \in Networks, Simulated
  PROVE  ExpectedWkc(Listed) = Wkc(plant, Positions, Positions)
<1>1. DOMAIN Listed = Positions /\ DOMAIN plant = Positions
  BY ListedType DEF Positions
<1>2. Shares(Listed, Positions, Positions) = Shares(plant, Positions, Positions)
  BY <1>1, ListedType DEF Shares
<1>3. QED
  BY <1>1, <1>2, Zenon DEF ExpectedWkc, Wkc

\* Then only an exchange in which every slave with data took its part is counted as good.
LEMMA GoodMeansAll ==
  ASSUME plant \in Networks, NEW R \in SUBSET Positions, NEW W \in SUBSET Positions,
         Wkc(plant, R, W) = Wkc(plant, Positions, Positions)
  PROVE  \A p \in Positions : /\ plant[p].in > 0 => p \in R
                              /\ plant[p].out > 0 => p \in W
<1> DEFINE N == Cardinality(Positions)
           some == Shares(plant, R, W)
           all == Shares(plant, Positions, Positions)
<1>1. /\ N \in Nat /\ Positions = 0..N - 1 /\ DOMAIN plant = 0..N - 1
      /\ \A p \in Positions : plant[p].in \in Nat /\ plant[p].out \in Nat
  BY BusType DEF Positions
<1> HIDE DEF N
<1>2. /\ some \in [0..N - 1 -> Nat] /\ all \in [0..N - 1 -> Nat]
      /\ Sums(some)[N] = Sums(all)[N]
  <2>1. N \in Nat /\ DOMAIN plant = 0..N - 1
    BY <1>1
  <2>2. /\ Shares(plant, R, W) \in [0..N - 1 -> Nat]
        /\ Wkc(plant, R, W) = Sums(Shares(plant, R, W))[N]
    BY <2>1, WkcType
  <2>3. /\ Shares(plant, Positions, Positions) \in [0..N - 1 -> Nat]
        /\ Wkc(plant, Positions, Positions) = Sums(Shares(plant, Positions, Positions))[N]
    BY <2>1, WkcType
  <2>4. QED
    BY <2>2, <2>3
<1>3. \A p \in 0..N - 1 : some[p] <= all[p]
  BY <1>1 DEF Shares
<1>4. \A p \in 0..N - 1 : some[p] = all[p]
  <2> HIDE DEF some, all
  <2>1. QED
    BY <1>1, <1>2, <1>3, SumsTight
<1>5. QED
  BY <1>1, <1>4 DEF Shares

\* The reference clock is one of the clocks.
LEMMA ReferenceType ==
  ASSUME plant \in Networks
  PROVE  /\ Clocks \subseteq Positions
         /\ Clocks = {} => Reference = NoSlave
         /\ Clocks # {} => Reference \in Clocks /\ Reference = Least(Clocks)
         /\ NoSlave \notin Positions
<1>1. Clocks \subseteq Positions /\ Positions \subseteq Nat
  BY BusType DEF Clocks
<1>2. Clocks # {} => Least(Clocks) \in Clocks
  BY <1>1, LeastOne
<1>3. NoSlave \notin Positions
  BY <1>1 DEF NoSlave
<1>4. QED
  BY <1>1, <1>2, <1>3 DEF Reference

-----------------------------------------------------------------------------
(* Types, in four groups. *)

StaticTyped ==
  /\ plant \in Networks
  /\ config \in [transport : Transports, threshold : Thresholds, dcEnabled : BOOLEAN]

CallTyped ==
  /\ state \in AlStates \cup {"Offline", "Fault"}
  /\ call \in InitSteps \cup {"none", "shutdown"}
  /\ result \in {"ok", "err"}
  /\ wkcErrors \in 0..MaxErrors
  /\ faults \in 0..MaxFaults
  /\ {missed, stale} \subseteq 0..MaxErrors

FlagsTyped == up \in BOOLEAN /\ clean \in BOOLEAN

MasterTyped ==
  /\ slaves \in [DOMAIN slaves -> [in : Nat, out : Nat]]
  /\ DOMAIN slaves \in {{}, Positions}
  /\ slaves # <<>> => /\ DOMAIN image.inputs = 0..Size(slaves, "in") - 1
                      /\ DOMAIN image.outputs = 0..Size(slaves, "out") - 1
  /\ DOMAIN image = {"inputs", "outputs", "expected"}
  /\ image.inputs \in [DOMAIN image.inputs -> Values]
  /\ image.outputs \in [DOMAIN image.outputs -> Values]
  /\ image.expected \in Nat
  /\ dc \in [ref : Positions \cup {NoSlave}, members : SUBSET Positions, active : BOOLEAN]

BusTyped ==
  /\ al \in [Positions -> AlStates]
  /\ \A p \in Positions : device[p] \in [0..plant[p].out - 1 -> Values]
  /\ field \in [Positions -> Values]

\* The groups are the type invariant.
LEMMA Groups == TypeOK <=> StaticTyped /\ CallTyped /\ FlagsTyped /\ MasterTyped /\ BusTyped
<1>1. TypeOK => StaticTyped /\ CallTyped /\ FlagsTyped /\ MasterTyped /\ BusTyped
  <2>1. TypeOK => FlagsTyped
    BY Zenon DEF TypeOK, FlagsTyped
  <2>2. TypeOK => StaticTyped /\ CallTyped /\ MasterTyped /\ BusTyped
    BY DEF TypeOK, StaticTyped, CallTyped, MasterTyped, BusTyped
  <2>3. QED
    BY <2>1, <2>2
<1>2. StaticTyped /\ CallTyped /\ FlagsTyped /\ MasterTyped /\ BusTyped => TypeOK
  BY Zenon DEF TypeOK, StaticTyped, CallTyped, FlagsTyped, MasterTyped, BusTyped
<1>3. QED
  BY <1>1, <1>2

\* The bus and the configuration stay what they are, and so does all that is
\* computed from them.
LEMMA Static ==
  ASSUME Next
  PROVE  /\ UNCHANGED <<plant, config>>
         /\ Positions' = Positions /\ Simulated' = Simulated
         /\ Listed' = Listed /\ Clocks' = Clocks /\ Reference' = Reference
<1>1. UNCHANGED <<plant, config>>
  BY DEF Next, CallInit, Scan, Raise, ConfigureSlaves, ConfigureDc, EnterSafeOp, EnterOp,
     SetOutputs, Exchange, WkcMatches, WkcError, ExchangeFails, CallShutdown, Lower, Close
<1>2. Positions' = Positions /\ Simulated' = Simulated
  BY <1>1 DEF Positions, Simulated
<1>3. Listed' = Listed /\ Clocks' = Clocks
  BY <1>1, <1>2 DEF Listed, Clocks
<1>4. Reference' = Reference
  BY <1>3 DEF Reference
<1>5. QED
  BY <1>1, <1>2, <1>3, <1>4

\* Calls, their results and the counters.
LEMMA CallStaysTyped == ASSUME IInv, Next PROVE CallTyped'
<1> USE BoundsAssumption DEF CallTyped, AlStates, InitSteps, Next1, Return
<1>1. CallTyped
  BY Groups DEF IInv
<1>2. Fault => faults' \in 0..MaxFaults
  BY <1>1 DEF Fault
<1>3. TransportFails => faults' \in 0..MaxFaults
  BY <1>1, <1>2 DEF TransportFails
<1>4. \A t : SetState(t) \/ SetStateFails(t) => faults' \in 0..MaxFaults
  BY <1>1, <1>2, <1>3 DEF SetState, SetStateFails
<1>5. CASE CallInit \/ Scan \/ ConfigureDc
  BY <1>1, <1>2, <1>3, <1>5 DEF CallInit, Scan, ConfigureDc, master, bus, history
<1>6. CASE ConfigureSlaves \/ EnterSafeOp \/ EnterOp
  BY <1>1, <1>4, <1>6 DEF ConfigureSlaves, EnterSafeOp, EnterOp, Raise
<1>7. CASE CallShutdown \/ Lower \/ Close
  BY <1>1, <1>4, <1>7 DEF CallShutdown, Lower, Below, Close, master, bus, history
<1>8. ASSUME NEW v \in Values, SetOutputs(v) PROVE CallTyped'
  BY <1>1, <1>8 DEF SetOutputs, bus, history
<1>9. CASE Exchange
  <2>1. \A R, W : Transfer(R, W) => faults' \in 0..MaxFaults /\ missed' \in 0..MaxErrors
    BY <1>1, <1>2 DEF Transfer, Min
  <2>2. ASSUME NEW R, NEW W, WkcMatches(R, W) \/ WkcError(R, W) PROVE CallTyped'
    BY <1>1, <2>1, <2>2 DEF WkcMatches, WkcError, Min
  <2>3. CASE ExchangeFails
    BY <1>1, <1>3, <2>3 DEF ExchangeFails, master, bus
  <2>4. QED
    BY <1>9, <2>2, <2>3 DEF Exchange
<1>10. QED
  BY <1>5, <1>6, <1>7, <1>8, <1>9 DEF Next

\* The two flags.
LEMMA FlagsStayTyped == ASSUME IInv, Next PROVE FlagsTyped'
<1>1. FlagsTyped
  BY Groups DEF IInv
<1>2. clean' \in {clean, TRUE, FALSE}
  BY DEF Next, CallInit, Scan, Raise, SetState, SetStateFails, TransportFails, Fault,
     ConfigureSlaves, ConfigureDc, EnterSafeOp, EnterOp, SetOutputs, Exchange, WkcMatches,
     WkcError, Transfer, ExchangeFails, CallShutdown, Lower, Close, history
<1>3. up' \in {up, TRUE, FALSE}
  BY DEF Next, CallInit, Scan, Raise, ConfigureSlaves, ConfigureDc, EnterSafeOp, EnterOp,
     SetOutputs, Exchange, WkcMatches, WkcError, ExchangeFails, CallShutdown, Lower, Close,
     master
<1>4. QED
  BY <1>1, <1>2, <1>3, Zenon DEF FlagsTyped

\* The slaves, their layout, the image and the clocks a scan finds.
LEMMA ScanTyped == ASSUME IInv, Scan PROVE MasterTyped'
<1>1. MasterTyped /\ plant \in Networks /\ StaticTyped
  BY Groups DEF IInv, StaticTyped
<1>2. UNCHANGED <<plant, config>> /\ Positions' = Positions
  BY Static DEF Next, Scan
<1>3. CASE slaves' = Listed /\ image' = NewImage(Listed)
           /\ dc' = [ref |-> Reference, members |-> Clocks, active |-> FALSE]
  <2> DEFINE N == Cardinality(Positions)
  <2>1. /\ N \in Nat /\ DOMAIN Listed = 0..N - 1 /\ DOMAIN Listed = Positions
        /\ \A p \in 0..N - 1 : Listed[p]["in"] \in Nat /\ Listed[p]["out"] \in Nat
    BY <1>1, BusType, ListedType
  <2> HIDE DEF N
  <2>2. Size(Listed, "in") \in Nat /\ Size(Listed, "out") \in Nat
    BY <2>1, Layout
  <2>3. ExpectedWkc(Listed) \in Nat
    BY <2>1, WkcType, Zenon DEF ExpectedWkc
  <2>4. /\ image'.inputs = [b \in 0..Size(Listed, "in") - 1 |-> Zero]
        /\ image'.outputs = [b \in 0..Size(Listed, "out") - 1 |-> Zero]
        /\ image'.expected \in Nat
    BY <1>3, <2>3 DEF NewImage
  <2>5. dc' \in [ref : Positions \cup {NoSlave}, members : SUBSET Positions, active : BOOLEAN]
    BY <1>1, <1>3, ReferenceType
  <2>6. slaves' \in [Positions -> [in : Nat, out : Nat]]
    BY <1>1, <1>3, ListedType
  <2>7. /\ image'.inputs \in [DOMAIN image'.inputs -> Values]
        /\ image'.outputs \in [DOMAIN image'.outputs -> Values]
        /\ DOMAIN image' = {"inputs", "outputs", "expected"}
    BY <1>3, <2>4, ValuesAssumption DEF NewImage
  <2>8. DOMAIN slaves' = Positions
    BY <2>6
  <2>9. QED
    BY <1>2, <1>3, <2>4, <2>5, <2>6, <2>7, <2>8 DEF MasterTyped
<1>4. CASE slaves' = <<>> /\ dc' = NoDc /\ UNCHANGED image
  <2>1. dc' \in [ref : Positions \cup {NoSlave}, members : SUBSET Positions, active : BOOLEAN]
    BY <1>4 DEF NoDc
  <2>2. QED
    BY <1>1, <1>2, <1>4, <2>1 DEF MasterTyped
<1>5. QED
  BY <1>3, <1>4 DEF Scan

\* An exchange keeps the shape of the image.
LEMMA TransferTyped ==
  ASSUME IInv, NEW R \in SUBSET Positions, NEW W \in SUBSET Positions, Transfer(R, W)
  PROVE  /\ DOMAIN image' = DOMAIN image
         /\ image'.outputs = image.outputs /\ image'.expected = image.expected
         /\ DOMAIN image'.inputs = DOMAIN image.inputs
         /\ image'.inputs \in [DOMAIN image.inputs -> Values]
<1>1. MasterTyped /\ plant \in Networks
  BY Groups DEF IInv, StaticTyped
<1> DEFINE owner(b) == {p \in R : /\ Offset(slaves, "in")[p] <= b
                                  /\ b < Offset(slaves, "in")[p] + slaves[p].in}
           new == [b \in DOMAIN image.inputs |-> IF owner(b) = {} THEN image.inputs[b]
                                                 ELSE field'[Least(owner(b))]]
<1>2. image' = [image EXCEPT !.inputs = new] /\ field' \in [Positions -> Values]
  BY DEF Transfer
<1>3. ASSUME NEW b \in DOMAIN image.inputs PROVE new[b] \in Values
  <2>1. owner(b) # {} => Least(owner(b)) \in Positions
    <3>1. owner(b) \subseteq Positions /\ Positions \subseteq Nat
      BY <1>1, BusType
    <3>2. QED
      BY <3>1, LeastOne
  <2>2. image.inputs[b] \in Values
    BY <1>1 DEF MasterTyped
  <2> HIDE DEF owner
  <2>3. QED
    BY <1>2, <2>1, <2>2
<1>4. QED
  <2>1. image.inputs \in [DOMAIN image.inputs -> Values]
    BY <1>1 DEF MasterTyped
  <2> HIDE DEF new
  <2>2. DOMAIN new = DOMAIN image.inputs /\ new \in [DOMAIN image.inputs -> Values]
    BY <1>3 DEF new
  <2>3. DOMAIN image = {"inputs", "outputs", "expected"}
    BY <1>1 DEF MasterTyped
  <2>4. QED
    BY <1>2, <2>2, <2>3

\* set_outputs() keeps the shape of the image and puts values in it.
LEMMA OutputsTyped ==
  ASSUME IInv, NEW v \in Values, SetOutputs(v)
  PROVE  /\ DOMAIN image' = DOMAIN image
         /\ image'.inputs = image.inputs /\ image'.expected = image.expected
         /\ DOMAIN image'.outputs = DOMAIN image.outputs
         /\ image'.outputs \in [DOMAIN image.outputs -> Values]
<1>1. MasterTyped
  BY Groups DEF IInv
<1> DEFINE reached == Reached(Cardinality(DOMAIN image.outputs))
           new == [b \in DOMAIN image.outputs |-> IF b \in reached THEN v ELSE image.outputs[b]]
<1>2. image' = [image EXCEPT !.outputs = new]
  BY DEF SetOutputs
<1>3. DOMAIN new = DOMAIN image.outputs /\ new \in [DOMAIN image.outputs -> Values]
  <2> HIDE DEF reached
  <2>1. \A b \in DOMAIN image.outputs : image.outputs[b] \in Values
    BY <1>1 DEF MasterTyped
  <2>2. QED
    BY <2>1
<1> HIDE DEF new
<1>4. QED
  BY <1>1, <1>2, <1>3 DEF MasterTyped

\* Steps other than a scan keep the slaves; the image keeps its shape.
LEMMA ShapeKept ==
  ASSUME IInv, Next, ~Scan
  PROVE  /\ slaves' = slaves
         /\ DOMAIN image' = DOMAIN image /\ image'.expected = image.expected
         /\ DOMAIN image'.inputs = DOMAIN image.inputs
         /\ DOMAIN image'.outputs = DOMAIN image.outputs
         /\ image'.inputs \in [DOMAIN image.inputs -> Values]
         /\ image'.outputs \in [DOMAIN image.outputs -> Values]
         /\ dc' \in {dc, [dc EXCEPT !.active = TRUE]}
<1>1. MasterTyped
  BY Groups DEF IInv
<1>2. CASE UNCHANGED <<slaves, image>> /\ dc' \in {dc, [dc EXCEPT !.active = TRUE]}
  BY <1>1, <1>2 DEF MasterTyped
<1>3. ASSUME NEW v \in Values, SetOutputs(v)
      PROVE  /\ slaves' = slaves /\ dc' = dc
             /\ DOMAIN image' = DOMAIN image /\ image'.expected = image.expected
             /\ DOMAIN image'.inputs = DOMAIN image.inputs
             /\ DOMAIN image'.outputs = DOMAIN image.outputs
             /\ image'.inputs \in [DOMAIN image.inputs -> Values]
             /\ image'.outputs \in [DOMAIN image.outputs -> Values]
  <2>1. slaves' = slaves /\ dc' = dc
    BY <1>3 DEF SetOutputs
  <2>2. QED
    BY <1>1, <1>3, <2>1, OutputsTyped DEF MasterTyped
<1>4. ASSUME NEW R \in SUBSET Positions, NEW W \in SUBSET Positions,
             WkcMatches(R, W) \/ WkcError(R, W)
      PROVE  /\ slaves' = slaves /\ dc' = dc
             /\ DOMAIN image' = DOMAIN image /\ image'.expected = image.expected
             /\ DOMAIN image'.inputs = DOMAIN image.inputs
             /\ DOMAIN image'.outputs = DOMAIN image.outputs
             /\ image'.inputs \in [DOMAIN image.inputs -> Values]
             /\ image'.outputs \in [DOMAIN image.outputs -> Values]
  <2>1. slaves' = slaves /\ dc' = dc /\ Transfer(R, W)
    BY <1>4 DEF WkcMatches, WkcError
  <2>2. QED
    BY <1>1, <2>1, TransferTyped DEF MasterTyped
<1>5. CASE Exchange
  <2>1. Present \subseteq Positions
    BY DEF Present
  <2>2. CASE ExchangeFails
    BY <1>2, <2>2 DEF ExchangeFails, master
  <2>3. QED
    BY <1>4, <1>5, <2>1, <2>2 DEF Exchange
<1>6. CASE CallInit \/ CallShutdown
  BY <1>2, <1>6 DEF CallInit, CallShutdown, master
<1>7. CASE ConfigureSlaves \/ EnterSafeOp \/ EnterOp \/ Lower \/ Close
  BY <1>2, <1>7 DEF ConfigureSlaves, EnterSafeOp, EnterOp, Raise, Lower, Close
<1>8. CASE ConfigureDc
  BY <1>2, <1>8 DEF ConfigureDc
<1>9. QED
  BY <1>3, <1>5, <1>6, <1>7, <1>8 DEF Next

\* So the master keeps its types.
LEMMA MasterStaysTyped == ASSUME IInv, Next PROVE MasterTyped'
<1>1. CASE Scan
  BY <1>1, ScanTyped
<1>2. CASE ~Scan
  <2>1. MasterTyped /\ Positions' = Positions
    BY Groups, Static DEF IInv
  <2>2. dc' \in [ref : Positions \cup {NoSlave}, members : SUBSET Positions, active : BOOLEAN]
    BY <1>2, <2>1, ShapeKept DEF MasterTyped
  <2>3. QED
    BY <1>2, <2>1, <2>2, ShapeKept DEF MasterTyped
<1>3. QED
  BY <1>1, <1>2

\* A byte of a slave's data lies inside the image.
LEMMA Inside ==
  ASSUME NEW N \in Nat, NEW net, DOMAIN net = 0..N - 1, NEW dir,
         \A p \in 0..N - 1 : net[p][dir] \in Nat,
         NEW p \in 0..N - 1, NEW b \in 0..net[p][dir] - 1
  PROVE  Offset(net, dir)[p] + b \in 0..Size(net, dir) - 1
<1>1. /\ Offset(net, dir) \in [0..N -> Nat] /\ Size(net, dir) = Offset(net, dir)[N]
      /\ \A q \in 0..N - 1 : \A r \in q + 1..N :
              Offset(net, dir)[q] + net[q][dir] <= Offset(net, dir)[r]
  BY Layout
<1>2. p \in 0..N /\ N \in p + 1..N /\ N \in 0..N
  OBVIOUS
<1>3. Offset(net, dir)[p] \in Nat /\ Offset(net, dir)[N] \in Nat
  BY <1>1, <1>2
<1>4. Offset(net, dir)[p] + net[p][dir] <= Offset(net, dir)[N]
  BY <1>1, <1>2
<1>5. net[p][dir] \in Nat
  OBVIOUS
<1>6. QED
  BY <1>1, <1>3, <1>4, <1>5

\* What an exchange gives the slaves are bytes of the image.
LEMMA DeviceTyped ==
  ASSUME IInv, Scanned, NEW R \in SUBSET Positions, NEW W \in SUBSET Positions, Transfer(R, W)
  PROVE  \A p \in Positions : device'[p] \in [0..plant[p].out - 1 -> Values]
<1> SUFFICES ASSUME NEW p \in Positions PROVE device'[p] \in [0..plant[p].out - 1 -> Values]
  OBVIOUS
<1>1. plant \in Networks /\ MasterTyped /\ device[p] \in [0..plant[p].out - 1 -> Values]
  BY Groups DEF IInv, StaticTyped, BusTyped
<1>2. CASE p \in W /\ al[p] = "Op" /\ slaves[p].out = plant[p].out
  <2> DEFINE N == Cardinality(Positions)
  <2>1. /\ N \in Nat /\ DOMAIN slaves = 0..N - 1 /\ p \in 0..N - 1
        /\ \A q \in 0..N - 1 : slaves[q]["out"] \in Nat
    BY <1>1, BusType, ListedType DEF Scanned
  <2>2. image.outputs \in [0..Size(slaves, "out") - 1 -> Values]
    BY <1>1 DEF MasterTyped, Scanned
  <2>3. device'[p] = [b \in DOMAIN device[p] |-> image.outputs[Offset(slaves, "out")[p] + b]]
    BY <1>2 DEF Transfer
  <2> HIDE DEF N
  <2>4. ASSUME NEW b \in 0..plant[p].out - 1
        PROVE  image.outputs[Offset(slaves, "out")[p] + b] \in Values
    <3>1. b \in 0..slaves[p]["out"] - 1
      BY <1>2
    <3>2. Offset(slaves, "out")[p] + b \in 0..Size(slaves, "out") - 1
      BY <2>1, <3>1, Inside
    <3>3. QED
      BY <2>2, <3>2
  <2>5. QED
    BY <1>1, <2>3, <2>4
<1>3. CASE ~(p \in W /\ al[p] = "Op" /\ slaves[p].out = plant[p].out)
  BY <1>1, <1>3 DEF Transfer
<1>4. QED
  BY <1>2, <1>3

\* The slaves, too, keep their types.
LEMMA BusStaysTyped == ASSUME IInv, Next PROVE BusTyped'
<1>1. BusTyped /\ Positions' = Positions /\ plant' = plant
  BY Groups, Static DEF IInv
<1>2. ASSUME NEW t \in AlStates, SetState(t) \/ SetStateFails(t)
      PROVE  al' \in [Positions -> AlStates]
  BY <1>1, <1>2 DEF SetState, SetStateFails, Partly, BusTyped
<1>3. CASE UNCHANGED <<device, field>> /\ al' \in [Positions -> AlStates]
  BY <1>1, <1>3 DEF BusTyped
<1>4. CASE UNCHANGED bus
  BY <1>1, <1>4 DEF BusTyped, bus
<1>5. CASE CallInit \/ Scan \/ ConfigureDc \/ CallShutdown \/ ExchangeFails
           \/ \E v \in Values : SetOutputs(v)
  BY <1>4, <1>5
  DEF CallInit, Scan, ConfigureDc, CallShutdown, ExchangeFails, SetOutputs
<1>6. CASE ConfigureSlaves \/ EnterSafeOp \/ EnterOp
  BY <1>1, <1>2, <1>3, <1>6
  DEF ConfigureSlaves, EnterSafeOp, EnterOp, Raise, AlStates, BusTyped
<1>7. CASE Lower \/ Close
  BY <1>1, <1>2, <1>3, <1>7 DEF Lower, Below, Close, AlStates, BusTyped
<1>8. ASSUME NEW R \in SUBSET Positions, NEW W \in SUBSET Positions,
             WkcMatches(R, W) \/ WkcError(R, W)
      PROVE  BusTyped'
  <2>1. Exchanging /\ Transfer(R, W) /\ al' = al
    BY <1>8 DEF WkcMatches, WkcError
  <2>2. Scanned
    BY <2>1 DEF IInv, ScannedFirst, Exchanging
  <2>3. field' \in [Positions -> Values]
    BY <2>1 DEF Transfer
  <2>4. \A p \in Positions : device'[p] \in [0..plant[p].out - 1 -> Values]
    BY <2>1, <2>2, DeviceTyped
  <2>5. QED
    BY <1>1, <2>1, <2>3, <2>4 DEF BusTyped
<1>9. CASE Exchange
  <2>1. Present \subseteq Positions
    BY DEF Present
  <2>2. QED
    BY <1>5, <1>8, <1>9, <2>1 DEF Exchange
<1>10. QED
  BY <1>5, <1>6, <1>7, <1>9 DEF Next

\* Types are kept.
LEMMA TypesKept == ASSUME IInv, Next PROVE TypeOK'
<1>1. StaticTyped'
  BY Groups, Static DEF IInv, StaticTyped
<1>2. (StaticTyped /\ CallTyped /\ FlagsTyped /\ MasterTyped /\ BusTyped)' <=> TypeOK'
  BY Groups, PTL
<1>3. QED
  BY <1>1, <1>2, CallStaysTyped, FlagsStayTyped, MasterStaysTyped, BusStaysTyped

-----------------------------------------------------------------------------
(* The other parts of the invariant. *)

\* A step that changes neither the state nor the call, as most do.
LEMMA StateOrCall ==
  ASSUME Next
  PROVE  \/ UNCHANGED <<state, call>>
         \/ CallInit \/ Scan \/ ConfigureSlaves \/ ConfigureDc \/ EnterSafeOp \/ EnterOp
         \/ CallShutdown \/ Lower \/ Close
         \/ Exchanging /\ state' = "Fault" /\ call' = "none"
<1>1. ASSUME NEW v \in Values, SetOutputs(v) PROVE UNCHANGED <<state, call>>
  BY <1>1 DEF SetOutputs
<1>2. CASE Exchange
  BY <1>2 DEF Exchange, WkcMatches, WkcError, ExchangeFails, master
<1>3. QED
  BY <1>1, <1>2 DEF Next

\* The bus is configured, and runs, on what the last scan has found.
LEMMA ScannedFirstKept == ASSUME IInv, Next PROVE ScannedFirst'
<1>1. CASE Scan
  <2>1. /\ slaves' = Listed /\ image' = NewImage(Listed)
        /\ dc' = [ref |-> Reference, members |-> Clocks, active |-> FALSE]
        \/ call' = "none"
    BY <1>1 DEF Scan, Return
  <2>2. state' = "Init"
    BY <1>1 DEF Scan
  <2>3. CASE /\ slaves' = Listed /\ image' = NewImage(Listed)
             /\ dc' = [ref |-> Reference, members |-> Clocks, active |-> FALSE]
    <3>1. Listed' = Listed /\ Reference' = Reference
      BY Static
    <3>2. QED
      BY <2>3, <3>1 DEF ScannedFirst, Scanned, NewImage
  <2>4. CASE call' = "none"
    BY <2>2, <2>4 DEF ScannedFirst, InitSteps
  <2>5. QED
    BY <2>1, <2>3, <2>4
<1>2. CASE ~Scan
  <2>1. Scanned => Scanned'
    <3>1. Listed' = Listed /\ Reference' = Reference
      BY Static
    <3>2. DOMAIN dc = {"ref", "members", "active"}
      BY Groups DEF IInv, MasterTyped
    <3>3. dc'.ref = dc.ref
      BY <1>2, <3>2, ShapeKept
    <3>4. QED
      BY <1>2, <3>1, <3>3, ShapeKept DEF Scanned
  <2>2. call' \in InitSteps \ {"scan"} \/ state' \in {"PreOp", "SafeOp", "Op"} =>
          call \in InitSteps \ {"scan"} \/ state \in {"PreOp", "SafeOp", "Op"}
    BY <1>2, StateOrCall
    DEF CallInit, ConfigureSlaves, ConfigureDc, EnterSafeOp, EnterOp, Raise, CallShutdown,
        Lower, Below, Close, Next1, Return, InitSteps, master
  <2>3. QED
    BY <2>1, <2>2 DEF IInv, ScannedFirst
<1>3. QED
  BY <1>1, <1>2

\* init() goes from state to state.
LEMMA StepsInOrderKept == ASSUME IInv, Next PROVE StepsInOrder'
  BY StateOrCall
  DEF IInv, StepsInOrder, CallInit, Scan, ConfigureSlaves, ConfigureDc, EnterSafeOp, EnterOp,
      Raise, CallShutdown, Lower, Below, Close, Next1, Return, Exchanging, master

\* The master's state is raised and lowered together with the slaves'.
LEMMA InStepKept == ASSUME IInv, Next PROVE InStepWithSlaves'
<1> SUFFICES ASSUME Simulated PROVE InStepWithSlaves'
  BY Static DEF InStepWithSlaves
<1>1. Positions' = Positions /\ InStepWithSlaves
  BY Static DEF IInv
<1>2. CASE UNCHANGED <<state, al>>
  BY <1>1, <1>2 DEF InStepWithSlaves
<1>3. ASSUME NEW t, SetState(t), state' = t PROVE InStepWithSlaves'
  <2>1. al' = [p \in Positions |-> t]
    BY <1>3 DEF SetState
  <2>2. QED
    BY <1>1, <1>3, <2>1 DEF InStepWithSlaves
<1>4. ASSUME NEW t, SetStateFails(t), state' = state PROVE InStepWithSlaves'
  BY <1>2, <1>4 DEF SetStateFails
<1>5. CASE ConfigureSlaves \/ EnterSafeOp \/ EnterOp
  BY <1>2, <1>3, <1>4, <1>5 DEF ConfigureSlaves, EnterSafeOp, EnterOp, Raise
<1>6. CASE Lower
  BY <1>3, <1>4, <1>6 DEF Lower
<1>7. CASE Scan \/ Close
  BY <1>7 DEF Scan, Close, InStepWithSlaves
<1>8. CASE CallInit \/ ConfigureDc \/ CallShutdown \/ \E v \in Values : SetOutputs(v)
  BY <1>2, <1>8 DEF CallInit, ConfigureDc, CallShutdown, SetOutputs, master, bus
<1>9. CASE Exchange
  <2>1. UNCHANGED <<state, al>> \/ state' = "Fault"
    BY <1>9 DEF Exchange, WkcMatches, WkcError, ExchangeFails, master, bus
  <2>2. QED
    BY <1>2, <2>1 DEF InStepWithSlaves
<1>10. QED
  BY <1>5, <1>6, <1>7, <1>8, <1>9 DEF Next

\* The clocks run from configure_dc() until the next scan.
LEMMA ClockRunsKept == ASSUME IInv, Next PROVE ClockRuns'
<1>1. CASE Scan
  BY <1>1 DEF Scan, Next1, Return, ClockRuns, Exchanging
<1>2. CASE ConfigureDc
  <2>1. DOMAIN dc = {"ref", "members", "active"} /\ ClockRuns
    BY Groups DEF IInv, MasterTyped
  <2>2. state = "PreOp" /\ state' = state
    BY <1>2 DEF ConfigureDc, IInv, StepsInOrder
  <2>3. CASE call' = "none"
    BY <2>2, <2>3 DEF ClockRuns, Exchanging
  <2>4. CASE dc.ref = NoSlave /\ UNCHANGED dc
    BY <2>4 DEF ClockRuns
  <2>5. CASE dc' = [dc EXCEPT !.active = TRUE]
    BY <2>1, <2>5 DEF ClockRuns
  <2>6. QED
    BY <1>2, <2>3, <2>4, <2>5 DEF ConfigureDc, Return
<1>3. CASE ~Scan /\ ~ConfigureDc
  <2>1. dc' = dc
    <3>1. \A v \in Values : SetOutputs(v) => dc' = dc
      BY DEF SetOutputs
    <3>2. Exchange => dc' = dc
      BY DEF Exchange, WkcMatches, WkcError, ExchangeFails, master
    <3>3. QED
      BY <1>3, <3>1, <3>2
      DEF Next, CallInit, ConfigureSlaves, EnterSafeOp, EnterOp, Raise, CallShutdown, Lower,
          Close, master
  <2>2. call' \in {"safe_op", "op"} \/ Exchanging' =>
          call \in {"safe_op", "op"} \/ Exchanging
    <3> USE DEF Exchanging, Next1, Return
    <3>1. CASE ConfigureSlaves \/ EnterSafeOp \/ EnterOp
      BY <3>1 DEF ConfigureSlaves, EnterSafeOp, EnterOp, Raise
    <3>2. CASE CallInit \/ CallShutdown \/ Lower \/ Close
      BY <3>2 DEF CallInit, CallShutdown, Lower, Below, Close, master
    <3>3. QED
      BY <1>3, <3>1, <3>2, StateOrCall
  <2>3. QED
    BY <2>1, <2>2 DEF IInv, ClockRuns
<1>4. QED
  BY <1>1, <1>2, <1>3

\* The counter of errors and the two histories move together.
LEMMA MissesKept == ASSUME IInv, Next PROVE MissesCovered' /\ MissesAreCounted'
<1> USE DEF MissesCovered, MissesAreCounted, FaultIsEarned, StaleIsBounded
<1>1. /\ Simulated' = Simulated /\ config' = config
      /\ MissesCovered /\ MissesAreCounted
  BY Static DEF IInv
<1>2. /\ wkcErrors \in 0..MaxErrors /\ missed \in 0..MaxErrors /\ stale \in 0..MaxErrors
      /\ config.threshold \in Nat /\ MaxErrors \in Nat /\ plant \in Networks
  BY Groups, BoundsAssumption DEF IInv, CallTyped, StaticTyped
<1>3. CASE UNCHANGED <<wkcErrors, missed, stale>> /\ (state' = "Fault" => state = "Fault")
  BY <1>1, <1>3
<1>4. ASSUME NEW R \in SUBSET Positions, NEW W \in SUBSET Positions, WkcMatches(R, W)
      PROVE  MissesCovered' /\ MissesAreCounted'
  <2>1. wkcErrors' = 0 /\ stale' = 0 /\ state' = state /\ Exchanging
    BY <1>4 DEF WkcMatches
  <2>2. missed' \in Nat
    BY <1>2, <1>4 DEF WkcMatches, Transfer, Min
  <2>3. QED
    BY <1>1, <1>2, <2>1, <2>2 DEF Exchanging
<1>5. ASSUME NEW R \in SUBSET Positions, NEW W \in SUBSET Positions, WkcError(R, W)
      PROVE  MissesCovered' /\ MissesAreCounted'
  <2>1. /\ wkcErrors < MaxErrors /\ wkcErrors' = wkcErrors + 1 /\ Exchanging
        /\ Wkc(plant, R, W) # image.expected
        /\ missed' = IF R = Positions /\ W = Positions THEN 0 ELSE Min(missed + 1, MaxErrors)
    BY <1>5 DEF WkcError, Transfer
  <2>2. IF config.threshold > 0 /\ wkcErrors' >= config.threshold
        THEN state' = "Fault" /\ UNCHANGED stale
        ELSE stale' = Min(stale + 1, MaxErrors) /\ UNCHANGED state
    BY <1>5 DEF WkcError
  <2>3. Simulated => image.expected = Wkc(plant, Positions, Positions)
    BY <1>2, <2>1, ExpectedOfAll DEF IInv, ScannedFirst, Scanned, Exchanging
  <2>4. Simulated => missed' = Min(missed + 1, MaxErrors)
    BY <2>1, <2>3
  <2>5. stale' <= wkcErrors' /\ (Simulated => wkcErrors' <= missed')
    BY <1>1, <1>2, <2>1, <2>2, <2>4 DEF Min
  <2>6. state # "Fault"
    BY <2>1 DEF Exchanging
  <2>7. QED
    BY <1>1, <1>2, <2>1, <2>2, <2>5, <2>6 DEF Min
<1>6. CASE Exchange
  <2>1. Present \subseteq Positions
    BY DEF Present
  <2>2. CASE ExchangeFails
    BY <1>3, <2>2 DEF ExchangeFails, master
  <2>3. QED
    BY <1>4, <1>5, <1>6, <2>1, <2>2 DEF Exchange
<1>7. CASE CallInit \/ Scan \/ ConfigureDc \/ CallShutdown \/ \E v \in Values : SetOutputs(v)
  BY <1>3, <1>7 DEF CallInit, Scan, ConfigureDc, CallShutdown, SetOutputs, master, history
<1>8. CASE ConfigureSlaves \/ EnterSafeOp \/ EnterOp \/ Lower \/ Close
  BY <1>3, <1>8 DEF ConfigureSlaves, EnterSafeOp, EnterOp, Raise, Lower, Below, Close
<1>9. QED
  BY <1>6, <1>7, <1>8 DEF Next

-----------------------------------------------------------------------------
(* The theorems. *)

\* A master that was just built.
LEMMA InitIInv == Init => IInv
<1> SUFFICES ASSUME Init PROVE IInv
  OBVIOUS
<1>1. StaticTyped /\ CallTyped
  BY BoundsAssumption DEF Init, StaticTyped, CallTyped, AlStates
<1>2. FlagsTyped
  BY Zenon DEF Init, FlagsTyped, Simulated
<1>3. MasterTyped
  <2> DEFINE none == <<>>
  <2>1. DOMAIN none = 0..0 - 1 /\ \A p \in 0..0 - 1 : none[p]["in"] \in Nat /\ none[p]["out"] \in Nat
    OBVIOUS
  <2> HIDE DEF none
  <2>2. Size(none, "in") \in Nat /\ Size(none, "out") \in Nat /\ ExpectedWkc(none) \in Nat
    <3>1. Size(none, "in") \in Nat /\ Size(none, "out") \in Nat
      BY <2>1, Layout
    <3>2. \A R, W : Wkc(none, R, W) \in Nat
      BY <2>1, WkcType
    <3>3. QED
      BY <3>1, <3>2 DEF ExpectedWkc
  <2>3. /\ image.inputs = [b \in 0..Size(none, "in") - 1 |-> Zero]
        /\ image.outputs = [b \in 0..Size(none, "out") - 1 |-> Zero]
        /\ image.expected \in Nat
        /\ DOMAIN image = {"inputs", "outputs", "expected"}
    BY <2>2 DEF Init, NewImage, none
  <2>4. dc \in [ref : Positions \cup {NoSlave}, members : SUBSET Positions, active : BOOLEAN]
    BY DEF Init, NoDc
  <2>5. slaves = <<>>
    BY DEF Init
  <2>6. QED
    BY <2>3, <2>4, <2>5, ValuesAssumption DEF MasterTyped
<1>4. BusTyped
  BY ValuesAssumption DEF Init, BusTyped, AlStates, Positions
<1>5. ScannedFirst /\ StepsInOrder /\ InStepWithSlaves /\ ClockRuns
  BY DEF Init, ScannedFirst, StepsInOrder, InStepWithSlaves, ClockRuns, Exchanging, InitSteps
<1>6. MissesCovered /\ MissesAreCounted
  BY <1>1, BoundsAssumption
  DEF Init, MissesCovered, MissesAreCounted, FaultIsEarned, StaleIsBounded, StaticTyped
<1>7. QED
  BY <1>1, <1>2, <1>3, <1>4, <1>5, <1>6, Groups DEF IInv

\* Every step keeps the invariant.
LEMMA NextIInv == IInv /\ [Next]_vars => IInv'
<1>1. IInv /\ Next => IInv'
  BY TypesKept, ScannedFirstKept, StepsInOrderKept, InStepKept, ClockRunsKept, MissesKept
  DEF IInv
<1>2. IInv /\ UNCHANGED vars => IInv'
  <2> SUFFICES ASSUME IInv, UNCHANGED vars PROVE IInv'
    OBVIOUS
  <2>1. TypeOK' /\ Scanned' = Scanned
    BY DEF vars, master, bus, history, IInv, TypeOK, Scanned, Positions, Listed, Simulated,
       Reference, Clocks
  <2>2. QED
    BY <2>1
    DEF vars, master, bus, history, IInv, ScannedFirst, StepsInOrder, InStepWithSlaves,
        ClockRuns, MissesCovered, MissesAreCounted, FaultIsEarned, StaleIsBounded, Positions,
        Simulated, Exchanging
<1>3. QED
  BY <1>1, <1>2

\* For every network, threshold and number of faults, the invariant of the master.
THEOREM Inductive == Spec => []IInv
  BY InitIInv, NextIInv, PTL DEF Spec

\* The state of the EtherCAT master tells where its slaves are and that their clocks
\* run, whatever init(), exchange() and shutdown() have failed at before.
THEOREM HonestState == Spec => []StateIsHonest
<1>1. IInv => OpHasClock
  <2> SUFFICES ASSUME IInv, Exchanging, config.dcEnabled, \E p \in Positions : plant[p].dc
              PROVE  dc.active /\ dc.ref = Least({p \in Positions : plant[p].dc})
    BY DEF OpHasClock
  <2>1. Clocks = {p \in Positions : plant[p].dc}
    BY DEF Clocks
  <2>2. dc.ref = Reference
    BY DEF IInv, ScannedFirst, Scanned, Exchanging
  <2>3. plant \in Networks
    BY DEF IInv, TypeOK
  <2>4. Clocks # {}
    BY <2>1
  <2>5. Reference \in Clocks /\ Reference = Least(Clocks)
    BY <2>3, <2>4, ReferenceType
  <2>6. dc.ref # NoSlave
    BY <2>2, <2>3, <2>5, ReferenceType
  <2>7. QED
    BY <2>1, <2>2, <2>5, <2>6 DEF IInv, ClockRuns
<1>2. IInv => StateIsHonest
  BY <1>1 DEF IInv, StateIsHonest
<1>3. QED
  BY <1>2, Inductive, PTL

\* exchange() faults after as many incomplete exchanges in a row as configured, and
\* returns Ok on old inputs fewer times than that.
THEOREM CountedMisses == Spec => []MissesAreCounted
<1>1. IInv => MissesAreCounted
  BY DEF IInv
<1>2. QED
  BY <1>1, Inductive, PTL

\* An init() that fails was disturbed, or the simulated transport had been closed.
THEOREM Heals == Spec => InitHeals
<1>1. IInv /\ [Next]_vars =>
        [call' = "none" /\ call \in InitSteps /\ result' = "err"
           => ~clean' \/ (Simulated /\ ~up)]_vars
  <2> SUFFICES ASSUME IInv, Next, call' = "none", call \in InitSteps, result' = "err", clean'
              PROVE  Simulated /\ ~up
    BY DEF vars
  <2>1. \/ Scan \/ ConfigureDc \/ ConfigureSlaves \/ EnterSafeOp \/ EnterOp
    BY DEF Next, CallInit, SetOutputs, Exchange, WkcMatches, WkcError, ExchangeFails,
       CallShutdown, Lower, Close, InitSteps
  <2>2. ~Fault
    BY DEF Fault
  <2>3. ASSUME NEW t, SetStateFails(t) PROVE Simulated /\ ~up
    BY <2>2, <2>3 DEF SetStateFails, TransportFails
  <2>4. CASE Scan
    BY <2>2, <2>4 DEF Scan, TransportFails, Next1
  <2>5. CASE ConfigureDc
    BY <2>2, <2>5 DEF ConfigureDc, Next1
  <2>6. CASE ConfigureSlaves \/ EnterSafeOp \/ EnterOp
    BY <2>3, <2>6
    DEF ConfigureSlaves, EnterSafeOp, EnterOp, Raise, Next1, Return, IInv, StepsInOrder
  <2>7. QED
    BY <2>1, <2>4, <2>5, <2>6
<1>2. QED
  BY <1>1, Inductive, PTL DEF Spec, InitHeals

\* The byte at b of slave p belongs to no other slave.
LEMMA OneOwner ==
  ASSUME NEW N \in Nat, NEW net, DOMAIN net = 0..N - 1, NEW dir,
         \A p \in 0..N - 1 : net[p][dir] \in Nat,
         NEW p \in 0..N - 1, NEW b \in 0..net[p][dir] - 1,
         NEW q \in 0..N - 1,
         Offset(net, dir)[q] <= Offset(net, dir)[p] + b,
         Offset(net, dir)[p] + b < Offset(net, dir)[q] + net[q][dir]
  PROVE  q = p
<1> DEFINE at == Offset(net, dir)
<1>1. /\ at \in [0..N -> Nat]
      /\ \A i \in 0..N - 1 : \A j \in i + 1..N : at[i] + net[i][dir] <= at[j]
  BY Layout
<1> HIDE DEF at
<1>2. at[p] \in Nat /\ at[q] \in Nat /\ net[p][dir] \in Nat /\ net[q][dir] \in Nat
  BY <1>1
<1>3. at[q] <= at[p] + b /\ at[p] + b < at[q] + net[q][dir] /\ b < net[p][dir]
  BY DEF at
<1>4. CASE q < p
  <2>1. at[q] + net[q][dir] <= at[p]
    BY <1>1, <1>4
  <2>2. QED
    BY <1>2, <1>3, <2>1
<1>5. CASE p < q
  <2>1. at[p] + net[p][dir] <= at[q]
    BY <1>1, <1>5
  <2>2. QED
    BY <1>2, <1>3, <2>1
<1>6. QED
  BY <1>4, <1>5

\* exchange() with the expected working counter has moved every byte of every slave to
\* its place: no network makes two slaves share one or leaves one out.
THEOREM WholeExchange == Spec => GoodExchangeIsWhole
<1> DEFINE Whole(p) ==
      /\ \A b \in 0..plant[p].in - 1 : image'.inputs[Offset(plant, "in")[p] + b] = field'[p]
      /\ state = "Op" => \A b \in 0..plant[p].out - 1 :
           device'[p][b] = image.outputs[Offset(plant, "out")[p] + b]
<1>1. ASSUME IInv, Simulated, NEW R \in SUBSET Positions, NEW W \in SUBSET Positions,
             WkcMatches(R, W), NEW p \in Positions
      PROVE  Whole(p)
  <2> DEFINE N == Cardinality(Positions)
  <2>1. /\ plant \in Networks /\ Exchanging /\ Transfer(R, W) /\ Scanned
        /\ Wkc(plant, R, W) = image.expected
    BY <1>1 DEF WkcMatches, IInv, TypeOK, ScannedFirst, Exchanging
  <2>2. /\ N \in Nat /\ Positions = 0..N - 1 /\ DOMAIN slaves = 0..N - 1
        /\ DOMAIN plant = 0..N - 1
        /\ \A q \in 0..N - 1 : /\ slaves[q]["in"] \in Nat /\ slaves[q]["out"] \in Nat
                               /\ slaves[q]["in"] = plant[q]["in"]
                               /\ slaves[q]["out"] = plant[q]["out"]
    BY <1>1, <2>1, BusType, ListedType DEF Scanned, Positions
  <2> HIDE DEF N
  <2>3. Offset(plant, "in") = Offset(slaves, "in") /\ Offset(plant, "out") = Offset(slaves, "out")
    <3>1. [q \in DOMAIN plant |-> plant[q]["in"]] = [q \in DOMAIN slaves |-> slaves[q]["in"]]
      BY <2>2
    <3>2. [q \in DOMAIN plant |-> plant[q]["out"]] = [q \in DOMAIN slaves |-> slaves[q]["out"]]
      BY <2>2
    <3>3. QED
      BY <3>1, <3>2, Zenon DEF Offset
  <2>4. (plant[p].in > 0 => p \in R) /\ (plant[p].out > 0 => p \in W)
    BY <1>1, <2>1, ExpectedOfAll, GoodMeansAll DEF Scanned
  <2>5. ASSUME NEW b \in 0..plant[p].in - 1
        PROVE  image'.inputs[Offset(slaves, "in")[p] + b] = field'[p]
    <3> DEFINE i == Offset(slaves, "in")[p] + b
               owner == {q \in R : /\ Offset(slaves, "in")[q] <= i
                                   /\ i < Offset(slaves, "in")[q] + slaves[q].in}
    <3>1. b \in 0..slaves[p]["in"] - 1 /\ p \in 0..N - 1 /\ p \in R
      BY <2>2, <2>4, <2>5
    <3>2. i \in DOMAIN image.inputs
      <4>1. i \in 0..Size(slaves, "in") - 1
        BY <2>2, <3>1, Inside
      <4>2. QED
        BY <2>1, <4>1 DEF Scanned
    <3>3. p \in owner
      <4>1. Offset(slaves, "in") \in [0..N -> Nat]
        BY <2>2, Layout
      <4>2. Offset(slaves, "in")[p] \in Nat /\ slaves[p]["in"] \in Nat
        BY <2>2, <3>1, <4>1
      <4>3. /\ Offset(slaves, "in")[p] <= Offset(slaves, "in")[p] + b
            /\ Offset(slaves, "in")[p] + b < Offset(slaves, "in")[p] + slaves[p]["in"]
        BY <3>1, <4>2
      <4>4. QED
        BY <3>1, <4>3, Zenon
    <3>4. ASSUME NEW q \in owner PROVE q = p
      BY <2>2, <3>1, <3>4, OneOwner
    <3>5. owner = {p}
      BY <3>3, <3>4
    <3>6. Least({p}) = p
      <4>1. {p} \subseteq Nat
        BY <3>1
      <4>2. QED
        BY <4>1, LeastOne
    <3>7. DOMAIN image = {"inputs", "outputs", "expected"}
      BY <1>1 DEF IInv, TypeOK
    <3>8. image'.inputs[i] = IF owner = {} THEN image.inputs[i] ELSE field'[Least(owner)]
      BY <2>1, <3>2, <3>7 DEF Transfer
    <3> HIDE DEF owner, i
    <3>9. image'.inputs[i] = field'[p]
      BY <3>5, <3>6, <3>8
    <3>10. QED
      BY <3>9 DEF i
  <2>6. ASSUME state = "Op", NEW b \in 0..plant[p].out - 1
        PROVE  device'[p][b] = image.outputs[Offset(slaves, "out")[p] + b]
    <3>1. al[p] = "Op" /\ p \in W /\ slaves[p].out = plant[p].out
      BY <1>1, <2>2, <2>4, <2>6 DEF IInv, InStepWithSlaves
    <3>2. b \in DOMAIN device[p]
      BY <1>1, <2>6 DEF IInv, TypeOK
    <3>3. QED
      BY <2>1, <3>1, <3>2 DEF Transfer
  <2>7. QED
    BY <2>3, <2>5, <2>6
<1>2. IInv => [Simulated /\ (\E R, W \in SUBSET Positions : WkcMatches(R, W)) =>
                 \A p \in Positions : Whole(p)]_vars
  <2> HIDE DEF Whole
  <2>1. QED
    BY <1>1
<1>3. QED
  BY <1>2, Inductive, PTL DEF GoodExchangeIsWhole
=============================================================================
