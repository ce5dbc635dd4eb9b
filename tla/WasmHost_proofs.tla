-------------------------- MODULE WasmHost_proofs --------------------------
(***************************************************************************)
(* What the logic engine keeps for every set of programs, every allowance  *)
(* of epochs, fuel and host calls, by the invariant IInv.                  *)
(***************************************************************************)
EXTENDS WasmHost, TLAPS

\* The bounds are positive numbers.
LEMMA Bounds ==
  /\ MaxEpochs \in Nat /\ MaxEpochs > 0
  /\ FuelPerCycle \in Nat /\ FuelPerCycle > 0
  /\ MaxCalls \in Nat /\ MaxCalls > 0
  /\ MaxAge \in Nat /\ MaxAge > 0
  /\ MaxCycles \in Nat /\ MaxCycles > 0
BY BoundsAssumption

\* A fresh memory, and one with a field overwritten, is a memory.
LEMMA NewMemoryTyped == NewMemory \in Memory
BY Bounds, ValuesAssumption DEF Memory, NewMemory

\* Writing to a memory its image, or the system information, leaves a memory.
LEMMA Written ==
  ASSUME NEW m \in Memory, NEW v \in Values
  PROVE  [m EXCEPT !.out = v] \in Memory /\ [m EXCEPT !.data = v] \in Memory
BY DEF Memory

LEMMA Informed ==
  ASSUME NEW m \in Memory, NEW v \in Values, NEW c \in 0 .. MaxCycles,
         NEW f \in {"none", "first", "fault"}
  PROVE  /\ [m EXCEPT !.flag = f, !.cycle = c] \in Memory
         /\ [m EXCEPT !.in = v, !.flag = f, !.cycle = c] \in Memory
         /\ [m EXCEPT !.out = v, !.flag = f, !.cycle = c] \in Memory
<1>1. [m EXCEPT !.flag = f, !.cycle = c] \in Memory
  BY DEF Memory
<1>2. [m EXCEPT !.in = v, !.flag = f, !.cycle = c] \in Memory
  BY DEF Memory
<1>3. [m EXCEPT !.out = v, !.flag = f, !.cycle = c] \in Memory
  BY DEF Memory
<1>4. QED
  BY <1>1, <1>2, <1>3

\* What the engine itself writes: at the end of init, and in a fault.
LEMMA EngineWrites ==
  ASSUME TypeOK
  PROVE  Initialized \in Memory /\ Cleared \in Memory
<1>1. mem \in Memory /\ host.cycles \in 0 .. MaxCycles /\ 0 \in 0 .. MaxCycles
  BY Bounds DEF TypeOK
<1>2. Initialized \in Memory
  BY <1>1, Informed, ValuesAssumption DEF Initialized
<1>3. Cleared \in Memory
  BY <1>1, Informed, ValuesAssumption DEF Cleared
<1>4. QED
  BY <1>2, <1>3

\* The Boolean part of the types.
FlagsOK ==
  /\ useFuel \in BOOLEAN /\ initialized \in BOOLEAN
  /\ ticking \in BOOLEAN /\ begun \in BOOLEAN

\* A counter is capped within its range.
LEMMA Capped == \A n \in Nat, cap \in Nat : Min(n, cap) \in 0 .. cap
BY DEF Min

\* A new engine holds nothing.
LEMMA InitIInv == Init => IInv
<1> SUFFICES ASSUME Init PROVE IInv
  OBVIOUS
<1>1. TypeOK
  <2>1. FlagsOK
    BY Zenon DEF Init, FlagsOK
  <2>2. QED
    BY <2>1, Bounds, ValuesAssumption, NewMemoryTyped DEF Init, TypeOK, FlagsOK, None
<1>2. InstanceIsWhole /\ DeadlineAhead
  BY DEF Init, InstanceIsWhole, DeadlineAhead, None
<1>3. CallsCounted /\ FirstIsOver
  BY Bounds DEF Init, CallsCounted, FirstIsOver
<1>4. QED
  BY <1>1, <1>2, <1>3 DEF IInv

\* Entering a function sets its budget for a whole cycle.
LEMMA EnterBudget ==
  ASSUME TypeOK, NEW f, Enter(f)
  PROVE  /\ left' \in Int /\ fuel' \in 0 .. FuelPerCycle
         /\ call' = f /\ burnt' = 0 /\ ran' = 0 /\ hostCalls' = 0
         /\ left' + ran' >= MaxEpochs
BY Bounds DEF TypeOK, Enter, Deadline, SetFuel, CountsReset

\* Setting the fuel keeps it within that of a cycle.
LEMMA FuelSet == ASSUME TypeOK, SetFuel PROVE fuel' \in 0 .. FuelPerCycle
BY Bounds DEF TypeOK, SetFuel

\* The ticker's thread starts and stops.
LEMMA TickerIInv == ASSUME IInv, StartTicker \/ StopTicker PROVE IInv'
<1> USE DEF None, IInv, store, counts, StartTicker, StopTicker
<1>1. TypeOK'
  BY DEF TypeOK
<1>2. InstanceIsWhole'
  BY DEF InstanceIsWhole, Instantiable
<1>3. CallsCounted' /\ DeadlineAhead' /\ FirstIsOver'
  BY DEF CallsCounted, DeadlineAhead, FirstIsOver
<1>4. QED
  BY <1>1, <1>2, <1>3

\* An epoch moves from those left to those run.
LEMMA TickIInv == ASSUME IInv, Tick PROVE IInv'
<1> USE Bounds DEF None, IInv, store, counts, Tick
<1>1. TypeOK'
  <2>1. age' \in 0 .. MaxAge
    BY Capped DEF TypeOK
  <2>2. left' \in Int /\ ran' \in Nat
    BY DEF TypeOK
  <2>3. QED
    BY <2>1, <2>2 DEF TypeOK
<1>2. InstanceIsWhole'
  BY DEF InstanceIsWhole, Instantiable
<1>3. DeadlineAhead'
  BY DEF TypeOK, DeadlineAhead
<1>4. CallsCounted' /\ FirstIsOver'
  BY DEF CallsCounted, FirstIsOver
<1>5. QED
  BY <1>1, <1>2, <1>3, <1>4

\* A load replaces the module and takes the instance away, or changes nothing.
LEMMA LoadIInv == ASSUME IInv, NEW p \in Names, LoadModule(p) PROVE IInv'
<1> USE DEF None, IInv, store, counts, LoadModule
<1>1. TypeOK'
  BY NewMemoryTyped DEF TypeOK
<1>2. InstanceIsWhole'
  BY DEF InstanceIsWhole, Instantiable
<1>3. CallsCounted' /\ DeadlineAhead' /\ FirstIsOver'
  BY DEF CallsCounted, DeadlineAhead, FirstIsOver
<1>4. QED
  BY <1>1, <1>2, <1>3

\* Calls that are refused set the fuel and nothing else.
LEMMA RefusedIInv ==
  ASSUME IInv, InitRefused \/ InstantiateFails \/ StepRefused \/ ReloadRefused
  PROVE  IInv'
<1> USE DEF None, IInv, store, counts, InitRefused, InstantiateFails, StepRefused, ReloadRefused
<1>1. TypeOK'
  <2>1. fuel' \in 0 .. FuelPerCycle
    BY FuelSet DEF TypeOK
  <2>2. QED
    BY <2>1 DEF TypeOK
<1>2. InstanceIsWhole'
  BY DEF InstanceIsWhole, Instantiable
<1>3. CallsCounted' /\ DeadlineAhead' /\ FirstIsOver'
  BY DEF CallsCounted, DeadlineAhead, FirstIsOver
<1>4. QED
  BY <1>1, <1>2, <1>3

\* Init() has an instance of the module before the program's init is entered.
LEMMA CallInitIInv == ASSUME IInv, CallInit PROVE IInv'
<1> USE NoneAssumption DEF None, IInv, store, counts
<1>1. InstanceIsWhole'
  BY DEF CallInit, Enter, Finish, InstanceIsWhole, Instantiable
<1>2. CASE Programs[module].init
  <2>1. Enter("init")
    BY <1>2 DEF CallInit
  <2>2. TypeOK'
    <3>1. FlagsOK'
      BY <1>2, Zenon DEF CallInit, TypeOK, FlagsOK
    <3>2. inst' = module /\ UNCHANGED <<module, mem, host, outputs, age, result>>
      BY <1>2 DEF CallInit
    <3>3. /\ left' \in Int /\ fuel' \in 0 .. FuelPerCycle
          /\ call' = "init" /\ burnt' = 0 /\ ran' = 0 /\ hostCalls' = 0
      BY <2>1, EnterBudget
    <3>4. QED
      BY <3>1, <3>2, <3>3, Bounds DEF TypeOK, FlagsOK
  <2>3. CallsCounted' /\ DeadlineAhead' /\ FirstIsOver'
    BY <2>1, EnterBudget, Bounds DEF CallInit, TypeOK, CallsCounted, DeadlineAhead, FirstIsOver
  <2>4. QED
    BY <1>1, <2>2, <2>3
<1>3. CASE ~Programs[module].init
  <2>1. fuel' \in 0 .. FuelPerCycle
    BY <1>3, FuelSet DEF CallInit, TypeOK
  <2>2. mem' \in Memory
    BY <1>3, EngineWrites DEF CallInit
  <2>3. TypeOK'
    <3>1. FlagsOK'
      BY <1>3, Zenon DEF CallInit, TypeOK, FlagsOK
    <3>2. QED
      BY <1>3, <2>1, <2>2, <3>1, Bounds DEF CallInit, TypeOK, FlagsOK, Finish, CountsReset
  <2>4. CallsCounted' /\ DeadlineAhead' /\ FirstIsOver'
    BY <1>3, Bounds DEF CallInit, TypeOK, Finish, CountsReset, CallsCounted, DeadlineAhead,
                        FirstIsOver
  <2>5. QED
    BY <1>1, <2>3, <2>4
<1>4. QED
  BY <1>2, <1>3

\* Step() writes the memory and enters the program.
LEMMA CallStepIInv == ASSUME IInv, NEW v \in Values, CallStep(v) PROVE IInv'
<1> USE DEF None, IInv, CallStep
<1>1. Enter("step")
  OBVIOUS
<1>2. mem' \in Memory
  BY Informed DEF TypeOK
<1>3. TypeOK'
  <2>1. FlagsOK'
    BY Zenon DEF CallStep, TypeOK, FlagsOK
  <2>2. /\ left' \in Int /\ fuel' \in 0 .. FuelPerCycle
        /\ call' = "step" /\ burnt' = 0 /\ ran' = 0 /\ hostCalls' = 0
    BY <1>1, EnterBudget
  <2>3. UNCHANGED <<module, inst, host, outputs, age, result>>
    OBVIOUS
  <2>4. QED
    BY <1>2, <2>1, <2>2, <2>3, Bounds DEF TypeOK, FlagsOK
<1>4. InstanceIsWhole'
  BY <1>1, EnterBudget DEF InstanceIsWhole, Instantiable
<1>5. CallsCounted' /\ DeadlineAhead' /\ FirstIsOver'
  BY <1>1, EnterBudget, Bounds DEF TypeOK, CallsCounted, DeadlineAhead, FirstIsOver
<1>6. QED
  BY <1>3, <1>4, <1>5

\* The functions return: a step ends its cycle, a reload the first one.
LEMMA ReturnsIInv == ASSUME IInv, Returns \/ Trap PROVE IInv'
<1> USE DEF None, IInv, store, counts, Finish, CountsReset
<1>1. CASE StepReturns
  <2>1. host' \in [cycles : 0 .. MaxCycles, first : BOOLEAN, calls : Nat]
    BY <1>1, Capped, Bounds DEF StepReturns, TypeOK
  <2>2. outputs' \in Values
    BY <1>1 DEF StepReturns, TypeOK, Memory
  <2>3. TypeOK'
    BY <1>1, <2>1, <2>2, Bounds DEF StepReturns, TypeOK
  <2>4. InstanceIsWhole' /\ DeadlineAhead'
    BY <1>1 DEF StepReturns, InstanceIsWhole, Instantiable, DeadlineAhead
  <2>5. CallsCounted' /\ FirstIsOver'
    BY <1>1, Bounds DEF StepReturns, CallsCounted, FirstIsOver
  <2>6. QED
    BY <2>3, <2>4, <2>5
<1>2. CASE InitReturns \/ FaultReturns
  <2>1. mem' \in Memory
    BY <1>2, EngineWrites DEF InitReturns, FaultReturns
  <2>2. TypeOK'
    <3>1. FlagsOK'
      BY <1>2, Zenon DEF InitReturns, FaultReturns, TypeOK, FlagsOK
    <3>2. QED
      BY <1>2, <2>1, <3>1, Bounds DEF InitReturns, FaultReturns, TypeOK, FlagsOK
  <2>3. InstanceIsWhole' /\ DeadlineAhead'
    BY <1>2 DEF InitReturns, FaultReturns, InstanceIsWhole, Instantiable, DeadlineAhead
  <2>4. CallsCounted' /\ FirstIsOver'
    BY <1>2, Bounds DEF InitReturns, FaultReturns, TypeOK, CallsCounted, FirstIsOver
  <2>5. QED
    BY <2>2, <2>3, <2>4
<1>3. CASE ReloadReturns \/ Trap
  <2>1. TypeOK'
    <3>1. FlagsOK'
      BY <1>3, Zenon DEF ReloadReturns, Trap, TypeOK, FlagsOK
    <3>2. host' \in [cycles : 0 .. MaxCycles, first : BOOLEAN, calls : Nat]
      BY <1>3 DEF ReloadReturns, Trap, TypeOK
    <3>3. QED
      BY <1>3, <3>1, <3>2, Bounds DEF ReloadReturns, Trap, TypeOK, FlagsOK
  <2>2. InstanceIsWhole' /\ DeadlineAhead'
    BY <1>3 DEF ReloadReturns, Trap, InstanceIsWhole, Instantiable, DeadlineAhead
  <2>3. CallsCounted' /\ FirstIsOver'
    BY <1>3, Bounds DEF ReloadReturns, Trap, TypeOK, CallsCounted, FirstIsOver
  <2>4. QED
    BY <2>1, <2>2, <2>3
<1>4. QED
  BY <1>1, <1>2, <1>3 DEF Returns

\* A store of the program takes fuel and touches nothing but the memory.
LEMMA StoresIInv ==
  ASSUME IInv, NEW f \in {"out", "data"}, NEW v \in Values, Stores(f, v)
  PROVE  IInv'
<1> USE DEF None, IInv, store, counts, Stores
<1>1. TypeOK'
  <2>1. mem' \in Memory
    BY Written DEF TypeOK
  <2>2. fuel' \in 0 .. FuelPerCycle /\ burnt' \in 0 .. FuelPerCycle
    BY Bounds DEF TypeOK, Burn, Running
  <2>3. FlagsOK'
    BY Zenon DEF TypeOK, FlagsOK
  <2>4. QED
    BY <2>1, <2>2, <2>3 DEF TypeOK, FlagsOK
<1>2. InstanceIsWhole'
  BY DEF InstanceIsWhole, Instantiable
<1>3. CallsCounted' /\ DeadlineAhead' /\ FirstIsOver'
  BY DEF CallsCounted, DeadlineAhead, FirstIsOver
<1>4. QED
  BY <1>1, <1>2, <1>3

\* A host function is executed below the limit only.
LEMMA CallsHostIInv ==
  ASSUME IInv, NEW f \in {"read", "write", "other"}, NEW v \in Values, CallsHost(f, v)
  PROVE  IInv'
<1> USE DEF None, IInv, store, counts, CallsHost
<1>1. mem' \in Memory
  <2>1. mem.in \in Values /\ mem \in Memory
    BY DEF TypeOK, Memory
  <2>2. mem' \in {mem, [mem EXCEPT !.out = v], [mem EXCEPT !.data = mem.in],
                  [mem EXCEPT !.data = Zero]}
    OBVIOUS
  <2>3. QED
    BY <2>1, <2>2, Written, ValuesAssumption
<1>2. /\ host' \in [cycles : 0 .. MaxCycles, first : BOOLEAN, calls : Nat]
      /\ hostCalls' \in Nat
      /\ host'.cycles = host.cycles /\ host'.first = host.first
      /\ CallsCounted'
  <2>1. CASE Allowed
    <3>1. host' = [host EXCEPT !.calls = @ + 1] /\ hostCalls' = hostCalls + 1
      BY <2>1
    <3>2. QED
      BY <2>1, <3>1, Bounds DEF TypeOK, Allowed, CallsCounted
  <2>2. CASE ~Allowed
    BY <2>2 DEF TypeOK, CallsCounted
  <2>3. QED
    BY <2>1, <2>2
<1>3. TypeOK'
  <2>1. fuel' \in 0 .. FuelPerCycle /\ burnt' \in 0 .. FuelPerCycle
    BY Bounds DEF TypeOK, Burn, Running
  <2>2. FlagsOK'
    BY Zenon DEF TypeOK, FlagsOK
  <2>3. UNCHANGED <<module, inst, outputs, age, left, call, result, ran>>
    OBVIOUS
  <2>4. QED
    BY <1>1, <1>2, <2>1, <2>2, <2>3 DEF TypeOK, FlagsOK
<1>4. InstanceIsWhole' /\ DeadlineAhead'
  BY DEF InstanceIsWhole, Instantiable, DeadlineAhead
<1>5. FirstIsOver'
  BY <1>2 DEF FirstIsOver
<1>6. QED
  BY <1>2, <1>3, <1>4, <1>5

\* Fault() runs the program's handler, or clears the outputs.
LEMMA CallFaultIInv == ASSUME IInv, CallFault PROVE IInv'
<1> USE DEF None, IInv, store, counts
<1>1. mem' \in Memory
  BY EngineWrites DEF CallFault, TypeOK
<1>2. /\ left' \in Int /\ fuel' \in 0 .. FuelPerCycle
      /\ call' \in {"none", "fault"} /\ result' \in {"ok", "err"}
      /\ burnt' = 0 /\ ran' = 0 /\ hostCalls' = 0
      /\ call' # None => left' + ran' >= MaxEpochs
  <2>1. CASE inst # None /\ Programs[inst].fault
    BY <2>1, EnterBudget DEF CallFault, TypeOK
  <2>2. CASE ~(inst # None /\ Programs[inst].fault)
    BY <2>2, Bounds DEF CallFault, Finish, CountsReset, TypeOK
  <2>3. QED
    BY <2>1, <2>2
<1>3. UNCHANGED <<module, inst, host, outputs, begun, age>>
  BY DEF CallFault
<1>4. FlagsOK'
  BY Zenon DEF CallFault, TypeOK, FlagsOK
<1>5. TypeOK'
  BY <1>1, <1>2, <1>3, <1>4, Bounds DEF TypeOK, FlagsOK
<1>6. InstanceIsWhole'
  <2>1. initialized' = initialized
    BY DEF CallFault
  <2>2. QED
    BY <1>2, <1>3, <2>1 DEF InstanceIsWhole, Instantiable
<1>7. CallsCounted' /\ DeadlineAhead'
  <2>1. host' = host /\ host.calls \in Nat /\ host.calls <= MaxCalls
    BY <1>3 DEF TypeOK, CallsCounted
  <2>2. CallsCounted'
    BY <1>2, <2>1, Bounds DEF CallsCounted
  <2>3. QED
    BY <1>2, <2>2 DEF DeadlineAhead
<1>8. FirstIsOver'
  BY <1>3 DEF FirstIsOver
<1>9. QED
  BY <1>5, <1>6, <1>7, <1>8

\* A reload puts an instance with the exports of a step in place of the other.
LEMMA ReloadIInv ==
  ASSUME IInv, NEW p \in Names, NEW preserve \in BOOLEAN, Reload(p, preserve)
  PROVE  IInv'
<1> USE DEF None, IInv, store, counts
<1>1. module' = p /\ inst' = p /\ p # None /\ Instantiable(p)
  BY NoneAssumption DEF Reload
<1>2. mem' \in Memory
  BY NewMemoryTyped DEF Reload, Carry, TypeOK
<1>3. /\ left' \in Int /\ fuel' \in 0 .. FuelPerCycle
      /\ call' \in {"none", "reload"} /\ result' \in {"ok", "err"}
      /\ burnt' = 0 /\ ran' = 0 /\ hostCalls' = 0
      /\ call' # None => left' + ran' >= MaxEpochs
      /\ host' \in {host, [host EXCEPT !.first = FALSE]}
  <2>1. CASE ~Keeps(preserve) /\ Programs[p].init
    BY <2>1, EnterBudget DEF Reload, TypeOK
  <2>2. CASE ~(~Keeps(preserve) /\ Programs[p].init)
    <3>1. /\ host' = [host EXCEPT !.first = FALSE] /\ Finish("ok") /\ SetFuel
          /\ UNCHANGED left
      BY <2>2 DEF Reload
    <3>2. QED
      BY <3>1, FuelSet, Bounds DEF Finish, CountsReset, TypeOK
  <2>3. QED
    BY <2>1, <2>2
<1>4. UNCHANGED <<initialized, outputs, age>>
  BY DEF Reload
<1>5. FlagsOK'
  BY Zenon DEF Reload, TypeOK, FlagsOK
<1>6. host' \in [cycles : 0 .. MaxCycles, first : BOOLEAN, calls : Nat]
  BY <1>3 DEF TypeOK
<1>7. TypeOK'
  BY <1>1, <1>2, <1>3, <1>4, <1>5, <1>6, Bounds DEF TypeOK, FlagsOK
<1>8. InstanceIsWhole'
  BY <1>1 DEF InstanceIsWhole, Instantiable
<1>9. CallsCounted' /\ DeadlineAhead'
  BY <1>3, Bounds DEF TypeOK, CallsCounted, DeadlineAhead
<1>10. FirstIsOver'
  <2>1. CASE host' = host
    <3>1. begun' => begun
      BY Zenon DEF Reload
    <3>2. QED
      BY <2>1, <3>1, Zenon DEF FirstIsOver
  <2>2. CASE host' = [host EXCEPT !.first = FALSE]
    <3>1. host'.first = FALSE
      BY <2>2 DEF TypeOK
    <3>2. QED
      BY <3>1 DEF FirstIsOver
  <2>3. QED
    BY <1>3, <2>1, <2>2
<1>11. QED
  BY <1>7, <1>8, <1>9, <1>10

\* Every step of the engine keeps the invariant.
LEMMA NextIInv == IInv /\ [Next]_vars => IInv'
<1> SUFFICES ASSUME IInv, [Next]_vars PROVE IInv'
  OBVIOUS
<1>1. CASE UNCHANGED vars
  BY <1>1 DEF vars, store, counts, IInv, TypeOK, InstanceIsWhole, Instantiable, CallsCounted,
              DeadlineAhead, FirstIsOver
<1>2. CASE Next
  <2>1. CASE Executes
    BY <2>1, StoresIInv, CallsHostIInv, ReturnsIInv DEF Executes
  <2>2. CASE ~Executes
    BY <1>2, <2>2, TickerIInv, TickIInv, LoadIInv, RefusedIInv, CallInitIInv, CallStepIInv,
       CallFaultIInv, ReloadIInv DEF Next
  <2>3. QED
    BY <2>1, <2>2
<1>3. QED
  BY <1>1, <1>2

\* The invariant holds in every state of the engine.
THEOREM Inductive == Spec => []IInv
BY InitIInv, NextIInv, PTL DEF Spec

\* The engine's types hold, and an engine that step() accepts is whole, through every
\* load_module(), failed init() and reload_module().
THEOREM EngineIsSound == Spec => []EngineInv
<1>1. IInv => EngineInv
  <2> SUFFICES ASSUME IInv PROVE ReadyIsWhole
    BY DEF IInv, EngineInv
  <2>1. initialized => inst # None
    BY DEF IInv, TypeOK, InstanceIsWhole
  <2>2. QED
    BY <2>1 DEF IInv, InstanceIsWhole, ReadyIsWhole
<1>2. QED
  BY <1>1, Inductive, PTL

\* A call executes at most max_host_calls_per_cycle host functions, and its deadline does
\* not pass before max_epochs_per_cycle ticks of set_epoch_deadline()'s allowance.
THEOREM Budgets == Spec => []BudgetsKept
<1>1. IInv => BudgetsKept
  <2> SUFFICES ASSUME IInv PROVE BudgetsKept
    OBVIOUS
  <2>1. CallsWithinBudget
    BY Bounds DEF IInv, TypeOK, CallsCounted, CallsWithinBudget
  <2>2. NotCutEarly
    BY Bounds DEF IInv, TypeOK, DeadlineAhead, NotCutEarly
  <2>3. QED
    BY <2>1, <2>2 DEF BudgetsKept
<1>2. QED
  BY <1>1, Inductive, PTL

\* A program that has done a step is not told again that it is at its first, and the
\* daemon's reload keeps memory, cycle count and readiness.
THEOREM StateKept == Spec => StateIsKept
<1>1. IInv /\ [Next]_vars =>
        [call = None /\ call' = "step" /\ begun => mem'.flag # "first"]_vars
  <2> SUFFICES ASSUME IInv, Next, call = None, call' = "step", begun
               PROVE  mem'.flag # "first"
    OBVIOUS
  <2>1. PICK v \in Values : CallStep(v)
    BY DEF Next, None, StartTicker, StopTicker, Tick, LoadModule, InitRefused, InstantiateFails,
           CallInit, Enter, Finish, StepRefused, CallFault, ReloadRefused, Reload, Executes, Stores,
           CallsHost, Running, Returns, InitReturns, StepReturns, FaultReturns, ReloadReturns, Trap
  <2>2. ~host.first
    BY DEF IInv, FirstIsOver
  <2>3. mem'.flag = "none"
    BY <2>1, <2>2 DEF CallStep, IInv, TypeOK, Memory
  <2>4. QED
    BY <2>3
<1>2. IInv /\ [Next]_vars =>
        [(\E p \in Names : Reload(p, TRUE)) /\ inst # None =>
           /\ mem' = mem /\ host'.cycles = host.cycles
           /\ initialized' = initialized /\ call' = None]_vars
  <2> SUFFICES ASSUME IInv, NEW p \in Names, Reload(p, TRUE), inst # None
               PROVE  /\ mem' = mem /\ host'.cycles = host.cycles
                      /\ initialized' = initialized /\ call' = None
    OBVIOUS
  <2>1. Keeps(TRUE)
    BY DEF Keeps
  <2>2. QED
    BY <2>1 DEF Reload, Carry, Finish, IInv, TypeOK
<1>3. Spec => FirstOnce
  BY <1>1, Inductive, PTL DEF Spec, FirstOnce
<1>4. Spec => ReloadKeepsState
  BY <1>2, Inductive, PTL DEF Spec, ReloadKeepsState
<1>5. QED
  BY <1>3, <1>4, PTL DEF StateIsKept

=============================================================================
