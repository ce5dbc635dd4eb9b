------------------------------ MODULE WasmHost ------------------------------
(***************************************************************************)
(* The logic engine of plc-runtime/src/wasm_host.rs with the host state of *)
(* wasm_imports.rs and the memory layout of wasm_memory.rs: loading,       *)
(* calling and replacing a program that may trap, burn its fuel or loop,   *)
(* while the epoch ticker runs in a thread of its own. What Wasmtime does  *)
(* (compile, instantiate, trap) is left open.                              *)
(***************************************************************************)
EXTENDS Integers, FiniteSets

CONSTANTS
  Programs,   \* name -> [step, memory, init, fault : BOOLEAN, size : Nat], what a module exports
  Values,     \* values of the outputs and of a program's retained data
  Zero,
  MaxEpochs,  \* max_epochs_per_cycle
  FuelPerCycle,
  MaxCalls,   \* max_host_calls_per_cycle
  MaxAge,     \* bound: ticks of the epoch counter that are told apart
  MaxCycles   \* bound: cycles that are told apart

ASSUME ProgramsAssumption ==
  \A p \in DOMAIN Programs :
    Programs[p] \in [step : BOOLEAN, memory : BOOLEAN, init : BOOLEAN, fault : BOOLEAN, size : Nat]
ASSUME ValuesAssumption == Zero \in Values
ASSUME BoundsAssumption ==
  {MaxEpochs, FuelPerCycle, MaxCalls, MaxAge, MaxCycles} \subseteq Nat \ {0}

Names == DOMAIN Programs
None == "none"
ASSUME NoneAssumption == None \notin Names

VARIABLES
  useFuel,      \* WasmtimeConfig.use_fuel
  module,       \* the compiled module
  inst,         \* whose instance, memory and functions are in place
  initialized,
  mem,          \* linear memory: inputs, outputs, retained data, flags, cycle count shown
  host,         \* HostState: cycle_count, first_cycle, host_call_count
  outputs,      \* what the last step() returned
  begun,        \* history: a step has returned since the program was loaded or initialised
  ticking,      \* the EpochTicker's thread runs
  age,          \* epoch_counter
  left,         \* epochs to the deadline of the store
  fuel,         \* fuel of the store
  call,         \* the Wasm function being executed, "none" outside
  result,       \* of the last call of the engine
  ran,          \* history: ticks since this function was entered
  burnt,        \* history: instructions of this function
  hostCalls     \* history: host functions executed for it

store == <<left, fuel>>
counts == <<ran, burnt, hostCalls>>
vars == <<useFuel, module, inst, initialized, mem, host, outputs, begun, ticking, age, store, call,
          result, counts>>

Memory == [in : Values, out : Values, data : Values, flag : {"none", "first", "fault"},
           cycle : 0..MaxCycles]
NewMemory == [in |-> Zero, out |-> Zero, data |-> Zero, flag |-> "none", cycle |-> 0]
Min(a, b) == IF a < b THEN a ELSE b

TypeOK ==
  /\ useFuel \in BOOLEAN
  /\ {module, inst} \subseteq Names \cup {None}
  /\ initialized \in BOOLEAN
  /\ mem \in Memory
  /\ host \in [cycles : 0..MaxCycles, first : BOOLEAN, calls : Nat]
  /\ outputs \in Values /\ begun \in BOOLEAN
  /\ ticking \in BOOLEAN
  /\ age \in 0..MaxAge
  /\ left \in Int
  /\ fuel \in 0..FuelPerCycle /\ burnt \in 0..FuelPerCycle
  /\ call \in {None, "init", "step", "fault", "reload"}
  /\ result \in {"ok", "err"}
  /\ {ran, hostCalls} \subseteq Nat

Init ==
  /\ useFuel \in BOOLEAN
  /\ module = None /\ inst = None /\ initialized = FALSE
  /\ mem = NewMemory
  /\ host = [cycles |-> 0, first |-> TRUE, calls |-> 0]
  /\ outputs = Zero /\ begun = FALSE
  /\ ticking = FALSE /\ age = 0
  /\ left = 0 /\ fuel = 0
  /\ call = None /\ result = "ok"
  /\ ran = 0 /\ burnt = 0 /\ hostCalls = 0

-----------------------------------------------------------------------------
(* The epoch ticker. *)

StartTicker == ~ticking /\ ticking' = TRUE
               /\ UNCHANGED <<useFuel, module, inst, initialized, mem, host, outputs, begun, age,
                              store, call, result, counts>>

\* stop(), or the handle is dropped: the thread is joined.
StopTicker == ticking /\ call = None /\ ticking' = FALSE
              /\ UNCHANGED <<useFuel, module, inst, initialized, mem, host, outputs, begun, age,
                             store, call, result, counts>>

\* Mutant: the counter of the host is incremented, and not the engine's.
TickOwnCounter ==
  /\ ticking
  /\ call # None => left > 0
  /\ age' = Min(age + 1, MaxAge)
  /\ UNCHANGED <<useFuel, module, inst, initialized, mem, host, outputs, begun, ticking, store,
                 call, result, counts>>

\* An epoch ends. Code that has reached its deadline is interrupted before another.
Tick ==
  /\ ticking
  /\ call # None => left > 0
  /\ age' = Min(age + 1, MaxAge)
  /\ IF call = None THEN UNCHANGED <<left, ran>> ELSE left' = left - 1 /\ ran' = ran + 1
  /\ UNCHANGED <<useFuel, module, inst, initialized, mem, host, outputs, begun, ticking, fuel, call,
                 result, burnt, hostCalls>>

-----------------------------------------------------------------------------
(* Entering Wasm. *)

\* Mutant: the deadline does not allow for a cycle.
DeadlineNow == age

\* set_epoch_deadline(): the distance is the counter plus the allowance.
Deadline == age + MaxEpochs

\* Mutant: fuel is added to what is left.
AddFuel == IF useFuel THEN fuel' = Min(fuel + FuelPerCycle, FuelPerCycle + FuelPerCycle)
                      ELSE UNCHANGED fuel

SetFuel == IF useFuel THEN fuel' = FuelPerCycle ELSE UNCHANGED fuel

CountsReset == ran' = 0 /\ burnt' = 0 /\ hostCalls' = 0

\* The deadline and the fuel are set, and function f is entered.
Enter(f) ==
  /\ left' = Deadline
  /\ SetFuel
  /\ call' = f
  /\ CountsReset

Finish(r) == call' = None /\ result' = r /\ CountsReset

-----------------------------------------------------------------------------
(* Loading and initialising. *)

\* Mutant: the new module counts as initialised when the old one did.
LoadModuleKeepingInitialized(p) ==
  /\ call = None
  /\ module' = p /\ inst' = None /\ mem' = NewMemory /\ begun' = FALSE
  /\ result' = "ok"
  /\ UNCHANGED <<useFuel, initialized, host, outputs, ticking, age, store, call, counts>>

\* load_module(): a module that does not compile changes nothing. The host state,
\* with the number of cycles, is kept.
LoadModule(p) ==
  /\ call = None
  /\ \/ /\ module' = p /\ inst' = None /\ initialized' = FALSE /\ begun' = FALSE
        /\ mem' = NewMemory /\ result' = "ok"
     \/ result' = "err" /\ UNCHANGED <<module, inst, initialized, begun, mem>>
  /\ UNCHANGED <<useFuel, host, outputs, ticking, age, store, call, counts>>

Instantiable(p) == Programs[p].step /\ Programs[p].memory

\* What init() writes when the program's init is through.
Initialized == [mem EXCEPT !.flag = "first", !.cycle = 0]

\* init(): instantiate what has not been, then run the program's init if it has one.
InitRefused ==
  /\ call = None
  /\ module = None
  /\ result' = "err"
  /\ UNCHANGED <<useFuel, module, inst, initialized, mem, host, outputs, begun, ticking, age,
                 store, call, counts>>

InstantiateFails ==
  /\ call = None
  /\ module # None /\ inst = None
  /\ SetFuel
  /\ result' = "err"
  /\ UNCHANGED <<useFuel, module, inst, initialized, mem, host, outputs, begun, ticking, age,
                 left, call, counts>>

CallInit ==
  /\ call = None
  /\ module # None
  /\ inst = None => Instantiable(module)
  /\ inst' = module
  /\ IF Programs[module].init
       THEN Enter("init") /\ UNCHANGED <<initialized, begun, mem, result>>
       ELSE /\ initialized' = TRUE /\ begun' = FALSE /\ mem' = Initialized /\ Finish("ok")
            /\ IF inst = None THEN SetFuel ELSE UNCHANGED fuel
            /\ UNCHANGED left
  /\ UNCHANGED <<useFuel, module, host, outputs, ticking, age>>

InitReturns ==
  /\ call = "init"
  /\ initialized' = TRUE /\ begun' = FALSE /\ mem' = Initialized
  /\ Finish("ok")
  /\ UNCHANGED <<useFuel, module, inst, host, outputs, ticking, age, store>>

-----------------------------------------------------------------------------
(* The cycle. *)

\* step() of an engine that is not initialised.
StepRefused ==
  /\ call = None /\ ~initialized
  /\ result' = "err"
  /\ UNCHANGED <<useFuel, module, inst, initialized, mem, host, outputs, begun, ticking, age,
                 store, call, counts>>

\* step(): the inputs and the system information are written to the memory first.
CallStep(v) ==
  /\ call = None /\ initialized
  /\ mem' = [mem EXCEPT !.in = v, !.flag = IF host.first THEN "first" ELSE "none",
                        !.cycle = host.cycles]
  /\ Enter("step")
  /\ UNCHANGED <<useFuel, module, inst, initialized, host, outputs, begun, ticking, age, result>>

\* Mutant: the first cycle is not over.
StepReturnsStayingFirst ==
  /\ call = "step"
  /\ outputs' = mem.out /\ begun' = TRUE
  /\ host' = [host EXCEPT !.cycles = Min(@ + 1, MaxCycles), !.calls = 0]
  /\ Finish("ok")
  /\ UNCHANGED <<useFuel, module, inst, initialized, mem, ticking, age, store>>

\* The outputs are read, and advance_cycle() ends the cycle.
StepReturns ==
  /\ call = "step"
  /\ outputs' = mem.out /\ begun' = TRUE
  /\ host' = [cycles |-> Min(host.cycles + 1, MaxCycles), first |-> FALSE, calls |-> 0]
  /\ Finish("ok")
  /\ UNCHANGED <<useFuel, module, inst, initialized, mem, ticking, age, store>>

-----------------------------------------------------------------------------
(* What a program does inside a call. *)

Running == call # None /\ left > 0 /\ (useFuel => fuel > 0)
Burn == burnt' = burnt + 1 /\ IF useFuel THEN fuel' = fuel - 1 ELSE UNCHANGED fuel

\* It stores to its memory. Without fuel the bound is FuelPerCycle as well.
Stores(field, v) ==
  /\ Running /\ burnt < FuelPerCycle
  /\ Burn
  /\ mem' = [mem EXCEPT ![field] = v]
  /\ UNCHANGED <<useFuel, module, inst, initialized, host, outputs, begun, ticking, age, left, call,
                 result, ran, hostCalls>>

\* Mutant: the check comes after the call.
AllowedLate == host.calls <= MaxCalls

Allowed == host.calls < MaxCalls

\* It calls a host function: write_do or write_ao, read_di or read_ai, or one that
\* only tells or logs. Over the limit the function does nothing, and reads as zero.
CallsHost(f, v) ==
  /\ Running /\ burnt < FuelPerCycle
  /\ Burn
  /\ IF Allowed
       THEN /\ mem' = CASE f = "write" -> [mem EXCEPT !.out = v]
                        [] f = "read" -> [mem EXCEPT !.data = mem.in]
                        [] OTHER -> mem
            /\ host' = [host EXCEPT !.calls = @ + 1]
            /\ hostCalls' = hostCalls + 1
       ELSE /\ mem' = IF f = "read" THEN [mem EXCEPT !.data = Zero] ELSE mem
            /\ UNCHANGED <<host, hostCalls>>
  /\ UNCHANGED <<useFuel, module, inst, initialized, outputs, begun, ticking, age, left, call,
                 result, ran>>

\* The call ends with an error of step(), init() or fault(): it traps by itself, it
\* has no fuel left, or its deadline has passed.
Trap ==
  /\ call # None
  /\ Finish("err")
  /\ UNCHANGED <<useFuel, module, inst, initialized, mem, host, outputs, begun, ticking, age,
                 store>>

-----------------------------------------------------------------------------
(* fault(). *)

Cleared == [mem EXCEPT !.out = Zero, !.flag = "fault", !.cycle = host.cycles]

CallFault ==
  /\ call = None
  /\ IF inst # None /\ Programs[inst].fault
       THEN Enter("fault") /\ UNCHANGED <<mem, result>>
       ELSE /\ mem' = IF inst = None THEN mem ELSE Cleared
            /\ Finish("ok") /\ UNCHANGED store
  /\ UNCHANGED <<useFuel, module, inst, initialized, host, outputs, begun, ticking, age>>

FaultReturns ==
  /\ call = "fault"
  /\ mem' = Cleared
  /\ Finish("ok")
  /\ UNCHANGED <<useFuel, module, inst, initialized, host, outputs, begun, ticking, age, store>>

-----------------------------------------------------------------------------
(* reload_module(). *)

Keeps(preserve) == preserve /\ inst # None

Fits(p, preserve) == Keeps(preserve) => Programs[p].size >= Programs[inst].size

\* The module does not compile, lacks an export, cannot be instantiated, or is too
\* small for the memory to be preserved: only the fuel may have been set.
ReloadRefused ==
  /\ call = None
  /\ SetFuel \/ UNCHANGED fuel
  /\ result' = "err"
  /\ UNCHANGED <<useFuel, module, inst, initialized, mem, host, outputs, begun, ticking, age,
                 left, call, counts>>

\* Mutant: only the process image of the old memory is copied.
CarryImage(p, preserve) ==
  IF Keeps(preserve) THEN [mem EXCEPT !.data = Zero] ELSE NewMemory

\* The memory of the new instance when it is put in place.
Carry(p, preserve) == IF Keeps(preserve) THEN mem ELSE NewMemory

\* The new instance is put in place. Without the old memory its init is run.
Reload(p, preserve) ==
  /\ call = None
  /\ Instantiable(p) /\ Fits(p, preserve)
  /\ module' = p /\ inst' = p
  /\ mem' = Carry(p, preserve)
  /\ begun' = (Keeps(preserve) /\ begun)
  /\ IF ~Keeps(preserve) /\ Programs[p].init
       THEN Enter("reload") /\ UNCHANGED <<host, result>>
       ELSE host' = [host EXCEPT !.first = FALSE] /\ Finish("ok") /\ SetFuel /\ UNCHANGED left
  /\ UNCHANGED <<useFuel, initialized, outputs, ticking, age>>

ReloadReturns ==
  /\ call = "reload"
  /\ host' = [host EXCEPT !.first = FALSE]
  /\ Finish("ok")
  /\ UNCHANGED <<useFuel, module, inst, initialized, mem, outputs, begun, ticking, age, store>>

-----------------------------------------------------------------------------

Returns == InitReturns \/ StepReturns \/ FaultReturns \/ ReloadReturns

\* Code in progress: without fuel it may also loop, which is no step of the model.
Executes ==
  \/ \E f \in {"out", "data"}, v \in Values : Stores(f, v)
  \/ \E f \in {"read", "write", "other"}, v \in Values : CallsHost(f, v)
  \/ Returns \/ Trap

Next ==
  \/ StartTicker \/ StopTicker \/ Tick
  \/ \E p \in Names : LoadModule(p)
  \/ InitRefused \/ InstantiateFails \/ CallInit
  \/ StepRefused \/ \E v \in Values : CallStep(v)
  \/ CallFault
  \/ ReloadRefused \/ \E p \in Names, preserve \in BOOLEAN : Reload(p, preserve)
  \/ Executes

Exhausted == left <= 0 \/ (useFuel /\ fuel = 0)

\* The thread of the ticker runs, Wasmtime traps code that is out of fuel or past its
\* deadline, and code that executes burns its fuel.
Fairness == WF_vars(Tick) /\ WF_vars(Exhausted /\ Trap) /\ WF_vars(useFuel /\ Executes)

Spec == Init /\ [][Next]_vars /\ Fairness

-----------------------------------------------------------------------------
(* Properties. *)

\* An engine that accepts step() has the instance of the module it holds, with the
\* exports a step needs, through loads, failed initialisations and reloads.
ReadyIsWhole == initialized => inst = module /\ inst # None /\ Instantiable(inst)

\* The engine's invariant: its types, and readiness that means what step() takes it for.
EngineInv == TypeOK /\ ReadyIsWhole

\* The instance in place is one of the module that is held, with the exports of a step.
InstanceIsWhole ==
  /\ inst # None => inst = module /\ Instantiable(inst)
  /\ inst = None => initialized = FALSE /\ call # "init"

\* What the host has counted covers the call in progress.
CallsCounted == hostCalls <= host.calls /\ host.calls <= MaxCalls

\* The ticks since the call and those to its deadline make up a cycle.
DeadlineAhead == call # None => left + ran >= MaxEpochs

\* The flag of the first cycle is down when the program has had one.
FirstIsOver == begun => ~host.first

\* The inductive invariant of the proofs.
IInv == TypeOK /\ InstanceIsWhole /\ CallsCounted /\ DeadlineAhead /\ FirstIsOver

\* One call of a program executes at most the host functions of one cycle.
CallsWithinBudget == hostCalls <= MaxCalls

\* A program that is cut by its deadline has had the epochs of its cycle, however long
\* the ticker had been running before the call.
NotCutEarly == call # None /\ left <= 0 => ran >= MaxEpochs

\* The epochs of a cycle are its limit (plc-common/src/config.rs:422, "Maximum epochs
\* (timeout units) per cycle.").
OverrunIsCut == ran <= MaxEpochs

\* No call goes beyond the budget of a cycle, and none is cut before it is used.
BudgetsKept == CallsWithinBudget /\ NotCutEarly

\* A program that has done a step is not told again that it is at its first, through
\* preserving reloads, faults, traps and failed calls. (Of a program that is loaded,
\* initialised or put in place afresh nothing is asked.)
FirstOnce == [][call = None /\ call' = "step" /\ begun => mem'.flag # "first"]_vars

\* The daemon's reload, which preserves the memory, takes the place of the running
\* program without a loss of its data, its cycle count or its readiness.
ReloadKeepsState ==
  [][(\E p \in Names : Reload(p, TRUE)) /\ inst # None =>
       /\ mem' = mem /\ host'.cycles = host.cycles
       /\ initialized' = initialized /\ call' = None]_vars

\* A program's state outlives what happens around it.
StateIsKept == FirstOnce /\ ReloadKeepsState

\* With fuel or with a ticker every call into a program returns, even a loop's.
CallReturns == call # None /\ (useFuel \/ ticking) ~> call = None

=============================================================================
