# virtual-plc in TLA+

A formal model of *virtual-plc*: a soft PLC that compiles IEC 61131-3 Structured Text
to WebAssembly, runs the program in a fixed cycle, and exchanges its inputs and
outputs with field devices over Modbus TCP or EtherCAT. The modules model the Rust
code under `crates/`; TLC checks them on small instances, and TLAPS proves the main
results about all parts, of the compiler its memory layout, for every instance.

1. [The system](#1-the-system)
2. [What is hard about it](#2-what-is-hard-about-it)
3. [The modules](#3-the-modules)
4. [The runs](#4-the-runs)
5. [Fairness](#5-fairness)
6. [The proofs](#6-the-proofs)
7. [Where the code and its documentation disagree](#7-where-the-code-and-its-documentation-disagree)
8. [What is not modelled](#8-what-is-not-modelled)
9. [Plan](#9-plan)

To check a run: `tlc -config SchedulerSafety.cfg MCScheduler.tla`. To check the
proofs: `tlapm Scheduler_proofs.tla`.

## 1. The system

One process, `plc-daemon`. Its threads: the **main thread**, which runs the control
loop; the **watchdog's monitor thread**; the **signal poll thread**; the **epoch
ticker**, which interrupts Wasm code that runs too long; and the **web UI** on a
tokio runtime. Outside the process: the field devices, the signals and the clock; and,
before it, the **compiler**, which makes the program the process runs.

| Component (code) | State it keeps | Operations | What makes it correct |
|---|---|---|---|
| I/O image (`plc-runtime/io_image.rs`) | two seqlock-protected double buffers of process data | `write_inputs`, `read_inputs`, `write_outputs`, `read_outputs` | a reader only gets data of one write; it gets it in the end |
| Scheduler (`plc-runtime/scheduler.rs`) | lifecycle state, I/O image, last outputs, cycle count, deadline, policies, watchdog, recorder | `initialize`, `start`, `run_cycle`, `stop`, `enter_fault` | stopped means safe outputs; RUN means initialised and watched; cycles on the grid of the period |
| State machine (`plc-common/state.rs`) | current state, previous state, count | `transition`, `enter_fault` | only the transitions of its table |
| Software watchdog (`plc-runtime/watchdog.rs`) | last kick, `triggered`, `running`, `stop_requested` | `start`, `kick`, `reset`, `full_reset`, `stop`, `restart`, the monitor thread | a stall is noticed, soon; a loop that kicks is not disturbed; silence after `stop` |
| Fault recorder (`plc-runtime/fault_recorder.rs`) | ring of frames, `frozen` | `record_cycle`, `record_fault`, `freeze`, `reset`, the two orders of reading | it shows the newest frames in order, the fault last |
| Metrics (`plc-common/metrics.rs`), diagnostics (`plc-daemon/diagnostics.rs`) | ring of samples, extremes, sum, counters | `record`, percentiles | statistics of the cycles that were run |
| Wasm host (`plc-runtime/wasm_*.rs`) | module, instance, memory, host state, fuel, epoch deadline | `load_module`, `init`, `step`, `fault`, `reload_module`, the ticker thread | ready means whole; budgets are kept; a reload keeps the program's state |
| Daemon (`plc-daemon/main.rs`) | failure count, failure streak, grace period, cycle limit | `run_scheduler_loop` | zeros while the bus fails; ends when told; ends safe |
| Signal handling (`plc-daemon/signals.rs`) | static flags, `shutdown_requested`, `reload_requested` | three handlers, the poll thread | no request is lost |
| Modbus driver (`plc-fieldbus/modbus.rs`) | connection, attempts, transaction id, inputs, outputs | `set_outputs`, `exchange`, `shutdown`, reconnection | what it read is fresh, what it wrote has landed |
| EtherCAT driver (`plc-fieldbus/ethercat.rs`, `slave_config.rs`) | master state, network, process image, working counter errors | `init` in five steps, `set_outputs`, `exchange`, `shutdown` in four | the master's state is the slaves'; a good exchange moved everything |
| Distributed clocks (`plc-fieldbus/dc_sync.rs`) | reference, correction, statistics | `initialize`, `update`, `clear` | the correction settles and does not overshoot |
| Function blocks (`plc-stdlib`) | per instance: previous input, elapsed time, count | `call`, `reset` | IEC 61131-3 semantics, also at the limits of the integers |
| Web UI (`plc-web-ui`) | shared state under locks, broadcast channel, a page per client | `set_runtime_state`, `record_fault`, snapshots, WebSocket, Prometheus counters | a page that is up to date shows the state; no recent fault is missing |
| Compiler (`plc-compiler`) | none | parse, type-check, lower, emit | the code computes what the program says |
| Hardware watchdog, real-time setup, tooling | – | system calls, build helpers | not modelled (section 8) |

How they interact. The main thread owns the scheduler and the fieldbus driver
(`&mut`), so their operations never overlap; within a turn of the loop it first
passes the image's outputs to the driver, exchanges, stores the driver's inputs
in the image, and calls `run_cycle`, which kicks the watchdog, reads the inputs,
calls the Wasm program and writes the outputs. The watchdog's monitor thread
shares three atomics with the main thread, the epoch ticker a counter of the Wasm engine.
A signal handler sets a static flag; the poll thread moves it into the shared
`SignalState`; the main thread looks at that at the top of the loop. The web UI is told of
state and faults by calls from the main thread and sends them to its clients through a
bounded channel. The compiler and the runtime meet in the memory layout and the host
functions of the Wasm module.

## 2. What is hard about it

* **Lock-free sharing.** A read of the image is a copy of many words with no
  lock; commits land in the middle of it. The watchdog's flag and time stamp are
  two atomics that two threads read and write in different orders.
* **Orders of calls nobody tests.** `enter_fault`, `stop`, recovery from FAULT, a second
  `start` after a failed one, a restart of a watchdog that has triggered; `init` of a bus
  after a failed `init` or half a `shutdown`; a reload between a load and an `init`.
* **Partial failure.** An exchange writes the coils and then fails at the
  registers, or its answer is lost; one slave follows a request and another does not;
  `Watchdog::start` fails after PRE_OP.
* **Retries.** The failure counter, the streak flag and the grace counter together
  decide when logic outputs may reach the device again; the working counter and the
  reconnection attempts count what must be in a row.
* **Answers out of step.** A late, doubled or wrong answer must not pass for another one.
* **Requests that cross threads** while the loop is in a failure streak, in a
  cycle, or leaving; clients of the web UI that fall behind.
* **Budgets.** Fuel, epochs and host calls limit a program that may trap or loop anywhere.
* **Boundaries.** Cycle 0, limits of 0 meaning "unlimited", the wrap of two rings, slaves
  without inputs or outputs, timers and counters at the end of their type.
* **Translation.** Widths, offsets, labels and precedence have to agree between parser,
  checker, code generator and the meaning of the program.

`PROJECT.json` lists each hazard with the line where it bites and the properties
that cover it.

## 3. The modules

An arrow points from a module to one it uses.

```
MCSeqlockBuffer -> SeqlockBuffer -- refines --> AtomicImage      SeqlockBuffer_proofs
MCScheduler     -> Scheduler     -- refines --> SafeOutputs      Scheduler_proofs
                            `-- instance -> Alarm
MCDaemon        -> Daemon        -- instance -> Scheduler        Daemon_proofs
                            `-> Landing           (with an instance of Scheduler_proofs)
MCWatchdog      -> Watchdog      -- refines --> Alarm            Watchdog_proofs
MCModbus        -> Modbus                                        Modbus_proofs (-> Landing)
MCEthercat      -> Ethercat                                      Ethercat_proofs
MCWasmHost      -> WasmHost                                      WasmHost_proofs
MCUnits         -> Units                                         Units_proofs
                     -> CycleTiming -> CycleMetrics
                            `-- refines --> SlidingWindow
                     -> FaultRecorder -- refines --> SlidingWindow
                     -> WebState      -- refines --> SlidingWindow
                     -> DcSync, Timers, Counters, Latches
MCCompiler      -> Compiler -> StLowering -> StTypes -> StParser
                                                    `-> StLayout (in Units_proofs)
                -> MCPrograms -> StReference -> StParser
```

Four modules say what others promise: `AtomicImage` (one value, published whole), `SafeOutputs`
(what the logic drives while live, the policy's safe value while stopped), `Alarm` (armed by
`start`, disarmed by `stop`, raised only in between) and `SlidingWindow` (the newest items in
order). `Alarm` is used from both sides: the scheduler's watchdog moves by its actions, and the two
threads of `Watchdog` implement it. `StReference` says what a program means. An operator commented
*Mutant* is a plausible mistake in the definition below it; putting it in that definition's place
makes the property named in section 4 fail, which is how each property is known to look at the code
it is about.

### AtomicImage, SeqlockBuffer (`io_image.rs`)

`IoImage` owns two buffers of one type with no shared state, so one is modelled.

| Code | Model |
|---|---|
| `sequence`, `front_idx`, `buf0`/`buf1` | `sequence`, `front_idx`, `buf[0]`, `buf[1]` |
| `begin_write` (`fetch_add`, hand out the back buffer) | `BeginWrite(v)` |
| the caller's closure, a field at a time | `StoreWord(w)` |
| `commit`: swap, then `fetch_add` | `CommitSwap`, `CommitSequence` |
| `read`: first load, front index, copy, second load | `CallRead`, `LoadSequence`, `LoadFront`, `CopyWord(r, w)`, `CheckSequence` |

The copy of `ProcessData` is not atomic and is one step per word. The source asks for
`Acquire` on the second sequence load, which orders *later* accesses behind it; the copy
stands *before* it and nothing orders the two, so compiler and processor may delay loads of
the copy past the check. A reader in the constant `InOrder` has copied every word when it
checks; any other may have words left, which it loads after a check that succeeded (the
program counter `"late"`), at any time. The writer's stores are taken in their order
(section 8). Each closure in the repository stores every field of its
direction, which `BeginWrite` relies on (`todo' = Words`). Spinning on an odd
sequence changes nothing and is no step.

### SafeOutputs, Scheduler (`scheduler.rs`, `state.rs`, `fault_recorder.rs`)

`Scheduler` has one action per public operation, and one per way `run_cycle` can
end; an operation refused with `Err` changes nothing and is no step.

| Code | Model |
|---|---|
| `StateMachine.current`, its table | `st`, `CanTransition` |
| `fault_policy`, `set_watchdog` | `config`, chosen in `Init` |
| `io` outputs, `last_outputs` | `out`, `lastOut` |
| `Watchdog.running`, `.triggered` | `wdRunning`, `wdTriggered`, an instance `Wd` of `Alarm`; raised by `WatchdogTriggers` |
| `FaultRecorder` | `rec`: frozen, fault frame, number of the newest normal frame |
| `initialize` | `InitializeBegin`, `InitializeEnd` (around `engine.init()`) |
| `start` | `Start`, with the outcomes of `Watchdog::start` |
| `run_cycle` | `CycleWatchdogTimeout`, `CycleLogicError`, `CycleCompletes(o, critical)` |
| `stop`, `enter_fault` | `Stop`, `ExternalFault` |

The engine is external to the module: it is `loaded`, `ready` or `faulted`, `init()`
and `step()` may fail at any time, and the outputs of `step()` are arbitrary
(`WasmHost` is the engine). Time appears only as its outcome, `critical`: the cycle was
longer than the period plus `max_overrun` (`CycleTiming` is the time). `faults` is a
history variable with the first and the last fault.

### Daemon (`main.rs`, `signals.rs`)

The loop around an instance of `Scheduler`. `pc` is the main thread's place in
`run_scheduler_loop`:

| `pc` | Code |
|---|---|
| `connect`, `initialize`, `start` | `fieldbus.init()`, `scheduler.initialize()`, `scheduler.start()`; an error returns at once (`aborted`) |
| `top` | condition, shutdown check, reload request, `set_outputs` (skipped in a streak) |
| `exchange` | `exchange()`: `ExchangeOk`, `ExchangeFails`, `WkcExceeded` |
| `safe` | the exchange that sends zeros after a failure, then the limit |
| `resume` | the extra exchange that sends logic outputs when the streak ends |
| `cycle` | inputs, `run_cycle()`, cycle limit |
| `stop`, `shutdown`, `done` | `scheduler.stop()` and the state for the web UI, `fieldbus.shutdown()` |

`drvOut` is the driver's pending outputs, `devOut` what the device holds, `leftover` the
words that the device has been sent by exchanges that failed and may still take over. An exchange
that returns Ok leaves its image in the device and no word behind (`Delivered`). One that fails
adds its words to `leftover` (`Undelivered`), and `LateWrite` is the device taking one of them, at any
time, as often as it likes: during the exchange that sent it, or cycles later on the
same connection, as after a header that does not match (`modbus.rs:407`). The operators are
those of the module `Landing`, to which the Modbus driver is proved to keep. The poll thread
takes one flag per step, in the code's order. `okRun`, `badRun` and `lateCycles` are
history variables. The main thread's single steps are as large as the calls they stand
for: `SeqlockBuffer`, `Watchdog`, `Modbus`, `Ethercat` and `WasmHost` model what happens
inside.

### Watchdog (`watchdog.rs`)

Two threads, one atomic operation per step. Time stamps are ages (`kickAge` is
*now* minus `last_kick_ns`) which `Tick` advances; `kick` is two steps, because the
clock is read before the store, and so is `is_timed_out`, because `last_kick_ns` is
loaded before the clock is read. `prompt` is chosen once: TRUE is a machine on
which threads run without delay, as the real-time setup is meant to provide; FALSE
lets a thread be preempted between any two operations. `stop` joins the monitor.
`full_reset` is called after `stop`, as its comment asks.

### Modbus (`modbus.rs`)

The driver's side of one connection, with the server, the network and the field
around it. `exchange` reads the digital inputs, then the analog ones, then writes the
digital outputs, then the analog ones, as far as they are mapped; `req` is the word in
turn, and `result` is `"busy"` until the call returns.

| Code | Model |
|---|---|
| `state`, `connection`, `reconnect_attempts`, `next_reconnect_time` | `state`, `open`, `attempts`, `retry` |
| `set_outputs`, then the entry of `exchange` | `Exchange(o)`: `Connected`, or `try_reconnect`'s `GiveUp`, `Defer`, `Reconnect`, `Refused` |
| `send_request`: write the request | `Send`, `SendFails` |
| read the header and the PDU, time-outs included | `ReceiveFails`, `HeaderMismatch`, `ReadGarbage` |
| exception, function code and size; `read_bits` .. `write_registers` | `AnswerRejected`, `AnswerAccepted` |
| `shutdown` | `Shutdown` |

`wire` holds the requests the server has not answered and `stream` the answers the driver has not
read. A header that does not match ends the call and leaves the rest of that answer unread: from
then on the stream is `garbled`, and what is read for a header is the middle of an answer; the
requests already sent stay in `wire` and are executed all the same. The model says it never looks
like the expected header (it would need the id, a zero protocol id, the unit id and a length that
fits at once). A read of garbage may succeed before the server has answered, as it does when the
rest is long. A word is one value: packing, addresses and quantities are left out. `Misbehave` is
what the mock server of the tests can do (exceptions, wrong ids, wrong functions, silence), and a
gateway that answers twice; each use, each refused connect and each broken connection costs one of
`MaxFaults`. `field` may change at any time. `seen`, `before`, `inStep` and `refused` are history
variables.

### Ethercat (`ethercat.rs`, `slave_config.rs`, `dc_sync.rs`)

The master over one of two transports: `"simulated"` is any transport that does what it
returned Ok for (the repository's own and those of its tests), `"soem"` differs where the
code of `SoemTransport` does.

| Code | Model |
|---|---|
| `state`, `network`, `process_image`, `dc`, `consecutive_wkc_errors` | `state`, `slaves`, `image`, `dc`, `wkcErrors` |
| the transport and the slaves behind it | `up`, `al`, `device`, `field` |
| `init`: scan, `configure_slaves`, `configure_dc`, `enter_safe_op`, `enter_op` | `CallInit`, `Scan`, `ConfigureSlaves`, `ConfigureDc`, `EnterSafeOp`, `EnterOp`; `call` is the step that comes next |
| `recalculate_offsets`, the expected working counter | `Sums`, `Offset`, `Size`, `Shares`, `Wkc`, `ExpectedWkc` |
| `set_outputs`, `get_inputs` through the image's digital and analog channels | `SetOutputs`, `Reached` |
| `exchange` | `WkcMatches(R, W)`, `WkcError(R, W)`, `ExchangeFails` |
| `shutdown`, one state at a time, and `close` | `CallShutdown`, `Lower`, `Close` |

In an exchange the slaves `R` send inputs and `W` take outputs; each contributes to the
working counter what the code adds for it. Each failure costs one of `MaxFaults`, so the
model tells the failures of the bus from those the code makes of its own state.
`SoemTransport::set_state` only logs that slaves have not followed (`Partly`). `clean`,
`missed` and `stale` are history variables.

### WasmHost (`wasm_host.rs`, `wasm_imports.rs`, `wasm_memory.rs`)

| Code | Model |
|---|---|
| `module`, `instance` with its functions, `initialized` | `module`, `inst`, `initialized` |
| linear memory | `mem`: inputs, outputs, the program's data, the flag word, the cycle count shown |
| `HostState` | `host`: `cycle_count`, `first_cycle`, `host_call_count` |
| `EpochTicker`, `epoch_counter`, the store's deadline | `ticking`, `age`, `left` |
| `load_module`, `init`, `step`, `fault`, `reload_module` | `LoadModule`; `CallInit`..`InitReturns`; `CallStep`..`StepReturns`; `CallFault`..`FaultReturns`; `ReloadRefused`, `Reload`..`ReloadReturns` |
| what a program does inside | `Stores`, `CallsHost`, `Trap` |
| the ticker thread | `Tick`, between any two of them |

Programs differ in their exports and their size of memory; what they do is arbitrary, one
instruction at a time. Wasmtime itself (compile, instantiate, interrupt) is external. `ran`,
`burnt` and `hostCalls` are history variables of the call in progress; `begun` says that a step
has returned since the program was loaded, initialised or put in place afresh by a reload.

### The units (`Units`)

Small, mostly sequential parts. They share nothing here, so `Units` holds the
variables of all and lets one of them run in each behaviour; `MCUnits` gives the constants
their values. What a log has lost can only be said with a history beside it: `done` and `work`
of `CycleTiming` are the times recorded so far and their sum.

| Module | Code | State and actions |
|---|---|---|
| `FaultRecorder` | `fault_recorder.rs` | the ring; `RecordCycle`, `RecordFault`, `Freeze`, `Reset`; `Chronological` and `Recent(n)` are the two orders of reading |
| `CycleMetrics` | `metrics.rs` | the record `CycleMetrics` as a value; `RecordNs`, `Mean`, `Percentile` |
| `CycleTiming` | `scheduler.rs`, `diagnostics.rs` | the clock around `run_cycle`: `Enter` with its kick, `LogicFails`, `Execute`, `Wake` and `Return` of `wait_until`; the metrics and the diagnostics count what happens |
| `DcSync` | `dc_sync.rs` | `Initialize`, `Update` (filter and statistics), `Clear`; the host's clock and the bus's reference drift apart |
| `WebState` | `state.rs`, `websocket.rs`, `dashboard.rs`, `metrics.rs` of `plc-web-ui` | the daemon's update in two halves (`Begin` under the lock, `Send` to the channel), one client: `Connect`, `ReadPart` of its snapshot, `Opened`, `Receive`, `Lag`, `Disconnect` |
| `Timers` | `timers.rs` | `Scan` calls TON, TOF and TP with the same input; beside them the times measured from the edges |
| `Counters` | `counters.rs` | `Scan` calls CTU, CTD and CTUD; beside them the edges counted |
| `Latches` | `bistable.rs`, `triggers.rs` | `Scan` calls SR and RS with exchanged inputs, both triggers with one clock |

### The compiler (`plc-compiler`)

| Module | Code | What it is |
|---|---|---|
| `StParser` | `frontend/parser.rs`, `st.pest`, `ast.rs` | the grammar's rules and the tree they build, over sequences of tokens |
| `StLayout` | `typechecker.rs`, `ast.rs`, `ir.rs` | sizes of the types, widths of loads and stores, alignment and offsets of the declarations |
| `StTypes` | `typechecker.rs` | symbol tables (`Scope`), types of expressions, what is accepted |
| `StLowering` | `ir.rs`, `codegen.rs` | instructions for every statement and expression, resolution of calls, the module's exports |
| `Compiler` | `lib.rs` | the four stages as actions, then a Wasm engine that calls `step` several times on one memory |
| `StReference` | – | how a program is written as text, and its meaning as Structured Text, independent of the code |
| `MCPrograms`, `MCCompiler` | – | the programs, and the properties that compare code and meaning |

The engine is external. It checks what a validating engine would: an instruction whose
operands, label or stack are wrong is `stuck`. A byte has `Base` = 4 values instead
of 256, so that the ends of the types are near; application memory begins at 2 instead of
256 and is 40 bytes long. Tokens stand for text, and the trees keep parentheses, which
`MCCompiler` drops before it compares.

## 4. The runs

Sizes are distinct states. `daemon_safety` takes two to three minutes, every other run less than one.

| Run | Instance | Shows |
|---|---|---|
| `seqlock_safety` (356 000) | 2 words, 2 values, 2 writes, a reader with its loads in order and one without | refinement of `AtomicImage` for the first; when the second can be torn; `read()` returns although each write may invalidate a copy |
| `modbus_safety` (154 000) | 3 mappings, 2 values, 2 attempts, 3 faults, ids of 1 bit | what an exchange has read and written when it returns; that it returns; when the driver gives up; that it recovers while in step |
| `modbus_resync` | the same, 1 fault | *violation*: one wrong header, and no exchange succeeds again |
| `scheduler_safety` | all 9 policy combinations, with and without watchdog, 3 output values, 3 cycles, 2 lives | RUN is guarded, the first fault kept, refinement of `SafeOutputs` |
| `daemon_safety` (1 145 000) | failure limits 0 and 2, grace 0 and 2, cycle limits 0 and 1, outputs off or on, safe value on | the loop's bounds, its end, what reaches the device, and that requests are heard |
| `watchdog_safety` | timeout of 8 ticks, interval of 2, 2 starts, 1 reset, prompt and not | one callback per arming, watched while running, refinement of `Alarm`, detection |
| `ethercat_safety` (663 000) | 2 buses of 2 slaves, both transports, thresholds 0 and 2, 3 faults, clocks on and off | the honesty of the master's state, the working counter, good exchanges, `init` heals |
| `wasm_safety` (264 000) | 3 programs, 2 instructions per cycle, 1 epoch, 1 host call, with and without fuel | readiness, budgets, what reloads keep, that calls return |
| `wasm_overrun` | the same | *violation*: a loop is cut late by all the epochs counted before |
| `units` (554 000) | see below | the sequential units against what they promise |
| `compiler_safety` (13 000) | the programs of `MCPrograms`, 3 calls of `step` | the front end, the code, its stores, that it returns |
| `compiler_exit` | three programs with EXIT below an IF, or in the inner of two loops | *violation*: EXIT does not leave the loop |

Why the bounds are enough.

* *Seqlock.* Tearing needs two words. A reader that is overtaken needs the buffer it
  copies to become the back buffer and be filled: two writes, the second of which
  hits the copy. These are also what tears a read whose loads are delayed, and one write is
what `WholeUnlessOvertaken` says cannot. `ReadReturns` depends on the number of writes being finite: the code's
  reader has no bound on its retries, and a writer that commits during every copy starves
  it for ever. In the program the writer commits once per cycle, which lets the next
  attempt through.
* *Modbus.* The mappings are: reads before writes and two writes of which one may
  fail; one input alone, so that the answers of two exchanges have the same function;
  one output alone. Three faults let an outage, a short recovery and a second outage
  meet the limit of 2 attempts, or an answer out of step meet a lost connection. Ids
  of one bit wrap at every second request; the code's wrap after 65536.
* *Scheduler.* Three output values keep zero, the user's safe value and a driven value
  apart. Two lives are one recovery from FAULT, and a second fault. `cycles` stays
  at its bound when it gets there, so behaviours do not end at it.
* *Daemon.* A failure limit and a grace period of 2 are the least values with a failure, or a
  success, in the middle; 0 is the special case of both. `Zero` and the safe value differ, so that a
  property cannot confuse the zeros of a failure streak with the safe outputs of a stop. `MaxRun`
  saturates counters one above every limit. `leftover` needs no bound: it is a set of values per
  word. The process ends, so the run does not check deadlock; `RequestsAreHeard` says it does not
  end too early to be told.
* *Watchdog.* A timeout of 8 ticks makes the check interval 2, so a check and a kick
  fall into different orders at each boundary. Two starts are one restart. Ages
  above `AgeCap` all mean the same to every comparison.
* *Ethercat.* One bus has two slaves with inputs and outputs of different sizes and one
  clock, the other a slave without process data before one whose single byte no digital
  channel fits. Three faults are two initialisations that fail and an exchange. With a
  threshold of 2 an incomplete exchange can be followed by a good one, a failing call, a
  re-initialisation or the fault.
* *Wasm.* Two instructions let a program be interrupted between two of its effects, a call
  be followed by another over the limit of one, and fuel run out after neither. The ages
  told apart exceed the allowance. The three programs have every export; no `init`, no `fault`
  and less memory; no `step`. `Finish` clears the histories, so calls do not add states up.
* *Units.* Period 2 with a tolerance of 1, execution times at the tolerance and on both
  sides of it, and a sample ring of 2; a fault ring of 3 that wraps and whose count
  saturates; clock offsets on both sides of 0, a filter that divides by 4, and a start too near
  zero for the correction; a channel of 2 messages and 4 updates, so that a client can lag
  and reconnect; times, presets and counters up to and including the ends of their types, and
  negative ones. A unit stops at its bound, so the run does not check deadlock.
* *Compiler.* Every statement occurs as the body, the branch or the loop of every other it is
  interesting in, RETURN and EXIT with code behind them; operators occur in pairs of adjacent and
  of distant levels; declarations mix sizes so that the layout has gaps. Three calls of `step`
  show retained variables. Each mistyped program has one error, each broken text lacks one keyword.

What the properties say. Where a property is a conjunction, its parts are listed, with the
mutants that break the parts the listed mutant does not.

| Property | It says |
|---|---|
| `AtomicSpec`, `ReadReturns` | Reads whose loads are in order are of one instant; every read returns |
| `WholeUnlessOvertaken` | However late a reader's loads are done: unless a second write has begun since its first sequence load, it returns data of one write |
| `SafeOutputsSpec` | FAULT and SAFE_STOP mean safe outputs in the image, whatever the order of `stop`, `enter_fault`, recovery and failing cycles |
| `RunIsGuarded` | RUN means an initialised engine and a live watchdog |
| `FirstFaultKept` | The frame of the first fault is never replaced |
| `CyclesBounded` | `NoCycleAtLimit`: the logic does not run once the failure limit is reached; `OneLateCycle`: a shutdown request costs at most the cycle already begun |
| `CleanEnd` | After the shutdown sequence the state is FAULT or SAFE_STOP with safe outputs in the image, no monitor thread, and a web UI that shows that state |
| `StreakOnlyClears` | Nothing the logic computes during a failure streak reaches the device: in the streak a word of it becomes zero, or takes a value sent by an exchange that failed before the streak or began it, and only zeros are left behind from then on |
| `GraceServed` | A streak ends after as many consecutive successes as configured |
| `RequestsAreHeard` | `StopsWhenTold`, `ReloadTaken`: SIGTERM and a watchdog trigger end the daemon, a forwarded reload is taken, even if the fieldbus never works again |
| `OneCallbackPerArming` | The callback runs at most once per `start` or `reset` |
| `RunningIsWatched` | `running` outside `stop` means a monitor that will go on checking |
| `PromptlyRight` | On a prompt machine a stall is noticed within the timeout plus one check interval (`DetectionBound`; *TimedOutLate*), and a loop that kicks in time is left alone (`QuietWhenKicked`; *TimedOutEarly*) |
| `AlarmSpec`, `StallDetected` | The two threads implement `Alarm`: nothing triggers before `start` or after `stop` has returned, and the flag is lowered only by `start` and `reset`; on any machine a stall is noticed |
| `ExchangeLands` | An exchange that returned `Ok` has written every mapped output, and no request, of this or an earlier exchange, is still to be executed: what `Daemon` takes for granted (`Delivered`). One that failed has written nothing, the digital outputs, or all of them, if it began with no request unanswered |
| `InputsAreFresh` | What an `Ok` exchange stored was true in the field during that exchange |
| `GivesUpWhenRefused` | `Failed` takes as many refusals in a row as configured |
| `ExchangeReturns`, `Recovers` | A silent server does not hang the loop, and once nothing goes wrong any more a driver in step with its server exchanges again, or has given up |
| `StateIsHonest` | `InStepWithSlaves`: the slaves are where the master says (*RaiseAnyway*, *LowerAnyway*); `OpHasClock`: outputs are exchanged only with the clocks running (*ConfigureDcLeniently*); types (*NewImageOfInputs*) |
| `MissesAreCounted` | `FaultIsEarned`: a fault takes as many misses in a row as configured (*WkcMatchesKeepingErrors*); `StaleIsBounded`: `Ok` with old inputs comes fewer times in a row (*WkcErrorPastThreshold*) |
| `GoodExchangeIsWhole` | A matching working counter means that every byte of every slave has moved, to its own place |
| `InitHeals` | An undisturbed `init` succeeds, whatever came before |
| `EngineInv` | `ReadyIsWhole`: an engine that accepts `step` has the instance, with the exports, of the module it holds |
| `BudgetsKept` | `CallsWithinBudget` (*AllowedLate*): host calls of one call; `NotCutEarly` (*DeadlineNow*): a program is not cut before its epochs have passed; fuel is in the types (*AddFuel*) |
| `StateIsKept` | `FirstOnce` (*StepReturnsStayingFirst*): once a step has returned, no later one is told to be the first until the program is loaded, initialised or replaced afresh, by however many preserving reloads in between (of the first step after those section 7 speaks); `ReloadKeepsState` (*CarryImage*): the daemon's reload keeps memory, count and readiness |
| `CallReturns` | With fuel or with a ticker every call into a program returns |
| `TimingInv` | `OnTheGrid`: late wakes do not add up (*RearmFromNow*, *FirstDeadlineLate*, *WakeAfterPeriod*); `KicksInTime`: the distance of two kicks; `CountsAgree`: metrics and diagnostics count the same cycles (*DiagOverrunCritical*); `StatisticsHold`: extremes, mean, percentiles (*RecordNsFromZero*, *RecordNsAtEnd*) |
| `LogsAreWindows` | The ring of samples (*RecordNsAtEnd*), the recorder (*ResetKeepingCount*, *AdvanceLate*) and the web UI's fault list (*KeepNew*) implement `SlidingWindow`; of the recorder also `RecentIsReversed`: both orders of reading agree (*RecentFromZero*), and `FaultIsNewest`: the fault is the last frame and the only one with a reason (*RecordFaultAfter*) |
| `ClockInv`, `ClockSettles` | The statistics are of this session (*NewStatsFromZero*); the correction reaches the reference up to the filter's divisor (*FilteredTowardsZero*) |
| `WebInv` | `ShowsCurrent`: a page that has taken all its messages shows the shared state (*OpenedLate*); `ShowsRecentFaults` (*AddFaultUncut*, *AddFaultLast*); `CountersFollow`: Prometheus (*CountedNoReset*) |
| `BlocksInv` | TON, TOF and TP against the time since the edges (*TonCallRetentive*, *TofCallAgain*, *TpCallRetriggered*); counters against the number of edges (*CtuCallLate*, *CtudCallOneEdge*); latches as each other's complement (*SrCallReset*) |
| `UnitSteps` | A counter does not wrap (`NeverWraps`; *UpWrapping*, *UpUnbounded*); triggers report each edge once (`EdgesAlternate`; *RTrigCallKeeping*); no update takes the clock past its reference (`NeverOvershoots`; *FilteredTwice*) |
| `FrontEndIsRight` | The parser reads back the program that was written (*LevelsEqual*); exactly the broken and mistyped programs are refused |
| `CodeIsRight` | No instruction finds the wrong operands (*BinaryOpNarrow*); after each call every variable has the value the program gives it (*LiteralNarrow*, *ElementAddressByIndex*) |
| `StoresInOneVariable`, `StepsReturn` | A store changes bytes of one variable only; every call of `step` returns |

## 5. Fairness

* *Seqlock.* A thread inside `begin_write`..`commit` or inside `read` keeps running
  (the writer's code between the two is straight-line). Nobody has to start a
  read or a write.
* *Daemon.* Weak fairness on the main thread's steps from `top` on: the driver's
  sockets have time-outs, and `engine.step()` is cut off by the epoch ticker. Not on
  start-up: the ticker is started after `initialize()` (`main.rs:1118`), so only fuel,
  which a configuration may turn off, bounds a Wasm `init()`. Weak fairness on the poll
  thread. None on signals, on the watchdog, or on the choice between the outcomes of an
  exchange: it may fail for ever.
* *Modbus.* The daemon calls `exchange` in every turn of its loop; the driver's thread runs;
  sockets have time-outs, so `ReceiveFails` happens when nobody will answer; the retry delay
  passes. The server executes and answers, except where it is at fault; faults
  are free to happen or not. `ExchangeReturns` is what the fairness of `Daemon` rests on.
* *Watchdog.* Time passes, and the monitor is scheduled. The owner may hang
  anywhere, which is what the watchdog is for; only on a prompt machine does a
  call of `kick` that was begun end.
* *WasmHost.* The ticker's thread is scheduled; Wasmtime interrupts code that has no fuel or no
  epoch left; with fuel, code that executes burns it. Without fuel a program may loop for
  ever, which is why `CallReturns` asks for fuel or a ticker.
* *DcSync.* A running master updates its clock: the daemon exchanges in every turn of its loop.
* *Compiler.* The engine executes. The compiler itself is a function and needs no fairness.
* *Ethercat*, *Scheduler* and the other units have no liveness property and no fairness.

## 6. The proofs

Eight modules, proved for every value of the constants that meets the named assumptions (`Zero` and
`UserSafe` are output values, policies are the code's policies, limits and bounds are natural
numbers, the failure limits and grace periods are below the bound at which their counters saturate,
the clock's differences fit its word). The assumptions are in the modules that declare the
constants, and TLC evaluates them in every run.

**`SeqlockBuffer_proofs`**: any number of words, values, readers and writes, and any of the readers
with delayed loads; there is no hypothesis about the order of loads, only `InOrder` says of whom a
theorem speaks. Atomicity is not inductive. What makes it so, for every reader, is `CopyIsFront`:
until a second write begins, what it has copied is what its buffer holds, and that buffer is the
front buffer or was until the first write's swap (`CopiesFrom`). That in turn needs `SequenceParity`
(an even sequence means that no writer is inside), `BackFilled` (what a commit publishes is what the
closure stored) and `Committed` (both buffers hold what was committed, but for the one being
filled). `Inductive` proves `IInv`. `TornOnlyWhenOvertaken` is the result for every reader: a
delayed load is harmless as long as only one write has begun since the first sequence load, because
that write fills the other buffer. `ReadsAreWhole` proves `NoTornRead`, and `Refinement` that every
step is a step of `AtomicImage` or a stutter, both for the readers in `InOrder`: a read takes effect
at its second sequence load, a write at the swap of `front_idx`.

**`Scheduler_proofs`**: any outputs, policies, and bounds. `IInv` adds to the safety
properties that PRE_OP is reached only with an initialised engine (`PreOpReady`), that
`initialize()` is interrupted only in INIT (`InitializingInInit`), and that the recorder
is frozen exactly when there was a fault, by the first (`FrozenByFirst`). One lemma
per action; the theorems are `TypeCorrect`, `StoppedIsSafe`, `RunningIsGuarded`,
`FirstFaultIsKept` and `Refinement` (of `SafeOutputs`).

**`Daemon_proofs`**: any limits, grace periods and output images. `LoopIInv` is about the loop's own
bookkeeping and assumes nothing of the scheduler, whose steps it leaves open: the failure counter
covers every failure in a row and is below the limit wherever a cycle can follow
(`FailuresCounted`); what is left of a grace period and the successes so far make up the whole
(`GraceCounted`); zeros are pending in a streak (`StreakPendsZero`); a cycle that ran after a
shutdown request leads to the top of the loop or out of it (`LateCycleLast`). From it follow
`ZerosPend`, `LimitStopsLogic`, `LateCycleBound`, `FewCycles`, `GraceIsServed` and, with the types
of `leftover`, `NoNewOutputLands`, which assumes nothing of when the device executes what it was
sent. `LifeIInv` relates the stage of `run_daemon` to the scheduler's state, on top of the
scheduler's own invariant; from it follow `StagesHold` and `EndsClean`. `TypeCorrect` is separate.

The daemon's scheduler is the one of `Scheduler`, and its theorems are used, not proved again:
`Daemon_proofs` takes an instance `SP` of `Scheduler_proofs` and meets its assumption with the daemon's
own (`ProvedScheduler`). That the instance is entitled to them is `SchedulerImplemented`: every step of
the daemon, whether of the main thread, the poll thread, the watchdog or the bus, is a step of the scheduler
or leaves it alone. From it follow, for the whole daemon, `DaemonStopsSafe`, `LoopIsGuarded`,
`DaemonKeepsFirstFault` and `DaemonKeepsPromise` (the refinement of `SafeOutputs`).

**`Watchdog_proofs`**: any timeout, any floor of the check interval. `IInv` has four parts.
`MonitorLife` relates `running`, `stop_requested` and the life of the thread. `CallbacksDue`
counts the callback that is due and the one the lowered flag still allows as if they
had run: each is paid for by a `start` or a `reset`. `PromptAge` bounds the age of the last
kick by what the monitor is about to do (asleep: what is left of the interval goes on
top). `LateKnown` says that the monitor acts only on a lateness that was real. The
theorems are `TypeCorrect`, `RunningWatched`, `CallbacksPaid`, `StallNoticed`, `KickedIsQuiet`,
`PromptBounds` and `AlarmKept`; the timing results are for prompt threads, as their
statements say. `AlarmKept` is the refinement of `Alarm`, the abstraction `Scheduler` builds on: the
monitor's compare-and-swap and the owner's stores, in any interleaving, never raise a
watchdog that is not armed, because the thread is joined before `running` is down.

**`Modbus_proofs`**: any mapping, number of attempts and faults, any id space of at least two.
`LinkIInv` is about the connection: requests are made only in a call, a call goes on only with an
open stream (`BusyIsOpen`), and the attempts are the refusals since the last connection
(`AttemptsAreRefusals`); from it follow `KnowsItsLink`, `GivesUpLate` and `GivesUpForGood`.
`ExchangeIInv` is about the queues and the device: as long as the bytes are in step, what is under
way belongs to the last request (`OneUnderWay`); the device follows the requests of the exchange one
by one, and an answer tells what has been done (`DeviceFollows`); the inputs read so far are of this
exchange (`ReadsAreFresh`); and a failed exchange leaves at most one request behind (`LateRequest`).
From it follow `FreshReads`, `Lands` and `TypeCorrect`. `LandsAsTheDaemonAssumes` speaks in the
daemon's terms, with the driver's mapped words as an image, of exchanges that begin in step or out
of step: one that returns Ok has delivered its image and left nothing behind; the device changes
only by a write left behind; and nothing but words of the image being exchanged is added to these.
These are `Delivered`, `LateWrite` and `Undelivered` of `Daemon`.

**`Ethercat_proofs`**: any networks of any number of slaves of any sizes, any thresholds
and faults. `IInv` says that the steps of `init` come in their order (`StepsInOrder`) after a scan
whose results stay as they are (`Scanned`, `ScannedFirst`), that nothing above PRE_OP is
reached without clocks (`ClockRuns`), and that the error counter lies between what the
caller was not told and what was missed (`MissesCovered`). `WholeExchange` needs more: that a
working counter equal to the expected one leaves no slave out, and that the offsets are
disjoint. Both are about sums over the slaves; `Sums` is a recursive function, and facts about it
are proved by taking the least index at which they fail.

**`WasmHost_proofs`**: any programs and limits. `IInv` says that the instance is one of the
module held (`InstanceIsWhole`), that the host's count covers the call in progress
(`CallsCounted`), that the ticks since the call and those to its deadline make up at least a cycle's
epochs (`DeadlineAhead`), and that the first-cycle flag is down once a step has returned
(`FirstIsOver`). From it follow `EngineIsSound`, `Budgets` and `StateKept`.

**`Units_proofs`**: any periods, tolerances and times, sizes of the rings, ranges of the integers,
filters, offsets, channels and lists of faults. The units are proved together, because one
specification runs them: `EachMoves` says that a step of `Units` is, for each unit, a step of its own
or a stutter, and each unit then has an inductive invariant of its own.

* *Recorder.* The position follows the count until the ring is full (`PositionFollowsCount`) and the
  frame with a reason is the last written (`FaultIsLast`). The lemma `Chronology` turns the
  remainders into slots: no slot is read twice and the last one is the newest. From it follow
  `RecorderIsRight` and `RecorderIsWindow`, the refinement of `SlidingWindow`.
* *Timing.* The deadline is the start plus whole periods, and where the caller is in `run_cycle`
  bounds how late it can be (`OnSchedule`); the slot of a sample is that of the last cycle that
  wrote there (`RingHoldsLast`); the extremes have been measured, and bound the sum
  (`ExtremesHold`). A percentile is defined by counting the samples below it: that one of them has the
  rank asked for (`RankExists`) is shown from the least number that is not too small. The theorem is
  `TimingIsRight`.
* *Clock.* The correction lies between offsets the reference has had (`CorrectionIsBetween`), so the
  difference that is filtered is in range; the rounding down of the filter does the rest. The
  theorem is `ClockIsRight`; `NeverOvershoots` follows and is part of `UnitsStepRight`, with
  `NeverWraps` and `EdgesAlternate`.
* *Function blocks.* The inputs the blocks remember are the ones they were called with last
  (`InputsSeen`, `EdgesSeen`, `TriggersAgree`), and elapsed time and count stand for the times and
  edges beside them as long as these are not past a limit (`TonFollows`, `TofFollows`,
  `SumsInRange`). The theorem is `BlocksAreRight`.
* *Web UI.* What a page shows depends on a snapshot read in four parts and the messages after it. The
  invariant says of each part: a value that no later message will change is already the shared one,
  in the message, in the snapshot and on the page (`MessagesCarry`, `SnapshotHolds`, `PageHolds`, where
  `Silent` is *no later message*). For faults it has to say where they are in the list: a fault the
  page needs is at most `FullFaults + k - j` from its top, so that the cut at `PageFaults` loses none;
  this is where `2 * FullFaults <= PageFaults` is used (5 and 10 in the code). A fault bears the number
  of its message (`FaultsNumbered`), and no other message has it (`OthersBringNone`): without the
  second part the invariant is not inductive, which the proof found. The theorem is
  `WebIsRight`.
* *Layout.* The compiler's offsets, as functions of the declarations. `Align` masks bits, and its
  mask is not one less than a power of two when an array has 3, 5, 6 or 7 bytes; that it moves up by
  less than the size, and to a multiple of the element all the same, is arithmetic about the three
  bits of the mask (`CommonBounds`, `AlignBounds`, `AlignNatural`). `NextOffset` is a recursive
  function; facts about it are proved by the least index at which they fail (`NextOffsetExists`,
  `PlacesGrow`). The theorems are `VariablesApart` (no two variables share a byte, a name declared
  twice included), `VariablesAligned`, and `StoresStayInside`: a store to any element of any
  variable writes bytes of that variable only. They hold for any number of declarations of positive
  size (section 7 says why positive), while `StoresInOneVariable` checks the programs of
  `MCPrograms`. Not covered are an index outside the array, which the code does not check, and the
  FOR variable, whose store is 32 bits wide whatever its type.
* *Logs.* `LogsAreRight`: the sample ring, the recorder's ring and the web UI's list are each a
  `SlidingWindow` of what was put into them, and the recorder's frames are read alike in both orders.

*Model-checked only*: liveness and everything that rests on fairness or `ENABLED`, which is outside
the prover's reach (`ReadReturns`, `ExchangeReturns`, `Recovers`, `RequestsAreHeard`, `StallDetected`,
`CallReturns`, `ClockSettles`, `StepsReturn`); what the compiler makes of a whole program
(`FrontEndIsRight`, `CodeIsRight`, `StoresInOneVariable`), because its modules are recursive over trees
(RECURSIVE operators and structural induction are out of the prover's reach as well), except
for the layout above, which is a function of the list of declarations; and the counterexamples.

## 7. Where the code and its documentation disagree

Each of these has a run whose counterexample shows it.

* A header mismatch keeps a connection that is out of step for ever (`modbus.rs:407`): the
  driver does not recover when the server does (`modbus_resync`).
* The epoch deadline is computed as an absolute number (`wasm_host.rs:463`) and passed to a
  function that takes a distance, so the allowance of a step grows with the age of the
  process (`wasm_overrun`). `Daemon`'s fairness survives it: a step is cut late, but it is cut.
* EXIT branches by the number of loops, where Wasm counts labels (`ir.rs:448`): below an IF
  it starts the loop again (`compiler_exit`).

These were seen while modelling and have no run.

*Runtime*

* The second sequence load does not keep the copy before it (`io_image.rs:183`), although the
  comment at line 287 promises a consistent read: where loads are delayed (aarch64 allows it) a read
  that two writes overtake can be torn. State `NoTornRead` of all `Readers` to see it;
  `WholeUnlessOvertaken` says how far the second buffer helps. `read` also races with
  `begin_write` (`io_image.rs:177`): the writer touches what *was* the front buffer when the
  reader looked. The copy is thrown away, but the accesses are plain.
* A fault after a recovery is not recorded (`fault_recorder.rs:261`), where lines 3–5 promise
  the frames before a fault: nothing on the way FAULT, INIT, PRE_OP, RUN unfreezes the recorder.
* A cycle that fails in the logic is recorded under the previous cycle's number
  (`scheduler.rs:267`, against `fault_recorder.rs:253`).
* A graceful stop puts the safe outputs in the image only (`main.rs:1355`, against
  `state.rs:28`): no exchange follows, and the device keeps what the logic last drove.
* A fault raised inside `run_cycle` never reaches the web UI's fault list (`main.rs:1299`).
* After a failed exchange `run_cycle` executes on the inputs of an earlier exchange.
* A monitor preempted between its load and the clock triggers on a healthy loop
  (`watchdog.rs:67`); this is why `QuietWhenKicked` asks for a prompt machine. `reset()` clears
  the flag before it kicks (`watchdog.rs:175`): a check in between raises it again, and the
  acknowledgement is lost. `OneCallbackPerArming` allows it, since the flag stood lowered in between.

*Wasm host*

* A reload without preserved memory whose `init` traps has already replaced the program
  (`wasm_host.rs:803`), where the comment says that the old module remains active on an error
  (`wasm_host.rs:86`). The engine still accepts `step`, of a program that is not initialised.
* `first_cycle` is not reset by a second `init` or by `load_module` (against `wasm_memory.rs:85` and
  `wasm_imports.rs:309`), and an `init` with a preserving reload before the first step tells no step that
  it is the first. `FirstOnce` takes no side in this: it speaks only of the steps after the first.
* `host_call_count` is reset by a good step only (`wasm_imports.rs:139` says for each new cycle): after an
  `init` or a trap the next call begins with less than its budget. `BudgetsKept` bounds calls from above.
* `init()` runs before the ticker is started (`main.rs:1118`) and before any signal is looked at: with
  `use_fuel` off a program that loops in `init` hangs the daemon. `CallReturns` asks for fuel or a ticker.
* A `fault()` whose exported function traps returns before it zeroes the outputs; a second
  `init` that fails leaves the engine initialised; the limiter's "only allow a single
  instance" (`wasm_imports.rs:121`) is not enforced.

*Fieldbus*

* `docs/fieldbus-setup.md:244` says that a fault is triggered when the reconnection attempts are
  exceeded. The driver only returns errors; it is the daemon's failure limit that makes
  a fault of them, and with a limit of 0 nothing does.
* `exchange` of the EtherCAT master faults when the consecutive mismatches *reach* the threshold
  (`ethercat.rs:508`), where its comment says *exceed* (`ethercat.rs:472`).
* After a header mismatch the requests already sent are executed while the driver has returned an
  error (`modbus.rs:407`): in a failure streak a device word may still take an output that the logic computed
  before it, over the zeros sent since, until an exchange returns Ok.
* `SoemTransport` leaves the PDO lists empty (`ethercat.rs:1172`), so all sizes and the expected
  working counter are 0, and a healthy bus faults. Its `set_state` only warns when slaves have not
  followed. For `"soem"` only the properties that survive this are claimed.
* `consecutive_wkc_errors` survives a re-initialisation, `record_timeout` is never called,
  `FrameStats.min_rtt` uses 0 for "unset" (`ethercat.rs:55`), and an image of less than 4 bytes drops the
  digital channel. A `shutdown` that fails half-way leaves the slaves where they are, with the
  transport open, against `lib.rs:118`. The daemon maps the EtherCAT configuration to the
  simulated driver (`main.rs:1054`).
* `deviation.abs()` overflows at the least `i64` (`dc_sync.rs`), and the simulated clock advances
  with every read.

*Function blocks and web UI*

* A new counter has `Q = FALSE` at `CV = 0`, a counter after `reset()` has `Q = TRUE`. At the upper
  end of the type a CTUD that sees both edges in one scan loses the up edge.
* A page may list a fault twice (it subscribes before its snapshot is read, and keeps its list
  over a reconnection), and after `Lagged` the state badge may stay old until the next change
  (`websocket.rs:63`). `broadcast_full_state` and the client counter are unused; the state
  codes in the comment of `metrics.rs:23` are not those of line 88.

*Compiler*

* A call as a statement always emits `Drop`, also after `write_do` and `write_ao`, which return
  nothing: the module is invalid, so no program can drive an output through the host functions.
  Functions of the program get the type `() -> ()` and cannot be called either.
* CONTINUE in a FOR loop restarts it without the increment, and below an IF does nothing; a FOR
  loop with a negative BY never runs, its bound is evaluated again in each iteration (`ir.rs:549`), and its
  variable is loaded and stored as 32 bits whatever its type, over its neighbours.
* An array whose elements have no size of their own (a named type, an unsized STRING; `ast.rs:336`) is given
  4 bytes altogether (`typechecker.rs:495`), while each element is accessed at 4 bytes from the last
  (`typechecker.rs:713`): its elements lie over the variables behind it. DATE, TIME_OF_DAY and
  DATE_AND_TIME have 8 bytes (`ast.rs:333`) and are loaded and stored as 4.
* Initial values are never emitted; CONSTANT variables can be assigned; duplicate declarations are
  accepted; an array whose upper bound is one below its lower has size 0 and alignment 0, and
  `alignment - 1` (`typechecker.rs:499`) panics in a debug build and in a release build makes a mask
  that puts the variable, and the ones after it, at 0; all POUs share offsets from 256 on, where the
  ABI documents 80; two PROGRAMs export `step` twice.
* Unary minus of an integer is dropped; unsigned types are sign-extended and compared as signed; 64-bit
  comparisons and MOD are emitted as 32-bit; a literal assigned to LINT has the wrong width; `**`
  yields 1; the lower bound of an array is ignored and nothing checks the upper; a store to a field
  goes to address 0.
* `T#100ms` is not parsed (the grammar tries the unit `m` first), TIME_OF_DAY and DATE_AND_TIME
  are shadowed by their prefixes, and `RETURN END_IF` swallows the keyword. The grammar's keywords
  match the beginning of a longer word: `notify` is read as `NOT ify`, an identifier that begins with TRUE or
  FALSE is not parsed in an expression, nor a type name that begins with an elementary type's.
  `STRING[n]` is refused, and `WSTRING` is read as STRING, because the names leave no pair
  (`parser.rs:283`).

## 8. What is not modelled

* **Pure I/O**: the hardware watchdog, the real-time setup, the HTTP handlers and static pages,
  the CLI's other subcommands, the build helpers; diagnostics counters that nothing reads.
* **Data**: parsing of the configuration, `previous` and `transition_count` of the state machine, the
  bit and word accessors of `ProcessData` (exclusive, plain indexing), the encoding of Modbus frames
  and of PDO entries, histogram buckets, the delay table of the distributed clocks, offsets within
  the process image of a Wasm program.
* **Late execution across connections.** A request may be executed after its call has failed, on the same
  connection in `Modbus` and at any time in `Daemon`. What is left out is its execution after the
  connection was closed (`Modbus`, where `Lose` empties `wire`) and after a later exchange has returned Ok
  (`Daemon`, where `Delivered` leaves nothing behind): nothing in the driver could tell.
* **The order of the seqlock writer's stores.** The closure's stores are taken to stay behind the increment
  of `begin_write`. `Release` alone does not say so (`io_image.rs:202`); the `Acquire` load of `front_idx` that
  follows it (line 205) keeps them behind itself, and on x86-64 and aarch64, as Rust compiles for them
  by default, behind the increment as well.
* **Pages that lagged.** `WebInv` speaks of a page that took all its messages; what a page that fell behind
  the channel has lost is not claimed to be shown.
* **The language outside the fragment.** `compiler_safety` leaves out what section 7 lists as wrong
  (EXIT below an IF, CONTINUE, unary minus on integers, FOR variables other than DINT, comparisons
  of LINT), and with it REAL, strings, time literals, function blocks, structures and the
  optimisation levels. Loops of the runs count upwards to a bound that stands; indices are inside
  their arrays, and elements have a size. `StoresInOneVariable` would not hold of FOR over another
  type, of an index outside the array, of a store to a field, or of arrays of unsized elements, and
  the theorem `StoresStayInside` supposes the size that rules the last out. Words are compared whole
  (`StParser.At`), so the programs have no identifier that begins with a keyword. The translation of
  CONTINUE, unary minus and the others is in the modules as the code has it, so a program that uses
  them can be added to `MCPrograms`. The lexer's time literals (`lexer.rs:327`) are text conversion
  and left out.
* **Dynamic validity.** A Wasm engine validates a module before it runs; the engine of `Compiler` finds an
  invalid instruction only if the program gets there.

`PROJECT.json` gives the status of each component.

## 9. Plan

What would come next, in this order.

1. **Composition**: `Daemon` over `Modbus` itself, in the place of `Landed` (to which the driver's
   single exchanges are proved to keep), and `Ethercat` likewise; over `WasmHost` in the place
   of the scheduler's `engine`: an abstract engine in the manner of `Alarm`, used from both sides.
2. **Proofs** that these are refinements, step by step, as `AlarmKept` and `SchedulerImplemented` are for
   the watchdog and the scheduler.
3. **Compiler**: operand stacks and label depths of the emitted code as functions of the list of
   instructions, as the layout is one of the list of declarations, so that facts about them can be proved;
   function blocks and structures, once the translator calls them.
