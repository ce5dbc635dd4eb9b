------------------------------ MODULE Ethercat ------------------------------
(***************************************************************************)
(* The EtherCAT master of plc-fieldbus/src/ethercat.rs with the slave and  *)
(* clock bookkeeping of slave_config.rs and dc_sync.rs: init, exchange and *)
(* shutdown as a caller of the FieldbusDriver interface may use them, over *)
(* a transport that may fail at every call and slaves that may not answer. *)
(***************************************************************************)
EXTENDS Integers, FiniteSets

CONSTANTS
  Networks,    \* possible buses: functions from positions to [in, out, dc]
  Transports,  \* a subset of {"simulated", "soem"}
  Thresholds,  \* possible values of config.wkc_error_threshold
  Values,      \* values of a byte of process data
  Zero,        \* the value of every byte of a new process image
  MaxFaults,   \* bound: failing calls, and slaves that do not take part
  MaxErrors    \* bound: consecutive working counter errors that are counted

ASSUME NetworksAssumption ==
  \A net \in Networks : /\ IsFiniteSet(DOMAIN net)
                        /\ DOMAIN net = 0..Cardinality(DOMAIN net) - 1
                        /\ net \in [DOMAIN net -> [in : Nat, out : Nat, dc : BOOLEAN]]
ASSUME TransportsAssumption == Transports \subseteq {"simulated", "soem"}
ASSUME ValuesAssumption == Zero \in Values
ASSUME BoundsAssumption == Thresholds \subseteq Nat /\ {MaxFaults, MaxErrors} \subseteq Nat

VARIABLES
  plant,      \* the slaves on the bus
  config,     \* EthercatConfig, and the transport the master was built with
  state,      \* MasterState
  slaves,     \* network.slaves: the sizes of each slave's process data
  image,      \* ProcessImage: its bytes and the expected working counter
  dc,         \* DcController: reference clock, members, active
  wkcErrors,  \* consecutive_wkc_errors
  up,         \* SimulatedTransport.open, SoemTransport.initialized
  al,         \* the state each slave is in
  device,     \* the output bytes each slave holds
  field,      \* the inputs of each slave at the last exchange
  call,       \* the step of init() or shutdown() that is next, "none" outside
  result,     \* of the last call
  faults,     \* what may still go wrong
  clean,      \* history: nothing has gone wrong since init() was called
  missed,     \* history: exchanges in a row in which some slave did not take part
  stale       \* history: those of them that returned Ok

master == <<state, slaves, image, dc, wkcErrors>>
bus == <<al, device, field>>
history == <<clean, missed, stale>>
vars == <<plant, config, master, up, bus, call, result, faults, history>>

AlStates == {"Init", "PreOp", "SafeOp", "Op"}
InitSteps == {"scan", "configure", "dc", "safe_op", "op"}
NoSlave == -1
Positions == DOMAIN plant
Simulated == config.transport = "simulated"

Least(S) == CHOOSE x \in S : \A y \in S : x <= y

-----------------------------------------------------------------------------
(* The process image. *)

\* The sums of the first n of the shares, for every n.
Sums(share) ==
  LET f[n \in 0..Cardinality(DOMAIN share)] == IF n = 0 THEN 0 ELSE f[n - 1] + share[n - 1]
  IN f

\* Where the bytes of each slave begin, in order of position; the last value
\* is the size of the image.
Offset(net, dir) == Sums([p \in DOMAIN net |-> net[p][dir]])

Size(net, dir) == Offset(net, dir)[Cardinality(DOMAIN net)]

\* What each slave adds to the working counter when the slaves R send inputs
\* and W take outputs.
Shares(net, R, W) ==
  [p \in DOMAIN net |-> (IF p \in R /\ net[p].in > 0 THEN 1 ELSE 0)
                        + (IF p \in W /\ net[p].out > 0 THEN 2 ELSE 0)]

Wkc(net, R, W) == Sums(Shares(net, R, W))[Cardinality(DOMAIN net)]

\* Mutant: outputs are not expected to count.
ExpectedOfInputs(net) == Wkc(net, DOMAIN net, {})

\* What scan_slaves() expects of the slaves it lists.
ExpectedWkc(net) == Wkc(net, DOMAIN net, DOMAIN net)

\* Bytes 0 to 3 are the digital channel and each two after them an analog one. A
\* channel that does not fit into an image of n bytes is not accessed at all.
Reached(n) ==
  (IF n >= 4 THEN 0..3 ELSE {})
  \cup UNION {{4 + 2 * i, 5 + 2 * i} : i \in {j \in 0..15 : 6 + 2 * j <= n}}

\* Mutant: both images have the size of the inputs.
NewImageOfInputs(net) ==
  LET empty == [b \in 0..Size(net, "in") - 1 |-> Zero]
  IN [inputs |-> empty, outputs |-> empty, expected |-> ExpectedWkc(net)]

NewImage(net) ==
  [inputs |-> [b \in 0..Size(net, "in") - 1 |-> Zero],
   outputs |-> [b \in 0..Size(net, "out") - 1 |-> Zero],
   expected |-> ExpectedWkc(net)]

-----------------------------------------------------------------------------

NoDc == [ref |-> NoSlave, members |-> {}, active |-> FALSE]

TypeOK ==
  /\ plant \in Networks
  /\ config \in [transport : Transports, threshold : Thresholds, dcEnabled : BOOLEAN]
  /\ state \in AlStates \cup {"Offline", "Fault"}
  /\ slaves \in [DOMAIN slaves -> [in : Nat, out : Nat]]
  /\ DOMAIN slaves \in {{}, Positions}
  /\ slaves # <<>> => /\ DOMAIN image.inputs = 0..Size(slaves, "in") - 1
                      /\ DOMAIN image.outputs = 0..Size(slaves, "out") - 1
  /\ DOMAIN image = {"inputs", "outputs", "expected"}
  /\ image.inputs \in [DOMAIN image.inputs -> Values]
  /\ image.outputs \in [DOMAIN image.outputs -> Values]
  /\ image.expected \in Nat
  /\ dc \in [ref : Positions \cup {NoSlave}, members : SUBSET Positions, active : BOOLEAN]
  /\ wkcErrors \in 0..MaxErrors
  /\ up \in BOOLEAN
  /\ al \in [Positions -> AlStates]
  /\ \A p \in Positions : device[p] \in [0..plant[p].out - 1 -> Values]
  /\ field \in [Positions -> Values]
  /\ call \in InitSteps \cup {"none", "shutdown"}
  /\ result \in {"ok", "err"}
  /\ faults \in 0..MaxFaults
  /\ clean \in BOOLEAN
  /\ {missed, stale} \subseteq 0..MaxErrors

Init ==
  /\ plant \in Networks
  /\ config \in [transport : Transports, threshold : Thresholds, dcEnabled : BOOLEAN]
  /\ state = "Offline"
  /\ slaves = <<>> /\ image = NewImage(<<>>) /\ dc = NoDc /\ wkcErrors = 0
  /\ up = Simulated
  /\ al = [p \in Positions |-> "Init"]
  /\ device = [p \in Positions |-> [b \in 0..plant[p].out - 1 |-> Zero]]
  /\ field = [p \in Positions |-> Zero]
  /\ call = "none" /\ result = "ok" /\ faults = MaxFaults
  /\ clean = TRUE /\ missed = 0 /\ stale = 0

-----------------------------------------------------------------------------
(* Calls and their transport. *)

\* Something goes wrong.
Fault == faults > 0 /\ faults' = faults - 1 /\ clean' = FALSE

\* A transport call fails: by a fault, or because a closed SimulatedTransport
\* does not open again.
TransportFails ==
  \/ Fault
  \/ Simulated /\ ~up /\ UNCHANGED <<faults, clean>>

Next1(step) == call' = step /\ UNCHANGED result
Return(r) == call' = "none" /\ result' = r

\* Slaves that have followed a request for state t only in part.
Partly(t) == {a \in [Positions -> AlStates] : \A p \in Positions : a[p] \in {al[p], t}}

\* transport.set_state(t) returns Ok. SoemTransport does so as well when slaves
\* have not followed within its timeout: it only logs that.
SetState(t) ==
  \/ (Simulated => up) /\ al' = [p \in Positions |-> t] /\ UNCHANGED <<faults, clean>>
  \/ ~Simulated /\ Fault /\ al' \in Partly(t)

SetStateFails(t) ==
  /\ TransportFails
  /\ IF Simulated THEN UNCHANGED al ELSE al' \in Partly(t)

-----------------------------------------------------------------------------
(* init(). *)

CallInit ==
  /\ call = "none"
  /\ Next1("scan")
  /\ clean' = TRUE
  /\ UNCHANGED <<plant, config, master, up, bus, faults, missed, stale>>

\* The slaves as network.add_slave() keeps them: it computes the sizes from the
\* PDO lists, which SoemTransport leaves empty.
Listed ==
  [p \in Positions |-> IF Simulated THEN [in |-> plant[p].in, out |-> plant[p].out]
                                    ELSE [in |-> 0, out |-> 0]]

\* The slaves that DcController knows, and the first of them as the reference.
Clocks == {p \in Positions : plant[p].dc /\ config.dcEnabled}
Reference == IF Clocks = {} THEN NoSlave ELSE Least(Clocks)

\* A scan that fails leaves the image of an earlier one, and an empty network.
Scan ==
  /\ call = "scan"
  /\ state' = "Init"
  /\ \/ /\ Simulated => up
        /\ up' = TRUE
        /\ slaves' = Listed
        /\ image' = NewImage(Listed)
        /\ dc' = [ref |-> Reference, members |-> Clocks, active |-> FALSE]
        /\ Next1("configure")
        /\ UNCHANGED <<faults, clean>>
     \/ /\ TransportFails
        /\ up' \in IF Simulated THEN {up} ELSE {up, TRUE}
        /\ slaves' = <<>> /\ dc' = NoDc
        /\ Return("err")
        /\ UNCHANGED image
  /\ UNCHANGED <<plant, config, wkcErrors, bus, missed, stale>>

\* Mutant: the master changes its state although the slaves did not.
RaiseAnyway(from, to, now, next) ==
  /\ call = now
  /\ \/ /\ state = from
        /\ SetState(to)
        /\ state' = to
        /\ IF next = "none" THEN Return("ok") ELSE Next1(next)
     \/ state = from /\ SetStateFails(to) /\ state' = to /\ Return("err")
     \/ state # from /\ Return("err") /\ UNCHANGED <<state, al, faults, clean>>
  /\ UNCHANGED <<plant, config, slaves, image, dc, wkcErrors, up, device, field, missed, stale>>

\* configure_slaves(), enter_safe_op(), enter_op(): all slaves from one state to
\* the next, refused in any other state.
Raise(from, to, now, next) ==
  /\ call = now
  /\ \/ /\ state = from
        /\ SetState(to)
        /\ state' = to
        /\ IF next = "none" THEN Return("ok") ELSE Next1(next)
     \/ state = from /\ SetStateFails(to) /\ Return("err") /\ UNCHANGED state
     \/ state # from /\ Return("err") /\ UNCHANGED <<state, al, faults, clean>>
  /\ UNCHANGED <<plant, config, slaves, image, dc, wkcErrors, up, device, field, missed, stale>>

\* Mutant: a network without clocks is an error.
ConfigureDcNeedsClock ==
  /\ call = "dc"
  /\ IF dc.ref = NoSlave THEN Return("err") /\ UNCHANGED dc
                         ELSE dc' = [dc EXCEPT !.active = TRUE] /\ Next1("safe_op")
  /\ UNCHANGED <<plant, config, state, slaves, image, wkcErrors, up, bus, faults, history>>

\* Mutant: a clock that cannot be read is no error.
ConfigureDcLeniently ==
  /\ call = "dc"
  /\ \/ Next1("safe_op") /\ UNCHANGED <<dc, faults, clean>>
     \/ Fault /\ Next1("safe_op") /\ UNCHANGED dc
  /\ UNCHANGED <<plant, config, state, slaves, image, wkcErrors, up, bus, missed, stale>>

\* Without clocks there is nothing to do. Otherwise the reference clock is read,
\* DC is active, and then each member is configured.
ConfigureDc ==
  /\ call = "dc"
  /\ \/ dc.ref = NoSlave /\ Next1("safe_op") /\ UNCHANGED <<dc, faults, clean>>
     \/ /\ dc.ref # NoSlave
        /\ \/ dc' = [dc EXCEPT !.active = TRUE] /\ Next1("safe_op") /\ UNCHANGED <<faults, clean>>
           \/ Fault /\ Return("err") /\ dc' \in {dc, [dc EXCEPT !.active = TRUE]}
  /\ UNCHANGED <<plant, config, state, slaves, image, wkcErrors, up, bus, missed, stale>>

ConfigureSlaves == Raise("Init", "PreOp", "configure", "dc")
EnterSafeOp == Raise("PreOp", "SafeOp", "safe_op", "op")
EnterOp == Raise("SafeOp", "Op", "op", "none")

-----------------------------------------------------------------------------
(* exchange(). *)

\* set_outputs(): every channel gets the value v.
SetOutputs(v) ==
  /\ call = "none"
  /\ image' = [image EXCEPT !.outputs =
                 [b \in DOMAIN @ |-> IF b \in Reached(Cardinality(DOMAIN @)) THEN v ELSE @[b]]]
  /\ UNCHANGED <<plant, config, state, slaves, dc, wkcErrors, up, bus, call, result, faults,
                 history>>

Exchanging == state \in {"Op", "SafeOp"}

\* The slaves that may take part: a simulated one always does.
Present == {p \in Positions : Simulated \/ al[p] \in {"SafeOp", "Op"}}

Min(a, b) == IF a < b THEN a ELSE b

\* The slaves R send their inputs and W get their outputs. Only bytes that the
\* image has a place for are copied, and only a slave in OP passes them on.
Transfer(R, W) ==
  /\ field' \in [Positions -> Values]
  /\ image' = [image EXCEPT !.inputs =
       [b \in DOMAIN @ |->
          LET owner == {p \in R : /\ Offset(slaves, "in")[p] <= b
                                  /\ b < Offset(slaves, "in")[p] + slaves[p].in}
          IN IF owner = {} THEN @[b] ELSE field'[Least(owner)]]]
  /\ device' = [p \in Positions |->
       IF p \in W /\ al[p] = "Op" /\ slaves[p].out = plant[p].out
         THEN [b \in DOMAIN device[p] |-> image.outputs[Offset(slaves, "out")[p] + b]]
         ELSE device[p]]
  /\ LET whole == R = Positions /\ W = Positions IN
       /\ \/ whole /\ UNCHANGED <<faults, clean>>
          \/ ~whole /\ Present # Positions /\ UNCHANGED <<faults, clean>>
          \/ ~whole /\ Fault
       /\ missed' = IF whole THEN 0 ELSE Min(missed + 1, MaxErrors)

\* Mutant: the counter of consecutive errors is not reset.
WkcMatchesKeepingErrors(R, W) ==
  /\ call = "none" /\ Exchanging
  /\ Transfer(R, W)
  /\ Wkc(plant, R, W) = image.expected
  /\ result' = "ok"
  /\ stale' = 0
  /\ UNCHANGED <<plant, config, state, slaves, dc, up, al, call, wkcErrors>>

WkcMatches(R, W) ==
  /\ call = "none" /\ Exchanging
  /\ Transfer(R, W)
  /\ Wkc(plant, R, W) = image.expected
  /\ wkcErrors' = 0
  /\ result' = "ok"
  /\ stale' = 0
  /\ UNCHANGED <<plant, config, state, slaves, dc, up, al, call>>

\* Mutant: the threshold must be exceeded.
WkcErrorPastThreshold(R, W) ==
  /\ call = "none" /\ Exchanging
  /\ wkcErrors < MaxErrors
  /\ Transfer(R, W)
  /\ Wkc(plant, R, W) # image.expected
  /\ wkcErrors' = wkcErrors + 1
  /\ IF config.threshold > 0 /\ wkcErrors' > config.threshold
       THEN state' = "Fault" /\ result' = "err" /\ UNCHANGED stale
       ELSE result' = "ok" /\ stale' = Min(stale + 1, MaxErrors) /\ UNCHANGED state
  /\ UNCHANGED <<plant, config, slaves, dc, up, al, call>>

\* A wrong working counter is an error only when it makes up the threshold:
\* before that the call returns Ok with what has arrived.
WkcError(R, W) ==
  /\ call = "none" /\ Exchanging
  /\ wkcErrors < MaxErrors
  /\ Transfer(R, W)
  /\ Wkc(plant, R, W) # image.expected
  /\ wkcErrors' = wkcErrors + 1
  /\ IF config.threshold > 0 /\ wkcErrors' >= config.threshold
       THEN state' = "Fault" /\ result' = "err" /\ UNCHANGED stale
       ELSE result' = "ok" /\ stale' = Min(stale + 1, MaxErrors) /\ UNCHANGED state
  /\ UNCHANGED <<plant, config, slaves, dc, up, al, call>>

\* The transport fails, or the state is wrong: neither is counted.
ExchangeFails ==
  /\ call = "none"
  /\ IF Exchanging THEN TransportFails ELSE UNCHANGED <<faults, clean>>
  /\ result' = "err"
  /\ UNCHANGED <<plant, config, master, up, bus, call, missed, stale>>

Exchange ==
  \/ \E R, W \in SUBSET Present : WkcMatches(R, W) \/ WkcError(R, W)
  \/ ExchangeFails

-----------------------------------------------------------------------------
(* shutdown(). *)

CallShutdown ==
  /\ call = "none"
  /\ Next1("shutdown")
  /\ UNCHANGED <<plant, config, master, up, bus, faults, history>>

Below == [Op |-> "SafeOp", SafeOp |-> "PreOp", PreOp |-> "Init"]

\* Mutant: a failing transport does not stop the shutdown.
LowerAnyway ==
  /\ call = "shutdown" /\ state \in DOMAIN Below
  /\ SetState(Below[state]) \/ SetStateFails(Below[state])
  /\ state' = Below[state]
  /\ UNCHANGED <<plant, config, slaves, image, dc, wkcErrors, up, device, field, call, result,
                 missed, stale>>

\* One state down. An error ends the call there, with the transport open.
Lower ==
  /\ call = "shutdown" /\ state \in DOMAIN Below
  /\ \/ SetState(Below[state]) /\ state' = Below[state] /\ UNCHANGED <<call, result>>
     \/ SetStateFails(Below[state]) /\ Return("err") /\ UNCHANGED state
  /\ UNCHANGED <<plant, config, slaves, image, dc, wkcErrors, up, device, field, missed, stale>>

\* The transport is closed. SoemTransport first asks its slaves for INIT, and
\* ignores whether they follow.
Close ==
  /\ call = "shutdown" /\ state \notin DOMAIN Below
  /\ state' = "Offline" /\ up' = FALSE
  /\ \/ Simulated /\ UNCHANGED <<al, faults, clean>>
     \/ ~Simulated /\ ~up /\ UNCHANGED <<al, faults, clean>>
     \/ ~Simulated /\ up /\ (SetState("Init") \/ SetStateFails("Init"))
  /\ Return("ok")
  /\ UNCHANGED <<plant, config, slaves, image, dc, wkcErrors, device, field, missed, stale>>

-----------------------------------------------------------------------------

Next ==
  \/ CallInit \/ Scan \/ ConfigureSlaves \/ ConfigureDc \/ EnterSafeOp \/ EnterOp
  \/ \E v \in Values : SetOutputs(v)
  \/ Exchange
  \/ CallShutdown \/ Lower \/ Close

Spec == Init /\ [][Next]_vars

-----------------------------------------------------------------------------
(* Properties. *)

\* The master is never ahead of its slaves, nor behind them, when it has raised or
\* lowered them itself and the transport does what it returned Ok for: a failure
\* at any step of init() or shutdown() leaves both in the same state.
InStepWithSlaves ==
  Simulated /\ state \in {"PreOp", "SafeOp", "Op"} => \A p \in Positions : al[p] = state

\* Outputs are exchanged only with the clocks running: whichever calls failed
\* before, DC is active with its first member as the reference, unless disabled.
OpHasClock ==
  Exchanging /\ config.dcEnabled /\ (\E p \in Positions : plant[p].dc) =>
    dc.active /\ dc.ref = Least({p \in Positions : plant[p].dc})

\* A fault takes as many incomplete exchanges in a row as configured, across
\* failing calls and initialisations in between, and never comes with a threshold of 0.
FaultIsEarned ==
  Simulated /\ state = "Fault" => config.threshold > 0 /\ missed >= config.threshold

\* The caller gets Ok with inputs of an earlier exchange fewer times in a row than
\* the threshold, before a fault tells it.
StaleIsBounded ==
  Simulated /\ config.threshold > 0 => stale < config.threshold

\* The master's state tells what the network is: where its slaves are, and in OP that
\* their clocks run.
StateIsHonest == TypeOK /\ InStepWithSlaves /\ OpHasClock

\* The two sides of the working counter's threshold.
MissesAreCounted == FaultIsEarned /\ StaleIsBounded

\* An exchange that is counted as good has moved every byte: the image shows what
\* each slave's inputs were and each slave in OP holds what was pending, where the
\* offsets lay them out, and no slave is left with what another one was meant to get.
GoodExchangeIsWhole ==
  [][Simulated /\ (\E R, W \in SUBSET Positions : WkcMatches(R, W)) =>
       \A p \in Positions :
         /\ \A b \in 0..plant[p].in - 1 : image'.inputs[Offset(plant, "in")[p] + b] = field'[p]
         /\ state = "Op" => \A b \in 0..plant[p].out - 1 :
              device'[p][b] = image.outputs[Offset(plant, "out")[p] + b]
    ]_vars

\* An init() in which nothing goes wrong succeeds, whatever the master has been
\* through, until the simulated transport was closed.
InitHeals ==
  [][call' = "none" /\ call \in InitSteps /\ result' = "err" => ~clean' \/ (Simulated /\ ~up)]_vars

-----------------------------------------------------------------------------
(* The inductive invariant. *)

\* What a successful scan leaves stays as it is while the bus is configured or up.
Scanned ==
  /\ slaves = Listed
  /\ DOMAIN image.inputs = 0..Size(Listed, "in") - 1
  /\ DOMAIN image.outputs = 0..Size(Listed, "out") - 1
  /\ image.expected = ExpectedWkc(Listed)
  /\ dc.ref = Reference

ScannedFirst ==
  call \in InitSteps \ {"scan"} \/ state \in {"PreOp", "SafeOp", "Op"} => Scanned

\* Each step of init() finds the state the one before it has reached.
StepsInOrder ==
  /\ call = "configure" => state = "Init"
  /\ call \in {"dc", "safe_op"} => state = "PreOp"
  /\ call = "op" => state = "SafeOp"

\* Nothing above PRE_OP is reached without the clocks running.
ClockRuns ==
  (call \in {"safe_op", "op"} \/ Exchanging) /\ dc.ref # NoSlave => dc.active

\* The counter of errors covers what the caller was not told, and is covered by what
\* was missed: it survives failing calls and initialisations, as the histories do.
MissesCovered == stale <= wkcErrors /\ (Simulated => wkcErrors <= missed)

IInv ==
  /\ TypeOK
  /\ ScannedFirst
  /\ StepsInOrder
  /\ InStepWithSlaves
  /\ ClockRuns
  /\ MissesCovered
  /\ MissesAreCounted
=============================================================================
