------------------------------- MODULE Modbus -------------------------------
(***************************************************************************)
(* The Modbus TCP driver of plc-fieldbus/src/modbus.rs: exchange() as the  *)
(* daemon calls it, one request after the other over a connection that may *)
(* fail, to a server that may refuse, misanswer or fall silent, and the    *)
(* cycle-deferred reconnection.                                            *)
(***************************************************************************)
EXTENDS Integers, Sequences, FiniteSets

CONSTANTS
  Values,       \* values of an input or output word
  Zero,         \* the value of every word before the first exchange
  Mappings,     \* which sets of words may be mapped by the configuration
  MaxAttempts,  \* config.max_reconnect_attempts
  TidModulus,   \* transaction ids are u16: 2^16 in the code
  MaxFaults,    \* bound: what server and network do wrong in a behaviour
  MaxQueue      \* bound: requests and answers under way on a connection

Words == {"di", "ai", "do", "ao"}
Inputs == {"di", "ai"}
Outputs == {"do", "ao"}

ASSUME ZeroAssumption == Zero \in Values
ASSUME MappingsAssumption == Mappings \subseteq SUBSET Words
ASSUME BoundsAssumption ==
  /\ {MaxAttempts, MaxFaults} \subseteq Nat
  /\ MaxQueue \in Nat \ {0} /\ TidModulus \in Nat \ {0, 1}

VARIABLES
  mapped,    \* the words with a mapping
  state,     \* ConnectionState
  open,      \* connection.is_some()
  attempts,  \* reconnect_attempts
  retry,     \* next_reconnect_time: "none", still "waiting", or "due"
  tid,       \* transaction_id
  inputs,    \* self.inputs
  outputs,   \* self.outputs
  result,    \* of the last call: "ok", "err"; "busy" inside one, "shut" at the end
  req,       \* the word being exchanged, "none" outside exchange()
  awaiting,  \* the request for req was written, its answer not yet read
  wire,      \* requests the server has not answered yet
  stream,    \* answers the driver has not read yet
  garbled,   \* the unread bytes do not begin with a header
  field,     \* the field's inputs, as the server sees them
  device,    \* the field's outputs
  faults,    \* what may still go wrong
  seen,      \* history: the values each field input had during this exchange
  before,    \* history: the device when this exchange began
  inStep,    \* history: no request was unanswered when this exchange began
  refused    \* history: connects refused in a row

link == <<state, open, attempts, retry, refused>>
call == <<result, req>>
start == <<before, inStep>>
traffic == <<awaiting, wire, stream, garbled>>
vars == <<mapped, link, call, start, traffic, tid, inputs, outputs, field, device, faults, seen>>

Tids == 0 .. TidModulus - 1
NoTid == TidModulus   \* a header that fails on its ids or its length
Idle == result \in {"ok", "err"}

\* Output images that differ in mapped words only: the others are never sent.
Images == {o \in [Outputs -> Values] : \A w \in Outputs \ mapped : o[w] = Zero}

Requests == [tid : Tids, word : Words, val : Values, done : BOOLEAN]
Answers == [tid : Tids \cup {NoTid}, word : Words, val : Values, exception : BOOLEAN]

\* Mutant: the analog outputs are written first.
PlaceAnalogFirst == [di |-> 1, ai |-> 2, do |-> 4, ao |-> 3]

\* The order in which exchange() asks for the words.
Place == [di |-> 1, ai |-> 2, do |-> 3, ao |-> 4]

First(S) == CHOOSE w \in S : \A v \in S : Place[w] <= Place[v]
After(w) == {v \in mapped : Place[v] > Place[w]}

TypeOK ==
  /\ mapped \in Mappings
  /\ state \in {"Disconnected", "Connected", "Reconnecting", "Failed"}
  /\ open \in BOOLEAN
  /\ attempts \in 0..MaxAttempts
  /\ retry \in {"none", "waiting", "due"}
  /\ tid \in Tids
  /\ inputs \in [Inputs -> Values]
  /\ outputs \in [Outputs -> Values]
  /\ result \in {"ok", "err", "busy", "shut"}
  /\ req \in Words \cup {"none"}
  /\ awaiting \in BOOLEAN
  /\ wire \in Seq(Requests)
  /\ stream \in Seq(Answers)
  /\ garbled \in BOOLEAN
  /\ field \in [Inputs -> Values]
  /\ device \in [Outputs -> Values]
  /\ faults \in 0..MaxFaults
  /\ seen \in [Inputs -> SUBSET Values]
  /\ before \in [Outputs -> Values]
  /\ inStep \in BOOLEAN
  /\ refused \in Nat

\* init() has connected.
Init ==
  /\ mapped \in Mappings
  /\ state = "Connected" /\ open = TRUE
  /\ attempts = 0 /\ retry = "none" /\ refused = 0
  /\ tid = 0
  /\ inputs = [w \in Inputs |-> Zero]
  /\ outputs = [w \in Outputs |-> Zero]
  /\ result = "ok" /\ req = "none"
  /\ awaiting = FALSE /\ wire = <<>> /\ stream = <<>> /\ garbled = FALSE
  /\ field = [w \in Inputs |-> Zero]
  /\ device = [w \in Outputs |-> Zero]
  /\ faults = MaxFaults
  /\ seen = [w \in Inputs |-> {Zero}]
  /\ before = device
  /\ inStep = TRUE

Fault == faults > 0 /\ faults' = faults - 1

-----------------------------------------------------------------------------
(* The connection. *)

\* Mutant: the state is left Connected, and nobody reconnects.
LoseKeepingState ==
  /\ open' = FALSE
  /\ wire' = <<>> /\ stream' = <<>> /\ garbled' = FALSE
  /\ UNCHANGED <<state, attempts, retry, refused>>

\* A failed write or read drops the stream, and the unread bytes with it.
\* Requests that the server has not executed by then are never executed.
Lose ==
  /\ open' = FALSE
  /\ state' = "Disconnected"
  /\ wire' = <<>> /\ stream' = <<>> /\ garbled' = FALSE
  /\ UNCHANGED <<attempts, retry, refused>>

\* Mutant: the attempts of an earlier outage are not forgotten.
ConnectKeepingAttempts ==
  /\ open' = TRUE
  /\ state' = "Connected"
  /\ retry' = "none"
  /\ attempts' = attempts + 1
  /\ refused' = 0

\* connect() succeeds.
Connect ==
  /\ open' = TRUE
  /\ state' = "Connected"
  /\ attempts' = 0
  /\ retry' = "none"
  /\ refused' = 0

\* The call returns Err.
Fails == result' = "err" /\ req' = "none"

\* The call goes on with the first word of S, or returns Ok when there is none.
GoOn(S) ==
  IF S = {} THEN result' = "ok" /\ req' = "none"
            ELSE result' = "busy" /\ req' = First(S)

-----------------------------------------------------------------------------
(* exchange(): read_inputs(), then write_outputs().  Both look at the      *)
(* state first; the second finds it Connected, or the reads had failed.    *)

Connected ==
  /\ state = "Connected"
  /\ GoOn(mapped)
  /\ UNCHANGED <<link, faults>>

\* Mutant: the next outage begins with fresh attempts.
GiveUpForNow ==
  /\ state # "Connected"
  /\ attempts >= MaxAttempts
  /\ state' = "Failed"
  /\ attempts' = 0
  /\ Fails
  /\ UNCHANGED <<open, retry, refused, faults>>

\* try_reconnect: the attempts are used up.
GiveUp ==
  /\ state # "Connected"
  /\ attempts >= MaxAttempts
  /\ state' = "Failed"
  /\ Fails
  /\ UNCHANGED <<open, attempts, retry, refused, faults>>

\* try_reconnect: the retry delay has not passed.
Defer ==
  /\ state # "Connected"
  /\ attempts < MaxAttempts
  /\ retry = "waiting"
  /\ Fails
  /\ UNCHANGED <<link, faults>>

\* try_reconnect: the server accepts.
Reconnect ==
  /\ state # "Connected"
  /\ attempts < MaxAttempts
  /\ retry # "waiting"
  /\ Connect
  /\ GoOn(mapped)
  /\ UNCHANGED faults

\* try_reconnect: the server refuses.
Refused ==
  /\ state # "Connected"
  /\ attempts < MaxAttempts
  /\ retry # "waiting"
  /\ Fault
  /\ attempts' = attempts + 1
  /\ state' = "Reconnecting"
  /\ retry' = "waiting"
  /\ refused' = refused + 1
  /\ Fails
  /\ UNCHANGED open

\* set_outputs(o), unless the daemon skips it, and the entry of exchange().
Exchange(o) ==
  /\ Idle
  /\ outputs' = o
  /\ before' = device
  /\ inStep' = (wire = <<>> /\ ~garbled)
  /\ seen' = [w \in Inputs |-> {field[w]}]
  /\ Connected \/ GiveUp \/ Defer \/ Reconnect \/ Refused
  /\ UNCHANGED <<mapped, traffic, tid, inputs, field, device>>

Shutdown ==
  /\ Idle
  /\ result' = "shut"
  /\ Lose
  /\ UNCHANGED <<mapped, req, start, awaiting, tid, inputs, outputs>>
  /\ UNCHANGED <<field, device, faults, seen>>

-----------------------------------------------------------------------------
(* send_request(). *)

\* Mutant: the id does not wrap.
NextTidEndless == tid + 1

\* next_transaction_id: wrapping_add
NextTid == IF tid = TidModulus - 1 THEN 0 ELSE tid + 1

\* The request is written under a new transaction id.  A write carries the
\* outputs; what a read carries will be the server's answer.
Send ==
  /\ result = "busy" /\ ~awaiting /\ open
  /\ Len(wire) < MaxQueue
  /\ tid' = NextTid
  /\ wire' = Append(wire, [tid |-> NextTid, word |-> req, done |-> FALSE,
                           val |-> IF req \in Outputs THEN outputs[req] ELSE Zero])
  /\ awaiting' = TRUE
  /\ UNCHANGED <<mapped, link, call, start, inputs, outputs, stream, garbled>>
  /\ UNCHANGED <<field, device, faults, seen>>

\* No stream, or the write fails, for a connection the peer has dropped.
SendFails ==
  /\ result = "busy" /\ ~awaiting
  /\ IF open THEN /\ Fault /\ Lose
                  /\ tid' = NextTid
             ELSE UNCHANGED <<link, wire, stream, garbled, faults, tid>>
  /\ Fails
  /\ UNCHANGED <<mapped, start, awaiting, inputs, outputs, field, device, seen>>

\* Mutant: no read timeout is set on the stream.
ReceiveFailsOnClose ==
  /\ awaiting
  /\ Fault
  /\ Lose
  /\ awaiting' = FALSE
  /\ Fails
  /\ UNCHANGED <<mapped, start, tid, inputs, outputs, field, device, seen>>

\* A read of the header or of the PDU fails: the io_timeout has passed and
\* nobody will answer, or (a fault) the peer is too slow or has closed.
ReceiveFails ==
  /\ awaiting
  /\ IF wire = <<>> /\ stream = <<>> /\ ~garbled THEN UNCHANGED faults ELSE Fault
  /\ Lose
  /\ awaiting' = FALSE
  /\ Fails
  /\ UNCHANGED <<mapped, start, tid, inputs, outputs, field, device, seen>>

\* Mutant: the answer is taken for the request's, whatever its header says.
AnyHeader(a) == a.tid # NoTid

\* transaction id, protocol id, unit id and length are those of the request
HeaderMatches(a) == a.tid = tid

\* The header does not match: Err, the connection is kept, and the rest of
\* that answer stays unread.
HeaderMismatch ==
  /\ awaiting /\ ~garbled /\ stream # <<>>
  /\ ~HeaderMatches(Head(stream))
  /\ garbled' = TRUE
  /\ stream' = <<>>
  /\ awaiting' = FALSE
  /\ Fails
  /\ UNCHANGED <<mapped, link, start, wire, tid, inputs, outputs, field, device, faults, seen>>

\* What is read for a header is the rest of an earlier answer: it has
\* another transaction id, and leaves another rest.
ReadGarbage ==
  /\ awaiting /\ garbled
  /\ awaiting' = FALSE
  /\ Fails
  /\ UNCHANGED <<mapped, link, start, wire, stream, garbled, tid, inputs, outputs, field, device, faults, seen>>

\* The answer is read whole; it is an exception or of another function: Err.
AnswerRejected ==
  /\ awaiting /\ ~garbled /\ stream # <<>>
  /\ HeaderMatches(Head(stream))
  /\ Head(stream).exception \/ Head(stream).word # req
  /\ stream' = Tail(stream)
  /\ awaiting' = FALSE
  /\ Fails
  /\ UNCHANGED <<mapped, link, start, wire, garbled, tid, inputs, outputs, field, device, faults, seen>>

\* The answer is the word's: store it, if it is an input, and go on.
AnswerAccepted ==
  /\ awaiting /\ ~garbled /\ stream # <<>>
  /\ HeaderMatches(Head(stream))
  /\ ~Head(stream).exception /\ Head(stream).word = req
  /\ stream' = Tail(stream)
  /\ awaiting' = FALSE
  /\ inputs' = [w \in Inputs |-> IF w = req THEN Head(stream).val ELSE inputs[w]]
  /\ GoOn(After(req))
  /\ UNCHANGED <<mapped, link, start, wire, garbled, tid, outputs>>
  /\ UNCHANGED <<field, device, faults, seen>>

SendRequest ==
  \/ Send
  \/ SendFails
  \/ ReceiveFails
  \/ HeaderMismatch
  \/ ReadGarbage
  \/ AnswerRejected
  \/ AnswerAccepted

-----------------------------------------------------------------------------
(* The server, the field and the clock. *)

ServerVars == <<awaiting, garbled>>
DriverVars == <<mapped, link, call, start, ServerVars, tid, inputs, outputs>>

\* The server executes the oldest request: a read takes the field's value.
Execute ==
  /\ wire # <<>> /\ ~Head(wire).done
  /\ LET r == Head(wire) IN
       /\ device' = [w \in Outputs |-> IF w = r.word THEN r.val ELSE device[w]]
       /\ wire' = [wire EXCEPT ![1].done = TRUE,
                               ![1].val = IF r.word \in Inputs THEN field[r.word] ELSE @]
  /\ UNCHANGED <<DriverVars, stream, field, faults, seen>>

AnswerTo(r) == [tid |-> r.tid, word |-> r.word, val |-> r.val, exception |-> FALSE]

\* The oldest request is answered by what is in s.
Respond(s) ==
  /\ wire' = Tail(wire)
  /\ stream' = IF garbled THEN stream ELSE stream \o s
  /\ UNCHANGED <<DriverVars, field, device, seen>>

\* What a server should do.
Answer ==
  /\ wire # <<>> /\ Head(wire).done
  /\ Respond(<<AnswerTo(Head(wire))>>)
  /\ UNCHANGED faults

\* An exception: the request is not executed.
AnswerException ==
  /\ wire # <<>> /\ ~Head(wire).done
  /\ Fault
  /\ Respond(<<[AnswerTo(Head(wire)) EXCEPT !.exception = TRUE]>>)

\* A gateway that answers for its slave, and again when the slave does.
AnswerTwice ==
  /\ wire # <<>> /\ Head(wire).done
  /\ Fault
  /\ Respond(<<AnswerTo(Head(wire)), AnswerTo(Head(wire))>>)

\* An answer with a wrong id in its header, or of another function.
AnswerWrongly ==
  /\ wire # <<>> /\ Head(wire).done
  /\ Fault
  /\ \/ Respond(<<[AnswerTo(Head(wire)) EXCEPT !.tid = NoTid]>>)
     \/ \E w \in Words \ {Head(wire).word} :
          Respond(<<[AnswerTo(Head(wire)) EXCEPT !.word = w]>>)

\* The server, or the network, swallows the request or its answer.
Silence ==
  /\ wire # <<>>
  /\ Fault
  /\ Respond(<<>>)

Serve == Execute \/ Answer

Misbehave == AnswerException \/ AnswerTwice \/ AnswerWrongly \/ Silence

\* A field input changes.
FieldChanges ==
  /\ \E w \in Inputs \cap mapped, v \in Values :
       /\ field' = [field EXCEPT ![w] = v]
       /\ seen' = [seen EXCEPT ![w] = IF result = "busy" THEN @ \cup {v} ELSE @]
  /\ UNCHANGED <<DriverVars, wire, stream, device, faults>>

\* reconnect_delay has passed.
RetryDue ==
  /\ retry = "waiting"
  /\ retry' = "due"
  /\ UNCHANGED <<state, open, attempts, refused, mapped, call, start, traffic>>
  /\ UNCHANGED <<tid, inputs, outputs, field, device, faults, seen>>

Next ==
  \/ \E o \in Images : Exchange(o)
  \/ Shutdown
  \/ SendRequest
  \/ Serve
  \/ Misbehave
  \/ FieldChanges
  \/ RetryDue

Spec == Init /\ [][Next]_vars

(* The daemon calls exchange() every cycle, the driver runs, time passes,  *)
(* and a server that is not at fault executes and answers what it is asked. *)
FairSpec ==
  /\ Spec
  /\ WF_vars(\E o \in Images : Exchange(o))
  /\ WF_vars(SendRequest)
  /\ WF_vars(Serve)
  /\ WF_vars(RetryDue)

-----------------------------------------------------------------------------
(* Properties. *)

\* The driver believes it is connected exactly while it holds a stream: were
\* it wrong, no call would ever reconnect (try_reconnect is skipped).
ConnectedIsOpen == (state = "Connected") <=> open

\* An exchange that returned Ok has stored, for each mapped input, a value
\* the field had during that exchange: no answer to an earlier request is
\* taken for a later one.
InputsAreFresh ==
  result = "ok" => \A w \in mapped \cap Inputs : inputs[w] \in seen[w]

\* The device, had the words of S been written in this exchange.
Written(S) == [w \in Outputs |-> IF w \in S \cap mapped THEN outputs[w] ELSE before[w]]

\* What the daemon relies on (its Delivered): an exchange that returned Ok has
\* written every mapped output, and no request is left, of this exchange or an
\* earlier one.  One that failed has written none, the digital ones or both, if
\* it began with no request unanswered; what else the server may write after a
\* failure is Undone.
ExchangeLands ==
  /\ result = "ok" => device = Written(Outputs) /\ wire = <<>>
  /\ result = "err" /\ inStep => device \in {Written({}), Written({"do"}), Written(Outputs)}

\* The values of output w that the server has been asked for and has not written.
Undone(w) == {wire[i].val : i \in {j \in DOMAIN wire : wire[j].word = w /\ ~wire[j].done}}

\* The driver gives up for ever only after MaxAttempts refusals in a row.
GivesUpWhenRefused == state = "Failed" => refused >= MaxAttempts

\* A call in progress has a word to exchange, and one that began in step is in step.
CallsInStep ==
  /\ awaiting => result = "busy"
  /\ result = "busy" => req \in mapped
  /\ result = "busy" /\ inStep => ~garbled
  /\ garbled => mapped # {}
  /\ result = "ok" => ~garbled

\* Unless the bytes are garbled, what is under way belongs to the last request: the
\* request itself, after answers to the one before, or nothing but its answers.
OneUnderWay ==
  ~garbled =>
    /\ ~awaiting => wire = <<>> /\ \A i \in DOMAIN stream : stream[i].tid = tid
    /\ wire # <<>> => /\ Len(wire) = 1 /\ wire[1].tid = tid /\ wire[1].word = req
                      /\ \A i \in DOMAIN stream : stream[i].tid # tid
    /\ stream # <<>> /\ stream[1].tid = tid => \A i \in DOMAIN stream : stream[i].tid = tid

\* The outputs that come before w, and those up to w.
Earlier(w) == {v \in Outputs : Place[v] < Place[w]}
Upto(w) == {v \in Outputs : Place[v] <= Place[w]}

\* What an answer to the current request tells, and what r has done to the device.
Tells(a) == device = Written(Upto(req)) /\ (req \in Inputs => a.val \in seen[req])
Pending(r) == device = Written(Earlier(req)) /\ (req \in Outputs => r.val = outputs[req])

\* The device follows the requests of the exchange one by one.
DeviceFollows ==
  result = "busy" /\ ~garbled =>
    /\ ~awaiting => device = Written(Earlier(req))
    /\ awaiting => device \in {Written(Earlier(req)), Written(Upto(req))}
    /\ wire # <<>> => IF wire[1].done THEN Tells(wire[1]) ELSE Pending(wire[1])
    /\ awaiting /\ stream # <<>> =>
         (stream[1].tid = tid /\ ~stream[1].exception /\ stream[1].word = req => Tells(stream[1]))

\* The inputs that have been read are of this exchange.
ReadsAreFresh ==
  result = "busy" =>
    /\ \A w \in Inputs : field[w] \in seen[w]
    /\ \A w \in mapped \cap Inputs : Place[w] < Place[req] => inputs[w] \in seen[w]

Outcomes == {Written({}), Written({"do"}), Written(Outputs)}

\* A failed exchange may have left one request that is still to be executed.
LateRequest ==
  result = "err" /\ inStep /\ wire # <<>> =>
    /\ Len(wire) = 1
    /\ ~wire[1].done => [w \in Outputs |-> IF w = wire[1].word THEN wire[1].val
                                         ELSE device[w]] \in Outcomes

\* The inductive invariant of the exchange.
ExchangeIInv ==
  /\ TypeOK /\ CallsInStep /\ OneUnderWay /\ DeviceFollows /\ ReadsAreFresh /\ LateRequest
  /\ InputsAreFresh /\ ExchangeLands

\* And then no call connects again.
FailedIsFinal == [][state = "Failed" => state' = "Failed" \/ result' = "shut"]_vars

\* exchange() returns, whatever server and network do.
ExchangeReturns == result = "busy" ~> result # "busy"

Settled == result \in {"ok", "shut"} \/ state = "Failed"

\* Once nothing goes wrong any more, a driver that is in step with its server
\* exchanges again, unless its attempts are used up.
Recovers == faults = 0 /\ Idle /\ ~garbled /\ wire = <<>> /\ stream = <<>> ~> Settled

\* modbus_integration.rs:814 "Driver should recover after server returns to
\* normal": without the condition of being in step.
RecoversWhenNormal == faults = 0 ~> Settled
=============================================================================
