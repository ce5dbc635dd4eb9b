--------------------------- MODULE Modbus_proofs ---------------------------
(***************************************************************************)
(* For every mapping, number of attempts, width of the transaction id and  *)
(* fault of server or network: an exchange that returned Ok has read and   *)
(* written what it says, by the invariant ExchangeIInv; the driver knows   *)
(* whether it is connected, and gives up, for good, only after as many     *)
(* refusals as configured, by LinkIInv.                                    *)
(***************************************************************************)
EXTENDS Modbus, Landing, SequenceTheorems, TLAPS

\* The order of the words is total.
LEMMA Places ==
  /\ \A w \in Words : Place[w] \in 1..4
  /\ \A v, w \in Words : Place[v] = Place[w] => v = w
BY DEF Words, Place

\* First() is the earliest of a set of words.
LEMMA FirstIsEarliest ==
  ASSUME NEW S, S \subseteq Words, S # {}
  PROVE  First(S) \in S /\ \A v \in S : Place[First(S)] <= Place[v]
<1>1. \E w \in S : \A v \in S : Place[w] <= Place[v]
  <2>1. CASE "di" \in S
    BY <2>1 DEF Words, Place
  <2>2. CASE "di" \notin S /\ "ai" \in S
    BY <2>2 DEF Words, Place
  <2>3. CASE "di" \notin S /\ "ai" \notin S /\ "do" \in S
    BY <2>3 DEF Words, Place
  <2>4. CASE "di" \notin S /\ "ai" \notin S /\ "do" \notin S
    <3>1. S = {"ao"}
      BY <2>4 DEF Words
    <3>2. QED
      BY <3>1 DEF Place
  <2>5. QED
    BY <2>1, <2>2, <2>3, <2>4
<1>2. QED
  BY <1>1 DEF First

\* What GoOn() does to the call.
LEMMA GoesOn ==
  ASSUME NEW S, S \subseteq Words, GoOn(S)
  PROVE  /\ result' \in {"ok", "busy"}
         /\ result' = "ok" => S = {} /\ req' = "none"
         /\ result' = "busy" => req' \in S /\ \A v \in S : Place[req'] <= Place[v]
BY FirstIsEarliest DEF GoOn

\* The ids are those of the wrapping counter, and two in a row differ.
LEMMA TidsWrap == ASSUME tid \in Tids PROVE NextTid \in Tids /\ NextTid # tid
BY BoundsAssumption DEF NextTid, Tids

-----------------------------------------------------------------------------
(* Types. *)

FlagsOK == {open, awaiting, garbled, inStep} \subseteq BOOLEAN
LinkOK ==
  /\ state \in {"Disconnected", "Connected", "Reconnecting", "Failed"}
  /\ attempts \in 0..MaxAttempts
  /\ retry \in {"none", "waiting", "due"}
  /\ refused \in Nat
  /\ faults \in 0..MaxFaults

LEMMA LinkTyped == ASSUME TypeOK, Next PROVE LinkOK'
<1> USE BoundsAssumption DEF TypeOK, LinkOK, link
<1>1. ASSUME Fault PROVE faults' \in 0..MaxFaults
  BY <1>1 DEF Fault
<1>2. ASSUME NEW o \in Images, Exchange(o) PROVE LinkOK'
  BY <1>1, <1>2 DEF Exchange, Connected, GiveUp, Defer, Reconnect, Connect, Refused
<1>3. CASE Shutdown
  BY <1>3 DEF Shutdown, Lose
<1>4. CASE SendRequest
  BY <1>1, <1>4 DEF SendRequest, Send, SendFails, ReceiveFails, HeaderMismatch, ReadGarbage, AnswerRejected,
     AnswerAccepted, Lose
<1>5. CASE Serve \/ Misbehave
  <2>1. faults' \in 0..MaxFaults
    BY <1>1, <1>5 DEF Serve, Execute, Answer, Misbehave, AnswerException, AnswerTwice, AnswerWrongly, Silence
  <2>2. UNCHANGED link
    BY <1>5 DEF Serve, Execute, Answer, Misbehave, AnswerException, AnswerTwice, AnswerWrongly, Silence,
       Respond, DriverVars
  <2>3. QED
    BY <2>1, <2>2
<1>6. CASE FieldChanges \/ RetryDue
  BY <1>6 DEF FieldChanges, RetryDue, DriverVars
<1>7. QED
  BY <1>2, <1>3, <1>4, <1>5, <1>6 DEF Next

LEMMA FlagsTyped == ASSUME TypeOK, Next PROVE FlagsOK'
<1>0. FlagsOK
  BY Zenon DEF TypeOK, FlagsOK
<1>2. ASSUME NEW o \in Images, Exchange(o) PROVE FlagsOK'
  BY <1>0, <1>2 DEF Exchange, Connected, GiveUp, Defer, Reconnect, Connect, Refused, link, traffic, FlagsOK
<1>3. CASE Shutdown
  BY <1>0, <1>3 DEF Shutdown, Lose, start, FlagsOK
<1>4. CASE SendRequest
  BY <1>0, <1>4 DEF SendRequest, Send, SendFails, ReceiveFails, HeaderMismatch, ReadGarbage, AnswerRejected,
     AnswerAccepted, Lose, start, link, FlagsOK
<1>5. ASSUME UNCHANGED DriverVars PROVE FlagsOK'
  BY <1>0, <1>5 DEF DriverVars, ServerVars, start, link, FlagsOK
<1>6. CASE Serve \/ Misbehave
  BY <1>5, <1>6 DEF Serve, Execute, Answer, Misbehave, AnswerException, AnswerTwice, AnswerWrongly, Silence,
       Respond
<1>7. CASE FieldChanges \/ RetryDue
  BY <1>0, <1>7 DEF FieldChanges, RetryDue, DriverVars, ServerVars, start, link, traffic, FlagsOK
<1>8. QED
  BY <1>2, <1>3, <1>4, <1>6, <1>7 DEF Next


\* What the rest of the driver and of the field may hold.
DataOK ==
  /\ tid \in Tids
  /\ inputs \in [Inputs -> Values]
  /\ outputs \in [Outputs -> Values]
  /\ result \in {"ok", "err", "busy", "shut"}
  /\ req \in Words \cup {"none"}
  /\ field \in [Inputs -> Values]
  /\ device \in [Outputs -> Values]
  /\ seen \in [Inputs -> SUBSET Values]
  /\ before \in [Outputs -> Values]

Queues == wire \in Seq(Requests) /\ stream \in Seq(Answers)

\* The first element of a queue, and what is left without it.
LEMMA Queued ==
  ASSUME NEW S, NEW q \in Seq(S), q # <<>>
  PROVE  /\ Len(q) \in Nat /\ Len(q) >= 1 /\ DOMAIN q = 1 .. Len(q)
         /\ Head(q) = q[1] /\ q[1] \in S /\ Tail(q) \in Seq(S)
         /\ Len(Tail(q)) = Len(q) - 1
         /\ \A i \in DOMAIN Tail(q) : i + 1 \in DOMAIN q /\ Tail(q)[i] = q[i + 1]
<1>1. Len(q) \in Nat /\ Len(q) >= 1 /\ DOMAIN q = 1 .. Len(q)
  BY EmptySeq, LenProperties
<1>2. Tail(q) \in Seq(S) /\ Len(Tail(q)) = Len(q) - 1
       /\ \A i \in 1 .. Len(Tail(q)) : Tail(q)[i] = q[i + 1]
  BY HeadTailProperties
<1>3. DOMAIN Tail(q) = 1 .. Len(Tail(q))
  BY <1>2, LenProperties
<1>4. q[1] \in S
  BY <1>1, ElementOfSeq
<1>5. Head(q) = q[1]
  OBVIOUS
<1>6. QED
  BY <1>1, <1>2, <1>3, <1>4, <1>5

\* The request that is written.
Asked == [tid |-> NextTid, word |-> req, done |-> FALSE,
          val |-> IF req \in Outputs THEN outputs[req] ELSE Zero]

LEMMA AskedTyped == ASSUME TypeOK, CallsInStep, result = "busy" PROVE Asked \in Requests
<1>1. req \in Words
  BY MappingsAssumption DEF TypeOK, CallsInStep
<1>2. (IF req \in Outputs THEN outputs[req] ELSE Zero) \in Values
  BY ZeroAssumption DEF TypeOK
<1>3. QED
  BY <1>1, <1>2, TidsWrap DEF Asked, Requests, TypeOK

\* A step of the server takes the oldest request or executes it.
LEMMA AnswerTyped ==
  ASSUME TypeOK, wire # <<>>
  PROVE  /\ AnswerTo(Head(wire)) \in Answers
         /\ [AnswerTo(Head(wire)) EXCEPT !.exception = TRUE] \in Answers
         /\ [AnswerTo(Head(wire)) EXCEPT !.tid = NoTid] \in Answers
         /\ \A w \in Words : [AnswerTo(Head(wire)) EXCEPT !.word = w] \in Answers
<1>1. Head(wire) \in Requests
  BY Queued DEF TypeOK
<1>2. AnswerTo(Head(wire)) \in Answers
  BY <1>1 DEF AnswerTo, Requests, Answers
<1>3. QED
  BY <1>2 DEF Answers

LEMMA OneOrTwo == \A a \in Answers : <<a>> \in Seq(Answers) /\ <<a, a>> \in Seq(Answers)
OBVIOUS

LEMMA QueuesTyped == ASSUME TypeOK, CallsInStep, Next PROVE Queues'
<1>0. Queues /\ <<>> \in Seq(Requests) /\ <<>> \in Seq(Answers)
  BY EmptySeq DEF TypeOK, Queues
<1>1. CASE \E o \in Images : Exchange(o)
  BY <1>0, <1>1 DEF Exchange, traffic, Queues
<1>2. CASE Shutdown
  BY <1>0, <1>2 DEF Shutdown, Lose, Queues
<1>3. CASE Send
  <2>1. wire' = Append(wire, Asked) /\ stream' = stream
    BY <1>3 DEF Send, Asked
  <2>2. QED
    BY <1>0, <1>3, <2>1, AskedTyped, AppendProperties DEF Send, Queues
<1>4. CASE SendFails \/ ReceiveFails
  BY <1>0, <1>4 DEF SendFails, ReceiveFails, Lose, Queues
<1>5. CASE HeaderMismatch \/ ReadGarbage
  BY <1>0, <1>5 DEF HeaderMismatch, ReadGarbage, Queues
<1>6. CASE AnswerRejected \/ AnswerAccepted
  <2>1. wire' = wire /\ stream' = Tail(stream) /\ stream # <<>>
    BY <1>6 DEF AnswerRejected, AnswerAccepted
  <2>2. QED
    BY <1>0, <2>1, Queued DEF Queues
<1>7. CASE Execute
  <2>1. PICK v \in Values : wire' = [wire EXCEPT ![1] = [wire[1] EXCEPT !.done = TRUE, !.val = v]]
    <3>1. Head(wire) = wire[1] /\ wire[1] \in Requests /\ 1 \in DOMAIN wire
      BY <1>7, Queued DEF TypeOK, Execute
    <3>2. field \in [Inputs -> Values] /\ wire[1].val \in Values
      BY <3>1 DEF TypeOK, Requests
    <3>3. QED
      BY <1>7, <3>1, <3>2 DEF Execute
  <2>2. QED
    <3>1. wire[1] \in Requests /\ 1 \in 1 .. Len(wire)
      BY <1>7, Queued DEF TypeOK, Execute
    <3>2. [wire[1] EXCEPT !.done = TRUE, !.val = v] \in Requests
      BY <3>1, <2>1 DEF Requests
    <3>3. wire' \in Seq(Requests)
      BY <1>0, <2>1, <3>1, <3>2, ExceptSeq DEF Queues
    <3>4. QED
      BY <1>0, <1>7, <3>3 DEF Execute, Queues
<1>8. ASSUME NEW s \in Seq(Answers), wire # <<>>, Respond(s) PROVE Queues'
  <2>1. wire' = Tail(wire) /\ (stream' = stream \/ stream' = stream \o s)
    BY <1>8 DEF Respond
  <2>2. stream \o s \in Seq(Answers)
    BY <1>0, <1>8, ConcatProperties DEF Queues
  <2>3. Tail(wire) \in Seq(Requests)
    BY <1>0, <1>8, Queued DEF Queues
  <2>4. QED
    BY <1>0, <2>1, <2>2, <2>3 DEF Queues
<1>9. CASE Answer \/ Misbehave
  <2>1. PICK s : Respond(s) /\ wire # <<>> /\ s \in Seq(Answers)
    <3> DEFINE a == AnswerTo(Head(wire))
    <3>1. CASE Answer
      <4>1. Respond(<<a>>) /\ wire # <<>>
        BY <3>1 DEF Answer
      <4>2. QED
        BY <4>1, AnswerTyped, OneOrTwo
    <3>2. CASE AnswerException
      <4>1. Respond(<<[a EXCEPT !.exception = TRUE]>>) /\ wire # <<>>
        BY <3>2 DEF AnswerException
      <4>2. QED
        BY <4>1, AnswerTyped, OneOrTwo
    <3>3. CASE AnswerTwice
      <4>1. Respond(<<a, a>>) /\ wire # <<>>
        BY <3>3 DEF AnswerTwice
      <4>2. QED
        BY <4>1, AnswerTyped, OneOrTwo
    <3>4. CASE AnswerWrongly
      <4>1. /\ wire # <<>>
            /\ \/ Respond(<<[a EXCEPT !.tid = NoTid]>>)
               \/ \E w \in Words : Respond(<<[a EXCEPT !.word = w]>>)
        BY <3>4 DEF AnswerWrongly
      <4>2. QED
        BY <4>1, AnswerTyped, OneOrTwo
    <3>5. CASE Silence
      <4>1. Respond(<<>>) /\ wire # <<>>
        BY <3>5 DEF Silence
      <4>2. QED
        BY <4>1, <1>0
    <3>6. QED
      BY <1>9, <3>1, <3>2, <3>3, <3>4, <3>5 DEF Misbehave
  <2>2. QED
    BY <1>8, <2>1
<1>10. CASE FieldChanges \/ RetryDue
  BY <1>0, <1>10 DEF FieldChanges, RetryDue, traffic, Queues
<1>11. QED
  BY <1>1, <1>2, <1>3, <1>4, <1>5, <1>6, <1>7, <1>9, <1>10 DEF Next, SendRequest, Serve

LEMMA DataTyped == ASSUME TypeOK, CallsInStep, Next PROVE DataOK'
<1>0. DataOK /\ mapped \subseteq Words
  BY MappingsAssumption DEF TypeOK, DataOK
<1>1. ASSUME NEW o \in Images, Exchange(o) PROVE DataOK'
  <2>1. o \in [Outputs -> Values]
    BY DEF Images
  <2>2. result' \in {"ok", "err", "busy"} /\ req' \in Words \cup {"none"}
    BY <1>0, <1>1, GoesOn DEF Exchange, Connected, GiveUp, Defer, Reconnect, Refused, Fails
  <2>3. QED
    BY <1>0, <1>1, <2>1, <2>2 DEF Exchange, DataOK
<1>2. CASE Shutdown
  BY <1>0, <1>2 DEF Shutdown, start, DataOK
<1>3. CASE Send
  BY <1>0, <1>3, TidsWrap DEF Send, call, start, DataOK
<1>4. CASE SendFails \/ ReceiveFails
  BY <1>0, <1>4, TidsWrap DEF SendFails, ReceiveFails, Fails, start, DataOK
<1>5. CASE HeaderMismatch \/ ReadGarbage \/ AnswerRejected
  BY <1>0, <1>5 DEF HeaderMismatch, ReadGarbage, AnswerRejected, Fails, start, DataOK
<1>6. CASE AnswerAccepted
  <2>1. Head(stream).val \in Values
    <3>1. Head(stream) \in Answers
      BY <1>6, Queued DEF AnswerAccepted, TypeOK
    <3>2. QED
      BY <3>1 DEF Answers
  <2>2. result' \in {"ok", "busy"} /\ req' \in Words \cup {"none"}
    BY <1>0, <1>6, GoesOn DEF AnswerAccepted, After
  <2>3. QED
    BY <1>0, <1>6, <2>1, <2>2 DEF AnswerAccepted, start, DataOK
<1>7. CASE Execute
  <2>1. Head(wire).val \in Values
    <3>1. Head(wire) \in Requests
      BY <1>7, Queued DEF Execute, TypeOK
    <3>2. QED
      BY <3>1 DEF Requests
  <2>2. QED
    BY <1>0, <1>7, <2>1 DEF Execute, DriverVars, call, start, DataOK
<1>8. CASE Answer \/ Misbehave
  BY <1>0, <1>8 DEF Answer, Misbehave, AnswerException, AnswerTwice, AnswerWrongly, Silence, Respond,
     DriverVars, call, start, DataOK
<1>9. CASE FieldChanges
  BY <1>0, <1>9 DEF FieldChanges, DriverVars, call, start, DataOK
<1>10. CASE RetryDue
  BY <1>0, <1>10 DEF RetryDue, call, start, DataOK
<1>11. QED
  BY <1>1, <1>2, <1>3, <1>4, <1>5, <1>6, <1>7, <1>8, <1>9, <1>10 DEF Next, SendRequest, Serve

LEMMA Typed == ASSUME TypeOK, CallsInStep, Next PROVE TypeOK'
<1>1. mapped' = mapped
  BY DEF Next, Exchange, Shutdown, SendRequest, Send, SendFails, ReceiveFails, HeaderMismatch,
         ReadGarbage, AnswerRejected, AnswerAccepted, Serve, Execute, Answer, Misbehave,
         AnswerException, AnswerTwice, AnswerWrongly, Silence, Respond, FieldChanges, RetryDue,
         DriverVars
<1>2. FlagsOK' /\ LinkOK' /\ DataOK' /\ Queues'
  BY FlagsTyped, LinkTyped, DataTyped, QueuesTyped
<1>3. QED
  BY <1>1, <1>2 DEF TypeOK, FlagsOK, LinkOK, DataOK, Queues

-----------------------------------------------------------------------------
(* What is under way. *)

\* One answer or the same answer twice.
LEMMA Repeated ==
  ASSUME NEW S, NEW x \in S, NEW s, s = <<x>> \/ s = <<x, x>>
  PROVE  s \in Seq(S) /\ s # <<>> /\ s[1] = x /\ \A i \in DOMAIN s : s[i] = s[1]
<1>1. CASE s = <<x>>
  BY <1>1
<1>2. CASE s = <<x, x>>
  BY <1>2
<1>3. QED
  BY <1>1, <1>2

\* An answer sent once or twice that passes for one only if the request was executed.
LEMMA SendsRepeated ==
  ASSUME wire # <<>>, NEW x \in Answers, NEW s, s = <<x>> \/ s = <<x, x>>, Respond(s),
         x.tid = wire[1].tid /\ ~x.exception /\ x.word = wire[1].word
           => wire[1].done /\ x.val = wire[1].val
  PROVE  \E q \in Seq(Answers) :
           /\ wire # <<>> /\ Respond(q)
           /\ \A i \in DOMAIN q : q[i] = q[1]
           /\ q # <<>> /\ q[1].tid = wire[1].tid /\ ~q[1].exception /\ q[1].word = wire[1].word
                => wire[1].done /\ q[1].val = wire[1].val
<1>1. s \in Seq(Answers) /\ s # <<>> /\ s[1] = x /\ \A i \in DOMAIN s : s[i] = s[1]
  BY Repeated
<1> WITNESS s \in Seq(Answers)
<1>2. QED
  BY <1>1

\* A step of the server that answers takes the request off the wire; what it sends, once
\* or twice, passes for an answer only if the request was executed.
LEMMA ServerSends ==
  ASSUME TypeOK, Answer \/ Misbehave
  PROVE  \E s \in Seq(Answers) :
           /\ wire # <<>> /\ Respond(s)
           /\ \A i \in DOMAIN s : s[i] = s[1]
           /\ s # <<>> /\ s[1].tid = wire[1].tid /\ ~s[1].exception /\ s[1].word = wire[1].word
                => wire[1].done /\ s[1].val = wire[1].val
<1> DEFINE a == AnswerTo(Head(wire))
<1>1. /\ wire # <<>> => Head(wire) = wire[1] /\ wire[1] \in Requests
      /\ wire # <<>> => a \in Answers
      /\ a.word = Head(wire).word /\ a.val = Head(wire).val
  <2>1. wire # <<>> => Head(wire) = wire[1] /\ wire[1] \in Requests
    BY Queued DEF TypeOK
  <2>2. wire # <<>> => a \in Answers
    BY AnswerTyped
  <2>3. a.word = Head(wire).word /\ a.val = Head(wire).val
    BY DEF AnswerTo
  <2>4. QED
    BY <2>1, <2>2, <2>3
<1>2. CASE Answer
  <2>1. Respond(<<a>>) /\ wire # <<>> /\ wire[1].done
    BY <1>1, <1>2 DEF Answer
  <2> HIDE DEF a
  <2>2. QED
    BY <1>1, <2>1, SendsRepeated
<1>3. CASE AnswerException
  <2> DEFINE b == [a EXCEPT !.exception = TRUE]
  <2>1. Respond(<<b>>) /\ wire # <<>>
    BY <1>3 DEF AnswerException
  <2> HIDE DEF a
  <2>2. b \in Answers /\ b.exception
    BY <1>1, <2>1 DEF Answers
  <2> HIDE DEF b
  <2>3. QED
    BY <2>1, <2>2, SendsRepeated
<1>4. CASE AnswerTwice
  <2>1. Respond(<<a, a>>) /\ wire # <<>> /\ wire[1].done
    BY <1>1, <1>4 DEF AnswerTwice
  <2> HIDE DEF a
  <2>2. QED
    BY <1>1, <2>1, SendsRepeated
<1>5. CASE AnswerWrongly
  <2>1. wire # <<>> /\ a \in Answers /\ wire[1] \in Requests
    BY <1>1, <1>5 DEF AnswerWrongly
  <2>2. CASE Respond(<<[a EXCEPT !.tid = NoTid]>>)
    <3> DEFINE b == [a EXCEPT !.tid = NoTid]
    <3> HIDE DEF a
    <3>1. b \in Answers /\ b.tid = NoTid
      BY <2>1 DEF Answers
    <3>2. wire[1].tid # NoTid
      BY <2>1, BoundsAssumption DEF Requests, Tids, NoTid
    <3>3. Respond(<<b>>)
      BY <2>2
    <3> HIDE DEF b
    <3>4. QED
      BY <2>1, <3>1, <3>2, <3>3, SendsRepeated
  <2>3. CASE \E w \in Words \ {Head(wire).word} : Respond(<<[a EXCEPT !.word = w]>>)
    <3>1. PICK w \in Words \ {Head(wire).word} : Respond(<<[a EXCEPT !.word = w]>>)
      BY <2>3
    <3> DEFINE b == [a EXCEPT !.word = w]
    <3> HIDE DEF a
    <3>2. b \in Answers /\ b.word = w
      BY <2>1 DEF Answers
    <3>3. w # wire[1].word
      BY <1>1, <2>1
    <3>4. Respond(<<b>>)
      BY <3>1
    <3> HIDE DEF b
    <3>5. QED
      BY <2>1, <3>2, <3>3, <3>4, SendsRepeated
  <2>4. QED
    BY <1>5, <2>2, <2>3 DEF AnswerWrongly
<1>6. CASE Silence
  <2>1. Respond(<<>>) /\ wire # <<>>
    BY <1>6 DEF Silence
  <2>2. <<>> \in Seq(Answers) /\ DOMAIN <<>> = {}
    OBVIOUS
  <2> WITNESS <<>> \in Seq(Answers)
  <2>3. QED
    BY <2>1, <2>2
<1>7. QED
  BY <1>2, <1>3, <1>4, <1>5, <1>6 DEF Misbehave

\* The server leaves the driver's own state alone.
LEMMA ServerKeeps ==
  ASSUME Execute \/ Answer \/ Misbehave
  PROVE  UNCHANGED <<DriverVars, field, seen>>
BY DEF Execute, Answer, Misbehave, AnswerException, AnswerTwice, AnswerWrongly, Silence, Respond

\* A call knows its word, and the flag of being out of step.
LEMMA CallsStay == ASSUME TypeOK, CallsInStep, Next PROVE CallsInStep'
<1> USE DEF CallsInStep
<1>0. mapped \subseteq Words
  BY MappingsAssumption DEF TypeOK
<1>1. ASSUME NEW o \in Images, Exchange(o) PROVE CallsInStep'
  <2>1. ~awaiting /\ awaiting' = awaiting /\ garbled' = garbled /\ mapped' = mapped
    BY <1>1 DEF Exchange, Idle, traffic
  <2>2. inStep' => ~garbled
    BY <1>1 DEF Exchange
  <2>3. \/ result' = "err"
        \/ result' = "busy" /\ req' \in mapped
        \/ result' = "ok" /\ mapped = {}
    BY <1>0, <1>1, GoesOn DEF Exchange, Connected, GiveUp, Defer, Reconnect, Refused, Fails
  <2>4. QED
    BY <2>1, <2>2, <2>3
<1>2. CASE Shutdown
  BY <1>2 DEF Shutdown, Lose, Idle
<1>3. CASE Send
  BY <1>3 DEF Send, call, start
<1>4. CASE SendFails \/ ReceiveFails
  BY <1>4 DEF SendFails, ReceiveFails, Lose, Fails, start
<1>5. CASE HeaderMismatch \/ ReadGarbage \/ AnswerRejected
  BY <1>5 DEF HeaderMismatch, ReadGarbage, AnswerRejected, Fails, start
<1>6. CASE AnswerAccepted
  <2>1. result' \in {"ok", "busy"} /\ (result' = "busy" => req' \in mapped)
    BY <1>0, <1>6, GoesOn DEF AnswerAccepted, After
  <2>2. QED
    BY <1>6, <2>1 DEF AnswerAccepted, start
<1>7. CASE Execute \/ Answer \/ Misbehave
  <2>1. UNCHANGED DriverVars
    BY <1>7, ServerKeeps
  <2>2. QED
    BY <2>1 DEF DriverVars, ServerVars, call, start
<1>8. CASE FieldChanges \/ RetryDue
  BY <1>8 DEF FieldChanges, RetryDue, DriverVars, ServerVars, traffic, call, start
<1>9. QED
  BY <1>1, <1>2, <1>3, <1>4, <1>5, <1>6, <1>7, <1>8 DEF Next, SendRequest, Serve

\* An answer that matches the header leaves only its like behind, and no request.
LEMMA AnswerTaken ==
  ASSUME TypeOK, OneUnderWay, AnswerRejected \/ AnswerAccepted
  PROVE  /\ wire = <<>> /\ wire' = wire /\ stream' = Tail(stream) /\ tid' = tid
         /\ stream # <<>> /\ Head(stream) = stream[1] /\ stream[1].tid = tid
         /\ ~garbled /\ ~awaiting'
         /\ \A i \in DOMAIN stream' : stream'[i].tid = tid
<1>1. /\ stream # <<>> /\ ~garbled /\ Head(stream).tid = tid /\ stream' = Tail(stream) /\ tid' = tid
      /\ wire' = wire /\ awaiting' = FALSE
  BY DEF AnswerRejected, AnswerAccepted, HeaderMatches
<1>2. /\ Head(stream) = stream[1] /\ 1 \in DOMAIN stream
      /\ \A i \in DOMAIN stream' : i + 1 \in DOMAIN stream /\ stream'[i] = stream[i + 1]
  BY <1>1, Queued DEF TypeOK
<1>3. QED
  BY <1>1, <1>2 DEF OneUnderWay

\* A request that is sent is alone on the wire, and no answer on the stream is to it.
LEMMA Sent ==
  ASSUME TypeOK, CallsInStep, OneUnderWay, Send, ~garbled
  PROVE  /\ wire' # <<>> /\ Len(wire') = 1 /\ wire'[1] = Asked /\ tid' = NextTid /\ stream' = stream
         /\ \A i \in DOMAIN stream : stream[i].tid # NextTid
<1>1. wire = <<>> /\ (\A i \in DOMAIN stream : stream[i].tid = tid) /\ tid' = NextTid /\ stream' = stream
  BY DEF Send, OneUnderWay
<1>2. wire' = <<Asked>>
  BY <1>1 DEF Send, Asked
<1>3. QED
  BY <1>1, <1>2, TidsWrap DEF TypeOK

\* A request that is executed keeps its place and its header, and has a value.
LEMMA Executes ==
  ASSUME TypeOK, Execute
  PROVE  /\ wire # <<>> /\ wire[1] \in Requests /\ ~wire[1].done
         /\ wire' # <<>> /\ Len(wire') = Len(wire)
         /\ wire'[1].tid = wire[1].tid /\ wire'[1].word = wire[1].word /\ wire'[1].done
         /\ wire'[1].val = IF wire[1].word \in Inputs THEN field[wire[1].word] ELSE wire[1].val
         /\ device' = [w \in Outputs |-> IF w = wire[1].word THEN wire[1].val ELSE device[w]]
<1> DEFINE v == IF wire[1].word \in Inputs THEN field[wire[1].word] ELSE wire[1].val
           r == [wire[1] EXCEPT !.done = TRUE, !.val = v]
<1>1. wire # <<>> /\ Head(wire) = wire[1] /\ wire[1] \in Requests /\ ~wire[1].done
      /\ 1 \in 1 .. Len(wire)
  BY Queued DEF TypeOK, Execute
<1>2. wire' = [wire EXCEPT ![1] = r]
  BY <1>1 DEF Execute
<1>3. v \in Values
  BY <1>1 DEF TypeOK, Requests
<1>4. r \in Requests /\ r.tid = wire[1].tid /\ r.word = wire[1].word /\ r.done /\ r.val = v
  BY <1>1, <1>3 DEF Requests
<1>5. Len(wire') = Len(wire) /\ wire'[1] = r
  <2> HIDE DEF r
  <2>1. QED
    BY <1>1, <1>2, <1>4, ExceptSeq DEF TypeOK
<1>6. wire' # <<>>
  BY <1>1, <1>5
<1>7. device' = [w \in Outputs |-> IF w = wire[1].word THEN wire[1].val ELSE device[w]]
  BY <1>1 DEF Execute
<1>8. QED
  BY <1>1, <1>4, <1>5, <1>6, <1>7

LEMMA UnderWay == ASSUME TypeOK, CallsInStep, OneUnderWay, Next PROVE OneUnderWay'
<1>1. ASSUME NEW o \in Images, Exchange(o) PROVE OneUnderWay'
  <2>1. ~awaiting /\ UNCHANGED <<awaiting, wire, stream, garbled, tid>>
    BY <1>1 DEF Exchange, Idle, traffic, CallsInStep
  <2>2. QED
    BY <2>1 DEF OneUnderWay
<1>2. ASSUME Lose, ~awaiting' PROVE OneUnderWay'
  BY <1>2 DEF Lose, OneUnderWay
<1>3. CASE Shutdown
  BY <1>2, <1>3 DEF Shutdown, Idle, CallsInStep
<1>4. CASE Send
  <2>1. CASE garbled
    BY <1>4, <2>1 DEF Send, OneUnderWay
  <2>2. CASE ~garbled
    <3>1. wire'[1].tid = tid' /\ wire'[1].word = req'
      BY <1>4, <2>2, Sent DEF Asked, Send, call
    <3>2. awaiting' /\ tid' # tid
      BY <1>4, TidsWrap DEF Send, TypeOK
    <3>3. stream # <<>> => stream[1].tid # tid'
      BY <1>4, <2>2, Sent, Queued DEF TypeOK
    <3>4. QED
      BY <1>4, <2>2, <3>1, <3>2, <3>3, Sent DEF OneUnderWay
  <2>3. QED
    BY <2>1, <2>2
<1>5. CASE SendFails
  <2>1. CASE open
    BY <1>2, <1>5, <2>1 DEF SendFails
  <2>2. CASE ~open
    BY <1>5, <2>2 DEF SendFails, OneUnderWay
  <2>3. QED
    BY <2>1, <2>2
<1>6. CASE ReceiveFails
  BY <1>2, <1>6 DEF ReceiveFails
<1>7. CASE HeaderMismatch \/ ReadGarbage
  BY <1>7 DEF HeaderMismatch, ReadGarbage, OneUnderWay
<1>8. CASE AnswerRejected \/ AnswerAccepted
  <2>1. QED
    BY <1>8, AnswerTaken DEF OneUnderWay
<1>9. CASE Execute
  <2>1. /\ wire # <<>> /\ Len(wire') = Len(wire) /\ wire'[1].tid = wire[1].tid
        /\ wire'[1].word = wire[1].word /\ wire' # <<>>
    BY <1>9, Executes
  <2>2. UNCHANGED <<awaiting, stream, garbled, tid, req>>
    BY <1>9 DEF Execute, DriverVars, ServerVars, call
  <2>3. QED
    BY <2>1, <2>2 DEF OneUnderWay
<1>10. CASE Answer \/ Misbehave
  <2>1. PICK s \in Seq(Answers) : wire # <<>> /\ Respond(s) /\ \A i \in DOMAIN s : s[i] = s[1]
    BY <1>10, ServerSends
  <2>2. UNCHANGED <<awaiting, garbled, tid>>
    BY <2>1 DEF Respond, DriverVars, ServerVars
  <2>3. CASE garbled
    BY <2>2, <2>3 DEF OneUnderWay
  <2>4. CASE ~garbled
    <3>1. awaiting /\ Len(wire) = 1 /\ wire' = <<>> /\ stream' = stream \o s
      BY <2>1, <2>4, Queued, EmptySeq DEF OneUnderWay, Respond, TypeOK
    <3>2. CASE stream = <<>>
      <4>1. stream' = s
        BY <3>1, <3>2, ConcatEmptySeq
      <4>2. QED
        BY <2>1, <2>2, <3>1, <4>1 DEF OneUnderWay
    <3>3. CASE stream # <<>>
      <4>1. stream'[1] = stream[1] /\ stream[1].tid # tid
        BY <2>1, <2>4, <3>1, <3>3, Queued, ConcatProperties, LenProperties DEF TypeOK, OneUnderWay
      <4>2. QED
        BY <2>2, <3>1, <4>1 DEF OneUnderWay
    <3>4. QED
      BY <3>2, <3>3
  <2>5. QED
    BY <2>3, <2>4
<1>11. CASE FieldChanges \/ RetryDue
  BY <1>11 DEF FieldChanges, RetryDue, DriverVars, ServerVars, traffic, call, OneUnderWay
<1>12. QED
  BY <1>1, <1>3, <1>4, <1>5, <1>6, <1>7, <1>8, <1>9, <1>10, <1>11 DEF Next, SendRequest, Serve

-----------------------------------------------------------------------------
(* What the exchange has done. *)

\* The outcomes along the way are those of a failed exchange.
LEMMA StepsAreOutcomes ==
  ASSUME NEW w \in Words
  PROVE  Written(Earlier(w)) \in Outcomes /\ Written(Upto(w)) \in Outcomes
<1>1. /\ Earlier("di") = {} /\ Earlier("ai") = {} /\ Earlier("do") = {} /\ Earlier("ao") = {"do"}
      /\ Upto("di") = {} /\ Upto("ai") = {} /\ Upto("do") = {"do"} /\ Upto("ao") = Outputs
  BY DEF Earlier, Upto, Outputs, Place
<1>2. QED
  BY <1>1 DEF Words, Outcomes

\* Before the first mapped word nothing is written, between two mapped words that follow
\* each other it is what it was, and after the last one all is.
LEMMA WrittenAgree ==
  ASSUME NEW S, NEW T, \A v \in Outputs \cap mapped : v \in S <=> v \in T
  PROVE  Written(S) = Written(T)
BY DEF Written

LEMMA WrittenFirst ==
  ASSUME NEW w, \A v \in mapped : Place[w] <= Place[v], mapped \subseteq Words, w \in Words
  PROVE  Written(Earlier(w)) = Written({})
<1>1. \A v \in Outputs \cap mapped : v \notin Earlier(w)
  BY Places DEF Earlier
<1>2. QED
  BY <1>1, WrittenAgree

LEMMA WrittenNext ==
  ASSUME NEW u \in Words, NEW w \in After(u), \A v \in After(u) : Place[w] <= Place[v],
         mapped \subseteq Words
  PROVE  Written(Earlier(w)) = Written(Upto(u))
<1>1. \A v \in Outputs \cap mapped : v \in Earlier(w) <=> v \in Upto(u)
  BY Places DEF Earlier, Upto, After
<1>2. QED
  BY <1>1, WrittenAgree

LEMMA WrittenLast ==
  ASSUME NEW u \in Words, After(u) = {}, mapped \subseteq Words
  PROVE  Written(Upto(u)) = Written(Outputs)
<1>1. \A v \in Outputs \cap mapped : v \in Upto(u)
  BY Places DEF Upto, After
<1>2. QED
  BY <1>1, WrittenAgree

\* The device with the value of a request for the word w.
LEMMA WrittenNow ==
  ASSUME device = Written(Earlier(req)), req \in mapped, mapped \subseteq Words, NEW x,
         req \in Outputs => x = outputs[req]
  PROVE  [w \in Outputs |-> IF w = req THEN x ELSE device[w]] = Written(Upto(req))
<1>1. \A w \in Outputs : (IF w = req THEN x ELSE device[w])
                         = IF w \in Upto(req) \cap mapped THEN outputs[w] ELSE before[w]
  <2> TAKE w \in Outputs
  <2>1. CASE w = req
    BY <2>1, Places DEF Upto
  <2>2. CASE w # req
    <3>1. w \in Upto(req) <=> w \in Earlier(req)
      BY <2>2, Places DEF Upto, Earlier, Words, Outputs
    <3>2. QED
      BY <2>2, <3>1 DEF Written
  <2>3. QED
    BY <2>1, <2>2
<1>2. QED
  BY <1>1 DEF Written

\* What the properties look back at stays within a call.
LEMMA WrittenKept ==
  ASSUME UNCHANGED <<mapped, outputs, before, req>>
  PROVE  /\ Written(Earlier(req))' = Written(Earlier(req))
         /\ Written(Upto(req))' = Written(Upto(req))
         /\ Written(Outputs)' = Written(Outputs)
         /\ Outcomes' = Outcomes
BY DEF Written, Earlier, Upto, Outcomes

Kept == UNCHANGED <<mapped, start, outputs>>

\* Only the entry of exchange() changes what the properties look back at.
LEMMA CallKeeps ==
  ASSUME Next, ~\E o \in Images : Exchange(o)
  PROVE  Kept
<1>1. CASE Shutdown \/ SendRequest
  BY <1>1 DEF Kept, Shutdown, SendRequest, Send, SendFails, ReceiveFails, HeaderMismatch, ReadGarbage,
     AnswerRejected, AnswerAccepted
<1>2. CASE Serve \/ Misbehave
  BY <1>2, ServerKeeps DEF Serve, DriverVars, Kept
<1>3. CASE FieldChanges \/ RetryDue
  BY <1>3 DEF FieldChanges, RetryDue, DriverVars, Kept
<1>4. QED
  BY <1>1, <1>2, <1>3 DEF Next

Entry == \E o \in Images : Exchange(o)

\* The entry of exchange(): nothing is written and nothing read yet.
LEMMA EntryBegins ==
  ASSUME TypeOK, CallsInStep, OneUnderWay, Entry
  PROVE  /\ DeviceFollows' /\ ReadsAreFresh' /\ LateRequest' /\ InputsAreFresh' /\ ExchangeLands'
<1>0. mapped \subseteq Words
  BY MappingsAssumption DEF TypeOK
<1>1. /\ ~awaiting /\ before' = device /\ UNCHANGED <<mapped, traffic, field, device>>
      /\ inStep' = (wire = <<>> /\ ~garbled) /\ seen' = [w \in Inputs |-> {field[w]}]
  BY DEF Entry, Exchange, Idle, CallsInStep
<1>2. \/ result' = "err"
      \/ result' = "busy" /\ req' \in mapped /\ \A v \in mapped : Place[req'] <= Place[v]
      \/ result' = "ok" /\ mapped = {}
  BY <1>0, GoesOn DEF Entry, Exchange, Connected, GiveUp, Defer, Reconnect, Refused, Fails
<1>3. device \in [Outputs -> Values]
  BY DEF TypeOK
<1>4. Written({})' = device'
  BY <1>1, <1>3 DEF Written
<1>5. mapped = {} => Written(Outputs)' = device'
  BY <1>1, <1>3 DEF Written
<1>6. result' = "busy" => Written(Earlier(req))' = device'
  <2> SUFFICES ASSUME result' = "busy" PROVE Written(Earlier(req))' = device'
    OBVIOUS
  <2>1. \A v \in Outputs \cap mapped : v \notin Earlier(req')
    BY <1>0, <1>2, Places DEF Earlier
  <2>2. QED
    BY <1>1, <1>3, <2>1 DEF Written, Earlier
<1>7. DeviceFollows'
  BY <1>1, <1>6 DEF traffic, OneUnderWay, DeviceFollows
<1>8. ReadsAreFresh'
  <2>1. \A w \in Inputs : field'[w] \in seen'[w]
    BY <1>1
  <2>2. result' = "busy" => \A w \in mapped' \cap Inputs : ~(Place[w] < Place[req'])
    BY <1>0, <1>1, <1>2, Places
  <2>3. QED
    BY <2>1, <2>2 DEF ReadsAreFresh
<1>9. LateRequest'
  BY <1>1 DEF LateRequest, traffic
<1>10. InputsAreFresh'
  BY <1>1, <1>2 DEF InputsAreFresh
<1>11. ExchangeLands'
  <2>1. mapped = {} => wire' = <<>>
    BY <1>1 DEF CallsInStep, OneUnderWay, traffic
  <2>2. QED
    BY <1>2, <1>1, <1>4, <1>5, <2>1 DEF ExchangeLands
<1>12. QED
  BY <1>7, <1>8, <1>9, <1>10, <1>11

\* A call in step that fails has reached one of the outcomes.
LEMMA FailureIsOutcome ==
  ASSUME TypeOK, CallsInStep, DeviceFollows, result = "busy", inStep
  PROVE  device \in Outcomes
<1>1. req \in Words
  BY MappingsAssumption DEF TypeOK, CallsInStep
<1>2. device = Written(Earlier(req)) \/ device = Written(Upto(req))
  BY DEF CallsInStep, DeviceFollows
<1>3. QED
  BY <1>1, <1>2, StepsAreOutcomes

\* A call that fails leaves nothing on the wire, or a request that completes an outcome.
LEMMA FailureEnds ==
  ASSUME TypeOK, ExchangeIInv, Kept, result = "busy", Fails, UNCHANGED device,
         wire' = <<>> \/ (~inStep) \/ (HeaderMismatch /\ wire' = wire)
  PROVE  /\ DeviceFollows' /\ ReadsAreFresh' /\ LateRequest' /\ InputsAreFresh' /\ ExchangeLands'
<1>0. Outcomes' = Outcomes /\ inStep' = inStep /\ result' = "err"
  BY DEF Kept, start, Fails, Outcomes, Written
<1>1. DeviceFollows' /\ ReadsAreFresh' /\ InputsAreFresh'
  BY <1>0 DEF DeviceFollows, ReadsAreFresh, InputsAreFresh
<1>2. ExchangeLands'
  BY <1>0, FailureIsOutcome DEF ExchangeIInv, ExchangeLands, Outcomes
<1>3. LateRequest'
  <2>1. CASE wire' = <<>> \/ ~inStep
    BY <1>0, <2>1 DEF LateRequest
  <2>2. CASE HeaderMismatch /\ wire' = wire /\ wire # <<>> /\ inStep
    <3>1. awaiting /\ ~garbled /\ Len(wire) = 1 /\ wire[1].word = req
      BY <2>2 DEF HeaderMismatch, ExchangeIInv, OneUnderWay
    <3>2. ~wire[1].done => Pending(wire[1])
      BY <2>2, <3>1 DEF ExchangeIInv, DeviceFollows
    <3>3. req \in mapped /\ mapped \subseteq Words
      BY MappingsAssumption DEF TypeOK, ExchangeIInv, CallsInStep
    <3>4. ~wire[1].done =>
            [w \in Outputs |-> IF w = wire[1].word THEN wire[1].val ELSE device[w]] \in Outcomes
      <4> SUFFICES ASSUME ~wire[1].done
                   PROVE  [w \in Outputs |-> IF w = wire[1].word THEN wire[1].val ELSE device[w]]
                            \in Outcomes
        OBVIOUS
      <4> DEFINE x == wire[1].val
      <4>1. device = Written(Earlier(req)) /\ (req \in Outputs => x = outputs[req])
        BY <3>2 DEF Pending
      <4> HIDE DEF x
      <4>2. [w \in Outputs |-> IF w = req THEN x ELSE device[w]] = Written(Upto(req))
        BY <3>3, <4>1, WrittenNow
      <4>3. Written(Upto(req)) \in Outcomes
        BY <3>3, StepsAreOutcomes
      <4>4. QED
        BY <3>1, <4>2, <4>3 DEF x
    <3>5. QED
      BY <1>0, <2>2, <3>1, <3>4 DEF LateRequest
  <2>3. QED
    BY <1>0, <2>1, <2>2 DEF LateRequest
<1>4. QED
  BY <1>1, <1>2, <1>3

Results == DeviceFollows /\ ReadsAreFresh /\ LateRequest /\ InputsAreFresh /\ ExchangeLands

\* A request is written: it is pending.
LEMMA SendResults == ASSUME ExchangeIInv, Kept, Send PROVE Results'
<1> USE DEF ExchangeIInv, Results
<1>1. /\ result = "busy" /\ ~awaiting /\ awaiting'
      /\ UNCHANGED <<result, req, garbled, device, field, seen, inputs, stream>>
  BY DEF Send, call
<1>2. UNCHANGED <<mapped, outputs, before, inStep>>
  BY DEF Kept, start
<1>3. ReadsAreFresh' /\ LateRequest' /\ InputsAreFresh' /\ ExchangeLands'
  BY <1>1, <1>2 DEF ReadsAreFresh, LateRequest, InputsAreFresh, ExchangeLands
<1>4. DeviceFollows'
  <2>1. CASE garbled
    BY <1>1, <2>1 DEF DeviceFollows
  <2>2. CASE ~garbled
    <3>1. device' = Written(Earlier(req))'
      BY <1>1, <1>2, <2>2, WrittenKept DEF DeviceFollows
    <3>2. ~wire'[1].done /\ Pending(wire[1])'
      BY <1>1, <1>2, <2>2, <3>1, Sent DEF Asked, Pending
    <3>3. stream' # <<>> => stream'[1].tid # tid'
      BY <1>1, <2>2, Sent, Queued DEF TypeOK
    <3>4. QED
      BY <1>1, <3>1, <3>2, <3>3 DEF DeviceFollows
  <2>3. QED
    BY <2>1, <2>2
<1>5. QED
  BY <1>3, <1>4

\* A call that fails within send_request().
LEMMA FailedResults ==
  ASSUME ExchangeIInv, Kept,
         SendFails \/ ReceiveFails \/ HeaderMismatch \/ ReadGarbage \/ AnswerRejected
  PROVE  Results'
<1> USE DEF ExchangeIInv, Results
<1>1. result = "busy" /\ Fails /\ UNCHANGED device
  BY DEF SendFails, ReceiveFails, HeaderMismatch, ReadGarbage, AnswerRejected, CallsInStep
<1>2. wire' = <<>> \/ ~inStep \/ (HeaderMismatch /\ wire' = wire)
  <2>1. CASE SendFails
    BY <2>1, <1>1 DEF SendFails, Lose, CallsInStep, OneUnderWay
  <2>2. CASE ReceiveFails
    BY <2>2 DEF ReceiveFails, Lose
  <2>3. CASE HeaderMismatch
    BY <2>3 DEF HeaderMismatch
  <2>4. CASE ReadGarbage
    BY <2>4, <1>1 DEF ReadGarbage, CallsInStep
  <2>5. CASE AnswerRejected
    BY <2>5, AnswerTaken
  <2>6. QED
    BY <2>1, <2>2, <2>3, <2>4, <2>5
<1>3. QED
  BY <1>1, <1>2, FailureEnds

\* An answer is accepted: its word is exchanged, and the next one is not yet.
LEMMA AcceptedResults == ASSUME ExchangeIInv, Kept, AnswerAccepted PROVE Results'
<1> USE DEF ExchangeIInv, Results
<1>1. /\ awaiting /\ ~garbled /\ ~Head(stream).exception /\ Head(stream).word = req
      /\ UNCHANGED <<garbled, device, field, seen>> /\ GoOn(After(req))
      /\ inputs' = [w \in Inputs |-> IF w = req THEN Head(stream).val ELSE inputs[w]]
  BY DEF AnswerAccepted
<1>2. UNCHANGED <<mapped, outputs, before, inStep>>
  BY DEF Kept, start
<1>3. /\ result = "busy" /\ req \in mapped /\ mapped \subseteq Words /\ req \in Words
  BY <1>1, MappingsAssumption DEF TypeOK, CallsInStep
<1>4. /\ wire' = <<>> /\ ~awaiting' /\ stream # <<>>
      /\ Head(stream) = stream[1] /\ stream[1].tid = tid
  BY AnswerTaken
<1>5. device = Written(Upto(req)) /\ (req \in Inputs => Head(stream).val \in seen[req])
  BY <1>1, <1>3, <1>4 DEF DeviceFollows, Tells
<1>6. After(req) \subseteq Words
  BY <1>3 DEF After
<1>7. \A w \in mapped \cap Inputs : Place[w] <= Place[req] => inputs'[w] \in seen[w]
  BY <1>1, <1>3, <1>5, Places DEF ReadsAreFresh
<1>8. CASE result' = "ok"
  <2>1. After(req) = {}
    BY <1>1, <1>6, <1>8, GoesOn
  <2>2. device' = Written(Outputs)'
    BY <1>1, <1>2, <1>3, <1>5, <2>1, WrittenLast DEF Written
  <2>3. \A w \in mapped : Place[w] <= Place[req]
    BY <1>3, <2>1, Places DEF After
  <2>4. QED
    BY <1>1, <1>2, <1>4, <1>7, <1>8, <2>2, <2>3
    DEF DeviceFollows, ReadsAreFresh, LateRequest, InputsAreFresh, ExchangeLands
<1>9. CASE result' = "busy"
  <2>1. req' \in After(req) /\ \A v \in After(req) : Place[req'] <= Place[v]
    BY <1>1, <1>6, <1>9, GoesOn
  <2>2. Written(Earlier(req')) = Written(Upto(req))
    BY <1>3, <2>1, WrittenNext
  <2>3. device' = Written(Earlier(req))'
    BY <1>1, <1>2, <1>5, <2>2 DEF Written, Earlier
  <2>4. DeviceFollows'
    BY <1>4, <2>3 DEF DeviceFollows
  <2>5. \A w \in mapped \cap Inputs : Place[w] < Place[req'] => Place[w] <= Place[req]
    BY <1>3, <2>1, Places DEF After
  <2>6. ReadsAreFresh'
    BY <1>1, <1>2, <1>3, <1>7, <2>5 DEF ReadsAreFresh
  <2>7. QED
    BY <1>9, <2>4, <2>6 DEF LateRequest, InputsAreFresh, ExchangeLands
<1>10. QED
  BY <1>1, <1>6, <1>8, <1>9, GoesOn

\* The server executes the request: the device follows, or completes an outcome.
LEMMA ExecutedResults == ASSUME ExchangeIInv, Kept, Execute PROVE Results'
<1> USE DEF ExchangeIInv, Results
<1>1. /\ UNCHANGED <<mapped, outputs, before, inStep, awaiting, garbled, result, req, tid, inputs,
                    stream, field, seen>>
  BY DEF Execute, DriverVars, ServerVars, call, start
<1>2. InputsAreFresh' /\ ReadsAreFresh'
  BY <1>1 DEF InputsAreFresh, ReadsAreFresh
<1>3. mapped \subseteq Words
  BY MappingsAssumption DEF TypeOK
<1>4. /\ wire # <<>> /\ ~wire[1].done /\ Len(wire') = Len(wire) /\ wire' # <<>> /\ wire'[1].done
      /\ wire'[1].word = wire[1].word
      /\ wire'[1].val = IF wire[1].word \in Inputs THEN field[wire[1].word] ELSE wire[1].val
      /\ device' = [w \in Outputs |-> IF w = wire[1].word THEN wire[1].val ELSE device[w]]
  BY Executes
<1>5. CASE result = "busy" /\ ~garbled
  <2>1. awaiting /\ wire[1].word = req /\ req \in mapped /\ \A i \in DOMAIN stream : stream[i].tid # tid
    BY <1>4, <1>5 DEF OneUnderWay, CallsInStep
  <2>2. Pending(wire[1])
    BY <1>4, <1>5 DEF DeviceFollows
  <2>3. device' = Written(Upto(req))
    <3> DEFINE x == wire[1].val
    <3>1. device = Written(Earlier(req)) /\ (req \in Outputs => x = outputs[req])
      BY <2>2 DEF Pending
    <3>2. device' = [w \in Outputs |-> IF w = req THEN x ELSE device[w]]
      BY <1>4, <2>1
    <3> HIDE DEF x
    <3>3. QED
      BY <1>3, <2>1, <3>1, <3>2, WrittenNow
  <2>4. device' = Written(Upto(req))'
    BY <1>1, <2>3, WrittenKept
  <2>5. Tells(wire[1])'
    <3>1. req \in Inputs => wire'[1].val = field[req] /\ field[req] \in seen[req]
      BY <1>4, <1>5, <2>1 DEF ReadsAreFresh
    <3>2. QED
      BY <1>1, <2>4, <3>1 DEF Tells
  <2>6. stream # <<>> => stream[1].tid # tid
    BY <2>1, Queued DEF TypeOK
  <2>7. DeviceFollows'
    BY <1>1, <1>4, <2>1, <2>4, <2>5, <2>6 DEF DeviceFollows
  <2>8. QED
    BY <1>1, <1>2, <1>5, <2>7 DEF LateRequest, ExchangeLands
<1>6. CASE ~(result = "busy" /\ ~garbled)
  <2>1. DeviceFollows'
    BY <1>1, <1>6 DEF DeviceFollows
  <2>2. result # "ok"
    BY <1>4 DEF CallsInStep, OneUnderWay
  <2>3. Outcomes' = Outcomes
    BY <1>1 DEF Outcomes, Written
  <2>4. result = "err" /\ inStep => device' \in Outcomes
    BY <1>4 DEF LateRequest
  <2>5. ExchangeLands'
    BY <1>1, <2>2, <2>3, <2>4 DEF ExchangeLands, Outcomes
  <2>6. LateRequest'
    BY <1>1, <1>4 DEF LateRequest
  <2>7. QED
    BY <1>2, <2>1, <2>5, <2>6
<1>7. QED
  BY <1>5, <1>6

\* The server answers, rightly or not: what it tells of the request is true.
LEMMA AnsweredResults == ASSUME ExchangeIInv, Kept, Answer \/ Misbehave PROVE Results'
<1> USE DEF ExchangeIInv, Results
<1>1. PICK s \in Seq(Answers) :
        /\ wire # <<>> /\ Respond(s)
        /\ s # <<>> /\ s[1].tid = wire[1].tid /\ ~s[1].exception /\ s[1].word = wire[1].word
             => wire[1].done /\ s[1].val = wire[1].val
  BY ServerSends
<1>2. /\ UNCHANGED <<mapped, outputs, before, inStep, awaiting, garbled, result, req, tid, inputs,
                    field, seen, device>>
  BY <1>1 DEF Respond, DriverVars, ServerVars, call, start
<1>3. wire' = Tail(wire) /\ stream' = IF garbled THEN stream ELSE stream \o s
  BY <1>1 DEF Respond
<1>4. InputsAreFresh' /\ ReadsAreFresh' /\ ExchangeLands'
  BY <1>1, <1>2 DEF InputsAreFresh, ReadsAreFresh, ExchangeLands, Written
<1>5. Len(wire) = 1 => wire' = <<>>
  BY <1>1, <1>3, Queued, EmptySeq DEF TypeOK
<1>6. LateRequest'
  BY <1>1, <1>2, <1>5 DEF LateRequest
<1>7. DeviceFollows'
  <2>1. CASE ~(result = "busy" /\ ~garbled)
    BY <1>2, <2>1 DEF DeviceFollows
  <2>2. CASE result = "busy" /\ ~garbled
    <3>1. /\ awaiting /\ wire' = <<>> /\ wire[1].tid = tid /\ wire[1].word = req
          /\ \A i \in DOMAIN stream : stream[i].tid # tid
      BY <1>1, <1>5, <2>2 DEF OneUnderWay
    <3>2. device' \in {Written(Earlier(req)), Written(Upto(req))}'
      BY <1>2, <2>2, <3>1, WrittenKept DEF DeviceFollows
    <3>3. ASSUME stream' # <<>>, stream'[1].tid = tid, ~stream'[1].exception, stream'[1].word = req
          PROVE  Tells(stream[1])'
      <4>1. stream = <<>>
        <5>1. SUFFICES ASSUME stream # <<>> PROVE FALSE
          OBVIOUS
        <5>2. stream'[1] = stream[1] /\ 1 \in DOMAIN stream
          BY <1>3, <2>2, <5>1, Queued, ConcatProperties, LenProperties DEF TypeOK
        <5>3. QED
          BY <3>1, <3>3, <5>2
      <4>2. stream' = s
        BY <1>3, <2>2, <4>1, ConcatEmptySeq
      <4>3. wire[1].done /\ stream'[1].val = wire[1].val
        BY <1>1, <3>1, <3>3, <4>2
      <4>4. Tells(wire[1])
        BY <1>1, <2>2, <4>3 DEF DeviceFollows
      <4>5. QED
        BY <1>2, <4>3, <4>4, WrittenKept DEF Tells
    <3>4. QED
      BY <1>2, <3>1, <3>2, <3>3 DEF DeviceFollows
  <2>3. QED
    BY <2>1, <2>2
<1>8. QED
  BY <1>4, <1>6, <1>7

\* A field input changes within a call: it is one more value of this exchange.
LEMMA FieldResults == ASSUME ExchangeIInv, Kept, FieldChanges PROVE Results'
<1> USE DEF ExchangeIInv, Results
<1>1. /\ UNCHANGED <<mapped, outputs, before, inStep, awaiting, garbled, result, req, tid, inputs,
                    wire, stream, device>>
  BY DEF FieldChanges, DriverVars, ServerVars, call, start
<1>2. PICK w \in Inputs \cap mapped, v \in Values :
        /\ field' = [field EXCEPT ![w] = v]
        /\ seen' = [seen EXCEPT ![w] = IF result = "busy" THEN @ \cup {v} ELSE @]
  BY DEF FieldChanges
<1>3. \A u \in Inputs : seen[u] \subseteq seen'[u] /\ (result # "busy" => seen'[u] = seen[u])
  BY <1>2 DEF TypeOK
<1>4. result = "busy" => \A u \in Inputs : field'[u] \in seen'[u]
  BY <1>2 DEF TypeOK, ReadsAreFresh
<1>5. ReadsAreFresh' /\ InputsAreFresh'
  BY <1>1, <1>3, <1>4 DEF ReadsAreFresh, InputsAreFresh
<1>6. LateRequest' /\ ExchangeLands'
  BY <1>1 DEF LateRequest, ExchangeLands, Written, Outcomes
<1>7. DeviceFollows'
  <2>1. \A a : Tells(a) => (req \in Inputs => a.val \in seen'[req])
    BY <1>3 DEF Tells
  <2>2. QED
    BY <1>1, <2>1, WrittenKept DEF DeviceFollows, Tells, Pending
<1>8. QED
  BY <1>5, <1>6, <1>7

\* The clock, the end and a step of nobody.
LEMMA IdleResults == ASSUME ExchangeIInv, Kept, Shutdown \/ RetryDue PROVE Results'
<1> USE DEF ExchangeIInv, Results
<1>1. CASE Shutdown
  BY <1>1 DEF Shutdown, DeviceFollows, ReadsAreFresh, LateRequest, InputsAreFresh, ExchangeLands
<1>2. CASE RetryDue
  <2>1. UNCHANGED <<mapped, outputs, before, inStep, awaiting, garbled, result, req, tid, inputs,
                    wire, stream, device, field, seen>>
    BY <1>2 DEF RetryDue, call, start, traffic
  <2>2. ReadsAreFresh' /\ InputsAreFresh' /\ LateRequest' /\ ExchangeLands'
    BY <2>1 DEF ReadsAreFresh, InputsAreFresh, LateRequest, ExchangeLands, Written, Outcomes
  <2>3. DeviceFollows'
    BY <2>1, WrittenKept DEF DeviceFollows, Tells, Pending
  <2>4. QED
    BY <2>2, <2>3
<1>3. QED
  BY <1>1, <1>2

-----------------------------------------------------------------------------

LEMMA InitExchange == Init => ExchangeIInv
<1> SUFFICES ASSUME Init PROVE ExchangeIInv
  OBVIOUS
<1>1. TypeOK
  <2>1. wire \in Seq(Requests) /\ stream \in Seq(Answers)
    BY EmptySeq DEF Init
  <2>2. {open, awaiting, garbled, inStep} \subseteq BOOLEAN
    BY DEF Init
  <2>3. QED
    BY <2>1, <2>2, ZeroAssumption, BoundsAssumption DEF Init, TypeOK, Tids
<1>2. CallsInStep /\ OneUnderWay
  BY DEF Init, CallsInStep, OneUnderWay
<1>3. DeviceFollows /\ ReadsAreFresh /\ LateRequest /\ InputsAreFresh
  BY DEF Init, DeviceFollows, ReadsAreFresh, LateRequest, InputsAreFresh
<1>4. ExchangeLands
  BY DEF Init, ExchangeLands, Written
<1>5. QED
  BY <1>1, <1>2, <1>3, <1>4 DEF ExchangeIInv

LEMMA ExchangeStep == ExchangeIInv /\ [Next]_vars => ExchangeIInv'
<1> SUFFICES ASSUME ExchangeIInv, [Next]_vars PROVE ExchangeIInv'
  OBVIOUS
<1>1. CASE Next
  <2>1. TypeOK' /\ CallsInStep' /\ OneUnderWay'
    BY <1>1, Typed, CallsStay, UnderWay DEF ExchangeIInv
  <2>2. Results'
    <3>1. CASE Entry
      BY <3>1, EntryBegins DEF ExchangeIInv, Results
    <3>2. CASE ~Entry
      <4>1. Kept
        BY <1>1, <3>2, CallKeeps DEF Entry
      <4>2. QED
        BY <1>1, <3>2, <4>1, SendResults, FailedResults, AcceptedResults, ExecutedResults,
           AnsweredResults, FieldResults, IdleResults DEF Next, SendRequest, Serve, Entry
    <3>3. QED
      BY <3>1, <3>2
  <2>3. QED
    BY <2>1, <2>2 DEF ExchangeIInv, Results
<1>2. CASE UNCHANGED vars
  BY <1>2 DEF vars, link, call, start, traffic, ExchangeIInv, TypeOK, CallsInStep, OneUnderWay,
     DeviceFollows, ReadsAreFresh, LateRequest, InputsAreFresh, ExchangeLands, Tells, Pending, Written,
     Earlier, Upto, Outcomes
<1>3. QED
  BY <1>1, <1>2

\* The invariant of the exchange.
THEOREM ExchangeInductive == Spec => []ExchangeIInv
BY InitExchange, ExchangeStep, PTL DEF Spec

\* An exchange that returned Ok has stored inputs of its own: no late or doubled answer
\* is taken for another request's, for any width of the transaction id above one value.
THEOREM FreshReads == Spec => []InputsAreFresh
<1>1. ExchangeIInv => InputsAreFresh
  BY DEF ExchangeIInv
<1>2. QED
  BY <1>1, ExchangeInductive, PTL

\* An exchange that returned Ok has written every mapped output and leaves nothing to be
\* executed later; one that failed in step has written none, the digital ones, or all.
THEOREM Lands == Spec => []ExchangeLands
<1>1. ExchangeIInv => ExchangeLands
  BY DEF ExchangeIInv
<1>2. QED
  BY <1>1, ExchangeInductive, PTL

\* The device's words as the daemon's loop sees them.
Image(d) == [digital |-> d["do"], analog |-> d["ao"]]

\* What the server has still been asked to write, in the daemon's words.
Left == [digital |-> Undone("do"), analog |-> Undone("ao")]

\* Only the execution of a request changes the device.
LEMMA OnlyExecution ==
  ASSUME TypeOK, [Next]_vars, NEW w \in Outputs
  PROVE  device'[w] = device[w] \/ (Execute /\ wire[1].word = w /\ device'[w] = wire[1].val)
<1>1. CASE Execute
  <2>1. Head(wire) = wire[1]
    BY <1>1, Queued DEF TypeOK, Execute
  <2>2. QED
    BY <1>1, <2>1 DEF Execute
<1>2. CASE ~Execute
  <2>1. device' = device
    BY <1>2 DEF Next, vars, Exchange, Shutdown, SendRequest, Send, SendFails, ReceiveFails,
       HeaderMismatch, ReadGarbage, AnswerRejected, AnswerAccepted, Serve, Answer, Misbehave,
       AnswerException, AnswerTwice, AnswerWrongly, Silence, Respond, FieldChanges, RetryDue
  <2>2. QED
    BY <2>1
<1>3. QED
  BY <1>1, <1>2

\* The requests under way stay, lose the oldest, lose all, gain one of this exchange, or
\* have the oldest executed.
LEMMA WireSteps ==
  ASSUME TypeOK, CallsInStep, [Next]_vars
  PROVE  \/ wire' = wire \/ wire' = <<>>
         \/ wire # <<>> /\ wire' = Tail(wire)
         \/ wire' = Append(wire, Asked) /\ outputs' = outputs /\ Asked \in Requests
         \/ Execute
<1>1. CASE Send
  BY <1>1, AskedTyped DEF Send, Asked
<1>2. CASE Shutdown \/ SendFails \/ ReceiveFails
  BY <1>2 DEF Shutdown, SendFails, ReceiveFails, Lose
<1>3. CASE Answer \/ Misbehave
  BY <1>3 DEF Answer, Misbehave, AnswerException, AnswerTwice, AnswerWrongly, Silence, Respond
<1>4. CASE HeaderMismatch \/ ReadGarbage \/ AnswerRejected \/ AnswerAccepted
  BY <1>4 DEF HeaderMismatch, ReadGarbage, AnswerRejected, AnswerAccepted
<1>5. CASE (\E o \in Images : Exchange(o)) \/ FieldChanges \/ RetryDue \/ UNCHANGED vars
  BY <1>5 DEF Exchange, FieldChanges, RetryDue, traffic, vars
<1>6. QED
  BY <1>1, <1>2, <1>3, <1>4, <1>5 DEF Next, SendRequest, Serve

\* So the only writes that are added to those left are of the exchange in progress.
LEMMA OnlyThisExchange ==
  ASSUME TypeOK, CallsInStep, [Next]_vars, NEW w \in Outputs
  PROVE  Undone(w)' \subseteq Undone(w) \cup {outputs'[w]}
<1> SUFFICES ASSUME NEW i \in DOMAIN wire', wire'[i].word = w, ~wire'[i].done
             PROVE  wire'[i].val \in Undone(w) \cup {outputs'[w]}
  BY DEF Undone
<1>1. CASE wire' = wire \/ wire' = <<>>
  BY <1>1 DEF Undone
<1>2. CASE wire # <<>> /\ wire' = Tail(wire)
  <2>1. i + 1 \in DOMAIN wire /\ wire'[i] = wire[i + 1]
    BY <1>2, Queued DEF TypeOK
  <2>2. QED
    BY <2>1 DEF Undone
<1>3. CASE wire' = Append(wire, Asked) /\ outputs' = outputs /\ Asked \in Requests
  <2>1. /\ DOMAIN wire' = 1 .. Len(wire) + 1 /\ wire'[Len(wire) + 1] = Asked
        /\ DOMAIN wire = 1 .. Len(wire) /\ \A k \in 1 .. Len(wire) : wire'[k] = wire[k]
    <3>1. wire \in Seq(Requests)
      BY DEF TypeOK
    <3>2. QED
      BY <1>3, <3>1, AppendProperties, LenProperties
  <2>2. CASE i = Len(wire) + 1
    <3>1. wire'[i] = Asked
      BY <2>1, <2>2
    <3>2. Asked.word = req /\ (req \in Outputs => Asked.val = outputs[req])
      BY DEF Asked
    <3>3. QED
      BY <1>3, <3>1, <3>2
  <2>3. CASE i \in 1 .. Len(wire)
    BY <2>1, <2>3 DEF Undone
  <2>4. Len(wire) \in Nat
    BY LenProperties DEF TypeOK
  <2>5. QED
    BY <2>1, <2>2, <2>3, <2>4
<1>4. CASE Execute
  <2>1. wire # <<>> /\ Head(wire) = wire[1] /\ 1 \in DOMAIN wire
    BY <1>4, Queued DEF TypeOK, Execute
  <2>2. DOMAIN wire' = DOMAIN wire /\ \A k \in DOMAIN wire : k # 1 => wire'[k] = wire[k]
    BY <1>4 DEF Execute
  <2>3. wire'[1].done
    BY <1>4, Executes DEF TypeOK
  <2>4. QED
    BY <2>2, <2>3 DEF Undone
<1>5. QED
  BY <1>1, <1>2, <1>3, <1>4, WireSteps

\* What the daemon's loop counts on, whether or not an exchange begins in step, whether it
\* returns Ok or fails: one that returned Ok has landed whole and left nothing to be written
\* (Daemon's Delivered); a step changes the device only by a write left behind (LateWrite),
\* and adds to these only words of the image being exchanged (Undelivered).
THEOREM LandsAsTheDaemonAssumes ==
  Spec => /\ [](result = "ok" => Image(device) = Image(Written(Outputs)) /\ Left = Nothing)
          /\ [][/\ Image(device)' \in {Image(device)} \cup Landed(Image(device), Left)
                /\ LET now == LeftBehind(Left, Image(outputs)')
                   IN  Left'.digital \subseteq now.digital /\ Left'.analog \subseteq now.analog]_vars
<1>1. ExchangeIInv => (result = "ok" => Image(device) = Image(Written(Outputs)) /\ Left = Nothing)
  <2> SUFFICES ASSUME ExchangeLands, result = "ok"
               PROVE  Image(device) = Image(Written(Outputs)) /\ Left = Nothing
    BY DEF ExchangeIInv
  <2>1. device = Written(Outputs) /\ wire = <<>>
    BY DEF ExchangeLands
  <2>2. \A w : Undone(w) = {}
    BY <2>1 DEF Undone
  <2>3. QED
    BY <2>1, <2>2 DEF Left, Nothing
<1>2. ASSUME ExchangeIInv, [Next]_vars
      PROVE  Image(device)' \in {Image(device)} \cup Landed(Image(device), Left)
  <2>1. "do" \in Outputs /\ "ao" \in Outputs /\ \A w \in Outputs : w = "do" \/ w = "ao"
    BY DEF Outputs
  <2>2. ASSUME NEW w \in Outputs, Execute, wire[1].word = w PROVE wire[1].val \in Undone(w)
    <3>1. 1 \in DOMAIN wire /\ Head(wire) = wire[1]
      BY <1>2, <2>2, Queued DEF Execute, ExchangeIInv, TypeOK
    <3>2. ~wire[1].done
      BY <2>2, <3>1 DEF Execute
    <3>3. QED
      BY <2>2, <3>1, <3>2 DEF Undone
  <2>3. CASE device'["do"] = device["do"] /\ device'["ao"] = device["ao"]
    BY <2>3 DEF Image
  <2>4. ASSUME Execute, wire[1].word = "do", device'["do"] = wire[1].val
        PROVE  Image(device)' \in Landed(Image(device), Left)
    <3>1. device'["ao"] = device["ao"]
      BY <1>2, <2>1, <2>4, OnlyExecution DEF ExchangeIInv
    <3>2. Image(device)' = [Image(device) EXCEPT !.digital = wire[1].val]
      BY <2>4, <3>1 DEF Image
    <3>3. wire[1].val \in Left.digital
      BY <2>1, <2>2, <2>4 DEF Left
    <3>4. QED
      BY <3>2, <3>3 DEF Landed
  <2>5. ASSUME Execute, wire[1].word = "ao", device'["ao"] = wire[1].val
        PROVE  Image(device)' \in Landed(Image(device), Left)
    <3>1. device'["do"] = device["do"]
      BY <1>2, <2>1, <2>5, OnlyExecution DEF ExchangeIInv
    <3>2. Image(device)' = [Image(device) EXCEPT !.analog = wire[1].val]
      BY <2>5, <3>1 DEF Image
    <3>3. wire[1].val \in Left.analog
      BY <2>1, <2>2, <2>5 DEF Left
    <3>4. QED
      BY <3>2, <3>3 DEF Landed
  <2>6. QED
    BY <1>2, <2>1, <2>3, <2>4, <2>5, OnlyExecution DEF ExchangeIInv
<1>3. ASSUME ExchangeIInv, [Next]_vars
      PROVE  LET now == LeftBehind(Left, Image(outputs)')
             IN  Left'.digital \subseteq now.digital /\ Left'.analog \subseteq now.analog
  <2>1. \A w \in Outputs : Undone(w)' \subseteq Undone(w) \cup {outputs'[w]}
    BY <1>3, OnlyThisExchange DEF ExchangeIInv
  <2>2. QED
    BY <2>1 DEF Left, LeftBehind, Image, Outputs
<1>4. QED
  BY <1>1, <1>2, <1>3, ExchangeInductive, PTL DEF Spec

\* Types, for every behaviour of server and network.
THEOREM TypeCorrect == Spec => []TypeOK
<1>1. ExchangeIInv => TypeOK
  BY DEF ExchangeIInv
<1>2. QED
  BY <1>1, ExchangeInductive, PTL

-----------------------------------------------------------------------------
(* The connection. *)

\* Requests are made only inside a call, and a call only has requests to make
\* while the stream is open.
BusyIsOpen ==
  /\ awaiting => result = "busy"
  /\ result = "busy" => open

\* Attempts count the refusals since the last connection.
AttemptsAreRefusals ==
  /\ attempts \in Nat
  /\ refused = attempts
  /\ state = "Failed" => attempts >= MaxAttempts

LinkIInv == ConnectedIsOpen /\ BusyIsOpen /\ AttemptsAreRefusals

USE DEF LinkIInv, ConnectedIsOpen, BusyIsOpen, AttemptsAreRefusals

\* init() has connected, and nothing was refused.
LEMMA InitLink == Init => LinkIInv
  BY DEF Init

\* Entering a call: it has a stream, opens one, or returns Err without one.
LEMMA ExchangeLink ==
  ASSUME LinkIInv, NEW o, Exchange(o)
  PROVE  LinkIInv' /\ (state = "Failed" => state' = "Failed")
<1> USE BoundsAssumption DEF Exchange, Idle, traffic
<1>1. CASE Connected
  BY <1>1 DEF Connected, GoOn, link
<1>2. CASE GiveUp
  BY <1>2 DEF GiveUp, Fails
<1>3. CASE Defer
  BY <1>3 DEF Defer, Fails, link
<1>4. CASE Reconnect
  BY <1>4 DEF Reconnect, Connect, GoOn
<1>5. CASE Refused
  BY <1>5 DEF Refused, Fails
<1>6. QED
  BY <1>1, <1>2, <1>3, <1>4, <1>5

\* Inside a call the stream is kept, or dropped together with the state.
LEMMA RequestLink ==
  ASSUME LinkIInv, SendRequest
  PROVE  LinkIInv' /\ (state = "Failed" => state' = "Failed")
<1>1. CASE Send
  BY <1>1 DEF Send, link, call
<1>2. CASE SendFails
  BY <1>2 DEF SendFails, Lose, Fails, link
<1>3. CASE ReceiveFails
  BY <1>3 DEF ReceiveFails, Lose, Fails
<1>4. CASE HeaderMismatch
  BY <1>4 DEF HeaderMismatch, Fails, link
<1>5. CASE ReadGarbage
  BY <1>5 DEF ReadGarbage, Fails, link
<1>6. CASE AnswerRejected
  BY <1>6 DEF AnswerRejected, Fails, link
<1>7. CASE AnswerAccepted
  BY <1>7 DEF AnswerAccepted, GoOn, link
<1>8. QED
  BY <1>1, <1>2, <1>3, <1>4, <1>5, <1>6, <1>7 DEF SendRequest

\* The server and the field do not touch the driver; the clock only ends a
\* retry delay; shutdown drops the stream.
LEMMA OtherLink ==
  ASSUME LinkIInv, Shutdown \/ Serve \/ Misbehave \/ FieldChanges \/ RetryDue \/ UNCHANGED vars
  PROVE  LinkIInv' /\ (state = "Failed" => state' = "Failed" \/ result' = "shut")
<1> USE DEF link, call, traffic
<1>1. CASE Shutdown
  BY <1>1 DEF Shutdown, Lose, Idle
<1>2. ASSUME UNCHANGED DriverVars
      PROVE  LinkIInv' /\ (state = "Failed" => state' = "Failed")
  BY <1>2 DEF DriverVars, ServerVars
<1>3. CASE Serve \/ Misbehave
  <2>1. ASSUME NEW s, Respond(s) PROVE UNCHANGED DriverVars
    BY <2>1 DEF Respond
  <2>2. CASE Serve
    BY <1>2, <2>1, <2>2 DEF Serve, Execute, Answer
  <2>3. CASE Misbehave
    <3>1. \E s : Respond(s)
      BY <2>3, Zenon DEF Misbehave, AnswerException, AnswerTwice, AnswerWrongly, Silence
    <3>2. QED
      BY <1>2, <2>1, <3>1
  <2>4. QED
    BY <1>3, <2>2, <2>3
<1>4. CASE FieldChanges
  BY <1>2, <1>4 DEF FieldChanges
<1>5. CASE RetryDue
  BY <1>5 DEF RetryDue
<1>6. CASE UNCHANGED vars
  BY <1>6 DEF vars
<1>7. QED
  BY <1>1, <1>3, <1>4, <1>5, <1>6

\* One step, for the invariant and for the finality of Failed at once.
LEMMA StepLink ==
  ASSUME LinkIInv, [Next]_vars
  PROVE  LinkIInv' /\ (state = "Failed" => state' = "Failed" \/ result' = "shut")
  BY ExchangeLink, RequestLink, OtherLink DEF Next

\* The invariant of the driver's connection.
THEOREM Inductive == Spec => []LinkIInv
<1>1. LinkIInv /\ [Next]_vars => LinkIInv'
  BY StepLink
<1>2. QED
  BY <1>1, InitLink, PTL DEF Spec

\* The driver holds a stream exactly while its state says Connected, so an
\* exchange without a stream always tries to reconnect.
THEOREM KnowsItsLink == Spec => []ConnectedIsOpen
<1>1. LinkIInv => ConnectedIsOpen
  OBVIOUS
<1>2. QED
  BY <1>1, Inductive, PTL

\* Failed is entered only after max_reconnect_attempts refusals in a row: a
\* connection in between, however short, starts the count again.
THEOREM GivesUpLate == Spec => []GivesUpWhenRefused
<1>1. LinkIInv => GivesUpWhenRefused
  BY DEF GivesUpWhenRefused
<1>2. QED
  BY <1>1, Inductive, PTL

\* Nothing but shutdown leaves Failed.
THEOREM GivesUpForGood == Spec => FailedIsFinal
<1>1. LinkIInv /\ [Next]_vars
        => [state = "Failed" => state' = "Failed" \/ result' = "shut"]_vars
  BY StepLink
<1>2. QED
  BY <1>1, Inductive, PTL DEF Spec, FailedIsFinal
=============================================================================
