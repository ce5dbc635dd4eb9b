----------------------- MODULE SeqlockBuffer_proofs -----------------------
(***************************************************************************)
(* For every number of words, values, readers and writes, and whichever    *)
(* readers' loads are delayed: IInv is inductive.  So no read whose loads  *)
(* are in order is torn, the double buffer implements the one-instant      *)
(* register for these readers, and a delayed read is torn only when a      *)
(* second write has begun since it started.                                *)
(***************************************************************************)
EXTENDS SeqlockBuffer, TLAPS

USE DEF Images, Back, Even

\* fetch_add(1) flips the parity of the sequence.
LEMMA ParityFlips == \A n \in Nat : Even(n + 1) <=> ~Even(n)
  BY SMT

\* The initial buffers are both default and nobody is inside the protocol.
LEMMA InitIInv == Init => IInv
<1> SUFFICES ASSUME Init PROVE IInv
  OBVIOUS
<1>1. Blank \in Images
  BY ZeroAssumption DEF Blank
<1>2. TypeOK
  BY <1>1 DEF Init, TypeOK
<1>3. CopyIsFront /\ NeverLate /\ NoTornRead
  BY InOrderAssumption DEF Init, CopyIsFront, NeverLate, NoTornRead
<1>4. QED
  BY <1>1, <1>2, <1>3 DEF Init, IInv, SequenceParity, BackFilled, Committed

\* Between two even numbers at distance less than 2 there is no room.
LEMMA NoRoom ==
  ASSUME NEW n \in Nat, NEW m \in Nat, Even(n), Even(m), n <= m, m <= n + 1
  PROVE  m = n
  BY SMT

\* While a write is open that did not overtake r, r copies from the front buffer,
\* or from the back buffer after CommitSwap.
LEMMA WriteBelow ==
  ASSUME IInv, NEW r \in Readers, rpc[r] \in {"copy", "late"}, ~Overtaken(r), wpc # "idle"
  PROVE  sequence = seq1[r] + 1 /\ (wpc = "filling" => front[r] = front_idx)
<1>1. sequence \in Nat /\ seq1[r] \in Nat /\ seq1[r] <= sequence /\ sequence <= seq1[r] + 2
  BY DEF IInv, TypeOK, CopyIsFront, Overtaken
<1>2. Even(seq1[r]) /\ ~Even(sequence)
  BY DEF IInv, SequenceParity, CopyIsFront
<1>3. sequence = seq1[r] + 1
  BY <1>1, <1>2
<1>4. QED
  BY <1>1, <1>3 DEF IInv, CopyIsFront, CopiesFrom

\* Each step of the writer keeps IInv: it stores into the back buffer only, and
\* a reader copies from that one only after a second write has begun.
LEMMA WriterIInv == ASSUME IInv, Writer PROVE IInv'
<1> USE DEF IInv
<1>1. ASSUME NEW v \in Images, BeginWrite(v) PROVE IInv'
  <2>1. TypeOK'
    BY <1>1, MaxWritesAssumption DEF TypeOK, BeginWrite, readerVars
  <2>2. SequenceParity' /\ BackFilled'
    BY <1>1, ParityFlips DEF TypeOK, SequenceParity, BackFilled, BeginWrite, readerVars
  <2>3. CopyIsFront'
    <3>1. UNCHANGED <<front_idx, buf, readerVars>> /\ sequence' = sequence + 1
      BY <1>1 DEF BeginWrite
    <3>2. ASSUME NEW r \in Readers, rpc[r] \in {"copy", "late"}, ~Overtaken(r)'
          PROVE  front[r] = front_idx /\ ~Overtaken(r)
      <4>1. sequence \in Nat /\ seq1[r] \in Nat /\ sequence <= seq1[r] + 1
        BY <3>1, <3>2 DEF TypeOK, Overtaken, readerVars
      <4>2. seq1[r] <= sequence /\ Even(seq1[r]) /\ Even(sequence)
        BY <1>1, <3>2 DEF CopyIsFront, SequenceParity, BeginWrite
      <4>3. sequence = seq1[r]
        BY <4>1, <4>2, NoRoom
      <4>4. QED
        BY <3>2, <4>1, <4>3 DEF CopyIsFront, CopiesFrom, Overtaken
    <3>3. QED
      BY <3>1, <3>2 DEF TypeOK, CopyIsFront, CopiesFrom, readerVars
  <2>4. Committed' /\ NoTornRead' /\ NeverLate'
    BY <1>1 DEF Committed, NoTornRead, NeverLate, BeginWrite, readerVars
  <2>5. QED BY <2>1, <2>2, <2>3, <2>4
<1>2. ASSUME NEW w \in Words, StoreWord(w) PROVE IInv'
  <2>1. TypeOK'
    BY <1>2 DEF TypeOK, StoreWord, readerVars
  <2>2. SequenceParity' /\ BackFilled'
    BY <1>2, ParityFlips DEF TypeOK, SequenceParity, BackFilled, StoreWord, readerVars
  <2>3. buf'[front_idx] = buf[front_idx]
    BY <1>2 DEF TypeOK, StoreWord
  <2>4. CopyIsFront'
    <3>1. UNCHANGED <<sequence, front_idx, readerVars>> /\ wpc # "idle"
      BY <1>2 DEF StoreWord
    <3>2. ASSUME NEW r \in Readers, rpc[r] \in {"copy", "late"}, ~Overtaken(r)
          PROVE  front[r] = front_idx
      BY <1>2, <3>2, WriteBelow DEF StoreWord
    <3>3. QED
      BY <2>3, <3>1, <3>2 DEF CopyIsFront, CopiesFrom, Overtaken, readerVars
  <2>5. Committed' /\ NoTornRead' /\ NeverLate'
    BY <1>2, <2>3 DEF Committed, NoTornRead, NeverLate, StoreWord, readerVars
  <2>6. QED BY <2>1, <2>2, <2>4, <2>5
<1>3. ASSUME CommitSwap PROVE IInv'
  <2>1. TypeOK'
    BY <1>3 DEF TypeOK, CommitSwap, readerVars
  <2>2. SequenceParity' /\ BackFilled'
    BY <1>3 DEF SequenceParity, BackFilled, CommitSwap, readerVars
  <2>3. CopyIsFront'
    <3>1. UNCHANGED <<sequence, buf, readerVars>> /\ wpc # "idle" /\ wpc' = "swapped"
      BY <1>3 DEF CommitSwap
    <3>2. ASSUME NEW r \in Readers, rpc[r] \in {"copy", "late"}, ~Overtaken(r)
          PROVE  sequence = seq1[r] + 1
      BY <3>1, <3>2, WriteBelow
    <3>3. QED
      BY <3>1, <3>2 DEF CopyIsFront, CopiesFrom, Overtaken, readerVars
  <2>4. Committed'
    BY <1>3 DEF TypeOK, Committed, CommitSwap
  <2>5. NoTornRead' /\ NeverLate'
    BY <1>3 DEF NoTornRead, NeverLate, CommitSwap, readerVars
  <2>6. QED BY <2>1, <2>2, <2>3, <2>4, <2>5
<1>4. ASSUME CommitSequence PROVE IInv'
  <2>1. TypeOK'
    BY <1>4 DEF TypeOK, CommitSequence, readerVars
  <2>2. SequenceParity' /\ BackFilled'
    BY <1>4, ParityFlips DEF TypeOK, SequenceParity, BackFilled, CommitSequence, readerVars
  <2>3. CopyIsFront'
    <3>1. UNCHANGED <<front_idx, buf, readerVars>> /\ sequence' = sequence + 1 /\ wpc # "idle"
      BY <1>4 DEF CommitSequence
    <3>2. ASSUME NEW r \in Readers, rpc[r] \in {"copy", "late"}, ~Overtaken(r)'
          PROVE  sequence' > seq1[r] + 1 /\ ~Overtaken(r)
      <4>1. sequence \in Nat /\ seq1[r] \in Nat /\ sequence + 1 <= seq1[r] + 2
        BY <3>1, <3>2 DEF TypeOK, Overtaken, readerVars
      <4>2. ~Overtaken(r)
        BY <4>1 DEF Overtaken
      <4>3. QED
        BY <3>1, <3>2, <4>1, <4>2, WriteBelow
    <3>3. QED
      BY <3>1, <3>2 DEF TypeOK, CopyIsFront, CopiesFrom, readerVars
  <2>4. Committed' /\ NoTornRead' /\ NeverLate'
    BY <1>4 DEF Committed, NoTornRead, NeverLate, CommitSequence, readerVars
  <2>5. QED BY <2>1, <2>2, <2>3, <2>4
<1>5. QED BY <1>1, <1>2, <1>3, <1>4 DEF Writer

\* Only CheckSequence, and CopyWord for a delayed load, hand data out: the copy
\* is then a whole committed buffer unless a second write has begun.
LEMMA ReturnedIsCommitted ==
  ASSUME IInv, NEW r \in Readers, ReadStep(r),
         rpc[r] # "idle", rpc'[r] = "idle", ~Overtaken(r)
  PROVE  got'[r] \in published
<1> USE DEF IInv
<1>1. ASSUME rpc[r] \in {"copy", "late"} PROVE buf[front[r]] \in published
  <2>1. CopiesFrom(r) /\ seq1[r] <= sequence /\ Even(seq1[r])
    BY <1>1 DEF CopyIsFront
  <2>2. CASE front[r] = front_idx
    BY <2>2 DEF Committed
  <2>3. CASE sequence = seq1[r] + 1 /\ wpc = "swapped"
    BY <2>2, <2>3 DEF TypeOK, Committed
  <2>4. CASE sequence > seq1[r] + 1
    <3>1. sequence = seq1[r] + 2
      BY <2>4 DEF TypeOK, Overtaken
    <3>2. wpc = "idle"
      BY <2>1, <3>1 DEF TypeOK, SequenceParity
    <3>3. QED
      BY <2>2, <3>2 DEF TypeOK, Committed
  <2>5. QED
    BY <2>1, <2>2, <2>3, <2>4 DEF CopiesFrom
<1>2. CASE LoadSequence(r) \/ LoadFront(r)
  BY <1>2 DEF TypeOK, LoadSequence, LoadFront
<1>3. ASSUME NEW w \in Words, CopyWord(r, w) PROVE got'[r] \in published
  <2>1. rpc[r] = "late" /\ got'[r] = data'[r] /\ copied'[r] = Words
    BY <1>3 DEF TypeOK, CopyWord
  <2>2. \A v \in Words : data'[r][v] = buf[front[r]][v]
    BY <1>3, <2>1 DEF TypeOK, CopyIsFront, CopyWord
  <2>3. data'[r] \in Images
    BY <1>3 DEF TypeOK, CopyWord
  <2>4. data'[r] = buf[front[r]]
    BY <2>2, <2>3 DEF TypeOK
  <2>5. QED
    BY <1>1, <2>1, <2>4
<1>4. CASE CheckSequence(r)
  <2>1. rpc[r] = "copy" /\ copied[r] = Words /\ got'[r] = data[r]
    BY <1>4 DEF TypeOK, CheckSequence
  <2>2. data[r] = buf[front[r]]
    BY <2>1 DEF TypeOK, CopyIsFront
  <2>3. QED
    BY <1>1, <2>1, <2>2
<1>5. QED
  BY <1>2, <1>3, <1>4 DEF ReadStep

\* What a successful check of a reader whose loads are in order hands out.
LEMMA CheckedIsFront ==
  ASSUME IInv, NEW r \in InOrder, CheckSequence(r), sequence = seq1[r]
  PROVE  data[r] = buf[front_idx] /\ got' = [got EXCEPT ![r] = buf[front_idx]]
<1>1. r \in Readers
  BY InOrderAssumption
<1>2. rpc[r] = "copy" /\ copied[r] = Words /\ got' = [got EXCEPT ![r] = data[r]]
  BY DEF CheckSequence, Unchanged
<1>3. front[r] = front_idx /\ \A w \in Words : data[r][w] = buf[front[r]][w]
  BY <1>1, <1>2 DEF IInv, TypeOK, CopyIsFront, CopiesFrom, Overtaken
<1>4. data[r] = buf[front_idx]
  BY <1>1, <1>3 DEF IInv, TypeOK
<1>5. QED
  BY <1>2, <1>4

\* A delayed load of a reader whose loads are in order does not exist.
LEMMA InOrderReturns ==
  ASSUME IInv, NEW r \in Readers, ReadStep(r), NEW q \in InOrder, got'[q] # got[q]
  PROVE  q = r /\ CheckSequence(r) /\ sequence = seq1[r]
<1>1. q \in Readers
  BY InOrderAssumption
<1>2. CheckSequence(r) \/ \E w \in Words : CopyWord(r, w)
  BY DEF ReadStep, LoadSequence, LoadFront
<1>3. got' # got /\ q = r
  BY <1>1, <1>2 DEF IInv, TypeOK, CheckSequence, CopyWord
<1>4. rpc[r] # "late"
  BY <1>3 DEF IInv, NeverLate
<1>5. QED
  BY <1>2, <1>3, <1>4 DEF CheckSequence, CopyWord, Unchanged

\* Each step of a reader keeps IInv.
LEMMA ReaderIInv ==
  ASSUME IInv, NEW r \in Readers, CallRead(r) \/ ReadStep(r)
  PROVE  IInv'
<1> USE DEF IInv
<1>1. UNCHANGED writerVars
  BY DEF ReadStep, CallRead, LoadSequence, LoadFront, CopyWord, CheckSequence
<1>2. SequenceParity' /\ BackFilled' /\ Committed'
  BY <1>1 DEF writerVars, SequenceParity, BackFilled, Committed
<1>3. TypeOK'
  <2>1. CASE CallRead(r)
    BY <1>1, <2>1 DEF TypeOK, CallRead, writerVars
  <2>2. CASE LoadSequence(r)
    BY <1>1, <2>2 DEF TypeOK, LoadSequence, writerVars
  <2>3. CASE LoadFront(r)
    BY <1>1, <2>3 DEF TypeOK, LoadFront, writerVars
  <2>4. ASSUME NEW w \in Words, CopyWord(r, w) PROVE TypeOK'
    <3>1. data' \in [Readers -> Images] /\ copied' \in [Readers -> SUBSET Words]
      <4>1. [data[r] EXCEPT ![w] = buf[front[r]][w]] \in Images
        BY DEF TypeOK
      <4>2. data' = [data EXCEPT ![r] = [data[r] EXCEPT ![w] = buf[front[r]][w]]]
        BY <2>4 DEF CopyWord
      <4>3. copied' = [copied EXCEPT ![r] = copied[r] \cup {w}]
        BY <2>4 DEF CopyWord
      <4>4. QED
        BY <4>1, <4>2, <4>3 DEF TypeOK
    <3>2. rpc' \in [Readers -> {"idle", "seq1", "front", "copy", "late"}]
      <4>1. rpc' = rpc \/ rpc' = [rpc EXCEPT ![r] = "idle"]
        BY <2>4 DEF CopyWord
      <4>2. QED
        BY <4>1 DEF TypeOK
    <3>3. got' \in [Readers -> Images]
      <4>1. got' = got \/ got' = [got EXCEPT ![r] = data'[r]]
        BY <2>4 DEF CopyWord
      <4>2. QED
        BY <3>1, <4>1 DEF TypeOK
    <3>4. QED
      BY <1>1, <2>4, <3>1, <3>2, <3>3 DEF TypeOK, CopyWord, writerVars
  <2>5. CASE CheckSequence(r)
    <3>1. \/ UNCHANGED <<rpc, got>>
          \/ \E pc \in {"idle", "seq1", "late"} : rpc' = [rpc EXCEPT ![r] = pc]
      BY <2>5 DEF CheckSequence
    <3>2. rpc' \in [Readers -> {"idle", "seq1", "front", "copy", "late"}]
      BY <3>1 DEF TypeOK
    <3>3. got' = got \/ got' = [got EXCEPT ![r] = data[r]]
      BY <2>5 DEF CheckSequence
    <3>4. QED
      BY <1>1, <2>5, <3>2, <3>3 DEF TypeOK, CheckSequence, writerVars
  <2>6. QED
    BY <2>1, <2>2, <2>3, <2>4, <2>5 DEF ReadStep
<1>4. CopyIsFront'
  <2>1. CASE CallRead(r)
    BY <1>1, <2>1 DEF TypeOK, CopyIsFront, CopiesFrom, Overtaken, CallRead, writerVars
  <2>2. CASE LoadSequence(r)
    BY <1>1, <2>2 DEF TypeOK, CopyIsFront, CopiesFrom, Overtaken, LoadSequence, writerVars
  <2>3. CASE LoadFront(r)
    BY <1>1, <2>3 DEF TypeOK, CopyIsFront, CopiesFrom, Overtaken, LoadFront, writerVars
  <2>4. ASSUME NEW w \in Words, CopyWord(r, w) PROVE CopyIsFront'
    BY <1>1, <2>4 DEF TypeOK, CopyIsFront, CopiesFrom, Overtaken, CopyWord, writerVars
  <2>5. CASE CheckSequence(r)
    BY <1>1, <2>5 DEF TypeOK, CopyIsFront, CopiesFrom, Overtaken, CheckSequence, writerVars
  <2>6. QED
    BY <2>1, <2>2, <2>3, <2>4, <2>5 DEF ReadStep
<1>5. NeverLate'
  <2> SUFFICES ASSUME NEW q \in InOrder PROVE rpc'[q] # "late"
    BY DEF NeverLate
  <2>1. q \in Readers /\ rpc[q] # "late"
    BY InOrderAssumption DEF NeverLate
  <2>2. CASE CallRead(r) \/ LoadSequence(r) \/ LoadFront(r)
    BY <2>1, <2>2 DEF TypeOK, CallRead, LoadSequence, LoadFront
  <2>3. CASE \E w \in Words : CopyWord(r, w)
    BY <2>1, <2>3 DEF TypeOK, CopyWord
  <2>4. CASE CheckSequence(r)
    BY <2>1, <2>4 DEF TypeOK, CheckSequence
  <2>5. QED
    BY <2>2, <2>3, <2>4 DEF ReadStep
<1>6. NoTornRead'
  <2> SUFFICES ASSUME NEW q \in InOrder PROVE got'[q] \in published
    BY <1>1 DEF NoTornRead, writerVars
  <2>1. CASE got'[q] = got[q]
    BY <2>1 DEF NoTornRead
  <2>2. CASE got'[q] # got[q]
    <3>1. ReadStep(r)
      BY <2>2 DEF CallRead
    <3>2. q = r /\ CheckSequence(r) /\ sequence = seq1[r]
      BY <2>2, <3>1, InOrderReturns
    <3>3. got' = [got EXCEPT ![r] = buf[front_idx]]
      BY <3>2, CheckedIsFront
    <3>4. QED
      BY <3>2, <3>3 DEF TypeOK, Committed
  <2>3. QED
    BY <2>1, <2>2
<1>7. QED
  BY <1>2, <1>3, <1>4, <1>5, <1>6

\* Every reachable state satisfies the inductive invariant.
THEOREM Inductive == Spec => []IInv
<1>1. IInv /\ [Next]_vars => IInv'
  <2> SUFFICES ASSUME IInv, [Next]_vars PROVE IInv'
    OBVIOUS
  <2>1. CASE Writer
    BY <2>1, WriterIInv
  <2>2. ASSUME NEW r \in Readers, CallRead(r) \/ ReadStep(r) PROVE IInv'
    BY <2>2, ReaderIInv
  <2>3. CASE UNCHANGED vars
    BY <2>3
    DEF vars, writerVars, readerVars, IInv, TypeOK, SequenceParity, BackFilled,
        Committed, CopyIsFront, CopiesFrom, Overtaken, NeverLate, NoTornRead
  <2>4. QED
    BY <2>1, <2>2, <2>3 DEF Next
<1>2. QED
  BY <1>1, InitIInv, PTL DEF Spec

\* The atomics, the two buffers and the readers' locals keep their types.
THEOREM TypeCorrect == Spec => []TypeOK
<1>1. IInv => TypeOK
  BY DEF IInv
<1>2. QED
  BY <1>1, Inductive, PTL

\* A snapshot of read_inputs() or read_outputs() whose loads are kept in order is
\* never torn, for any number of concurrent readers, words and values.
THEOREM ReadsAreWhole == Spec => []NoTornRead
<1>1. IInv => NoTornRead
  BY DEF IInv
<1>2. QED
  BY <1>1, Inductive, PTL

\* Whatever order the loads of a snapshot are done in, only a second begin_write()
\* after its first sequence load can tear it: the second buffer covers one write.
THEOREM TornOnlyWhenOvertaken == Spec => WholeUnlessOvertaken
<1> DEFINE Whole == \A r \in Readers :
              rpc[r] # "idle" /\ rpc'[r] = "idle" /\ ~Overtaken(r) => got'[r] \in published
<1>1. IInv /\ [Next]_vars => [Whole]_vars
  <2> SUFFICES ASSUME IInv, Next, NEW q \in Readers,
                      rpc[q] # "idle", rpc'[q] = "idle", ~Overtaken(q)
               PROVE  got'[q] \in published
    OBVIOUS
  <2>1. CASE Writer
    BY <2>1 DEF Writer, BeginWrite, StoreWord, CommitSwap, CommitSequence, readerVars
  <2>2. ASSUME NEW r \in Readers, CallRead(r) PROVE FALSE
    BY <2>2 DEF IInv, TypeOK, CallRead
  <2>3. ASSUME NEW r \in Readers, ReadStep(r) PROVE got'[q] \in published
    <3>1. q = r
      BY <2>3
      DEF IInv, TypeOK, ReadStep, LoadSequence, LoadFront, CopyWord, CheckSequence
    <3>2. QED
      BY <2>3, <3>1, ReturnedIsCommitted
  <2>4. QED
    BY <2>1, <2>2, <2>3 DEF Next
<1>2. QED
  BY <1>1, Inductive, PTL DEF Spec, WholeUnlessOvertaken

\* The step refinement: CommitSwap is Publish, a successful CheckSequence is
\* Read, every other step leaves the published image and the results alone.
LEMMA StepRefines ==
  ASSUME IInv, [Next]_vars
  PROVE  [Atomic!Next]_<<buf[front_idx], [r \in InOrder |-> got[r]]>>
<1> DEFINE Results == [r \in InOrder |-> got[r]]
<1> USE DEF Atomic!Next, Atomic!Publish, Atomic!Read, Atomic!Images
<1>1. ASSUME NEW v \in Images, BeginWrite(v) PROVE UNCHANGED <<buf[front_idx], Results>>
  BY <1>1 DEF BeginWrite, readerVars
<1>2. ASSUME NEW w \in Words, StoreWord(w) PROVE UNCHANGED <<buf[front_idx], Results>>
  BY <1>2 DEF IInv, TypeOK, StoreWord, readerVars
<1>3. ASSUME CommitSwap PROVE Atomic!Next
  <2>1. Atomic!Publish(buf[Back])
    BY <1>3 DEF CommitSwap, readerVars
  <2>2. QED
    BY <1>3, <2>1 DEF IInv, TypeOK
<1>4. ASSUME CommitSequence PROVE UNCHANGED <<buf[front_idx], Results>>
  BY <1>4 DEF CommitSequence, readerVars
<1>5. ASSUME NEW r \in Readers, CallRead(r) PROVE UNCHANGED <<buf[front_idx], Results>>
  BY <1>5 DEF CallRead, writerVars
<1>6. ASSUME NEW r \in Readers, ReadStep(r)
      PROVE  Atomic!Next \/ UNCHANGED <<buf[front_idx], Results>>
  <2>1. UNCHANGED buf[front_idx]
    BY <1>6 DEF ReadStep, LoadSequence, LoadFront, CopyWord, CheckSequence, writerVars
  <2>2. CASE \A q \in InOrder : got'[q] = got[q]
    BY <2>1, <2>2
  <2>3. ASSUME NEW q \in InOrder, got'[q] # got[q] PROVE Atomic!Next
    <3>1. q = r /\ CheckSequence(r) /\ sequence = seq1[r]
      BY <1>6, <2>3, InOrderReturns
    <3>2. got' = [got EXCEPT ![r] = buf[front_idx]]
      BY <3>1, CheckedIsFront
    <3>3. Results' = [Results EXCEPT ![r] = buf[front_idx]]
      BY <3>1, <3>2, InOrderAssumption DEF IInv, TypeOK
    <3>4. Atomic!Read(r)
      BY <2>1, <3>3
    <3>5. QED
      BY <3>1, <3>4
  <2>4. QED
    BY <2>2, <2>3
<1>7. CASE UNCHANGED vars
  BY <1>7 DEF vars, writerVars, readerVars
<1>8. QED
  BY <1>1, <1>2, <1>3, <1>4, <1>5, <1>6, <1>7 DEF Next, Writer

\* For the readers whose loads are in order the seqlock double buffer implements
\* the register of AtomicImage.
THEOREM Refinement == Spec => AtomicSpec
<1>1. Init => Atomic!Init
  <2> SUFFICES ASSUME Init PROVE Atomic!Init
    OBVIOUS
  <2>1. buf[front_idx] \in Images /\ \A r \in Readers : got[r] = buf[front_idx]
    BY InitIInv DEF Init, IInv, TypeOK
  <2>2. QED
    BY <2>1, InOrderAssumption DEF Atomic!Init, Atomic!Images
<1>2. IInv /\ [Next]_vars => [Atomic!Next]_<<buf[front_idx], [r \in InOrder |-> got[r]]>>
  BY StepRefines
<1>3. QED
  BY <1>1, <1>2, Inductive, PTL DEF Spec, AtomicSpec, Atomic!Spec
=============================================================================
