--------------------------- MODULE SeqlockBuffer ---------------------------
(***************************************************************************)
(* The seqlock-protected double buffer of plc-runtime/src/io_image.rs.     *)
(* IoImage owns two of them, one per direction, with no shared state: the  *)
(* module is one direction.  Every atomic operation of the code, and every *)
(* word of the non-atomic ProcessData copies, is a step of its own.        *)
(***************************************************************************)
EXTENDS Integers, FiniteSets

CONSTANTS
  Words,         \* fields of ProcessData written by a closure / copied by a read
  Values,        \* values of a field
  Zero,          \* ProcessData::default()
  Readers,       \* threads that call read(); there is a single writer
  MaxWrites,     \* bound: number of begin_write() calls in a behaviour
  InOrder        \* the readers whose words are copied before their second
                 \* sequence load.  For the others compiler and processor may
                 \* delay the plain loads past it, which the Acquire ordering of
                 \* that load does not forbid.

ASSUME ZeroAssumption == Zero \in Values
ASSUME MaxWritesAssumption == MaxWrites \in Nat
ASSUME InOrderAssumption == InOrder \subseteq Readers

VARIABLES
  sequence,   \* AtomicU64; even: no write in progress (2^64 is never reached)
  front_idx,  \* AtomicU64 in 0..1
  buf,        \* buf[0], buf[1]: the UnsafeCell<ProcessData> pair
  wpc,        \* the writer: "idle", "filling" the back buffer, "swapped"
  pending,    \* the process data the write closure is storing
  todo,       \* words the closure has not stored yet
  rpc,        \* rpc[r]: program counter of reader r inside read()
  seq1,       \* seq1[r]: local seq1
  front,      \* front[r]: local front
  data,       \* data[r]: local copy of ProcessData
  copied,     \* copied[r]: the words already loaded into data[r]
  got,        \* got[r]: what read() last returned to r
  published   \* history: every process data that was ever committed

writerVars == <<sequence, front_idx, buf, wpc, pending, todo, published>>
readerVars == <<rpc, seq1, front, data, copied, got>>
vars == <<writerVars, readerVars>>

Images == [Words -> Values]
Blank == [w \in Words |-> Zero]
Even(n) == n % 2 = 0

\* Mutant: the front buffer is handed out for writing.
BackIsFront == front_idx
Back == 1 - front_idx

TypeOK ==
  /\ sequence \in Nat
  /\ front_idx \in {0, 1}
  /\ buf \in [{0, 1} -> Images]
  /\ wpc \in {"idle", "filling", "swapped"}
  /\ pending \in Images
  /\ todo \in SUBSET Words
  /\ rpc \in [Readers -> {"idle", "seq1", "front", "copy", "late"}]
  /\ seq1 \in [Readers -> Nat]
  /\ front \in [Readers -> {0, 1}]
  /\ data \in [Readers -> Images]
  /\ copied \in [Readers -> SUBSET Words]
  /\ got \in [Readers -> Images]
  /\ published \in SUBSET Images

Init ==
  /\ sequence = 0
  /\ front_idx = 0
  /\ buf = [i \in {0, 1} |-> Blank]
  /\ wpc = "idle"
  /\ pending = Blank
  /\ todo = {}
  /\ published = {Blank}
  /\ rpc = [r \in Readers |-> "idle"]
  /\ seq1 = [r \in Readers |-> 0]
  /\ front = [r \in Readers |-> 0]
  /\ data = [r \in Readers |-> Blank]
  /\ copied = [r \in Readers |-> {}]
  /\ got = [r \in Readers |-> Blank]

-----------------------------------------------------------------------------
(* The writer: begin_write(), the closure, commit(). *)

\* begin_write: fetch_add makes the sequence odd and the back buffer is handed
\* out.  Every caller's closure stores every word its direction carries.
BeginWrite(v) ==
  /\ wpc = "idle"
  /\ sequence < 2 * MaxWrites
  /\ sequence' = sequence + 1
  /\ wpc' = "filling"
  /\ pending' = v
  /\ todo' = Words
  /\ UNCHANGED <<front_idx, buf, published, readerVars>>

\* The closure stores one word of the back buffer, in any order.
StoreWord(w) ==
  /\ wpc = "filling"
  /\ w \in todo
  /\ buf' = [buf EXCEPT ![Back][w] = pending[w]]
  /\ todo' = todo \ {w}
  /\ UNCHANGED <<sequence, front_idx, wpc, pending, published, readerVars>>

\* Mutant: the front index runs on instead of alternating.
CommitSwapForward ==
  /\ wpc = "filling"
  /\ todo = {}
  /\ front_idx' = front_idx + 1
  /\ wpc' = "swapped"
  /\ UNCHANGED <<sequence, buf, pending, todo, published, readerVars>>

\* commit, first half: the back buffer becomes the front buffer.
CommitSwap ==
  /\ wpc = "filling"
  /\ todo = {}
  /\ front_idx' = Back
  /\ published' = published \cup {buf[Back]}
  /\ wpc' = "swapped"
  /\ UNCHANGED <<sequence, buf, pending, todo, readerVars>>

\* Mutant: the second fetch_add is missing.
CommitNoSequence ==
  /\ wpc = "swapped"
  /\ wpc' = "idle"
  /\ UNCHANGED <<sequence, front_idx, buf, pending, todo, published, readerVars>>

\* commit, second half: fetch_add makes the sequence even again.
CommitSequence ==
  /\ wpc = "swapped"
  /\ sequence' = sequence + 1
  /\ wpc' = "idle"
  /\ UNCHANGED <<front_idx, buf, pending, todo, published, readerVars>>

Writer ==
  \/ \E v \in Images : BeginWrite(v)
  \/ \E w \in Words : StoreWord(w)
  \/ CommitSwap
  \/ CommitSequence

-----------------------------------------------------------------------------
(* A reader: the loop of read(). *)

CallRead(r) ==
  /\ rpc[r] = "idle"
  /\ rpc' = [rpc EXCEPT ![r] = "seq1"]
  /\ UNCHANGED <<writerVars, seq1, front, data, copied, got>>

\* First sequence load; on an odd value the loop spins, which changes nothing.
LoadSequence(r) ==
  /\ rpc[r] = "seq1"
  /\ Even(sequence)
  /\ seq1' = [seq1 EXCEPT ![r] = sequence]
  /\ rpc' = [rpc EXCEPT ![r] = "front"]
  /\ UNCHANGED <<writerVars, front, data, copied, got>>

LoadFront(r) ==
  /\ rpc[r] = "front"
  /\ front' = [front EXCEPT ![r] = front_idx]
  /\ copied' = [copied EXCEPT ![r] = {}]
  /\ rpc' = [rpc EXCEPT ![r] = "copy"]
  /\ UNCHANGED <<writerVars, seq1, data, got>>

\* One word of the plain copy `*self.bufN.get()`.  A load that was delayed past
\* the check (of a reader not in InOrder) returns the copy when it is the last.
CopyWord(r, w) ==
  /\ rpc[r] \in {"copy", "late"}
  /\ w \notin copied[r]
  /\ data' = [data EXCEPT ![r][w] = buf[front[r]][w]]
  /\ copied' = [copied EXCEPT ![r] = @ \cup {w}]
  /\ IF rpc[r] = "late" /\ copied'[r] = Words
     THEN /\ rpc' = [rpc EXCEPT ![r] = "idle"]
          /\ got' = [got EXCEPT ![r] = data'[r]]
     ELSE UNCHANGED <<rpc, got>>
  /\ UNCHANGED <<writerVars, seq1, front>>

\* Mutant: the second load is not compared with anything.
AlwaysUnchanged(r) == TRUE

\* Mutant: no write is in progress, but one may have come and gone.
NoWriteNow(r) == Even(sequence)

\* seq1 == seq2
Unchanged(r) == sequence = seq1[r]

\* Second sequence load: return the copy when it is unchanged, else retry.
CheckSequence(r) ==
  /\ rpc[r] = "copy"
  /\ r \in InOrder => copied[r] = Words
  /\ IF ~Unchanged(r)
     THEN /\ rpc' = [rpc EXCEPT ![r] = "seq1"]
          /\ UNCHANGED got
     ELSE IF copied[r] = Words
     THEN /\ rpc' = [rpc EXCEPT ![r] = "idle"]
          /\ got' = [got EXCEPT ![r] = data[r]]
     ELSE /\ rpc' = [rpc EXCEPT ![r] = "late"]
          /\ UNCHANGED got
  /\ UNCHANGED <<writerVars, seq1, front, data, copied>>

ReadStep(r) ==
  \/ LoadSequence(r)
  \/ LoadFront(r)
  \/ \E w \in Words : CopyWord(r, w)
  \/ CheckSequence(r)

Next ==
  \/ Writer
  \/ \E r \in Readers : CallRead(r) \/ ReadStep(r)

Spec == Init /\ [][Next]_vars

(* A thread that is inside read(), or between begin_write() and commit(),  *)
(* keeps running; nobody has to call read() or begin another write.        *)
FairSpec ==
  /\ Spec
  /\ WF_vars(\E w \in Words : StoreWord(w))
  /\ WF_vars(CommitSwap)
  /\ WF_vars(CommitSequence)
  /\ \A r \in Readers : WF_vars(ReadStep(r))

-----------------------------------------------------------------------------
(* Properties. *)

\* Snapshots whose copy is kept in order are never torn: read() hands out only
\* process data that a commit published (io_image.rs test_concurrent_read_write).
NoTornRead == \A r \in InOrder : got[r] \in published

\* For these readers the seqlock implements the one-instant register: a read
\* returns what is published at the instant its second sequence load succeeds.
Atomic == INSTANCE AtomicImage
  WITH image <- buf[front_idx], Readers <- InOrder, got <- [r \in InOrder |-> got[r]]
AtomicSpec == Atomic!Spec

\* A second write has begun since r's first sequence load: the writer may be
\* storing into the buffer that r copies from.
Overtaken(r) == sequence > seq1[r] + 2

\* However late a reader's loads are done, two buffers protect it from the next
\* write: a snapshot can be torn only when a second write has begun meanwhile.
WholeUnlessOvertaken ==
  [][\A r \in Readers :
       rpc[r] # "idle" /\ rpc'[r] = "idle" /\ ~Overtaken(r) => got'[r] \in published]_vars

\* A thread that has called read() returns from it, although commits in the
\* middle of its copy send it back to the first sequence load.
ReadReturns == \A r \in Readers : rpc[r] = "seq1" ~> rpc[r] = "idle"

-----------------------------------------------------------------------------
(* The inductive invariant behind NoTornRead, AtomicSpec and               *)
(* WholeUnlessOvertaken.                                                   *)

\* The sequence is odd exactly while the writer is inside begin/commit.
SequenceParity == Even(sequence) <=> wpc = "idle"

\* While filling, the stored words of the back buffer are the closure's.
BackFilled ==
  wpc = "filling" => \A w \in Words \ todo : buf[Back][w] = pending[w]

\* A buffer that is not being filled holds what was committed.
Committed == buf[front_idx] \in published /\ (wpc # "filling" => buf[Back] \in published)

\* A reader copies from the front buffer, or from the one that was the front
\* buffer before the commits since its first load.
CopiesFrom(r) ==
  \/ front[r] = front_idx
  \/ sequence = seq1[r] + 1 /\ wpc = "swapped"
  \/ sequence > seq1[r] + 1

\* Until a second write begins, what it has copied is what that buffer holds.
CopyIsFront ==
  \A r \in Readers :
    /\ rpc[r] \in {"front", "copy", "late"} => seq1[r] <= sequence /\ Even(seq1[r])
    /\ rpc[r] \in {"copy", "late"} /\ ~Overtaken(r) =>
         /\ CopiesFrom(r)
         /\ \A w \in copied[r] : data[r][w] = buf[front[r]][w]

\* Loads kept in order never leave the copy unfinished at the check.
NeverLate == \A r \in InOrder : rpc[r] # "late"

IInv ==
  /\ TypeOK
  /\ SequenceParity
  /\ BackFilled
  /\ Committed
  /\ CopyIsFront
  /\ NeverLate
  /\ NoTornRead
=============================================================================
