---------------------------- MODULE FaultRecorder ----------------------------
(***************************************************************************)
(* The ring of frames of plc-runtime/src/fault_recorder.rs and what is     *)
(* read back from it after a fault.                                        *)
(***************************************************************************)
EXTENDS Integers, Sequences, FiniteSets

CONSTANTS
  Capacity,   \* frames.len(), at least 1
  Cycles,     \* cycle numbers, which are all a reader tells frames apart by
  Reasons,    \* FaultReason, without None
  MaxCount    \* usize::MAX

CapacityAssumption == Capacity \in Nat \ {0}
ReasonsAssumption == "None" \notin Reasons
MaxCountAssumption == MaxCount \in Nat /\ MaxCount > Capacity
RecorderAssumption ==
  CapacityAssumption /\ ReasonsAssumption /\ MaxCountAssumption /\ Cycles # {}

VARIABLES
  frames,      \* the ring
  writePos,    \* write_pos
  frameCount,  \* frame_count
  frozen,
  faultIndex   \* fault_frame_index

vars == <<frames, writePos, frameCount, frozen, faultIndex>>

Slots == 0..Capacity - 1
NoIndex == -1
Frames == [cycle : Cycles, reason : Reasons \cup {"None"}, io : BOOLEAN]
Blank == [cycle |-> CHOOSE c \in Cycles : TRUE, reason |-> "None", io |-> FALSE]

TypeOK ==
  /\ frames \in [Slots -> Frames]
  /\ writePos \in Slots
  /\ frameCount \in 0..MaxCount
  /\ frozen \in BOOLEAN
  /\ faultIndex \in Slots \cup {NoIndex}

Init ==
  /\ frames = [s \in Slots |-> Blank]
  /\ writePos = 0 /\ frameCount = 0 /\ frozen = FALSE /\ faultIndex = NoIndex

-----------------------------------------------------------------------------
(* Recording. A frozen recorder refuses, which is no step. *)

\* Mutant: the position wraps one frame late.
AdvanceLate(p) == IF p + 1 > Capacity - 1 THEN 1 % Capacity ELSE p + 1

Advance(p) == (p + 1) % Capacity

\* The frame f goes into the ring.
Write(f) ==
  /\ ~frozen
  /\ frames' = [frames EXCEPT ![writePos] = f]
  /\ writePos' = Advance(writePos)
  /\ frameCount' = IF frameCount < MaxCount THEN frameCount + 1 ELSE frameCount

\* record_cycle(); the scheduler sets the snapshots of the frame it gets.
RecordCycle(c, io) ==
  /\ Write([cycle |-> c, reason |-> "None", io |-> io])
  /\ UNCHANGED <<frozen, faultIndex>>

\* Mutant: the index is taken when the position has moved on.
RecordFaultAfter(c, why, io) ==
  /\ Write([cycle |-> c, reason |-> why, io |-> io])
  /\ frozen' = TRUE /\ faultIndex' = writePos'

\* record_fault(), and record_fault_with_io() when there are snapshots.
RecordFault(c, why, io) ==
  /\ Write([cycle |-> c, reason |-> why, io |-> io])
  /\ frozen' = TRUE /\ faultIndex' = writePos

Freeze == frozen' = TRUE /\ UNCHANGED <<frames, writePos, frameCount, faultIndex>>

\* Mutant: the number of frames is kept.
ResetKeepingCount ==
  /\ frames' = [s \in Slots |-> Blank]
  /\ writePos' = 0 /\ frozen' = FALSE /\ faultIndex' = NoIndex /\ UNCHANGED frameCount

Reset ==
  /\ frames' = [s \in Slots |-> Blank]
  /\ writePos' = 0 /\ frameCount' = 0 /\ frozen' = FALSE /\ faultIndex' = NoIndex

Next ==
  \/ \E c \in Cycles, io \in BOOLEAN :
       RecordCycle(c, io) \/ \E why \in Reasons : RecordFault(c, why, io)
  \/ Freeze \/ Reset

Spec == Init /\ [][Next]_vars

-----------------------------------------------------------------------------
(* Reading. *)

\* frame_count().
Count == IF frameCount < Capacity THEN frameCount ELSE Capacity

\* frames_chronological().
Chronological ==
  LET start == IF frameCount > Capacity THEN writePos ELSE 0
  IN [i \in 1..Count |-> frames[(start + i - 1) % Capacity]]

\* Mutant: a full ring whose position is at 0 is read from the wrong end.
RecentFromZero(n) ==
  LET k == IF n < Count THEN n ELSE Count
  IN [i \in 1..k |-> frames[IF writePos = 0 THEN i - 1 ELSE (writePos + Capacity - i) % Capacity]]

\* recent_frames(n); every frame it reaches is valid.
Recent(n) ==
  LET k == IF n < Count THEN n ELSE Count
  IN [i \in 1..k |-> frames[IF writePos = 0 THEN Capacity - i
                            ELSE (writePos + Capacity - i) % Capacity]]

-----------------------------------------------------------------------------
(* Properties. *)

\* The ring shows the newest frames, oldest first, at every position of its wrap.
Window == INSTANCE SlidingWindow WITH Items <- Frames, Size <- Capacity, window <- Chronological
WindowSpec == Window!Spec

\* The same frames from the other end, for every number that is asked for.
RecentIsReversed ==
  \A n \in 0..Capacity + 1 :
    LET all == Chronological
        k == Len(Recent(n))
    IN /\ k = IF n < Len(all) THEN n ELSE Len(all)
       /\ \A i \in 1..k : Recent(n)[i] = all[Len(all) - i + 1]

\* A recorded fault is the last frame a reader gets, the only one with a reason, and
\* the frames before it are those of the cycles that led to it.
FaultIsNewest ==
  LET all == Chronological
      faulty == {i \in 1..Len(all) : all[i].reason # "None"}
  IN IF faultIndex = NoIndex THEN faulty = {}
     ELSE /\ frozen /\ all # <<>> /\ faulty = {Len(all)}
          /\ all[Len(all)] = frames[faultIndex]

-----------------------------------------------------------------------------
(* The inductive invariant. *)

\* The slot written last.
Newest == IF writePos = 0 THEN Capacity - 1 ELSE writePos - 1

\* The position follows the count until the ring is full.
PositionFollowsCount == frameCount <= Capacity => writePos = frameCount % Capacity

\* The one frame with a reason is the newest, and no frame follows it.
FaultIsLast ==
  LET faulty == {s \in Slots : frames[s].reason # "None"}
  IN IF faultIndex = NoIndex THEN faulty = {}
     ELSE frozen /\ frameCount > 0 /\ faultIndex = Newest /\ faulty = {faultIndex}

IInv == TypeOK /\ PositionFollowsCount /\ FaultIsLast
=============================================================================
