------------------------------ MODULE WebState ------------------------------
(***************************************************************************)
(* The web UI of plc-web-ui: the daemon's updates (state.rs), the bounded  *)
(* broadcast channel, one WebSocket connection (websocket.rs) and the page *)
(* it feeds (dashboard.rs), with the Prometheus counters (metrics.rs).     *)
(***************************************************************************)
EXTENDS Integers, Sequences

CONSTANTS
  Fields,      \* the values that replace each other: state, I/O, metrics
  Values,      \* of a field; the cycle count is one
  Cap,         \* ws_channel_capacity
  KeptFaults,  \* faults the shared state keeps (100)
  FullFaults,  \* faults of a full message the page takes (5)
  PageFaults,  \* faults the page lists (10)
  MaxSends     \* bound: updates in a behaviour

FieldsAssumption == Fields \subseteq {"state", "io", "metrics"}
ValuesAssumption == Values \subseteq Nat /\ 0 \in Values
SizesAssumption ==
  /\ {Cap, KeptFaults, FullFaults, PageFaults, MaxSends} \subseteq Nat \ {0}
  /\ 2 * FullFaults <= PageFaults

VARIABLES
  shared,   \* SharedState: the field values and the faults
  pending,  \* the update that is stored and not yet sent
  ring,     \* the messages the channel still has
  sent,     \* how many were sent
  prom,     \* PlcMetrics: cycles_total, last_cycles_total, faults_total
  conn,     \* the connection: its stage and its receiver
  page

vars == <<shared, pending, ring, sent, prom, conn, page>>

Newest(s, n) == SubSeq(s, IF Len(s) > n THEN Len(s) - n + 1 ELSE 1, Len(s))
First(s, n) == SubSeq(s, 1, IF Len(s) < n THEN Len(s) ELSE n)
Reversed(s) == [i \in 1..Len(s) |-> s[Len(s) + 1 - i]]
Elements(s) == {s[i] : i \in 1..Len(s)}

Faults == 1..MaxSends                     \* numbered in their order
Empty == [f \in Fields |-> 0]
Blank == [f \in Fields |-> -1]            \* "--"
Snapshot == [fields : [Fields -> Values \cup {-1}], faults : Seq(Faults)]
Update == [kind : Fields, value : Values] \cup [kind : {"fault"}, value : Faults]
NoUpdate == [kind |-> "none"]

TypeOK ==
  /\ shared \in Snapshot /\ page \in Snapshot
  /\ Len(shared.faults) <= KeptFaults /\ Len(page.faults) <= PageFaults
  /\ pending \in Update \cup {NoUpdate}
  /\ ring \in Seq(Update) /\ Len(ring) <= Cap
  /\ sent \in 0..MaxSends
  /\ prom \in [cycles : Values, last : Values, faults : Nat]
  /\ conn \in [stage : {"off", "reading", "open"}, next : 0..MaxSends, lagged : BOOLEAN,
               snapshot : Snapshot, unread : SUBSET (Fields \cup {"faults"})]

Off == [stage |-> "off", next |-> 0, lagged |-> FALSE,
        snapshot |-> [fields |-> Blank, faults |-> <<>>], unread |-> {}]

Init ==
  /\ shared = [fields |-> Empty, faults |-> <<>>]
  /\ pending = NoUpdate /\ ring = <<>> /\ sent = 0
  /\ prom = [cycles |-> 0, last |-> 0, faults |-> 0]
  /\ conn = Off /\ page = [fields |-> Blank, faults |-> <<>>]

-----------------------------------------------------------------------------
(* The daemon's thread, StateUpdater. *)

\* Mutant: a full list begins anew.
KeepNew(s, f) == IF Len(s) = KeptFaults THEN <<f>> ELSE Append(s, f)

\* record_fault()'s list.
Keep(s, f) == Newest(Append(s, f), KeptFaults)

\* Under the write lock.
Store(u) ==
  IF u.kind = "fault" THEN [shared EXCEPT !.faults = Keep(@, u.value)]
  ELSE [shared EXCEPT !.fields[u.kind] = u.value]

\* The first half of an update: the value is in the shared state.
Begin(u) ==
  /\ pending = NoUpdate /\ sent < MaxSends
  /\ shared' = Store(u) /\ pending' = u
  /\ UNCHANGED <<ring, sent, prom, conn, page>>

\* Mutant: a count that went back is added to the counter.
CountedNoReset(n) ==
  [prom EXCEPT !.cycles = IF n < prom.last THEN @ ELSE @ + (n - prom.last), !.last = n]

\* update_from_snapshot(): the counter follows the count, and starts again with it.
Counted(n) ==
  [prom EXCEPT !.cycles = IF n < prom.last THEN n ELSE @ + (n - prom.last), !.last = n]

\* The other half: the message to the channel, whose oldest makes room, and the counters.
Send ==
  /\ pending # NoUpdate
  /\ ring' = Newest(Append(ring, pending), Cap) /\ sent' = sent + 1
  /\ prom' = CASE pending.kind = "fault" -> [prom EXCEPT !.faults = @ + 1]
               [] pending.kind = "metrics" -> Counted(pending.value)
               [] OTHER -> prom
  /\ pending' = NoUpdate
  /\ UNCHANGED <<shared, conn, page>>

-----------------------------------------------------------------------------
(* handle_socket() and the page. *)

\* The receiver begins behind the newest message, before the snapshot is read.
Connect ==
  /\ conn.stage = "off"
  /\ conn' = [Off EXCEPT !.stage = "reading", !.next = sent, !.unread = Fields \cup {"faults"}]
  /\ UNCHANGED <<shared, pending, ring, sent, prom, page>>

\* snapshot() takes one lock after the other, in this order.
LockOrder == [state |-> 1, io |-> 2, metrics |-> 3, faults |-> 4]
ReadPart(part) ==
  /\ conn.stage = "reading" /\ part \in conn.unread
  /\ \A other \in conn.unread : LockOrder[part] <= LockOrder[other]
  /\ conn' = [conn EXCEPT
       !.unread = @ \ {part},
       !.snapshot = IF part = "faults" THEN [@ EXCEPT !.faults = shared.faults]
                    ELSE [@ EXCEPT !.fields[part] = shared.fields[part]]]
  /\ UNCHANGED <<shared, pending, ring, sent, prom, page>>

\* Mutant: the list is not cut.
AddFaultUncut(list, f) == <<f>> \o list

\* Mutant: a new fault goes to the end of a list that has room.
AddFaultLast(list, f) == First(list \o <<f>>, PageFaults)

\* addFault().
AddFault(list, f) == First(<<f>> \o list, PageFaults)

\* Mutant: the connection subscribes when it has its snapshot.
OpenedLate ==
  /\ conn.stage = "reading" /\ conn.unread = {}
  /\ LET added == Newest(conn.snapshot.faults, FullFaults)
     IN page' = [fields |-> conn.snapshot.fields,
                 faults |-> First(Reversed(added) \o page.faults, PageFaults)]
  /\ conn' = [Off EXCEPT !.stage = "open", !.next = sent]
  /\ UNCHANGED <<shared, pending, ring, sent, prom>>

\* A full message: its last faults go to the list, which keeps what it has.
Opened ==
  /\ conn.stage = "reading" /\ conn.unread = {}
  /\ LET added == Newest(conn.snapshot.faults, FullFaults)
     IN page' = [fields |-> conn.snapshot.fields,
                 faults |-> First(Reversed(added) \o page.faults, PageFaults)]
  /\ conn' = [Off EXCEPT !.stage = "open", !.next = conn.next]
  /\ UNCHANGED <<shared, pending, ring, sent, prom>>

\* onmessage() of the page.
Show(u) ==
  IF u.kind = "fault" THEN [page EXCEPT !.faults = AddFault(@, u.value)]
  ELSE [page EXCEPT !.fields[u.kind] = u.value]

Oldest == sent - Len(ring)

\* recv(): the next message, if the channel still has it.
Receive ==
  /\ conn.stage = "open" /\ Oldest <= conn.next /\ conn.next < sent
  /\ page' = Show(ring[conn.next - Oldest + 1])
  /\ conn' = [conn EXCEPT !.next = @ + 1]
  /\ UNCHANGED <<shared, pending, ring, sent, prom>>

\* Lagged: the receiver goes on with the oldest message there is.
Lag ==
  /\ conn.stage = "open" /\ conn.next < Oldest
  /\ conn' = [conn EXCEPT !.next = Oldest, !.lagged = TRUE]
  /\ UNCHANGED <<shared, pending, ring, sent, prom, page>>

\* The socket closes on either side: the page blanks the state and keeps the rest; it
\* connects again after 3 s.
Disconnect ==
  /\ conn.stage # "off"
  /\ conn' = Off
  /\ page' = [page EXCEPT !.fields = [f \in Fields |-> IF f = "state" THEN -1 ELSE @[f]]]
  /\ UNCHANGED <<shared, pending, ring, sent, prom>>

Updates == [kind : Fields, value : Values] \cup [kind : {"fault"}, value : {sent + 1}]

Next ==
  \/ \E u \in Updates : Begin(u)
  \/ Send
  \/ Connect \/ Opened \/ Receive \/ Lag \/ Disconnect
  \/ \E part \in Fields \cup {"faults"} : ReadPart(part)

Spec == Init /\ [][Next]_vars

-----------------------------------------------------------------------------
(* Properties. *)

UpToDate == conn.stage = "open" /\ conn.next = sent /\ ~conn.lagged /\ pending = NoUpdate

\* Whatever happens between the subscription and the four reads of the snapshot, a
\* page that has taken all its messages shows the shared state, no part an old one.
ShowsCurrent == UpToDate => page.fields = shared.fields

\* Nor does it miss a fault, though it may list one twice: its list begins with the
\* newest, and holds as many of the last ones as a full message brings.
ShowsRecentFaults ==
  UpToDate /\ shared.faults # <<>> =>
    /\ page.faults[1] = shared.faults[Len(shared.faults)]
    /\ Elements(Newest(shared.faults, FullFaults)) \subseteq Elements(page.faults)

\* The shared list is the newest faults in their order.
FaultHistory == INSTANCE SlidingWindow WITH
  Items <- Faults, Size <- KeptFaults, window <- shared.faults
FaultsAreWindow == FaultHistory!Spec

\* Prometheus' counter of cycles agrees with the last published count, also when that
\* count has started again.
CountersFollow ==
  pending = NoUpdate /\ "metrics" \in Fields => prom.cycles = shared.fields["metrics"]

-----------------------------------------------------------------------------
(* The inductive invariant. *)

\* A stored value that no message will change any more, seen from message k of the ring.
Silent(f, k) == pending.kind # f /\ \A i \in DOMAIN ring : i > k => ring[i].kind # f

\* The update under way, and the last message about a field, carry the shared value.
MessagesCarry ==
  /\ \A f \in Fields : pending.kind = f => pending.value = shared.fields[f]
  /\ \A f \in Fields : \A i \in DOMAIN ring :
       ring[i].kind = f /\ Silent(f, i) => ring[i].value = shared.fields[f]
  /\ pending # NoUpdate => sent < MaxSends

\* Faults bear the number of their message, and the list has the newest.
FaultsNumbered ==
  /\ \A i, j \in DOMAIN shared.faults : i < j => shared.faults[i] < shared.faults[j]
  /\ pending.kind # "fault" => \A i \in DOMAIN shared.faults : shared.faults[i] <= sent
  /\ pending.kind = "fault" =>
       /\ shared.faults # <<>> /\ pending.value = sent + 1
       /\ shared.faults[Len(shared.faults)] = sent + 1
  /\ \A i \in DOMAIN ring : ring[i].kind = "fault" =>
       /\ ring[i].value = Oldest + i
       /\ \/ \E j \in DOMAIN shared.faults : shared.faults[j] = Oldest + i
          \/ \A j \in DOMAIN shared.faults : shared.faults[j] > Oldest + i

\* No fault has the number of another message.
OthersBringNone ==
  \A i \in DOMAIN ring : ring[i].kind # "fault" =>
    \A j \in DOMAIN shared.faults : shared.faults[j] # Oldest + i

Behind == Len(ring) <= sent /\ conn.next <= sent

\* What was read before the first message a page will take is still so, or there is a
\* message about it.
SnapshotHolds ==
  conn.stage = "reading" =>
    /\ \A f \in Fields :
         f \notin conn.unread /\ Oldest <= conn.next /\ Silent(f, conn.next - Oldest) =>
           conn.snapshot.fields[f] = shared.fields[f]
    /\ "faults" \notin conn.unread =>
         \A j \in DOMAIN shared.faults : shared.faults[j] <= conn.next =>
           \E i \in DOMAIN conn.snapshot.faults :
             /\ conn.snapshot.faults[i] = shared.faults[j]
             /\ Len(conn.snapshot.faults) - i <= Len(shared.faults) - j

\* The last fault of the shared list up to the message n.
LastUpTo(k, n) ==
  /\ k \in DOMAIN shared.faults /\ shared.faults[k] <= n
  /\ \A i \in DOMAIN shared.faults : i > k => shared.faults[i] > n

\* The same of the page, and no fault it needs is far down in its list.
PageHolds ==
  conn.stage = "open" /\ ~conn.lagged =>
    /\ \A f \in Fields :
         Oldest <= conn.next /\ Silent(f, conn.next - Oldest) =>
           page.fields[f] = shared.fields[f]
    /\ LastUpTo(Len(shared.faults), conn.next) =>
         page.faults # <<>> /\ page.faults[1] = shared.faults[Len(shared.faults)]
    /\ \A k \in DOMAIN shared.faults : LastUpTo(k, conn.next) =>
         \A j \in 1..k : Len(shared.faults) - j < FullFaults =>
           \E i \in DOMAIN page.faults :
             i <= FullFaults + k - j /\ page.faults[i] = shared.faults[j]

CountersAgree ==
  /\ prom.cycles = prom.last
  /\ "metrics" \in Fields /\ pending.kind # "metrics" => prom.last = shared.fields["metrics"]

IInv ==
  /\ TypeOK /\ Behind /\ MessagesCarry /\ FaultsNumbered /\ OthersBringNone
  /\ SnapshotHolds /\ PageHolds /\ CountersAgree

=============================================================================
