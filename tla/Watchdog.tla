------------------------------ MODULE Watchdog ------------------------------
(***************************************************************************)
(* The software watchdog of plc-runtime/src/watchdog.rs: the thread that   *)
(* owns it (the real-time loop) and the monitor thread that start() spawns *)
(* share last_kick_ns, triggered and stop_requested.  Every atomic         *)
(* operation is a step.  Timestamps are kept as ages, which a tick of the  *)
(* clock advances; beyond AgeCap ages need not be told apart.              *)
(***************************************************************************)
EXTENDS Integers

CONSTANTS
  Timeout,      \* in ticks
  MinInterval,  \* the 1 ms floor of the check interval, in ticks
  Schedulings,  \* values of prompt to choose from
  MaxStarts,    \* bound: successful start() calls
  MaxResets     \* bound: reset() calls

ASSUME WatchdogAssumption ==
  /\ Timeout \in Nat /\ MinInterval \in Nat /\ MinInterval > 0
  /\ Schedulings \subseteq BOOLEAN
  /\ MaxStarts \in Nat /\ MaxResets \in Nat

VARIABLES
  prompt,      \* environment, chosen once: TRUE when time passes only while
               \* the monitor sleeps or is not there, never inside a kick
  owner,       \* the owning thread: "idle" or inside a call
  monitor,     \* the monitor thread's program counter; "none" before a start
               \* and after the join
  running,     \* AtomicBool running
  stopReq,     \* stop_requested
  triggered,   \* triggered
  kickAge,     \* now - last_kick_ns
  sampleAge,   \* owner: age of the elapsed_ns() about to be stored by a kick
  lastAge,     \* monitor: age of the last_kick_ns it has loaded
  sleepLeft,   \* monitor: ticks left of thread::sleep(check_interval)
  starts, resets, callbacks,   \* history: calls made
  late         \* history: the last kick was older than Timeout at some moment
               \* since the last start() or reset() returned

vars == <<prompt, owner, monitor, running, stopReq, triggered, kickAge,
          sampleAge, lastAge, sleepLeft, starts, resets, callbacks, late>>

\* self.timeout / 4, clamped.
Interval == IF Timeout \div 4 > MinInterval THEN Timeout \div 4 ELSE MinInterval
AgeCap == Timeout + Interval + 1

\* Mutant: ages run on.
OlderForEver(age) == age + 1
Older(age) == IF age < AgeCap THEN age + 1 ELSE age

Alive == monitor \notin {"none", "exited"}

TypeOK ==
  /\ prompt \in BOOLEAN
  /\ owner \in {"idle", "kicking", "resetting", "rekicking", "stopping"}
  /\ monitor \in {"none", "loop", "sleep", "load", "compare", "swap",
                  "callback", "exited"}
  /\ running \in BOOLEAN /\ stopReq \in BOOLEAN /\ triggered \in BOOLEAN
  /\ {kickAge, sampleAge, lastAge} \subseteq 0 .. AgeCap
  /\ sleepLeft \in 0 .. Interval
  /\ starts \in 0 .. MaxStarts /\ resets \in 0 .. MaxResets
  /\ callbacks \in Nat
  /\ late \in BOOLEAN

Init ==
  /\ prompt \in Schedulings
  /\ owner = "idle" /\ monitor = "none"
  /\ running = FALSE /\ stopReq = FALSE /\ triggered = FALSE
  /\ kickAge = 0 /\ sampleAge = 0 /\ lastAge = 0 /\ sleepLeft = 0
  /\ starts = 0 /\ resets = 0 /\ callbacks = 0
  /\ late = FALSE

-----------------------------------------------------------------------------
(* The owning thread *)

\* Mutant: stop_requested of the previous run is not cleared.
KeepStopRequest == UNCHANGED stopReq

\* start() clears the flags of a previous run.
ClearStopRequest == stopReq' = FALSE

\* start(), refused while running.  No monitor is alive: nobody interferes
\* between its stores, so it is one step.  The spawn may fail.
Start ==
  /\ owner = "idle"
  /\ ~running
  /\ starts < MaxStarts
  /\ ClearStopRequest
  /\ triggered' = FALSE
  /\ kickAge' = 0
  /\ late' = FALSE
  /\ \/ /\ running' = TRUE
        /\ monitor' = "loop"
        /\ starts' = starts + 1
     \/ UNCHANGED <<running, monitor, starts>>
  /\ UNCHANGED <<prompt, owner, sampleAge, lastAge, sleepLeft, resets,
                 callbacks>>

\* kick(), and the kick that ends reset(): elapsed_ns(), then the store.
KickSample ==
  /\ \/ owner = "idle" /\ owner' = "kicking"
     \/ owner = "resetting" /\ owner' = "rekicking"
  /\ sampleAge' = 0
  /\ UNCHANGED <<prompt, monitor, running, stopReq, triggered, kickAge,
                 lastAge, sleepLeft, starts, resets, callbacks, late>>

KickStore ==
  /\ owner \in {"kicking", "rekicking"}
  /\ owner' = "idle"
  /\ kickAge' = sampleAge
  /\ late' = (sampleAge > Timeout \/ (late /\ owner = "kicking"))
  /\ UNCHANGED <<prompt, monitor, running, stopReq, triggered, sampleAge,
                 lastAge, sleepLeft, starts, resets, callbacks>>

\* reset(): the flag first, then the kick.
ResetClear ==
  /\ owner = "idle"
  /\ resets < MaxResets
  /\ owner' = "resetting"
  /\ triggered' = FALSE
  /\ resets' = resets + 1
  /\ UNCHANGED <<prompt, monitor, running, stopReq, kickAge, sampleAge,
                 lastAge, sleepLeft, starts, callbacks, late>>

\* full_reset(), used as documented: after stop() and before start().
FullReset ==
  /\ owner = "idle"
  /\ ~running
  /\ stopReq' = FALSE /\ triggered' = FALSE
  /\ kickAge' = 0
  /\ late' = FALSE
  /\ UNCHANGED <<prompt, owner, monitor, running, sampleAge, lastAge,
                 sleepLeft, starts, resets, callbacks>>

\* Mutant: stop() does not wait for the monitor thread.
StopDetached ==
  /\ owner = "idle"
  /\ running
  /\ running' = FALSE
  /\ stopReq' = TRUE
  /\ UNCHANGED <<prompt, owner, monitor, triggered, kickAge, sampleAge,
                 lastAge, sleepLeft, starts, resets, callbacks, late>>

\* stop(): raises stop_requested and joins.  Not running: it returns at once.
StopRequest ==
  /\ owner = "idle"
  /\ running
  /\ owner' = "stopping"
  /\ stopReq' = TRUE
  /\ UNCHANGED <<prompt, monitor, running, triggered, kickAge, sampleAge,
                 lastAge, sleepLeft, starts, resets, callbacks, late>>

StopJoined ==
  /\ owner = "stopping"
  /\ monitor = "exited"
  /\ owner' = "idle"
  /\ monitor' = "none"
  /\ UNCHANGED <<prompt, running, stopReq, triggered, kickAge, sampleAge,
                 lastAge, sleepLeft, starts, resets, callbacks, late>>

\* restart() is stop() and then start().
Owner ==
  \/ Start \/ KickSample \/ KickStore \/ ResetClear \/ FullReset
  \/ StopRequest \/ StopJoined

-----------------------------------------------------------------------------
(* The monitor thread *)

\* The end of the thread: it takes running back itself.
Exit == monitor' = "exited" /\ running' = FALSE

LoopOrExit ==
  /\ monitor = "loop"
  /\ IF stopReq
     THEN Exit /\ UNCHANGED sleepLeft
     ELSE monitor' = "sleep" /\ sleepLeft' = Interval /\ UNCHANGED running
  /\ UNCHANGED <<prompt, owner, stopReq, triggered, kickAge, sampleAge,
                 lastAge, starts, resets, callbacks, late>>

\* Awake: the second look at stop_requested.
Wake ==
  /\ monitor = "sleep"
  /\ sleepLeft = 0
  /\ IF stopReq THEN Exit ELSE monitor' = "load" /\ UNCHANGED running
  /\ UNCHANGED <<prompt, owner, stopReq, triggered, kickAge, sampleAge,
                 lastAge, sleepLeft, starts, resets, callbacks, late>>

\* is_timed_out(): the last kick is loaded first, the time is read after it.
LoadLastKick ==
  /\ monitor = "load"
  /\ monitor' = "compare"
  /\ lastAge' = kickAge
  /\ UNCHANGED <<prompt, owner, running, stopReq, triggered, kickAge,
                 sampleAge, sleepLeft, starts, resets, callbacks, late>>

\* Mutant: the timeout has to pass twice.
TimedOutLate == lastAge > 2 * Timeout

\* Mutant: a kick exactly Timeout old is already too old.
TimedOutEarly == lastAge >= Timeout

\* Mutant: only the moment itself counts.
TimedOutExactly == lastAge = Timeout

TimedOut == lastAge > Timeout

Compare ==
  /\ monitor = "compare"
  /\ monitor' = IF TimedOut THEN "swap" ELSE "loop"
  /\ UNCHANGED <<prompt, owner, running, stopReq, triggered, kickAge,
                 sampleAge, lastAge, sleepLeft, starts, resets, callbacks,
                 late>>

\* Mutant: the old value of the flag is not looked at.
AlwaysCallback == TRUE

\* !triggered.swap(true)
FirstTrigger == ~triggered

SwapTriggered ==
  /\ monitor = "swap"
  /\ triggered' = TRUE
  /\ monitor' = IF FirstTrigger THEN "callback" ELSE "loop"
  /\ UNCHANGED <<prompt, owner, running, stopReq, kickAge, sampleAge, lastAge,
                 sleepLeft, starts, resets, callbacks, late>>

\* on_trigger()
Callback ==
  /\ monitor = "callback"
  /\ monitor' = "loop"
  /\ callbacks' = callbacks + 1
  /\ UNCHANGED <<prompt, owner, running, stopReq, triggered, kickAge,
                 sampleAge, lastAge, sleepLeft, starts, resets, late>>

Monitor ==
  LoopOrExit \/ Wake \/ LoadLastKick \/ Compare \/ SwapTriggered \/ Callback

-----------------------------------------------------------------------------
\* Time passes.  When prompt, not while a thread is between two steps it takes
\* without sleeping; a stop() that waits for the join does let time pass.
Tick ==
  /\ prompt =>
       /\ ~Alive \/ (monitor = "sleep" /\ sleepLeft > 0)
       /\ owner \in {"idle", "stopping"}
  /\ kickAge' = Older(kickAge)
  /\ sampleAge' = Older(sampleAge)
  /\ lastAge' = Older(lastAge)
  /\ sleepLeft' = IF sleepLeft > 0 THEN sleepLeft - 1 ELSE 0
  /\ late' = (late \/ kickAge' > Timeout)
  /\ UNCHANGED <<prompt, owner, monitor, running, stopReq, triggered, starts,
                 resets, callbacks>>

Next == Owner \/ Monitor \/ Tick

Spec == Init /\ [][Next]_vars

(* Time passes and the monitor thread is scheduled.  The owner may stall    *)
(* anywhere, except that a prompt thread does not stay inside a kick.       *)
FairSpec ==
  /\ Spec
  /\ WF_vars(Tick)
  /\ WF_vars(Monitor)
  /\ WF_vars(prompt /\ owner # "idle" /\ (KickSample \/ KickStore))

-----------------------------------------------------------------------------
(* Properties *)

\* The watchdog is the alarm the scheduler takes it for: in particular a flag
\* is raised only while it says it is running, so after stop() has returned
\* nothing raises it, and a raised one goes down only by start() or a reset.
Promise == INSTANCE Alarm WITH armed <- running, raised <- triggered
AlarmSpec == Promise!Spec

\* The callback runs at most once for each start() or reset().
OneCallbackPerArming == callbacks <= starts + resets

\* A watchdog that says it is running, outside stop(), has a monitor thread
\* that has not been told to stop, also after a restart.
RunningIsWatched == running /\ owner # "stopping" => Alive /\ ~stopReq

\* With prompt threads, a loop that stops kicking is noticed within one check
\* interval of the timeout.
DetectionBound ==
  prompt /\ running /\ owner = "idle" /\ kickAge > Timeout + Interval =>
    triggered

\* With prompt threads, and used as the scheduler uses it, without reset(), the
\* watchdog does not trigger as long as every kick comes in time.
QuietWhenKicked == prompt /\ resets = 0 /\ triggered => late

\* With prompt threads, the watchdog triggers when it should and only then.
PromptlyRight == DetectionBound /\ QuietWhenKicked

\* However badly the threads are scheduled, a loop that stopped kicking, and
\* does not stop the watchdog, is noticed.
StallDetected ==
  running /\ kickAge > Timeout ~> triggered \/ kickAge <= Timeout \/ stopReq

-----------------------------------------------------------------------------
(* The inductive invariant. *)

\* running is the monitor's own account of itself; only stop() asks it to end,
\* and stays until it has.
MonitorLife ==
  /\ running <=> Alive
  /\ stopReq /\ Alive => owner = "stopping"
  /\ monitor = "exited" => owner = "stopping"
  /\ owner = "stopping" => monitor # "none"

\* A callback that is due, or that the lowered flag still allows, has been paid
\* for by a start() or a reset().
CallbacksDue ==
  callbacks + (IF monitor = "callback" THEN 1 ELSE 0)
            + (IF Alive /\ ~triggered THEN 1 ELSE 0) <= starts + resets

Resetting == owner \in {"resetting", "rekicking"}

\* With prompt threads, how old the last kick can be when the monitor has not
\* raised the flag, by what the monitor is about to do.
PromptAge ==
  prompt =>
    /\ owner \in {"kicking", "rekicking"} => sampleAge = 0
    /\ monitor = "compare" => kickAge <= lastAge
    /\ Alive /\ ~triggered /\ ~Resetting =>
         /\ kickAge <= Timeout + Interval
         /\ monitor \in {"loop", "callback"} => kickAge <= Timeout
         /\ monitor = "sleep" => kickAge + sleepLeft <= Timeout + Interval

\* late tells whether the loop was late, and with prompt threads the monitor
\* only acts on that.
LateKnown ==
  /\ kickAge > Timeout => late
  /\ Resetting => resets > 0
  /\ prompt /\ resets = 0 =>
       /\ monitor = "compare" /\ lastAge > Timeout => late
       /\ monitor = "swap" => late
       /\ triggered => late

IInv ==
  /\ TypeOK
  /\ MonitorLife
  /\ CallbacksDue
  /\ PromptAge
  /\ LateKnown
=============================================================================
