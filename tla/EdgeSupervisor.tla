---------------------------- MODULE EdgeSupervisor ----------------------------
(***************************************************************************)
(* EdgeSupervisor (edge_runtime/supervisor.py) with the capture processes  *)
(* it owns (edge_runtime/capture/worker.py) and the health record each of  *)
(* them shares with it (edge_runtime/capture/camera_health.py).  Two       *)
(* threads of the runtime process drive the workers, the watchdog and the  *)
(* main thread that starts and stops everything; every camera has one      *)
(* capture process at a time, which may crash, hang or lose its device.    *)
(*                                                                         *)
(* A health method is one step because it holds the health lock; a process *)
(* terminated in such a step may leave the lock held for ever.  Time is    *)
(* counted in ticks, only as far as read_timeout_ms needs it; real-time    *)
(* bounds of a join are conditions on what it waits for.                   *)
(***************************************************************************)
EXTENDS Integers

CONSTANTS
  NumCameras,    \* enabled cameras, in the order of the dict
  Timeout,       \* read_timeout_ms, in ticks
  Faults         \* what can go wrong with each camera's device

FaultKinds == {"absent",     \* the device does not open
               "fails",      \* a read or a publish fails
               "mismatch",   \* frames of another resolution
               "crash",      \* the process dies
               "slow",       \* open or read returns after more than 3 s
               "hang"}       \* open or read never returns

ASSUME SupervisorAssumption ==
  /\ NumCameras \in Nat \ {0}
  /\ Timeout \in Nat \ {0}
  /\ Faults \in [1 .. NumCameras -> SUBSET FaultKinds]

Cameras == 1 .. NumCameras
Threads == {"main", "watchdog"}

VARIABLES
  process,       \* [Cameras -> Places]: where the capture process is
  event,         \* [Cameras -> BOOLEAN]: worker._stop_event
  health,        \* [Cameras -> States]: health._state
  silence,       \* [Cameras -> Nat]: ticks since last success, -1 if none yet
  uptime,        \* [Cameras -> Nat]: ticks since started_monotonic_ns
  killed,        \* cameras whose process was sent SIGTERM
  lockLost,      \* cameras whose health lock no one will ever release
  at,            \* [Threads -> Locations]
  on,            \* [Threads -> Cameras]: the camera of the thread's loop
  late,          \* cameras past the timeout at the watchdog's now_ns
  overdue,       \* the watchdog's verdict on the snapshot it holds
  stopping,      \* the supervisor's _stop event
  gaveUp         \* history: stop() went on without the watchdog's end

processVars == <<process, health, silence, killed, lockLost>>
threadVars == <<at, on, overdue, stopping, gaveUp>>
vars == <<processVars, threadVars, event, uptime, late>>

States == {"starting", "running", "degraded", "disconnected", "stopped"}
Places == {"gone", "boot", "outer", "open", "inner", "read", "check", "close",
           "absent", "backoff", "ending", "hung"}
Locations == {"new", "off", "start", "spawn", "serve", "await", "wait", "snapshot",
              "decide", "set", "join", "alive", "terminate", "reap", "mark",
              "reconnect", "done", "raised"}

TypeOK ==
  /\ process \in [Cameras -> Places]
  /\ event \in [Cameras -> BOOLEAN]
  /\ health \in [Cameras -> States]
  /\ silence \in [Cameras -> -1 .. Timeout + 1]
  /\ uptime \in [Cameras -> 0 .. Timeout + 1]
  /\ killed \in SUBSET Cameras
  /\ lockLost \in SUBSET Cameras
  /\ at \in [Threads -> Locations]
  /\ on \in [Threads -> Cameras]
  /\ late \in SUBSET Cameras
  /\ overdue \in BOOLEAN
  /\ stopping \in BOOLEAN
  /\ gaveUp \in BOOLEAN

Init ==
  /\ process = [c \in Cameras |-> "gone"]
  /\ event = [c \in Cameras |-> FALSE]
  /\ health = [c \in Cameras |-> "stopped"]
  /\ silence = [c \in Cameras |-> -1]
  /\ uptime = [c \in Cameras |-> 0]
  /\ killed = {}
  /\ lockLost = {}
  /\ at = [t \in Threads |-> IF t = "main" THEN "new" ELSE "off"]
  /\ on = [t \in Threads |-> 1]
  /\ late = {}
  /\ overdue = FALSE
  /\ stopping = FALSE
  /\ gaveUp = FALSE

Alive(c) == process[c] # "gone"
-----------------------------------------------------------------------------
(* The capture process: _capture_process_main. *)

Go(c, place) ==
  /\ process' = [process EXCEPT ![c] = place]
  /\ UNCHANGED <<event, uptime, killed, lockLost, threadVars>>

\* A method of CameraHealth: needs the lock, sets the state.
SetState(c, state) ==
  /\ c \notin lockLost
  /\ health' = [health EXCEPT ![c] = state]

\* Health other than the state: only success moves last_success_monotonic_ns.
NoSuccess == UNCHANGED <<silence, late>>

Boot(c) ==
  /\ process[c] = "boot"
  /\ SetState(c, "starting") /\ NoSuccess
  /\ Go(c, "outer")

\* The loop tests: of the outer loop, of the inner one, after the release.
TestStop(c) ==
  /\ \/ process[c] = "outer" /\ Go(c, IF event[c] THEN "ending" ELSE "open")
     \/ process[c] = "inner" /\ Go(c, IF event[c] THEN "close" ELSE "read")
     \/ process[c] = "close" /\ Go(c, IF event[c] THEN "ending" ELSE "absent")
  /\ UNCHANGED health /\ NoSuccess

Open(c) ==
  /\ process[c] = "open"
  /\ UNCHANGED health /\ NoSuccess
  /\ Go(c, "inner")

\* VideoCapture did not open: record_failure, then as after a release.
OpenRefused(c) ==
  /\ "absent" \in Faults[c]
  /\ process[c] = "open"
  /\ SetState(c, "degraded") /\ NoSuccess
  /\ Go(c, "absent")

\* A frame was read, published and recorded.
Read(c) ==
  /\ process[c] = "read"
  /\ SetState(c, "running")
  /\ silence' = [silence EXCEPT ![c] = 0]
  /\ late' = late \ {c}
  /\ Go(c, IF "mismatch" \in Faults[c] THEN "check" ELSE "inner")

Mismatch(c) ==
  /\ process[c] = "check"
  /\ SetState(c, "degraded") /\ NoSuccess
  /\ Go(c, "inner")

\* No frame, or publish refused it: record_failure and leave the inner loop.
ReadFails(c) ==
  /\ "fails" \in Faults[c]
  /\ process[c] = "read"
  /\ SetState(c, "degraded") /\ NoSuccess
  /\ Go(c, "close")

Disconnect(c) ==
  /\ process[c] = "absent"
  /\ SetState(c, "disconnected") /\ NoSuccess
  /\ Go(c, "backoff")

\* A mutant: the state is not set.
ReconnectSilently(c) ==
  /\ process[c] = "backoff"
  /\ UNCHANGED health /\ NoSuccess
  /\ Go(c, "outer")

\* The backoff ends, or the event cuts it short: record_reconnect.
Reconnect(c) ==
  /\ process[c] = "backoff"
  /\ SetState(c, "starting") /\ NoSuccess
  /\ Go(c, "outer")

Finish(c) ==
  /\ process[c] = "ending"
  /\ SetState(c, "stopped") /\ NoSuccess
  /\ Go(c, "gone")

InDevice(c) == process[c] \in {"open", "read"}

Hang(c) ==
  /\ "hang" \in Faults[c] /\ InDevice(c)
  /\ UNCHANGED health /\ NoSuccess
  /\ Go(c, "hung")

Crash(c) ==
  /\ "crash" \in Faults[c] /\ InDevice(c)
  /\ UNCHANGED health /\ NoSuccess
  /\ Go(c, "gone")

\* Places whose next step is a method of CameraHealth.
InHealth(c) == process[c] \in {"boot", "open", "read", "check", "absent", "backoff", "ending"}

\* SIGTERM, which the process does not handle, ends it wherever it is.
Die(c) ==
  /\ c \in killed /\ Alive(c)
  /\ process' = [process EXCEPT ![c] = "gone"]
  /\ killed' = killed \ {c}
  /\ \/ UNCHANGED lockLost
     \/ InHealth(c) /\ lockLost' = lockLost \union {c}
  /\ UNCHANGED <<event, health, silence, uptime, late, threadVars>>

Runs(c) ==
  \/ Boot(c) \/ TestStop(c) \/ Open(c) \/ OpenRefused(c) \/ Read(c) \/ Mismatch(c)
  \/ ReadFails(c) \/ Disconnect(c) \/ Reconnect(c) \/ Finish(c) \/ Hang(c) \/ Crash(c)
-----------------------------------------------------------------------------
(* CaptureWorker's methods, run by either thread on the camera of its loop. *)

At(t, location) == at[t] = location
Move(t, location) == at' = [at EXCEPT ![t] = location]

\* The next camera of the thread's loop, or what follows the loop.
Advance(t, first, after) ==
  IF on[t] < NumCameras
  THEN Move(t, first) /\ on' = [on EXCEPT ![t] = @ + 1]
  ELSE Move(t, after) /\ on' = [on EXCEPT ![t] = 1]

NextToStart(t) == IF t = "main" THEN Advance(t, "start", "serve")
                                ELSE Advance(t, "snapshot", "wait")

\* A mutant: start() does not ask is_alive().
StartAnyway(t) ==
  /\ At(t, "start")
  /\ event' = [event EXCEPT ![on[t]] = FALSE]
  /\ Move(t, "spawn") /\ UNCHANGED on
  /\ UNCHANGED <<processVars, uptime, late, overdue, stopping, gaveUp>>

\* start(): nothing if the process is alive, else a new Process object ...
Start(t) ==
  /\ At(t, "start")
  /\ IF Alive(on[t])
     THEN NextToStart(t) /\ UNCHANGED event
     ELSE /\ event' = [event EXCEPT ![on[t]] = FALSE]
          /\ Move(t, "spawn") /\ UNCHANGED on
  /\ UNCHANGED <<processVars, uptime, late, overdue, stopping, gaveUp>>

\* ... which is then started.
Spawn(t) ==
  LET c == on[t] IN
  /\ At(t, "spawn")
  /\ process' = [process EXCEPT ![c] = "boot"]
  /\ uptime' = [uptime EXCEPT ![c] = 0]
  /\ killed' = killed \ {c}
  /\ NextToStart(t)
  /\ UNCHANGED <<health, silence, lockLost, event, late, overdue, stopping, gaveUp>>

SetEvent(t) ==
  /\ At(t, "set")
  /\ event' = [event EXCEPT ![on[t]] = TRUE]
  /\ Move(t, "join")
  /\ UNCHANGED <<processVars, uptime, late, on, overdue, stopping, gaveUp>>

\* A process that does not leave its loops within 3 seconds: it is stuck, or
\* start() has cleared the event again.
Unresponsive(c) ==
  \/ ~event[c]
  \/ process[c] = "hung"
  \/ "slow" \in Faults[c] /\ InDevice(c)
  \/ c \in lockLost /\ InHealth(c)

Unstarted(t, c) == \E u \in Threads \ {t} : At(u, "spawn") /\ on[u] = c

\* A mutant: the join has no timeout.
JoinForever(t) ==
  /\ At(t, "join")
  /\ ~Alive(on[t])
  /\ Move(t, "alive")
  /\ UNCHANGED <<processVars, event, uptime, late, on, overdue, stopping, gaveUp>>

\* join(3.0) returns; or raises, when the other thread has made a new Process
\* object and not started it: nothing catches it.
Join(t) ==
  LET c == on[t] IN
  /\ At(t, "join")
  /\ \/ ~Unstarted(t, c) /\ (~Alive(c) \/ Unresponsive(c)) /\ Move(t, "alive")
     \/ Unstarted(t, c) /\ Move(t, "raised")
  /\ UNCHANGED <<processVars, event, uptime, late, on, overdue, stopping, gaveUp>>

\* A mutant: a process that outlives the join is left alone.
AskAliveOnly(t) ==
  /\ At(t, "alive")
  /\ Move(t, "mark")
  /\ UNCHANGED <<processVars, event, uptime, late, on, overdue, stopping, gaveUp>>

\* is_alive(), which of an unstarted Process says no.
AskAlive(t) ==
  /\ At(t, "alive")
  /\ Move(t, IF Alive(on[t]) THEN "terminate" ELSE "mark")
  /\ UNCHANGED <<processVars, event, uptime, late, on, overdue, stopping, gaveUp>>

\* terminate() reaches the process the worker has by now, if that lives; it
\* raises if the other thread has meanwhile replaced it by an unstarted one.
Terminate(t) ==
  LET c == on[t] IN
  /\ At(t, "terminate")
  /\ \/ /\ ~Unstarted(t, c)
        /\ killed' = IF Alive(c) THEN killed \union {c} ELSE killed
        /\ Move(t, "reap")
     \/ Unstarted(t, c) /\ Move(t, "raised") /\ UNCHANGED killed
  /\ UNCHANGED <<process, health, silence, lockLost, event, uptime, late, on,
                 overdue, stopping, gaveUp>>

\* join(1.0): outlived by a process stuck in its driver, and by the one the
\* other thread has meanwhile started in place of the one that got the signal.
Reap(t) ==
  LET c == on[t] IN
  /\ At(t, "reap")
  /\ \/ ~Unstarted(t, c) /\ (c \notin killed \/ ~Alive(c) \/ process[c] = "hung") /\ Move(t, "mark")
     \/ Unstarted(t, c) /\ Move(t, "raised")
  /\ UNCHANGED <<processVars, event, uptime, late, on, overdue, stopping, gaveUp>>

\* stop() ends with set_state(STOPPED); restart() goes on, stop() of the
\* supervisor takes the next camera.
Mark(t) ==
  /\ At(t, "mark")
  /\ SetState(on[t], "stopped")
  /\ IF t = "main" THEN Advance(t, "set", "done") ELSE Move(t, "reconnect") /\ UNCHANGED on
  /\ UNCHANGED <<process, silence, killed, lockLost, event, uptime, late, overdue,
                 stopping, gaveUp>>

\* record_reconnect() of restart().
MarkReconnect(t) ==
  /\ At(t, "reconnect")
  /\ SetState(on[t], "starting")
  /\ Move(t, "start")
  /\ UNCHANGED <<process, silence, killed, lockLost, event, uptime, late, on, overdue,
                 stopping, gaveUp>>

Worker(t) == \/ Start(t) \/ Spawn(t) \/ SetEvent(t) \/ Join(t) \/ AskAlive(t)
             \/ Terminate(t) \/ Reap(t) \/ Mark(t) \/ MarkReconnect(t)
-----------------------------------------------------------------------------
(* The watchdog thread: _watchdog_loop. *)

\* A mutant: started_monotonic_ns does not stand in for a missing success.
SinceSuccess(c) == silence[c]

\* Ticks since the reference of the timeout test.
SinceReference(c) == IF silence[c] = -1 THEN uptime[c] ELSE silence[c]

\* The wait ends: leave if stop() was called, else take now_ns.
Wake ==
  /\ At("watchdog", "wait")
  /\ IF stopping
     THEN Move("watchdog", "done") /\ UNCHANGED late
     ELSE /\ Move("watchdog", "snapshot")
          /\ late' = {c \in Cameras : SinceReference(c) > Timeout}
  /\ UNCHANGED <<processVars, event, uptime, on, overdue, stopping, gaveUp>>

\* health.snapshot(), and what the loop will conclude from it if the process
\* is alive: nothing for a camera that is DISCONNECTED.
Snapshot ==
  LET c == on["watchdog"] IN
  /\ At("watchdog", "snapshot")
  /\ c \notin lockLost
  /\ overdue' = (health[c] # "disconnected" /\ c \in late)
  /\ Move("watchdog", "decide")
  /\ UNCHANGED <<processVars, event, uptime, late, on, stopping, gaveUp>>

\* restart() if the process is dead or overdue.
Decide ==
  /\ At("watchdog", "decide")
  /\ IF ~Alive(on["watchdog"]) \/ overdue
     THEN Move("watchdog", "set") /\ UNCHANGED on
     ELSE Advance("watchdog", "snapshot", "wait")
  /\ overdue' = FALSE /\ late' = late \ {on["watchdog"]}    \* decided
  /\ UNCHANGED <<processVars, event, uptime, stopping, gaveUp>>

Watchdog == Wake \/ Snapshot \/ Decide \/ Worker("watchdog")
-----------------------------------------------------------------------------
(* The main thread: start(), a life of serving, stop(). *)

Begin ==
  /\ At("main", "new")
  /\ Move("main", "start")
  /\ UNCHANGED <<processVars, event, uptime, late, on, overdue, stopping, gaveUp>>

\* The last statement of start(): the watchdog's thread begins.
Serve ==
  /\ At("main", "serve") /\ At("watchdog", "off")
  /\ Move("watchdog", "wait")
  /\ UNCHANGED <<processVars, event, uptime, late, on, overdue, stopping, gaveUp>>

Stop ==
  /\ At("main", "serve") /\ ~At("watchdog", "off")
  /\ stopping' = TRUE
  /\ Move("main", "await")
  /\ UNCHANGED <<processVars, event, uptime, late, on, overdue, gaveUp>>

\* The watchdog is where two seconds may pass: joining, or without its lock.
WatchdogBusy ==
  \/ at["watchdog"] \in {"join", "reap"} /\ Alive(on["watchdog"])
  \/ at["watchdog"] \in {"snapshot", "mark", "reconnect"} /\ on["watchdog"] \in lockLost

\* join(2.0) on the watchdog returns, in time or not.
Await ==
  /\ At("main", "await")
  /\ At("watchdog", "done") \/ WatchdogBusy
  /\ gaveUp' = ~At("watchdog", "done")
  /\ Move("main", "set")
  /\ UNCHANGED <<processVars, event, uptime, late, on, overdue, stopping>>

Main == Begin \/ Serve \/ Await \/ Worker("main")
-----------------------------------------------------------------------------
\* Ages count up to the first one past the timeout.
Older(n) == IF n > Timeout \/ n = -1 THEN n ELSE n + 1

\* A dead process is restarted whatever its uptime: only live ones count it.
Tick ==
  /\ silence' = [c \in Cameras |-> Older(silence[c])]
  /\ uptime' = [c \in Cameras |-> IF Alive(c) THEN Older(uptime[c]) ELSE uptime[c]]
  /\ UNCHANGED <<process, health, killed, lockLost, threadVars, event, late>>

\* Every step but a call of stop().
Serving ==
  \/ \E c \in Cameras : Runs(c) \/ Die(c)
  \/ Watchdog \/ Main
  \/ Tick

Next == Serving \/ Stop

(***************************************************************************)
(* Threads and processes are scheduled, signals arrive, time passes.       *)
(* Nobody has to call stop(), and a hung process does nothing.             *)
(***************************************************************************)
Fairness ==
  /\ WF_vars(Watchdog) /\ WF_vars(Main) /\ WF_vars(Tick)
  /\ \A c \in Cameras : WF_vars(Runs(c)) /\ WF_vars(Die(c))

Spec == Init /\ [][Next]_vars /\ Fairness

\* The behaviours in which stop() is never called.
ServingSpec == Init /\ [][Serving]_vars /\ Fairness
-----------------------------------------------------------------------------
(***************************************************************************)
(* A worker never replaces a live process: it would be left without an     *)
(* owner, holding the camera.                                              *)
(***************************************************************************)
NoOrphan == \A t \in Threads : At(t, "spawn") => ~Alive(on[t])

(***************************************************************************)
(* The watchdog passes over cameras shown as DISCONNECTED, so a process    *)
(* that hangs must not be shown as DISCONNECTED: it would hang for ever.   *)
(***************************************************************************)
HungNotExcused == \A c \in Cameras : process[c] = "hung" => health[c] # "disconnected"

NothingLeft == at["main"] = "done" => \A c \in Cameras : ~Alive(c) \/ c \in killed

(***************************************************************************)
(* The supervisor owns its processes: when stop() returns, none is left    *)
(* but one that a signal is about to end; at least when stop() has had the *)
(* watchdog's end before it stops the workers, and so has nobody who       *)
(* starts one beside it.                                                   *)
(***************************************************************************)
NothingLeftInTime == ~gaveUp => NothingLeft

(***************************************************************************)
(* "restart a hung camera": a live process is only stopped by the watchdog *)
(* after it has been given read_timeout_ms to deliver a frame.             *)
(***************************************************************************)
RestartsOnlyHung ==
  [][\A c \in Cameras :
       At("watchdog", "decide") /\ at'["watchdog"] = "set" /\ on["watchdog"] = c /\ Alive(c)
         => uptime[c] > Timeout]_vars

(***************************************************************************)
(* A process that ends or hangs is replaced, as long as the supervisor is  *)
(* not stopped, whatever the other cameras do; unless some process was     *)
(* terminated inside its health lock, on which the watchdog then waits.    *)
(***************************************************************************)
Replaced ==
  \A c \in Cameras :
    /\ at["watchdog"] # "off" /\ process[c] = "gone"
         ~> (process[c] # "gone" \/ stopping \/ lockLost # {})
    /\ process[c] = "hung" ~> (process[c] # "hung" \/ stopping \/ lockLost # {})

(***************************************************************************)
(* stop() returns, unless a process was terminated inside its health lock, *)
(* for which stop() would then wait; and it raises, if at all, only after  *)
(* it has given up waiting for the watchdog.                               *)
(***************************************************************************)
StopReturns ==
  at["main"] = "await" ~> \/ at["main"] = "done"
                          \/ at["main"] = "raised" /\ gaveUp
                          \/ lockLost # {}
=============================================================================
