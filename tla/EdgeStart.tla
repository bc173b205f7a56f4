------------------------------ MODULE EdgeStart ------------------------------
(***************************************************************************)
(* The entry point of the edge runtime (edge_runtime/main.py): loading the *)
(* configuration and the models, wiring Phase 2, serving readiness from    *)
(* handler threads, and the shutdown: with signals at any time, joins that *)
(* are timed, and the interpreter waiting for the capture processes.       *)
(*                                                                         *)
(* Captures, watchdog and inference have modules of their own.  Here a     *)
(* camera has the state its capture process last set, and a worker's       *)
(* stop() has the outcomes that EdgeSupervisor gives it.  The loading of   *)
(* one model is one step, for nobody else can look: the health server      *)
(* starts later.  A handler thread reads the cameras one by one, each      *)
(* under its own lock, and then the models.                                *)
(***************************************************************************)
EXTENDS Naturals, Sequences, FiniteSets

CONSTANTS
  Cameras,          \* enabled cameras, as the numbers 1 .. n in the dict's order
  Configurations,   \* sequences of models a configuration may list
  MaxChanges(_), MaxSignals(_)    \* bounds, which may depend on the configuration

\* What a model's load does: "loads", "fails" before there is a session, or
\* "strands": the warm-up fails with the session open.
\* A model "fits" if the pipeline accepts its output format.
Model == [role : {"DETECTOR", "POSE", "PPE"}, enabled : BOOLEAN,
          load : {"loads", "fails", "strands"}, fits : BOOLEAN]

ASSUME EdgeStartAssumption ==
  /\ Cameras \subseteq Nat
  /\ Configurations \subseteq Seq(Model)
  /\ \A list \in Configurations : MaxChanges(list) \in Nat /\ MaxSignals(list) \in Nat

VARIABLES
  pc,               \* where the main thread is
  left,             \* cameras its loop (start, stop, exit's join) has yet to visit
  models,           \* the configuration's models
  loading,          \* index of the next model to load
  health, open,     \* of each model: its health; models whose backend is held
  stranded,         \* models with a session that no backend of the registry holds
  phase2,           \* "none", "built", "running" or "stopped"
  inferring,        \* roles of the models that threads of Phase 2 run
  captures, dying,  \* cameras whose capture process lives; has been sent SIGTERM
  lockLost,         \* cameras whose health lock no one will ever release
  watchdog,         \* the watchdog thread
  state,            \* CameraHealth.state of each camera
  server,           \* health server: "none", "bound", "serving" or "stopped"
  stop,             \* the event of shutdown_signals
  signals, changes, \* bounds: signals sent, camera state changes
  asked,            \* a handler thread answers /health/ready
  toRead, running,  \* cameras it has yet to read, and those it found RUNNING
  reply,            \* whether its last reply was ready
  was,              \* history: cameras RUNNING at some time since it began
  outlived,         \* history: roles of the threads that outlived their join
  gaveUp,           \* history: the watchdog outlived its join
  unwound           \* history: an exception left main, or made it shut down

modelVars == <<models, loading, health, open, stranded>>
phase2Vars == <<phase2, inferring, outlived>>
captureVars == <<captures, dying, lockLost, watchdog, gaveUp>>
signalVars == <<stop, signals, unwound>>
requestVars == <<asked, toRead, running, reply, was>>
vars == <<pc, left, modelVars, phase2Vars, captureVars, state, server, signalVars, changes,
          requestVars>>

Roles == {"DETECTOR", "POSE"}
Ended == {"returned", "killed"}
Exiting == {"exit", "join"}
States == {"STARTING", "RUNNING", "DEGRADED", "STOPPED"}
Places == {"config", "load", "build", "bind", "captures", "phase2", "serve", "guard", "wait",
           "stopHealth", "stopPhase2", "joinPhase2", "stopWatchdog", "joinWatchdog",
           "stopCaptures", "blocked"} \cup Exiting \cup Ended

TypeOK ==
  /\ pc \in Places /\ left \subseteq Cameras
  /\ models \in Seq(Model) /\ loading \in 1 .. Len(models) + 1
  /\ health \in [DOMAIN models -> {"DISABLED", "UNAVAILABLE", "READY"}]
  /\ open = {m \in DOMAIN models : health[m] = "READY"} /\ stranded \subseteq DOMAIN models
  /\ phase2 \in {"none", "built", "running", "stopped"}
  /\ inferring \subseteq Roles /\ outlived \subseteq Roles
  /\ captures \subseteq Cameras /\ dying \subseteq captures /\ lockLost \subseteq Cameras
  /\ watchdog \in {"none", "running", "stopping", "stuck", "ended"}
  /\ state \in [Cameras -> States]
  /\ server \in {"none", "bound", "serving", "stopped"}
  /\ running \subseteq Cameras /\ toRead \subseteq Cameras /\ was \subseteq Cameras
  /\ stop \in BOOLEAN /\ asked \in BOOLEAN /\ reply \in BOOLEAN
  /\ gaveUp \in BOOLEAN /\ unwound \in BOOLEAN
  /\ signals \in Nat /\ changes \in Nat

Init ==
  /\ pc = "config" /\ left = {}
  /\ models = <<>> /\ loading = 1 /\ health = <<>> /\ open = {} /\ stranded = {}
  /\ phase2 = "none" /\ inferring = {} /\ outlived = {}
  /\ captures = {} /\ dying = {} /\ lockLost = {} /\ watchdog = "none" /\ gaveUp = FALSE
  /\ state = [c \in Cameras |-> "STARTING"] /\ server = "none"
  /\ stop = FALSE /\ signals = 0 /\ unwound = FALSE /\ changes = 0
  /\ asked = FALSE /\ toRead = {} /\ running = {} /\ reply = FALSE /\ was = {}

Goes(from, to) == pc = from /\ pc' = to

-----------------------------------------------------------------------------
(* The main thread: start.                                                  *)

Enabled(role) == {m \in DOMAIN models : models[m].role = role /\ models[m].enabled}

\* While it loads, the program has nothing but models.
Loads == UNCHANGED <<left, phase2Vars, captureVars, state, server, signalVars, changes,
                     requestVars>>

\* An invalid configuration, or --validate-only, ends the program.
LoadConfiguration ==
  /\ \/ Goes("config", "exit") /\ UNCHANGED modelVars
     \/ \E list \in Configurations :
          /\ Goes("config", "load") /\ models' = list
          /\ health' = [m \in DOMAIN list |->
                          IF list[m].enabled THEN "UNAVAILABLE" ELSE "DISABLED"]
          /\ UNCHANGED <<loading, open, stranded>>
  /\ Loads

\* load_enabled: the first model that fails ends it.
LoadModel ==
  /\ pc = "load" /\ loading <= Len(models)
  /\ LET m == models[loading]
     IN IF ~m.enabled \/ m.load = "loads"
        THEN /\ health' = [health EXCEPT ![loading] = IF m.enabled THEN "READY" ELSE @]
             /\ open' = IF m.enabled THEN open \cup {loading} ELSE open
             /\ loading' = loading + 1
             /\ UNCHANGED <<pc, stranded>>
        ELSE /\ stranded' = IF m.load = "strands" THEN stranded \cup {loading} ELSE stranded
             /\ pc' = "build"
             /\ UNCHANGED <<health, open, loading>>
  /\ UNCHANGED models /\ Loads

LoadingDone ==
  /\ loading > Len(models) /\ Goes("load", "build")
  /\ UNCHANGED modelVars /\ Loads

\* ModelRegistry.get and the constructor of the pipeline.
Usable(m) == health[m] = "READY" /\ models[m].fits

\* Phase2Runtime.__init__: exactly one detector and at most one pose model.
BuildPhase2 ==
  /\ Goes("build", "bind")
  /\ phase2' = IF /\ Cardinality(Enabled("DETECTOR")) = 1
                  /\ Cardinality(Enabled("POSE")) <= 1
                  /\ \A m \in Enabled("DETECTOR") \cup Enabled("POSE") : Usable(m)
               THEN "built" ELSE "none"
  /\ UNCHANGED <<left, modelVars, inferring, outlived, captureVars, state, server, signalVars,
                 changes, requestVars>>

\* The health server's socket; an address in use is an exception in main.
Bind ==
  /\ \/ Goes("bind", "captures") /\ server' = "bound" /\ left' = Cameras /\ UNCHANGED unwound
     \/ Goes("bind", "exit") /\ unwound' = TRUE /\ UNCHANGED <<server, left>>
  /\ UNCHANGED <<modelVars, phase2Vars, captureVars, state, stop, signals, changes,
                 requestVars>>

\* The cameras in the order of the dict.
First(c) == c \in left /\ \A d \in left : c <= d

\* EdgeSupervisor.start: one capture process after the other, ...
StartCapture ==
  /\ pc = "captures"
  /\ \E c \in Cameras : First(c) /\ captures' = captures \cup {c} /\ left' = left \ {c}
  /\ UNCHANGED <<pc, modelVars, phase2Vars, dying, lockLost, watchdog, gaveUp, state, server,
                 signalVars, changes, requestVars>>

\* ... then the watchdog thread.
StartWatchdog ==
  /\ left = {} /\ Goes("captures", "phase2")
  /\ watchdog' = "running"
  /\ UNCHANGED <<left, modelVars, phase2Vars, captures, dying, lockLost, gaveUp, state, server,
                 signalVars, changes, requestVars>>

StartPhase2 ==
  /\ Goes("phase2", "serve")
  /\ IF phase2 = "built"
     THEN phase2' = "running" /\ inferring' = {r \in Roles : Enabled(r) # {}}
     ELSE UNCHANGED <<phase2, inferring>>
  /\ UNCHANGED <<left, modelVars, outlived, captureVars, state, server, signalVars, changes,
                 requestVars>>

Serve ==
  /\ Goes("serve", "guard")
  /\ server' = "serving"
  /\ UNCHANGED <<left, modelVars, phase2Vars, captureVars, state, signalVars, changes,
                 requestVars>>

\* A step that only moves the main thread.
Moves == UNCHANGED <<left, modelVars, phase2Vars, captureVars, state, server, signalVars,
                     changes, requestVars>>

\* shutdown_signals installs the handlers, and restores the previous ones
\* before the shutdown begins.
Guard == Goes("guard", "wait") /\ Moves

Wait == stop /\ Goes("wait", "stopHealth") /\ Moves

-----------------------------------------------------------------------------
(* The main thread: stop.                                                   *)

StopsHealth ==
  /\ pc' = IF phase2 = "none" THEN "stopWatchdog" ELSE "stopPhase2"
  /\ server' = "stopped"
  /\ UNCHANGED <<left, modelVars, phase2Vars, captureVars, state, signalVars, changes,
                 requestVars>>

\* A mutant: the stop waits for the handler threads.
StopHealthJoins == pc = "stopHealth" /\ ~asked /\ StopsHealth

StopHealth == pc = "stopHealth" /\ StopsHealth

StopsPhase2 ==
  /\ phase2' = "stopped"
  /\ UNCHANGED <<left, modelVars, inferring, outlived, captureVars, state, server, signalVars,
                 changes, requestVars>>

\* A mutant: the threads are told to stop and not joined.
StopPhase2Only == Goes("stopPhase2", "stopWatchdog") /\ StopsPhase2

\* Phase2Runtime.stop: the threads are told to stop ...
StopPhase2 == Goes("stopPhase2", "joinPhase2") /\ StopsPhase2

\* ... and joined, for a time.
JoinPhase2 ==
  /\ Goes("joinPhase2", "stopWatchdog")
  /\ outlived' = inferring
  /\ UNCHANGED <<left, modelVars, phase2, inferring, captureVars, state, server, signalVars,
                 changes, requestVars>>

\* EdgeSupervisor.stop: the watchdog is told to stop ...
StopWatchdog ==
  /\ Goes("stopWatchdog", "joinWatchdog")
  /\ watchdog' = IF watchdog = "running" THEN "stopping" ELSE watchdog
  /\ UNCHANGED <<left, modelVars, phase2Vars, captures, dying, lockLost, gaveUp, state, server,
                 signalVars, changes, requestVars>>

WatchdogJoined ==
  /\ Goes("joinWatchdog", "stopCaptures")
  /\ left' = Cameras
  /\ UNCHANGED <<modelVars, phase2Vars, captures, dying, lockLost, watchdog, state, server,
                 signalVars, changes, requestVars>>

\* A mutant: the watchdog is not joined.
JoinWatchdogNot == WatchdogJoined /\ UNCHANGED gaveUp

\* ... and joined, for a time.
JoinWatchdog == WatchdogJoined /\ gaveUp' = (watchdog # "ended")

\* What stop() of a worker leaves alone.
StopsCapture == UNCHANGED <<modelVars, phase2Vars, watchdog, gaveUp, server, stop, signals,
                            changes, requestVars>>

\* stop() of a worker returns: its process has ended, or has been terminated
\* and outlives the last join.
StopCapture ==
  /\ pc = "stopCaptures"
  /\ \E c \in Cameras :
       /\ First(c) /\ c \notin lockLost
       /\ \/ captures' = captures \ {c} /\ dying' = dying \ {c}
          \/ c \in captures /\ dying' = dying \cup {c} /\ UNCHANGED captures
       /\ left' = left \ {c} /\ state' = [state EXCEPT ![c] = "STOPPED"]
  /\ UNCHANGED <<pc, lockLost, unwound>> /\ StopsCapture

\* It waits for ever for a health lock, which a process terminated inside a
\* health method holds.
StopBlocks ==
  /\ Goes("stopCaptures", "blocked")
  /\ \E c \in captures \cup lockLost :
       /\ First(c)
       /\ captures' = captures \ {c} /\ dying' = dying \ {c} /\ lockLost' = lockLost \cup {c}
  /\ UNCHANGED <<left, state, unwound>> /\ StopsCapture

\* It raises, when the watchdog has made a new Process and not started it.
StopRaises ==
  /\ left # {} /\ watchdog = "stopping" /\ Goes("stopCaptures", "exit")
  /\ unwound' = TRUE
  /\ UNCHANGED <<left, captures, dying, lockLost, state>> /\ StopsCapture

\* ModelRegistry.close; a stranded session has no backend to close it.
Close ==
  /\ left = {} /\ Goes("stopCaptures", "exit")
  /\ open' = {}
  /\ health' = [m \in DOMAIN models |-> IF models[m].enabled THEN "UNAVAILABLE" ELSE "DISABLED"]
  /\ UNCHANGED <<left, models, loading, stranded, phase2Vars, captureVars, state, server,
                 signalVars, changes, requestVars>>

\* main has been left: the interpreter joins the capture processes it finds,
\* which are not daemons, ...
Exit ==
  /\ Goes("exit", "join")
  /\ left' = captures
  /\ UNCHANGED <<modelVars, phase2Vars, captureVars, state, server, signalVars, changes,
                 requestVars>>

\* The program has ended, and its threads with it.
EndProgram(place) ==
  /\ pc' = place
  /\ inferring' = {} /\ watchdog' = "ended"
  /\ UNCHANGED <<left, modelVars, phase2, outlived, captures, dying, lockLost, gaveUp, state,
                 server, changes, requestVars>>

\* ... and ends.
Return == pc = "join" /\ left = {} /\ EndProgram("returned") /\ UNCHANGED signalVars

Main ==
  \/ LoadConfiguration \/ LoadModel \/ LoadingDone \/ BuildPhase2 \/ Bind \/ StartCapture
  \/ StartWatchdog \/ StartPhase2 \/ Serve \/ Guard \/ Wait \/ StopHealth \/ StopPhase2
  \/ JoinPhase2 \/ StopWatchdog \/ JoinWatchdog \/ StopCapture \/ StopBlocks \/ StopRaises
  \/ Close \/ Exit \/ Return

-----------------------------------------------------------------------------
(* Signals.                                                                 *)

Sent == pc \notin Ended /\ signals < MaxSignals(models) /\ signals' = signals + 1

\* SIGTERM or SIGINT in the guarded wait.
Signal ==
  /\ Sent /\ pc = "wait"
  /\ stop' = TRUE
  /\ UNCHANGED <<pc, left, modelVars, phase2Vars, captureVars, state, server, unwound, changes,
                 requestVars>>

\* SIGTERM elsewhere ends the program where it is; SIGINT does when the
\* interpreter is joining the capture processes.
Kill == Sent /\ pc # "wait" /\ EndProgram("killed") /\ UNCHANGED <<stop, unwound>>

\* SIGINT elsewhere is a KeyboardInterrupt.  At both ends of the guarded wait it
\* may fall into the try statement, and the shutdown follows; else main is left.
Interrupt ==
  /\ Sent /\ pc \notin {"wait"} \cup Exiting
  /\ \/ pc' = "exit"
     \/ pc \in {"guard", "stopHealth"} /\ pc' = "stopHealth"
  /\ unwound' = TRUE
  /\ UNCHANGED <<left, modelVars, phase2Vars, captureVars, state, server, stop, changes,
                 requestVars>>

-----------------------------------------------------------------------------
(* Threads of Phase 2, capture processes and the watchdog.                  *)

\* A thread of Phase 2 that was told to stop ends: the scheduler's or the pose
\* worker's.
ThreadEnds ==
  /\ phase2 = "stopped"
  /\ \E r \in inferring : inferring' = inferring \ {r}
  /\ UNCHANGED <<pc, left, modelVars, phase2, outlived, captureVars, state, server, signalVars,
                 changes, requestVars>>

\* A capture process ends: by itself, or by the signal it was sent.
CaptureEnds(c) ==
  /\ c \in captures
  /\ captures' = captures \ {c} /\ dying' = dying \ {c}
  /\ left' = IF pc = "join" THEN left \ {c} ELSE left
  /\ UNCHANGED <<pc, modelVars, phase2Vars, lockLost, watchdog, gaveUp, state, server,
                 signalVars, changes, requestVars>>

\* The watchdog's pass goes on after it was told to stop.
Watching == watchdog \in {"running", "stopping"}

\* The watchdog replaces a process that is dead.
Restart(c) ==
  /\ Watching /\ c \notin captures \cup lockLost
  /\ captures' = captures \cup {c}
  /\ UNCHANGED <<pc, left, modelVars, phase2Vars, dying, lockLost, watchdog, gaveUp, state,
                 server, signalVars, changes, requestVars>>

\* It terminates one that is overdue and outlives the join; or dies inside a
\* health method, with the lock the watchdog needs next.
Terminate(c) ==
  /\ Watching /\ c \in captures
  /\ \/ dying' = dying \cup {c} /\ UNCHANGED <<left, captures, lockLost, watchdog>>
     \/ /\ captures' = captures \ {c} /\ dying' = dying \ {c}
        /\ lockLost' = lockLost \cup {c} /\ watchdog' = "stuck"
        /\ left' = IF pc = "join" THEN left \ {c} ELSE left
  /\ UNCHANGED <<pc, modelVars, phase2Vars, gaveUp, state, server, signalVars, changes,
                 requestVars>>

\* It ends once it was told to, or gets stuck in a snapshot.
WatchdogStops ==
  /\ \/ watchdog = "stopping" /\ watchdog' = "ended"
     \/ Watching /\ lockLost # {} /\ watchdog' = "stuck"
  /\ UNCHANGED <<pc, left, modelVars, phase2Vars, captures, dying, lockLost, gaveUp, state,
                 server, signalVars, changes, requestVars>>

\* The capture process or the watchdog sets the state.
CameraChanges(c, to) ==
  /\ c \in captures \ lockLost /\ changes < MaxChanges(models) /\ to # state[c]
  /\ state' = [state EXCEPT ![c] = to]
  /\ changes' = changes + 1
  /\ was' = IF to = "RUNNING" /\ asked THEN was \cup {c} ELSE was
  /\ UNCHANGED <<pc, left, modelVars, phase2Vars, captureVars, server, signalVars, asked,
                 toRead, running, reply>>

-----------------------------------------------------------------------------
(* A handler thread of the health server.                                   *)

Answers == UNCHANGED <<pc, left, modelVars, phase2Vars, captureVars, state, server, signalVars,
                       changes>>

Request ==
  /\ pc \notin Ended /\ server = "serving" /\ ~asked
  /\ asked' = TRUE /\ toRead' = Cameras /\ running' = {}
  /\ was' = {c \in Cameras : state[c] = "RUNNING"}
  /\ UNCHANGED reply /\ Answers

\* A mutant: a degraded camera is ready as well.
ReadyStateLoose(c) == state[c] \in {"RUNNING", "DEGRADED"}

ReadyState(c) == state[c] = "RUNNING"

\* health_snapshots, one camera after the other; each needs its lock.
ReadCamera ==
  /\ pc \notin Ended /\ asked
  /\ \E c \in toRead \ lockLost :
       /\ \A d \in toRead : c <= d
       /\ running' = IF ReadyState(c) THEN running \cup {c} ELSE running
       /\ toRead' = toRead \ {c}
  /\ UNCHANGED <<asked, reply, was>> /\ Answers

ModelsReady ==
  LET enabled == {m \in DOMAIN models : models[m].enabled}
  IN enabled # {} /\ \A m \in enabled : health[m] = "READY"

ReadModels ==
  /\ pc \notin Ended /\ asked /\ toRead = {}
  /\ asked' = FALSE
  /\ reply' = (Cameras # {} /\ running = Cameras /\ ModelsReady)
  /\ UNCHANGED <<toRead, running, was>> /\ Answers

Next ==
  \/ Main \/ Signal \/ Kill \/ Interrupt
  \/ ThreadEnds \/ WatchdogStops
  \/ \E c \in Cameras : CaptureEnds(c) \/ Restart(c) \/ Terminate(c)
  \/ \E c \in Cameras, to \in States : CameraChanges(c, to)
  \/ Request \/ ReadCamera \/ ReadModels

\* A process that was sent SIGTERM ends.
Dies(c) == c \in dying /\ CaptureEnds(c)

Spec == Init /\ [][Next]_vars /\ WF_vars(Main) /\ \A c \in Cameras : WF_vars(Dies(c))
-----------------------------------------------------------------------------
(***************************************************************************)
(* A ready reply is honest although it is put together from reads at       *)
(* different times: every camera was RUNNING at some time during the       *)
(* request, and every enabled model is READY when it is answered.          *)
(***************************************************************************)
ReadyIsHonest ==
  [][asked /\ ~asked' /\ reply' =>
       was = Cameras /\ \A m \in DOMAIN models : models[m].enabled => m \in open]_vars

(***************************************************************************)
(* However far load_enabled came before a model failed, and wherever a     *)
(* signal or a timed join leaves the shutdown, a thread of Phase 2 has the *)
(* models it runs; unless it outlived the join of the stop, which then     *)
(* went on to close them.                                                  *)
(***************************************************************************)
InferenceBacked ==
  \A r \in inferring : r \in outlived \/ (Enabled(r) # {} /\ Enabled(r) \subseteq open)

(***************************************************************************)
(* A program that is over leaves nothing behind: no health server, no      *)
(* backend of the registry, and no capture process but one that is dying   *)
(* of a signal, for which it waits.  Not so when main was left by an       *)
(* exception, or has given up waiting for the watchdog.                    *)
(***************************************************************************)
ReturnReleases ==
  pc \in Exiting \cup {"returned"} /\ ~unwound /\ ~gaveUp =>
    /\ server # "serving" /\ open = {}
    /\ captures \subseteq dying
    /\ pc = "returned" => captures = {}

(***************************************************************************)
(* Once a signal was handled, the program ends, or one of three things     *)
(* keeps it: the watchdog outlived its join, a health lock is lost, or a   *)
(* second SIGINT has broken off the shutdown.                              *)
(***************************************************************************)
SignalEnds == stop ~> pc \in Ended \/ gaveUp \/ lockLost # {} \/ unwound
=============================================================================
