---------------------------- MODULE EdgeStart_proofs ----------------------------
(***************************************************************************)
(* Proofs about EdgeStart, for any cameras and configurations, and signals *)
(* at any time.                                                            *)
(***************************************************************************)
EXTENDS EdgeStart, SequenceTheorems, TLAPS

\* The type invariant in three parts: of the program and its models, of the
\* cameras, and of the handler thread.
ProgramType ==
  /\ pc \in Places
  /\ models \in Seq(Model) /\ loading \in 1 .. Len(models) + 1
  /\ health \in [DOMAIN models -> {"DISABLED", "UNAVAILABLE", "READY"}]
  /\ open = {m \in DOMAIN models : health[m] = "READY"} /\ stranded \subseteq DOMAIN models
  /\ phase2 \in {"none", "built", "running", "stopped"}
  /\ inferring \subseteq Roles /\ outlived \subseteq Roles

CaptureType ==
  /\ left \subseteq Cameras
  /\ captures \subseteq Cameras /\ dying \subseteq captures /\ lockLost \subseteq Cameras
  /\ watchdog \in {"none", "running", "stopping", "stuck", "ended"}
  /\ server \in {"none", "bound", "serving", "stopped"}
  /\ gaveUp \in BOOLEAN /\ unwound \in BOOLEAN

ServerType ==
  /\ state \in [Cameras -> States]
  /\ running \subseteq Cameras /\ toRead \subseteq Cameras /\ was \subseteq Cameras
  /\ stop \in BOOLEAN /\ asked \in BOOLEAN /\ reply \in BOOLEAN
  /\ signals \in Nat /\ changes \in Nat

LEMMA TypeParts == TypeOK <=> ProgramType /\ CaptureType /\ ServerType
BY DEF TypeOK, ProgramType, CaptureType, ServerType

\* What the place of the main thread tells of the inference: nothing is loaded
\* before there is a configuration, Phase 2 has no thread before it is started, and
\* from the end of its joins only threads that outlived them.
Progress ==
  /\ pc = "config" => models = <<>> /\ loading = 1 /\ open = {} /\ stranded = {}
  /\ pc \in {"config", "load", "build"} => phase2 = "none"
  /\ phase2 \in {"none", "built"} => inferring = {}
  /\ pc \in {"bind", "captures", "phase2"} /\ phase2 = "built" =>
       Enabled("DETECTOR") \cup Enabled("POSE") \subseteq open
  /\ pc \in {"stopWatchdog", "joinWatchdog", "stopCaptures", "blocked"} =>
       inferring \subseteq outlived

\* What it tells of the captures, as far as no exception has left main and the
\* watchdog was joined: the stop loop leaves no process behind it that is not
\* dying, and the exit waits for those.
Stopped ==
  /\ pc \in {"config", "load", "build", "bind"} =>
       captures = {} /\ server = "none" /\ watchdog = "none"
  /\ pc \in {"stopPhase2", "joinPhase2", "stopWatchdog", "joinWatchdog", "stopCaptures",
             "blocked"} => server = "stopped"
  /\ pc = "stopCaptures" /\ ~gaveUp => watchdog = "ended" /\ captures \subseteq left \cup dying
  /\ pc \in Exiting \cup {"returned"} /\ ~unwound /\ ~gaveUp =>
       /\ watchdog \in {"none", "ended"} /\ server # "serving" /\ open = {}
       /\ captures \subseteq dying
       /\ pc = "join" => captures \subseteq left
       /\ pc = "returned" => captures = {}

\* What a handler thread has gathered was so at some time since it began.
Honest ==
  asked =>
    /\ running \subseteq was
    /\ \A c \in Cameras : state[c] = "RUNNING" => c \in was

ProgramInv == ProgramType /\ Progress /\ InferenceBacked

\* The main thread's steps by what they may touch: the models, ...
Loading == LoadConfiguration \/ LoadModel \/ LoadingDone \/ BuildPhase2

\* ... nothing of them, nor of Phase 2, ...
Passing ==
  \/ Bind \/ StartCapture \/ StartWatchdog \/ Serve \/ Guard \/ Wait \/ StopWatchdog
  \/ JoinWatchdog \/ StopCapture \/ StopBlocks \/ StopRaises \/ Exit

\* ... or Phase 2.
Inferring == StartPhase2 \/ StopHealth \/ StopPhase2 \/ JoinPhase2 \/ Close \/ Return

LEMMA MainParts == Main <=> Loading \/ Passing \/ Inferring
BY DEF Main, Loading, Passing, Inferring

-----------------------------------------------------------------------------
(* The models and the threads that run them.                                *)

LEMMA InitProgram ==
  ASSUME Init
  PROVE  ProgramInv
<1>1. Len(models) = 0 /\ DOMAIN models = {} /\ models \in Seq(Model)
  BY DEF Init
<1>2. ProgramType
  BY <1>1 DEF Init, ProgramType, Places
<1>3. QED
  BY <1>2 DEF Init, ProgramInv, Progress, InferenceBacked

\* While the program loads, Phase 2 has no threads.
LEMMA NoThreads ==
  ASSUME phase2' \in {"none", "built"}, inferring' = {}, UNCHANGED outlived,
         pc' \in {"config", "load", "build"} => phase2' = "none",
         pc' \in {"load", "build", "bind", "exit"},
         phase2' = "built" => (Enabled("DETECTOR") \cup Enabled("POSE") \subseteq open)'
  PROVE  Progress' /\ InferenceBacked'
BY DEF Progress, InferenceBacked

\* The configuration is read while nothing is loaded.
LEMMA ConfigurationStep ==
  ASSUME ProgramInv, LoadConfiguration
  PROVE  ProgramInv'
<1>0. phase2' = "none" /\ inferring' = {} /\ UNCHANGED <<phase2, inferring, outlived>>
  BY DEF LoadConfiguration, Loads, phase2Vars, Goes, ProgramInv, Progress
<1>1. CASE Goes("config", "exit") /\ UNCHANGED modelVars
  <2>1. ProgramType'
    BY <1>0, <1>1 DEF ProgramInv, ProgramType, modelVars, Places, Exiting, Goes
  <2>2. Progress' /\ InferenceBacked'
    BY <1>0, <1>1, NoThreads DEF Goes
  <2>3. QED
    BY <2>1, <2>2 DEF ProgramInv
<1>2. CASE \E list \in Configurations :
             /\ Goes("config", "load") /\ models' = list
             /\ health' = [m \in DOMAIN list |->
                             IF list[m].enabled THEN "UNAVAILABLE" ELSE "DISABLED"]
             /\ UNCHANGED <<loading, open, stranded>>
  <2>1. PICK list \in Seq(Model) :
             /\ Goes("config", "load") /\ models' = list
             /\ health' = [m \in DOMAIN list |->
                             IF list[m].enabled THEN "UNAVAILABLE" ELSE "DISABLED"]
             /\ UNCHANGED <<loading, open, stranded>>
    BY <1>2, EdgeStartAssumption
  <2>2. Len(list) \in Nat
    BY LenProperties
  <2>3. loading = 1 /\ open = {} /\ stranded = {}
    BY <2>1 DEF Goes, ProgramInv, Progress
  <2>4. ProgramType'
    BY <1>0, <2>1, <2>2, <2>3 DEF ProgramInv, ProgramType, Places, Goes
  <2>5. Progress' /\ InferenceBacked'
    BY <1>0, <2>1, NoThreads DEF Goes
  <2>6. QED
    BY <2>4, <2>5 DEF ProgramInv
<1>3. QED
  BY <1>1, <1>2 DEF LoadConfiguration

\* A model that loads is READY and held; one that fails ends the loading.
LEMMA LoadStep ==
  ASSUME ProgramInv, LoadModel
  PROVE  ProgramInv'
<1>0. phase2' = "none" /\ inferring' = {} /\ UNCHANGED <<phase2, inferring, outlived>>
  BY DEF LoadModel, Loads, phase2Vars, ProgramInv, Progress
<1>1. /\ Len(models) \in Nat /\ DOMAIN models = 1 .. Len(models)
      /\ loading \in DOMAIN models /\ loading \in Nat
  BY LenProperties DEF LoadModel, ProgramInv, ProgramType
<1>2. models[loading].enabled \in BOOLEAN
  <2>1. models[loading] \in Model
    BY <1>1, ElementOfSeq DEF ProgramInv, ProgramType
  <2>2. QED
    BY <2>1 DEF Model
<1>3. CASE models[loading].enabled /\ models[loading].load = "loads"
  <2>1. /\ health' = [health EXCEPT ![loading] = "READY"] /\ open' = open \cup {loading}
        /\ loading' = loading + 1 /\ pc = "load" /\ UNCHANGED <<pc, stranded, models>>
    BY <1>3 DEF LoadModel
  <2>2. health \in [DOMAIN models -> {"DISABLED", "UNAVAILABLE", "READY"}]
    BY DEF ProgramInv, ProgramType
  <2>3. health' \in [DOMAIN models -> {"DISABLED", "UNAVAILABLE", "READY"}]
    BY <2>1, <2>2
  <2>4. open' = {m \in DOMAIN models : health'[m] = "READY"}
    BY <1>1, <2>1, <2>2 DEF ProgramInv, ProgramType
  <2>5. loading' \in 1 .. Len(models) + 1
    BY <1>1, <2>1
  <2>6. ProgramType'
    BY <1>0, <2>1, <2>3, <2>4, <2>5 DEF ProgramInv, ProgramType
  <2>7. Progress' /\ InferenceBacked'
    BY <1>0, <2>1, NoThreads
  <2>8. QED
    BY <2>6, <2>7 DEF ProgramInv
<1>4. CASE ~models[loading].enabled
  <2>1. /\ health' = health /\ open' = open
        /\ loading' = loading + 1 /\ pc = "load" /\ UNCHANGED <<pc, stranded, models>>
    BY <1>1, <1>4 DEF LoadModel, ProgramInv, ProgramType
  <2>2. loading' \in 1 .. Len(models) + 1
    BY <1>1, <2>1
  <2>3. ProgramType'
    BY <1>0, <2>1, <2>2 DEF ProgramInv, ProgramType
  <2>4. Progress' /\ InferenceBacked'
    BY <1>0, <2>1, NoThreads
  <2>5. QED
    BY <2>3, <2>4 DEF ProgramInv
<1>5. CASE models[loading].enabled /\ models[loading].load # "loads"
  <2>1. /\ stranded' \subseteq stranded \cup {loading} /\ pc' = "build"
        /\ UNCHANGED <<health, open, loading, models>>
    BY <1>5 DEF LoadModel
  <2>2. ProgramType'
    BY <1>0, <1>1, <2>1 DEF ProgramInv, ProgramType, Places
  <2>3. Progress' /\ InferenceBacked'
    BY <1>0, <2>1, NoThreads
  <2>4. QED
    BY <2>2, <2>3 DEF ProgramInv
<1>6. QED
  BY <1>2, <1>3, <1>4, <1>5

\* Phase 2 is built on models that are READY, hence held.
LEMMA BuildStep ==
  ASSUME ProgramInv, BuildPhase2
  PROVE  ProgramInv'
<1>1. /\ pc' = "bind" /\ inferring' = {} /\ phase2' \in {"none", "built"}
      /\ UNCHANGED <<models, loading, health, open, stranded, inferring, outlived>>
  BY DEF BuildPhase2, Goes, modelVars, ProgramInv, Progress
<1>2. ProgramType'
  BY <1>1 DEF ProgramInv, ProgramType, Places
<1>3. ASSUME phase2' = "built"
      PROVE  (Enabled("DETECTOR") \cup Enabled("POSE") \subseteq open)'
  <2>1. \A m \in Enabled("DETECTOR") \cup Enabled("POSE") : Usable(m)
    BY <1>3 DEF BuildPhase2
  <2>2. \A m \in Enabled("DETECTOR") \cup Enabled("POSE") : m \in open
    BY <2>1 DEF Usable, Enabled, ProgramInv, ProgramType
  <2>3. QED
    BY <1>1, <2>2 DEF Enabled
<1>4. Progress' /\ InferenceBacked'
  BY <1>1, <1>3, NoThreads
<1>5. QED
  BY <1>2, <1>4 DEF ProgramInv

LEMMA LoadingStep ==
  ASSUME ProgramInv, Loading
  PROVE  ProgramInv'
<1>1. CASE LoadConfiguration \/ LoadModel \/ BuildPhase2
  BY <1>1, ConfigurationStep, LoadStep, BuildStep
<1>2. CASE LoadingDone
  <2>1. /\ pc' = "build" /\ phase2' = "none" /\ inferring' = {}
        /\ UNCHANGED <<models, loading, health, open, stranded, phase2, inferring, outlived>>
    BY <1>2 DEF LoadingDone, Loads, phase2Vars, modelVars, Goes, ProgramInv, Progress
  <2>2. ProgramType'
    BY <2>1 DEF ProgramInv, ProgramType, Places
  <2>3. Progress' /\ InferenceBacked'
    BY <2>1, NoThreads
  <2>4. QED
    BY <2>2, <2>3 DEF ProgramInv
<1>3. QED
  BY <1>1, <1>2 DEF Loading

\* Where the main thread may go without a word to Phase 2: not back, and past the
\* start or the joins of Phase 2 only from past them.
LEMMA PassingStep ==
  ASSUME ProgramInv, pc' \in Places, pc' \in {"config", "load", "build"} => pc' = pc,
         pc' \in {"bind", "captures", "phase2"} => pc \in {"bind", "captures", "phase2"},
         pc' \in {"stopWatchdog", "joinWatchdog", "stopCaptures", "blocked"} =>
           pc \in {"stopWatchdog", "joinWatchdog", "stopCaptures", "blocked"},
         UNCHANGED <<modelVars, phase2Vars>>
  PROVE  ProgramInv'
<1> USE DEF ProgramInv, modelVars, phase2Vars
<1>1. ProgramType'
  BY DEF ProgramType
<1>2. Enabled("DETECTOR")' = Enabled("DETECTOR") /\ Enabled("POSE")' = Enabled("POSE")
  BY DEF Enabled
<1>3. Progress'
  BY <1>2 DEF Progress
<1>4. InferenceBacked'
  BY DEF InferenceBacked, Enabled
<1>5. QED
  BY <1>1, <1>3, <1>4

\* Phase 2 is started on the models it was built on, and stopped before they are
\* closed, but for the threads that outlive the joins.
LEMMA InferringStep ==
  ASSUME ProgramInv, Inferring
  PROVE  ProgramInv'
<1> USE DEF ProgramInv
<1>1. CASE StartPhase2
  <2>1. pc = "phase2" /\ pc' = "serve" /\ UNCHANGED <<modelVars, outlived>>
    BY <1>1 DEF StartPhase2, Goes
  <2>2. CASE phase2 # "built"
    BY <2>1, <2>2, <1>1, PassingStep DEF StartPhase2, phase2Vars, Places
  <2>3. CASE phase2 = "built"
    <3>1. phase2' = "running" /\ inferring' = {r \in Roles : Enabled(r) # {}}
      BY <1>1, <2>3 DEF StartPhase2
    <3>2. ProgramType'
      BY <2>1, <3>1 DEF ProgramType, modelVars, Places
    <3>3. Progress'
      BY <2>1, <3>1 DEF Progress
    <3>4. \A r \in inferring' : Enabled(r) # {} /\ Enabled(r) \subseteq open
      BY <2>1, <2>3, <3>1 DEF Progress, Roles
    <3>5. InferenceBacked'
      BY <2>1, <3>4 DEF InferenceBacked, Enabled, modelVars
    <3>6. QED
      BY <3>2, <3>3, <3>5
  <2>4. QED
    BY <2>2, <2>3
<1>2. CASE StopHealth
  <2>1. /\ pc' = IF phase2 = "none" THEN "stopWatchdog" ELSE "stopPhase2"
        /\ UNCHANGED <<modelVars, phase2Vars>>
    BY <1>2 DEF StopHealth, StopsHealth
  <2>2. ProgramType'
    BY <2>1 DEF ProgramType, modelVars, phase2Vars, Places
  <2>3. Enabled("DETECTOR")' = Enabled("DETECTOR") /\ Enabled("POSE")' = Enabled("POSE")
    BY <2>1 DEF Enabled, modelVars
  <2>4. Progress'
    BY <2>1, <2>3 DEF Progress, modelVars, phase2Vars
  <2>5. InferenceBacked'
    BY <2>1 DEF InferenceBacked, Enabled, modelVars, phase2Vars
  <2>6. QED
    BY <2>2, <2>4, <2>5
<1>3. CASE StopPhase2 \/ JoinPhase2
  <2>1. /\ \/ /\ pc' = "joinPhase2" /\ phase2' = "stopped"
              /\ UNCHANGED <<inferring, outlived>>
           \/ /\ pc' = "stopWatchdog" /\ outlived' = inferring
              /\ UNCHANGED <<phase2, inferring>>
        /\ UNCHANGED modelVars
    BY <1>3 DEF StopPhase2, StopsPhase2, JoinPhase2, Goes
  <2>2. ProgramType'
    BY <2>1 DEF ProgramType, modelVars, Places
  <2>3. Enabled("DETECTOR")' = Enabled("DETECTOR") /\ Enabled("POSE")' = Enabled("POSE")
    BY <2>1 DEF Enabled, modelVars
  <2>4. Progress'
    BY <2>1, <2>3 DEF Progress, modelVars
  <2>5. InferenceBacked'
    BY <2>1 DEF InferenceBacked, Enabled, modelVars
  <2>6. QED
    BY <2>2, <2>4, <2>5
<1>4. CASE Close
  <2>1. /\ pc = "stopCaptures" /\ pc' = "exit" /\ open' = {}
        /\ health' = [m \in DOMAIN models |->
                        IF models[m].enabled THEN "UNAVAILABLE" ELSE "DISABLED"]
        /\ UNCHANGED <<models, loading, stranded, phase2, inferring, outlived>>
    BY <1>4 DEF Close, Goes, phase2Vars
  <2>2. ProgramType'
    BY <2>1 DEF ProgramType, Places, Exiting
  <2>3. inferring \subseteq outlived
    BY <2>1 DEF Progress
  <2>4. InferenceBacked'
    BY <2>1, <2>3 DEF InferenceBacked
  <2>5. Progress'
    BY <2>1 DEF Progress
  <2>6. QED
    BY <2>2, <2>4, <2>5
<1>5. CASE Return
  <2>1. pc' = "returned" /\ inferring' = {} /\ UNCHANGED <<modelVars, phase2, outlived>>
    BY <1>5 DEF Return, EndProgram
  <2>2. ProgramType'
    BY <2>1 DEF ProgramType, modelVars, Places, Ended
  <2>3. Enabled("DETECTOR")' = Enabled("DETECTOR") /\ Enabled("POSE")' = Enabled("POSE")
    BY <2>1 DEF Enabled, modelVars
  <2>4. Progress' /\ InferenceBacked'
    BY <2>1, <2>3 DEF Progress, InferenceBacked, modelVars
  <2>5. QED
    BY <2>2, <2>4
<1>6. QED
  BY <1>1, <1>2, <1>3, <1>4, <1>5 DEF Inferring

\* Signals leave the models and Phase 2 alone, or end the program and its threads.
LEMMA SignalStep ==
  ASSUME ProgramInv, Signal \/ Kill \/ Interrupt
  PROVE  ProgramInv'
<1>1. CASE Signal
  <2>1. pc' = "wait" /\ UNCHANGED <<modelVars, phase2Vars>>
    BY <1>1 DEF Signal
  <2>2. QED
    BY <2>1, PassingStep DEF Places
<1>2. CASE Interrupt
  <2>1. pc' \in {"exit", "stopHealth"} /\ UNCHANGED <<modelVars, phase2Vars>>
    BY <1>2 DEF Interrupt
  <2>2. QED
    BY <2>1, PassingStep DEF Places, Exiting
<1>3. CASE Kill
  <2>1. pc' = "killed" /\ inferring' = {} /\ UNCHANGED <<modelVars, phase2, outlived>>
    BY <1>3 DEF Kill, EndProgram
  <2>2. ProgramType'
    BY <2>1 DEF ProgramInv, ProgramType, modelVars, Places, Ended
  <2>3. Progress' /\ InferenceBacked'
    BY <2>1 DEF ProgramInv, Progress, InferenceBacked
  <2>4. QED
    BY <2>2, <2>3 DEF ProgramInv
<1>4. QED
  BY <1>1, <1>2, <1>3

\* A thread of Phase 2 that ends takes nothing from the others.
LEMMA ThreadStep ==
  ASSUME ProgramInv, ThreadEnds
  PROVE  ProgramInv'
<1>1. inferring' \subseteq inferring /\ UNCHANGED <<pc, modelVars, phase2, outlived>>
  BY DEF ThreadEnds
<1>2. ProgramType'
  BY <1>1 DEF ProgramInv, ProgramType, modelVars
<1>3. Enabled("DETECTOR")' = Enabled("DETECTOR") /\ Enabled("POSE")' = Enabled("POSE")
  BY <1>1 DEF Enabled, modelVars
<1>4. Progress'
  BY <1>1, <1>3 DEF ProgramInv, Progress, modelVars
<1>5. InferenceBacked'
  BY <1>1 DEF ProgramInv, InferenceBacked, Enabled, modelVars
<1>6. QED
  BY <1>2, <1>4, <1>5 DEF ProgramInv

LEMMA ProgramStep ==
  ASSUME ProgramInv, [Next]_vars
  PROVE  ProgramInv'
<1>1. CASE Loading \/ Inferring
  BY <1>1, LoadingStep, InferringStep
<1>2. CASE Passing
  <2>1. UNCHANGED <<modelVars, phase2Vars>>
    BY <1>2 DEF Passing, Bind, StartCapture, StartWatchdog, Serve, Guard, Wait, Moves,
                StopWatchdog, JoinWatchdog, WatchdogJoined, StopCapture, StopBlocks, StopRaises,
                StopsCapture, Exit
  <2>2. \/ pc = "bind" /\ pc' \in {"captures", "exit"}
        \/ pc = "captures" /\ pc' \in {"captures", "phase2"}
        \/ pc = "serve" /\ pc' = "guard"
        \/ pc = "guard" /\ pc' = "wait"
        \/ pc = "wait" /\ pc' = "stopHealth"
        \/ pc = "stopWatchdog" /\ pc' = "joinWatchdog"
        \/ pc = "joinWatchdog" /\ pc' = "stopCaptures"
        \/ pc = "stopCaptures" /\ pc' \in {"stopCaptures", "blocked", "exit"}
        \/ pc = "exit" /\ pc' = "join"
    BY <1>2 DEF Passing, Bind, StartCapture, StartWatchdog, Serve, Guard, Wait,
                StopWatchdog, JoinWatchdog, WatchdogJoined, StopCapture, StopBlocks, StopRaises,
                Exit, Goes
  <2>3. QED
    BY <2>1, <2>2, PassingStep DEF Places, Exiting
<1>3. CASE Signal \/ Kill \/ Interrupt
  BY <1>3, SignalStep
<1>4. CASE ThreadEnds
  BY <1>4, ThreadStep
<1>5. CASE UNCHANGED <<pc, modelVars, phase2Vars>>
  BY <1>5, PassingStep DEF ProgramInv, ProgramType
<1>6. QED
  BY <1>1, <1>2, <1>3, <1>4, <1>5, MainParts
     DEF Next, WatchdogStops, CaptureEnds, Restart, Terminate, CameraChanges, Request,
         ReadCamera, ReadModels, Answers, vars

-----------------------------------------------------------------------------
(* The captures.                                                            *)

CaptureInv == CaptureType /\ Stopped

LEMMA InitCaptures ==
  ASSUME Init
  PROVE  CaptureInv
BY DEF Init, CaptureInv, CaptureType, Stopped, Exiting

\* Before the watchdog is joined nothing is promised of the captures, and the
\* start finds none.
LEMMA StartStep ==
  ASSUME CaptureInv, ProgramInv, Loading \/ Bind \/ StartCapture \/ StartWatchdog \/ StartPhase2
                                   \/ Serve \/ Guard \/ Wait
  PROVE  CaptureInv'
<1> USE DEF CaptureInv, Goes
<1>1. CASE Loading
  <2>1. /\ UNCHANGED <<left, captures, dying, lockLost, watchdog, gaveUp, server, unwound>>
        /\ pc \in {"config", "load", "build"}
        /\ \/ pc' \in {"load", "build", "bind"}
           \/ pc' = "exit" /\ pc = "config" /\ open' = open
    BY <1>1 DEF Loading, LoadConfiguration, LoadModel, LoadingDone, BuildPhase2, Loads,
                captureVars, signalVars, modelVars
  <2>2. CaptureType'
    BY <2>1 DEF CaptureType
  <2>3. pc = "config" => open = {}
    BY DEF ProgramInv, Progress
  <2>4. Stopped'
    BY <2>1, <2>3 DEF Stopped, Exiting
  <2>5. QED
    BY <2>2, <2>4
<1>2. CASE Bind
  <2>1. CaptureType'
    BY <1>2 DEF Bind, CaptureType, captureVars
  <2>2. Stopped'
    BY <1>2 DEF Bind, Stopped, Exiting, captureVars
  <2>3. QED
    BY <2>1, <2>2
<1>3. CASE StartCapture \/ StartWatchdog
  <2>1. CaptureType'
    BY <1>3 DEF StartCapture, StartWatchdog, CaptureType, signalVars
  <2>2. Stopped'
    BY <1>3 DEF StartCapture, StartWatchdog, Stopped, Exiting
  <2>3. QED
    BY <2>1, <2>2
<1>4. CASE StartPhase2 \/ Serve \/ Guard \/ Wait
  <2>1. /\ UNCHANGED <<left, captures, dying, lockLost, watchdog, gaveUp, unwound>>
        /\ server' \in {server, "serving"}
        /\ pc' \in {"serve", "guard", "wait", "stopHealth"}
    BY <1>4 DEF StartPhase2, Serve, Guard, Wait, Moves, captureVars, signalVars
  <2>2. CaptureType'
    BY <2>1 DEF CaptureType
  <2>3. Stopped'
    BY <2>1 DEF Stopped, Exiting
  <2>4. QED
    BY <2>2, <2>3
<1>5. QED
  BY <1>1, <1>2, <1>3, <1>4

\* The stop: once the watchdog is joined, a process that a worker's stop() leaves
\* is dying, and nobody starts another.
LEMMA StopStep ==
  ASSUME CaptureInv, Main
  PROVE  \/ Loading \/ Bind \/ StartCapture \/ StartWatchdog \/ StartPhase2
         \/ Serve \/ Guard \/ Wait \/ CaptureInv'
<1> USE DEF CaptureInv, Goes
<1>1. CASE StopHealth \/ StopPhase2 \/ JoinPhase2 \/ StopWatchdog
  <2>1. /\ UNCHANGED <<left, captures, dying, lockLost, gaveUp, unwound>>
        /\ watchdog' \in {watchdog, "stopping"}
        /\ pc' \in {"stopPhase2", "joinPhase2", "stopWatchdog", "joinWatchdog"}
        /\ server' = "stopped"
    BY <1>1 DEF StopHealth, StopsHealth, StopPhase2, StopsPhase2, JoinPhase2, StopWatchdog,
                captureVars, signalVars, Stopped
  <2>2. CaptureType'
    BY <2>1 DEF CaptureType
  <2>3. Stopped'
    BY <2>1 DEF Stopped, Exiting
  <2>4. QED
    BY <2>2, <2>3
<1>2. CASE JoinWatchdog
  <2>1. /\ pc = "joinWatchdog" /\ pc' = "stopCaptures" /\ left' = Cameras
        /\ gaveUp' = (watchdog # "ended")
        /\ UNCHANGED <<captures, dying, lockLost, watchdog, server, unwound>>
    BY <1>2 DEF JoinWatchdog, WatchdogJoined, signalVars
  <2>2. CaptureType'
    BY <2>1 DEF CaptureType
  <2>3. Stopped'
    BY <2>1 DEF Stopped, Exiting, CaptureType
  <2>4. QED
    BY <2>2, <2>3
<1>3. CASE StopCapture
  <2>1. PICK c \in Cameras :
          /\ \/ captures' = captures \ {c} /\ dying' = dying \ {c}
             \/ c \in captures /\ dying' = dying \cup {c} /\ UNCHANGED captures
          /\ left' = left \ {c}
    BY <1>3 DEF StopCapture
  <2>2. /\ pc = "stopCaptures" /\ pc' = "stopCaptures"
        /\ UNCHANGED <<lockLost, unwound, watchdog, gaveUp, server>>
    BY <1>3 DEF StopCapture, StopsCapture
  <2>3. CaptureType'
    BY <2>1, <2>2 DEF CaptureType
  <2>4. Stopped'
    BY <2>1, <2>2 DEF Stopped, Exiting
  <2>5. QED
    BY <2>3, <2>4
<1>4. CASE StopBlocks
  <2>1. PICK c \in captures \cup lockLost :
          captures' = captures \ {c} /\ dying' = dying \ {c} /\ lockLost' = lockLost \cup {c}
    BY <1>4 DEF StopBlocks
  <2>2. /\ pc = "stopCaptures" /\ pc' = "blocked"
        /\ UNCHANGED <<left, unwound, watchdog, gaveUp, server>>
    BY <1>4 DEF StopBlocks, StopsCapture
  <2>3. CaptureType'
    BY <2>1, <2>2 DEF CaptureType
  <2>4. Stopped'
    BY <2>2 DEF Stopped, Exiting
  <2>5. QED
    BY <2>3, <2>4
<1>5. CASE StopRaises
  <2>1. /\ pc' = "exit" /\ unwound'
        /\ UNCHANGED <<left, captures, dying, lockLost, watchdog, gaveUp, server>>
    BY <1>5 DEF StopRaises, StopsCapture
  <2>2. unwound' \in BOOLEAN
    BY <1>5 DEF StopRaises
  <2>3. CaptureType'
    BY <2>1, <2>2 DEF CaptureType
  <2>4. Stopped'
    BY <2>1 DEF Stopped, Exiting
  <2>5. QED
    BY <2>3, <2>4
<1>6. CASE Close
  <2>1. /\ pc = "stopCaptures" /\ left = {} /\ pc' = "exit" /\ open' = {}
        /\ UNCHANGED <<left, captures, dying, lockLost, watchdog, gaveUp, server, unwound>>
    BY <1>6 DEF Close, captureVars, signalVars
  <2>2. CaptureType'
    BY <2>1 DEF CaptureType
  <2>3. Stopped'
    BY <2>1 DEF Stopped, Exiting
  <2>4. QED
    BY <2>2, <2>3
<1>7. CASE Exit
  <2>1. /\ pc = "exit" /\ pc' = "join" /\ left' = captures
        /\ UNCHANGED <<open, captures, dying, lockLost, watchdog, gaveUp, server, unwound>>
    BY <1>7 DEF Exit, captureVars, signalVars, modelVars
  <2>2. CaptureType'
    BY <2>1 DEF CaptureType
  <2>3. Stopped'
    BY <2>1 DEF Stopped, Exiting
  <2>4. QED
    BY <2>2, <2>3
<1>8. CASE Return
  <2>1. /\ pc = "join" /\ left = {} /\ pc' = "returned" /\ watchdog' = "ended"
        /\ UNCHANGED <<open, left, captures, dying, lockLost, gaveUp, server, unwound>>
    BY <1>8 DEF Return, EndProgram, signalVars, modelVars
  <2>2. CaptureType'
    BY <2>1 DEF CaptureType
  <2>3. Stopped'
    BY <2>1 DEF Stopped, Exiting
  <2>4. QED
    BY <2>2, <2>3
<1>9. QED
  BY <1>1, <1>2, <1>3, <1>4, <1>5, <1>6, <1>7, <1>8 DEF Main, Loading

\* The processes and the watchdog: nothing starts one when the watchdog has ended.
LEMMA WatchStep ==
  ASSUME CaptureInv, NEW c \in Cameras,
         CaptureEnds(c) \/ Restart(c) \/ Terminate(c) \/ WatchdogStops
  PROVE  CaptureInv'
<1> USE DEF CaptureInv
<1>1. CASE CaptureEnds(c)
  <2>1. /\ captures' = captures \ {c} /\ dying' = dying \ {c}
        /\ left' = IF pc = "join" THEN left \ {c} ELSE left
        /\ UNCHANGED <<pc, open, lockLost, watchdog, gaveUp, server, unwound>>
    BY <1>1 DEF CaptureEnds, modelVars, signalVars
  <2>2. CaptureType'
    BY <2>1 DEF CaptureType
  <2>3. Stopped'
    BY <2>1 DEF Stopped, Exiting
  <2>4. QED
    BY <2>2, <2>3
<1>2. CASE Restart(c) \/ Terminate(c)
  <2>1. /\ watchdog \in {"running", "stopping"} /\ watchdog' \in {watchdog, "stuck"}
        /\ UNCHANGED <<pc, open, gaveUp, server, unwound>>
    BY <1>2 DEF Restart, Terminate, Watching, modelVars, signalVars
  <2>2. CaptureType'
    BY <1>2, <2>1 DEF Restart, Terminate, CaptureType
  <2>3. Stopped'
    BY <2>1 DEF Stopped, Exiting
  <2>4. QED
    BY <2>2, <2>3
<1>3. CASE WatchdogStops
  <2>1. /\ watchdog \in {"running", "stopping"} /\ watchdog' \in {"stuck", "ended"}
        /\ UNCHANGED <<pc, open, left, captures, dying, lockLost, gaveUp, server, unwound>>
    BY <1>3 DEF WatchdogStops, Watching, modelVars, signalVars
  <2>2. CaptureType'
    BY <2>1 DEF CaptureType
  <2>3. Stopped'
    BY <2>1 DEF Stopped, Exiting
  <2>4. QED
    BY <2>2, <2>3
<1>4. QED
  BY <1>1, <1>2, <1>3

LEMMA CaptureStep ==
  ASSUME CaptureInv, ProgramInv, [Next]_vars
  PROVE  CaptureInv'
<1>1. CASE Main
  BY <1>1, StartStep, StopStep
<1>2. ASSUME NEW c \in Cameras, CaptureEnds(c) \/ Restart(c) \/ Terminate(c)
      PROVE  CaptureInv'
  BY <1>2, WatchStep
<1>3. CASE WatchdogStops
  <2>1. CASE Cameras # {}
    BY <1>3, <2>1, WatchStep
  <2>2. CASE Cameras = {}
    <3>1. /\ watchdog \in {"running", "stopping"} /\ watchdog' \in {"stuck", "ended"}
          /\ UNCHANGED <<pc, open, left, captures, dying, lockLost, gaveUp, server, unwound>>
      BY <1>3 DEF WatchdogStops, Watching, modelVars, signalVars
    <3>2. CaptureType' /\ Stopped'
      BY <3>1 DEF CaptureInv, CaptureType, Stopped, Exiting
    <3>3. QED
      BY <3>2 DEF CaptureInv
  <2>3. QED
    BY <2>1, <2>2
<1>4. CASE Signal \/ Kill \/ Interrupt
  <2>1. /\ UNCHANGED <<left, captures, dying, lockLost, gaveUp, server>>
        /\ pc' \in {"wait", "killed", "exit", "stopHealth"}
        /\ watchdog' \in {watchdog, "ended"}
        /\ unwound' \in {TRUE, unwound} /\ (pc' = "exit" => unwound')
    BY <1>4 DEF Signal, Kill, Interrupt, EndProgram, captureVars
  <2>2. CaptureType'
    BY <2>1 DEF CaptureInv, CaptureType
  <2>3. Stopped'
    BY <2>1 DEF CaptureInv, Stopped, Exiting
  <2>4. QED
    BY <2>2, <2>3 DEF CaptureInv
<1>5. CASE UNCHANGED <<pc, open, left, captureVars, server, unwound>>
  BY <1>5 DEF CaptureInv, CaptureType, Stopped, captureVars
<1>6. QED
  BY <1>1, <1>2, <1>3, <1>4, <1>5
     DEF Next, ThreadEnds, CameraChanges, Request, ReadCamera, ReadModels, Answers, vars,
         modelVars, signalVars

-----------------------------------------------------------------------------
(* The handler thread.                                                      *)

LEMMA ServerStep ==
  ASSUME ServerType, Honest, [Next]_vars
  PROVE  ServerType' /\ Honest'
<1> USE DEF requestVars, vars
<1>1. CASE StopCapture
  <2>1. PICK c \in Cameras : state' = [state EXCEPT ![c] = "STOPPED"]
    BY <1>1 DEF StopCapture
  <2>2. UNCHANGED <<stop, signals, changes, asked, toRead, running, reply, was>>
    BY <1>1 DEF StopCapture, StopsCapture
  <2>3. state' \in [Cameras -> States]
    BY <2>1 DEF ServerType, States
  <2>4. QED
    BY <2>1, <2>2, <2>3 DEF ServerType, Honest
<1>2. CASE Main /\ ~StopCapture
  <2>1. UNCHANGED <<state, stop, signals, changes, asked, toRead, running, reply, was>>
    BY <1>2 DEF Main, LoadConfiguration, LoadModel, LoadingDone, Loads, BuildPhase2, Bind,
                StartCapture, StartWatchdog, StartPhase2, Serve, Guard, Wait, Moves, StopHealth,
                StopsHealth, StopPhase2, StopsPhase2, JoinPhase2, StopWatchdog, JoinWatchdog,
                WatchdogJoined, StopBlocks, StopRaises, StopsCapture, Close, Exit, Return,
                EndProgram, signalVars
  <2>2. QED
    BY <2>1 DEF ServerType, Honest
<1>3. CASE Signal \/ Kill \/ Interrupt
  <2>1. signals' \in Nat
    BY <1>3 DEF Signal, Kill, Interrupt, Sent, ServerType
  <2>2. /\ stop' \in {stop, TRUE}
        /\ UNCHANGED <<state, changes, asked, toRead, running, reply, was>>
    BY <1>3 DEF Signal, Kill, Interrupt, EndProgram
  <2>3. QED
    BY <2>1, <2>2 DEF ServerType, Honest
<1>4. ASSUME NEW c \in Cameras, NEW to \in States, CameraChanges(c, to)
      PROVE  ServerType' /\ Honest'
  <2>1. /\ state' = [state EXCEPT ![c] = to]
        /\ was' = IF to = "RUNNING" /\ asked THEN was \cup {c} ELSE was
        /\ UNCHANGED <<stop, signals, asked, toRead, running, reply>>
    BY <1>4 DEF CameraChanges, signalVars
  <2>2. changes' \in Nat
    BY <1>4 DEF CameraChanges, ServerType
  <2>3. ServerType'
    BY <2>1, <2>2 DEF ServerType
  <2>4. Honest'
    <3>1. ASSUME asked, NEW d \in Cameras, state'[d] = "RUNNING"
          PROVE  d \in was'
      BY <2>1, <3>1 DEF ServerType, Honest
    <3>2. asked => running \subseteq was'
      BY <2>1 DEF Honest
    <3>3. QED
      BY <2>1, <3>1, <3>2 DEF Honest
  <2>5. QED
    BY <2>3, <2>4
<1>5. CASE Request
  BY <1>5 DEF Request, Answers, ServerType, Honest, signalVars
<1>6. CASE ReadCamera
  <2>1. PICK c \in toRead :
          /\ running' = IF ReadyState(c) THEN running \cup {c} ELSE running
          /\ toRead' = toRead \ {c}
    BY <1>6 DEF ReadCamera
  <2>2. asked /\ UNCHANGED <<state, stop, signals, changes, asked, reply, was>>
    BY <1>6 DEF ReadCamera, Answers, signalVars
  <2>3. ReadyState(c) => c \in was
    BY <2>1, <2>2 DEF ReadyState, ServerType, Honest
  <2>4. ServerType'
    BY <2>1, <2>2 DEF ServerType
  <2>5. Honest'
    BY <2>1, <2>2, <2>3 DEF Honest
  <2>6. QED
    BY <2>4, <2>5
<1>7. CASE ReadModels
  BY <1>7 DEF ReadModels, Answers, ServerType, Honest, signalVars
<1>8. CASE UNCHANGED <<state, stop, signals, changes, requestVars>>
  BY <1>8 DEF ServerType, Honest
<1>9. QED
  BY <1>1, <1>2, <1>3, <1>4, <1>5, <1>6, <1>7, <1>8
     DEF Next, ThreadEnds, WatchdogStops, CaptureEnds, Restart, Terminate, signalVars

-----------------------------------------------------------------------------
\* The inductive invariant of the module.
StartInv == ProgramInv /\ CaptureInv /\ ServerType /\ Honest

LEMMA StartInvariant == Spec => []StartInv
<1>1. Init => StartInv
  <2>1. ASSUME Init
        PROVE  ServerType /\ Honest
    <3>1. signals \in Nat /\ changes \in Nat
      BY <2>1 DEF Init
    <3>2. QED
      BY <2>1, <3>1 DEF Init, ServerType, Honest, States
  <2>2. QED
    BY <2>1, InitProgram, InitCaptures DEF StartInv
<1>2. StartInv /\ [Next]_vars => StartInv'
  BY ProgramStep, CaptureStep, ServerStep DEF StartInv
<1>3. QED
  BY <1>1, <1>2, PTL DEF Spec

\* Every variable of the entry point keeps its type; a model's backend is held
\* exactly while the model is READY.
THEOREM TypeCorrect == Spec => []TypeOK
<1>1. StartInv => TypeOK
  BY TypeParts DEF StartInv, ProgramInv, CaptureInv
<1>2. QED
  BY <1>1, StartInvariant, PTL

\* For every configuration, however far load_enabled came, and with signals at any
\* time: a thread of Phase 2 has the models it runs, or has outlived the timed join
\* of Phase2Runtime.stop.
THEOREM PhaseTwoBacked == Spec => []InferenceBacked
<1>1. StartInv => InferenceBacked
  BY DEF StartInv, ProgramInv
<1>2. QED
  BY <1>1, StartInvariant, PTL

\* A program that no exception left and that has joined its watchdog has closed its
\* health server and its registry, and ends without a capture process.
THEOREM ReturnsClean == Spec => []ReturnReleases
<1>1. StartInv => ReturnReleases
  BY DEF StartInv, CaptureInv, Stopped, ReturnReleases
<1>2. QED
  BY <1>1, StartInvariant, PTL

\* A ready reply, put together from reads at different times, never names a camera
\* that was not RUNNING during the request, nor a model that is not held.
THEOREM ReadyHonest == Spec => ReadyIsHonest
<1>1. StartInv /\ [Next]_vars =>
        [asked /\ ~asked' /\ reply' =>
           was = Cameras /\ \A m \in DOMAIN models : models[m].enabled => m \in open]_vars
  <2> SUFFICES ASSUME StartInv, Next, asked, ~asked', reply'
               PROVE  was = Cameras /\ \A m \in DOMAIN models : models[m].enabled => m \in open
    OBVIOUS
  <2>1. ReadModels
    BY DEF Next, Main, LoadConfiguration, LoadModel, LoadingDone, Loads, BuildPhase2, Bind,
           StartCapture, StartWatchdog, StartPhase2, Serve, Guard, Wait, Moves, StopHealth,
           StopsHealth, StopPhase2, StopsPhase2, JoinPhase2, StopWatchdog, JoinWatchdog,
           WatchdogJoined, StopCapture, StopBlocks, StopRaises, StopsCapture, Close, Exit,
           Return, EndProgram, Signal, Kill, Interrupt, ThreadEnds, WatchdogStops, CaptureEnds,
           Restart, Terminate, CameraChanges, Request, ReadCamera, Answers, requestVars
  <2>2. running = Cameras /\ ModelsReady
    BY <2>1 DEF ReadModels, StartInv, ServerType
  <2>3. was = Cameras
    BY <2>2 DEF StartInv, ServerType, Honest
  <2>4. \A m \in DOMAIN models : models[m].enabled => m \in open
    BY <2>2 DEF ModelsReady, StartInv, ProgramInv, ProgramType
  <2>5. QED
    BY <2>3, <2>4
<1>2. QED
  BY <1>1, StartInvariant, PTL DEF Spec, ReadyIsHonest
=============================================================================
