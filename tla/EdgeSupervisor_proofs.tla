------------------------ MODULE EdgeSupervisor_proofs ------------------------
(***************************************************************************)
(* Proofs about EdgeSupervisor, for any number of cameras, any timeout and *)
(* any faults of the devices.                                              *)
(***************************************************************************)
EXTENDS EdgeSupervisor, TLAPS

\* The type invariant in three parts: of the two threads, of the capture
\* processes, and of the ages.
ThreadType ==
  /\ at \in [Threads -> Locations]
  /\ on \in [Threads -> Cameras]
  /\ overdue \in BOOLEAN
  /\ stopping \in BOOLEAN
  /\ gaveUp \in BOOLEAN

ProcessType ==
  /\ process \in [Cameras -> Places]
  /\ event \in [Cameras -> BOOLEAN]
  /\ health \in [Cameras -> States]
  /\ killed \in SUBSET Cameras
  /\ lockLost \in SUBSET Cameras
  /\ late \in SUBSET Cameras

ClockType ==
  /\ silence \in [Cameras -> -1 .. Timeout + 1]
  /\ uptime \in [Cameras -> 0 .. Timeout + 1]

\* The type invariant is its three parts.
LEMMA TypeParts == TypeOK <=> ThreadType /\ ProcessType /\ ClockType
BY DEF TypeOK, ThreadType, ProcessType, ClockType

\* A thread that moves, or goes on to the next camera, keeps its type.
LEMMA MoveType ==
  ASSUME ThreadType, NEW t \in Threads, NEW location \in Locations, Move(t, location)
  PROVE  at' \in [Threads -> Locations]
BY DEF ThreadType, Move

LEMMA AdvanceType ==
  ASSUME ThreadType, NEW t \in Threads, NEW first \in Locations, NEW after \in Locations,
         Advance(t, first, after)
  PROVE  at' \in [Threads -> Locations] /\ on' \in [Threads -> Cameras]
<1>1. at' \in [Threads -> Locations]
  BY MoveType DEF Advance
<1>2. on' \in [Threads -> Cameras]
  <2>1. \A c \in Cameras : c < NumCameras => c + 1 \in Cameras
    BY SupervisorAssumption DEF Cameras
  <2>2. 1 \in Cameras
    BY SupervisorAssumption DEF Cameras
  <2>3. on[t] \in Cameras
    BY DEF ThreadType
  <2>4. QED
    BY <2>1, <2>2, <2>3 DEF Advance, ThreadType
<1>3. QED
  BY <1>1, <1>2

\* Every step keeps the threads in their places.
LEMMA ThreadTypeStep ==
  ASSUME ThreadType, [Next]_vars
  PROVE  ThreadType'
<1> USE DEF processVars, threadVars, vars
<1>1. CASE UNCHANGED threadVars
  BY <1>1 DEF ThreadType
<1>2. ASSUME NEW t \in Threads, Worker(t)
      PROVE  ThreadType'
  <2>1. CASE Start(t)
    <3>1. at' \in [Threads -> Locations] /\ on' \in [Threads -> Cameras]
      <4>1. CASE Alive(on[t])
        BY <2>1, <4>1, AdvanceType DEF Start, NextToStart, Locations
      <4>2. CASE ~Alive(on[t])
        BY <2>1, <4>2, MoveType DEF Start, Locations, ThreadType
      <4>3. QED
        BY <4>1, <4>2
    <3>2. QED
      BY <2>1, <3>1 DEF Start, ThreadType
  <2>2. CASE Spawn(t)
    <3>1. at' \in [Threads -> Locations] /\ on' \in [Threads -> Cameras]
      BY <2>2, AdvanceType DEF Spawn, NextToStart, Locations
    <3>2. QED
      BY <2>2, <3>1 DEF Spawn, ThreadType
  <2>3. CASE SetEvent(t)
    BY <2>3, MoveType DEF SetEvent, ThreadType, Locations
  <2>4. CASE Join(t)
    BY <2>4, MoveType DEF Join, ThreadType, Locations
  <2>5. CASE AskAlive(t)
    BY <2>5, MoveType DEF AskAlive, ThreadType, Locations
  <2>6. CASE Reap(t) \/ Terminate(t)
    BY <2>6, MoveType DEF Reap, Terminate, ThreadType, Locations
  <2>7. CASE Mark(t)
    <3>1. at' \in [Threads -> Locations] /\ on' \in [Threads -> Cameras]
      <4>1. CASE t = "main"
        BY <2>7, <4>1, AdvanceType DEF Mark, Locations
      <4>2. CASE t # "main"
        BY <2>7, <4>2, MoveType DEF Mark, Locations, ThreadType
      <4>3. QED
        BY <4>1, <4>2
    <3>2. QED
      BY <2>7, <3>1 DEF Mark, ThreadType
  <2>8. CASE MarkReconnect(t)
    BY <2>8, MoveType DEF MarkReconnect, ThreadType, Locations
  <2>9. QED
    BY <1>2, <2>1, <2>2, <2>3, <2>4, <2>5, <2>6, <2>7, <2>8 DEF Worker
<1>3. CASE Wake \/ Snapshot
  BY <1>3, MoveType DEF Wake, Snapshot, ThreadType, Locations, Threads
<1>4. CASE Decide
  <2>1. at' \in [Threads -> Locations] /\ on' \in [Threads -> Cameras]
    <3>1. CASE ~Alive(on["watchdog"]) \/ overdue
      BY <1>4, <3>1, MoveType DEF Decide, ThreadType, Locations, Threads
    <3>2. CASE ~(~Alive(on["watchdog"]) \/ overdue)
      BY <1>4, <3>2, AdvanceType DEF Decide, Locations, Threads
    <3>3. QED
      BY <3>1, <3>2
  <2>2. QED
    BY <1>4, <2>1 DEF Decide, ThreadType
<1>5. CASE Begin \/ Serve \/ Stop \/ Await
  BY <1>5, MoveType DEF Begin, Serve, Stop, Await, ThreadType, Locations, Threads
<1>6. CASE \E c \in Cameras : Runs(c) \/ Die(c)
  BY <1>1, <1>6 DEF Runs, Die, Boot, TestStop, Open, OpenRefused, Read, Mismatch, ReadFails,
     Disconnect, Reconnect, Finish, Hang, Crash, Go
<1>7. CASE Tick
  BY <1>1, <1>7 DEF Tick
<1>8. QED
  <2>1. "main" \in Threads /\ "watchdog" \in Threads
    BY DEF Threads
  <2>2. CASE Next
    BY <1>2, <1>3, <1>4, <1>5, <1>6, <1>7, <2>1, <2>2 DEF Next, Serving, Watchdog, Main
  <2>3. CASE UNCHANGED vars
    BY <1>1, <2>3
  <2>4. QED
    BY <2>2, <2>3
-----------------------------------------------------------------------------
\* What a capture process does changes its own variables within their types.
LEMMA RunsType ==
  ASSUME ProcessType, ClockType, NEW c \in Cameras, Runs(c)
  PROVE  ProcessType' /\ ClockType'
<1> USE DEF processVars, threadVars, vars
<1>1. ASSUME NEW place \in Places, Go(c, place)
      PROVE  /\ process' \in [Cameras -> Places]
             /\ UNCHANGED <<event, uptime, killed, lockLost>>
  BY <1>1 DEF Go, ProcessType
<1>2. ASSUME NEW state \in States, SetState(c, state)
      PROVE  health' \in [Cameras -> States]
  BY <1>2 DEF SetState, ProcessType
<1>3. CASE Boot(c) \/ Disconnect(c) \/ Reconnect(c) \/ Finish(c) \/ OpenRefused(c)
        \/ ReadFails(c) \/ Mismatch(c)
  <2>1. /\ \E place \in Places : Go(c, place)
        /\ \E state \in States : SetState(c, state)
        /\ NoSuccess
    BY <1>3 DEF Boot, Disconnect, Reconnect, Finish, OpenRefused, ReadFails, Mismatch,
       Places, States
  <2>2. QED
    BY <1>1, <1>2, <2>1 DEF NoSuccess, ProcessType, ClockType
<1>4. CASE TestStop(c) \/ Open(c) \/ Hang(c) \/ Crash(c)
  <2>1. (\E place \in Places : Go(c, place)) /\ UNCHANGED health /\ NoSuccess
    BY <1>4 DEF TestStop, Open, Hang, Crash, Places
  <2>2. QED
    BY <1>1, <2>1 DEF NoSuccess, ProcessType, ClockType
<1>5. CASE Read(c)
  <2>1. (\E place \in Places : Go(c, place)) /\ health' \in [Cameras -> States]
    BY <1>2, <1>5 DEF Read, Places, States
  <2>2. /\ silence' = [silence EXCEPT ![c] = 0]
        /\ late' = late \ {c}
    BY <1>5 DEF Read
  <2>3. 0 \in -1 .. Timeout + 1
    BY SupervisorAssumption
  <2>4. silence' \in [Cameras -> -1 .. Timeout + 1]
    BY <2>2, <2>3 DEF ClockType
  <2>5. QED
    BY <1>1, <2>1, <2>2, <2>4 DEF ProcessType, ClockType
<1>6. QED
  BY <1>3, <1>4, <1>5 DEF Runs

\* Every step keeps the types of the processes and of the ages.
LEMMA ProcessTypeStep ==
  ASSUME ThreadType, ProcessType, ClockType, [Next]_vars
  PROVE  ProcessType' /\ ClockType'
<1> USE DEF processVars, threadVars, vars
<1>1. CASE UNCHANGED <<processVars, event, uptime>> /\ late' \in SUBSET Cameras
  BY <1>1 DEF ProcessType, ClockType
<1>2. ASSUME NEW t \in Threads, Worker(t)
      PROVE  ProcessType' /\ ClockType'
  <2>1. on[t] \in Cameras
    BY DEF ThreadType
  <2>2. CASE Start(t)
    BY <2>2 DEF Start, ProcessType, ClockType
  <2>3. CASE Spawn(t)
    <3>1. 0 \in 0 .. Timeout + 1 /\ "boot" \in Places
      BY SupervisorAssumption DEF Places
    <3>2. uptime' = [uptime EXCEPT ![on[t]] = 0] /\ process' = [process EXCEPT ![on[t]] = "boot"]
      BY <2>3 DEF Spawn
    <3>3. uptime' \in [Cameras -> 0 .. Timeout + 1] /\ process' \in [Cameras -> Places]
      BY <3>1, <3>2 DEF ProcessType, ClockType
    <3>4. QED
      BY <2>3, <3>3 DEF Spawn, ProcessType, ClockType
  <2>4. CASE SetEvent(t)
    BY <2>4 DEF SetEvent, ProcessType, ClockType
  <2>5. CASE Join(t) \/ Reap(t)
    BY <2>5 DEF Join, Reap, ProcessType, ClockType
  <2>6. CASE AskAlive(t) \/ Terminate(t)
    BY <2>1, <2>6 DEF AskAlive, Terminate, ProcessType, ClockType
  <2>7. CASE Mark(t) \/ MarkReconnect(t)
    BY <2>7 DEF Mark, MarkReconnect, SetState, States, ProcessType, ClockType
  <2>8. QED
    BY <1>2, <2>2, <2>3, <2>4, <2>5, <2>6, <2>7 DEF Worker
<1>3. CASE Wake \/ Snapshot \/ Decide
  BY <1>1, <1>3 DEF Wake, Snapshot, Decide, ProcessType
<1>4. CASE Begin \/ Serve \/ Stop \/ Await
  BY <1>1, <1>4 DEF Begin, Serve, Stop, Await, ProcessType
<1>5. ASSUME NEW c \in Cameras, Die(c)
      PROVE  ProcessType' /\ ClockType'
  BY <1>5 DEF Die, ProcessType, ClockType, Places
<1>6. CASE Tick
  <2>1. /\ \A n \in -1 .. Timeout + 1 : Older(n) \in -1 .. Timeout + 1
        /\ \A n \in 0 .. Timeout + 1 : Older(n) \in 0 .. Timeout + 1
    BY SupervisorAssumption DEF Older
  <2>2. /\ silence' = [c \in Cameras |-> Older(silence[c])]
        /\ uptime' = [c \in Cameras |-> IF Alive(c) THEN Older(uptime[c]) ELSE uptime[c]]
    BY <1>6 DEF Tick
  <2>3. \A c \in Cameras : silence[c] \in -1 .. Timeout + 1 /\ uptime[c] \in 0 .. Timeout + 1
    BY DEF ClockType
  <2>4. ClockType'
    <3> HIDE DEF processVars, threadVars, vars
    <3>1. silence' \in [Cameras -> -1 .. Timeout + 1]
      BY ONLY <2>1, <2>2, <2>3
    <3>2. uptime' \in [Cameras -> 0 .. Timeout + 1]
      BY ONLY <2>1, <2>2, <2>3
    <3>3. QED
      BY <3>1, <3>2 DEF ClockType
  <2>5. QED
    BY <1>6, <2>4 DEF Tick, ProcessType
<1>7. QED
  <2>1. "main" \in Threads /\ "watchdog" \in Threads
    BY DEF Threads
  <2>2. CASE Next
    BY <1>2, <1>3, <1>4, <1>5, <1>6, <2>1, <2>2, RunsType DEF Next, Serving, Watchdog, Main
  <2>3. CASE UNCHANGED vars
    BY <1>1, <2>3 DEF ProcessType
  <2>4. QED
    BY <2>2, <2>3

\* Every variable keeps its type.
THEOREM TypeCorrect == Spec => []TypeOK
<1>1. Init => TypeOK
  <2>1. 1 \in Cameras /\ -1 \in -1 .. Timeout + 1 /\ 0 \in 0 .. Timeout + 1
    BY SupervisorAssumption DEF Cameras
  <2>2. Init => ThreadType
    BY <2>1 DEF Init, ThreadType, Locations
  <2>3. Init => ProcessType
    BY DEF Init, ProcessType, Places, States
  <2>4. Init => ClockType
    BY <2>1 DEF Init, ClockType
  <2>5. QED
    BY <2>2, <2>3, <2>4, TypeParts
<1>2. TypeOK /\ [Next]_vars => TypeOK'
  <2>1. (ThreadType' /\ ProcessType' /\ ClockType') => TypeOK'
    BY DEF TypeOK, ThreadType, ProcessType, ClockType
  <2>2. QED
    BY <2>1, TypeParts, ThreadTypeStep, ProcessTypeStep
<1>3. QED
  BY <1>1, <1>2, PTL DEF Spec
-----------------------------------------------------------------------------
(***************************************************************************)
(* Why no live process is replaced: a thread about to spawn has seen its   *)
(* camera's process dead, and no one else starts one meanwhile, because    *)
(* main starts processes only before there is a watchdog.  That main never *)
(* gets back there is part of the invariant.                               *)
(***************************************************************************)
MainPlaces == {"new", "start", "spawn", "serve", "await", "set", "join", "alive",
               "terminate", "reap", "mark", "done", "raised"}

SpawnInv ==
  /\ at["main"] \in MainPlaces
  /\ at["main"] \in {"new", "start", "spawn"} => at["watchdog"] = "off"
  /\ NoOrphan

\* No step breaks the invariant.
LEMMA SpawnInvStep ==
  ASSUME ThreadType, ProcessType, SpawnInv, [Next]_vars
  PROVE  SpawnInv'
<1> USE DEF processVars, threadVars, vars
<1>0. /\ at \in [Threads -> Locations] /\ on \in [Threads -> Cameras]
      /\ process \in [Cameras -> Places]
      /\ Threads = {"main", "watchdog"}
  BY DEF ThreadType, ProcessType, Threads
<1>1. ASSUME UNCHANGED <<at, on>>,
             \A c \in Cameras : process[c] = "gone" => process'[c] = "gone"
      PROVE  SpawnInv'
  BY <1>0, <1>1 DEF SpawnInv, NoOrphan, At, Alive
\* Main leaves for a place from which it starts nothing, the processes stay.
<1>2. ASSUME NEW location \in MainPlaces \ {"new", "start", "spawn"},
             at' = [at EXCEPT !["main"] = location],
             \A t \in Threads : At(t, "spawn")' => on'[t] = on[t],
             UNCHANGED process
      PROVE  SpawnInv'
  BY <1>0, <1>2 DEF SpawnInv, NoOrphan, At, Alive
\* The watchdog goes where it does not spawn, and main has finished starting.
<1>3. ASSUME NEW location \in Locations \ {"spawn"},
             at["watchdog"] # "off",
             at' = [at EXCEPT !["watchdog"] = location],
             on'["main"] = on["main"],
             UNCHANGED process
      PROVE  SpawnInv'
  BY <1>0, <1>3 DEF SpawnInv, NoOrphan, At, Alive
<1>4. CASE Wake \/ Snapshot
  <2>1. UNCHANGED <<on, process>> /\ at["watchdog"] # "off"
    BY <1>4 DEF Wake, Snapshot, At
  <2>2. \E location \in Locations \ {"spawn"} : at' = [at EXCEPT !["watchdog"] = location]
    BY <1>4 DEF Wake, Snapshot, Move, Locations
  <2>3. QED
    BY <1>3, <2>1, <2>2
<1>5. CASE Decide
  <2>1. UNCHANGED process /\ at["watchdog"] # "off" /\ on'["main"] = on["main"]
    BY <1>0, <1>5 DEF Decide, At, Advance
  <2>2. \E location \in Locations \ {"spawn"} : at' = [at EXCEPT !["watchdog"] = location]
    BY <1>5 DEF Decide, Advance, Move, Locations
  <2>3. QED
    BY <1>3, <2>1, <2>2
<1>6. CASE Begin
  BY <1>0, <1>6 DEF Begin, Move, At, SpawnInv, NoOrphan, MainPlaces, Alive
<1>7. CASE Serve
  BY <1>0, <1>7 DEF Serve, Move, At, SpawnInv, NoOrphan, Alive
<1>8. CASE Stop \/ Await
  <2>1. \E location \in MainPlaces \ {"new", "start", "spawn"} :
          at' = [at EXCEPT !["main"] = location]
    BY <1>8 DEF Stop, Await, Move, MainPlaces
  <2>2. UNCHANGED <<on, process>>
    BY <1>8 DEF Stop, Await
  <2>3. QED
    BY <1>2, <2>1, <2>2
<1>9. CASE \E c \in Cameras : Runs(c) \/ Die(c)
  <2>1. UNCHANGED <<at, on>>
    BY <1>9 DEF Runs, Die, Boot, TestStop, Open, OpenRefused, Read, Mismatch, ReadFails,
       Disconnect, Reconnect, Finish, Hang, Crash, Go
  <2>2. PICK c \in Cameras : Runs(c) \/ Die(c)
    BY <1>9
  <2>3. process[c] # "gone" /\ \E place : process' = [process EXCEPT ![c] = place]
    BY <2>2 DEF Runs, Die, Boot, TestStop, Open, OpenRefused, Read, Mismatch, ReadFails,
       Disconnect, Reconnect, Finish, Hang, Crash, Go, Alive, InDevice
  <2>4. QED
    BY <1>0, <1>1, <2>1, <2>3
<1>10. CASE Tick
  BY <1>1, <1>10 DEF Tick
<1>11. CASE Worker("main")
  <2>1. CASE Start("main")
    <3>1. at["watchdog"] = "off" /\ at["main"] = "start" /\ UNCHANGED process
      BY <2>1 DEF Start, At, SpawnInv
    <3>2. CASE Alive(on["main"])
      BY <1>0, <2>1, <3>1, <3>2 DEF Start, NextToStart, Advance, Move, At, SpawnInv, NoOrphan,
         MainPlaces
    <3>3. CASE ~Alive(on["main"])
      BY <1>0, <2>1, <3>1, <3>3 DEF Start, Move, At, SpawnInv, NoOrphan, MainPlaces, Alive
    <3>4. QED
      BY <3>2, <3>3
  <2>2. CASE Spawn("main")
    <3>1. at["watchdog"] = "off"
      BY <2>2 DEF Spawn, At, SpawnInv
    <3>2. QED
      BY <1>0, <2>2, <3>1 DEF Spawn, NextToStart, Advance, Move, At, SpawnInv, NoOrphan, MainPlaces
  <2>3. CASE SetEvent("main") \/ Join("main") \/ AskAlive("main") \/ Terminate("main")
          \/ Reap("main")
    <3>1. \E location \in MainPlaces \ {"new", "start", "spawn"} :
            at' = [at EXCEPT !["main"] = location]
      BY <2>3 DEF SetEvent, Join, AskAlive, Terminate, Reap, Move, MainPlaces
    <3>2. UNCHANGED <<on, process>>
      BY <2>3 DEF SetEvent, Join, AskAlive, Terminate, Reap
    <3>3. QED
      BY <1>2, <3>1, <3>2
  <2>4. CASE Mark("main")
    <3>1. \E location \in MainPlaces \ {"new", "start", "spawn"} :
            at' = [at EXCEPT !["main"] = location]
      BY <2>4 DEF Mark, Advance, Move, MainPlaces
    <3>2. UNCHANGED process /\ on'["watchdog"] = on["watchdog"]
      BY <1>0, <2>4 DEF Mark, Advance
    <3>3. \A t \in Threads : At(t, "spawn")' => on'[t] = on[t]
      BY <1>0, <3>1, <3>2 DEF At
    <3>4. QED
      BY <1>2, <3>1, <3>2, <3>3
  <2>5. CASE MarkReconnect("main")
    BY <2>5 DEF MarkReconnect, At, SpawnInv, MainPlaces
  <2>6. QED
    BY <1>11, <2>1, <2>2, <2>3, <2>4, <2>5 DEF Worker
<1>12. CASE Worker("watchdog")
  <2>1. CASE Start("watchdog")
    <3>1. at["watchdog"] = "start" /\ UNCHANGED process
      BY <2>1 DEF Start, At
    <3>2. CASE Alive(on["watchdog"])
      BY <1>0, <2>1, <3>1, <3>2 DEF Start, NextToStart, Advance, Move, At, SpawnInv, NoOrphan
    <3>3. CASE ~Alive(on["watchdog"])
      BY <1>0, <2>1, <3>1, <3>3 DEF Start, Move, At, SpawnInv, NoOrphan, Alive
    <3>4. QED
      BY <3>2, <3>3
  <2>2. CASE Spawn("watchdog")
    BY <1>0, <2>2 DEF Spawn, NextToStart, Advance, Move, At, SpawnInv, NoOrphan
  <2>3. CASE SetEvent("watchdog") \/ Join("watchdog") \/ AskAlive("watchdog")
          \/ Terminate("watchdog") \/ Reap("watchdog") \/ Mark("watchdog") \/ MarkReconnect("watchdog")
    <3>1. \E location \in Locations \ {"spawn"} : at' = [at EXCEPT !["watchdog"] = location]
      BY <2>3 DEF SetEvent, Join, AskAlive, Terminate, Reap, Mark, MarkReconnect, Move, Locations
    <3>2. UNCHANGED <<on, process>> /\ at["watchdog"] # "off"
      BY <2>3 DEF SetEvent, Join, AskAlive, Terminate, Reap, Mark, MarkReconnect, At
    <3>3. QED
      BY <1>3, <3>1, <3>2
  <2>4. QED
    BY <1>12, <2>1, <2>2, <2>3 DEF Worker
<1>13. QED
  <2>1. CASE Next
    BY <1>4, <1>5, <1>6, <1>7, <1>8, <1>9, <1>10, <1>11, <1>12, <2>1
       DEF Next, Serving, Watchdog, Main
  <2>2. CASE UNCHANGED vars
    BY <1>1, <2>2
  <2>3. QED
    BY <2>1, <2>2

\* No worker ever replaces a live process, by either thread.
THEOREM NoProcessOrphaned == Spec => []NoOrphan
<1>1. Init => SpawnInv
  BY DEF Init, SpawnInv, NoOrphan, At, MainPlaces, Threads
<1>2. TypeOK /\ SpawnInv /\ [Next]_vars => SpawnInv'
  BY TypeParts, SpawnInvStep
<1>3. SpawnInv => NoOrphan
  BY DEF SpawnInv
<1>4. QED
  BY <1>1, <1>2, <1>3, TypeCorrect, PTL DEF Spec
-----------------------------------------------------------------------------
(***************************************************************************)
(* Why a hung process is never excused: DISCONNECTED is written by the     *)
(* capture process alone, which then leaves its backoff only by writing    *)
(* another state, or by its end; and it hangs only within its device.  A   *)
(* process that replaces one that died so starts by writing a state, too.  *)
(***************************************************************************)
BetweenOutages ==
  \A c \in Cameras : health[c] = "disconnected" => process[c] \in {"backoff", "gone", "boot"}

\* No step breaks it: what the capture process itself does ...
LEMMA OutageRuns ==
  ASSUME ProcessType, BetweenOutages, NEW c \in Cameras, Runs(c)
  PROVE  BetweenOutages'
<1> USE DEF ProcessType, BetweenOutages
<1>1. CASE Boot(c) \/ OpenRefused(c) \/ Read(c) \/ Mismatch(c) \/ ReadFails(c) \/ Reconnect(c)
        \/ Finish(c)
  <2>1. PICK state \in States \ {"disconnected"}, place \in Places :
          health' = [health EXCEPT ![c] = state] /\ process' = [process EXCEPT ![c] = place]
    BY <1>1 DEF Boot, OpenRefused, Read, Mismatch, ReadFails, Reconnect, Finish, SetState, Go,
       States, Places
  <2>2. QED
    BY <2>1
<1>2. CASE Disconnect(c)
  BY <1>2 DEF Disconnect, SetState, Go
<1>3. CASE TestStop(c) \/ Open(c) \/ Hang(c) \/ Crash(c)
  <2>1. UNCHANGED health /\ process[c] \notin {"backoff", "gone", "boot"}
    BY <1>3 DEF TestStop, Open, Hang, Crash, InDevice
  <2>2. PICK place : process' = [process EXCEPT ![c] = place]
    BY <1>3 DEF TestStop, Open, Hang, Crash, Go
  <2>3. QED
    BY <2>1, <2>2
<1>4. QED
  BY <1>1, <1>2, <1>3 DEF Runs

\* ... and every other step.
LEMMA OutageStep ==
  ASSUME ThreadType, ProcessType, BetweenOutages, [Next]_vars
  PROVE  BetweenOutages'
<1> USE DEF processVars, threadVars, vars
<1>1. CASE UNCHANGED <<process, health>>
  BY <1>1 DEF BetweenOutages
<1>2. ASSUME NEW c \in Cameras, NEW state \in States \ {"disconnected"},
             health' = [health EXCEPT ![c] = state], UNCHANGED process
      PROVE  BetweenOutages'
  BY <1>2 DEF BetweenOutages, ProcessType
<1>3. ASSUME NEW c \in Cameras, NEW place \in {"gone", "boot"},
             process' = [process EXCEPT ![c] = place], UNCHANGED health
      PROVE  BetweenOutages'
  BY <1>3 DEF BetweenOutages, ProcessType
<1>4. ASSUME NEW t \in Threads, Worker(t)
      PROVE  BetweenOutages'
  <2>1. on[t] \in Cameras
    BY DEF ThreadType
  <2>2. CASE Mark(t) \/ MarkReconnect(t)
    BY <1>2, <2>1, <2>2 DEF Mark, MarkReconnect, SetState, States
  <2>3. CASE Spawn(t)
    BY <1>3, <2>1, <2>3 DEF Spawn
  <2>4. CASE Start(t) \/ SetEvent(t) \/ Join(t) \/ AskAlive(t) \/ Terminate(t) \/ Reap(t)
    BY <1>1, <2>4 DEF Start, SetEvent, Join, AskAlive, Terminate, Reap
  <2>5. QED
    BY <1>4, <2>2, <2>3, <2>4 DEF Worker
<1>5. ASSUME NEW c \in Cameras, Die(c)
      PROVE  BetweenOutages'
  BY <1>3, <1>5 DEF Die
<1>6. CASE Wake \/ Snapshot \/ Decide \/ Begin \/ Serve \/ Stop \/ Await \/ Tick
  BY <1>1, <1>6 DEF Wake, Snapshot, Decide, Begin, Serve, Stop, Await, Tick
<1>7. QED
  BY <1>1, <1>4, <1>5, <1>6, OutageRuns
     DEF Next, Serving, Watchdog, Main, Threads

\* The watchdog, which passes over cameras that are DISCONNECTED, never passes
\* over one whose process hangs.
THEOREM HungSeen == Spec => []HungNotExcused
<1>1. Init => BetweenOutages
  BY DEF Init, BetweenOutages
<1>2. TypeOK /\ BetweenOutages /\ [Next]_vars => BetweenOutages'
  BY TypeParts, OutageStep
<1>3. BetweenOutages => HungNotExcused
  BY DEF BetweenOutages, HungNotExcused
<1>4. QED
  BY <1>1, <1>2, <1>3, TypeCorrect, PTL DEF Spec
-----------------------------------------------------------------------------
(***************************************************************************)
(* Why nothing is left: once main has had the watchdog's end, no thread    *)
(* starts a process any more, so a camera main has done with stays dead,   *)
(* or keeps the signal that will end it.  That main comes to stop() with   *)
(* its loop at the first camera is part of the invariant.                  *)
(***************************************************************************)
StopPlaces == {"set", "join", "alive", "terminate", "reap", "mark", "done", "raised"}

\* Cameras whose process main has found dead or has sent the signal to.
DoneWith(c) ==
  \/ at["main"] = "done"
  \/ at["main"] \in StopPlaces /\ c < on["main"]
  \/ at["main"] \in {"reap", "mark"} /\ c = on["main"]

Quiet(c) == ~Alive(c) \/ c \in killed

StopInv ==
  /\ at["main"] \in {"new", "serve", "await"} => on["main"] = 1
  /\ at["main"] \in StopPlaces => gaveUp \/ at["watchdog"] = "done"
  /\ at["main"] = "raised" => gaveUp
  /\ ~gaveUp => \A c \in Cameras : DoneWith(c) => Quiet(c)

\* A step that leaves main alone and starts nothing keeps it.
LEMMA StopInvQuiet ==
  ASSUME StopInv,
         UNCHANGED gaveUp, at'["main"] = at["main"], on'["main"] = on["main"],
         at["watchdog"] = "done" => at'["watchdog"] = "done",
         \A c \in Cameras : Quiet(c) => Quiet(c)'
  PROVE  StopInv'
BY DEF StopInv, DoneWith

\* What main itself does, with what SpawnInv says of its places.
LEMMA StopInvMain ==
  ASSUME ThreadType, ProcessType, SpawnInv, StopInv, Main \/ Stop
  PROVE  StopInv'
<1> USE DEF processVars, threadVars
<1>0. /\ at \in [Threads -> Locations] /\ on \in [Threads -> Cameras]
      /\ Threads = {"main", "watchdog"}
      /\ on["main"] \in Cameras
      /\ \A c \in Cameras : c \in Nat /\ 1 <= c /\ c <= NumCameras
      /\ NumCameras \in Nat
  BY SupervisorAssumption DEF ThreadType, Threads, Cameras
<1> USE <1>0 DEF Move, At
<1>1. CASE Begin \/ Serve \/ Stop
  BY <1>1 DEF Begin, Serve, Stop, StopInv, DoneWith, StopPlaces, Quiet, Alive
<1>2. CASE Await
  <2>1. at'["main"] = "set" /\ on'["main"] = 1 /\ (gaveUp' \/ at'["watchdog"] = "done")
    BY <1>2 DEF Await, StopInv
  <2>2. \A c \in Cameras : ~DoneWith(c)'
    BY <2>1 DEF DoneWith
  <2>3. QED
    BY <2>1, <2>2 DEF StopInv
<1>3. CASE Start("main")
  BY <1>3 DEF Start, NextToStart, Advance, StopInv, DoneWith, StopPlaces, Quiet, Alive
<1>4. CASE Spawn("main")
  <2>1. at'["main"] \in {"start", "serve"} /\ (at'["main"] = "serve" => on'["main"] = 1)
    BY <1>4 DEF Spawn, NextToStart, Advance
  <2>2. QED
    BY <2>1 DEF StopInv, DoneWith, StopPlaces
<1>5. CASE SetEvent("main") \/ Join("main")
  <2>1. /\ at'["main"] \in {"join", "alive", "raised"} /\ at["main"] \in {"set", "join"}
        /\ at'["watchdog"] = at["watchdog"] /\ UNCHANGED <<on, process, killed, gaveUp>>
        /\ at'["main"] = "raised" => at["watchdog"] = "spawn"
    BY <1>5 DEF SetEvent, Join, Unstarted
  <2>2. QED
    BY <2>1 DEF StopInv, DoneWith, StopPlaces, Quiet, Alive
<1>6. CASE AskAlive("main") \/ Terminate("main")
  <2>1. /\ at["main"] \in {"alive", "terminate"} /\ at'["watchdog"] = at["watchdog"]
        /\ at'["main"] \in {"terminate", "mark", "reap", "raised"}
        /\ UNCHANGED <<on, process, gaveUp>> /\ killed \subseteq killed'
        /\ at'["main"] \in {"mark", "reap"} => Quiet(on["main"])'
        /\ at'["main"] = "raised" => at["watchdog"] = "spawn"
    BY <1>6 DEF AskAlive, Terminate, Unstarted, Quiet, Alive
  <2>2. \A c \in Cameras : DoneWith(c)' => DoneWith(c) \/ Quiet(c)'
    BY <2>1 DEF DoneWith, StopPlaces
  <2>3. \A c \in Cameras : Quiet(c) => Quiet(c)'
    BY <2>1 DEF Quiet, Alive
  <2>4. QED
    BY <2>1, <2>2, <2>3 DEF StopInv, StopPlaces
<1>7. CASE Reap("main")
  <2>1. /\ at["main"] = "reap" /\ at'["watchdog"] = at["watchdog"]
        /\ at'["main"] \in {"mark", "raised"}
        /\ UNCHANGED <<on, process, killed, gaveUp>>
        /\ at'["main"] = "raised" => at["watchdog"] = "spawn"
    BY <1>7 DEF Reap, Unstarted
  <2>2. \A c \in Cameras : DoneWith(c)' => DoneWith(c)
    BY <2>1 DEF DoneWith, StopPlaces
  <2>3. QED
    BY <2>1, <2>2 DEF StopInv, StopPlaces, Quiet, Alive
<1>8. CASE Mark("main")
  <2>1. /\ at["main"] = "mark" /\ at'["watchdog"] = at["watchdog"]
        /\ UNCHANGED <<process, killed, gaveUp>>
        /\ \/ at'["main"] = "set" /\ on'["main"] = on["main"] + 1
           \/ at'["main"] = "done" /\ on["main"] = NumCameras
    BY <1>8 DEF Mark, Advance
  <2>2. \A c \in Cameras : DoneWith(c)' => DoneWith(c)
    BY <2>1 DEF DoneWith, StopPlaces
  <2>3. QED
    BY <2>1, <2>2 DEF StopInv, StopPlaces, Quiet, Alive
<1>9. CASE MarkReconnect("main")
  BY <1>9 DEF MarkReconnect, SpawnInv, MainPlaces
<1>10. QED
  BY <1>1, <1>2, <1>3, <1>4, <1>5, <1>6, <1>7, <1>8, <1>9 DEF Main, Worker

\* No step breaks the invariant.
LEMMA StopInvStep ==
  ASSUME ThreadType, ProcessType, SpawnInv, StopInv, [Next]_vars
  PROVE  StopInv'
<1> USE DEF processVars, threadVars, vars
<1>0. /\ at \in [Threads -> Locations] /\ on \in [Threads -> Cameras]
      /\ process \in [Cameras -> Places]
      /\ Threads = {"main", "watchdog"}
  BY DEF ThreadType, ProcessType, Threads
\* A capture process of its own can only become quiet.
<1>1. ASSUME NEW c \in Cameras, Runs(c) \/ Die(c)
      PROVE  StopInv'
  <2>1. UNCHANGED <<at, on, gaveUp>>
    BY <1>1 DEF Runs, Die, Boot, TestStop, Open, OpenRefused, Read, Mismatch, ReadFails,
       Disconnect, Reconnect, Finish, Hang, Crash, Go
  <2>2. process[c] # "gone" /\ \E place : process' = [process EXCEPT ![c] = place]
    BY <1>1 DEF Runs, Die, Boot, TestStop, Open, OpenRefused, Read, Mismatch, ReadFails,
       Disconnect, Reconnect, Finish, Hang, Crash, Go, Alive, InDevice
  <2>3. \/ UNCHANGED killed
        \/ killed' = killed \ {c} /\ process' = [process EXCEPT ![c] = "gone"]
    BY <1>1 DEF Runs, Die, Boot, TestStop, Open, OpenRefused, Read, Mismatch, ReadFails,
       Disconnect, Reconnect, Finish, Hang, Crash, Go
  <2>4. \A d \in Cameras : Quiet(d) => Quiet(d)'
    BY <1>0, <2>2, <2>3 DEF Quiet, Alive
  <2>5. QED
    BY <2>1, <2>4, StopInvQuiet
<1>2. CASE Worker("watchdog")
  <2>1. /\ at["watchdog"] # "done" /\ UNCHANGED gaveUp
        /\ at'["main"] = at["main"] /\ on'["main"] = on["main"]
    BY <1>0, <1>2 DEF Worker, Start, Spawn, SetEvent, Join, AskAlive, Terminate, Reap, Mark, MarkReconnect,
       NextToStart, Advance, Move, At
  <2>2. CASE Spawn("watchdog")
    <3>1. at["main"] \in StopPlaces => gaveUp
      BY <2>1 DEF StopInv
    <3>2. QED
      BY <2>1, <3>1 DEF StopInv, DoneWith, StopPlaces
  <2>3. CASE ~Spawn("watchdog")
    <3>1. UNCHANGED process /\ killed \subseteq killed'
      BY <1>2, <2>3 DEF Worker, Start, SetEvent, Join, AskAlive, Terminate, Reap, Mark, MarkReconnect
    <3>2. QED
      BY <2>1, <3>1, StopInvQuiet DEF Quiet, Alive
  <2>4. QED
    BY <2>2, <2>3
<1>3. CASE Wake \/ Snapshot \/ Decide
  <2>1. /\ at["watchdog"] # "done" /\ UNCHANGED <<gaveUp, process, killed>>
        /\ at'["main"] = at["main"] /\ on'["main"] = on["main"]
    BY <1>0, <1>3 DEF Wake, Snapshot, Decide, Advance, Move, At
  <2>2. QED
    BY <2>1, StopInvQuiet DEF Quiet, Alive
<1>4. CASE Tick \/ UNCHANGED vars
  BY <1>4, StopInvQuiet DEF Tick, Quiet, Alive
<1>5. QED
  BY <1>1, <1>2, <1>3, <1>4, StopInvMain DEF Next, Serving, Watchdog

\* When stop() has had the watchdog's end, no capture process outlives it but
\* those a signal is about to end, for any number of cameras and any faults.
THEOREM StopLeavesNothing == Spec => []NothingLeftInTime
<1>1. Init => SpawnInv
  BY DEF Init, SpawnInv, NoOrphan, At, MainPlaces, Threads
<1>2. TypeOK /\ SpawnInv /\ [Next]_vars => SpawnInv'
  BY TypeParts, SpawnInvStep
<1>3. Init => StopInv
  BY DEF Init, StopInv, StopPlaces, DoneWith, Threads
<1>4. TypeOK /\ SpawnInv /\ StopInv /\ [Next]_vars => StopInv'
  BY TypeParts, StopInvStep
<1>5. StopInv => NothingLeftInTime
  BY DEF StopInv, NothingLeftInTime, NothingLeft, DoneWith, Quiet
<1>6. QED
  BY <1>1, <1>2, <1>3, <1>4, <1>5, TypeCorrect, PTL DEF Spec

\* stop() raises, if at all, only after it has given up waiting for the
\* watchdog: with the watchdog's end in time it stops every camera.
THEOREM RaisesOnlyLate == Spec => [](at["main"] = "raised" => gaveUp)
<1>1. Init => SpawnInv /\ StopInv
  BY DEF Init, SpawnInv, NoOrphan, At, MainPlaces, StopInv, StopPlaces, DoneWith, Threads
<1>2. TypeOK /\ SpawnInv /\ StopInv /\ [Next]_vars => SpawnInv' /\ StopInv'
  BY TypeParts, SpawnInvStep, StopInvStep
<1>3. StopInv => (at["main"] = "raised" => gaveUp)
  BY DEF StopInv
<1>4. QED
  BY <1>1, <1>2, <1>3, TypeCorrect, PTL DEF Spec
=============================================================================
