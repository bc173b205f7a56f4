------------------------------- MODULE Dashboard -------------------------------
(***************************************************************************)
(* What the event loop of the legacy main process does (main.py,           *)
(* dashboard/server.py): the endpoint of each dashboard socket, the task   *)
(* that polls the frames of remote cameras and broadcasts them, one task   *)
(* for each message a capture thread posts (module AlertPipeline), and     *)
(* main_async with its shutdown.  Beside the loop run the MQTT thread and  *)
(* paho's network thread, which fills the round-robin queues of            *)
(* inference/scheduler.py.                                                 *)
(*                                                                         *)
(* A task runs from one await to the next.  An await of a send may last as *)
(* long as its client is slow, so a send is a step no fairness asks for.   *)
(* Frames are not told apart: a queue is its length.  A poll that finds    *)
(* nothing leaves everything as it was (the index comes round) and is no   *)
(* step here; neither is a receive_text that answers a ping.               *)
(***************************************************************************)
EXTENDS Naturals, Sequences, FiniteSets, SequencesExt

CONSTANTS
  Sockets,       \* connections clients make; each is used once (bound)
  Posts,         \* slots for messages of the capture threads (bound)
  Cameras,       \* cameras whose frames arrive over MQTT
  Registered,    \* the configured ones, in their order; the others register themselves
  QueueLimit,    \* maxlen of a camera's deque
  Poller         \* the task poll_remote_frames, as a sender

ASSUME DashboardAssumption ==
  /\ Registered \in Seq(Cameras) /\ IsInjective(Registered)
  /\ QueueLimit \in Nat \ {0}
  /\ Poller \notin Posts

VARIABLES
  mqtt,          \* the thread start_mqtt_remote_cameras
  subscribed,    \* paho's thread runs and has subscribed
  order, index,  \* Scheduler._order and _index (from 0)
  queues,        \* length of each camera's deque
  passed,        \* history: <<c, d>> if d was polled since c has frames waiting
  endpoint,      \* where ws_dashboard is for each socket
  broken,        \* sockets whose connection is gone
  connections,   \* ConnectionManager._connections
  sending,       \* the broadcast of each sender: its copy of the list, the place
                 \* it has reached, and (history) the clients it was written to
  stopped,       \* stop_event
  main           \* where main_async is

remote == <<mqtt, subscribed, order, index, queues, passed>>
clients == <<endpoint, broken, connections>>
control == <<stopped, main>>
vars == <<remote, clients, sending, control>>

Senders == Posts \cup {Poller}
Idle == [phase |-> "idle", copy |-> <<>>, at |-> 1, told |-> {}]
Over == [phase |-> "over", copy |-> <<>>, at |-> 1, told |-> {}]

TypeOK ==
  /\ mqtt \in {"connecting", "timedOut", "serving", "ended"}
  /\ subscribed \in BOOLEAN
  /\ order \in Seq(Cameras) /\ index \in Nat
  /\ queues \in [Cameras -> 0 .. QueueLimit]
  /\ passed \subseteq Cameras \X Cameras
  /\ endpoint \in [Sockets -> {"away", "accepting", "listening", "returned"}]
  /\ broken \subseteq Sockets /\ connections \in Seq(Sockets)
  /\ sending \in [Senders -> [phase : {"idle", "queued", "sending", "over"},
                              copy : Seq(Sockets), at : Nat \ {0}, told : SUBSET Sockets]]
  /\ stopped \in BOOLEAN
  /\ main \in {"serving", "joining", "remote", "dashboard", "buffers", "done", "failed"}

Init ==
  /\ mqtt = "connecting" /\ subscribed = FALSE
  /\ order = Registered /\ index = 0
  /\ queues = [c \in Cameras |-> 0] /\ passed = {}
  /\ endpoint = [s \in Sockets |-> "away"] /\ broken = {} /\ connections = <<>>
  /\ sending = [s \in Senders |-> Idle]
  /\ stopped = FALSE /\ main = "serving"

Ended == main \in {"done", "failed"}
\* p2.join(timeout=5) holds up the loop; after main_async there is no loop, and
\* the process is left with its daemon threads.
LoopRuns == main # "joining" /\ ~Ended

-----------------------------------------------------------------------------
(* MQTTSubscriber, in the MQTT thread and in paho's *)

\* on_connect may come after the wait for it has timed out.
OnConnect ==
  /\ ~Ended
  /\ mqtt \in {"connecting", "timedOut"} /\ ~subscribed
  /\ subscribed' = TRUE
  /\ mqtt' = IF mqtt = "connecting" THEN "serving" ELSE mqtt
  /\ UNCHANGED <<order, index, queues, passed, clients, sending, control>>

WaitTimesOut ==
  /\ ~Ended
  /\ mqtt = "connecting" /\ mqtt' = "timedOut"
  /\ UNCHANGED <<subscribed, order, index, queues, passed, clients, sending, control>>

\* loop_stop and disconnect: after the timeout, or when _stop is set.
Disconnect ==
  /\ \/ mqtt = "timedOut" /\ ~Ended
     \/ mqtt = "serving" /\ main = "done"
  /\ mqtt' = "ended" /\ subscribed' = FALSE
  /\ UNCHANGED <<order, index, queues, passed, clients, sending, control>>

Mqtt == OnConnect \/ WaitTimesOut \/ Disconnect

\* Scheduler.add_frame, called by _on_message: drops the oldest frame if full.
AddFrame(c) ==
  /\ subscribed /\ ~Ended
  /\ order' = IF c \in ToSet(order) THEN order ELSE Append(order, c)
  /\ queues' = [queues EXCEPT ![c] = IF @ < QueueLimit THEN @ + 1 ELSE @]
  /\ UNCHANGED <<mqtt, subscribed, index, passed, clients, sending, control>>

\* A mutant: the index is not advanced.
AdvanceNot(i) == i

Advance(i) == (i + 1) % Len(order)

Waiting(c) == queues[c] > 0
Place(i) == order[i + 1]

-----------------------------------------------------------------------------
(* Broadcasts *)

Begin(s) ==
  sending' = [sending EXCEPT ![s] =
                [phase |-> "sending", copy |-> connections, at |-> 1, told |-> {}]]

\* Scheduler.poll: the first camera from the index on that has a frame; then
\* broadcast_async takes its copy of the list.
Poll ==
  /\ LoopRuns /\ ~stopped
  /\ sending[Poller].phase = "idle"
  /\ \E k \in 0 .. Len(order) - 1 :
       LET i == (index + k) % Len(order)
           c == Place(i)
       IN /\ Waiting(c)
          /\ \A j \in 0 .. k - 1 : ~Waiting(Place((index + j) % Len(order)))
          /\ index' = Advance(i)
          /\ queues' = [queues EXCEPT ![c] = @ - 1]
          /\ passed' = {p \in passed : p[1] # c}
                         \cup {<<d, c>> : d \in {d \in Cameras : Waiting(d)} \ {c}}
  /\ Begin(Poller)
  /\ UNCHANGED <<mqtt, subscribed, order, clients, control>>

PollStops ==
  /\ LoopRuns /\ stopped
  /\ sending[Poller].phase = "idle"
  /\ sending' = [sending EXCEPT ![Poller] = Over]
  /\ UNCHANGED <<remote, clients, control>>

\* _send_ws, in a capture thread.  Once there is no loop it fails, and
\* _capture_loop swallows that.
Post(s) ==
  /\ ~Ended
  /\ sending[s].phase = "idle"
  /\ sending' = [sending EXCEPT ![s].phase = "queued"]
  /\ UNCHANGED <<remote, clients, control>>

RunPost(s) ==
  /\ LoopRuns
  /\ sending[s].phase = "queued"
  /\ Begin(s)
  /\ UNCHANGED <<remote, clients, control>>

\* A mutant: the list itself, from which sockets are removed meanwhile.
TargetsLive(s) == connections

\* What broadcast_async iterates over.
Targets(s) == sending[s].copy

Reached(s) ==
  /\ LoopRuns
  /\ sending[s].phase = "sending" /\ sending[s].at <= Len(Targets(s))

Deliver(s) ==
  /\ Reached(s)
  /\ LET w == Targets(s)[sending[s].at]
     IN /\ w \notin broken
        /\ sending' = [sending EXCEPT ![s].at = @ + 1, ![s].told = @ \cup {w}]
  /\ UNCHANGED <<remote, clients, control>>

Removed(w) == RemoveFirst(connections, w)

\* _safe_send catches the failure and disconnects the socket.
SendFails(s) ==
  /\ Reached(s)
  /\ LET w == Targets(s)[sending[s].at]
     IN /\ w \in broken
        /\ connections' = Removed(w)
  /\ sending' = [sending EXCEPT ![s].at = @ + 1]
  /\ UNCHANGED <<remote, endpoint, broken, control>>

FinishSending(s) ==
  /\ LoopRuns
  /\ sending[s].phase = "sending" /\ sending[s].at > Len(Targets(s))
  /\ sending' = [sending EXCEPT ![s] = Idle]
  /\ UNCHANGED <<remote, clients, control>>

Broadcast(s) == Deliver(s) \/ SendFails(s) \/ FinishSending(s)

-----------------------------------------------------------------------------
(* Endpoints *)

Accept(w) ==
  /\ LoopRuns /\ main # "buffers"
  /\ endpoint[w] = "away"
  /\ endpoint' = [endpoint EXCEPT ![w] = "accepting"]
  /\ UNCHANGED <<remote, broken, connections, sending, control>>

\* accept() has returned: the socket is added, and the endpoint receives.
Register(w) ==
  /\ LoopRuns
  /\ endpoint[w] = "accepting"
  /\ connections' = Append(connections, w)
  /\ endpoint' = [endpoint EXCEPT ![w] = "listening"]
  /\ UNCHANGED <<remote, broken, sending, control>>

AcceptFails(w) ==
  /\ LoopRuns
  /\ endpoint[w] = "accepting" /\ w \in broken
  /\ endpoint' = [endpoint EXCEPT ![w] = "returned"]
  /\ UNCHANGED <<remote, broken, connections, sending, control>>

\* A mutant: only WebSocketDisconnect is caught; another failure ends the endpoint.
ReceiveFailsUncaught(w) ==
  /\ LoopRuns
  /\ endpoint[w] = "listening" /\ w \in broken
  /\ endpoint' = [endpoint EXCEPT ![w] = "returned"]
  /\ connections' \in {Removed(w), connections}
  /\ UNCHANGED <<remote, broken, sending, control>>

\* WebSocketDisconnect from receive_text, or any other failure of it or of the
\* answer to a ping.
ReceiveFails(w) ==
  /\ LoopRuns
  /\ endpoint[w] = "listening" /\ w \in broken
  /\ endpoint' = [endpoint EXCEPT ![w] = "returned"]
  /\ connections' = Removed(w)
  /\ UNCHANGED <<remote, broken, sending, control>>

Break(w) ==
  /\ ~Ended
  /\ endpoint[w] \in {"accepting", "listening"} /\ w \notin broken
  /\ broken' = broken \cup {w}
  /\ UNCHANGED <<remote, endpoint, connections, sending, control>>

Endpoint(w) == Accept(w) \/ Register(w) \/ AcceptFails(w) \/ ReceiveFails(w)

-----------------------------------------------------------------------------
(* main_async *)

Sigterm ==
  /\ LoopRuns /\ ~stopped
  /\ stopped' = TRUE
  /\ UNCHANGED <<remote, clients, sending, main>>

\* KeyboardInterrupt cancels main_async; its finally clause runs.
Interrupt ==
  /\ main = "serving"
  /\ stopped' = TRUE /\ main' = "joining"
  /\ UNCHANGED <<remote, clients, sending>>

LeaveWait ==
  /\ main = "serving" /\ stopped
  /\ main' = "joining"
  /\ UNCHANGED <<remote, clients, sending, stopped>>

\* p2.join(timeout=5), then terminate(): it ends whatever P2 does.
JoinP2 ==
  /\ main = "joining"
  /\ main' = "remote"
  /\ UNCHANGED <<remote, clients, sending, stopped>>

\* A mutant: the task is awaited without being cancelled.
CancelRemoteNot ==
  /\ main = "remote"
  /\ sending[Poller].phase = "over"
  /\ main' = "dashboard"
  /\ UNCHANGED <<remote, clients, sending, stopped>>

\* remote_task.cancel() ends the task at its await, a send included.
CancelRemote ==
  /\ main = "remote"
  /\ sending' = [sending EXCEPT ![Poller] = Over]
  /\ main' = "dashboard"
  /\ UNCHANGED <<remote, clients, stopped>>

\* Awaiting dashboard_task raises again what the server raised, if it did.
CancelDashboard ==
  /\ main = "dashboard"
  /\ main' \in {"buffers", "failed"}
  /\ UNCHANGED <<remote, clients, sending, stopped>>

\* close() and unlink() of every buffer, then _stop.  A capture thread, which
\* nobody joined, may still hold a view: close() then raises BufferError.
Cleanup ==
  /\ main = "buffers"
  /\ main' \in {"done", "failed"}
  /\ UNCHANGED <<remote, clients, sending, stopped>>

Main == LeaveWait \/ JoinP2 \/ CancelRemote \/ CancelDashboard \/ Cleanup

Next ==
  \/ Mqtt
  \/ \E c \in Cameras : AddFrame(c)
  \/ Poll \/ PollStops
  \/ \E s \in Posts : Post(s) \/ RunPost(s)
  \/ \E s \in Senders : Broadcast(s)
  \/ \E w \in Sockets : Endpoint(w) \/ Break(w)
  \/ Sigterm \/ Interrupt
  \/ Main

\* main_async goes on as soon as what it awaits is over; clients, cameras and
\* signals owe nothing.
Spec == Init /\ [][Next]_vars /\ WF_vars(Main)

-----------------------------------------------------------------------------
(* Properties *)

\* A message reaches every client that was connected when its broadcast began
\* and still is when it ends, although sockets are removed from the list by
\* endpoints and by other broadcasts while this one awaits a send.
EveryClientTold ==
  [][\A s \in Senders :
       sending[s].phase = "sending" /\ sending'[s].phase = "idle" =>
         ToSet(sending[s].copy) \cap ToSet(connections) \subseteq sending[s].told]_vars

\* The list holds every socket whose endpoint receives, unless it is broken, and
\* no socket without one, each once: no client is deaf, and no entry is left over
\* that only a later send would clear.
ListedWhileListening ==
  /\ IsInjective(connections)
  /\ \A w \in ToSet(connections) : endpoint[w] = "listening"
  /\ \A w \in Sockets : endpoint[w] = "listening" /\ w \notin broken
                          => w \in ToSet(connections)

\* While a camera has frames waiting no other camera is polled twice, although
\* unknown cameras join the order at any time.
FairTurns ==
  [][\A p \in passed : queues'[p[2]] >= queues[p[2]]]_vars

\* Once the stop event is set main_async ends, whatever a slow client does to the
\* broadcast of remote frames.
StopEnds == stopped ~> Ended
=============================================================================
