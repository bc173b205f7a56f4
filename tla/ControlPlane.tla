----------------------------- MODULE ControlPlane -----------------------------
(***************************************************************************)
(* The control plane's API (server/api/): events are ingested by handlers  *)
(* that run in a thread pool over one in-memory repository; heartbeats are *)
(* kept for each device.  The senders and the network are external: a      *)
(* sender repeats an event until it is acknowledged, perhaps with another  *)
(* body or a wrong Idempotency-Key; requests and replies may be lost,      *)
(* duplicated, delayed and reordered.  A restart of the process loses the  *)
(* repository, which lives in memory.                                      *)
(*                                                                         *)
(* A handler receives, calls the repository under its lock, and replies,   *)
(* in three steps.                                                         *)
(***************************************************************************)
EXTENDS Naturals

CONSTANTS
  Events, Bodies, Devices,
  Handlers,                  \* threads of the pool
  MaxBeats, MaxRestarts, MaxWrong     \* bounds

ASSUME ControlAssumption ==
  MaxBeats \in Nat /\ MaxRestarts \in Nat /\ MaxWrong \in Nat

VARIABLES
  requests,    \* event requests in the network
  beats,       \* heartbeats in the network: [device, number]
  taken,       \* the request each thread has received, as a set of at most one
  decided,     \* the reply each thread is about to send, likewise
  stored,      \* repository.events: the body of each event it knows
  heartbeat,   \* repository.heartbeats: number, 0 if there is none
  replies,     \* replies in the network
  acknowledged,             \* events whose sender was told 201 or 200
  sent, restarts, wrong,    \* bounds: heartbeats sent by each device, restarts,
                            \* requests sent with a wrong key
  created      \* history: how often an event was answered 201 since the restart

network == <<requests, wrong, replies, acknowledged>>
devices == <<beats, heartbeat, sent>>
vars == <<network, devices, taken, decided, stored, restarts, created>>

Request == [event : Events, body : Bodies, key : BOOLEAN]    \* key: it matches, or is absent
Decision == [event : Events, status : {"201", "200", "409"}]

TypeOK ==
  /\ requests \subseteq Request /\ replies \subseteq Decision
  /\ taken \in [Handlers -> SUBSET Request] /\ decided \in [Handlers -> SUBSET Decision]
  /\ DOMAIN stored \subseteq Events /\ \A e \in DOMAIN stored : stored[e] \in Bodies
  /\ acknowledged \subseteq Events
  /\ created \in [Events -> Nat]
  /\ beats \subseteq [device : Devices, number : 1 .. MaxBeats]
  /\ heartbeat \in [Devices -> 0 .. MaxBeats] /\ sent \in [Devices -> 0 .. MaxBeats]
  /\ restarts \in 0 .. MaxRestarts /\ wrong \in 0 .. MaxWrong

Idle == [h \in Handlers |-> {}]
NothingStored == [e \in {} |-> {}]

Init ==
  /\ taken = Idle /\ decided = Idle
  /\ stored = NothingStored /\ created = [e \in Events |-> 0]
  /\ heartbeat = [d \in Devices |-> 0]
  /\ requests = {} /\ beats = {} /\ replies = {} /\ acknowledged = {}
  /\ sent = [d \in Devices |-> 0] /\ restarts = 0 /\ wrong = 0

-----------------------------------------------------------------------------
(* Senders and network.                                                     *)

\* A sender that is not acknowledged sends its event, or sends it again.
Send(e, b, k) ==
  /\ e \notin acknowledged
  /\ wrong' = IF k THEN wrong ELSE wrong + 1
  /\ wrong' <= MaxWrong
  /\ requests' = requests \cup {[event |-> e, body |-> b, key |-> k]}
  /\ UNCHANGED <<replies, acknowledged, devices, taken, decided, stored, restarts, created>>

LoseRequest(r) ==
  /\ r \in requests /\ requests' = requests \ {r}
  /\ UNCHANGED <<wrong, replies, acknowledged, devices, taken, decided, stored, restarts, created>>

LoseReply(r) ==
  /\ r \in replies /\ replies' = replies \ {r}
  /\ UNCHANGED <<requests, wrong, acknowledged, devices, taken, decided, stored, restarts, created>>

\* A conflict tells the sender nothing about the event.
Hear(r) ==
  /\ r \in replies
  /\ acknowledged' = IF r.status = "409" THEN acknowledged ELSE acknowledged \cup {r.event}
  /\ replies' = replies \ {r}
  /\ UNCHANGED <<requests, wrong, devices, taken, decided, stored, restarts, created>>

Beat(d) ==
  /\ sent[d] < MaxBeats
  /\ sent' = [sent EXCEPT ![d] = @ + 1]
  /\ beats' = beats \cup {[device |-> d, number |-> sent[d] + 1]}
  /\ UNCHANGED <<network, heartbeat, taken, decided, stored, restarts, created>>

-----------------------------------------------------------------------------
(* The API.                                                                 *)

\* The network delivers a request, and may keep a copy of one with the right key.
Receive(h, r) ==
  /\ taken[h] = {} /\ decided[h] = {} /\ r \in requests
  /\ taken' = [taken EXCEPT ![h] = {r}]
  /\ \E copies \in SUBSET {r} :
       (~r.key => copies = {}) /\ requests' = (requests \ {r}) \cup copies
  /\ UNCHANGED <<wrong, replies, acknowledged, devices, decided, stored, restarts, created>>

With(e, b) == [f \in DOMAIN stored \cup {e} |-> IF f = e THEN b ELSE stored[f]]

\* A mutant: a repository that does not look whether it knows the event.
AcceptsAll(e) == TRUE

\* ingest_event's answer, under the repository's lock.
Accepts(e) == e \notin DOMAIN stored

\* A mutant: a known event takes the body of the retry.
KeepLatest(e, b) == stored' = With(e, b)

Keep(e, b) == stored' = IF Accepts(e) THEN With(e, b) ELSE stored

\* A mutant: a duplicate is answered as a conflict.
StatusConflict(r) == IF ~r.key \/ ~Accepts(r.event) THEN "409" ELSE "201"

\* A key that is not the event's id is refused before the repository is asked.
Status(r) == IF ~r.key THEN "409" ELSE IF Accepts(r.event) THEN "201" ELSE "200"

Ingest(h) ==
  \E r \in taken[h] :
    /\ IF r.key THEN Keep(r.event, r.body) ELSE UNCHANGED stored
    /\ taken' = [taken EXCEPT ![h] = {}]
    /\ decided' = [decided EXCEPT ![h] = {[event |-> r.event, status |-> Status(r)]}]
    /\ created' = [created EXCEPT ![r.event] = IF Status(r) = "201" THEN @ + 1 ELSE @]
    /\ UNCHANGED <<network, devices, restarts>>

Reply(h) ==
  \E d \in decided[h] :
    /\ replies' = replies \cup {d}
    /\ decided' = [decided EXCEPT ![h] = {}]
    /\ UNCHANGED <<requests, wrong, acknowledged, devices, taken, stored, restarts, created>>

\* The last heartbeat to arrive is kept, be it the oldest.
SaveHeartbeat(b) ==
  /\ b \in beats /\ beats' \in {beats, beats \ {b}}
  /\ heartbeat' = [heartbeat EXCEPT ![b.device] = b.number]
  /\ UNCHANGED <<network, sent, taken, decided, stored, restarts, created>>

\* lifespan makes a new repository for a new process.
Restart ==
  /\ restarts < MaxRestarts /\ restarts' = restarts + 1
  /\ taken' = Idle /\ decided' = Idle
  /\ stored' = NothingStored /\ created' = [e \in Events |-> 0]
  /\ heartbeat' = [d \in Devices |-> 0]
  /\ UNCHANGED <<network, beats, sent>>

Handle(h) == Ingest(h) \/ Reply(h)

Next ==
  \/ \E e \in Events, b \in Bodies, k \in BOOLEAN : Send(e, b, k)
  \/ \E r \in requests : LoseRequest(r)
  \/ \E r \in replies : LoseReply(r) \/ Hear(r)
  \/ \E d \in Devices : Beat(d)
  \/ \E h \in Handlers : Handle(h) \/ \E r \in requests : Receive(h, r)
  \/ \E b \in beats : SaveHeartbeat(b)
  \/ Restart

\* Senders retry with the right key, handlers go on, and a request or a reply
\* that is sent again and again gets through.
Fairness ==
  /\ \A h \in Handlers : WF_vars(Handle(h))
  /\ \A e \in Events :
       /\ WF_vars(\E b \in Bodies : Send(e, b, TRUE))
       /\ SF_vars(\E h \in Handlers, r \in requests : r.event = e /\ r.key /\ Receive(h, r))
       /\ SF_vars(\E r \in replies : r.event = e /\ r.status # "409" /\ Hear(r))

Spec == Init /\ [][Next]_vars /\ Fairness
-----------------------------------------------------------------------------
(***************************************************************************)
(* However requests are duplicated and handlers interleave, an event is    *)
(* answered 201 once between two restarts, and every sender that was told, *)
(* or is about to be told, that its event is known may rely on it being    *)
(* stored until the process restarts.                                      *)
(***************************************************************************)
Told == replies \cup UNION {decided[h] : h \in Handlers}

CreatedOnce ==
  /\ \A e \in Events : created[e] <= 1
  /\ restarts = 0 =>
       /\ acknowledged \subseteq DOMAIN stored
       /\ \A d \in Told : d.status # "409" => d.event \in DOMAIN stored

(***************************************************************************)
(* A stored event keeps the body it was accepted with, whatever later      *)
(* retries carry, until the process restarts.                              *)
(***************************************************************************)
FirstBodyStays ==
  [][restarts' = restarts =>
       \A e \in DOMAIN stored : e \in DOMAIN stored' /\ stored'[e] = stored[e]]_vars

(***************************************************************************)
(* Every sender is told in the end, in spite of losses, conflicts caused   *)
(* by wrong keys, and restarts.                                            *)
(***************************************************************************)
EveryEventAcknowledged == \A e \in Events : <>(e \in acknowledged)
=============================================================================
