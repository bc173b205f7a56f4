---------------------------- MODULE Desktop_proofs ----------------------------
(***************************************************************************)
(* Proofs about module Desktop, for frames of any width, any zones, skips, *)
(* queue lengths, browsers and persons.                                    *)
(***************************************************************************)
EXTENDS Desktop, SequenceTheorems, FiniteSetTheorems, TLAPS

(***************************************************************************)
(* Numbers: the skips count modulo their length, a cut-off count stays in  *)
(* its range, and the persons in a frame can be counted.                   *)
(***************************************************************************)
LEMMA SkipCounts ==
  ASSUME NEW n \in Nat \ {0}, NEW i \in 0 .. n - 1
  PROVE  /\ (i + 1) % n \in 0 .. n - 1
         /\ (i + 1) % n = 0 => i = n - 1
         /\ (i + 1) % n # 0 => (i + 1) % n = i + 1
<1>1. CASE i = n - 1
  BY <1>1
<1>2. CASE i # n - 1
  <2>1. i + 1 \in 1 .. n - 1
    BY <1>2
  <2>2. (i + 1) % n = i + 1
    BY <2>1
  <2>3. QED
    BY <1>2, <2>1, <2>2
<1>3. QED
  BY <1>1, <1>2

LEMMA CutOff ==
  ASSUME NEW a \in Int, NEW b \in Int
  PROVE  /\ Max({a, b}) = IF a >= b THEN a ELSE b
         /\ Min({a, b}) = IF a <= b THEN a ELSE b
<1>1. \E x \in {a, b} : \A y \in {a, b} : x >= y
  OBVIOUS
<1>2. \E x \in {a, b} : \A y \in {a, b} : x <= y
  OBVIOUS
<1>3. Max({a, b}) \in {a, b} /\ \A y \in {a, b} : Max({a, b}) >= y
  BY <1>1 DEF Max
<1>4. Min({a, b}) \in {a, b} /\ \A y \in {a, b} : Min({a, b}) <= y
  BY <1>2 DEF Min
<1>5. QED
  BY <1>3, <1>4

LEMMA PersonsCounted ==
  ASSUME NEW S \in SUBSET Person
  PROVE  Cardinality(S) \in Nat
<1> DEFINE place(p) == [at |-> p[1], lacks |-> p[2]]
           f == [p \in Positions \X BOOLEAN |-> place(p)]
<1>1. IsFiniteSet(Positions \X BOOLEAN)
  <2>1. IsFiniteSet(Positions)
    <3>1. 0 \in Int /\ Width - 1 \in Int
      BY DesktopAssumption
    <3>2. QED
      BY <3>1, FS_Interval DEF Positions
  <2>2. IsFiniteSet(BOOLEAN)
    <3>1. BOOLEAN = {TRUE} \cup {FALSE}
      OBVIOUS
    <3>2. IsFiniteSet({TRUE})
      BY FS_Singleton
    <3>3. IsFiniteSet({TRUE} \cup {FALSE})
      BY <3>2, FS_AddElement
    <3>4. QED
      BY <3>1, <3>3
  <2>3. QED
    BY <2>1, <2>2, FS_Product
<1>2. f \in Surjection(Positions \X BOOLEAN, Person)
  <2>1. f \in [Positions \X BOOLEAN -> Person]
    BY DEF Person
  <2>2. ASSUME NEW q \in Person
        PROVE  \E p \in Positions \X BOOLEAN : f[p] = q
    <3>1. <<q.at, q.lacks>> \in Positions \X BOOLEAN
      BY DEF Person
    <3>2. f[<<q.at, q.lacks>>] = q
      BY <3>1 DEF Person
    <3>3. QED
      BY <3>1, <3>2
  <2>3. QED
    BY <2>1, <2>2 DEF Surjection
<1> HIDE DEF f
<1>3. IsFiniteSet(Person)
  BY <1>1, <1>2, FS_Surjection
<1>4. QED
  BY <1>3, FS_Subset, FS_CardinalityType

-----------------------------------------------------------------------------
(***************************************************************************)
(* The type invariant in parts: of the camera threads, of the zones, of    *)
(* the signals and what they fill, and of the previews.                    *)
(***************************************************************************)
ThreadTypes ==
  /\ at \in [Cameras -> {"recv", "check", "draw"}]
  /\ count \in [Cameras -> 0 .. FrameSkip - 1] /\ checks \in 0 .. ClassifyEvery - 1
  /\ view \in [Cameras -> SUBSET Person] /\ alerts \in [Cameras -> Nat]
  /\ disconnected \in [Cameras -> BOOLEAN]
  /\ baseline \in BOOLEAN /\ modelOk \in BOOLEAN
  /\ frames \in [Cameras -> Nat]
  /\ since \in [Cameras -> Nat] /\ used \in [Cameras -> Nat] /\ waited \in Nat

ZoneTypes ==
  /\ saving \subseteq Cameras
  /\ table \in [Cameras -> Roi] /\ zones \in [Cameras -> Roi]
  /\ \A c \in Cameras \ saving : zones[c] = table[c]

Event == [camera : Cameras, shows : Images \cup {"alert"}]

SignalTypes ==
  /\ signals \in Seq(Event)
  /\ entries \in 0 .. ListSize
  /\ widget \in [Cameras -> Images \cup {"none"}]

PreviewTypes ==
  /\ preview \in 0 .. (IF main = "put" THEN QueueSize - 1 ELSE QueueSize)
  /\ main \in {"idle", "full", "put", "set"}
  /\ event \in BOOLEAN /\ undrained \in BOOLEAN
  /\ client \in [Clients -> {"absent", "waiting", "woken", "draining", "sending", "ended"}]

LEMMA TypeParts == TypeOK <=> ThreadTypes /\ ZoneTypes /\ SignalTypes /\ PreviewTypes
BY DEF TypeOK, ThreadTypes, ZoneTypes, SignalTypes, PreviewTypes, Event

LEMMA SkipType ==
  /\ FrameSkip \in Nat \ {0} /\ ClassifyEvery \in Nat \ {0}
  /\ QueueSize \in Nat \ {0} /\ ListSize \in Nat \ {0}
BY DesktopAssumption

\* What receiving and counting a frame does to the thread of camera c.
LEMMA Counted ==
  ASSUME ThreadTypes, NEW c \in Cameras, Receive(c), Count(c)
  PROVE  /\ frames' \in [Cameras -> Nat]
         /\ disconnected' = [disconnected EXCEPT ![c] = FALSE]
         /\ count' \in [Cameras -> 0 .. FrameSkip - 1]
         /\ count' = [count EXCEPT ![c] = (count[c] + 1) % FrameSkip]
<1>1. (count[c] + 1) % FrameSkip \in 0 .. FrameSkip - 1
  <2>1. count[c] \in 0 .. FrameSkip - 1
    BY DEF ThreadTypes
  <2>2. QED
    BY <2>1, SkipType, SkipCounts
<1>2. QED
  BY <1>1 DEF Receive, Count, ThreadTypes

LEMMA CameraTypes ==
  ASSUME ThreadTypes, ZoneTypes, NEW c \in Cameras, Timeout(c) \/ Camera(c)
  PROVE  ThreadTypes'
<1>1. CASE Timeout(c)
  BY <1>1 DEF Timeout, ThreadTypes
<1>2. CASE Undecodable(c)
  BY <1>2 DEF Undecodable, Receive, ThreadTypes
<1>3. ASSUME waited' \in Nat, Receive(c) /\ Count(c),
             UNCHANGED <<at, view, alerts, checks, since, used>>,
             baseline' \in BOOLEAN /\ modelOk' \in BOOLEAN
      PROVE  ThreadTypes'
  <2>1. disconnected' \in [Cameras -> BOOLEAN]
    BY <1>3, Counted DEF ThreadTypes
  <2>2. QED
    BY <1>3, <2>1, Counted DEF ThreadTypes
<1>4. CASE Skip(c)
  <2>1. waited' \in Nat
    BY <1>4 DEF Skip, Wait, ThreadTypes
  <2>2. QED
    BY <1>3, <1>4, <2>1 DEF Skip, ThreadTypes
<1>5. CASE NoMotion(c)
  BY <1>3, <1>5 DEF NoMotion, ThreadTypes
<1>6. CASE DetectFails(c)
  BY <1>3, <1>6 DEF DetectFails, ThreadTypes
<1>7. ASSUME NEW seen \in Views, Detect(c, seen)
      PROVE  ThreadTypes'
  <2>1. {p \in seen : p.at \in Crop(zones[c].area)} \in SUBSET Person
    BY DesktopAssumption
  <2>2. zones[c].version \in Nat /\ table[c].version \in Nat
    BY DEF ZoneTypes, Roi
  <2> DEFINE crop == {p \in seen : p.at \in Crop(zones[c].area)}
  <2>3. /\ at' = [at EXCEPT ![c] = "check"]
        /\ view' = [view EXCEPT ![c] = crop]
        /\ UNCHANGED <<alerts, checks>>
    BY <1>7 DEF Detect
  <2>4. /\ since' \in [Cameras -> Nat]
        /\ used' \in [Cameras -> Nat]
    BY <1>7, <2>2 DEF Detect, ThreadTypes
  <2>5. waited' \in Nat /\ baseline' \in BOOLEAN /\ modelOk' \in BOOLEAN
    <3>1. waited' \in Nat
      BY <1>7 DEF Detect, Wait, ThreadTypes
    <3>2. (baseline' = TRUE /\ modelOk' = TRUE) \/ UNCHANGED <<baseline, modelOk>>
      BY <1>7 DEF Detect
    <3>3. QED
      BY <3>1, <3>2 DEF ThreadTypes
  <2>6. Receive(c) /\ Count(c)
    BY <1>7 DEF Detect
  <2> HIDE DEF crop
  <2>7. view' \in [Cameras -> SUBSET Person]
    BY <2>1, <2>3 DEF ThreadTypes, crop
  <2>8. disconnected' \in [Cameras -> BOOLEAN]
    BY <2>6, Counted DEF ThreadTypes
  <2>9. QED
    BY <2>3, <2>4, <2>5, <2>6, <2>7, <2>8, Counted DEF ThreadTypes
<1>8. QED
  BY <1>1, <1>2, <1>4, <1>5, <1>6, <1>7 DEF Camera

LEMMA CheckTypes ==
  ASSUME ThreadTypes, ZoneTypes, NEW c \in Cameras, Check(c) \/ Draw(c)
  PROVE  ThreadTypes'
<1>1. CASE Check(c)
  <2>1. InZone(c) \in Nat /\ Lacking(c) \in Nat
    <3>1. view[c] \in SUBSET Person
      BY DEF ThreadTypes
    <3>2. /\ {p \in view[c] : p.at \in zones[c].area} \in SUBSET Person
          /\ {p \in view[c] : p.lacks} \in SUBSET Person
      BY <3>1
    <3>3. QED
      BY <3>2, PersonsCounted DEF InZone, Lacking
  <2>2. (checks + 1) % ClassifyEvery \in 0 .. ClassifyEvery - 1
    BY SkipType, SkipCounts DEF ThreadTypes
  <2>3. alerts' \in [Cameras -> Nat] /\ checks' \in 0 .. ClassifyEvery - 1 /\ waited' \in Nat
    BY <1>1, <2>1, <2>2 DEF Check, PpeCheck, ThreadTypes
  <2>4. zones[c].version \in Nat
    BY DEF ZoneTypes, Roi
  <2>5. /\ at' = [at EXCEPT ![c] = "draw"] /\ used' = [used EXCEPT ![c] = zones[c].version]
        /\ UNCHANGED <<frames, count, disconnected, view, baseline, modelOk, since>>
    BY <1>1 DEF Check
  <2>6. QED
    BY <2>3, <2>4, <2>5 DEF ThreadTypes
<1>2. CASE Draw(c)
  BY <1>2 DEF Draw, ThreadTypes
<1>3. QED
  BY <1>1, <1>2

\* Everybody else leaves the camera threads alone.
LEMMA OthersLeaveThreads ==
  ASSUME \/ \E c \in Cameras, area \in Areas : SaveRoi(c, area)
         \/ MainThread \/ Reload \/ \E b \in Clients : Browser(b)
  PROVE  UNCHANGED <<frames, frameVars>>
BY DEF SaveRoi, MainThread, ShowFrame, DropOldest, ListAlert, Reload, Browser

LEMMA ThreadStep ==
  ASSUME ThreadTypes, ZoneTypes, [Next]_vars
  PROVE  ThreadTypes'
<1>1. CASE UNCHANGED <<frames, frameVars>>
  BY <1>1 DEF frameVars, ThreadTypes
<1>2. CASE UNCHANGED vars
  BY <1>1, <1>2 DEF vars
<1>3. QED
  BY <1>1, <1>2, CameraTypes, CheckTypes, OthersLeaveThreads DEF Next

LEMMA ZoneStep ==
  ASSUME ZoneTypes, [Next]_vars
  PROVE  ZoneTypes'
<1>1. CASE UNCHANGED roiVars
  BY <1>1 DEF roiVars, ZoneTypes
<1>2. ASSUME NEW c \in Cameras, NEW area \in Areas, SaveRoi(c, area)
      PROVE  ZoneTypes'
  <2>1. [version |-> table[c].version + 1, area |-> area] \in Roi
    BY DEF ZoneTypes, Roi
  <2>2. QED
    BY <1>2, <2>1 DEF SaveRoi, ZoneTypes
<1>3. CASE Reload
  BY <1>3 DEF Reload, ZoneTypes
<1>4. ASSUME NEW c \in Cameras, Timeout(c) \/ Camera(c) \/ Check(c) \/ Draw(c)
      PROVE  UNCHANGED roiVars
  BY <1>4 DEF Timeout, Camera, Undecodable, Skip, NoMotion, DetectFails, Detect, Check, Draw
<1>5. CASE MainThread \/ \E b \in Clients : Browser(b)
  BY <1>1, <1>5 DEF MainThread, ShowFrame, DropOldest, ListAlert, Browser
<1>6. CASE UNCHANGED vars
  BY <1>1, <1>6 DEF vars
<1>7. QED
  BY <1>1, <1>2, <1>3, <1>4, <1>5, <1>6 DEF Next

\* A camera's signals are signals, appended one by one or all together.
LEMMA SignalType ==
  ASSUME NEW c \in Cameras, NEW what \in Images \cup {"alert"}
  PROVE  Signal(c, what) \in Event
BY DEF Signal, Event

LEMMA EmitType ==
  ASSUME SignalTypes, NEW c \in Cameras, NEW what \in Images \cup {"alert"}, Emit(c, what)
  PROVE  signals' \in Seq(Event)
BY SignalType, AppendProperties DEF Emit, SignalTypes

LEMMA DrawType ==
  ASSUME ThreadTypes, SignalTypes, NEW c \in Cameras, Draw(c)
  PROVE  signals' \in Seq(Event)
<1> DEFINE more == [i \in 1 .. alerts[c] |-> Signal(c, "alert")]
<1>1. alerts[c] \in Nat
  BY DEF ThreadTypes
<1>2. more \in [1 .. alerts[c] -> Event]
  BY SignalType
<1>3. more \in Seq(Event)
  BY <1>1, <1>2
<1>4. Append(signals, Signal(c, "overlay")) \in Seq(Event)
  BY SignalType, AppendProperties DEF SignalTypes, Images
<1>5. signals' = Append(signals, Signal(c, "overlay")) \o more
  BY DEF Draw
<1> HIDE DEF more
<1>6. QED
  BY <1>3, <1>4, <1>5, ConcatProperties

LEMMA SignalStep ==
  ASSUME ThreadTypes, SignalTypes, [Next]_vars
  PROVE  SignalTypes'
<1>1. CASE UNCHANGED <<signals, entries, widget>>
  BY <1>1 DEF SignalTypes
<1>2. ASSUME NEW c \in Cameras, Timeout(c) \/ Camera(c) \/ Draw(c)
      PROVE  SignalTypes'
  <2>1. UNCHANGED <<entries, widget>>
    BY <1>2 DEF Timeout, Camera, Undecodable, Skip, NoMotion, DetectFails, Detect, Draw, mainVars
  <2>2. \/ Emit(c, "disconnected") \/ Emit(c, "raw") \/ Emit(c, "offline")
        \/ UNCHANGED signals \/ Draw(c)
    BY <1>2 DEF Timeout, Camera, Undecodable, Skip, NoMotion, DetectFails, Detect
  <2>3. {"disconnected", "raw", "offline"} \subseteq Images \cup {"alert"}
    BY DEF Images
  <2>4. signals' \in Seq(Event)
    BY <2>2, <2>3, EmitType, DrawType DEF SignalTypes
  <2>5. QED
    BY <2>1, <2>4 DEF SignalTypes
<1>3. CASE ShowFrame \/ ListAlert
  <2>1. signals # <<>> /\ signals' = Tail(signals)
    BY <1>3 DEF ShowFrame, ListAlert
  <2>2. Head(signals) \in Event /\ signals' \in Seq(Event)
    BY <2>1, HeadTailProperties DEF SignalTypes
  <2>3. widget' \in [Cameras -> Images \cup {"none"}]
    <3>1. Head(signals).camera \in Cameras /\ Head(signals).shows \in Images \cup {"alert"}
      BY <2>2 DEF Event
    <3>2. QED
      BY <1>3, <3>1 DEF ShowFrame, ListAlert, SignalTypes
  <2>4. entries' \in 0 .. ListSize
    <3>1. entries \in Int /\ entries >= 0 /\ entries <= ListSize /\ ListSize \in Nat
      BY SkipType DEF SignalTypes
    <3>2. Min({entries + 1, ListSize}) = IF entries + 1 <= ListSize THEN entries + 1 ELSE ListSize
      <4>1. entries + 1 \in Int /\ ListSize \in Int
        BY <3>1
      <4>2. QED
        BY <4>1, CutOff
    <3>3. Min({entries + 1, ListSize}) \in 0 .. ListSize
      BY <3>1, <3>2
    <3>4. QED
      BY <1>3, <3>1, <3>3 DEF ShowFrame, ListAlert
  <2>5. QED
    BY <2>2, <2>3, <2>4 DEF SignalTypes
<1>4. CASE UNCHANGED vars
  BY <1>1, <1>4 DEF vars, mainVars
<1>5. ASSUME NEW c \in Cameras, Check(c) \/ \E area \in Areas : SaveRoi(c, area)
      PROVE  SignalTypes'
  BY <1>1, <1>5 DEF Check, SaveRoi, mainVars
<1>6. CASE Reload \/ \E b \in Clients : Browser(b)
  BY <1>1, <1>6 DEF Reload, Browser, mainVars
<1>7. CASE DropOldest \/ (Push /\ UNCHANGED <<frames, frameVars, roiVars, signals, widget, entries, client>>)
  BY <1>1, <1>7 DEF DropOldest
<1>8. QED
  BY <1>2, <1>3, <1>4, <1>5, <1>6, <1>7 DEF Next, MainThread

\* The main thread and the browsers share the previews; nobody else touches them.
LEMMA PreviewOthers ==
  ASSUME \/ \E c \in Cameras : Timeout(c) \/ Camera(c) \/ Check(c) \/ Draw(c)
         \/ \E c \in Cameras, area \in Areas : SaveRoi(c, area)
         \/ Reload \/ ListAlert \/ UNCHANGED vars
  PROVE  UNCHANGED <<preview, event, undrained, main, client>>
<1>1. CASE \E c \in Cameras : Timeout(c) \/ Check(c) \/ Draw(c)
  BY <1>1 DEF Timeout, Check, Draw, previewVars, mainVars
<1>2. CASE \E c \in Cameras : Camera(c)
  BY <1>2 DEF Camera, Undecodable, Skip, NoMotion, DetectFails, Detect, previewVars, mainVars
<1>3. CASE \E c \in Cameras, area \in Areas : SaveRoi(c, area)
  BY <1>3 DEF SaveRoi, previewVars, mainVars
<1>4. CASE Reload \/ ListAlert \/ UNCHANGED vars
  BY <1>4 DEF Reload, ListAlert, vars, previewVars, mainVars
<1>5. QED
  BY <1>1, <1>2, <1>3, <1>4

\* How many previews a step of the main thread or a browser leaves.
LEMMA PreviewCount ==
  ASSUME PreviewTypes
  PROVE  /\ preview \in Nat /\ preview <= QueueSize /\ QueueSize \in Nat \ {0}
         /\ main = "put" => preview <= QueueSize - 1
         /\ Max({0, preview - 1}) \in 0 .. QueueSize - 1 /\ Max({0, preview - 1}) <= preview
<1>1. preview \in Int /\ QueueSize \in Nat \ {0}
  BY SkipType DEF PreviewTypes
<1>2. preview >= 0 /\ preview <= QueueSize /\ (main = "put" => preview <= QueueSize - 1)
  BY <1>1 DEF PreviewTypes
<1>3. Max({0, preview - 1}) = IF 0 >= preview - 1 THEN 0 ELSE preview - 1
  BY <1>1, CutOff
<1>4. QED
  BY <1>1, <1>2, <1>3

LEMMA PreviewStep ==
  ASSUME PreviewTypes, [Next]_vars
  PROVE  PreviewTypes'
<1>1. CASE UNCHANGED <<preview, event, undrained, main, client>>
  BY <1>1 DEF PreviewTypes
<1>2. CASE ShowFrame
  <2>1. UNCHANGED <<preview, event, undrained, client>>
    BY <1>2 DEF ShowFrame, previewVars
  <2>2. main' = IF preview = QueueSize THEN "full" ELSE "put"
    BY <1>2 DEF ShowFrame
  <2>3. preview' \in 0 .. (IF main' = "put" THEN QueueSize - 1 ELSE QueueSize)
    BY <2>1, <2>2, PreviewCount
  <2>4. QED
    BY <2>1, <2>2, <2>3 DEF PreviewTypes
<1>3. CASE DropOldest
  <2>1. UNCHANGED <<event, undrained, client>> /\ main' = "put" /\ preview' = Max({0, preview - 1})
    BY <1>3 DEF DropOldest
  <2>2. QED
    BY <2>1, PreviewCount DEF PreviewTypes
<1>4. CASE Push /\ UNCHANGED client
  <2>1. CASE main = "put" /\ preview' = preview + 1 /\ main' = "set" /\ UNCHANGED <<event, undrained>>
    <3>1. preview + 1 \in 0 .. QueueSize
      BY <2>1, PreviewCount
    <3>2. QED
      BY <1>4, <2>1, <3>1 DEF PreviewTypes
  <2>2. CASE main = "set" /\ event' = TRUE /\ undrained' = FALSE /\ main' = "idle" /\ UNCHANGED preview
    BY <1>4, <2>2 DEF PreviewTypes
  <2>3. CASE main = "put" /\ main' = "idle" /\ UNCHANGED <<preview, event, undrained>>
    <3>1. preview' \in 0 .. QueueSize
      BY <2>3, PreviewCount
    <3>2. QED
      BY <1>4, <2>3, <3>1 DEF PreviewTypes
  <2>4. QED
    BY <1>4, <2>1, <2>2, <2>3 DEF Push
<1>5. ASSUME NEW b \in Clients, Browser(b)
      PROVE  PreviewTypes'
  <2>1. main' = main
    BY <1>5 DEF Browser, mainVars
  <2>2. client' \in [Clients -> {"absent", "waiting", "woken", "draining", "sending", "ended"}]
    BY <1>5 DEF Browser, Connect, Wake, Clear, Take, SendFails, Become, PreviewTypes
  <2>3. event' \in BOOLEAN /\ undrained' \in BOOLEAN
    BY <1>5 DEF Browser, Connect, Wake, Clear, Take, SendFails, previewVars, PreviewTypes
  <2>4. preview' = preview \/ (preview # 0 /\ preview' = preview - 1)
    BY <1>5 DEF Browser, Connect, Wake, Clear, Take, SendFails, previewVars
  <2>5. preview' \in 0 .. (IF main' = "put" THEN QueueSize - 1 ELSE QueueSize)
    BY <2>1, <2>4, PreviewCount
  <2>6. QED
    BY <2>1, <2>2, <2>3, <2>5 DEF PreviewTypes
<1>6. QED
  BY <1>1, <1>2, <1>3, <1>4, <1>5, PreviewOthers DEF Next, MainThread

\* Every variable keeps its type: the zones in use are those saved unless a save
\* is under way, no list or queue outgrows its limit, and push_preview always
\* finds room for its preview.
THEOREM DesktopTypeCorrect == Spec => []TypeOK
<1>1. Init => TypeOK
  <2>1. ASSUME Init
        PROVE  ThreadTypes
    <3>1. 0 \in 0 .. FrameSkip - 1 /\ 0 \in 0 .. ClassifyEvery - 1
      BY SkipType
    <3>2. /\ count = [c \in Cameras |-> 0] /\ checks = 0 /\ frames = [c \in Cameras |-> 0]
          /\ at = [c \in Cameras |-> "recv"] /\ view = [c \in Cameras |-> {}]
          /\ alerts = [c \in Cameras |-> 0] /\ disconnected = [c \in Cameras |-> FALSE]
          /\ since = [c \in Cameras |-> 0] /\ used = [c \in Cameras |-> 0] /\ waited = 0
      BY <2>1 DEF Init
    <3>3. baseline \in BOOLEAN /\ modelOk \in BOOLEAN
      BY <2>1 DEF Init
    <3>4. QED
      BY <3>1, <3>2, <3>3 DEF ThreadTypes
  <2>2. ASSUME Init
        PROVE  ZoneTypes
    BY <2>2 DEF Init, ZoneTypes, Roi
  <2>3. ASSUME Init
        PROVE  SignalTypes
    BY <2>3, SkipType, EmptySeq DEF Init, SignalTypes
  <2>4. ASSUME Init
        PROVE  PreviewTypes
    <3>1. preview = 0 /\ main = "idle" /\ client = [b \in Clients |-> "absent"]
      BY <2>4 DEF Init
    <3>2. event \in BOOLEAN /\ undrained \in BOOLEAN
      BY <2>4 DEF Init
    <3>3. QED
      BY <3>1, <3>2, SkipType DEF PreviewTypes
  <2>5. QED
    BY <2>1, <2>2, <2>3, <2>4, TypeParts
<1>2. TypeOK /\ [Next]_vars => TypeOK'
  <2>1. SUFFICES ASSUME TypeOK, [Next]_vars
                 PROVE  ThreadTypes' /\ ZoneTypes' /\ SignalTypes' /\ PreviewTypes'
    BY DEF TypeOK, ThreadTypes, ZoneTypes, SignalTypes, PreviewTypes, Event
  <2>2. ThreadTypes /\ ZoneTypes /\ SignalTypes /\ PreviewTypes
    BY <2>1, TypeParts
  <2>3. QED
    BY <2>1, <2>2, ThreadStep, ZoneStep, SignalStep, PreviewStep
<1>3. QED
  BY <1>1, <1>2, PTL DEF Spec

-----------------------------------------------------------------------------
(***************************************************************************)
(* Previews: the property is inductive, given that the queue's length is   *)
(* a number.                                                               *)
(***************************************************************************)
LEMMA WakesStep ==
  ASSUME PreviewTypes, PreviewWakes, [Next]_vars
  PROVE  PreviewWakes'
<1> USE DEF PreviewWakes
<1>1. CASE UNCHANGED <<preview, event, undrained, main, client>>
  BY <1>1
<1>2. CASE ShowFrame
  BY <1>2 DEF ShowFrame, previewVars
<1>3. CASE DropOldest
  <2>1. /\ UNCHANGED <<event, undrained, client>> /\ main = "full"
        /\ preview' = Max({0, preview - 1})
    BY <1>3 DEF DropOldest
  <2>2. preview' > 0 => preview > 0
    BY <2>1, PreviewCount
  <2>3. QED
    BY <2>1, <2>2
<1>4. CASE Push /\ UNCHANGED client
  BY <1>4 DEF Push
<1>5. ASSUME NEW b \in Clients, Browser(b)
      PROVE  PreviewWakes'
  <2>1. main' = main /\ preview \in Nat
    BY <1>5, PreviewCount DEF Browser, mainVars
  <2>2. CASE Connect(b)
    BY <2>1, <2>2 DEF Connect, Become, previewVars, PreviewTypes
  <2>3. CASE Wake(b)
    BY <2>1, <2>3 DEF Wake, Become, previewVars, PreviewTypes
  <2>4. CASE Clear(b)
    BY <2>1, <2>4 DEF Clear, Become, PreviewTypes
  <2>5. CASE Take(b)
    BY <2>1, <2>5 DEF Take, Become, PreviewTypes
  <2>6. CASE SendFails(b)
    BY <2>1, <2>6 DEF SendFails, Become, PreviewTypes
  <2>7. QED
    BY <1>5, <2>2, <2>3, <2>4, <2>5, <2>6 DEF Browser
<1>6. QED
  BY <1>1, <1>2, <1>3, <1>4, <1>5, PreviewOthers DEF Next, MainThread

\* No wake-up is lost between push_preview and the coroutines of any number of
\* browsers: when previews are queued and the event is clear, the event is about
\* to be set, some browser is awake, or one failed while draining.
THEOREM NoLostWakeUp == Spec => []PreviewWakes
<1>1. Init => PreviewWakes
  BY DEF Init, PreviewWakes
<1>2. TypeOK /\ PreviewWakes /\ [Next]_vars => PreviewWakes'
  BY WakesStep, TypeParts
<1>3. QED
  BY <1>1, <1>2, DesktopTypeCorrect, PTL DEF Spec

-----------------------------------------------------------------------------
(***************************************************************************)
(* Zones: what was acknowledged when a frame came is no newer than the     *)
(* zones in use, whose versions only grow.                                 *)
(***************************************************************************)
ZoneInv ==
  \A c \in Cameras :
    /\ zones[c].version <= table[c].version
    /\ at[c] # "recv" => since[c] <= zones[c].version
    /\ at[c] = "draw" => used[c] >= since[c]

LEMMA Versions ==
  ASSUME ZoneTypes, NEW c \in Cameras
  PROVE  zones[c].version \in Nat /\ table[c].version \in Nat
BY DEF ZoneTypes, Roi

LEMMA ZoneInvStep ==
  ASSUME ThreadTypes, ZoneTypes, ZoneInv, [Next]_vars
  PROVE  ZoneInv'
<1>1. CASE UNCHANGED <<at, since, used, table, zones>>
  BY <1>1 DEF ZoneInv
<1>2. ASSUME NEW c \in Cameras, Timeout(c) \/ Undecodable(c) \/ Skip(c) \/ NoMotion(c)
                                \/ DetectFails(c)
      PROVE  ZoneInv'
  BY <1>1, <1>2 DEF Timeout, Undecodable, Skip, NoMotion, DetectFails, roiVars
<1>3. ASSUME NEW c \in Cameras, NEW seen \in Views, Detect(c, seen)
      PROVE  ZoneInv'
  <2>1. /\ at' = [at EXCEPT ![c] = "check"]
        /\ since' = [since EXCEPT ![c] = IF c \in saving THEN zones[c].version
                                                         ELSE table[c].version]
        /\ used' = [used EXCEPT ![c] = zones[c].version]
        /\ UNCHANGED <<table, zones>>
    BY <1>3 DEF Detect, roiVars
  <2>2. c \notin saving => zones[c] = table[c]
    BY DEF ZoneTypes
  <2>3. since'[c] = zones[c].version
    BY <2>1, <2>2 DEF ThreadTypes
  <2>4. \A d \in Cameras : d # c => at'[d] = at[d] /\ since'[d] = since[d] /\ used'[d] = used[d]
    BY <2>1 DEF ThreadTypes
  <2>5. at'[c] = "check" /\ zones[c].version \in Nat
    BY <2>1, Versions DEF ThreadTypes
  <2>6. QED
    BY <2>1, <2>3, <2>4, <2>5 DEF ZoneInv
<1>4. ASSUME NEW c \in Cameras, Check(c)
      PROVE  ZoneInv'
  <2>1. /\ at[c] = "check" /\ at' = [at EXCEPT ![c] = "draw"]
        /\ used' = [used EXCEPT ![c] = zones[c].version]
        /\ UNCHANGED <<since, table, zones>>
    BY <1>4 DEF Check, roiVars
  <2>2. zones[c].version \in Nat /\ since[c] \in Nat /\ since[c] <= zones[c].version
    BY <2>1, Versions DEF ZoneInv, ThreadTypes
  <2>3. QED
    BY <2>1, <2>2 DEF ZoneInv, ThreadTypes
<1>5. ASSUME NEW c \in Cameras, Draw(c)
      PROVE  ZoneInv'
  <2>1. /\ at' = [at EXCEPT ![c] = "recv"]
        /\ since' = [since EXCEPT ![c] = 0] /\ used' = [used EXCEPT ![c] = 0]
        /\ UNCHANGED <<table, zones>>
    BY <1>5 DEF Draw, roiVars
  <2>2. QED
    BY <2>1 DEF ZoneInv, ThreadTypes
<1>6. ASSUME NEW c \in Cameras, NEW area \in Areas, SaveRoi(c, area)
      PROVE  ZoneInv'
  <2> DEFINE new == [version |-> table[c].version + 1, area |-> area]
  <2>1. table' = [table EXCEPT ![c] = new] /\ UNCHANGED <<at, since, used, zones>>
    BY <1>6 DEF SaveRoi, frameVars
  <2>2. new.version = table[c].version + 1
    OBVIOUS
  <2> HIDE DEF new
  <2>3. \A d \in Cameras : zones[d].version <= table'[d].version
    BY <2>1, <2>2, Versions DEF ZoneInv, ZoneTypes
  <2>4. QED
    BY <2>1, <2>3 DEF ZoneInv
<1>7. CASE Reload
  <2>1. /\ zones' = [c \in Cameras |-> IF c \in saving THEN table[c] ELSE zones[c]]
        /\ UNCHANGED <<at, since, used, table>>
    BY <1>7 DEF Reload, frameVars
  <2>2. \A c \in Cameras : /\ zones[c].version <= zones'[c].version
                           /\ zones'[c].version <= table'[c].version
                           /\ zones'[c].version \in Nat
    BY <2>1, Versions DEF ZoneInv
  <2>3. \A c \in Cameras : at[c] # "recv" => since[c] <= zones'[c].version
    BY <2>2, Versions DEF ZoneInv, ThreadTypes
  <2>4. QED
    BY <2>1, <2>2, <2>3 DEF ZoneInv
<1>8. CASE MainThread \/ (\E b \in Clients : Browser(b)) \/ UNCHANGED vars
  BY <1>1, <1>8 DEF MainThread, ShowFrame, DropOldest, ListAlert, Browser, vars, frameVars, roiVars
<1>9. QED
  BY <1>2, <1>3, <1>4, <1>5, <1>6, <1>7, <1>8 DEF Next, Camera

\* A saved ROI takes effect: the persons of a frame that came after the PUT was
\* answered are never checked against an older ROI, wherever the web thread's
\* save and reload fall between the two reads of the camera thread.
THEOREM SavedRoiUsed == Spec => []SaveTakesEffect
<1>1. Init => ZoneInv
  BY DEF Init, ZoneInv
<1>2. TypeOK /\ ZoneInv /\ [Next]_vars => ZoneInv'
  BY ZoneInvStep, TypeParts
<1>3. ZoneInv => SaveTakesEffect
  BY DEF ZoneInv, SaveTakesEffect
<1>4. QED
  BY <1>1, <1>2, <1>3, DesktopTypeCorrect, PTL DEF Spec

-----------------------------------------------------------------------------
(***************************************************************************)
(* The two skips: waited is below what the two counters account for.  The  *)
(* frame that is being checked completes a turn of the frame counter.      *)
(***************************************************************************)
SkipInv ==
  IF at["cam2"] = "check" THEN waited <= checks * FrameSkip + FrameSkip
  ELSE waited <= checks * FrameSkip + count["cam2"]

\* What the counters are worth, as numbers.
LEMMA SkipNumbers ==
  ASSUME ThreadTypes
  PROVE  /\ checks * FrameSkip \in Nat /\ FrameSkip \in Nat \ {0} /\ waited \in Nat
         /\ count["cam2"] \in 0 .. FrameSkip - 1
         /\ checks \in 0 .. ClassifyEvery - 1 /\ ClassifyEvery \in Nat \ {0}
         /\ checks * FrameSkip + FrameSkip <= FrameSkip * ClassifyEvery
         /\ (checks + 1) * FrameSkip = checks * FrameSkip + FrameSkip
<1>1. /\ checks \in Nat /\ checks + 1 <= ClassifyEvery /\ ClassifyEvery \in Nat \ {0}
      /\ FrameSkip \in Nat \ {0} /\ waited \in Nat /\ count["cam2"] \in 0 .. FrameSkip - 1
  BY SkipType DEF ThreadTypes, Cameras
<1>2. \A a, b \in Nat, k \in Nat : a <= b => a * k <= b * k /\ a * k \in Nat
  OBVIOUS
<1>3. (checks + 1) * FrameSkip = checks * FrameSkip + FrameSkip
  BY <1>1
<1>4. (checks + 1) * FrameSkip <= ClassifyEvery * FrameSkip /\ checks * FrameSkip \in Nat
  BY <1>1, <1>2
<1>5. ClassifyEvery * FrameSkip = FrameSkip * ClassifyEvery
  BY <1>1
<1>6. QED
  BY <1>1, <1>3, <1>4, <1>5 DEF ThreadTypes

\* The steps that neither count nor check a frame of cam2.
LEMMA SkipKept ==
  ASSUME ThreadTypes, SkipInv, UNCHANGED <<waited, checks>>, count'["cam2"] = count["cam2"],
         at'["cam2"] = at["cam2"] \/ (at["cam2"] = "draw" /\ at'["cam2"] = "recv")
  PROVE  SkipInv'
BY DEF SkipInv

\* A frame of cam2 is counted; if it goes no further, the wait is over.
LEMMA SkipReceived ==
  ASSUME ThreadTypes, SkipInv, Camera("cam2")
  PROVE  SkipInv'
<1> DEFINE c == "cam2"
<1>1. c \in Cameras /\ count[c] \in 0 .. FrameSkip - 1 /\ at[c] = "recv"
  BY DEF Camera, Undecodable, Skip, NoMotion, DetectFails, Detect, Receive, Cameras, ThreadTypes
<1>2. waited <= checks * FrameSkip + count[c]
  BY <1>1 DEF SkipInv
<1>3. Count(c) => count'[c] = (count[c] + 1) % FrameSkip
  BY <1>1 DEF Count, ThreadTypes
<1>4. /\ (count[c] + 1) % FrameSkip = 0 => count[c] = FrameSkip - 1
      /\ (count[c] + 1) % FrameSkip # 0 => (count[c] + 1) % FrameSkip = count[c] + 1
      /\ (count[c] + 1) % FrameSkip \in Nat
  BY <1>1, SkipType, SkipCounts
<1> DEFINE turns == checks * FrameSkip
<1>5. turns \in Nat /\ waited \in Nat /\ FrameSkip \in Nat
  BY SkipNumbers
<1> HIDE DEF turns, c
<1>6. CASE Undecodable(c)
  BY <1>6, SkipKept DEF Undecodable, c
<1>7. CASE Skip(c)
  <2>1. /\ count'[c] = count[c] + 1 /\ waited' = waited + 1 /\ at'[c] = "recv"
        /\ checks' = checks
    BY <1>1, <1>3, <1>4, <1>7 DEF Skip, Processed, Wait, c
  <2>2. waited' <= turns + count'[c]
    BY <1>1, <1>2, <1>5, <2>1 DEF turns
  <2>3. QED
    BY <2>1, <2>2 DEF SkipInv, turns, c
<1>8. CASE NoMotion(c) \/ DetectFails(c)
  <2>1. waited' = 0 /\ checks' = checks /\ at'[c] = "recv" /\ count'[c] \in Nat
    BY <1>1, <1>3, <1>4, <1>8 DEF NoMotion, DetectFails
  <2>2. waited' <= turns + count'[c]
    BY <1>5, <2>1
  <2>3. QED
    BY <2>1, <2>2 DEF SkipInv, turns, c
<1>9. ASSUME NEW seen \in Views, Detect(c, seen)
      PROVE  SkipInv'
  <2>1. /\ count[c] = FrameSkip - 1 /\ waited' = waited + 1 /\ checks' = checks
        /\ at'[c] = "check"
    BY <1>1, <1>4, <1>9 DEF Detect, Processed, Wait, c, ThreadTypes
  <2>2. waited' <= turns + FrameSkip
    BY <1>2, <1>5, <2>1 DEF turns
  <2>3. QED
    BY <2>1, <2>2 DEF SkipInv, turns, c
<1>10. QED
  BY <1>6, <1>7, <1>8, <1>9 DEF Camera, c

\* The persons of a frame of cam2 are checked: they are classified, or the
\* frame has used up a turn.
LEMMA SkipChecked ==
  ASSUME ThreadTypes, SkipInv, Check("cam2")
  PROVE  SkipInv'
<1>1. /\ "cam2" \in Cameras /\ at["cam2"] = "check" /\ at'["cam2"] = "draw"
      /\ count' = count
  BY DEF Check, ThreadTypes, Cameras
<1>2. waited <= checks * FrameSkip + FrameSkip
  BY <1>1 DEF SkipInv
<1>3. /\ checks' = (checks + 1) % ClassifyEvery
      /\ waited' = IF (checks + 1) % ClassifyEvery = 0 THEN 0 ELSE waited
  BY DEF Check, PpeCheck
<1>4. (checks + 1) % ClassifyEvery # 0 => (checks + 1) % ClassifyEvery = checks + 1
  BY SkipNumbers, SkipCounts
<1>5. CASE (checks + 1) % ClassifyEvery = 0
  <2>1. waited' = 0 /\ checks' = 0 /\ count'["cam2"] \in Nat
    BY <1>1, <1>3, <1>5, SkipNumbers
  <2>2. 0 * FrameSkip = 0
    BY SkipType
  <2>3. waited' <= checks' * FrameSkip + count'["cam2"]
    BY <2>1, <2>2
  <2>4. QED
    BY <1>1, <2>3 DEF SkipInv
<1>6. CASE (checks + 1) % ClassifyEvery # 0
  <2>1. waited' = waited /\ checks' = checks + 1
    BY <1>3, <1>4, <1>6
  <2>2. checks' * FrameSkip = checks * FrameSkip + FrameSkip
    BY <2>1, SkipNumbers
  <2>3. count'["cam2"] \in Nat /\ checks * FrameSkip \in Nat /\ FrameSkip \in Nat /\ waited \in Nat
    BY <1>1, SkipNumbers
  <2>4. waited' <= checks' * FrameSkip + count'["cam2"]
    BY <1>2, <2>1, <2>2, <2>3
  <2>5. QED
    BY <1>1, <2>4 DEF SkipInv
<1>7. QED
  BY <1>5, <1>6

LEMMA SkipStep ==
  ASSUME ThreadTypes, SkipInv, [Next]_vars
  PROVE  SkipInv'
<1>1. CASE UNCHANGED <<at, count, checks, waited>>
  BY <1>1, SkipKept
<1>2. ASSUME NEW c \in Cameras, Timeout(c)
      PROVE  SkipInv'
  BY <1>1, <1>2 DEF Timeout
<1>3. ASSUME NEW c \in Cameras, c # "cam2", Camera(c)
      PROVE  SkipInv'
  <2>1. UNCHANGED <<waited, checks>> /\ count'["cam2"] = count["cam2"] /\ at'["cam2"] = at["cam2"]
    BY <1>3 DEF Camera, Undecodable, Skip, NoMotion, DetectFails, Detect, Wait, Count,
       ThreadTypes, Cameras
  <2>2. QED
    BY <2>1, SkipKept
<1>4. ASSUME NEW c \in Cameras, c # "cam2", Check(c)
      PROVE  SkipInv'
  <2>1. UNCHANGED <<waited, checks>> /\ count'["cam2"] = count["cam2"] /\ at'["cam2"] = at["cam2"]
    BY <1>4 DEF Check, PpeCheck, ThreadTypes, Cameras
  <2>2. QED
    BY <2>1, SkipKept
<1>5. ASSUME NEW c \in Cameras, Draw(c)
      PROVE  SkipInv'
  <2>1. /\ UNCHANGED <<waited, checks>> /\ count'["cam2"] = count["cam2"]
        /\ at'["cam2"] = at["cam2"] \/ (at["cam2"] = "draw" /\ at'["cam2"] = "recv")
    BY <1>5 DEF Draw, ThreadTypes, Cameras
  <2>2. QED
    BY <2>1, SkipKept
<1>6. CASE \/ \E c \in Cameras, area \in Areas : SaveRoi(c, area)
           \/ MainThread \/ Reload \/ \E b \in Clients : Browser(b)
  BY <1>1, <1>6, OthersLeaveThreads DEF frameVars
<1>7. CASE UNCHANGED vars
  BY <1>1, <1>7 DEF vars, frameVars
<1>8. QED
  BY <1>2, <1>3, <1>4, <1>5, <1>6, <1>7, SkipReceived, SkipChecked DEF Next

\* Among FrameSkip * ClassifyEvery decodable moving frames in a row that the
\* detector accepts, one is classified, for any lengths of the two skips.
THEOREM ClassifiedOften == Spec => []ClassifiedInTime
<1>1. Init => SkipInv
  <2>1. ASSUME Init
        PROVE  SkipInv
    <3>1. waited = 0 /\ checks = 0 /\ count["cam2"] = 0 /\ at["cam2"] = "recv"
      BY <2>1 DEF Init, Cameras
    <3>2. 0 * FrameSkip = 0
      BY SkipType
    <3>3. QED
      BY <3>1, <3>2 DEF SkipInv
  <2>2. QED
    BY <2>1
<1>2. TypeOK /\ SkipInv /\ [Next]_vars => SkipInv'
  BY SkipStep, TypeParts
<1>3. ASSUME TypeOK, SkipInv
      PROVE  ClassifiedInTime
  <2>1. SUFFICES ASSUME at["cam2"] = "recv"
                 PROVE  waited < FrameSkip * ClassifyEvery
    BY DEF ClassifiedInTime
  <2> DEFINE turns == checks * FrameSkip
             all == FrameSkip * ClassifyEvery
  <2>2. waited <= turns + count["cam2"]
    BY <1>3, <2>1 DEF SkipInv
  <2>3. /\ turns \in Nat /\ FrameSkip \in Nat /\ waited \in Nat
        /\ count["cam2"] \in 0 .. FrameSkip - 1 /\ turns + FrameSkip <= all
    BY <1>3, TypeParts, SkipNumbers
  <2>4. all \in Nat
    BY SkipType
  <2> HIDE DEF turns, all
  <2>5. waited < all
    BY <2>2, <2>3, <2>4
  <2>6. QED
    BY <2>5 DEF all
<1>4. QED
  BY <1>1, <1>2, <1>3, DesktopTypeCorrect, PTL DEF Spec

-----------------------------------------------------------------------------
(***************************************************************************)
(* Outages: what the last image of a camera says, given the signals still  *)
(* queued and the image its widget shows.                                  *)
(***************************************************************************)
ImageIn(queue, c, i) == queue[i].camera = c /\ queue[i].shows # "alert"

SaysOut(c, queue, image) ==
  \/ image = "disconnected" /\ \A i \in 1 .. Len(queue) : ~ImageIn(queue, c, i)
  \/ \E last \in 1 .. Len(queue) :
       /\ ImageIn(queue, c, last) /\ queue[last].shows = "disconnected"
       /\ \A i \in 1 .. Len(queue) : ImageIn(queue, c, i) => i <= last

LEMMA ShownOut == OutageShown <=> \A c \in Cameras : disconnected[c] => SaysOut(c, signals, widget[c])
BY DEF OutageShown, SaysOut, ImageOf, ImageIn

\* Signals of the other camera, or alerts, do not change it.
LEMMA OthersQueued ==
  ASSUME NEW c, NEW image, NEW r \in Seq(Event), NEW s \in Seq(Event), SaysOut(c, s, image),
         Len(s) <= Len(r), \A i \in 1 .. Len(s) : r[i] = s[i],
         \A i \in 1 .. Len(r) : i > Len(s) => ~ImageIn(r, c, i)
  PROVE  SaysOut(c, r, image)
<1>1. Len(s) \in Nat /\ Len(r) \in Nat
  BY LenProperties
<1>2. \A i \in 1 .. Len(r) : ImageIn(r, c, i) => i \in 1 .. Len(s) /\ ImageIn(s, c, i)
  BY <1>1 DEF ImageIn
<1>3. \A i \in 1 .. Len(s) : i \in 1 .. Len(r) /\ (ImageIn(s, c, i) <=> ImageIn(r, c, i))
  BY <1>1 DEF ImageIn
<1>4. CASE image = "disconnected" /\ \A i \in 1 .. Len(s) : ~ImageIn(s, c, i)
  BY <1>2, <1>4 DEF SaysOut
<1>5. CASE \E last \in 1 .. Len(s) :
             /\ ImageIn(s, c, last) /\ s[last].shows = "disconnected"
             /\ \A i \in 1 .. Len(s) : ImageIn(s, c, i) => i <= last
  <2>1. PICK last \in 1 .. Len(s) :
          /\ ImageIn(s, c, last) /\ s[last].shows = "disconnected"
          /\ \A i \in 1 .. Len(s) : ImageIn(s, c, i) => i <= last
    BY <1>5
  <2>2. last \in 1 .. Len(r) /\ ImageIn(r, c, last) /\ r[last].shows = "disconnected"
    BY <1>3, <2>1
  <2>3. \A i \in 1 .. Len(r) : ImageIn(r, c, i) => i <= last
    BY <1>2, <2>1
  <2>4. QED
    BY <2>2, <2>3 DEF SaysOut
<1>6. QED
  BY <1>4, <1>5 DEF SaysOut

\* The camera's own report of an outage is the last image.
LEMMA OutageQueued ==
  ASSUME NEW c \in Cameras, NEW image, NEW s \in Seq(Event)
  PROVE  SaysOut(c, Append(s, Signal(c, "disconnected")), image)
<1> DEFINE e == Signal(c, "disconnected")
           r == Append(s, e)
           n == Len(s) + 1
<1>1. e \in Event /\ e.camera = c /\ e.shows = "disconnected"
  BY DEF Signal, Event, Images
<1> HIDE DEF e
<1>2. Len(s) \in Nat /\ Len(r) = n /\ r[n] = e
  BY <1>1, LenProperties, AppendProperties
<1> HIDE DEF r
<1>3. n \in 1 .. Len(r) /\ \A i \in 1 .. Len(r) : i <= n
  BY <1>2
<1>4. ImageIn(r, c, n) /\ r[n].shows = "disconnected"
  BY <1>1, <1>2 DEF ImageIn
<1>5. SaysOut(c, r, image)
  BY <1>3, <1>4 DEF SaysOut
<1>6. QED
  BY <1>5 DEF r, e

\* The main thread handles the first signal: an image of the camera is shown.
LEMMA Handled ==
  ASSUME NEW c, NEW image, NEW s \in Seq(Event), s # <<>>, SaysOut(c, s, image),
         NEW next, next = IF ImageIn(s, c, 1) THEN s[1].shows ELSE image
  PROVE  SaysOut(c, Tail(s), next)
<1> DEFINE r == Tail(s)
<1>1. Len(s) \in Nat \ {0} /\ Len(r) = Len(s) - 1 /\ \A i \in 1 .. Len(r) : r[i] = s[i + 1]
  BY LenProperties, EmptySeq, HeadTailProperties
<1> HIDE DEF r
<1>2. /\ \A i \in 1 .. Len(r) : i + 1 \in 1 .. Len(s) /\ (ImageIn(r, c, i) <=> ImageIn(s, c, i + 1))
      /\ 1 \in 1 .. Len(s)
  BY <1>1 DEF ImageIn
<1>3. CASE image = "disconnected" /\ \A i \in 1 .. Len(s) : ~ImageIn(s, c, i)
  BY <1>2, <1>3 DEF SaysOut, r
<1>4. ASSUME NEW last \in 1 .. Len(s), ImageIn(s, c, last), s[last].shows = "disconnected",
             \A i \in 1 .. Len(s) : ImageIn(s, c, i) => i <= last
      PROVE  SaysOut(c, r, next)
  <2>1. CASE last = 1
    <3>1. next = "disconnected"
      BY <1>4, <2>1
    <3>2. \A i \in 1 .. Len(r) : ~ImageIn(r, c, i)
      <4>1. \A i \in 1 .. Len(r) : ~(i + 1 <= 1)
        BY <1>1
      <4>2. QED
        BY <1>2, <1>4, <2>1, <4>1
    <3>3. QED
      BY <3>1, <3>2 DEF SaysOut
  <2>2. CASE last # 1
    <3>1. last - 1 \in 1 .. Len(r) /\ (last - 1) + 1 = last
      BY <1>1, <2>2
    <3>2. ImageIn(r, c, last - 1) /\ r[last - 1].shows = "disconnected"
      BY <1>1, <1>2, <1>4, <3>1
    <3>3. \A i \in 1 .. Len(r) : ImageIn(r, c, i) => i <= last - 1
      <4>1. ASSUME NEW i \in 1 .. Len(r), ImageIn(r, c, i)
            PROVE  i <= last - 1
        <5>1. i + 1 <= last
          BY <1>2, <1>4, <4>1
        <5>2. QED
          BY <1>1, <5>1
      <4>2. QED
        BY <4>1
    <3>4. QED
      BY <3>1, <3>2, <3>3 DEF SaysOut
  <2>3. QED
    BY <2>1, <2>2
<1>5. QED
  BY <1>3, <1>4 DEF SaysOut, r

\* With it: a thread that handles a frame is in no outage.
OutInv ==
  \A c \in Cameras : /\ disconnected[c] => SaysOut(c, signals, widget[c])
                     /\ at[c] # "recv" => ~disconnected[c]

\* The thread of camera c adds signals of its own; its outage begins with
\* a report and ends with a frame.
LEMMA OutCamera ==
  ASSUME ThreadTypes, SignalTypes, OutInv, NEW c \in Cameras,
         NEW r \in Seq(Event), signals' = r, widget' = widget,
         Len(signals) <= Len(r), \A i \in 1 .. Len(signals) : r[i] = signals[i],
         \A i \in 1 .. Len(r) : i > Len(signals) => r[i].camera = c,
         \A d \in Cameras : d # c => disconnected'[d] = disconnected[d] /\ at'[d] = at[d],
         disconnected'[c] => at'[c] = "recv" /\ SaysOut(c, r, widget[c])
  PROVE  OutInv'
<1>1. signals \in Seq(Event)
  BY DEF SignalTypes
<1>2. ASSUME NEW d \in Cameras, d # c, disconnected[d]
      PROVE  SaysOut(d, r, widget[d])
  <2>1. SaysOut(d, signals, widget[d])
    BY <1>2 DEF OutInv
  <2>2. \A i \in 1 .. Len(r) : i > Len(signals) => ~ImageIn(r, d, i)
    BY <1>2 DEF ImageIn
  <2>3. QED
    BY <1>1, <2>1, <2>2, OthersQueued
<1>3. QED
  BY <1>2 DEF OutInv

LEMMA Appended ==
  ASSUME SignalTypes, NEW c \in Cameras, NEW what \in Images \cup {"alert"}, Emit(c, what)
  PROVE  /\ signals' \in Seq(Event) /\ Len(signals) <= Len(signals')
         /\ \A i \in 1 .. Len(signals) : signals'[i] = signals[i]
         /\ \A i \in 1 .. Len(signals') : i > Len(signals) => signals'[i].camera = c
<1> DEFINE e == Signal(c, what)
<1>1. e \in Event /\ e.camera = c /\ signals \in Seq(Event) /\ signals' = Append(signals, e)
  BY SignalType DEF Signal, Emit, SignalTypes
<1> HIDE DEF e
<1>2. /\ signals' \in Seq(Event) /\ Len(signals') = Len(signals) + 1 /\ Len(signals) \in Nat
      /\ signals'[Len(signals) + 1] = e /\ \A i \in 1 .. Len(signals) : signals'[i] = signals[i]
  BY <1>1, AppendProperties, LenProperties
<1>3. \A i \in 1 .. Len(signals') : i > Len(signals) => i = Len(signals) + 1
  BY <1>2
<1>4. QED
  BY <1>1, <1>2, <1>3

LEMMA DrawAppended ==
  ASSUME ThreadTypes, SignalTypes, NEW c \in Cameras, Draw(c)
  PROVE  /\ signals' \in Seq(Event) /\ Len(signals) <= Len(signals')
         /\ \A i \in 1 .. Len(signals) : signals'[i] = signals[i]
         /\ \A i \in 1 .. Len(signals') : i > Len(signals) => signals'[i].camera = c
<1> DEFINE e == Signal(c, "overlay")
           front == Append(signals, e)
           more == [i \in 1 .. alerts[c] |-> Signal(c, "alert")]
           n == alerts[c]
<1>1. n \in Nat /\ signals \in Seq(Event) /\ signals' = front \o more
  BY DEF ThreadTypes, SignalTypes, Draw
<1>2. e \in Event /\ e.camera = c
  BY SignalType DEF Signal, Images
<1>3. more \in Seq(Event) /\ Len(more) = n /\ \A i \in 1 .. n : more[i].camera = c
  <2>1. more \in [1 .. n -> Event]
    BY SignalType
  <2>2. more \in Seq(Event) /\ Len(more) = n
    <3> HIDE DEF more, n
    <3>1. more \in Seq(Event)
      BY <1>1, <2>1
    <3>2. DOMAIN more = 1 .. Len(more) /\ Len(more) \in Nat /\ DOMAIN more = 1 .. n
      BY <2>1, <3>1, LenProperties
    <3>3. \A k, m \in Nat : 1 .. k = 1 .. m => k = m
      <4>1. ASSUME NEW k \in Nat, NEW m \in Nat, k < m
            PROVE  m \in 1 .. m /\ m \notin 1 .. k
        BY <4>1
      <4>2. QED
        BY <4>1
    <3>4. QED
      BY <1>1, <3>1, <3>2, <3>3
  <2>3. QED
    BY <2>2 DEF Signal
<1> HIDE DEF e, more, n
<1>4. /\ front \in Seq(Event) /\ Len(front) = Len(signals) + 1 /\ Len(signals) \in Nat
      /\ front[Len(signals) + 1] = e /\ \A i \in 1 .. Len(signals) : front[i] = signals[i]
  BY <1>1, <1>2, AppendProperties, LenProperties
<1> HIDE DEF front
<1>5. /\ signals' \in Seq(Event) /\ Len(signals') = Len(front) + n
      /\ \A i \in 1 .. Len(front) + n :
           signals'[i] = IF i <= Len(front) THEN front[i] ELSE more[i - Len(front)]
  BY <1>1, <1>3, <1>4, ConcatProperties
<1>6. ASSUME NEW i \in 1 .. Len(signals'), i > Len(signals)
      PROVE  signals'[i].camera = c
  <2>1. CASE i = Len(signals) + 1
    BY <1>1, <1>2, <1>4, <1>5, <2>1
  <2>2. CASE i # Len(signals) + 1
    <3>1. ~(i <= Len(front)) /\ i - Len(front) \in 1 .. n /\ i \in 1 .. Len(front) + n
      BY <1>1, <1>4, <1>5, <1>6, <2>2
    <3>2. QED
      BY <1>3, <1>5, <3>1
  <2>3. QED
    BY <2>1, <2>2
<1>7. Len(signals) <= Len(signals') /\ \A i \in 1 .. Len(signals) : signals'[i] = signals[i]
  BY <1>1, <1>4, <1>5
<1>8. QED
  BY <1>5, <1>6, <1>7

LEMMA OutStep ==
  ASSUME ThreadTypes, SignalTypes, OutInv, [Next]_vars
  PROVE  OutInv'
<1>1. CASE UNCHANGED <<at, disconnected, signals, widget>>
  BY <1>1 DEF OutInv
<1>2. ASSUME NEW c \in Cameras, Timeout(c)
      PROVE  OutInv'
  <2>1. /\ Emit(c, "disconnected") /\ widget' = widget /\ at' = at /\ at[c] = "recv"
        /\ disconnected' = [disconnected EXCEPT ![c] = TRUE]
    BY <1>2 DEF Timeout, mainVars
  <2>2. SaysOut(c, signals', widget[c])
    BY <2>1, OutageQueued DEF Emit, SignalTypes
  <2>3. "disconnected" \in Images \cup {"alert"}
    BY DEF Images
  <2>4. \A d \in Cameras : d # c => disconnected'[d] = disconnected[d] /\ at'[d] = at[d]
    BY <2>1 DEF ThreadTypes
  <2>5. QED
    BY <2>1, <2>2, <2>3, <2>4, Appended, OutCamera
<1>3. ASSUME NEW c \in Cameras, Camera(c)
      PROVE  OutInv'
  <2>1. /\ widget' = widget /\ disconnected' = [disconnected EXCEPT ![c] = FALSE]
        /\ \A d \in Cameras : d # c => at'[d] = at[d]
    BY <1>3 DEF Camera, Undecodable, Skip, NoMotion, DetectFails, Detect, Receive, mainVars, ThreadTypes
  <2>2. Emit(c, "raw") \/ Emit(c, "offline") \/ signals' = signals
    BY <1>3 DEF Camera, Undecodable, Skip, NoMotion, DetectFails, Detect
  <2>3. {"raw", "offline"} \subseteq Images \cup {"alert"}
    BY DEF Images
  <2>4. ~disconnected'[c] /\ \A d \in Cameras : d # c => disconnected'[d] = disconnected[d]
    BY <2>1 DEF ThreadTypes
  <2>5. /\ signals' \in Seq(Event) /\ Len(signals) <= Len(signals')
        /\ \A i \in 1 .. Len(signals) : signals'[i] = signals[i]
        /\ \A i \in 1 .. Len(signals') : i > Len(signals) => signals'[i].camera = c
    <3>1. CASE signals' = signals
      <4>1. Len(signals) \in Nat
        BY LenProperties DEF SignalTypes
      <4>2. QED
        BY <3>1, <4>1 DEF SignalTypes
    <3>2. CASE signals' # signals
      BY <2>2, <2>3, <3>2, Appended
    <3>3. QED
      BY <3>1, <3>2
  <2>6. QED
    BY <2>1, <2>4, <2>5, OutCamera
<1>4. ASSUME NEW c \in Cameras, Draw(c)
      PROVE  OutInv'
  <2>1. /\ widget' = widget /\ disconnected' = disconnected /\ at[c] # "recv"
        /\ \A d \in Cameras : d # c => at'[d] = at[d]
    BY <1>4 DEF Draw, mainVars, ThreadTypes
  <2>2. ~disconnected'[c]
    BY <2>1 DEF OutInv
  <2>3. QED
    BY <1>4, <2>1, <2>2, DrawAppended, OutCamera
<1>5. ASSUME NEW c \in Cameras, Check(c)
      PROVE  OutInv'
  BY <1>5 DEF Check, mainVars, ThreadTypes, OutInv
<1>6. CASE ShowFrame \/ ListAlert
  <2>1. /\ signals \in Seq(Event) /\ signals # <<>> /\ signals' = Tail(signals)
        /\ UNCHANGED <<at, disconnected>>
    BY <1>6 DEF ShowFrame, ListAlert, frameVars, SignalTypes
  <2>2. Head(signals) = signals[1]
    OBVIOUS
  <2>3. \A c \in Cameras :
          widget'[c] = IF ImageIn(signals, c, 1) THEN signals[1].shows ELSE widget[c]
    BY <1>6, <2>2 DEF ShowFrame, ListAlert, ImageIn, SignalTypes
  <2>4. ASSUME NEW c \in Cameras, disconnected[c]
        PROVE  SaysOut(c, signals', widget'[c])
    BY <2>1, <2>3, <2>4, Handled DEF OutInv
  <2>5. QED
    BY <2>1, <2>4 DEF OutInv
<1>7. CASE \/ \E c \in Cameras, area \in Areas : SaveRoi(c, area)
           \/ Reload \/ DropOldest \/ \E b \in Clients : Browser(b)
           \/ Push /\ UNCHANGED <<frames, frameVars, roiVars, signals, widget, entries, client>>
  BY <1>1, <1>7 DEF SaveRoi, Reload, DropOldest, Browser, frameVars, mainVars
<1>8. CASE UNCHANGED vars
  BY <1>1, <1>8 DEF vars, frameVars, mainVars
<1>9. QED
  BY <1>2, <1>3, <1>4, <1>5, <1>6, <1>7, <1>8 DEF Next, MainThread

\* An outage is shown, however often it recurs and however far the main thread
\* lags behind: while a thread is in its outage, the last image it has sent, shown
\* or still queued behind others, says disconnected.
THEOREM OutageSeen == Spec => []OutageShown
<1>1. Init => OutInv
  BY DEF Init, OutInv
<1>2. TypeOK /\ OutInv /\ [Next]_vars => OutInv'
  BY OutStep, TypeParts
<1>3. OutInv => OutageShown
  BY ShownOut DEF OutInv
<1>4. QED
  BY <1>1, <1>2, <1>3, DesktopTypeCorrect, PTL DEF Spec
=============================================================================
