--------------------------- MODULE LegacyPath_proofs ---------------------------
(***************************************************************************)
(* Proofs about the legacy processes: DoubleBuffer, by which P1 and P2     *)
(* exchange frames and results, for any range of the result counter; and   *)
(* AlertPipeline, which P1 runs on each result, for any cameras, scenes,   *)
(* polygons and cooldown.                                                  *)
(***************************************************************************)
EXTENDS DoubleBuffer, AlertPipeline, SequenceTheorems, FiniteSetTheorems,
        WellFoundedInduction, TLAPS

(***************************************************************************)
(* A set of numbers that is not empty has a least element.  By it, what    *)
(* holds of 0 and passes on from each number to the next holds of all.     *)
(***************************************************************************)
LEMMA LeastNumber ==
  ASSUME NEW S \in SUBSET Nat, S # {}
  PROVE  \E n \in S : \A m \in S : n <= m
<1> DEFINE R == OpToRel(<, Nat)
<1>1. IsWellFoundedOn(R, Nat)
  BY NatLessThanWellFounded
<1> HIDE DEF R
<1>2. \E n \in S : \A m \in S : ~ (<<m, n>> \in R)
  BY <1>1, WFMin
<1>3. \A m, n \in Nat : m < n => <<m, n>> \in R
  BY DEF R, OpToRel
<1>4. PICK n \in S : \A m \in S : ~ (<<m, n>> \in R)
  BY <1>2
<1>5. ASSUME NEW m \in S
      PROVE  n <= m
  <2>1. n \in Nat /\ m \in Nat
    OBVIOUS
  <2>2. ~(m < n)
    BY <1>3, <1>4, <2>1
  <2>3. QED
    BY <2>1, <2>2
<1>6. QED
  BY <1>5
-----------------------------------------------------------------------------
(***************************************************************************)
(* DoubleBuffer.  Its steps, by process, with what each may change.        *)
(***************************************************************************)
LEMMA SlotFacts ==
  /\ Slots = {0, 1}
  /\ \A S \in SUBSET Slots : S # {} => First(S) \in S
<1>1. ASSUME NEW S \in SUBSET Slots, S # {}
      PROVE  First(S) \in S
  <2>1. S \in SUBSET Nat
    BY DEF Slots
  <2>2. \E s \in S : \A other \in S : s <= other
    BY <1>1, <2>1, LeastNumber
  <2>3. QED
    BY <2>2 DEF First
<1>2. QED
  BY <1>1 DEF Slots

\* There is always a frame identifier that nothing refers to.
LEMMA UnusedFrame == First(Unused) \in Frames
<1>1. Unused # {}
  <2>1. 0 \in Frames /\ 1 \in Frames /\ 2 \in Frames /\ 3 \in Frames /\ 4 \in Frames /\ 5 \in Frames
    BY DEF Frames
  <2> DEFINE a == content[0]
             b == content[1]
             c == resultText
             d == text
             e == image
  <2>2. Unused = Frames \ {a, b, c, d, e}
    BY DEF Unused
  <2> HIDE DEF a, b, c, d, e
  <2>3. Frames \ {a, b, c, d, e} # {}
    BY <2>1
  <2>4. QED
    BY <2>2, <2>3
<1>2. Unused \subseteq Nat
  BY DEF Unused, Frames
<1>3. First(Unused) \in Unused
  BY <1>1, <1>2, LeastNumber DEF First
<1>4. QED
  BY <1>3 DEF Unused

\* Every variable of the two processes keeps its type.
LEMMA BufferTypeStep == BufferTypeOK /\ [BufferNext]_bufferVars => BufferTypeOK'
<1> SUFFICES ASSUME BufferTypeOK, [BufferNext]_bufferVars
             PROVE  BufferTypeOK'
  OBVIOUS
<1>0. overlapped' \in BOOLEAN
  BY DEF BufferTypeOK, BufferNext, P1, P2, NoteOverlap, bufferVars
<1> USE <1>0 DEF BufferTypeOK, sharedVars, p1Vars, p2Vars, bufferVars
<1>1. CASE Capture
  <2>1. Having("free") # {} => First(Having("free")) \in Slots
    BY SlotFacts DEF Having
  <2>2. QED
    BY <1>1, <2>1 DEF Capture
<1>2. CASE WritePixels
  BY <1>2, UnusedFrame DEF WritePixels
<1>3. CASE SetFilled
  BY <1>3, SlotFacts DEF SetFilled, SetState
<1>4. CASE ReadSeq
  BY <1>4 DEF ReadSeq
<1>5. CASE ReadText
  BY <1>5 DEF ReadText
<1>6. CASE ReadIndex
  BY <1>6 DEF ReadIndex
<1>7. CASE Show
  BY <1>7 DEF Show
<1>8. CASE Release
  BY <1>8, SlotFacts DEF Release, SetState
<1>9. CASE Attach
  <2>1. 0 \in 0 .. Wrap - 1
    BY DoubleBufferAssumption
  <2>2. QED
    BY <1>9, <2>1 DEF Attach
<1>10. CASE Find
  <2>1. First(Having("filled")) \in Slots
    BY <1>10, SlotFacts DEF Find, Having
  <2>2. QED
    BY <1>10, <2>1 DEF Find
<1>11. CASE Acquire
  BY <1>11 DEF Acquire, SetState
<1>12. CASE ReadFrame
  BY <1>12 DEF ReadFrame
<1>13. CASE DetectImage
  BY <1>13 DEF DetectImage
<1>14. CASE WriteBytes \/ WriteText
  BY <1>14 DEF WriteBytes, WriteText
<1>15. CASE WriteIndex
  BY <1>15 DEF WriteIndex
<1>16. CASE WriteSeq
  <2>1. (resultSeq + 1) % Wrap \in 0 .. Wrap - 1
    <3>1. resultSeq + 1 \in Nat /\ Wrap \in Nat /\ Wrap > 0
      BY DoubleBufferAssumption
    <3>2. QED
      BY <3>1
  <2>2. QED
    BY <1>16, <2>1, SlotFacts DEF WriteSeq
<1>17. CASE UNCHANGED bufferVars
  BY <1>17
<1>18. QED
  BY <1>1, <1>2, <1>3, <1>4, <1>5, <1>6, <1>7, <1>8, <1>9, <1>10, <1>11, <1>12, <1>13,
     <1>14, <1>15, <1>16, <1>17 DEF BufferNext, P1, P2

THEOREM BufferTypeCorrect == BufferSpec => []BufferTypeOK
<1>1. BufferInit => BufferTypeOK
  <2>1. 0 \in 0 .. Wrap - 1
    BY DoubleBufferAssumption
  <2>2. QED
    BY <2>1 DEF BufferInit, BufferTypeOK, Slots
<1>2. QED
  BY <1>1, BufferTypeStep, PTL DEF BufferSpec
-----------------------------------------------------------------------------
(***************************************************************************)
(* Why the processes never wait on each other.  A result P2 announces is   *)
(* unread, because the counter cannot come round to the value P1 has: from *)
(* one look at it to the next there are at most four results, of the slots *)
(* that were filled, of the one P2 had, and of the frame P1 has written    *)
(* since.  And P1 finishes the result it reads while P2 waits, as its text *)
(* is whole and its slot is named: it releases that slot.                  *)
(***************************************************************************)
Working == p2 \in {"acquire", "read", "detect", "text", "bytes", "index", "seq"}
Ready(s) == state[s] = "filled" /\ ~(p2 = "acquire" /\ slot = s)
Bit(condition) == IF condition THEN 1 ELSE 0
Ahead(new, old) == IF new >= old THEN new - old ELSE new + Wrap - old

\* The results P1 has not looked at, and those it may miss before it looks.
Pending == Ahead(resultSeq, lastSeq) + Bit(Ready(0)) + Bit(Ready(1)) + Bit(Working)

AnsweredInv ==
  /\ p2 = "loading" => /\ p1 \in {"capture", "pixels", "filled", "check"}
                       /\ resultSeq = 0 /\ lastSeq = 0
  /\ resultText = Cut => cutOnce
  /\ resultText = Torn => p2 = "bytes"
  /\ resultSeq # lastSeq \/ p1 \in {"text", "index"} \/ p2 = "seq" => resultFor \in Slots

\* The counter that wraps is one further ahead, if it was less than four ahead.
LEMMA OneAhead ==
  ASSUME NEW new \in 0 .. Wrap - 1, NEW old \in 0 .. Wrap - 1, Ahead(new, old) <= 3
  PROVE  /\ Ahead((new + 1) % Wrap, old) = Ahead(new, old) + 1
         /\ (new + 1) % Wrap # old
<1>1. Wrap \in Nat /\ Wrap > 4 /\ new \in Nat /\ old \in Nat /\ new < Wrap /\ old < Wrap
  BY DoubleBufferAssumption
<1>2. CASE new + 1 = Wrap
  <2>1. (new + 1) % Wrap = 0
    BY <1>1, <1>2
  <2>2. QED
    BY <1>1, <1>2, <2>1 DEF Ahead
<1>3. CASE new + 1 < Wrap
  <2>1. (new + 1) % Wrap = new + 1
    BY <1>1, <1>3
  <2>2. QED
    BY <1>1, <1>3, <2>1 DEF Ahead
<1>4. QED
  BY <1>1, <1>2, <1>3

\* How many results there can be before P1 looks again.
LEMMA PendingStep ==
  ASSUME BufferTypeOK, AnsweredInv, [BufferNext]_bufferVars,
         Pending <= IF p1 = "check" THEN 4 ELSE 3
  PROVE  /\ Pending' <= IF p1' = "check" THEN 4 ELSE 3
         /\ WriteSeq => resultSeq' # lastSeq'
<1> USE DEF BufferTypeOK, sharedVars, p1Vars, p2Vars, bufferVars
<1> DEFINE Distance == Ahead(resultSeq, lastSeq)
<1>1. Slots = {0, 1} /\ Distance \in Nat
  BY DoubleBufferAssumption DEF Slots, Ahead
<1>2. Distance + Bit(Ready(0)) + Bit(Ready(1)) + Bit(Working) <= IF p1 = "check" THEN 4 ELSE 3
  BY DEF Pending
\* The counter stands still.
<1>3. ASSUME UNCHANGED <<resultSeq, lastSeq>>,
             Bit(Ready(0))' + Bit(Ready(1))' + Bit(Working)'
               <= Bit(Ready(0)) + Bit(Ready(1)) + Bit(Working)
                    + (IF p1 # "check" /\ p1' = "check" THEN 1 ELSE 0),
             p1 = "check" => p1' = "check"
      PROVE  Pending' <= IF p1' = "check" THEN 4 ELSE 3
  <2>1. Pending' = Distance + Bit(Ready(0))' + Bit(Ready(1))' + Bit(Working)'
    BY <1>3 DEF Pending
  <2> DEFINE n == Bit(Ready(0)) + Bit(Ready(1)) + Bit(Working)
             m == Bit(Ready(0))' + Bit(Ready(1))' + Bit(Working)'
  <2>2. n \in Nat /\ m \in Nat
    BY DEF Bit
  <2>3. Distance + n <= IF p1 = "check" THEN 4 ELSE 3
    BY <1>1, <1>2 DEF Bit
  <2>4. m <= n + (IF p1 # "check" /\ p1' = "check" THEN 1 ELSE 0)
    BY <1>3
  <2>5. Pending' = Distance + m
    BY <1>1, <2>1 DEF Bit
  <2> HIDE DEF n, m, Distance
  <2>6. QED
    BY <1>1, <1>3, <2>2, <2>3, <2>4, <2>5
<1>4. CASE UNCHANGED <<state, p2, slot, resultSeq, lastSeq>> /\ (p1 = "check" => p1' = "check")
  <2>1. /\ Bit(Ready(0))' = Bit(Ready(0)) /\ Bit(Ready(1))' = Bit(Ready(1))
        /\ Bit(Working)' = Bit(Working)
    BY <1>4 DEF Ready, Working, Bit
  <2>2. /\ Bit(Ready(0)) \in Nat /\ Bit(Ready(1)) \in Nat /\ Bit(Working) \in Nat
    BY DEF Bit
  <2>3. Bit(Ready(0))' + Bit(Ready(1))' + Bit(Working)'
          <= Bit(Ready(0)) + Bit(Ready(1)) + Bit(Working)
               + (IF p1 # "check" /\ p1' = "check" THEN 1 ELSE 0)
    BY <2>1, <2>2
  <2>4. UNCHANGED <<resultSeq, lastSeq>> /\ (p1 = "check" => p1' = "check")
    BY <1>4
  <2>5. ~WriteSeq
    BY <1>4 DEF WriteSeq
  <2>6. QED
    BY <1>3, <2>3, <2>4, <2>5
<1>5. CASE Capture \/ WritePixels \/ ReadText \/ ReadIndex \/ Show
  BY <1>4, <1>5 DEF Capture, WritePixels, ReadText, ReadIndex, Show, WriteSeq
<1>6. CASE SetFilled
  BY <1>1, <1>3, <1>6 DEF SetFilled, SetState, Bit, Ready, Working, WriteSeq
<1>7. CASE Release
  BY <1>1, <1>3, <1>7 DEF Release, SetState, Bit, Ready, Working, WriteSeq
<1>8. CASE ReadSeq
  <2>1. p1' # "check" /\ Ahead(resultSeq, lastSeq)' = 0
    BY <1>8 DEF ReadSeq, Ahead
  <2>2. Pending' <= 3
    BY <2>1 DEF Pending, Bit
  <2>3. QED
    BY <1>8, <2>1, <2>2 DEF ReadSeq, WriteSeq
<1>9. CASE Attach
  <2>1. /\ resultSeq = 0 /\ lastSeq = 0 /\ resultSeq' = 0 /\ lastSeq' = 0
        /\ p1' = p1
    BY <1>9 DEF Attach, AnsweredInv
  <2>2. Bit(Ready(0))' = 0 /\ Bit(Ready(1))' = 0 /\ Bit(Working)' = 0
    BY <1>1, <1>9 DEF Attach, Bit, Ready, Working
  <2>3. Pending' = 0
    BY <2>1, <2>2 DEF Pending, Ahead
  <2>4. QED
    BY <1>9, <2>1, <2>3 DEF Attach, WriteSeq
<1>10. CASE Find
  <2>1. Having("filled") \in SUBSET Slots /\ Having("filled") # {}
    BY <1>10 DEF Find, Having
  <2>2. slot' \in Slots /\ state[slot'] = "filled"
    BY <1>10, <2>1, SlotFacts DEF Find, Having
  <2>3. QED
    BY <1>1, <1>3, <1>10, <2>2 DEF Find, Bit, Ready, Working, WriteSeq
<1>11. CASE Acquire
  BY <1>1, <1>3, <1>11 DEF Acquire, SetState, Bit, Ready, Working, WriteSeq
<1>12. CASE ReadFrame \/ DetectImage \/ WriteBytes \/ WriteText \/ WriteIndex
  BY <1>3, <1>12 DEF ReadFrame, DetectImage, WriteBytes, WriteText, WriteIndex, Bit, Ready,
     Working, WriteSeq
<1>13. CASE WriteSeq
  <2>1. Bit(Working) = 1 /\ Bit(Working)' = 0 /\ Bit(Ready(0))' = Bit(Ready(0))
        /\ Bit(Ready(1))' = Bit(Ready(1)) /\ p1' = p1 /\ lastSeq' = lastSeq
    BY <1>13 DEF WriteSeq, Bit, Working, Ready
  <2>2. Distance <= 3
    BY <1>1, <1>2, <2>1 DEF Bit
  <2>3. resultSeq' = (resultSeq + 1) % Wrap
    BY <1>13 DEF WriteSeq
  <2>4. Ahead(resultSeq, lastSeq)' = Distance + 1 /\ resultSeq' # lastSeq'
    BY <2>1, <2>2, <2>3, OneAhead
  <2>5. QED
    BY <1>1, <1>2, <2>1, <2>4 DEF Pending, Bit
<1>14. CASE UNCHANGED bufferVars
  BY <1>4, <1>14 DEF WriteSeq
<1>15. QED
  BY <1>5, <1>6, <1>7, <1>8, <1>9, <1>10, <1>11, <1>12, <1>13, <1>14 DEF BufferNext, P1, P2

\* What P1 reads while P2 waits is whole, and names a slot.
LEMMA AnsweredStep ==
  ASSUME BufferTypeOK, AnsweredInv, [BufferNext]_bufferVars
  PROVE  AnsweredInv'
<1> USE DEF AnsweredInv, sharedVars, p1Vars, p2Vars, bufferVars
<1>1. CASE P1
  BY <1>1 DEF P1, Capture, WritePixels, SetFilled, ReadSeq, ReadText, ReadIndex, Show, Release
<1>2. CASE Attach \/ Find \/ Acquire \/ ReadFrame \/ DetectImage \/ WriteBytes
  BY <1>2 DEF Attach, Find, Acquire, ReadFrame, DetectImage, WriteBytes, Cut, Torn
<1>3. CASE WriteText
  <2>1. image \notin {Cut, Torn} /\ Cut # Torn
    BY DEF BufferTypeOK, Frames, None, Cut, Torn
  <2>2. QED
    BY <1>3, <2>1 DEF WriteText
<1>4. CASE WriteIndex \/ WriteSeq
  BY <1>4 DEF WriteIndex, WriteSeq, BufferTypeOK
<1>5. CASE UNCHANGED bufferVars
  BY <1>5
<1>6. QED
  BY <1>1, <1>2, <1>3, <1>4, <1>5 DEF BufferNext, P2

\* No step lets both processes wait.
LEMMA ReleasesStep ==
  ASSUME BufferTypeOK, AnsweredInv, SomeoneReleases, [BufferNext]_bufferVars,
         WriteSeq => resultSeq' # lastSeq'
  PROVE  SomeoneReleases'
<1> USE DEF SomeoneReleases, sharedVars, p1Vars, p2Vars, bufferVars
<1>1. CASE Capture \/ WritePixels \/ ReadSeq \/ Show
  BY <1>1 DEF Capture, WritePixels, ReadSeq, Show, Having
<1>2. CASE ReadText
  BY <1>2 DEF ReadText, AnsweredInv, Having
<1>3. CASE ReadIndex
  <2>1. p1' = "show"
    BY <1>3 DEF ReadIndex, AnsweredInv, Slots, None
  <2>2. QED
    BY <2>1
<1>4. CASE SetFilled \/ Release
  <2>1. \E s \in Slots : state'[s] # "locked"
    BY <1>4 DEF SetFilled, Release, SetState, BufferTypeOK
  <2>2. QED
    BY <2>1 DEF Having
<1>5. CASE Attach
  <2>1. 0 \in Slots /\ state'[0] # "locked"
    BY <1>5 DEF Attach, Slots
  <2>2. QED
    BY <2>1 DEF Having
<1>6. CASE WriteSeq
  BY <1>6
<1>7. CASE Find \/ Acquire \/ ReadFrame \/ DetectImage \/ WriteBytes \/ WriteText \/ WriteIndex
  BY <1>7 DEF Find, Acquire, ReadFrame, DetectImage, WriteBytes, WriteText, WriteIndex
<1>8. CASE UNCHANGED bufferVars
  BY <1>8 DEF Having
<1>9. QED
  BY <1>1, <1>2, <1>3, <1>4, <1>5, <1>6, <1>7, <1>8 DEF BufferNext, P1, P2

\* P1 and P2 never wait on each other: with both slots locked and P2 idle there
\* is a result that P1 goes on to release, whatever results were missed or read
\* torn, unless one was cut off at RESULT_SIZE.
THEOREM NeverBothWaiting == BufferSpec => []SomeoneReleases
<1> DEFINE I == /\ AnsweredInv /\ SomeoneReleases
                /\ Pending <= IF p1 = "check" THEN 4 ELSE 3
<1>1. BufferInit => I
  <2>1. SUFFICES ASSUME BufferInit PROVE I
    OBVIOUS
  <2>2. AnsweredInv /\ SomeoneReleases
    BY <2>1 DEF BufferInit, AnsweredInv, SomeoneReleases, None, Cut, Torn
  <2>3. Pending = 0
    BY <2>1 DEF BufferInit, Pending, Ahead, Bit, Ready, Working, Slots
  <2>4. QED
    BY <2>2, <2>3, <2>1 DEF BufferInit
<1>2. BufferTypeOK /\ I /\ [BufferNext]_bufferVars => I'
  BY PendingStep, AnsweredStep, ReleasesStep
<1>3. QED
  BY <1>1, <1>2, BufferTypeCorrect, PTL DEF BufferSpec
-----------------------------------------------------------------------------
(***************************************************************************)
(* Why the overlay is exact until a reading overlaps a writing.  A slot in *)
(* use is in the state its user has given it, so that neither process      *)
(* takes it away; and the result that P1 has not taken describes the       *)
(* pixels of its slot, which is none that a process is using.              *)
(***************************************************************************)
HasResult ==
  (resultSeq # lastSeq \/ p1 \in {"text", "index"}) /\ p2 \notin {"bytes", "index", "seq"}

P1Holds ==
  /\ p1 \in {"pixels", "filled"} => state[writing] = "free"
  /\ p1 \in {"text", "index"} => resultSeq = lastSeq
  /\ p1 = "index" => text = content[resultFor]
  /\ p1 \in {"show", "release"} =>
       state[for] = "locked" /\ content[for] = text /\ (Working => slot # for)

P2Holds ==
  /\ p2 = "acquire" => state[slot] = "filled"
  /\ Working /\ p2 # "acquire" => state[slot] = "locked"
  /\ p2 \in {"detect", "text", "bytes"} => image = content[slot]
  /\ p2 = "seq" => resultFor = slot
  /\ p2 \in {"index", "seq"} => resultText \in {content[slot], Cut}

ResultHolds ==
  HasResult =>
    /\ state[resultFor] = "locked" /\ resultText \in {content[resultFor], Cut}
    /\ Working => slot # resultFor
    /\ p1 \in {"show", "release"} => for # resultFor

ExactInv == overlapped \/ (~Overlap /\ P1Holds /\ P2Holds /\ ResultHolds)

LEMMA ExactStep ==
  ASSUME BufferTypeOK, AnsweredInv, ExactInv, [BufferNext]_bufferVars
  PROVE  ExactInv'
<1> SUFFICES ASSUME ~overlapped'
             PROVE  (~Overlap /\ P1Holds /\ P2Holds /\ ResultHolds)'
  BY DEF ExactInv
<1>1. CASE UNCHANGED bufferVars
  BY <1>1 DEF ExactInv, Overlap, P1Holds, P2Holds, ResultHolds, HasResult, Working, bufferVars,
              sharedVars, p1Vars, p2Vars
<1>2. CASE BufferNext
  <2>1. ~overlapped /\ ~Overlap'
    BY <1>2 DEF BufferNext, P1, P2, NoteOverlap
  <2>2. ~Overlap /\ P1Holds /\ P2Holds /\ ResultHolds
    BY <2>1 DEF ExactInv
  <2> USE <2>1, <2>2 DEF BufferTypeOK, Overlap, P1Holds, P2Holds, ResultHolds, HasResult,
          Working, sharedVars, p1Vars, p2Vars
  <2>3. CASE Capture
    <3>1. Having("free") # {} => First(Having("free")) \in Having("free")
      BY SlotFacts DEF Having
    <3>2. QED
      BY <2>3, <3>1 DEF Capture, Having
  <2>4. CASE WritePixels
    BY <2>4 DEF WritePixels, AnsweredInv
  <2>5. CASE SetFilled
    BY <2>5 DEF SetFilled, SetState, AnsweredInv
  <2>6. CASE ReadSeq
    BY <2>6 DEF ReadSeq
  <2>7. CASE ReadText
    BY <2>7 DEF ReadText
  <2>8. CASE ReadIndex
    BY <2>8 DEF ReadIndex, AnsweredInv
  <2>9. CASE Show
    BY <2>9 DEF Show
  <2>10. CASE Release
    BY <2>10 DEF Release, SetState, AnsweredInv
  <2>11. CASE Attach
    BY <2>11 DEF Attach, AnsweredInv
  <2>12. CASE Find
    <3>1. First(Having("filled")) \in Having("filled")
      BY <2>12, SlotFacts DEF Find, Having
    <3>2. QED
      BY <2>12, <3>1 DEF Find, Having
  <2>13. CASE Acquire
    BY <2>13 DEF Acquire, SetState, AnsweredInv
  <2>14. CASE ReadFrame \/ DetectImage \/ WriteBytes
    BY <2>14 DEF ReadFrame, DetectImage, WriteBytes
  <2>15. CASE WriteText
    BY <2>15 DEF WriteText
  <2>16. CASE WriteIndex
    BY <2>16 DEF WriteIndex
  <2>17. CASE WriteSeq
    BY <2>17 DEF WriteSeq, AnsweredInv
  <2>18. QED
    BY <1>2, <2>3, <2>4, <2>5, <2>6, <2>7, <2>8, <2>9, <2>10, <2>11, <2>12, <2>13, <2>14,
       <2>15, <2>16, <2>17 DEF BufferNext, P1, P2
<1>3. QED
  BY <1>1, <1>2

\* As long as P1 has read no result while P2 was writing one, it draws a result on
\* the frame it was computed from, and no slot has two users.
THEOREM ExactUntilOverlap == BufferSpec => []ExactUnlessOverlapped
<1>1. BufferInit => AnsweredInv /\ ExactInv
  BY DEF BufferInit, AnsweredInv, None, Cut, Torn, ExactInv, Overlap, P1Holds, P2Holds,
         ResultHolds, HasResult, Working
<1>2. BufferTypeOK /\ AnsweredInv /\ ExactInv /\ [BufferNext]_bufferVars
        => (AnsweredInv /\ ExactInv)'
  BY AnsweredStep, ExactStep
<1>3. ExactInv => ExactUnlessOverlapped
  BY DEF ExactInv, P1Holds, P2Holds, Working, ExactUnlessOverlapped, ExactOverlay, Exclusive,
         HeldByP1, HeldByP2
<1>4. QED
  BY <1>1, <1>2, <1>3, BufferTypeCorrect, PTL DEF BufferSpec
-----------------------------------------------------------------------------
(***************************************************************************)
(* AlertPipeline.  The classifier runs through the persons of a scene, so  *)
(* its type takes an induction over their number.                          *)
(***************************************************************************)
Iterates(n, V, base, step) ==
  \E f \in [0 .. n -> V] : f[0] = base /\ \A k \in 1 .. n : f[k] = step[k][f[k - 1]]

\* Steps from values to values, one after the other, lead from value to value.
LEMMA Iteration ==
  ASSUME NEW n \in Nat, NEW V, NEW base \in V, NEW step \in [1 .. n -> [V -> V]]
  PROVE  Iterates(n, V, base, step)
<1> DEFINE Upto(m) ==
             \E f \in [0 .. m -> V] : f[0] = base /\ \A k \in 1 .. m : f[k] = step[k][f[k - 1]]
           Fails == {m \in 0 .. n : ~Upto(m)}
<1>1. Upto(0)
  <2> DEFINE f == [k \in 0 .. 0 |-> base]
  <2>1. f \in [0 .. 0 -> V] /\ f[0] = base /\ \A k \in 1 .. 0 : f[k] = step[k][f[k - 1]]
    OBVIOUS
  <2>2. QED
    BY <2>1
<1>2. ASSUME NEW m \in 1 .. n, Upto(m - 1)
      PROVE  Upto(m)
  <2>1. PICK f \in [0 .. m - 1 -> V] :
          f[0] = base /\ \A k \in 1 .. m - 1 : f[k] = step[k][f[k - 1]]
    BY <1>2
  <2>2. m \in Nat /\ m - 1 \in 0 .. m - 1 /\ step[m][f[m - 1]] \in V
    OBVIOUS
  <2> DEFINE g == [k \in 0 .. m |-> IF k = m THEN step[m][f[m - 1]] ELSE f[k]]
  <2>3. g \in [0 .. m -> V]
    <3>1. \A k \in 0 .. m : k # m => k \in 0 .. m - 1
      BY <2>2
    <3>2. QED
      BY <2>2, <3>1
  <2>4. g[0] = base
    BY <2>1
  <2>5. ASSUME NEW k \in 1 .. m
        PROVE  g[k] = step[k][g[k - 1]]
    <3>1. k - 1 \in 0 .. m /\ k - 1 # m /\ k \in 0 .. m /\ (k # m => k \in 1 .. m - 1)
      OBVIOUS
    <3>2. g[k - 1] = f[k - 1] /\ (k # m => g[k] = f[k]) /\ (k = m => g[k] = step[m][f[m - 1]])
      BY <3>1
    <3>3. QED
      BY <2>1, <3>1, <3>2
  <2> HIDE DEF g
  <2>6. QED
    BY <2>3, <2>4, <2>5
<1> HIDE DEF Upto
<1>3. Fails = {}
  <2>1. SUFFICES ASSUME Fails # {}
                 PROVE  FALSE
    OBVIOUS
  <2>2. PICK m \in Fails : \A k \in Fails : m <= k
    <3>1. Fails \in SUBSET Nat
      OBVIOUS
    <3>2. QED
      BY <2>1, <3>1, LeastNumber
  <2>3. m \in 0 .. n /\ ~Upto(m)
    OBVIOUS
  <2>4. m # 0
    BY <1>1, <2>3
  <2>5. m - 1 \in 0 .. n /\ ~(m <= m - 1) /\ m \in 1 .. n
    BY <2>3, <2>4
  <2>6. Upto(m - 1)
    BY <2>2, <2>5
  <2>7. QED
    BY <1>2, <2>3, <2>5, <2>6
<1>4. Upto(n)
  BY <1>3
<1>5. QED
  BY <1>4 DEF Upto, Iterates

\* What one person adds to the list.
LEMMA PersonType ==
  ASSUME NEW scene \in Scene, NEW i \in 1 .. Len(scene.persons)
  PROVE  OfPerson(scene, i) \in Seq(Violation)
<1> DEFINE One(type) == IF Shows(scene, i, type)
                        THEN <<[type |-> type, place |-> scene.persons[i].place]>> ELSE <<>>
<1>1. scene.persons[i].place \in Places
  <2>1. scene.persons \in Seq([place : Places, sure : BOOLEAN])
    BY DEF Scene
  <2>2. scene.persons[i] \in [place : Places, sure : BOOLEAN]
    BY <2>1, ElementOfSeq
  <2>3. QED
    BY <2>2
<1>2. \A type \in Types : One(type) \in Seq(Violation)
  <2>1. \A v \in Violation : <<v>> \in Seq(Violation)
    OBVIOUS
  <2>2. \A type \in Types : [type |-> type, place |-> scene.persons[i].place] \in Violation
    BY <1>1 DEF Violation
  <2>3. QED
    BY <2>1, <2>2, EmptySeq
<1>3. OfPerson(scene, i)
        = One("NO_HELMET") \o One("NO_VEST") \o One("NO_BOOT") \o One("FALL")
  BY DEF OfPerson
<1> HIDE DEF One
<1>4. /\ One("NO_HELMET") \in Seq(Violation) /\ One("NO_VEST") \in Seq(Violation)
      /\ One("NO_BOOT") \in Seq(Violation) /\ One("FALL") \in Seq(Violation)
  BY <1>2 DEF Types
<1>5. QED
  BY <1>3, <1>4, ConcatProperties

\* The classifier's list is one of violations.
LEMMA ClassifyType ==
  ASSUME NEW scene \in Scene
  PROVE  Classify(scene) \in Seq(Violation)
<1> DEFINE n == Len(scene.persons)
           V == Seq(Violation)
           step == [k \in 1 .. n |-> [s \in V |->
                      IF scene.persons[k].sure THEN s \o OfPerson(scene, k) ELSE s]]
           Recursion(f) == f = [i \in 0 .. n |->
                                  IF i = 0 THEN <<>>
                                  ELSE IF scene.persons[i].sure
                                  THEN f[i - 1] \o OfPerson(scene, i) ELSE f[i - 1]]
           found == CHOOSE f : Recursion(f)
<1>1. n \in Nat
  BY LenProperties DEF Scene
<1>2. <<>> \in V
  BY EmptySeq
<1>3. step \in [1 .. n -> [V -> V]]
  BY PersonType, ConcatProperties
<1>4. PICK f \in [0 .. n -> V] : f[0] = <<>> /\ \A k \in 1 .. n : f[k] = step[k][f[k - 1]]
  <2>1. Iterates(n, V, <<>>, step)
    <3> HIDE DEF n, V, step
    <3>1. QED
      BY ONLY <1>1, <1>2, <1>3, Iteration
  <2>2. QED
    BY <2>1 DEF Iterates
<1>5. Recursion(f)
  <2>1. ASSUME NEW k \in 1 .. n
        PROVE  f[k] = IF scene.persons[k].sure
                      THEN f[k - 1] \o OfPerson(scene, k) ELSE f[k - 1]
    <3>1. k - 1 \in 0 .. n
      BY <1>1
    <3>2. f[k - 1] \in V
      BY <3>1
    <3>3. QED
      BY <1>4, <3>2
  <2>2. \A i \in 0 .. n : i # 0 => i \in 1 .. n
    BY <1>1
  <2>3. QED
    BY <1>4, <2>1, <2>2
<1>6. Recursion(found)
  BY <1>5
<1> DEFINE Added(k, s) == IF scene.persons[k].sure THEN s \o OfPerson(scene, k) ELSE s
<1>10. \A k \in 0 .. n : k # 0 => /\ f[k] = Added(k, f[k - 1])
                                  /\ found[k] = Added(k, found[k - 1])
  BY <1>5, <1>6
<1>11. f[0] = found[0]
  <2>1. 0 \in 0 .. n
    BY <1>1
  <2>2. QED
    BY <1>5, <1>6, <2>1
<1> HIDE DEF Added, Recursion, found, step
<1>7. found[n] \in V
  <2> DEFINE Differ == {k \in 0 .. n : found[k] # f[k]}
  <2>1. Differ = {}
    <3>1. SUFFICES ASSUME Differ # {}
                   PROVE  FALSE
      OBVIOUS
    <3>2. PICK k \in Differ : \A j \in Differ : k <= j
      <4>1. Differ \in SUBSET Nat
        OBVIOUS
      <4>2. QED
        BY <3>1, <4>1, LeastNumber
    <3>3. k \in 0 .. n /\ found[k] # f[k]
      BY <3>2
    <3>4. k # 0
      BY <1>11, <3>3
    <3>5. k - 1 \in 0 .. n /\ ~(k <= k - 1)
      BY <3>3, <3>4
    <3>6. found[k - 1] = f[k - 1]
      BY <3>2, <3>5
    <3>7. QED
      BY <1>10, <3>3, <3>4, <3>6
  <2>2. n \in 0 .. n
    BY <1>1
  <2>3. QED
    BY <2>1, <2>2
<1>8. Classify(scene) = found[n]
  BY DEF Classify, found, Recursion
<1>9. QED
  BY <1>7, <1>8
-----------------------------------------------------------------------------
(***************************************************************************)
(* The type invariant of AlertPipeline: of what the threads keep, of the   *)
(* ROIs, and of what becomes of violations.                                *)
(***************************************************************************)
RoiRow == [version : Nat, area : Areas \cup {Everywhere}]
Looking == {"test", "store", "look", "insert"}
Row == [camera : Cameras, type : Types, at : Never .. MaxClock]

ThreadTypes ==
  /\ results \in [Cameras -> Nat]
  /\ pc \in [Cameras -> {"idle", "announce"} \cup Looking]
  /\ todo \in [Cameras -> Seq(Violation)]
  /\ \A c \in Cameras : pc[c] \in Looking => todo[c] # <<>>
  /\ clock \in 0 .. MaxClock /\ sets \in 0 .. MaxSets
  /\ lastAlert \in [Cameras -> [Types -> Never .. MaxClock]]

RoiTypes ==
  /\ roi \in [Cameras -> RoiRow]
  /\ loaded \in [Cameras -> RoiRow \cup {Missing}]
  /\ cache \in [Cameras -> RoiRow \cup {Missing}]
  /\ settled \in [Cameras -> Nat]
  /\ saved = {} \/ \E c \in Cameras : saved = {c}

RecordTypes ==
  /\ dispatched \in [Cameras -> Seq(Nat)]
  /\ rows \in Seq(Row)
  /\ posted \in Seq(Nat)
  /\ lost \in SUBSET Nat

AlertTypes == ThreadTypes /\ RoiTypes /\ RecordTypes

\* The violation a thread looks at is the first of its list.
LEMMA HeadOfList ==
  ASSUME ThreadTypes, NEW c \in Cameras, pc[c] \in Looking
  PROVE  /\ Head(todo[c]) \in Violation /\ Head(todo[c]).type \in Types
         /\ Tail(todo[c]) \in Seq(Violation)
         /\ Len(todo[c]) > 1 => Tail(todo[c]) # <<>>
<1>1. todo[c] \in Seq(Violation) /\ todo[c] # <<>>
  BY DEF ThreadTypes
<1>2. /\ Head(todo[c]) \in Violation /\ Tail(todo[c]) \in Seq(Violation)
      /\ Len(Tail(todo[c])) = Len(todo[c]) - 1 /\ Len(todo[c]) \in Nat
  BY <1>1, HeadTailProperties, LenProperties
<1>3. ASSUME Len(todo[c]) > 1
      PROVE  Tail(todo[c]) # <<>>
  <2>1. Len(<<>>) = 0
    OBVIOUS
  <2>2. \A n, m \in Nat : m > 1 /\ n = m - 1 => n # 0
    OBVIOUS
  <2>3. Len(Tail(todo[c])) \in Nat
    BY <1>2, LenProperties
  <2>4. Len(Tail(todo[c])) # 0
    BY <1>2, <1>3, <2>2, <2>3
  <2>5. QED
    BY <2>1, <2>4
<1>4. QED
  BY <1>2, <1>3 DEF Violation

\* Going on to the next violation, or giving up the list, keeps the list's type.
LEMMA AfterViolationType ==
  ASSUME ThreadTypes, NEW c \in Cameras, pc[c] \in Looking, AfterViolation(c)
  PROVE  /\ pc' \in [Cameras -> {"idle", "announce"} \cup Looking]
         /\ todo' \in [Cameras -> Seq(Violation)]
         /\ \A d \in Cameras : pc'[d] \in Looking => todo'[d] # <<>>
<1>1. Tail(todo[c]) \in Seq(Violation) /\ (Len(todo[c]) > 1 => Tail(todo[c]) # <<>>)
  BY HeadOfList
<1>2. /\ todo' = [todo EXCEPT ![c] = Tail(todo[c])]
      /\ pc' = [pc EXCEPT ![c] = IF Len(todo[c]) > 1 THEN "test" ELSE "announce"]
  BY DEF AfterViolation, Goto
<1>3. QED
  BY <1>1, <1>2 DEF ThreadTypes, Looking

LEMMA RaiseType ==
  ASSUME ThreadTypes, NEW c \in Cameras, Raise(c)
  PROVE  /\ pc' \in [Cameras -> {"idle", "announce"} \cup Looking]
         /\ todo' \in [Cameras -> Seq(Violation)]
         /\ \A d \in Cameras : pc'[d] \in Looking => todo'[d] # <<>>
BY EmptySeq DEF ThreadTypes, Raise, Goto, Looking

\* What the capture threads and the clock do keeps the types of the threads.
LEMMA ThreadTypesStep ==
  ASSUME ThreadTypes, [Next]_vars
  PROVE  ThreadTypes'
<1> USE DEF threadVars, vars
<1>1. CASE UNCHANGED <<results, pc, todo, clock, sets, lastAlert>>
  BY <1>1 DEF ThreadTypes
<1>2. ASSUME NEW c \in Cameras, Detect(c)
      PROVE  ThreadTypes'
  <2>1. PICK scene \in Scenes :
          /\ Classify(Parse(scene)) # <<>>
          /\ todo' = [todo EXCEPT ![c] = Classify(Parse(scene))]
    BY <1>2 DEF Detect
  <2>2. Parse(scene) \in Scene
    <3>1. scene \in Scene /\ <<>> \in Seq(BOOLEAN)
      BY AlertAssumption, EmptySeq
    <3>2. QED
      BY <3>1 DEF Parse, Scene
  <2>3. Classify(Parse(scene)) \in Seq(Violation)
    BY <2>2, ClassifyType
  <2>4. /\ results' = [results EXCEPT ![c] = results[c] + 1]
        /\ pc' = [pc EXCEPT ![c] = "test"]
        /\ UNCHANGED <<clock, sets, lastAlert>>
    BY <1>2 DEF Detect, Goto
  <2>5. QED
    BY <2>1, <2>3, <2>4 DEF ThreadTypes, Looking
<1>3. ASSUME NEW c \in Cameras, FindPolygon(c) \/ LoadPolygon(c) \/ StorePolygon(c)
      PROVE  ThreadTypes'
  BY <1>3 DEF FindPolygon, LoadPolygon, StorePolygon, Goto, ThreadTypes, Looking
<1>4. ASSUME NEW c \in Cameras, LoadFails(c) \/ LookFails(c) \/ DispatchFails(c)
      PROVE  ThreadTypes'
  BY <1>4, RaiseType DEF LoadFails, LookFails, DispatchFails, ThreadTypes
<1>5. ASSUME NEW c \in Cameras, LookSkips(c) \/ Dispatch(c)
      PROVE  ThreadTypes'
  <2>1. pc[c] \in Looking /\ AfterViolation(c) /\ UNCHANGED <<results, clock, sets, lastAlert>>
    BY <1>5 DEF LookSkips, Dispatch, Looking
  <2>2. QED
    BY <2>1, AfterViolationType DEF ThreadTypes
<1>6. ASSUME NEW c \in Cameras, LookAlerts(c)
      PROVE  ThreadTypes'
  <2>1. pc[c] \in Looking /\ Head(todo[c]).type \in Types
    BY <1>6, HeadOfList DEF LookAlerts, Looking
  <2> DEFINE type == Head(todo[c]).type
  <2>2. /\ lastAlert' = [lastAlert EXCEPT ![c] = [lastAlert[c] EXCEPT ![type] = clock]]
        /\ pc' = [pc EXCEPT ![c] = "insert"]
        /\ UNCHANGED <<results, todo, clock, sets>>
    BY <1>6 DEF LookAlerts, Goto
  <2>3. clock \in Never .. MaxClock
    BY AlertAssumption DEF ThreadTypes, Never
  <2> HIDE DEF type
  <2>4. lastAlert' \in [Cameras -> [Types -> Never .. MaxClock]]
    BY <2>2, <2>3 DEF ThreadTypes
  <2>5. QED
    BY <2>1, <2>2, <2>4 DEF ThreadTypes, Looking
<1>7. ASSUME NEW c \in Cameras, Announce(c)
      PROVE  ThreadTypes'
  BY <1>7 DEF Announce, Goto, ThreadTypes, Looking
<1>8. CASE Tick \/ SetClock
  <2>1. clock' \in 0 .. MaxClock /\ sets' \in 0 .. MaxSets
    BY <1>8, AlertAssumption DEF Tick, SetClock, ThreadTypes
  <2>2. QED
    BY <1>8, <2>1 DEF Tick, SetClock, ThreadTypes
<1>9. ASSUME NEW c \in Cameras, Invalidate(c) \/ \E area \in Areas \cup {Everywhere} : SaveRoi(c, area)
      PROVE  ThreadTypes'
  BY <1>1, <1>9 DEF Invalidate, SaveRoi
<1>10. QED
  BY <1>1, <1>2, <1>3, <1>4, <1>5, <1>6, <1>7, <1>8, <1>9 DEF Next, Thread

\* The loop's ROI updates and the threads' loads keep the types of the ROIs.
LEMMA RoiTypesStep ==
  ASSUME RoiTypes, [Next]_vars
  PROVE  RoiTypes'
<1> USE DEF threadVars, vars
<1>1. CASE UNCHANGED <<roi, loaded, cache, settled, saved>>
  BY <1>1 DEF RoiTypes
<1>2. ASSUME NEW c \in Cameras, LoadPolygon(c) \/ StorePolygon(c)
      PROVE  RoiTypes'
  BY <1>2 DEF LoadPolygon, StorePolygon, RoiTypes
<1>3. ASSUME NEW c \in Cameras, NEW area \in Areas \cup {Everywhere}, SaveRoi(c, area)
      PROVE  RoiTypes'
  <2>1. roi[c].version \in Nat
    BY DEF RoiTypes, RoiRow
  <2>2. [version |-> roi[c].version + 1, area |-> area] \in RoiRow
    BY <2>1 DEF RoiRow
  <2>3. QED
    BY <1>3, <2>2 DEF SaveRoi, RoiTypes
<1>4. ASSUME NEW c \in Cameras, Invalidate(c)
      PROVE  RoiTypes'
  <2>1. roi[c].version \in Nat
    BY DEF RoiTypes, RoiRow
  <2>2. saved' = {}
    BY <1>4 DEF Invalidate, RoiTypes
  <2>3. QED
    BY <1>4, <2>1, <2>2 DEF Invalidate, RoiTypes
<1>5. ASSUME NEW c \in Cameras, Detect(c) \/ FindPolygon(c) \/ LoadFails(c) \/ LookFails(c)
                 \/ LookSkips(c) \/ LookAlerts(c) \/ Dispatch(c) \/ DispatchFails(c) \/ Announce(c)
      PROVE  RoiTypes'
  BY <1>1, <1>5 DEF Detect, FindPolygon, LoadFails, LookFails, LookSkips, LookAlerts, Dispatch,
     DispatchFails, Announce
<1>6. CASE Tick \/ SetClock
  BY <1>1, <1>6 DEF Tick, SetClock
<1>7. QED
  BY <1>1, <1>2, <1>3, <1>4, <1>5, <1>6 DEF Next, Thread

\* Ids are numbers, rows are rows.
LEMMA RecordTypesStep ==
  ASSUME ThreadTypes, RecordTypes, [Next]_vars
  PROVE  RecordTypes'
<1> USE DEF threadVars, vars
<1>1. CASE UNCHANGED <<dispatched, rows, posted, lost>>
  BY <1>1 DEF RecordTypes
<1>2. ASSUME NEW c \in Cameras, LoadFails(c) \/ LookFails(c) \/ DispatchFails(c)
      PROVE  RecordTypes'
  <2>1. Held(c) \in SUBSET Nat
    BY ElementOfSeq DEF Held, ToSet, RecordTypes
  <2>2. QED
    BY <1>2, <2>1, EmptySeq DEF LoadFails, LookFails, DispatchFails, Raise, RecordTypes
<1>3. ASSUME NEW c \in Cameras, Dispatch(c)
      PROVE  RecordTypes'
  <2> DEFINE type == Head(todo[c]).type
             row == [camera |-> c, type |-> type, at |-> lastAlert[c][type]]
  <2>1. type \in Types
    BY <1>3, HeadOfList DEF Dispatch, Looking
  <2>2. row \in Row
    BY <2>1 DEF Row, ThreadTypes
  <2>3. Len(rows) + 1 \in Nat
    BY LenProperties DEF RecordTypes
  <2>4. /\ rows' = Append(rows, row)
        /\ dispatched' = [dispatched EXCEPT ![c] = Append(dispatched[c], Len(rows) + 1)]
        /\ UNCHANGED <<posted, lost>>
    BY <1>3 DEF Dispatch
  <2> HIDE DEF row
  <2>5. QED
    BY <2>2, <2>3, <2>4, AppendProperties DEF RecordTypes
<1>4. ASSUME NEW c \in Cameras, Announce(c)
      PROVE  RecordTypes'
  <2>1. CASE dispatched[c] = <<>>
    BY <1>4, <2>1 DEF Announce, RecordTypes
  <2>2. CASE dispatched[c] # <<>>
    <3>1. dispatched[c] \in Seq(Nat) /\ posted \in Seq(Nat)
      BY DEF RecordTypes
    <3>2. Head(dispatched[c]) \in Nat /\ Tail(dispatched[c]) \in Seq(Nat)
      BY <2>2, <3>1, HeadTailProperties
    <3>3. Append(posted, Head(dispatched[c])) \in Seq(Nat)
      BY <3>1, <3>2, AppendProperties
    <3>4. /\ posted' = Append(posted, Head(dispatched[c]))
          /\ dispatched' = [dispatched EXCEPT ![c] = Tail(dispatched[c])]
          /\ UNCHANGED <<rows, lost>>
      BY <1>4, <2>2 DEF Announce
    <3>5. QED
      BY <3>2, <3>3, <3>4 DEF RecordTypes
  <2>3. QED
    BY <2>1, <2>2
<1>5. ASSUME NEW c \in Cameras, Detect(c) \/ FindPolygon(c) \/ LoadPolygon(c) \/ StorePolygon(c)
                 \/ LookSkips(c) \/ LookAlerts(c) \/ Invalidate(c)
                 \/ \E area \in Areas \cup {Everywhere} : SaveRoi(c, area)
      PROVE  RecordTypes'
  BY <1>1, <1>5 DEF Detect, FindPolygon, LoadPolygon, StorePolygon, LookSkips, LookAlerts,
     Invalidate, SaveRoi
<1>6. CASE Tick \/ SetClock
  BY <1>1, <1>6 DEF Tick, SetClock
<1>7. QED
  BY <1>1, <1>2, <1>3, <1>4, <1>5, <1>6 DEF Next, Thread

LEMMA AlertTypesHold == Spec => []AlertTypes
<1>1. Init => AlertTypes
  <2>1. Init => ThreadTypes
    BY AlertAssumption, EmptySeq DEF Init, ThreadTypes, Looking, Never
  <2>2. Init => RoiTypes
    BY DEF Init, RoiTypes, RoiRow
  <2>3. Init => RecordTypes
    BY EmptySeq DEF Init, RecordTypes
  <2>4. QED
    BY <2>1, <2>2, <2>3 DEF AlertTypes
<1>2. AlertTypes /\ [Next]_vars => AlertTypes'
  BY ThreadTypesStep, RoiTypesStep, RecordTypesStep DEF AlertTypes
<1>3. QED
  BY <1>1, <1>2, PTL DEF Spec
-----------------------------------------------------------------------------
\* Versions: a polygon in the cache, or about to be put there, is one of those
\* saved since the last update that settled.
VersionInv ==
  \A c \in Cameras :
    /\ settled[c] <= roi[c].version
    /\ cache[c] # Missing => cache[c].version \in settled[c] .. roi[c].version
    /\ pc[c] = "store" => loaded[c].version \in settled[c] .. roi[c].version

LEMMA VersionStep ==
  ASSUME ThreadTypes, RoiTypes, VersionInv, [Next]_vars
  PROVE  VersionInv'
<1> USE DEF threadVars, vars
<1>1. ASSUME NEW c \in Cameras
      PROVE  settled[c] \in Nat /\ roi[c].version \in Nat /\ roi[c] \in RoiRow
  BY DEF RoiTypes, RoiRow
<1>2. CASE UNCHANGED <<pc, roi, loaded, cache, settled>>
  BY <1>2 DEF VersionInv
<1>3. ASSUME NEW c \in Cameras, UNCHANGED <<roi, loaded, cache, settled>>,
             \E location : location # "store" /\ (Goto(c, location) \/ UNCHANGED pc)
      PROVE  VersionInv'
  BY <1>3 DEF Goto, VersionInv, ThreadTypes
<1>4. ASSUME NEW c \in Cameras, LoadPolygon(c)
      PROVE  VersionInv'
  <2>1. /\ loaded' = [loaded EXCEPT ![c] = roi[c]] /\ pc' = [pc EXCEPT ![c] = "store"]
        /\ UNCHANGED <<roi, cache, settled>>
    BY <1>4 DEF LoadPolygon, Goto
  <2>2. roi[c].version \in settled[c] .. roi[c].version
    BY <1>1 DEF VersionInv
  <2>3. QED
    BY <2>1, <2>2 DEF VersionInv, RoiTypes, ThreadTypes
<1>5. ASSUME NEW c \in Cameras, StorePolygon(c)
      PROVE  VersionInv'
  <2>1. /\ cache' = [cache EXCEPT ![c] = loaded[c]] /\ pc' = [pc EXCEPT ![c] = "look"]
        /\ loaded' = [loaded EXCEPT ![c] = Missing] /\ UNCHANGED <<roi, settled>>
        /\ loaded[c].version \in settled[c] .. roi[c].version
    BY <1>5 DEF StorePolygon, Goto, VersionInv
  <2>2. QED
    BY <2>1 DEF VersionInv, RoiTypes, ThreadTypes
<1>6. ASSUME NEW c \in Cameras, NEW area \in Areas \cup {Everywhere}, SaveRoi(c, area)
      PROVE  VersionInv'
  <2> DEFINE new == [version |-> roi[c].version + 1, area |-> area]
  <2>1. roi' = [roi EXCEPT ![c] = new] /\ UNCHANGED <<pc, loaded, cache, settled>>
    BY <1>6 DEF SaveRoi
  <2>2. new.version = roi[c].version + 1
    OBVIOUS
  <2> HIDE DEF new
  <2>3. \A d \in Cameras : roi'[d].version \in Nat /\ roi[d].version <= roi'[d].version
    BY <1>1, <2>1, <2>2 DEF RoiTypes
  <2>4. \A d \in Cameras : settled[d] .. roi[d].version \subseteq settled[d] .. roi'[d].version
    BY <1>1, <2>3
  <2>5. \A d \in Cameras : settled[d] <= roi'[d].version
    BY <1>1, <2>3 DEF VersionInv
  <2>6. QED
    BY <2>1, <2>4, <2>5 DEF VersionInv
<1>7. ASSUME NEW c \in Cameras, Invalidate(c)
      PROVE  VersionInv'
  <2>1. /\ cache' = [cache EXCEPT ![c] = Missing] /\ UNCHANGED <<pc, loaded, roi>>
        /\ settled' = IF pc[c] = "store" THEN settled
                      ELSE [settled EXCEPT ![c] = roi[c].version]
    BY <1>7 DEF Invalidate
  <2>2. QED
    BY <1>1, <2>1 DEF VersionInv, RoiTypes, ThreadTypes
<1>8. ASSUME NEW c \in Cameras, Detect(c) \/ FindPolygon(c) \/ LoadFails(c) \/ LookFails(c)
                 \/ LookSkips(c) \/ LookAlerts(c) \/ Dispatch(c) \/ DispatchFails(c) \/ Announce(c)
      PROVE  VersionInv'
  <2>1. UNCHANGED <<roi, loaded, cache, settled>>
    BY <1>8 DEF Detect, FindPolygon, LoadFails, LookFails, LookSkips, LookAlerts, Dispatch,
       DispatchFails, Announce
  <2>2. \/ Goto(c, "test") \/ Goto(c, "look") \/ Goto(c, "idle") \/ Goto(c, "insert")
        \/ Goto(c, "announce") \/ UNCHANGED pc
    BY <1>8 DEF Detect, FindPolygon, LoadFails, LookFails, LookSkips, LookAlerts, Dispatch,
       DispatchFails, Announce, Raise, AfterViolation
  <2>3. QED
    BY <1>3, <2>1, <2>2
<1>9. CASE Tick \/ SetClock
  BY <1>2, <1>9 DEF Tick, SetClock
<1>10. QED
  BY <1>2, <1>4, <1>5, <1>6, <1>7, <1>8, <1>9 DEF Next, Thread

LEMMA VersionHolds == Spec => [](AlertTypes /\ VersionInv)
<1>1. Init => VersionInv
  BY DEF Init, VersionInv
<1>2. AlertTypes /\ VersionInv /\ [Next]_vars => VersionInv'
  BY VersionStep DEF AlertTypes
<1>3. QED
  BY <1>1, <1>2, AlertTypesHold, PTL DEF Spec

\* Every variable of the alert path has its type: a list that is looked at is
\* not empty, a cached polygon is one that was saved, and at most one camera's
\* update is between save and invalidation.
THEOREM AlertTypeCorrect == Spec => []TypeOK
<1>1. ASSUME AlertTypes, VersionInv
      PROVE  TypeOK
  <2> USE DEF AlertTypes
  <2>1. \A c \in Cameras :
          {roi[c].area, loaded[c].area, cache[c].area} \subseteq Areas \cup {Everywhere, {}}
    BY <1>1 DEF RoiTypes, RoiRow, Missing
  <2>2. \A c \in Cameras : cache[c] # Missing => cache[c].version \in 0 .. roi[c].version
    BY <1>1 DEF RoiTypes, RoiRow, VersionInv
  <2>3. Cardinality(saved) <= 1
    <3>1. saved = {} \/ \E c \in Cameras : saved = {c}
      BY <1>1 DEF RoiTypes
    <3>2. Cardinality(saved) = 0 \/ Cardinality(saved) = 1
      BY <3>1, FS_EmptySet, FS_Singleton
    <3>3. QED
      BY <3>2
  <2>4. QED
    BY <1>1, <2>1, <2>2, <2>3 DEF TypeOK, ThreadTypes, RecordTypes, Looking, Row
<1>2. QED
  BY <1>1, VersionHolds, PTL

\* Once an ROI update has ended while no load of the camera was under way, no
\* older polygon is in the cache or on its way there, however the capture thread
\* and the event loop take turns (ROIMatcher with api_put_roi).
THEOREM SettledRoi == Spec => []SettledRoiHolds
<1>1. AlertTypes /\ VersionInv => SettledRoiHolds
  BY DEF AlertTypes, RoiTypes, RoiRow, VersionInv, SettledRoiHolds
<1>2. QED
  BY <1>1, VersionHolds, PTL
-----------------------------------------------------------------------------
(***************************************************************************)
(* The rate: no row of a type was let through later than the last alert of *)
(* the type; and while that one's row is still to be inserted, each was a  *)
(* cooldown earlier.  A clock that is set back only makes should_alert()   *)
(* say no for longer.                                                      *)
(***************************************************************************)
Due(c, t) == pc[c] = "insert" /\ Head(todo[c]).type = t
Of(i, c, t) == rows[i].camera = c /\ rows[i].type = t

RateInv ==
  /\ AlertRate
  /\ \A c \in Cameras, t \in Types :
       /\ \A i \in 1 .. Len(rows) :
            Of(i, c, t) => /\ 0 <= rows[i].at /\ rows[i].at <= lastAlert[c][t]
                           /\ Due(c, t) => lastAlert[c][t] - rows[i].at >= Cooldown
       /\ Due(c, t) => 0 <= lastAlert[c][t]

\* The rows' times are numbers.
LEMMA RowTimes ==
  ASSUME ThreadTypes, RecordTypes
  PROVE  /\ Len(rows) \in Nat /\ clock \in Nat /\ Cooldown \in Nat /\ Never = -1
         /\ \A i \in 1 .. Len(rows) : rows[i] \in Row /\ rows[i].at \in Int
         /\ \A c \in Cameras, t \in Types : lastAlert[c][t] \in Int /\ Never <= lastAlert[c][t]
<1>1. Len(rows) \in Nat /\ \A i \in 1 .. Len(rows) : rows[i] \in Row
  BY LenProperties, ElementOfSeq DEF RecordTypes
<1>2. Never = -1 /\ MaxClock \in Nat /\ Cooldown \in Nat
  BY AlertAssumption DEF Never
<1>3. QED
  BY <1>1, <1>2 DEF Row, ThreadTypes

\* A step that writes neither rows nor alerts and leaves at most fewer due.
LEMMA RateKept ==
  ASSUME RateInv, rows' = rows, lastAlert' = lastAlert,
         \A c \in Cameras, t \in Types : Due(c, t)' => Due(c, t)
  PROVE  RateInv'
BY DEF RateInv, AlertRate, Of

\* An alert is given: a cooldown at least has passed since the last of its type.
LEMMA RateLookAlerts ==
  ASSUME ThreadTypes, RecordTypes, RateInv, NEW c \in Cameras, LookAlerts(c)
  PROVE  RateInv'
<1> DEFINE type == Head(todo[c]).type
<1>1. type \in Types
  BY HeadOfList DEF LookAlerts, Looking
<1>2. /\ lastAlert' = [lastAlert EXCEPT ![c] = [lastAlert[c] EXCEPT ![type] = clock]]
      /\ pc' = [pc EXCEPT ![c] = "insert"] /\ pc[c] = "look"
      /\ UNCHANGED <<rows, todo>>
      /\ lastAlert[c][type] = Never \/ clock - lastAlert[c][type] >= Cooldown
  BY DEF LookAlerts, Goto, ShouldAlert
<1>3. AlertRate'
  BY <1>2 DEF RateInv, AlertRate
<1> HIDE DEF type
<1>4. ASSUME NEW d \in Cameras, NEW t \in Types
      PROVE  /\ \A i \in 1 .. Len(rows) :
                  Of(i, d, t) => /\ 0 <= rows[i].at /\ rows[i].at <= lastAlert'[d][t]
                                 /\ Due(d, t)' => lastAlert'[d][t] - rows[i].at >= Cooldown
             /\ Due(d, t)' => 0 <= lastAlert'[d][t]
  <2>1. CASE d = c /\ t = type
    <3>1. lastAlert'[d][t] = clock
      BY <1>1, <1>2, <2>1 DEF ThreadTypes
    <3>2. ASSUME NEW i \in 1 .. Len(rows), Of(i, d, t)
          PROVE  0 <= rows[i].at /\ clock - rows[i].at >= Cooldown
      <4>1. 0 <= rows[i].at /\ rows[i].at <= lastAlert[c][type]
        BY <1>1, <2>1, <3>2 DEF RateInv
      <4>2. rows[i].at \in Int /\ lastAlert[c][type] \in Int /\ clock \in Nat /\ Cooldown \in Nat
            /\ Never = -1
        BY <1>1, RowTimes
      <4>3. QED
        BY <1>2, <4>1, <4>2
    <3>3. QED
      BY <3>1, <3>2, RowTimes
  <2>2. CASE ~(d = c /\ t = type)
    <3>1. lastAlert'[d][t] = lastAlert[d][t]
      BY <1>1, <1>2, <2>2 DEF ThreadTypes
    <3>2. Due(d, t)' => Due(d, t)
      BY <1>2, <2>2 DEF Due, ThreadTypes, type
    <3>3. QED
      BY <3>1, <3>2 DEF RateInv
  <2>3. QED
    BY <2>1, <2>2
<1>5. QED
  BY <1>2, <1>3, <1>4 DEF RateInv, Of

\* The row that was due is inserted.
LEMMA RateDispatch ==
  ASSUME ThreadTypes, RecordTypes, RateInv, NEW c \in Cameras, Dispatch(c)
  PROVE  RateInv'
<1> DEFINE type == Head(todo[c]).type
           new == Len(rows) + 1
           row == [camera |-> c, type |-> type, at |-> lastAlert[c][type]]
<1>1. type \in Types
  BY HeadOfList DEF Dispatch, Looking
<1>2. rows' = Append(rows, row) /\ lastAlert' = lastAlert /\ Due(c, type)
  BY DEF Dispatch, Due
<1>3. /\ pc'[c] # "insert" /\ \A d \in Cameras \ {c} : pc'[d] = pc[d] /\ todo'[d] = todo[d]
  BY DEF Dispatch, AfterViolation, Goto, ThreadTypes
<1>4. row \in Row /\ row.camera = c /\ row.type = type /\ row.at = lastAlert[c][type]
  BY <1>1 DEF Row, ThreadTypes
<1> HIDE DEF type, row
<1>5. /\ Len(rows) \in Nat /\ Len(rows') = new /\ rows'[new] = row
      /\ \A i \in 1 .. Len(rows) : rows'[i] = rows[i]
  BY <1>2, <1>4, LenProperties, AppendProperties DEF RecordTypes
<1>6. \A i \in 1 .. new : i \in 1 .. Len(rows) \/ i = new
  BY <1>5
<1>7. \A i, j \in 1 .. new : i < j => i \in 1 .. Len(rows)
  BY <1>5
<1> HIDE DEF new
<1>8. ASSUME NEW i \in 1 .. Len(rows), Of(i, c, type)
      PROVE  lastAlert[c][type] - rows[i].at >= Cooldown
  BY <1>1, <1>2, <1>8 DEF RateInv
<1>9. AlertRate'
  <2>1. ASSUME NEW i \in 1 .. new, NEW j \in 1 .. new, i < j,
               rows'[i].camera = rows'[j].camera, rows'[i].type = rows'[j].type
        PROVE  rows'[j].at - rows'[i].at >= Cooldown
    <3>1. i \in 1 .. Len(rows)
      BY <1>7, <2>1
    <3>2. CASE j = new
      BY <1>4, <1>5, <1>8, <2>1, <3>1, <3>2 DEF Of
    <3>3. CASE j \in 1 .. Len(rows)
      BY <1>5, <2>1, <3>1, <3>3 DEF RateInv, AlertRate
    <3>4. QED
      BY <1>6, <3>2, <3>3
  <2>2. QED
    BY <1>5, <2>1 DEF AlertRate
<1>10. ASSUME NEW d \in Cameras, NEW t \in Types
       PROVE  /\ \A i \in 1 .. new :
                   Of(i, d, t)' => /\ 0 <= rows'[i].at /\ rows'[i].at <= lastAlert[d][t]
                                   /\ Due(d, t)' => lastAlert[d][t] - rows'[i].at >= Cooldown
              /\ Due(d, t)' => 0 <= lastAlert[d][t]
  <2>1. Due(d, t)' => Due(d, t) /\ d # c
    BY <1>3 DEF Due
  <2>2. ASSUME NEW i \in 1 .. new, Of(i, d, t)'
        PROVE  /\ 0 <= rows'[i].at /\ rows'[i].at <= lastAlert[d][t]
               /\ Due(d, t)' => lastAlert[d][t] - rows'[i].at >= Cooldown
    <3>1. CASE i = new
      <4>1. d = c /\ t = type /\ rows'[i].at = lastAlert[c][type]
        BY <1>4, <1>5, <2>2, <3>1 DEF Of
      <4>2. 0 <= lastAlert[c][type] /\ lastAlert[c][type] \in Int
        BY <1>1, <1>2, RowTimes DEF RateInv
      <4>3. QED
        BY <2>1, <4>1, <4>2
    <3>2. CASE i \in 1 .. Len(rows)
      <4>1. Of(i, d, t) /\ rows'[i] = rows[i]
        BY <1>5, <2>2, <3>2 DEF Of
      <4>2. QED
        BY <2>1, <3>2, <4>1 DEF RateInv
    <3>3. QED
      BY <1>6, <3>1, <3>2
  <2>3. QED
    BY <2>1, <2>2 DEF RateInv
<1>11. QED
  BY <1>2, <1>5, <1>9, <1>10 DEF RateInv

LEMMA RateStep ==
  ASSUME ThreadTypes, RecordTypes, RateInv, [Next]_vars
  PROVE  RateInv'
<1> USE DEF threadVars, vars
<1>1. CASE UNCHANGED <<rows, lastAlert, pc, todo>>
  BY <1>1, RateKept DEF Due
<1>2. ASSUME NEW c \in Cameras, UNCHANGED <<rows, lastAlert>>,
             pc' = [pc EXCEPT ![c] = pc'[c]] /\ pc'[c] # "insert",
             todo' = [todo EXCEPT ![c] = todo'[c]]
      PROVE  RateInv'
  <2>1. \A d \in Cameras, t \in Types : Due(d, t)' => Due(d, t)
    BY <1>2 DEF Due, ThreadTypes
  <2>2. QED
    BY <1>2, <2>1, RateKept
<1>3. ASSUME NEW c \in Cameras, Detect(c) \/ FindPolygon(c) \/ LoadPolygon(c) \/ StorePolygon(c)
                 \/ LoadFails(c) \/ LookFails(c) \/ LookSkips(c) \/ DispatchFails(c)
      PROVE  RateInv'
  <2>1. UNCHANGED <<rows, lastAlert>>
    BY <1>3 DEF Detect, FindPolygon, LoadPolygon, StorePolygon, LoadFails, LookFails, LookSkips, DispatchFails
  <2>2. pc' = [pc EXCEPT ![c] = pc'[c]] /\ pc'[c] # "insert"
    BY <1>3 DEF Detect, FindPolygon, LoadPolygon, StorePolygon, LoadFails, LookFails, LookSkips,
       DispatchFails, Goto, Raise, AfterViolation, ThreadTypes
  <2>3. todo' = [todo EXCEPT ![c] = todo'[c]]
    BY <1>3 DEF Detect, FindPolygon, LoadPolygon, StorePolygon, LoadFails, LookFails, LookSkips,
       DispatchFails, Raise, AfterViolation, ThreadTypes
  <2>4. QED
    BY <1>2, <2>1, <2>2, <2>3
<1>4. ASSUME NEW c \in Cameras, Announce(c)
      PROVE  RateInv'
  <2>1. UNCHANGED <<rows, lastAlert, todo>> /\ (UNCHANGED pc \/ Goto(c, "idle"))
    BY <1>4 DEF Announce
  <2>2. \A d \in Cameras, t \in Types : Due(d, t)' => Due(d, t)
    BY <2>1 DEF Due, Goto, ThreadTypes
  <2>3. QED
    BY <2>1, <2>2, RateKept
<1>5. CASE Tick \/ SetClock
  BY <1>1, <1>5 DEF Tick, SetClock
<1>6. ASSUME NEW c \in Cameras, Invalidate(c) \/ \E area \in Areas \cup {Everywhere} : SaveRoi(c, area)
      PROVE  RateInv'
  BY <1>1, <1>6 DEF Invalidate, SaveRoi
<1>7. QED
  BY <1>1, <1>3, <1>4, <1>5, <1>6, RateLookAlerts, RateDispatch DEF Next, Thread

\* A violation type of a camera fires at most once per cooldown period: any two
\* of its rows were let through a cooldown apart, for any cooldown and number of
\* cameras and results, whichever dispatches fail and however the clock is set.
THEOREM AtMostOncePerPeriod == Spec => []AlertRate
<1>1. Init => RateInv
  <2>1. SUFFICES ASSUME Init
                 PROVE  RateInv
    OBVIOUS
  <2>2. 1 .. Len(rows) = {}
    BY <2>1 DEF Init
  <2>3. \A c \in Cameras, t \in Types : ~Due(c, t)
    BY <2>1 DEF Init, Due
  <2>4. QED
    BY <2>2, <2>3 DEF RateInv, AlertRate
<1>2. AlertTypes /\ RateInv /\ [Next]_vars => RateInv'
  BY RateStep DEF AlertTypes
<1>3. RateInv => AlertRate
  BY DEF RateInv
<1>4. QED
  BY <1>1, <1>2, <1>3, AlertTypesHold, PTL DEF Spec
-----------------------------------------------------------------------------
(***************************************************************************)
(* Lists of ids: append(id) and pop(0) on a list without duplicates.       *)
(***************************************************************************)
LEMMA AppendId ==
  ASSUME NEW s \in Seq(Nat), IsInjective(s), NEW n \in Nat, n \notin ToSet(s)
  PROVE  /\ IsInjective(Append(s, n))
         /\ ToSet(Append(s, n)) = ToSet(s) \cup {n}
<1>1. DOMAIN s = 1 .. Len(s) /\ Len(s) \in Nat
  BY LenProperties
<1> DEFINE r == Append(s, n)
           k == Len(s) + 1
<1>2. /\ r \in Seq(Nat) /\ Len(r) = k /\ r[k] = n
      /\ \A j \in 1 .. Len(s) : r[j] = s[j]
  BY AppendProperties
<1>3. DOMAIN r = 1 .. Len(s) \cup {k} /\ k \notin 1 .. Len(s)
  BY <1>1, <1>2, LenProperties
<1>4. \A j \in 1 .. Len(s) : s[j] # n
  BY <1>1 DEF ToSet
<1> HIDE DEF r, k
<1>5. IsInjective(r)
  BY <1>1, <1>2, <1>3, <1>4 DEF IsInjective
<1>6. ToSet(r) = ToSet(s) \cup {n}
  BY <1>1, <1>2, <1>3 DEF ToSet
<1>7. QED
  BY <1>5, <1>6 DEF r

LEMMA DropFirst ==
  ASSUME NEW s \in Seq(Nat), IsInjective(s), s # <<>>
  PROVE  /\ Head(s) \in ToSet(s)
         /\ IsInjective(Tail(s))
         /\ ToSet(Tail(s)) = ToSet(s) \ {Head(s)}
<1> DEFINE r == Tail(s)
           m == Len(s) - 1
<1>1. DOMAIN s = 1 .. Len(s) /\ Len(s) \in Nat \ {0} /\ Head(s) = s[1]
  BY LenProperties, EmptySeq
<1>2. r \in Seq(Nat) /\ Len(r) = m /\ \A j \in 1 .. Len(r) : r[j] = s[j + 1]
  BY HeadTailProperties
<1>3. DOMAIN r = 1 .. m /\ m \in Nat
  BY <1>1, <1>2, LenProperties
<1>4. /\ \A j \in 1 .. m : j + 1 \in 1 .. Len(s) /\ j + 1 # 1 /\ r[j] = s[j + 1]
      /\ \A j \in 1 .. Len(s) : j # 1 => j - 1 \in 1 .. m /\ r[j - 1] = s[j]
      /\ 1 \in 1 .. Len(s)
  BY <1>1, <1>2
<1> HIDE DEF r, m
<1>5. \A i, j \in 1 .. Len(s) : s[i] = s[j] => i = j
  BY <1>1 DEF IsInjective
<1>6. IsInjective(r)
  <2>1. \A i, j \in 1 .. m : i + 1 = j + 1 => i = j
    BY <1>3
  <2>2. QED
    BY <1>3, <1>4, <1>5, <2>1 DEF IsInjective
<1>7. ASSUME NEW n \in ToSet(r)
      PROVE  n \in ToSet(s) /\ n # s[1]
  <2>1. PICK j \in 1 .. m : n = r[j]
    BY <1>3, <1>7 DEF ToSet
  <2>2. j + 1 \in 1 .. Len(s) /\ j + 1 # 1 /\ n = s[j + 1]
    BY <1>4, <2>1
  <2>3. n \in ToSet(s)
    BY <1>1, <2>2 DEF ToSet
  <2>4. n # s[1]
    BY <1>4, <1>5, <2>2
  <2>5. QED
    BY <2>3, <2>4
<1>8. ASSUME NEW n \in ToSet(s), n # s[1]
      PROVE  n \in ToSet(r)
  <2>1. PICK j \in 1 .. Len(s) : n = s[j] /\ j # 1
    BY <1>1, <1>8 DEF ToSet
  <2>2. QED
    BY <1>3, <1>4, <2>1 DEF ToSet
<1>9. QED
  BY <1>1, <1>4, <1>6, <1>7, <1>8 DEF r, ToSet

\* Every stored id is in one place only: given up, announced, or with one of
\* the cameras' threads.
IdsInv ==
  /\ IsInjective(posted)
  /\ \A c \in Cameras : IsInjective(dispatched[c])
  /\ \A c, d \in Cameras : c # d => Held(c) \cap Held(d) = {}
  /\ \A c \in Cameras : Held(c) \cap (lost \cup ToSet(posted)) = {}
  /\ lost \cap ToSet(posted) = {}
  /\ \A n : n \in 1 .. Len(rows) <=>
            n \in lost \/ n \in ToSet(posted) \/ \E c \in Cameras : n \in Held(c)

LEMMA HeldAreRows ==
  ASSUME RecordTypes, IdsInv
  PROVE  /\ Len(rows) \in Nat /\ Len(rows) + 1 \notin 1 .. Len(rows)
         /\ \A c \in Cameras : Held(c) \subseteq 1 .. Len(rows)
         /\ lost \subseteq 1 .. Len(rows) /\ ToSet(posted) \subseteq 1 .. Len(rows)
<1>1. Len(rows) \in Nat
  BY LenProperties DEF RecordTypes
<1>2. Len(rows) + 1 \notin 1 .. Len(rows)
  BY <1>1
<1>3. QED
  BY <1>1, <1>2 DEF IdsInv

\* An exception gives up what its thread held.
LEMMA IdsRaise ==
  ASSUME RecordTypes, IdsInv, NEW c \in Cameras, Raise(c), UNCHANGED <<posted, rows>>
  PROVE  IdsInv'
<1>1. /\ dispatched' = [dispatched EXCEPT ![c] = <<>>] /\ lost' = lost \cup Held(c)
      /\ posted' = posted /\ rows' = rows
  BY DEF Raise
<1>2. ToSet(<<>>) = {} /\ IsInjective(<<>>)
  BY DEF ToSet, IsInjective
<1>3. \A d \in Cameras : Held(d)' = (IF d = c THEN {} ELSE Held(d)) /\ IsInjective(dispatched'[d])
  BY <1>1, <1>2 DEF Held, RecordTypes, IdsInv
<1>4. \A n : (\E d \in Cameras : n \in Held(d))
               <=> n \in Held(c) \/ \E d \in Cameras : n \in Held(d)'
  BY <1>3
<1>5. \A n : n \in 1 .. Len(rows') <=>
            n \in lost' \/ n \in ToSet(posted') \/ \E d \in Cameras : n \in Held(d)'
  BY <1>1, <1>4 DEF IdsInv
<1>6. /\ \A d, e \in Cameras : d # e => Held(d)' \cap Held(e)' = {}
      /\ \A d \in Cameras : Held(d)' \cap (lost' \cup ToSet(posted')) = {}
      /\ lost' \cap ToSet(posted') = {}
  BY <1>1, <1>3 DEF IdsInv
<1>7. QED
  BY <1>1, <1>3, <1>5, <1>6 DEF IdsInv

\* A new row's id is with its thread.
LEMMA IdsDispatch ==
  ASSUME ThreadTypes, RecordTypes, IdsInv, NEW c \in Cameras, Dispatch(c)
  PROVE  IdsInv'
<1> DEFINE n == Len(rows) + 1
           type == Head(todo[c]).type
           row == [camera |-> c, type |-> type, at |-> lastAlert[c][type]]
<1>1. n \in Nat /\ n \notin 1 .. Len(rows) /\ \A d \in Cameras : n \notin Held(d)
  BY HeldAreRows
<1>2. /\ dispatched' = [dispatched EXCEPT ![c] = Append(dispatched[c], n)]
      /\ posted' = posted /\ lost' = lost
      /\ rows' = Append(rows, row)
  BY DEF Dispatch
<1>3. type \in Types
  BY HeadOfList DEF Dispatch, Looking
<1>4. Len(rows') = n
  <2>1. row \in Row
    BY <1>3 DEF Row, ThreadTypes
  <2> HIDE DEF row
  <2>2. QED
    BY <1>2, <2>1, AppendProperties DEF RecordTypes
<1>5. 1 .. n = 1 .. Len(rows) \cup {n}
  BY HeldAreRows
<1> HIDE DEF n, type, row
<1>6. dispatched[c] \in Seq(Nat) /\ IsInjective(dispatched[c]) /\ n \notin ToSet(dispatched[c])
  BY <1>1 DEF RecordTypes, IdsInv, Held
<1>7. \A d \in Cameras : /\ Held(d)' = (IF d = c THEN Held(d) \cup {n} ELSE Held(d))
                         /\ IsInjective(dispatched'[d])
  BY <1>1, <1>2, <1>6, AppendId DEF Held, RecordTypes, IdsInv
<1>8. n \notin lost /\ n \notin ToSet(posted)
  BY <1>1, HeldAreRows
<1>9. \A m : (\E d \in Cameras : m \in Held(d)')
               <=> m = n \/ \E d \in Cameras : m \in Held(d)
  BY <1>7
<1>10. \A m : m \in 1 .. Len(rows') <=>
             m \in lost' \/ m \in ToSet(posted') \/ \E d \in Cameras : m \in Held(d)'
  BY <1>2, <1>4, <1>5, <1>9 DEF IdsInv
<1>11. /\ \A d, e \in Cameras : d # e => Held(d)' \cap Held(e)' = {}
       /\ \A d \in Cameras : Held(d)' \cap (lost' \cup ToSet(posted')) = {}
       /\ lost' \cap ToSet(posted') = {}
  BY <1>1, <1>2, <1>7, <1>8 DEF IdsInv
<1>12. QED
  BY <1>2, <1>7, <1>10, <1>11 DEF IdsInv

\* The oldest id of the thread is announced.
LEMMA IdsAnnounce ==
  ASSUME RecordTypes, IdsInv, NEW c \in Cameras, Announce(c), dispatched[c] # <<>>
  PROVE  IdsInv'
<1> DEFINE n == Head(dispatched[c])
<1>1. /\ dispatched' = [dispatched EXCEPT ![c] = Tail(dispatched[c])]
      /\ posted' = Append(posted, n) /\ lost' = lost /\ rows' = rows
  BY DEF Announce
<1>2. dispatched[c] \in Seq(Nat) /\ posted \in Seq(Nat) /\ IsInjective(dispatched[c])
  BY DEF RecordTypes, IdsInv
<1>3. n \in Held(c) /\ n \in Nat
  BY <1>2, DropFirst, HeadTailProperties DEF Held
<1>4. IsInjective(Tail(dispatched[c])) /\ ToSet(Tail(dispatched[c])) = Held(c) \ {n}
  BY <1>2, DropFirst DEF Held
<1> HIDE DEF n
<1>5. \A d \in Cameras : /\ Held(d)' = (IF d = c THEN Held(d) \ {n} ELSE Held(d))
                         /\ IsInjective(dispatched'[d])
  BY <1>1, <1>4 DEF Held, RecordTypes, IdsInv
<1>6. n \notin ToSet(posted) /\ n \notin lost /\ \A d \in Cameras : d # c => n \notin Held(d)
  BY <1>3 DEF IdsInv
<1>7. IsInjective(posted') /\ ToSet(posted') = ToSet(posted) \cup {n}
  BY <1>1, <1>2, <1>3, <1>6, AppendId DEF IdsInv
<1>8. \A m : (\E d \in Cameras : m \in Held(d))
               <=> m = n \/ \E d \in Cameras : m \in Held(d)'
  BY <1>3, <1>5
<1>9. \A m : m \in 1 .. Len(rows') <=>
            m \in lost' \/ m \in ToSet(posted') \/ \E d \in Cameras : m \in Held(d)'
  BY <1>1, <1>7, <1>8 DEF IdsInv
<1>10. /\ \A d, e \in Cameras : d # e => Held(d)' \cap Held(e)' = {}
       /\ \A d \in Cameras : Held(d)' \cap (lost' \cup ToSet(posted')) = {}
       /\ lost' \cap ToSet(posted') = {}
  BY <1>1, <1>5, <1>6, <1>7 DEF IdsInv
<1>11. QED
  BY <1>5, <1>7, <1>9, <1>10 DEF IdsInv

LEMMA IdsStep ==
  ASSUME ThreadTypes, RecordTypes, IdsInv, [Next]_vars
  PROVE  IdsInv'
<1> USE DEF threadVars, vars
<1>1. CASE UNCHANGED <<dispatched, rows, posted, lost>>
  BY <1>1 DEF IdsInv, Held
<1>2. ASSUME NEW c \in Cameras, LoadFails(c) \/ LookFails(c) \/ DispatchFails(c)
      PROVE  IdsInv'
  BY <1>2, IdsRaise DEF LoadFails, LookFails, DispatchFails
<1>3. ASSUME NEW c \in Cameras, Announce(c)
      PROVE  IdsInv'
  <2>1. CASE dispatched[c] = <<>>
    BY <1>1, <1>3, <2>1 DEF Announce
  <2>2. QED
    BY <1>3, <2>1, IdsAnnounce
<1>4. ASSUME NEW c \in Cameras, Detect(c) \/ FindPolygon(c) \/ LoadPolygon(c) \/ StorePolygon(c)
                 \/ LookSkips(c) \/ LookAlerts(c) \/ Invalidate(c)
                 \/ \E area \in Areas \cup {Everywhere} : SaveRoi(c, area)
      PROVE  IdsInv'
  BY <1>1, <1>4 DEF Detect, FindPolygon, LoadPolygon, StorePolygon, LookSkips, LookAlerts,
     Invalidate, SaveRoi
<1>5. CASE Tick \/ SetClock
  BY <1>1, <1>5 DEF Tick, SetClock
<1>6. QED
  BY <1>1, <1>2, <1>3, <1>4, <1>5, IdsDispatch DEF Next, Thread

\* Every stored violation is announced exactly once, is about to be, or was given
\* up by an exception later in its own result, whatever the cameras' threads do
\* at once (process and _handle_frame).
THEOREM AnnouncedOnce == Spec => []EachAnnouncedOnce
<1>1. Init => IdsInv
  <2>1. ToSet(<<>>) = {} /\ IsInjective(<<>>) /\ 1 .. Len(<<>>) = {}
    BY DEF ToSet, IsInjective
  <2>2. Init => \A c \in Cameras : Held(c) = {}
    BY <2>1 DEF Init, Held
  <2>3. QED
    BY <2>1, <2>2 DEF Init, IdsInv
<1>2. AlertTypes /\ IdsInv /\ [Next]_vars => IdsInv'
  BY IdsStep DEF AlertTypes
<1>3. IdsInv => EachAnnouncedOnce
  BY DEF IdsInv, EachAnnouncedOnce
<1>4. QED
  BY <1>1, <1>2, <1>3, AlertTypesHold, PTL DEF Spec
=============================================================================
