------------------------------ MODULE VideoProofs ------------------------------
(***************************************************************************)
(* An analysis that returns has failed nowhere and has left no frame in    *)
(* the queue, for every clip, queue size and stride.  Inv (the typing,     *)
(* Quiet: nobody is cancelled while the caller watches, and TasksEnded)    *)
(* gives the first; the second is the EOF protocol: an EOF is the last     *)
(* entry of its camera and is counted once (Marks), so the inference loop  *)
(* that has counted them all has taken every frame.                        *)
(*   What it returns is what one video after the other gives.  Evidence    *)
(* follows the frames of each camera: n were inferred, the next may be in  *)
(* the detector, those up to sent are in the queue in their order, and     *)
(* what was gathered of the camera is what its first n frames show alone   *)
(* (Streamed).                                                             *)
(***************************************************************************)
EXTENDS VideoStreaming, FoldProofs

\* Once the caller has returned, every task is done.
TasksEnded == main = "returned" => \A t \in Tasks : Status(t) = "done"

Inv == TypeOK /\ Quiet /\ TasksEnded

Entry == [camera : Camera, frame : Int]
Mark(c) == [camera |-> c, frame |-> Eof]

\* Cameras whose EOF is in the queue, and those whose task is over.
Marked == {c \in Camera : \E i \in DOMAIN queue : queue[i] = Mark(c)}
Through == {c \in Given : reader[c].st \in Over}

\* No EOF is counted of a camera that still reads.
Counted ==
  /\ yolo.eofs + Cardinality(Marked) <= Cardinality(Through)
  /\ yolo.st = "done" => yolo.eofs = Cardinality(Given)
  /\ Marked \subseteq Through

\* An EOF is the last word of its camera, and a task that is over has said it
\* after each of its frames.
InOrder ==
  /\ \A i, j \in DOMAIN queue :
       i < j /\ queue[i].frame = Eof => queue[j].camera # queue[i].camera
  /\ \A i \in DOMAIN queue : reader[queue[i].camera].st \in Over =>
       \E j \in DOMAIN queue : i <= j /\ queue[j] = Mark(queue[i].camera)
  /\ \A i \in DOMAIN queue : /\ queue[i].camera \in Given
                             /\ reader[queue[i].camera].st # "opening"
  /\ \A c \in Camera : reader[c].st = "putting" => reader[c].at > 0

Marks == main \in {"watching", "returned"} => Counted /\ InOrder

\* Places and ends of readers are told apart by name.
LEMMA InitInv == Init => Inv
  <1> SUFFICES ASSUME Init PROVE Inv
    OBVIOUS
  <1>1. TypeOK
    BY DEF Init, TypeOK, ReaderOK, YoloOK, Places, Over, Ended, Camera
  <1>2. Quiet
    BY DEF Init, Quiet, Camera
  <1>3. TasksEnded
    BY DEF Init, TasksEnded, Tasks, Status, Given
  <1> QED
    BY <1>1, <1>2, <1>3 DEF Inv

\* A reader moves to a place with an end that fit.
LEMMA MoveReaderOK ==
  ASSUME ReaderOK, NEW c \in Camera, NEW st \in Places, NEW at \in Nat,
         NEW end \in Over \cup {"none"}, st = "closing" => end # "none",
         MoveReader(c, st, at, end)
  PROVE  ReaderOK'
  <1> DEFINE r == [st |-> st, at |-> at, end |-> end]
  <1>1. r \in [st : Places, at : Nat, end : Over \cup {"none"}]
    OBVIOUS
  <1>2. reader' = [reader EXCEPT ![c] = r]
    BY DEF MoveReader
  <1> QED
    BY <1>1, <1>2 DEF ReaderOK

\* No extraction goes on once the caller has returned.
LEMMA StillRunning ==
  ASSUME Inv, NEW c \in Camera, Extraction(c)
  PROVE  main # "returned"
  <1> USE DEF Inv
  <1> SUFFICES ASSUME main = "returned" PROVE FALSE
    OBVIOUS
  <1>1. cancel = {} /\ \A t \in Tasks : Status(t) = "done"
    BY DEF Quiet, TasksEnded
  <1>2. c \in Tasks /\ reader[c].st # "done"
    BY <1>1 DEF Extraction, Open, OpenFails, Read, EndOfVideo, ReadFails, Put, PutEof,
                CancelReader, Awake
  <1> QED
    BY <1>1, <1>2 DEF Status, Camera

\* A step of an extraction task keeps the invariant: none is possible once
\* the caller has returned, for its tasks are over and nobody is cancelled.
LEMMA ExtractionInv ==
  ASSUME Inv, NEW c \in Camera, Extraction(c)
  PROVE  Inv'
  <1> USE DEF Inv
  <1>1. TypeOK'
    <2>1. \E st \in Places, at \in Nat, end \in Over \cup {"none"} :
            (st = "closing" => end # "none") /\ MoveReader(c, st, at, end)
      <3>1. reader[c].at \in Nat /\ reader[c].end \in Over \cup {"none"}
        BY DEF TypeOK, ReaderOK
      <3>2. CASE Read(c)
        <4>1. PICK st \in {"putting", "reading"} : MoveReader(c, st, reader[c].at + 1, "none")
          BY <3>2 DEF Read
        <4>2. st \in Places /\ reader[c].at + 1 \in Nat /\ st # "closing"
          BY <3>1 DEF Places
        <4> QED
          BY <4>1, <4>2
      <3>3. CASE EndOfVideo(c)
        BY <3>1, <3>3 DEF EndOfVideo, Places, Over
      <3>4. CASE PutEof(c)
        BY <3>1, <3>4 DEF PutEof, Places, TypeOK, ReaderOK
      <3>5. CASE CancelReader(c)
        BY <3>1, <3>5 DEF CancelReader, Places, Over
      <3>6. CASE Open(c) \/ OpenFails(c) \/ ReadFails(c) \/ Put(c)
        BY <3>1, <3>6 DEF Open, OpenFails, ReadFails, Put, Places, Over
      <3> QED
        BY <3>2, <3>3, <3>4, <3>5, <3>6 DEF Extraction
    <2>2. ReaderOK'
      BY <2>1, MoveReaderOK DEF TypeOK
    <2>3. queue' \in Seq([camera : Camera, frame : Int])
      <3>1. CASE Put(c)
        <4>1. [camera |-> c, frame |-> reader[c].at - 1] \in [camera : Camera, frame : Int]
          BY DEF TypeOK, ReaderOK
        <4> QED
          BY <3>1, <4>1 DEF TypeOK, Put
      <3>2. CASE PutEof(c)
        <4>1. [camera |-> c, frame |-> Eof] \in [camera : Camera, frame : Int]
          BY DEF Eof
        <4> QED
          BY <3>2, <4>1 DEF TypeOK, PutEof
      <3>3. CASE queue' = queue
        BY <3>3 DEF TypeOK
      <3> QED
        BY <3>1, <3>2, <3>3 DEF Extraction, Open, OpenFails, Read, EndOfVideo, ReadFails, CancelReader
    <2>4. UNCHANGED <<yolo, main>> /\ cancel' \subseteq cancel
      BY DEF Extraction, Open, OpenFails, Read, EndOfVideo, ReadFails, Put, PutEof, CancelReader
    <2> QED
      BY <2>2, <2>3, <2>4 DEF TypeOK, YoloOK
  <1>2. main' = main /\ yolo' = yolo /\ clip' = clip /\ cancel' \subseteq cancel
    BY DEF Extraction, Open, OpenFails, Read, EndOfVideo, ReadFails, Put, PutEof, CancelReader
  <1>3. main # "returned"
    BY StillRunning
  <1>4. Quiet'
    <2> SUFFICES ASSUME main = "watching"
                 PROVE \A d \in Camera : "cancelled" \notin {reader'[d].st, reader'[d].end}
      BY <1>2, <1>3 DEF Quiet
    <2>1. cancel = {} /\ \A d \in Camera : "cancelled" \notin {reader[d].st, reader[d].end}
      BY DEF Quiet
    <2>2. \E st, end \in Places \cup {"none"}, at \in {reader[c].at, reader[c].at + 1, 0} :
            "cancelled" \notin {st, end} /\ MoveReader(c, st, at, end)
      <3>1. reader[c].end \in Over \cup {"none"}
        BY DEF TypeOK, ReaderOK
      <3>2. CASE Read(c)
        BY <3>2 DEF Read, Places
      <3>3. CASE EndOfVideo(c)
        BY <3>3 DEF EndOfVideo, Places, Over
      <3>4. CASE PutEof(c)
        BY <2>1, <3>1, <3>4 DEF PutEof, Places
      <3>5. CASE Open(c) \/ OpenFails(c) \/ ReadFails(c) \/ Put(c)
        BY <3>5 DEF Open, OpenFails, ReadFails, Put, Places, Over
      <3> QED
        BY <2>1, <3>2, <3>3, <3>4, <3>5 DEF Extraction, CancelReader
    <2> QED
      BY <2>1, <2>2 DEF TypeOK, ReaderOK, MoveReader
  <1>5. TasksEnded'
    BY <1>2, <1>3 DEF TasksEnded
  <1> QED
    BY <1>1, <1>4, <1>5

\* A step of the inference loop keeps the invariant, for the same reason.
LEMMA InferenceInv ==
  ASSUME Inv, Inference
  PROVE  Inv'
  <1> USE DEF Inv
  <1>1. TypeOK'
    <2>1. CASE Take
      <3>1. /\ Tail(queue) \in Seq([camera : Camera, frame : Int])
            /\ Head(queue) \in [camera : Camera, frame : Int]
        <4> DEFINE S == [camera : Camera, frame : Int]
        <4>1. queue \in Seq(S) /\ queue # <<>>
          BY <2>1 DEF TypeOK, Take
        <4> HIDE DEF S
        <4>2. Tail(queue) \in Seq(S) /\ Head(queue) \in S
          BY <4>1, HeadTailProperties
        <4> QED
          BY <4>2 DEF S
      <3>2. YoloOK'
        <4>1. CASE Head(queue).frame = Eof
          <5>1. PICK st \in {"done", "waiting"} : yolo' = [yolo EXCEPT !.st = st, !.eofs = @ + 1]
            BY <2>1, <4>1 DEF Take
          <5>2. yolo' = [st |-> st, frame |-> yolo.frame, camera |-> yolo.camera,
                         eofs |-> yolo.eofs + 1]
            BY <5>1 DEF TypeOK, YoloOK
          <5> QED
            BY <5>2 DEF TypeOK, YoloOK, Over
        <4>2. CASE Head(queue).frame # Eof
          BY <2>1, <3>1, <4>2 DEF TypeOK, YoloOK, Take
        <4> QED
          BY <4>1, <4>2
      <3> QED
        BY <2>1, <3>1, <3>2 DEF TypeOK, ReaderOK, Take
    <2>2. CASE Detect \/ DetectFails \/ QueueTimeout \/ CancelYolo
      <3>1. YoloOK'
        BY <2>2 DEF TypeOK, YoloOK, Detect, DetectFails, QueueTimeout, CancelYolo, Over
      <3> QED
        BY <2>2, <3>1 DEF TypeOK, ReaderOK, Detect, DetectFails, QueueTimeout, CancelYolo
    <2> QED
      BY <2>1, <2>2 DEF Inference
  <1>2. main' = main /\ reader' = reader /\ clip' = clip /\ cancel' \subseteq cancel
    BY DEF Inference, Take, Detect, DetectFails, QueueTimeout, CancelYolo
  <1>3. main # "returned"
    <2> SUFFICES ASSUME main = "returned" PROVE FALSE
      OBVIOUS
    <2>1. cancel = {} /\ \A t \in Tasks : Status(t) = "done"
      BY DEF Quiet, TasksEnded
    <2>2. "yolo" \in Tasks /\ yolo.st # "done"
      BY <2>1 DEF Inference, Take, Detect, DetectFails, QueueTimeout, CancelYolo, Awake
    <2> QED
      BY <2>1, <2>2 DEF Status
  <1>4. Quiet'
    <2> SUFFICES ASSUME main = "watching" PROVE yolo'.st # "cancelled"
      BY <1>2, <1>3 DEF Quiet
    <2>1. cancel = {} /\ yolo.st # "cancelled"
      BY DEF Quiet
    <2> QED
      BY <2>1 DEF TypeOK, YoloOK, Inference, Take, Detect, DetectFails, QueueTimeout, CancelYolo
  <1>5. TasksEnded'
    BY <1>2, <1>3 DEF TasksEnded
  <1> QED
    BY <1>1, <1>4, <1>5

\* A step of the caller keeps the invariant: it returns only where no task is
\* left running and none failed, and by Quiet none was cancelled.
LEMMA CallerInv ==
  ASSUME Inv, Caller
  PROVE  Inv'
  <1> USE DEF Inv
  <1>1. reader' = reader /\ yolo' = yolo /\ clip' = clip /\ queue' = queue
    BY DEF Caller, SeeError, Raise, Return, Interrupt, Gathered
  <1>2. TypeOK'
    BY <1>1 DEF TypeOK, ReaderOK, YoloOK, Caller, SeeError, Raise, Return, Interrupt, Gathered, Ended, Running,
                Tasks, Given, Asked
  <1>3. Quiet'
    BY <1>1 DEF Quiet, Caller, SeeError, Raise, Return, Interrupt, Gathered
  <1>4. TasksEnded'
    <2> SUFFICES ASSUME main' = "returned", NEW t \in Tasks PROVE Status(t) = "done"
      BY <1>1 DEF TasksEnded, Tasks, Given, Status
    <2>1. Return
      BY DEF Caller, SeeError, Raise, Return, Interrupt, Gathered
    <2>2. Status(t) \in Over /\ Status(t) # "failed"
      BY <2>1 DEF Return, Fine, Running, Failed
    <2>3. Status(t) # "cancelled"
      BY <2>1 DEF Return, Quiet, Status, Tasks, Given
    <2> QED
      BY <2>2, <2>3 DEF Over
  <1> QED
    BY <1>2, <1>3, <1>4

-----------------------------------------------------------------------------
(* The marks of the end. *)

LEMMA CamerasAreFew ==
  /\ IsFiniteSet(Camera) /\ IsFiniteSet(Given) /\ IsFiniteSet(Marked) /\ IsFiniteSet(Through)
  /\ Cardinality(Given) \in Nat /\ Cardinality(Marked) \in Nat /\ Cardinality(Through) \in Nat
<1>1. IsFiniteSet(Camera)
  <2>1. Camera = {"side"} \cup {"top"}
    BY DEF Camera
  <2> QED BY <2>1, FS_Singleton, FS_Union
<1>2. Given \subseteq Camera /\ Marked \subseteq Camera /\ Through \subseteq Camera
  BY DEF Given, Marked, Through
<1>3. IsFiniteSet(Given) /\ IsFiniteSet(Marked) /\ IsFiniteSet(Through)
  BY <1>1, <1>2, FS_Subset
<1> QED BY <1>1, <1>3, FS_CardinalityType

\* What is in the queue, place by place.
LEMMA QueueIs ==
  ASSUME Inv
  PROVE  /\ Len(queue) \in Nat /\ DOMAIN queue = 1..Len(queue)
         /\ \A i \in DOMAIN queue : queue[i] \in Entry
         /\ \A i \in DOMAIN queue, c \in Camera :
              queue[i] = Mark(c) <=> queue[i].camera = c /\ queue[i].frame = Eof
<1>1. queue \in Seq(Entry)
  BY DEF Inv, TypeOK, Entry
<1>2. Len(queue) \in Nat /\ DOMAIN queue = 1..Len(queue)
      /\ \A i \in DOMAIN queue : queue[i] \in Entry
  BY <1>1, LenProperties, ElementOfSeq
<1>3. \A e \in Entry, c \in Camera : e = Mark(c) <=> e.camera = c /\ e.frame = Eof
  BY DEF Entry, Mark
<1> QED BY <1>2, <1>3

LEMMA Queued ==
  ASSUME Inv, NEW e \in Entry, queue' = Append(queue, e)
  PROVE  /\ DOMAIN queue' = DOMAIN queue \cup {Len(queue) + 1}
         /\ queue'[Len(queue) + 1] = e
         /\ \A i \in DOMAIN queue : queue'[i] = queue[i] /\ i < Len(queue) + 1
<1>1. queue \in Seq(Entry)
  BY DEF Inv, TypeOK, Entry
<1> HIDE DEF Entry
<1>2. /\ queue' \in Seq(Entry) /\ Len(queue') = Len(queue) + 1
      /\ \A i \in 1..Len(queue) : queue'[i] = queue[i]
      /\ queue'[Len(queue) + 1] = e
  BY <1>1, AppendProperties
<1>3. /\ Len(queue) \in Nat /\ DOMAIN queue = 1..Len(queue) /\ DOMAIN queue' = 1..Len(queue')
  BY <1>1, <1>2, LenProperties
<1> QED BY <1>2, <1>3

LEMMA Unqueued ==
  ASSUME Inv, queue # <<>>, queue' = Tail(queue)
  PROVE  /\ 1 \in DOMAIN queue /\ Head(queue) = queue[1]
         /\ \A i \in DOMAIN queue' : /\ i + 1 \in DOMAIN queue
                                     /\ queue'[i] = queue[i + 1]
         /\ \A i \in DOMAIN queue : i = 1 \/ (i - 1 \in DOMAIN queue' /\ queue'[i - 1] = queue[i])
<1>1. queue \in Seq(Entry)
  BY DEF Inv, TypeOK, Entry
<1> HIDE DEF Entry
<1>2. /\ queue' \in Seq(Entry) /\ Len(queue') = Len(queue) - 1
      /\ \A i \in 1..Len(queue') : queue'[i] = queue[i + 1]
  BY <1>1, HeadTailProperties
<1>3. /\ Len(queue) \in Nat /\ Len(queue) # 0 /\ DOMAIN queue = 1..Len(queue)
      /\ DOMAIN queue' = 1..Len(queue')
  BY <1>1, <1>2, LenProperties, EmptySeq
<1>4. Head(queue) = queue[1]
  BY DEF Head
<1> QED BY <1>2, <1>3, <1>4

\* A reader that moves and leaves the queue alone.
LEMMA ReaderMoves ==
  ASSUME Inv, Counted, InOrder, NEW c \in Camera,
         UNCHANGED <<queue, yolo, clip>>,
         \A d \in Camera \ {c} : reader'[d] = reader[d],
         reader[c].st \notin Over, reader'[c].st # "opening",
         reader'[c].st = "putting" => reader'[c].at > 0,
         reader'[c].st \in Over => reader[c].st = "opening"
  PROVE  Counted' /\ InOrder'
<1>1. Given' = Given /\ Marked' = Marked
  BY DEF Given, Marked
<1>2. Through \subseteq Through'
  BY <1>1 DEF Through, Given
<1>3. Cardinality(Through) <= Cardinality(Through')
  <2>1. IsFiniteSet(Through)' 
    BY CamerasAreFew, PTL
  <2> QED BY <1>2, <2>1, FS_Subset
<1>4. Cardinality(Through') \in Nat
  <2>1. (Cardinality(Through) \in Nat)'
    BY CamerasAreFew, PTL
  <2> QED BY <2>1
<1>5. yolo.eofs \in Nat
  BY DEF Inv, TypeOK, YoloOK
<1>6. Counted'
  BY <1>1, <1>2, <1>3, <1>4, <1>5, CamerasAreFew DEF Counted
<1>7. \A i \in DOMAIN queue : queue[i].camera \in Camera
  BY QueueIs DEF Entry
<1>8. \A i \in DOMAIN queue : reader'[queue[i].camera].st \in Over =>
        reader[queue[i].camera].st \in Over
  BY <1>7 DEF InOrder
<1>9. InOrder'
  BY <1>1, <1>7, <1>8 DEF InOrder
<1> QED BY <1>6, <1>9

LEMMA ReaderIs ==
  ASSUME Inv, NEW c \in Camera, NEW st, NEW at, NEW end, MoveReader(c, st, at, end)
  PROVE  /\ reader'[c].st = st /\ reader'[c].at = at
         /\ \A d \in Camera \ {c} : reader'[d] = reader[d]
         /\ reader[c].at \in Nat /\ reader[c].end \in Over \cup {"none"}
  BY DEF MoveReader, Inv, TypeOK, ReaderOK

LEMMA PutMarks ==
  ASSUME Inv, Counted, InOrder, NEW c \in Camera, Put(c)
  PROVE  Counted' /\ InOrder'
<1> DEFINE e == [camera |-> c, frame |-> reader[c].at - 1]
           last == Len(queue) + 1
<1>1. /\ reader'[c].st = "reading"
      /\ \A d \in Camera \ {c} : reader'[d] = reader[d]
      /\ reader[c].at \in Nat /\ reader[c].st = "putting" /\ reader[c].at > 0
  BY ReaderIs DEF Put, InOrder
<1>2. e \in Entry /\ e.camera = c /\ e.frame # Eof
  BY <1>1 DEF Entry, Eof
<1>3. queue' = Append(queue, e) /\ UNCHANGED <<yolo, clip>> /\ c \in Given
  BY DEF Put, Awake, Tasks, Camera
<1> HIDE DEF e
<1>4. /\ DOMAIN queue' = DOMAIN queue \cup {last}
      /\ queue'[last] = e
      /\ \A i \in DOMAIN queue : queue'[i] = queue[i] /\ i < last
  BY <1>2, <1>3, Queued
<1>5. Given' = Given /\ Through' = Through
  BY <1>1, <1>3 DEF Given, Through, Over
<1>6. Marked' = Marked
  BY <1>2, <1>4 DEF Marked, Mark
<1>7. Counted'
  BY <1>3, <1>5, <1>6 DEF Counted
<1> HIDE DEF last
<1>8. \A i \in DOMAIN queue : queue[i] \in Entry /\ queue[i].camera \in Camera
  BY QueueIs DEF Entry
<1>9. last \in Nat /\ last \notin DOMAIN queue /\ \A i \in DOMAIN queue : i \in Nat
  BY QueueIs DEF last
<1>10. \A i, j \in DOMAIN queue' :
         i < j /\ queue'[i].frame = Eof => queue'[j].camera # queue'[i].camera
  <2> SUFFICES ASSUME NEW i \in DOMAIN queue', NEW j \in DOMAIN queue', i < j,
                      queue'[i].frame = Eof
               PROVE  queue'[j].camera # queue'[i].camera
    OBVIOUS
  <2>1. i \in DOMAIN queue /\ queue'[i] = queue[i]
    BY <1>2, <1>4
  <2>2. CASE j \in DOMAIN queue
    BY <1>4, <2>1, <2>2 DEF InOrder
  <2>3. CASE j = last
    <3>1. queue[i] = Mark(queue[i].camera)
      BY <1>4, <1>8, <2>1, QueueIs
    <3>2. queue[i].camera \in Marked
      BY <1>8, <2>1, <3>1 DEF Marked
    <3>3. c \notin Through
      BY <1>1 DEF Through, Over
    <3> QED BY <1>2, <1>4, <2>1, <2>3, <3>2, <3>3 DEF Counted
  <2> QED BY <1>4, <2>2, <2>3
<1>11. \A i \in DOMAIN queue' : reader'[queue'[i].camera].st \in Over =>
         \E j \in DOMAIN queue' : i <= j /\ queue'[j] = Mark(queue'[i].camera)
  <2> SUFFICES ASSUME NEW i \in DOMAIN queue', reader'[queue'[i].camera].st \in Over
               PROVE  \E j \in DOMAIN queue' : i <= j /\ queue'[j] = Mark(queue'[i].camera)
    OBVIOUS
  <2>1. queue'[i].camera # c
    BY <1>1 DEF Over
  <2>2. i \in DOMAIN queue /\ queue'[i] = queue[i]
    BY <1>2, <1>4, <2>1
  <2>3. reader[queue[i].camera].st \in Over
    BY <1>1, <1>8, <2>1, <2>2
  <2> QED BY <1>4, <2>2, <2>3 DEF InOrder
<1>12. \A i \in DOMAIN queue' : /\ queue'[i].camera \in Given
                               /\ reader'[queue'[i].camera].st # "opening"
  BY <1>1, <1>2, <1>3, <1>4, <1>8 DEF InOrder
<1>13. \A d \in Camera : reader'[d].st = "putting" => reader'[d].at > 0
  BY <1>1 DEF InOrder
<1> QED BY <1>5, <1>7, <1>10, <1>11, <1>12, <1>13 DEF InOrder

LEMMA PutEofMarks ==
  ASSUME Inv, Counted, InOrder, NEW c \in Camera, PutEof(c)
  PROVE  Counted' /\ InOrder'
<1> DEFINE last == Len(queue) + 1
<1>1. /\ reader'[c].st = reader[c].end /\ reader[c].st = "closing"
      /\ \A d \in Camera \ {c} : reader'[d] = reader[d]
  BY ReaderIs DEF PutEof
<1>2. reader'[c].st \in Over
  BY <1>1 DEF Inv, TypeOK, ReaderOK
<1>3. queue' = Append(queue, Mark(c)) /\ UNCHANGED <<yolo, clip>> /\ c \in Given
      /\ Mark(c) \in Entry
  BY DEF PutEof, Mark, Awake, Tasks, Camera, Entry, Eof
<1>4. /\ DOMAIN queue' = DOMAIN queue \cup {last}
      /\ queue'[last] = Mark(c)
      /\ \A i \in DOMAIN queue : queue'[i] = queue[i] /\ i < last
  BY <1>3, Queued
<1>5. c \notin Through /\ Given' = Given /\ Through' = Through \cup {c}
  BY <1>1, <1>2, <1>3 DEF Given, Through, Over
<1>6. Mark(c).camera = c /\ Mark(c).frame = Eof
      /\ \A d \in Camera : Mark(d) = Mark(c) => d = c
  BY DEF Mark
<1>7. Marked' = Marked \cup {c} /\ c \notin Marked
  BY <1>4, <1>5, <1>6 DEF Marked, Counted
<1>8. Cardinality(Marked') = Cardinality(Marked) + 1
      /\ Cardinality(Through') = Cardinality(Through) + 1
  BY <1>5, <1>7, CamerasAreFew, FS_AddElement
<1>9. yolo.eofs \in Nat
  BY DEF Inv, TypeOK, YoloOK
<1>10. Counted'
  BY <1>3, <1>5, <1>7, <1>8, <1>9, CamerasAreFew DEF Counted
<1> HIDE DEF last
<1>11. \A i \in DOMAIN queue : queue[i] \in Entry /\ queue[i].camera \in Camera
  BY QueueIs DEF Entry
<1>12. last \in Nat /\ last \notin DOMAIN queue /\ \A i \in DOMAIN queue : i \in Nat
  BY QueueIs DEF last
<1>13. \A i, j \in DOMAIN queue' :
         i < j /\ queue'[i].frame = Eof => queue'[j].camera # queue'[i].camera
  <2> SUFFICES ASSUME NEW i \in DOMAIN queue', NEW j \in DOMAIN queue', i < j,
                      queue'[i].frame = Eof
               PROVE  queue'[j].camera # queue'[i].camera
    OBVIOUS
  <2>1. i \in DOMAIN queue /\ queue'[i] = queue[i]
    BY <1>4, <1>12
  <2>2. CASE j \in DOMAIN queue
    BY <1>4, <2>1, <2>2 DEF InOrder
  <2>3. CASE j = last
    <3>1. queue[i] = Mark(queue[i].camera)
      BY <1>11, <2>1, QueueIs
    <3>2. queue[i].camera \in Marked
      BY <1>11, <2>1, <3>1 DEF Marked
    <3> QED BY <1>4, <1>6, <1>7, <2>1, <2>3, <3>2
  <2> QED BY <1>4, <2>2, <2>3
<1>14. \A i \in DOMAIN queue' : reader'[queue'[i].camera].st \in Over =>
         \E j \in DOMAIN queue' : i <= j /\ queue'[j] = Mark(queue'[i].camera)
  <2> SUFFICES ASSUME NEW i \in DOMAIN queue', reader'[queue'[i].camera].st \in Over
               PROVE  \E j \in DOMAIN queue' : i <= j /\ queue'[j] = Mark(queue'[i].camera)
    OBVIOUS
  <2>1. CASE queue'[i].camera = c
    <3>1. i <= last /\ last \in DOMAIN queue'
      BY <1>4, <1>12
    <3> QED BY <1>4, <2>1, <3>1
  <2>2. CASE queue'[i].camera # c
    <3>1. i \in DOMAIN queue /\ queue'[i] = queue[i]
      BY <1>4, <1>6, <2>2
    <3>2. reader[queue[i].camera].st \in Over
      BY <1>1, <1>11, <2>2, <3>1
    <3> QED BY <1>4, <3>1, <3>2 DEF InOrder
  <2> QED BY <2>1, <2>2
<1>15. \A i \in DOMAIN queue' : /\ queue'[i].camera \in Given
                               /\ reader'[queue'[i].camera].st # "opening"
  BY <1>1, <1>2, <1>3, <1>4, <1>6, <1>11 DEF InOrder, Over
<1>16. \A d \in Camera : reader'[d].st = "putting" => reader'[d].at > 0
  BY <1>1, <1>2 DEF InOrder, Over
<1> QED BY <1>5, <1>10, <1>13, <1>14, <1>15, <1>16 DEF InOrder

LEMMA ExtractionMarks ==
  ASSUME Inv, Counted, InOrder, main = "watching", NEW c \in Camera, Extraction(c)
  PROVE  Counted' /\ InOrder'
<1>1. CASE Put(c)
  BY <1>1, PutMarks
<1>2. CASE PutEof(c)
  BY <1>2, PutEofMarks
<1>3. ~CancelReader(c)
  BY DEF Inv, Quiet, CancelReader
<1>4. CASE Open(c) \/ OpenFails(c) \/ Read(c) \/ EndOfVideo(c) \/ ReadFails(c)
  <2>1. UNCHANGED <<queue, yolo, clip>>
    BY <1>4 DEF Open, OpenFails, Read, EndOfVideo, ReadFails
  <2>2. \E st, at, end :
          /\ MoveReader(c, st, at, end)
          /\ reader[c].st \in {"opening", "reading"}
          /\ st \in {"reading", "failed", "putting", "closing"}
          /\ st = "putting" => at = reader[c].at + 1
          /\ st = "failed" => reader[c].st = "opening"
    <3>1. CASE Read(c)
      BY <3>1 DEF Read
    <3>2. CASE Open(c) \/ OpenFails(c) \/ EndOfVideo(c) \/ ReadFails(c)
      BY <3>2 DEF Open, OpenFails, EndOfVideo, ReadFails
    <3> QED BY <1>4, <3>1, <3>2
  <2>3. /\ \A d \in Camera \ {c} : reader'[d] = reader[d]
        /\ reader[c].st \in {"opening", "reading"}
        /\ reader'[c].st \in {"reading", "failed", "putting", "closing"}
        /\ reader'[c].st = "putting" => reader'[c].at = reader[c].at + 1
        /\ reader'[c].st = "failed" => reader[c].st = "opening"
        /\ reader[c].at \in Nat
    BY <2>2, ReaderIs
  <2> QED BY <2>1, <2>3, ReaderMoves DEF Over
<1> QED BY <1>1, <1>2, <1>3, <1>4 DEF Extraction

LEMMA TakeMarks ==
  ASSUME Inv, Counted, InOrder, Take
  PROVE  Counted' /\ InOrder'
<1>1. queue # <<>> /\ queue' = Tail(queue) /\ UNCHANGED <<reader, clip>> /\ yolo.st = "waiting"
  BY DEF Take
<1>2. /\ 1 \in DOMAIN queue /\ Head(queue) = queue[1]
      /\ \A i \in DOMAIN queue' : i + 1 \in DOMAIN queue /\ queue'[i] = queue[i + 1]
      /\ \A i \in DOMAIN queue :
           i = 1 \/ (i - 1 \in DOMAIN queue' /\ queue'[i - 1] = queue[i])
  BY <1>1, Unqueued
<1>3. /\ DOMAIN queue = 1..Len(queue) /\ Len(queue) \in Nat
      /\ \A i \in DOMAIN queue : queue[i] \in Entry /\ queue[i].camera \in Camera
  BY QueueIs DEF Entry
<1>4. \A i \in DOMAIN queue' : i \in Nat /\ i >= 1
  <2>1. (DOMAIN queue = 1..Len(queue) /\ Len(queue) \in Nat)'
    <3>1. Inv'
      BY InferenceInv DEF Inference
    <3>2. Inv => DOMAIN queue = 1..Len(queue) /\ Len(queue) \in Nat
      BY QueueIs
    <3>3. (Inv => DOMAIN queue = 1..Len(queue) /\ Len(queue) \in Nat)'
      BY QueueIs, PTL
    <3> QED BY <3>1, <3>3
  <2> QED BY <2>1
<1>5. Given' = Given /\ Through' = Through
  BY <1>1 DEF Given, Through
<1> DEFINE h == queue[1]
<1>6. InOrder'
  <2>1. \A i, j \in DOMAIN queue' :
          i < j /\ queue'[i].frame = Eof => queue'[j].camera # queue'[i].camera
    <3> SUFFICES ASSUME NEW i \in DOMAIN queue', NEW j \in DOMAIN queue', i < j,
                        queue'[i].frame = Eof
                 PROVE  queue'[j].camera # queue'[i].camera
      OBVIOUS
    <3>1. i + 1 \in DOMAIN queue /\ j + 1 \in DOMAIN queue /\ i + 1 < j + 1
          /\ queue'[i] = queue[i + 1] /\ queue'[j] = queue[j + 1]
      BY <1>2, <1>4
    <3> QED BY <3>1 DEF InOrder
  <2>2. \A i \in DOMAIN queue' : reader'[queue'[i].camera].st \in Over =>
          \E j \in DOMAIN queue' : i <= j /\ queue'[j] = Mark(queue'[i].camera)
    <3> SUFFICES ASSUME NEW i \in DOMAIN queue', reader[queue'[i].camera].st \in Over
                 PROVE  \E j \in DOMAIN queue' : i <= j /\ queue'[j] = Mark(queue'[i].camera)
      BY <1>1
    <3>1. i + 1 \in DOMAIN queue /\ queue'[i] = queue[i + 1] /\ i \in Nat /\ i >= 1
      BY <1>2, <1>4
    <3>2. PICK k \in DOMAIN queue : i + 1 <= k /\ queue[k] = Mark(queue[i + 1].camera)
      BY <3>1 DEF InOrder
    <3>3. k \in Nat /\ k # 1 /\ i <= k - 1
      BY <1>3, <3>1, <3>2
    <3>4. k - 1 \in DOMAIN queue' /\ queue'[k - 1] = queue[k]
      BY <1>2, <3>3
    <3> QED BY <3>1, <3>2, <3>3, <3>4
  <2>3. \A i \in DOMAIN queue' : /\ queue'[i].camera \in Given
                                /\ reader'[queue'[i].camera].st # "opening"
    BY <1>1, <1>2 DEF InOrder
  <2> QED BY <1>1, <1>5, <2>1, <2>2, <2>3 DEF InOrder
<1>7. \A c \in Camera : c \in Marked' => c \in Marked
  BY <1>2 DEF Marked
<1>8. \A c \in Camera : c \in Marked => c \in Marked' \/ h = Mark(c)
  <2> SUFFICES ASSUME NEW i \in DOMAIN queue, NEW c \in Camera, queue[i] = Mark(c)
               PROVE  c \in Marked' \/ h = Mark(c)
    BY DEF Marked
  <2> QED BY <1>2 DEF Marked
<1>9. yolo.eofs \in Nat /\ yolo \in [st : Over \cup {"waiting", "detecting"}, frame : Int,
                                   camera : Camera, eofs : Nat]
  BY DEF Inv, TypeOK, YoloOK
<1>10. CASE h.frame = Eof
  <2> DEFINE c == h.camera
  <2>1. c \in Camera /\ h = Mark(c) /\ c \in Marked
    BY <1>2, <1>3, <1>10, QueueIs DEF Marked
  <2>2. c \notin Marked'
    <3> SUFFICES ASSUME NEW i \in DOMAIN queue', queue'[i] = Mark(c) PROVE FALSE
      BY DEF Marked
    <3>1. i + 1 \in DOMAIN queue /\ queue[i + 1] = Mark(c) /\ 1 < i + 1
      BY <1>2, <1>4
    <3>2. queue[i + 1].camera = c
      BY <2>1, <3>1, QueueIs
    <3> QED BY <1>2, <1>10, <3>1, <3>2 DEF InOrder
  <2>3. \A d \in Camera : Mark(d) = Mark(c) => d = c
    BY DEF Mark
  <2>4. Marked' = Marked \ {c}
    <3>1. Marked' \subseteq Camera /\ Marked \subseteq Camera
      BY DEF Marked
    <3> QED BY <1>7, <1>8, <2>1, <2>2, <2>3, <3>1
  <2>5. Cardinality(Marked') = Cardinality(Marked) - 1
    BY <2>1, <2>4, CamerasAreFew, FS_RemoveElement
  <2>6. yolo' = [yolo EXCEPT !.st = IF AllEofs(yolo.eofs + 1) THEN "done" ELSE "waiting",
                             !.eofs = @ + 1]
    BY <1>2, <1>10 DEF Take
  <2>7. yolo'.eofs = yolo.eofs + 1
        /\ (yolo'.st = "done" => yolo.eofs + 1 = Cardinality(Given))
    BY <1>9, <2>6 DEF AllEofs
  <2> QED BY <1>5, <1>6, <1>9, <2>4, <2>5, <2>7, CamerasAreFew DEF Counted
<1>11. CASE h.frame # Eof
  <2>1. yolo' = [yolo EXCEPT !.st = "detecting", !.frame = Head(queue).frame,
                             !.camera = Head(queue).camera]
    BY <1>2, <1>11 DEF Take
  <2>2. yolo'.st = "detecting" /\ yolo'.eofs = yolo.eofs
    BY <1>9, <2>1
  <2>3. \A c \in Camera : h # Mark(c)
    BY <1>11 DEF Mark
  <2>4. Marked' = Marked
    <3>1. Marked' \subseteq Camera /\ Marked \subseteq Camera
      BY DEF Marked
    <3> QED BY <1>7, <1>8, <2>3, <3>1
  <2> QED BY <1>5, <1>6, <2>2, <2>4 DEF Counted
<1> QED BY <1>10, <1>11

\* While the caller watches, or has returned, the marks are right.
LEMMA MarksStep == Inv /\ Marks /\ [Next]_vars => Marks'
<1> SUFFICES ASSUME Inv, Marks, [Next]_vars, main' \in {"watching", "returned"}
             PROVE  Counted' /\ InOrder'
  BY DEF Marks
<1>1. ASSUME NEW c \in Camera, Extraction(c) PROVE Counted' /\ InOrder'
  <2>1. main' = main
    BY <1>1 DEF Extraction, Open, OpenFails, Read, EndOfVideo, ReadFails, Put, PutEof, CancelReader
  <2>2. main # "returned"
    BY <1>1, StillRunning
  <2> QED BY <1>1, <2>1, <2>2, ExtractionMarks DEF Marks
<1>2. CASE Inference
  <2>1. main' = main
    BY <1>2 DEF Inference, Take, Detect, DetectFails, QueueTimeout, CancelYolo
  <2>2. Counted /\ InOrder
    BY <2>1 DEF Marks
  <2>3. CASE Take
    BY <2>2, <2>3, TakeMarks
  <2>4. CASE Detect \/ DetectFails \/ QueueTimeout \/ CancelYolo
    <3>1. UNCHANGED <<reader, queue, clip>> /\ yolo'.eofs = yolo.eofs
          /\ yolo'.st \in {"waiting", "failed", "cancelled"}
      BY <2>4 DEF Detect, DetectFails, QueueTimeout, CancelYolo, Inv, TypeOK, YoloOK
    <3>2. Given' = Given /\ Marked' = Marked /\ Through' = Through
      BY <3>1 DEF Given, Marked, Through
    <3> QED BY <2>2, <3>1, <3>2 DEF Counted, InOrder
  <2> QED BY <1>2, <2>3, <2>4 DEF Inference
<1>3. CASE Caller \/ UNCHANGED vars
  <2>1. main \in {"watching", "returned"} /\ UNCHANGED <<reader, queue, clip, yolo>>
    BY <1>3 DEF Caller, SeeError, Raise, Return, Interrupt, Gathered, vars
  <2>2. Given' = Given /\ Marked' = Marked /\ Through' = Through
    BY <2>1 DEF Given, Marked, Through
  <2> QED BY <2>1, <2>2 DEF Marks, Counted, InOrder
<1> QED BY <1>1, <1>2, <1>3 DEF Next

LEMMA InitMarks == Init => Marks
<1> SUFFICES ASSUME Init PROVE Counted /\ InOrder
  BY DEF Marks
<1>1. DOMAIN queue = {}
  BY EmptySeq, LenProperties DEF Init
<1>2. Marked = {} /\ Cardinality(Marked) = 0
  BY <1>1, FS_EmptySet DEF Marked
<1>3. Counted
  BY <1>2, CamerasAreFew DEF Counted, Init
<1>4. InOrder
  BY <1>1 DEF InOrder, Init
<1> QED BY <1>3, <1>4

\* Where all tasks are over and all marks were taken, the queue is empty.
LEMMA NothingLeft ==
  ASSUME Inv, Marks, main = "returned"
  PROVE  queue = <<>>
<1>1. CASE Given = {}
  <2>1. DOMAIN queue = {}
    BY <1>1 DEF Marks, InOrder
  <2> QED BY <2>1, QueueIs, EmptySeq DEF Inv, TypeOK
<1>2. CASE Given # {}
  <2>1. Given \subseteq Tasks /\ "yolo" \in Tasks
    BY <1>2 DEF Tasks
  <2>2. yolo.st = "done" /\ \A c \in Given : reader[c].st = "done"
    BY <2>1 DEF Inv, TasksEnded, Status, Given, Camera
  <2>3. Through = Given
    BY <2>2 DEF Through, Over
  <2>4. yolo.eofs = Cardinality(Given) /\ Cardinality(Marked) <= 0
    BY <2>2, <2>3, CamerasAreFew DEF Marks, Counted
  <2>5. Marked = {}
    BY <2>4, CamerasAreFew, FS_EmptySet
  <2>6. DOMAIN queue = {}
    <3> SUFFICES ASSUME NEW i \in DOMAIN queue PROVE FALSE
      OBVIOUS
    <3>1. queue[i].camera \in Given /\ queue[i].camera \in Camera
      BY QueueIs DEF Marks, InOrder, Entry
    <3>2. \E j \in DOMAIN queue : queue[j] = Mark(queue[i].camera)
      BY <2>2, <3>1 DEF Marks, InOrder, Over
    <3> QED BY <2>5, <3>1, <3>2 DEF Marked
  <2> QED BY <2>6, QueueIs, EmptySeq DEF Inv, TypeOK
<1> QED BY <1>1, <1>2

LEMMA InvStep == Inv /\ [Next]_vars => Inv'
<1> SUFFICES ASSUME Inv, [Next]_vars PROVE Inv'
  OBVIOUS
<1>1. ASSUME NEW c \in Camera, Extraction(c) PROVE Inv'
  BY <1>1, ExtractionInv
<1>2. CASE Inference
  BY <1>2, InferenceInv
<1>3. CASE Caller
  BY <1>3, CallerInv
<1>4. CASE UNCHANGED vars
  BY <1>4 DEF vars, Inv, TypeOK, ReaderOK, YoloOK, Quiet, TasksEnded, Tasks, Given, Status
<1> QED BY <1>1, <1>2, <1>3, <1>4 DEF Next

\* THEOREM: an analysis never returns when one of its tasks failed or was
\* cancelled, or with a frame still in the queue.
THEOREM NeverHalfAnAnalysis == Spec => []FailClosed
  <1>1. Inv /\ Marks => FailClosed
    BY NothingLeft DEF Inv, TasksEnded, FailClosed
  <1> QED
    BY <1>1, InitInv, InvStep, InitMarks, MarksStep, PTL DEF Spec

-----------------------------------------------------------------------------
(* What is gathered of one camera *)

Sighting == [camera : Camera, frame : Int, det : Detection]

On(c) == {e \in Sighting : e.camera = c}

\* Only the side camera has misplaced detections, only the top one a path.
SeenSet ==
  [kept : [Camera -> Seq(Sighting)], low : Seq(Sighting),
   cut : Seq(On("side")), path : Seq(On("top"))]

Own(s, c) ==
  <<s.kept[c], OfCamera(s.low, c), OfCamera(s.cut, c), OfCamera(s.path, c)>>

\* Numbers of the frames of a video, counted from 0.
FrameNumbers(k, c) == {n \in Nat : n + 1 \in DOMAIN k.frames[c]}

LEMMA OnIsSighting ==
  ASSUME NEW c \in Camera
  PROVE  On(c) \subseteq Sighting /\ Seq(On(c)) \subseteq Seq(Sighting)
<1>1. On(c) \subseteq Sighting
  BY DEF On
<1> HIDE DEF On, Sighting
<1> QED BY <1>1, SeqMonotonic

LEMMA OfCameraIs ==
  ASSUME NEW s \in Seq(Sighting), NEW c \in Camera
  PROVE  OfCamera(s, c) = Only(s, On(c)) /\ OfCamera(s, c) \in Seq(On(c))
<1> DEFINE S == {e \in ToSet(s) : e.camera = c}
<1>1. \A i \in DOMAIN s : s[i] \in S <=> s[i] \in On(c)
  BY ElementOfSeq, LenProperties DEF ToSet, On
<1>2. OfCamera(s, c) = Only(s, S)
  BY DEF OfCamera
<1> HIDE DEF S
<1>3. Only(s, S) = Only(s, On(c))
  BY <1>1, OnlySame
<1>4. Only(s, On(c)) \in Seq(Sighting \cap On(c))
  BY OnlyWithin
<1>5. Sighting \cap On(c) = On(c)
  BY DEF On
<1> QED BY <1>2, <1>3, <1>4, <1>5

LEMMA OfCameraConcat ==
  ASSUME NEW s \in Seq(Sighting), NEW c \in Camera, NEW t \in Seq(On(c)), NEW d \in Camera
  PROVE  OfCamera(s \o t, d) = IF d = c THEN OfCamera(s, d) \o t ELSE OfCamera(s, d)
<1>1. t \in Seq(Sighting)
  BY OnIsSighting
<1> DEFINE st == s \o t
<1>2. st \in Seq(Sighting) /\ Only(st, On(d)) = Only(s, On(d)) \o Only(t, On(d))
  BY <1>1, OnlyOfConcat, ConcatProperties
<1> HIDE DEF st
<1>3. OfCamera(st, d) = OfCamera(s, d) \o Only(t, On(d))
  BY <1>2, OfCameraIs
<1>4. CASE d = c
  <2>1. Only(t, On(c)) = t
    BY OnlyOfAll
  <2> QED BY <1>3, <1>4, <2>1 DEF st
<1>5. CASE d # c
  <2>1. On(c) \cap On(d) = {}
    BY <1>5 DEF On
  <2>2. Only(t, On(d)) = <<>>
    BY <2>1, OnlyOfNone
  <2>3. OfCamera(s, d) \in Seq(On(d)) /\ OfCamera(s, d) \o <<>> = OfCamera(s, d)
    BY OfCameraIs, ConcatEmptySeq
  <2> QED BY <1>3, <1>5, <2>2, <2>3 DEF st
<1> QED BY <1>4, <1>5

\* s with what a frame of camera c adds.
Extended(s, c, V, L, C, P) ==
  [kept |-> [s.kept EXCEPT ![c] = @ \o V], low |-> s.low \o L,
   cut |-> s.cut \o C, path |-> s.path \o P]

\* What the detector says of a frame, and what becomes of it: the same
\* entries, all of the frame's camera, are added to whatever was seen before.
LEMMA AddFrameIs ==
  ASSUME NEW k, k.frames \in [Camera -> Seq(Seq(Detection))],
         NEW c \in Camera, NEW n \in FrameNumbers(k, c)
  PROVE  \E V \in Seq(On(c)), L \in Seq(On(c)),
            C \in Seq(On(c) \cap On("side")), P \in Seq(On(c) \cap On("top")) :
           \A s \in SeenSet : AddFrame(s, c, n, k) = Extended(s, c, V, L, C, P)
<1> DEFINE frame == k.frames[c][n + 1]
           D == Detected(c, frame, k.allowed)
           new == Entries(c, n, D)
           IsV == {e \in ToSet(new) : IsKept(c, e.det, k.delta)}
           IsL == {e \in ToSet(new) : IsLow(c, e.det, k.delta)}
           IsC == {e \in ToSet(new) : IsCut(c, e.det, k.delta)}
<1>1. D \in Seq(Detection)
  <2>1. k.frames[c] \in Seq(Seq(Detection)) /\ n + 1 \in DOMAIN k.frames[c]
    BY DEF FrameNumbers
  <2>2. frame \in Seq(Detection)
    BY <2>1, ElementOfSeq, LenProperties
  <2> HIDE DEF frame
  <2> QED BY <2>2, OnlyType DEF Detected
<1>2. new \in Seq(On(c))
  <2> HIDE DEF D
  <2>1. /\ Len(D) \in Nat /\ DOMAIN D = 1..Len(D)
        /\ \A i \in 1..Len(D) : D[i] \in Detection
    BY <1>1, LenProperties, ElementOfSeq
  <2>2. \A i \in 1..Len(D) : [camera |-> c, frame |-> n, det |-> D[i]] \in On(c)
    BY <2>1 DEF On, Sighting, FrameNumbers
  <2>3. new = [i \in 1..Len(D) |-> [camera |-> c, frame |-> n, det |-> D[i]]]
    BY <2>1 DEF Entries
  <2> HIDE DEF new
  <2>4. new \in [1..Len(D) -> On(c)]
    BY <2>2, <2>3
  <2> QED BY <2>1, <2>4
<1> HIDE DEF new
<1>3. Only(new, IsV) \in Seq(On(c)) /\ Only(new, IsL) \in Seq(On(c))
  BY <1>2, OnlyType
<1>4. Only(new, IsC) \in Seq(On(c) \cap On("side"))
  <2>1. On(c) \cap IsC \subseteq On(c) \cap On("side")
    BY DEF IsCut
  <2>2. Only(new, IsC) \in Seq(On(c) \cap IsC)
    BY <1>2, OnlyWithin
  <2> HIDE DEF IsC
  <2> QED BY <2>1, <2>2, SeqMonotonic
<1> DEFINE P == IF c = "top" THEN new ELSE <<>>
<1>5. P \in Seq(On(c) \cap On("top"))
  <2>1. CASE c = "top"
    BY <1>2, <2>1
  <2>2. CASE c # "top"
    BY <2>2, EmptySeq
  <2> QED BY <2>1, <2>2
<1>6. ASSUME NEW s \in SeenSet
      PROVE  AddFrame(s, c, n, k) =
               Extended(s, c, Only(new, IsV), Only(new, IsL), Only(new, IsC), P)
  <2>1. s.path \in Seq(On("top")) /\ s.path \o <<>> = s.path
    BY ConcatEmptySeq DEF SeenSet
  <2>2. s.path \o P = IF c = "top" THEN s.path \o new ELSE s.path
    BY <2>1
  <2> HIDE DEF P
  <2> QED BY <2>2 DEF AddFrame, Extended, new
<1> HIDE DEF P, IsV, IsL, IsC
<1> QED BY <1>3, <1>4, <1>5, <1>6

LEMMA AddFrameType ==
  ASSUME NEW k, k.frames \in [Camera -> Seq(Seq(Detection))],
         NEW c \in Camera, NEW n \in FrameNumbers(k, c), NEW s \in SeenSet
  PROVE  AddFrame(s, c, n, k) \in SeenSet
<1>1. PICK V \in Seq(On(c)), L \in Seq(On(c)),
           C \in Seq(On(c) \cap On("side")), P \in Seq(On(c) \cap On("top")) :
        AddFrame(s, c, n, k) = Extended(s, c, V, L, C, P)
  BY AddFrameIs
<1>2. /\ s.kept \in [Camera -> Seq(Sighting)] /\ s.low \in Seq(Sighting)
      /\ s.cut \in Seq(On("side")) /\ s.path \in Seq(On("top"))
  BY DEF SeenSet
<1>3. V \in Seq(Sighting) /\ L \in Seq(Sighting)
  BY OnIsSighting
<1>4. C \in Seq(On("side")) /\ P \in Seq(On("top"))
  <2>1. On(c) \cap On("side") \subseteq On("side") /\ On(c) \cap On("top") \subseteq On("top")
    OBVIOUS
  <2> QED BY <2>1, SeqMonotonic
<1>5. /\ s.kept[c] \o V \in Seq(Sighting) /\ s.low \o L \in Seq(Sighting)
      /\ s.cut \o C \in Seq(On("side")) /\ s.path \o P \in Seq(On("top"))
  BY <1>2, <1>3, <1>4, ConcatProperties
<1>6. [s.kept EXCEPT ![c] = @ \o V] \in [Camera -> Seq(Sighting)]
  BY <1>2, <1>5
<1> QED BY <1>1, <1>5, <1>6 DEF SeenSet, Extended

LEMMA AddFrameOwn ==
  ASSUME NEW k, k.frames \in [Camera -> Seq(Seq(Detection))],
         NEW c \in Camera, NEW n \in FrameNumbers(k, c), NEW s \in SeenSet, NEW t \in SeenSet
  PROVE  /\ Own(s, c) = Own(t, c) => Own(AddFrame(s, c, n, k), c) = Own(AddFrame(t, c, n, k), c)
         /\ \A d \in Camera \ {c} : Own(AddFrame(s, c, n, k), d) = Own(s, d)
<1>1. PICK V \in Seq(On(c)), L \in Seq(On(c)),
           C \in Seq(On(c) \cap On("side")), P \in Seq(On(c) \cap On("top")) :
      \A r \in SeenSet : AddFrame(r, c, n, k) = Extended(r, c, V, L, C, P)
  BY AddFrameIs
<1>2. C \in Seq(On(c)) /\ P \in Seq(On(c))
  <2>1. On(c) \cap On("side") \subseteq On(c) /\ On(c) \cap On("top") \subseteq On(c)
    OBVIOUS
  <2> QED BY <2>1, SeqMonotonic
<1>3. ASSUME NEW r \in SeenSet, NEW d \in Camera
      PROVE  Own(AddFrame(r, c, n, k), d) =
               IF d = c
               THEN <<r.kept[d] \o V, OfCamera(r.low, d) \o L, OfCamera(r.cut, d) \o C,
                      OfCamera(r.path, d) \o P>>
               ELSE Own(r, d)
  <2> DEFINE a == AddFrame(r, c, n, k)
  <2>1. /\ r.kept \in [Camera -> Seq(Sighting)] /\ r.low \in Seq(Sighting)
        /\ r.cut \in Seq(Sighting) /\ r.path \in Seq(Sighting)
    BY OnIsSighting DEF SeenSet, Camera
  <2>2. /\ a.kept[d] = IF d = c THEN r.kept[d] \o V ELSE r.kept[d]
        /\ a.low = r.low \o L /\ a.cut = r.cut \o C /\ a.path = r.path \o P
    <3>1. a = Extended(r, c, V, L, C, P)
      BY <1>1
    <3> HIDE DEF a
    <3>2. a.kept = [r.kept EXCEPT ![c] = @ \o V]
      BY <3>1 DEF Extended
    <3>3. a.low = r.low \o L /\ a.cut = r.cut \o C /\ a.path = r.path \o P
      BY <3>1 DEF Extended
    <3> QED BY <2>1, <3>2, <3>3
  <2> HIDE DEF a
  <2>3. /\ OfCamera(r.low \o L, d) = IF d = c THEN OfCamera(r.low, d) \o L ELSE OfCamera(r.low, d)
        /\ OfCamera(r.cut \o C, d) = IF d = c THEN OfCamera(r.cut, d) \o C ELSE OfCamera(r.cut, d)
        /\ OfCamera(r.path \o P, d) = IF d = c THEN OfCamera(r.path, d) \o P
                                             ELSE OfCamera(r.path, d)
    <3>1. r.low \in Seq(Sighting) /\ L \in Seq(On(c))
      BY <2>1
    <3>2. r.cut \in Seq(Sighting) /\ C \in Seq(On(c))
      BY <1>2, <2>1
    <3>3. r.path \in Seq(Sighting) /\ P \in Seq(On(c))
      BY <1>2, <2>1
    <3>4. OfCamera(r.low \o L, d) = IF d = c THEN OfCamera(r.low, d) \o L ELSE OfCamera(r.low, d)
      BY <3>1, OfCameraConcat
    <3>5. OfCamera(r.cut \o C, d) = IF d = c THEN OfCamera(r.cut, d) \o C ELSE OfCamera(r.cut, d)
      BY <3>2, OfCameraConcat
    <3>6. OfCamera(r.path \o P, d) = IF d = c THEN OfCamera(r.path, d) \o P
                                            ELSE OfCamera(r.path, d)
      BY <3>3, OfCameraConcat
    <3> QED BY <3>4, <3>5, <3>6
  <2>4. CASE d = c
    BY <2>2, <2>3, <2>4 DEF Own, a
  <2>5. CASE d # c
    BY <2>2, <2>3, <2>5 DEF Own, a
  <2> QED BY <2>4, <2>5
<1> QED BY <1>3 DEF Own

\* The inference of one frame after the other.
VideoTrace(h, s, c, numbers, k) ==
  /\ h \in [0..Len(numbers) -> SeenSet]
  /\ h[0] = s
  /\ \A i \in 1..Len(numbers) : h[i] = AddFrame(h[i - 1], c, numbers[i], k)

LEMMA VideoFold ==
  ASSUME NEW k, k.frames \in [Camera -> Seq(Seq(Detection))], NEW c \in Camera,
         NEW s \in SeenSet, NEW numbers \in Seq(FrameNumbers(k, c))
  PROVE  \E h : /\ VideoTrace(h, s, c, numbers, k)
                /\ SeenOfVideo(s, c, numbers, k) = h[Len(numbers)]
<1> DEFINE n == Len(numbers)
           D == 1..n
           V == SeenSet
           ch == [X \in SUBSET D |-> Max(X)]
           G == [p \in D \X V |-> AddFrame(p[2], c, numbers[p[1]], k)]
           Eq(F) == F = [X \in SUBSET D |->
                           IF X = {} THEN s
                           ELSE AddFrame(F[X \ {Max(X)}], c, numbers[Max(X)], k)]
           H == CHOOSE F : Eq(F)
<1>1. /\ n \in Nat /\ DOMAIN numbers = D /\ IsFiniteSet(D)
      /\ \A i \in D : numbers[i] \in FrameNumbers(k, c)
  BY LenProperties, ElementOfSeq, FS_Interval
<1>2. SeenOfVideo(s, c, numbers, k) = H[D]
  BY <1>1 DEF SeenOfVideo, FoldLeft, MapThenFoldSet
<1> HIDE DEF V
<1>3. \A i \in D, v \in V : AddFrame(v, c, numbers[i], k) \in V
  BY <1>1, AddFrameType DEF V
<1>4. \E F : Eq(F)
  <2>1. \A X \in SUBSET D : X # {} => ch[X] \in X
    BY <1>1, MaxOfPlaces
  <2>2. \A i \in D, v \in V : G[<<i, v>>] \in V
    BY <1>3
  <2>3. s \in V
    BY DEF V
  <2>4. PICK F \in Solutions(D, ch, V, s, G) : TRUE
    <3> HIDE DEF D, ch, G
    <3> QED BY <1>1, <2>1, <2>2, <2>3, SolutionExists
  <2>5. F \in [SUBSET D -> V]
    BY DEF Solutions
  <2>6. ASSUME NEW X \in SUBSET D
        PROVE  F[X] = IF X = {} THEN s
                      ELSE AddFrame(F[X \ {Max(X)}], c, numbers[Max(X)], k)
    <3>1. F[X] = IF X = {} THEN s ELSE G[<<ch[X], F[X \ {ch[X]}]>>]
      BY DEF Solutions
    <3>2. X # {} => /\ ch[X] = Max(X) /\ Max(X) \in D
                    /\ F[X \ {Max(X)}] \in V
      BY <2>1, <2>5
    <3> QED BY <3>1, <3>2
  <2> QED BY <2>5, <2>6
<1>5. Eq(H)
  BY <1>4
<1> DEFINE h == [i \in 0..n |-> H[1..i]]
<1>6. h[0] = s
  <2>1. 1..0 = {} /\ {} \in SUBSET D /\ 0 \in 0..n
    BY <1>1
  <2>2. H[{}] = s
    BY <1>5
  <2> HIDE DEF H, D
  <2> QED BY <2>1, <2>2
<1>7. ASSUME NEW i \in 1..n PROVE h[i] = AddFrame(h[i - 1], c, numbers[i], k)
  <2>1. 1..i \in SUBSET D /\ 1..i # {} /\ Max(1..i) = i /\ (1..i) \ {i} = 1..(i - 1)
    BY <1>1, MaxOfInterval
  <2>2. H[1..i] = AddFrame(H[1..(i - 1)], c, numbers[i], k)
    BY <1>5, <2>1
  <2> HIDE DEF H
  <2> QED BY <1>1, <2>2
<1> HIDE DEF H, h
<1>8. \A i \in 0..n : h[i] \in V
  <2> DEFINE K == {i \in 0..n : h[i] \in V}
  <2>1. 0 \in K
    BY <1>1, <1>6 DEF V
  <2>2. ASSUME NEW i \in 1..n, i - 1 \in K PROVE i \in K
    BY <1>1, <1>3, <1>7, <2>2
  <2> HIDE DEF K
  <2>3. \A i \in 0..n : i \in K
    BY <1>1, <2>1, <2>2, Counting
  <2> QED BY <2>3 DEF K
<1>9. h \in [0..n -> V] /\ h[n] = H[D]
  BY <1>1, <1>8 DEF h
<1> QED BY <1>2, <1>6, <1>7, <1>9 DEF VideoTrace, V

LEMMA SeenOfNothing ==
  ASSUME NEW k, k.frames \in [Camera -> Seq(Seq(Detection))], NEW c \in Camera,
         NEW s \in SeenSet
  PROVE  SeenOfVideo(s, c, <<>>, k) = s
<1>1. <<>> \in Seq(FrameNumbers(k, c)) /\ Len(<<>>) = 0
  BY EmptySeq
<1>2. PICK h : VideoTrace(h, s, c, <<>>, k) /\ SeenOfVideo(s, c, <<>>, k) = h[Len(<<>>)]
  BY <1>1, VideoFold
<1> QED BY <1>1, <1>2 DEF VideoTrace

LEMMA SeenType ==
  ASSUME NEW k, k.frames \in [Camera -> Seq(Seq(Detection))], NEW c \in Camera,
         NEW s \in SeenSet, NEW numbers \in Seq(FrameNumbers(k, c))
  PROVE  SeenOfVideo(s, c, numbers, k) \in SeenSet
<1>1. PICK h : VideoTrace(h, s, c, numbers, k)
               /\ SeenOfVideo(s, c, numbers, k) = h[Len(numbers)]
  BY VideoFold
<1> QED BY <1>1, LenProperties DEF VideoTrace

LEMMA SeenOfAppend ==
  ASSUME NEW k, k.frames \in [Camera -> Seq(Seq(Detection))], NEW c \in Camera,
         NEW s \in SeenSet, NEW numbers \in Seq(FrameNumbers(k, c)),
         NEW m \in FrameNumbers(k, c)
  PROVE  SeenOfVideo(s, c, Append(numbers, m), k)
           = AddFrame(SeenOfVideo(s, c, numbers, k), c, m, k)
<1> DEFINE n == Len(numbers)
           t == Append(numbers, m)
<1>1. /\ n \in Nat /\ t \in Seq(FrameNumbers(k, c)) /\ Len(t) = n + 1
      /\ \A i \in 1..n : t[i] = numbers[i]
      /\ t[n + 1] = m
  BY LenProperties, AppendProperties
<1>2. PICK g : VideoTrace(g, s, c, numbers, k) /\ SeenOfVideo(s, c, numbers, k) = g[n]
  BY VideoFold
<1> HIDE DEF t
<1>3. PICK h : VideoTrace(h, s, c, t, k) /\ SeenOfVideo(s, c, t, k) = h[Len(t)]
  BY <1>1, VideoFold
<1>4. h[n] = g[n]
  <2> DEFINE K == {i \in 0..n : h[i] = g[i]}
  <2>1. 0 \in K
    BY <1>1, <1>2, <1>3 DEF VideoTrace
  <2>2. ASSUME NEW i \in 1..n, i - 1 \in K PROVE i \in K
    BY <1>1, <1>2, <1>3, <2>2 DEF VideoTrace
  <2> HIDE DEF K
  <2>3. \A i \in 0..n : i \in K
    BY <1>1, <2>1, <2>2, Counting
  <2> QED BY <1>1, <2>3 DEF K
<1>5. h[n + 1] = AddFrame(h[n], c, m, k)
  BY <1>1, <1>3 DEF VideoTrace
<1> QED BY <1>1, <1>2, <1>3, <1>4, <1>5 DEF t

\* What is gathered of a camera depends on what there was of it, and the
\* other camera's is left alone.
LEMMA SeenOwn ==
  ASSUME NEW k, k.frames \in [Camera -> Seq(Seq(Detection))], NEW c \in Camera,
         NEW s \in SeenSet, NEW t \in SeenSet, NEW numbers \in Seq(FrameNumbers(k, c))
  PROVE  /\ Own(s, c) = Own(t, c) =>
               Own(SeenOfVideo(s, c, numbers, k), c) = Own(SeenOfVideo(t, c, numbers, k), c)
         /\ \A d \in Camera \ {c} : Own(SeenOfVideo(s, c, numbers, k), d) = Own(s, d)
<1> DEFINE T == FrameNumbers(k, c)
           S(q) == SeenOfVideo(s, c, q, k)
           U(q) == SeenOfVideo(t, c, q, k)
           Z == {q \in Seq(T) : /\ Own(s, c) = Own(t, c) => Own(S(q), c) = Own(U(q), c)
                                /\ \A d \in Camera \ {c} : Own(S(q), d) = Own(s, d)}
<1>1. <<>> \in Z
  <2>1. S(<<>>) = s /\ U(<<>>) = t /\ <<>> \in Seq(T)
    BY SeenOfNothing, EmptySeq
  <2> HIDE DEF S, U, T
  <2> QED BY <2>1
<1>2. ASSUME NEW q \in Seq(T), NEW e \in T, q \in Z PROVE Append(q, e) \in Z
  <2>1. /\ S(q) \in SeenSet /\ U(q) \in SeenSet
        /\ S(Append(q, e)) = AddFrame(S(q), c, e, k)
        /\ U(Append(q, e)) = AddFrame(U(q), c, e, k)
    BY SeenType, SeenOfAppend
  <2> HIDE DEF S, U
  <2>2. /\ Own(S(q), c) = Own(U(q), c) => Own(S(Append(q, e)), c) = Own(U(Append(q, e)), c)
        /\ \A d \in Camera \ {c} : Own(S(Append(q, e)), d) = Own(S(q), d)
    BY <2>1, AddFrameOwn
  <2>3. Append(q, e) \in Seq(T)
    OBVIOUS
  <2> HIDE DEF T
  <2> QED BY <1>2, <2>2, <2>3
<1> HIDE DEF Z
<1>3. numbers \in Z
  BY <1>1, <1>2, ByAppending
<1> QED BY <1>3 DEF Z

LEMMA SeenLeavesOther ==
  ASSUME NEW k, k.frames \in [Camera -> Seq(Seq(Detection))], NEW c \in Camera,
         NEW s \in SeenSet, NEW numbers \in Seq(FrameNumbers(k, c))
  PROVE  \A d \in Camera \ {c} : Own(SeenOfVideo(s, c, numbers, k), d) = Own(s, d)
<1>1. \A t \in SeenSet : \A d \in Camera \ {c} : Own(SeenOfVideo(s, c, numbers, k), d) = Own(s, d)
  BY SeenOwn
<1> QED BY <1>1

-----------------------------------------------------------------------------
(* Weak detections that differ in the order of the two cameras *)

Alike(a, b) ==
  /\ a \in Seq(Sighting) /\ b \in Seq(Sighting)
  /\ \A c \in Camera : OfCamera(a, c) = OfCamera(b, c)

Showing(k) == {e \in Sighting : e.det.class = k}

LEMMA OfClassIs ==
  ASSUME NEW s \in Seq(Sighting), NEW k
  PROVE  OfClass(s, k) = Only(s, Showing(k)) /\ OfClass(s, k) \in Seq(Sighting)
<1> DEFINE S == {e \in ToSet(s) : e.det.class = k}
<1>1. \A i \in DOMAIN s : s[i] \in S <=> s[i] \in Showing(k)
  BY ElementOfSeq, LenProperties DEF ToSet, Showing
<1>2. OfClass(s, k) = Only(s, S)
  BY DEF OfClass
<1> HIDE DEF S
<1>3. Only(s, S) = Only(s, Showing(k))
  BY <1>1, OnlySame
<1>4. Only(s, Showing(k)) \in Seq(Sighting)
  BY OnlyType
<1> QED BY <1>2, <1>3, <1>4

LEMMA OnlyCommutes ==
  ASSUME NEW T, NEW s \in Seq(T), NEW A, NEW B
  PROVE  Only(Only(s, A), B) = Only(Only(s, B), A)
<1>1. Only(Only(s, A), B) = Only(s, A \cap B)
  BY OnlyTwice
<1>2. Only(Only(s, B), A) = Only(s, B \cap A)
  BY OnlyTwice
<1>3. A \cap B = B \cap A
  OBVIOUS
<1> QED BY <1>1, <1>2, <1>3

LEMMA AlikeOfClass ==
  ASSUME NEW a, NEW b, Alike(a, b), NEW k
  PROVE  Alike(OfClass(a, k), OfClass(b, k))
<1>1. a \in Seq(Sighting) /\ b \in Seq(Sighting)
  BY DEF Alike
<1>2. ASSUME NEW s \in Seq(Sighting), NEW c \in Camera
      PROVE  OfCamera(OfClass(s, k), c) = Only(OfCamera(s, c), Showing(k))
  <2> DEFINE r == OfClass(s, k)
  <2>1. r = Only(s, Showing(k)) /\ r \in Seq(Sighting)
    BY OfClassIs
  <2> HIDE DEF r
  <2>2. OfCamera(r, c) = Only(r, On(c)) /\ OfCamera(s, c) = Only(s, On(c))
    BY <2>1, OfCameraIs
  <2>3. Only(Only(s, Showing(k)), On(c)) = Only(Only(s, On(c)), Showing(k))
    BY OnlyCommutes
  <2> QED BY <2>1, <2>2, <2>3 DEF r
<1>3. \A c \in Camera : OfCamera(a, c) = OfCamera(b, c)
  BY DEF Alike
<1>4. OfClass(a, k) \in Seq(Sighting) /\ OfClass(b, k) \in Seq(Sighting)
  BY <1>1, OfClassIs
<1> QED BY <1>1, <1>2, <1>3, <1>4 DEF Alike

LEMMA AlikeHold ==
  ASSUME NEW a, NEW b, Alike(a, b)
  PROVE  ToSet(a) = ToSet(b) /\ Len(a) = Len(b)
<1>1. a \in Seq(Sighting) /\ b \in Seq(Sighting)
  BY DEF Alike
<1>2. \A c \in Camera : Only(a, On(c)) = Only(b, On(c))
  BY <1>1, OfCameraIs DEF Alike
<1>3. \A c \in Camera : ToSet(a) \cap On(c) = ToSet(b) \cap On(c)
  <2> SUFFICES ASSUME NEW c \in Camera PROVE ToSet(a) \cap On(c) = ToSet(b) \cap On(c)
    OBVIOUS
  <2>1. ToSet(Only(a, On(c))) = ToSet(a) \cap On(c)
    BY <1>1, OnlyRange
  <2>2. ToSet(Only(b, On(c))) = ToSet(b) \cap On(c)
    BY <1>1, OnlyRange
  <2> QED BY <1>2, <2>1, <2>2
<1>4. \A x \in Sighting : x.camera \in Camera /\ x \in On(x.camera)
  BY DEF Sighting, On
<1>5. ToSet(a) \subseteq Sighting /\ ToSet(b) \subseteq Sighting
  BY <1>1, ElementOfSeq, LenProperties DEF ToSet
<1>6. ToSet(a) = ToSet(b)
  BY <1>3, <1>4, <1>5
<1>7. "top" \in Camera /\ "side" \in Camera /\ On("top") \cap On("side") = {}
      /\ Sighting \subseteq On("top") \cup On("side")
  BY DEF On, Sighting, Camera
<1>8. Len(a) = Len(Only(a, On("top"))) + Len(Only(a, On("side")))
  BY <1>1, <1>7, OnlyLen
<1>9. Len(b) = Len(Only(b, On("top"))) + Len(Only(b, On("side")))
  BY <1>1, <1>7, OnlyLen
<1> QED BY <1>2, <1>6, <1>7, <1>8, <1>9

LEMMA WeakAlike ==
  ASSUME NEW a, NEW b, Alike(a, b), NEW cut, NEW k, NEW o
  PROVE  WeakCandidate(k, a, cut, o) = WeakCandidate(k, b, cut, o)
<1> DEFINE x == OfClass(a, k)
           y == OfClass(b, k)
<1>1. Alike(x, y) /\ ToSet(x) = ToSet(y) /\ Len(x) = Len(y)
  BY AlikeOfClass, AlikeHold
<1> HIDE DEF x, y
<1>2. Best(x) = Best(y)
  <2>1. {x[i].det.conf : i \in DOMAIN x} = {e.det.conf : e \in ToSet(x)}
    BY DEF ToSet
  <2>2. {y[i].det.conf : i \in DOMAIN y} = {e.det.conf : e \in ToSet(y)}
    BY DEF ToSet
  <2> QED BY <1>1, <2>1, <2>2 DEF Best
<1>3. {x[i].camera : i \in DOMAIN x} = {y[i].camera : i \in DOMAIN y}
  <2>1. {x[i].camera : i \in DOMAIN x} = {e.camera : e \in ToSet(x)}
    BY DEF ToSet
  <2>2. {y[i].camera : i \in DOMAIN y} = {e.camera : e \in ToSet(y)}
    BY DEF ToSet
  <2> QED BY <1>1, <2>1, <2>2
<1>4. \A c \in Camera : MovedOn(x, c) <=> MovedOn(y, c)
  BY <1>1 DEF Alike, MovedOn
<1> QED BY <1>1, <1>2, <1>3, <1>4 DEF WeakCandidate, x, y

LEMMA ClassesAlike ==
  ASSUME NEW a, NEW b, Alike(a, b)
  PROVE  Classes(a) = Classes(b)
<1>1. Classes(a) = {e.det.class : e \in ToSet(a)} /\ Classes(b) = {e.det.class : e \in ToSet(b)}
  BY DEF Classes, ToSet
<1> QED BY <1>1, AlikeHold

LEMMA ClassesFinite ==
  ASSUME NEW a \in Seq(Sighting)
  PROVE  IsFiniteSet(Classes(a))
<1> DEFINE f == [i \in 1..Len(a) |-> a[i].det.class]
<1>1. Len(a) \in Nat /\ DOMAIN a = 1..Len(a)
  BY LenProperties
<1>2. f \in Surjection(1..Len(a), Classes(a))
  BY <1>1 DEF Classes, Surjection
<1>3. IsFiniteSet(1..Len(a))
  BY <1>1, FS_Interval
<1> HIDE DEF f
<1> QED BY <1>2, <1>3, FS_Surjection

LEMMA FirstAtIs ==
  ASSUME NEW a \in Seq(Sighting), NEW k \in Classes(a)
  PROVE  FirstAt(a, k) \in Nat
<1> DEFINE K == {i \in DOMAIN a : a[i].det.class = k}
<1>1. Len(a) \in Nat /\ DOMAIN a = 1..Len(a)
  BY LenProperties
<1>2. K \subseteq 0..Len(a) /\ K # {}
  BY <1>1 DEF Classes
<1>3. PICK m \in K : \A j \in K : m <= j
  BY <1>1, <1>2, LeastNumber
<1>4. \A j \in 1..m - 1 : a[j].det.class # k
  <2> SUFFICES ASSUME NEW j \in 1..m - 1, j \in K PROVE FALSE
    BY <1>1, <1>3
  <2> QED BY <1>1, <1>3
<1>5. \E i \in DOMAIN a : a[i].det.class = k /\ \A j \in 1..i - 1 : a[j].det.class # k
  BY <1>3, <1>4
<1>6. FirstAt(a, k) \in DOMAIN a
  BY <1>5 DEF FirstAt
<1> QED BY <1>1, <1>6

Strength(v) == <<v.cameras, v.votes, v.best>>

\* v comes before w whatever their places.
Above(v, w) ==
  \/ v.cameras > w.cameras
  \/ v.cameras = w.cameras /\ v.votes > w.votes
  \/ v.cameras = w.cameras /\ v.votes = w.votes /\ v.best > w.best

\* A candidate of strength sigma is left of the first n of {w[k] : k \in K}.
IsLeft(sigma, K, w, n) ==
  \E v \in Limited({w[k] : k \in K}, n, StrongerWeak) : Strength(v) = sigma

FewAbove(sigma, K, w, n) ==
  \E k \in K : Strength(w[k]) = sigma /\ Cardinality({j \in K : Above(w[j], w[k])}) < n

RescueStrengths(low, cut, allowed) ==
  {Strength(v) : v \in ThresholdRescue(low, cut, allowed)}

\* Of the candidates that are left when there are too many, one has a given
\* strength exactly if fewer than n candidates are above it: the first of that
\* strength has only these before it.
LEMMA StrengthsLeft ==
  ASSUME NEW K, IsFiniteSet(K), NEW w, \A k \in K : w[k].class = k /\ w[k].order \in Nat,
         NEW n \in Nat, NEW sigma
  PROVE  IsLeft(sigma, K, w, n) <=> FewAbove(sigma, K, w, n)
<1> DEFINE S == {w[k] : k \in K}
           Higher(k) == {j \in K : Above(w[j], w[k])}
           Before(v) == {x \in S : StrongerWeak(x, v)}
<1>1. Limited(S, n, StrongerWeak) = {v \in S : Cardinality(Before(v)) < n}
  BY DEF Limited
<1>2. ASSUME NEW k \in K
      PROVE  /\ IsFiniteSet(Higher(k)) /\ Cardinality(Higher(k)) \in Nat
             /\ IsFiniteSet(Before(w[k])) /\ Cardinality(Before(w[k])) \in Nat
             /\ Cardinality(Higher(k)) <= Cardinality(Before(w[k]))
  <2>1. IsFiniteSet(S)
    <3> DEFINE f == [j \in K |-> w[j]]
    <3>1. f \in Surjection(K, S)
      BY DEF Surjection
    <3> HIDE DEF f, S
    <3> QED BY <3>1, FS_Surjection
  <2>2. Higher(k) \subseteq K /\ Before(w[k]) \subseteq S
    OBVIOUS
  <2> HIDE DEF S, Higher, Before
  <2>3. /\ IsFiniteSet(Higher(k)) /\ Cardinality(Higher(k)) \in Nat
        /\ IsFiniteSet(Before(w[k])) /\ Cardinality(Before(w[k])) \in Nat
    BY <2>1, <2>2, FS_Subset, FS_CardinalityType
  <2> DEFINE C == {x.class : x \in Before(w[k])}
             g == [x \in Before(w[k]) |-> x.class]
  <2>4. g \in Surjection(Before(w[k]), C)
    BY DEF Surjection
  <2>5. Higher(k) \subseteq C
    <3> SUFFICES ASSUME NEW j \in Higher(k) PROVE j \in C
      OBVIOUS
    <3>1. w[j] \in Before(w[k]) /\ w[j].class = j
      BY DEF Higher, Before, S, Above, StrongerWeak
    <3> QED BY <3>1
  <2> HIDE DEF C, g
  <2>6. IsFiniteSet(C) /\ Cardinality(C) <= Cardinality(Before(w[k]))
    BY <2>3, <2>4, FS_Surjection
  <2>7. Cardinality(Higher(k)) <= Cardinality(C) /\ Cardinality(C) \in Nat
    BY <2>5, <2>6, FS_Subset, FS_CardinalityType
  <2> QED BY <2>3, <2>6, <2>7
<1>3. ASSUME NEW v \in Limited(S, n, StrongerWeak), Strength(v) = sigma
      PROVE  \E k \in K : Strength(w[k]) = sigma /\ Cardinality(Higher(k)) < n
  <2>1. v \in S /\ Cardinality(Before(v)) < n
    BY <1>1
  <2>2. PICK k \in K : v = w[k]
    BY <2>1
  <2> HIDE DEF S, Higher, Before
  <2>3. Cardinality(Higher(k)) < n
    BY <1>2, <2>1, <2>2
  <2> QED BY <1>3, <2>2, <2>3
<1>4. ASSUME NEW k \in K, Strength(w[k]) = sigma, Cardinality(Higher(k)) < n
      PROVE  \E v \in Limited(S, n, StrongerWeak) : Strength(v) = sigma
  <2> DEFINE J == {j \in K : Strength(w[j]) = sigma}
             f == [j \in J |-> w[j].order]
  <2>1. IsFiniteSet(J) /\ J # {} /\ \A j \in J : f[j] \in Int
    BY <1>4, FS_Subset
  <2>2. PICK m \in J : \A j \in J : f[m] <= f[j]
    <3> HIDE DEF f, J
    <3> QED BY <2>1, Bottommost
  <2>3. m \in K /\ Strength(w[m]) = sigma /\ w[m].order \in Nat
        /\ \A j \in J : w[j].order \in Nat /\ w[m].order <= w[j].order
    BY <2>2
  <2>4. /\ w[m].cameras = w[k].cameras /\ w[m].votes = w[k].votes /\ w[m].best = w[k].best
    BY <1>4, <2>3 DEF Strength
  <2>5. Higher(m) = Higher(k)
    BY <2>4 DEF Above
  <2>6. ASSUME NEW x \in Before(w[m])
        PROVE  x \in {w[j] : j \in Higher(m)}
    <3>1. PICK j \in K : x = w[j]
      OBVIOUS
    <3>2. StrongerWeak(w[j], w[m])
      BY <3>1
    <3>3. ~ /\ w[j].cameras = w[m].cameras /\ w[j].votes = w[m].votes
            /\ w[j].best = w[m].best /\ w[j].order < w[m].order
      <4> SUFFICES ASSUME w[j].cameras = w[m].cameras, w[j].votes = w[m].votes,
                          w[j].best = w[m].best, w[j].order < w[m].order
                   PROVE  FALSE
        OBVIOUS
      <4>1. Strength(w[j]) = sigma
        BY <2>3 DEF Strength
      <4>2. w[j].order \in Nat /\ w[m].order <= w[j].order
        BY <2>3, <4>1
      <4> QED BY <2>3, <4>2
    <3>4. Above(w[j], w[m])
      BY <3>2, <3>3 DEF StrongerWeak, Above
    <3> QED BY <3>1, <3>4
  <2>7. Before(w[m]) \subseteq {w[j] : j \in Higher(m)}
    BY <2>6
  <2>8. IsFiniteSet(Higher(m)) /\ Cardinality(Higher(m)) \in Nat
    BY <1>2, <2>3
  <2>9. w[m] \in S
    BY <2>3
  <2> HIDE DEF S, Higher, Before, J, f
  <2> DEFINE M == {w[j] : j \in Higher(m)}
             h == [j \in Higher(m) |-> w[j]]
  <2>10. h \in Surjection(Higher(m), M)
    BY DEF Surjection
  <2> HIDE DEF h
  <2>11. IsFiniteSet(M) /\ Cardinality(M) <= Cardinality(Higher(m)) /\ Before(w[m]) \subseteq M
    <3> HIDE DEF M
    <3>1. IsFiniteSet(M) /\ Cardinality(M) <= Cardinality(Higher(m))
      BY <2>8, <2>10, FS_Surjection
    <3> QED BY <2>7, <3>1 DEF M
  <2> HIDE DEF M
  <2>12. Cardinality(Before(w[m])) <= Cardinality(M) /\ Cardinality(M) \in Nat
         /\ Cardinality(Before(w[m])) \in Nat
    BY <2>11, FS_Subset, FS_CardinalityType
  <2>13. Cardinality(Before(w[m])) < n
    BY <1>4, <2>5, <2>8, <2>11, <2>12
  <2>14. w[m] \in Limited(S, n, StrongerWeak)
    BY <1>1, <2>9, <2>13
  <2> QED BY <2>3, <2>14
<1> HIDE DEF S, Higher, Before
<1>5. (\E v \in Limited(S, n, StrongerWeak) : Strength(v) = sigma)
        <=> \E k \in K : Strength(w[k]) = sigma /\ Cardinality(Higher(k)) < n
  BY <1>3, <1>4
<1> QED BY <1>5 DEF S, Higher, IsLeft, FewAbove

\* The strengths of the weak candidates that are left.
LEMMA WeakStrengths ==
  ASSUME NEW a, NEW b, Alike(a, b), NEW cut, NEW allowed, Vision.rescue_max_candidates \in Nat
  PROVE  RescueStrengths(a, cut, allowed) = RescueStrengths(b, cut, allowed)
<1> DEFINE n == Vision.rescue_max_candidates
           C == Classes(a) \cap allowed
           x == [k \in C |-> WeakCandidate(k, a, cut, FirstAt(a, k))]
           y == [k \in C |-> WeakCandidate(k, b, cut, FirstAt(b, k))]
           Ok(v) == v.moved \/ v.votes >= Vision.no_motion_min_votes
           K == {k \in C : Ok(x[k])}
<1>1. a \in Seq(Sighting) /\ b \in Seq(Sighting) /\ Classes(a) = Classes(b)
  BY ClassesAlike DEF Alike
<1>2. IsFiniteSet(K)
  <2>1. IsFiniteSet(Classes(a)) /\ K \subseteq Classes(a)
    BY <1>1, ClassesFinite
  <2> HIDE DEF K
  <2> QED BY <2>1, FS_Subset
<1>3. ASSUME NEW k \in C
      PROVE  /\ x[k].class = k /\ x[k].order \in Nat /\ y[k].class = k /\ y[k].order \in Nat
             /\ Strength(x[k]) = Strength(y[k]) /\ (Ok(x[k]) <=> Ok(y[k]))
             /\ x[k].cameras = y[k].cameras /\ x[k].votes = y[k].votes /\ x[k].best = y[k].best
  <2>1. FirstAt(a, k) \in Nat /\ FirstAt(b, k) \in Nat
    BY <1>1, FirstAtIs
  <2>2. x[k].class = k /\ x[k].order = FirstAt(a, k) /\ y[k].class = k
        /\ y[k].order = FirstAt(b, k)
    BY DEF WeakCandidate
  <2>3. y[k] = WeakCandidate(k, a, cut, FirstAt(b, k))
    BY WeakAlike
  <2>4. /\ x[k].cameras = y[k].cameras /\ x[k].votes = y[k].votes /\ x[k].best = y[k].best
        /\ x[k].moved = y[k].moved
    BY <2>3 DEF WeakCandidate
  <2> HIDE DEF x, y
  <2> QED BY <2>1, <2>2, <2>4 DEF Strength
<1>4. ThresholdRescue(a, cut, allowed) = Limited({x[k] : k \in K}, n, StrongerWeak)
  <2>1. {v \in {WeakCandidate(k, a, cut, FirstAt(a, k)) : k \in C} : Ok(v)} = {x[k] : k \in K}
    OBVIOUS
  <2> QED BY <2>1 DEF ThresholdRescue
<1>5. ThresholdRescue(b, cut, allowed) = Limited({y[k] : k \in K}, n, StrongerWeak)
  <2>1. C = Classes(b) \cap allowed /\ K = {k \in C : Ok(y[k])}
    BY <1>1, <1>3
  <2>2. {v \in {WeakCandidate(k, b, cut, FirstAt(b, k)) : k \in C} : Ok(v)}
          = {y[k] : k \in {j \in C : Ok(y[j])}}
    OBVIOUS
  <2> HIDE DEF C, K, y, Ok
  <2> QED BY <2>1, <2>2 DEF ThresholdRescue, Ok
<1>6. \A k \in K : k \in C
  OBVIOUS
<1> HIDE DEF x, y, K, C
<1>7. ASSUME NEW sigma PROVE IsLeft(sigma, K, x, n) <=> IsLeft(sigma, K, y, n)
  <2>1. IsLeft(sigma, K, x, n) <=> FewAbove(sigma, K, x, n)
    BY <1>2, <1>3, <1>6, StrengthsLeft
  <2>2. IsLeft(sigma, K, y, n) <=> FewAbove(sigma, K, y, n)
    BY <1>2, <1>3, <1>6, StrengthsLeft
  <2>3. \A k \in K : {j \in K : Above(x[j], x[k])} = {j \in K : Above(y[j], y[k])}
    BY <1>3, <1>6 DEF Above
  <2>4. FewAbove(sigma, K, x, n) <=> FewAbove(sigma, K, y, n)
    BY <1>3, <1>6, <2>3 DEF FewAbove
  <2> QED BY <2>1, <2>2, <2>4
<1>8. \A sigma : sigma \in RescueStrengths(a, cut, allowed) <=> IsLeft(sigma, K, x, n)
  BY <1>4 DEF RescueStrengths, IsLeft
<1>9. \A sigma : sigma \in RescueStrengths(b, cut, allowed) <=> IsLeft(sigma, K, y, n)
  BY <1>5 DEF RescueStrengths, IsLeft
<1>10. \A sigma : sigma \in RescueStrengths(a, cut, allowed)
                    <=> sigma \in RescueStrengths(b, cut, allowed)
  BY <1>7, <1>8, <1>9
<1> QED BY <1>10 DEF RescueStrengths

\* What the two cameras show is all that the result depends on, but for the
\* order of weak candidates of equal strength.
LEMMA SameResult ==
  ASSUME NEW s \in SeenSet, NEW t \in SeenSet, \A c \in Camera : Own(s, c) = Own(t, c),
         NEW frames, NEW allowed, Vision.rescue_max_candidates \in Nat
  PROVE  /\ Result(s, frames, allowed).votes = Result(t, frames, allowed).votes
         /\ Result(s, frames, allowed).misplaced = Result(t, frames, allowed).misplaced
         /\ {Strength(v) : v \in Result(s, frames, allowed).weak}
              = {Strength(v) : v \in Result(t, frames, allowed).weak}
<1>1. /\ "top" \in Camera /\ "side" \in Camera
      /\ On("top") \subseteq Sighting /\ On("side") \subseteq Sighting
  BY OnIsSighting DEF Camera
<1>2. \A c \in Camera : /\ s.kept[c] = t.kept[c] /\ OfCamera(s.low, c) = OfCamera(t.low, c)
                        /\ OfCamera(s.cut, c) = OfCamera(t.cut, c)
                        /\ OfCamera(s.path, c) = OfCamera(t.path, c)
  BY DEF Own
<1>3. s.kept = t.kept
  BY <1>2 DEF SeenSet
<1>4. ASSUME NEW c \in Camera, NEW q \in Seq(On(c)) PROVE OfCamera(q, c) = q
  <2>1. q \in Seq(Sighting)
    BY OnIsSighting
  <2>2. OfCamera(q, c) = Only(q, On(c))
    BY <2>1, OfCameraIs
  <2>3. Only(q, On(c)) = q
    BY OnlyOfAll
  <2> QED BY <2>2, <2>3
<1>5. s.cut = t.cut /\ s.path = t.path
  BY <1>1, <1>2, <1>4 DEF SeenSet
<1>6. Alike(s.low, t.low)
  BY <1>2 DEF Alike, SeenSet
<1>7. RescueStrengths(s.low, s.cut, allowed) = RescueStrengths(t.low, t.cut, allowed)
  BY <1>5, <1>6, WeakStrengths
<1>8. /\ Result(s, frames, allowed).votes = Result(t, frames, allowed).votes
      /\ Result(s, frames, allowed).misplaced = Result(t, frames, allowed).misplaced
  BY <1>3, <1>5 DEF Result, VoteResults
<1>9. CASE Vision.freezer
  BY <1>8, <1>9 DEF Result
<1>10. CASE ~Vision.freezer
  BY <1>7, <1>8, <1>10 DEF Result, RescueStrengths
<1> QED BY <1>8, <1>9, <1>10

-----------------------------------------------------------------------------
(* What was gathered is what the frames of each camera show, in order. *)

\* The first n frames that are not skipped, and what they show alone.
FirstFrames(n) == [i \in 1..n |-> (i - 1) * Stride]
SeenAlone(c, n) == SeenOfVideo(NothingSeen, c, FirstFrames(n), clip)

\* How far the reader of c is: it has put sent[c] frames, those up to its place
\* that are not skipped but for the one it is putting.
Sending(c) ==
  /\ c \in Given \/ reader[c].st = "absent"
  /\ reader[c].at <= Len(Frames(c))
  /\ reader[c].st \in {"absent", "opening"} => reader[c].at = 0
  /\ IF reader[c].st = "putting" THEN reader[c].at = sent[c] * Stride + 1
     ELSE reader[c].at <= sent[c] * Stride /\ (sent[c] - 1) * Stride < reader[c].at

DetectingOf(c) == yolo.st = "detecting" /\ yolo.camera = c

\* n frames of c were inferred, one may be in the detector, and the queue has
\* the others that were put, in their order.
Streamed(c, n) ==
  LET taken == IF DetectingOf(c) THEN n + 1 ELSE n
      Of(i) == queue[i].camera = c /\ queue[i].frame # Eof
  IN /\ Own(seen, c) = Own(SeenAlone(c, n), c)
     /\ DetectingOf(c) => yolo.frame = n * Stride
     /\ taken <= sent[c]
     /\ \A i \in DOMAIN queue :
          Of(i) => \E j \in taken..sent[c] - 1 : queue[i].frame = j * Stride
     /\ \A j \in taken..sent[c] - 1 :
          \E i \in DOMAIN queue : Of(i) /\ queue[i].frame = j * Stride
     /\ \A i, j \in DOMAIN queue :
          Of(i) /\ Of(j) /\ i < j => queue[i].frame < queue[j].frame

\* No task has been cancelled, and the inference loop has not failed.
Undisturbed == main \in {"watching", "returned"} /\ "yolo" \notin Failed

Evidence ==
  /\ clip \in Clips /\ sent \in [Camera -> Nat]
  /\ Undisturbed => /\ seen \in SeenSet
                    /\ \A c \in Camera : Sending(c)
                    /\ \A c \in Camera : \E n \in Nat : Streamed(c, n)

LEMMA StrideIs == Stride \in Nat /\ (Stride = 1 \/ Stride = 2)
  BY VideoAssumption

LEMMA ClipIs ==
  ASSUME clip \in Clips
  PROVE  clip.frames \in [Camera -> Seq(Seq(Detection))]
  BY VideoAssumption

LEMMA NothingSeenIs == NothingSeen \in SeenSet
<1>1. <<>> \in Seq(Sighting) /\ <<>> \in Seq(On("side")) /\ <<>> \in Seq(On("top"))
  BY EmptySeq
<1> HIDE DEF Sighting, On
<1> QED BY <1>1 DEF NothingSeen, SeenSet

\* A frame that was put is in the video.
LEMMA FrameIsThere ==
  ASSUME Inv, clip \in Clips, NEW c \in Camera, sent[c] \in Nat, Sending(c), NEW j \in Nat, j < sent[c]
  PROVE  j * Stride \in FrameNumbers(clip, c)
<1> DEFINE at == reader[c].at
           m == sent[c]
           len == Len(clip.frames[c])
<1>1. at \in Nat
  BY DEF Inv, TypeOK, ReaderOK
<1>2. len \in Nat /\ DOMAIN clip.frames[c] = 1..len
  BY ClipIs, LenProperties
<1>3. m \in Nat /\ at <= len /\ (m - 1) * Stride < at
  BY <1>1, StrideIs DEF Sending, Frames, Given
<1> HIDE DEF at, m, len
<1>4. j < m
  BY DEF m
<1>5. j * Stride \in Nat /\ j * Stride + 1 <= len
  <2>1. CASE Stride = 1
    BY <1>1, <1>2, <1>3, <1>4, <2>1
  <2>2. CASE Stride = 2
    BY <1>1, <1>2, <1>3, <1>4, <2>2
  <2> QED BY <2>1, <2>2, StrideIs
<1> QED BY <1>2, <1>5 DEF FrameNumbers

LEMMA FirstFramesAre ==
  ASSUME NEW n \in Nat, NEW T, \A j \in 0..n - 1 : j * Stride \in T
  PROVE  FirstFrames(n) \in Seq(T) /\ Len(FirstFrames(n)) = n
<1>1. \A i \in 1..n : (i - 1) * Stride \in T
  OBVIOUS
<1>2. FirstFrames(n) \in [1..n -> T]
  BY <1>1 DEF FirstFrames
<1> QED BY <1>2

LEMMA SeenAloneIs ==
  ASSUME clip \in Clips, NEW c \in Camera, NEW n \in Nat,
         \A j \in 0..n - 1 : j * Stride \in FrameNumbers(clip, c)
  PROVE  /\ SeenAlone(c, n) \in SeenSet
         /\ n * Stride \in FrameNumbers(clip, c) =>
              SeenAlone(c, n + 1) = AddFrame(SeenAlone(c, n), c, n * Stride, clip)
<1> DEFINE T == FrameNumbers(clip, c)
<1>1. FirstFrames(n) \in Seq(T) /\ Len(FirstFrames(n)) = n
  BY FirstFramesAre
<1>2. clip.frames \in [Camera -> Seq(Seq(Detection))]
  BY ClipIs
<1>3. SeenAlone(c, n) \in SeenSet
  BY <1>1, <1>2, NothingSeenIs, SeenType DEF SeenAlone
<1>4. ASSUME n * Stride \in T
      PROVE  SeenAlone(c, n + 1) = AddFrame(SeenAlone(c, n), c, n * Stride, clip)
  <2> DEFINE p == FirstFrames(n)
             q == FirstFrames(n + 1)
             e == n * Stride
  <2>1. q = Append(p, e)
    <3>1. Append(p, e) \in Seq(T) /\ Len(Append(p, e)) = n + 1
          /\ (\A i \in 1..n : Append(p, e)[i] = p[i]) /\ Append(p, e)[n + 1] = e
      BY <1>1, <1>4, AppendProperties
    <3>2. \A j \in 0..(n + 1) - 1 : j * Stride \in T
      BY <1>4
    <3>3. q \in Seq(T) /\ Len(q) = n + 1
      BY <3>2, FirstFramesAre
    <3>4. \A i \in 1..n + 1 : q[i] = Append(p, e)[i]
      <4> SUFFICES ASSUME NEW i \in 1..n + 1 PROVE q[i] = Append(p, e)[i]
        OBVIOUS
      <4>1. q[i] = (i - 1) * Stride
        BY DEF FirstFrames
      <4>2. CASE i \in 1..n
        <5>1. p[i] = (i - 1) * Stride
          BY <4>2 DEF FirstFrames
        <5> QED BY <3>1, <4>1, <4>2, <5>1
      <4>3. CASE i = n + 1
        BY <3>1, <4>1, <4>3
      <4>4. i \in 1..n \/ i = n + 1
        OBVIOUS
      <4> QED BY <4>2, <4>3, <4>4
    <3> HIDE DEF p, q, e
    <3> QED BY <3>1, <3>3, <3>4, SeqEqual
  <2> HIDE DEF p, q, e
  <2>2. SeenOfVideo(NothingSeen, c, Append(p, e), clip)
          = AddFrame(SeenOfVideo(NothingSeen, c, p, clip), c, e, clip)
    BY <1>1, <1>2, <1>4, NothingSeenIs, SeenOfAppend DEF p, e
  <2> QED BY <2>1, <2>2 DEF SeenAlone, p, q, e
<1> QED BY <1>3, <1>4

\* The numbers of two frames that are not skipped are in the order of their
\* places.
LEMMA StrideOrder ==
  ASSUME NEW i \in Int, NEW j \in Int
  PROVE  /\ i * Stride \in Int /\ (i >= 0 => i * Stride # Eof)
         /\ i * Stride < j * Stride <=> i < j
         /\ i * Stride = j * Stride <=> i = j
<1>1. CASE Stride = 1
  BY <1>1 DEF Eof
<1>2. CASE Stride = 2
  BY <1>2 DEF Eof
<1> QED BY <1>1, <1>2, StrideIs

\* An entry that is not a frame of c says nothing of c.
LEMMA StreamedQueued ==
  ASSUME Inv, NEW c \in Camera, NEW n \in Nat, Streamed(c, n), NEW e \in Entry,
         e.camera # c \/ e.frame = Eof,
         queue' = Append(queue, e), UNCHANGED <<yolo, seen, clip>>, sent'[c] = sent[c]
  PROVE  Streamed(c, n)'
<1> DEFINE taken == IF DetectingOf(c) THEN n + 1 ELSE n
           last == Len(queue) + 1
           Of(i) == queue[i].camera = c /\ queue[i].frame # Eof
           OfNext(i) == queue'[i].camera = c /\ queue'[i].frame # Eof
<1>1. /\ DOMAIN queue' = DOMAIN queue \cup {last} /\ queue'[last] = e
      /\ \A i \in DOMAIN queue : queue'[i] = queue[i]
  BY Queued
<1>2. \A i \in DOMAIN queue' : OfNext(i) => i \in DOMAIN queue /\ queue'[i] = queue[i]
  BY <1>1
<1>3. DetectingOf(c)' <=> DetectingOf(c)
  BY DEF DetectingOf
<1>4. \A i \in DOMAIN queue' : OfNext(i) => \E j \in taken..sent[c] - 1 : queue'[i].frame = j * Stride
  BY <1>2 DEF Streamed
<1>5. \A j \in taken..sent[c] - 1 :
        \E i \in DOMAIN queue' : OfNext(i) /\ queue'[i].frame = j * Stride
  <2> SUFFICES ASSUME NEW j \in taken..sent[c] - 1
               PROVE  \E i \in DOMAIN queue' : OfNext(i) /\ queue'[i].frame = j * Stride
    OBVIOUS
  <2>1. PICK i \in DOMAIN queue : Of(i) /\ queue[i].frame = j * Stride
    BY DEF Streamed
  <2> QED BY <1>1, <2>1
<1>6. \A i, j \in DOMAIN queue' : OfNext(i) /\ OfNext(j) /\ i < j => queue'[i].frame < queue'[j].frame
  BY <1>2 DEF Streamed
<1>7. /\ Own(seen', c) = Own(SeenAlone(c, n)', c)
      /\ (DetectingOf(c) => yolo.frame = n * Stride) /\ taken <= sent[c]
  BY DEF Streamed, SeenAlone
<1> QED BY <1>3, <1>4, <1>5, <1>6, <1>7 DEF Streamed

\* The next frame of c comes after all the others.
LEMMA StreamedPut ==
  ASSUME Inv, NEW c \in Camera, NEW n \in Nat, Streamed(c, n), sent[c] \in Nat,
         queue' = Append(queue, [camera |-> c, frame |-> sent[c] * Stride]),
         UNCHANGED <<yolo, seen, clip>>, sent'[c] = sent[c] + 1
  PROVE  Streamed(c, n)'
<1> DEFINE m == sent[c]
           e == [camera |-> c, frame |-> m * Stride]
           taken == IF DetectingOf(c) THEN n + 1 ELSE n
           last == Len(queue) + 1
           Of(i) == queue[i].camera = c /\ queue[i].frame # Eof
           OfNext(i) == queue'[i].camera = c /\ queue'[i].frame # Eof
<1>1. m \in Nat /\ taken \in Nat /\ taken <= m /\ m * Stride \in Int /\ m * Stride # Eof
  BY StrideOrder DEF Streamed
<1>2. e \in Entry /\ e.camera = c /\ e.frame = m * Stride
  BY <1>1 DEF Entry
<1>3. /\ DOMAIN queue' = DOMAIN queue \cup {last} /\ queue'[last] = e
      /\ \A i \in DOMAIN queue : queue'[i] = queue[i] /\ i < last
  BY <1>2, Queued
<1>4. DetectingOf(c)' <=> DetectingOf(c)
  BY DEF DetectingOf
<1>5. /\ Len(queue) \in Nat /\ DOMAIN queue = 1..Len(queue)
      /\ \A i \in DOMAIN queue : Of(i) => \E j \in taken..m - 1 : queue[i].frame = j * Stride
      /\ \A j \in taken..m - 1 : \E i \in DOMAIN queue : Of(i) /\ queue[i].frame = j * Stride
      /\ \A i, j \in DOMAIN queue : Of(i) /\ Of(j) /\ i < j => queue[i].frame < queue[j].frame
  BY QueueIs DEF Streamed
<1>6. sent'[c] - 1 = m /\ taken <= sent'[c]
  <2>1. sent'[c] = m + 1
    OBVIOUS
  <2> HIDE DEF m, taken
  <2> QED BY <1>1, <2>1
<1> HIDE DEF e, m, taken
<1>7. \A i \in DOMAIN queue' : OfNext(i) => \E j \in taken..m : queue'[i].frame = j * Stride
  <2> SUFFICES ASSUME NEW i \in DOMAIN queue', OfNext(i)
               PROVE  \E j \in taken..m : queue'[i].frame = j * Stride
    OBVIOUS
  <2>1. CASE i = last
    BY <1>1, <1>2, <1>3, <2>1
  <2>2. CASE i \in DOMAIN queue
    <3>1. PICK j \in taken..m - 1 : queue[i].frame = j * Stride
      BY <1>3, <1>5, <2>2
    <3> QED BY <1>1, <1>3, <2>2, <3>1
  <2> QED BY <1>3, <2>1, <2>2
<1>8. \A j \in taken..m : \E i \in DOMAIN queue' : OfNext(i) /\ queue'[i].frame = j * Stride
  <2> SUFFICES ASSUME NEW j \in taken..m
               PROVE  \E i \in DOMAIN queue' : OfNext(i) /\ queue'[i].frame = j * Stride
    OBVIOUS
  <2>1. CASE j = m
    <3>1. last \in DOMAIN queue' /\ OfNext(last) /\ queue'[last].frame = j * Stride
      BY <1>1, <1>2, <1>3, <2>1
    <3> QED BY <3>1
  <2>2. CASE j # m
    <3>1. PICK i \in DOMAIN queue : Of(i) /\ queue[i].frame = j * Stride
      BY <1>1, <1>5, <2>2
    <3> QED BY <1>3, <3>1
  <2> QED BY <2>1, <2>2
<1>9. \A i, j \in DOMAIN queue' : OfNext(i) /\ OfNext(j) /\ i < j => queue'[i].frame < queue'[j].frame
  <2> SUFFICES ASSUME NEW i \in DOMAIN queue', NEW j \in DOMAIN queue',
                      OfNext(i), OfNext(j), i < j
               PROVE  queue'[i].frame < queue'[j].frame
    OBVIOUS
  <2>1. i \in DOMAIN queue
    BY <1>3, <1>5
  <2>2. CASE j \in DOMAIN queue
    BY <1>3, <1>5, <2>1, <2>2
  <2>3. CASE j = last
    <3>1. PICK k \in taken..m - 1 : queue[i].frame = k * Stride
      BY <1>3, <1>5, <2>1
    <3>2. k \in Int /\ m \in Int /\ k < m
      BY <1>1, <3>1
    <3>3. k * Stride < m * Stride
      BY <3>2, StrideOrder
    <3> QED BY <1>2, <1>3, <2>1, <2>3, <3>1, <3>3
  <2> QED BY <1>3, <2>2, <2>3
<1>10. /\ Own(seen', c) = Own(SeenAlone(c, n)', c)
       /\ DetectingOf(c) => yolo.frame = n * Stride
  BY DEF Streamed, SeenAlone
<1> QED BY <1>4, <1>6, <1>7, <1>8, <1>9, <1>10 DEF Streamed, taken, m

\* A step of a reader keeps its count.
LEMMA SendingStep ==
  ASSUME Inv, clip \in Clips, sent \in [Camera -> Nat], cancel = {},
         NEW c \in Camera, Sending(c), Extraction(c)
  PROVE  Sending(c)' /\ sent' \in [Camera -> Nat]
<1> DEFINE at == reader[c].at
           m == sent[c]
           len == Len(Frames(c))
           Goes(st, a) == reader'[c].st = st /\ reader'[c].at = a
<1>1. /\ at \in Nat /\ m \in Nat /\ len \in Nat /\ at <= len
      /\ reader \in [Camera -> [st : Places, at : Nat, end : Over \cup {"none"}]]
  <2>1. at \in Nat /\ reader \in [Camera -> [st : Places, at : Nat, end : Over \cup {"none"}]]
    BY DEF Inv, TypeOK, ReaderOK
  <2>2. len \in Nat
    BY ClipIs, LenProperties DEF Frames
  <2> QED BY <2>1, <2>2 DEF Sending
<1>2. \A st, a, end : MoveReader(c, st, a, end) => Goes(st, a)
  BY <1>1 DEF MoveReader
<1>3. clip' = clip /\ len' = len
  BY DEF Extraction, Open, OpenFails, Read, EndOfVideo, ReadFails, Put, PutEof, CancelReader, Frames
<1>14. c \in Given /\ Given' = Given
  <2>1. c \in Tasks
    BY DEF Extraction, Open, OpenFails, Read, EndOfVideo, ReadFails, Put, PutEof, CancelReader, Awake
  <2> QED BY <1>3, <2>1 DEF Tasks, Given, Camera
<1>4. reader[c].st # "putting" => at <= m * Stride /\ (m - 1) * Stride < at
  BY DEF Sending
<1>5. reader[c].st = "putting" => at = m * Stride + 1
  BY DEF Sending
<1>6. reader[c].st = "opening" => at = 0
  BY DEF Sending
<1>7. CASE /\ sent' = sent /\ reader[c].st # "putting" /\ reader'[c].at = at
           /\ reader'[c].st \notin {"putting", "absent", "opening"}
  <2>1. sent'[c] = m
    BY <1>7
  <2> HIDE DEF at, m, len
  <2> QED BY <1>14, <1>1, <1>3, <1>4, <1>7, <2>1 DEF Sending, len
<1>8. CASE Read(c)
  <2>1. /\ reader[c].st = "reading" /\ at < len /\ sent'[c] = m /\ sent' = sent
        /\ Goes(IF NotSkipped(at) THEN "putting" ELSE "reading", at + 1)
    BY <1>2, <1>8 DEF Read
  <2> HIDE DEF at, m, len
  <2>2. at + 1 <= len
    BY <1>1, <2>1
  <2>3. NotSkipped(at) => at + 1 = m * Stride + 1
    <3>1. CASE Stride = 1
      BY <1>1, <1>4, <2>1, <3>1
    <3>2. CASE Stride = 2
      BY <1>1, <1>4, <2>1, <3>2 DEF NotSkipped
    <3> QED BY <3>1, <3>2, StrideIs
  <2>4. ~NotSkipped(at) => at + 1 <= m * Stride /\ (m - 1) * Stride < at + 1
    <3>1. CASE Stride = 1
      BY <1>1, <1>4, <2>1, <3>1 DEF NotSkipped
    <3>2. CASE Stride = 2
      BY <1>1, <1>4, <2>1, <3>2 DEF NotSkipped
    <3> QED BY <3>1, <3>2, StrideIs
  <2>5. CASE NotSkipped(at)
    BY <1>14, <1>3, <2>1, <2>2, <2>3, <2>5 DEF Sending, len
  <2>6. CASE ~NotSkipped(at)
    BY <1>14, <1>3, <2>1, <2>2, <2>4, <2>6 DEF Sending, len
  <2> QED BY <1>1, <2>1, <2>5, <2>6
<1>9. CASE Put(c)
  <2>1. /\ reader[c].st = "putting" /\ sent'[c] = m + 1 /\ sent' \in [Camera -> Nat]
        /\ Goes("reading", at)
    BY <1>1, <1>2, <1>9 DEF Put
  <2> HIDE DEF at, m, len
  <2>2. at = m * Stride + 1
    BY <1>5, <2>1
  <2>3. at <= (m + 1) * Stride /\ ((m + 1) - 1) * Stride < at
    <3>1. CASE Stride = 1
      BY <1>1, <2>2, <3>1
    <3>2. CASE Stride = 2
      BY <1>1, <2>2, <3>2
    <3> QED BY <3>1, <3>2, StrideIs
  <2> QED BY <1>14, <1>1, <1>3, <2>1, <2>3 DEF Sending, len
<1>10. CASE Open(c) \/ OpenFails(c)
  BY <1>2, <1>6, <1>7, <1>10 DEF Open, OpenFails
<1>11. CASE EndOfVideo(c) \/ ReadFails(c)
  BY <1>2, <1>7, <1>11 DEF EndOfVideo, ReadFails
<1>12. CASE PutEof(c)
  <2>1. /\ reader[c].st = "closing" /\ sent' = sent /\ Goes(reader[c].end, at)
        /\ reader[c].end \in Over \cup {"none"}
    BY <1>1, <1>2, <1>12 DEF PutEof
  <2> QED BY <1>7, <2>1 DEF Over
<1>13. ~CancelReader(c)
  BY DEF CancelReader
<1> QED BY <1>8, <1>9, <1>10, <1>11, <1>12, <1>13 DEF Extraction

\* A step of a reader keeps what is known of the gathered.
LEMMA ExtractionEvidence ==
  ASSUME Inv, Evidence, NEW c \in Camera, Extraction(c)
  PROVE  Evidence'
<1>1. UNCHANGED <<clip, yolo, seen, main>> /\ \A d \in Camera \ {c} : reader'[d] = reader[d]
  BY DEF Extraction, Open, OpenFails, Read, EndOfVideo, ReadFails, Put, PutEof, CancelReader,
         MoveReader, Inv, TypeOK, ReaderOK
<1>2. clip \in Clips /\ sent \in [Camera -> Nat]
  BY DEF Evidence
<1>3. sent' \in [Camera -> Nat] /\ \A d \in Camera \ {c} : sent'[d] = sent[d]
  BY <1>2 DEF Extraction, Open, OpenFails, Read, EndOfVideo, ReadFails, Put, PutEof, CancelReader
<1>8. Undisturbed' <=> Undisturbed
  BY <1>1 DEF Undisturbed, Failed, Status, Tasks, Given, Camera
<1> SUFFICES ASSUME Undisturbed
             PROVE  /\ \A d \in Camera : Sending(d)'
                    /\ \A d \in Camera : \E n \in Nat : Streamed(d, n)'
  BY <1>1, <1>2, <1>3, <1>8 DEF Evidence
<1>4. seen \in SeenSet /\ (\A d \in Camera : Sending(d))
      /\ \A d \in Camera : \E n \in Nat : Streamed(d, n)
  BY DEF Evidence
<1>5. cancel = {}
  BY DEF Inv, Quiet, Undisturbed
<1>6. \A d \in Camera : Sending(d)'
  <2>1. Sending(c)'
    BY <1>2, <1>4, <1>5, SendingStep
  <2>2. \A d \in Camera \ {c} : Sending(d)'
    BY <1>1, <1>3, <1>4 DEF Sending, Frames, Given
  <2> QED BY <2>1, <2>2
<1>7. ASSUME NEW d \in Camera PROVE \E n \in Nat : Streamed(d, n)'
  <2>1. PICK n \in Nat : Streamed(d, n)
    BY <1>4
  <2>2. CASE queue' = queue /\ sent' = sent
    BY <1>1, <2>1, <2>2 DEF Streamed, DetectingOf, SeenAlone
  <2>3. CASE Put(c)
    <3> DEFINE e == [camera |-> c, frame |-> reader[c].at - 1]
    <3>1. queue' = Append(queue, e) /\ reader[c].st = "putting" /\ sent'[c] = sent[c] + 1
      BY <1>2, <2>3 DEF Put
    <3>2. sent[c] \in Nat /\ sent[c] * Stride \in Nat /\ reader[c].at - 1 = sent[c] * Stride
      <4>1. sent[c] * Stride \in Nat /\ reader[c].at = sent[c] * Stride + 1
        BY <1>2, <1>4, <3>1, StrideIs DEF Sending
      <4> QED BY <1>2, <4>1
    <3>3. e \in Entry
      BY <3>2 DEF Entry
    <3>4. CASE d = c
      BY <1>1, <2>1, <3>1, <3>2, <3>4, StreamedPut
    <3>5. CASE d # c
      <4>1. sent'[d] = sent[d]
        BY <1>3, <3>5
      <4> QED BY <1>1, <2>1, <3>1, <3>3, <3>5, <4>1, StreamedQueued
    <3> QED BY <3>4, <3>5
  <2>4. CASE PutEof(c)
    <3> DEFINE e == [camera |-> c, frame |-> Eof]
    <3>1. queue' = Append(queue, e) /\ sent'[d] = sent[d]
      BY <2>4 DEF PutEof
    <3>2. e \in Entry
      BY DEF Entry, Eof
    <3> QED BY <1>1, <2>1, <3>1, <3>2, StreamedQueued
  <2> QED
    BY <2>2, <2>3, <2>4 DEF Extraction, Open, OpenFails, Read, EndOfVideo, ReadFails, CancelReader
<1> QED BY <1>6, <1>7

\* The frame taken is the next one of its camera.
LEMMA TakeEvidence ==
  ASSUME Inv, Evidence, Undisturbed, Take
  PROVE  Evidence'
<1>1. /\ UNCHANGED <<clip, reader, seen, sent, main>> /\ queue # <<>> /\ queue' = Tail(queue)
      /\ yolo.st = "waiting" /\ Head(queue) = queue[1] /\ 1 \in DOMAIN queue
  BY Unqueued DEF Take
<1>2. /\ Len(queue) \in Nat /\ DOMAIN queue = 1..Len(queue)
      /\ \A i \in DOMAIN queue : queue[i] \in Entry
      /\ \A i \in DOMAIN queue' : i + 1 \in DOMAIN queue /\ queue'[i] = queue[i + 1] /\ i \in Nat \ {0}
      /\ \A i \in DOMAIN queue : i = 1 \/ (i - 1 \in DOMAIN queue' /\ queue'[i - 1] = queue[i])
  <2>1. queue' \in Seq(Entry)
    <3>1. queue \in Seq(Entry)
      BY DEF Inv, TypeOK, Entry
    <3> HIDE DEF Entry
    <3> QED BY <1>1, <3>1, HeadTailProperties
  <2>2. \A i \in DOMAIN queue' : i \in Nat \ {0}
    BY <2>1, LenProperties
  <2> QED BY <1>1, <2>2, QueueIs, Unqueued
<1>3. clip \in Clips /\ sent \in [Camera -> Nat] /\ seen \in SeenSet
      /\ (\A c \in Camera : Sending(c)) /\ (\A c \in Camera : \E n \in Nat : Streamed(c, n))
  BY DEF Evidence
<1> DEFINE h == queue[1]
<1>4. h \in Entry /\ (h.frame = Eof \/ h.frame # Eof)
  BY <1>1, <1>2
<1>5. yolo \in [st : Over \cup {"waiting", "detecting"}, frame : Int, camera : Camera, eofs : Nat]
  BY DEF Inv, TypeOK, YoloOK
<1>6. h.frame # Eof =>
        yolo'.st = "detecting" /\ yolo'.frame = h.frame /\ yolo'.camera = h.camera
  BY <1>1, <1>5 DEF Take
<1>7. h.frame = Eof => yolo'.st \in {"waiting", "done"}
  BY <1>1, <1>5 DEF Take
<1> SUFFICES ASSUME NEW c \in Camera PROVE \E n \in Nat : Streamed(c, n)'
  BY <1>1, <1>3 DEF Evidence, Sending, Frames, Given
<1>8. PICK n \in Nat : Streamed(c, n)
  BY <1>3
<1> DEFINE m == sent[c]
           Of(i) == queue[i].camera = c /\ queue[i].frame # Eof
           OfNext(i) == queue'[i].camera = c /\ queue'[i].frame # Eof
<1>9. /\ m \in Nat /\ n <= m
      /\ \A i \in DOMAIN queue : Of(i) => \E j \in n..m - 1 : queue[i].frame = j * Stride
      /\ \A j \in n..m - 1 : \E i \in DOMAIN queue : Of(i) /\ queue[i].frame = j * Stride
      /\ \A i, j \in DOMAIN queue : Of(i) /\ Of(j) /\ i < j => queue[i].frame < queue[j].frame
      /\ Own(seen, c) = Own(SeenAlone(c, n), c)
  BY <1>1, <1>3, <1>8 DEF Streamed, DetectingOf
<1>10. ~DetectingOf(c)
  BY <1>1 DEF DetectingOf
<1>11. Own(seen', c) = Own(SeenAlone(c, n)', c) /\ sent'[c] = m
  BY <1>1, <1>9 DEF SeenAlone
<1>12. \A i, j \in DOMAIN queue' : OfNext(i) /\ OfNext(j) /\ i < j => queue'[i].frame < queue'[j].frame
  <2> SUFFICES ASSUME NEW i \in DOMAIN queue', NEW j \in DOMAIN queue',
                      OfNext(i), OfNext(j), i < j
               PROVE  queue'[i].frame < queue'[j].frame
    OBVIOUS
  <2>1. i + 1 \in DOMAIN queue /\ j + 1 \in DOMAIN queue /\ i + 1 < j + 1
        /\ queue'[i] = queue[i + 1] /\ queue'[j] = queue[j + 1]
    BY <1>2
  <2> QED BY <1>9, <2>1
<1>13. CASE Of(1)
  <2>1. PICK k \in n..m - 1 : h.frame = k * Stride
    BY <1>1, <1>9, <1>13
  <2>2. k = n
    <3> SUFFICES ASSUME n < k PROVE FALSE
      BY <2>1
    <3>1. PICK i \in DOMAIN queue : Of(i) /\ queue[i].frame = n * Stride
      BY <1>9, <2>1
    <3>2. i # 1
      BY <2>1, <3>1, StrideOrder
    <3>3. 1 < i
      BY <1>2, <3>2
    <3>4. h.frame < queue[i].frame
      BY <1>1, <1>9, <1>13, <3>1, <3>3
    <3>5. k \in Int /\ n \in Int
      BY <2>1
    <3>6. k * Stride < n * Stride
      BY <2>1, <3>1, <3>4
    <3> QED BY <3>5, <3>6, StrideOrder
  <2>3. DetectingOf(c)' /\ yolo'.frame = n * Stride /\ n + 1 <= m
    BY <1>6, <1>9, <1>13, <2>1, <2>2 DEF DetectingOf
  <2>4. \A i \in DOMAIN queue' : OfNext(i) => \E j \in n + 1..m - 1 : queue'[i].frame = j * Stride
    <3> SUFFICES ASSUME NEW i \in DOMAIN queue', OfNext(i)
                 PROVE  \E j \in n + 1..m - 1 : queue'[i].frame = j * Stride
      OBVIOUS
    <3>1. i + 1 \in DOMAIN queue /\ queue'[i] = queue[i + 1] /\ 1 < i + 1
      BY <1>2
    <3>2. PICK j \in n..m - 1 : queue[i + 1].frame = j * Stride
      BY <1>9, <3>1
    <3>3. h.frame < queue[i + 1].frame
      BY <1>1, <1>9, <1>13, <3>1
    <3>4. n < j
      BY <2>1, <2>2, <3>2, <3>3, StrideOrder
    <3> QED BY <3>1, <3>2, <3>4
  <2>5. \A j \in n + 1..m - 1 : \E i \in DOMAIN queue' : OfNext(i) /\ queue'[i].frame = j * Stride
    <3> SUFFICES ASSUME NEW j \in n + 1..m - 1
                 PROVE  \E i \in DOMAIN queue' : OfNext(i) /\ queue'[i].frame = j * Stride
      OBVIOUS
    <3>1. PICK i \in DOMAIN queue : Of(i) /\ queue[i].frame = j * Stride
      BY <1>9
    <3>2. i # 1
      BY <2>1, <2>2, <3>1, StrideOrder
    <3> QED BY <1>2, <3>1, <3>2
  <2>6. Streamed(c, n)'
    BY <1>11, <1>12, <2>3, <2>4, <2>5 DEF Streamed
  <2> QED BY <2>6
<1>14. CASE ~Of(1)
  <2>1. ~DetectingOf(c)'
    BY <1>4, <1>6, <1>7, <1>14 DEF DetectingOf
  <2>2. \A i \in DOMAIN queue' : OfNext(i) => \E j \in n..m - 1 : queue'[i].frame = j * Stride
    BY <1>2, <1>9
  <2>3. \A j \in n..m - 1 : \E i \in DOMAIN queue' : OfNext(i) /\ queue'[i].frame = j * Stride
    <3> SUFFICES ASSUME NEW j \in n..m - 1
                 PROVE  \E i \in DOMAIN queue' : OfNext(i) /\ queue'[i].frame = j * Stride
      OBVIOUS
    <3>1. PICK i \in DOMAIN queue : Of(i) /\ queue[i].frame = j * Stride
      BY <1>9
    <3>2. i # 1
      BY <1>14, <3>1
    <3> QED BY <1>2, <3>1, <3>2
  <2>4. Streamed(c, n)'
    BY <1>9, <1>11, <1>12, <2>1, <2>2, <2>3 DEF Streamed
  <2> QED BY <2>4
<1> QED BY <1>13, <1>14

\* What the frame in the detector adds is what it adds to its own camera's.
LEMMA DetectEvidence ==
  ASSUME Inv, Evidence, Undisturbed, Detect
  PROVE  Evidence'
<1>1. /\ UNCHANGED <<clip, reader, queue, sent, main, cancel>> /\ yolo.st = "detecting"
      /\ seen' = AddFrame(seen, yolo.camera, yolo.frame, clip)
      /\ yolo' = [yolo EXCEPT !.st = "waiting"]
  BY DEF Detect
<1>2. clip \in Clips /\ sent \in [Camera -> Nat] /\ seen \in SeenSet
      /\ (\A c \in Camera : Sending(c)) /\ (\A c \in Camera : \E n \in Nat : Streamed(c, n))
  BY DEF Evidence
<1>3. yolo \in [st : Over \cup {"waiting", "detecting"}, frame : Int, camera : Camera, eofs : Nat]
  BY DEF Inv, TypeOK, YoloOK
<1> DEFINE d == yolo.camera
<1>4. d \in Camera /\ yolo'.st = "waiting"
  BY <1>1, <1>3
<1>5. PICK k \in Nat : Streamed(d, k)
  BY <1>2, <1>4
<1>6. DetectingOf(d) /\ yolo.frame = k * Stride /\ k + 1 <= sent[d]
  BY <1>1, <1>5 DEF Streamed, DetectingOf
<1>7. \A j \in 0..k : j * Stride \in FrameNumbers(clip, d)
  <2> SUFFICES ASSUME NEW j \in 0..k PROVE j * Stride \in FrameNumbers(clip, d)
    OBVIOUS
  <2>1. j \in Nat /\ j < sent[d] /\ sent[d] \in Nat
    BY <1>2, <1>4, <1>6
  <2> HIDE DEF d
  <2> QED BY <1>2, <1>4, <2>1, FrameIsThere
<1>8. clip.frames \in [Camera -> Seq(Seq(Detection))] /\ k * Stride \in FrameNumbers(clip, d)
  BY <1>2, <1>7, ClipIs
<1>9. seen' \in SeenSet
  <2> HIDE DEF d
  <2> QED BY <1>1, <1>2, <1>4, <1>6, <1>8, AddFrameType DEF d
<1>10. /\ SeenAlone(d, k) \in SeenSet
       /\ SeenAlone(d, k + 1) = AddFrame(SeenAlone(d, k), d, k * Stride, clip)
  BY <1>2, <1>4, <1>7, SeenAloneIs
<1>11. Own(seen, d) = Own(SeenAlone(d, k), d)
  BY <1>5 DEF Streamed
<1>12. /\ Own(seen', d) = Own(SeenAlone(d, k + 1), d)
       /\ \A c \in Camera \ {d} : Own(seen', c) = Own(seen, c)
  <2> DEFINE t == SeenAlone(d, k)
             e == k * Stride
  <2> HIDE DEF d, t, e
  <2>1. /\ Own(seen, d) = Own(t, d) => Own(AddFrame(seen, d, e, clip), d) = Own(AddFrame(t, d, e, clip), d)
        /\ \A c \in Camera \ {d} : Own(AddFrame(seen, d, e, clip), c) = Own(seen, c)
    BY <1>2, <1>4, <1>8, <1>10, AddFrameOwn DEF t, e
  <2>2. seen' = AddFrame(seen, d, e, clip)
    BY <1>1, <1>6 DEF d, e
  <2> QED BY <1>10, <1>11, <2>1, <2>2 DEF t, e
<1> SUFFICES ASSUME NEW c \in Camera PROVE \E n \in Nat : Streamed(c, n)'
  BY <1>1, <1>2, <1>9 DEF Evidence, Sending, Frames, Given
<1>13. ~DetectingOf(c)'
  BY <1>4 DEF DetectingOf
<1>14. CASE c = d
  <2>1. Own(seen', c) = Own(SeenAlone(c, k + 1)', c)
    BY <1>1, <1>12, <1>14 DEF SeenAlone, FirstFrames
  <2>2. Streamed(c, k + 1)'
    BY <1>1, <1>5, <1>6, <1>13, <1>14, <2>1 DEF Streamed
  <2> QED BY <2>2
<1>15. CASE c # d
  <2>1. PICK n \in Nat : Streamed(c, n)
    BY <1>2
  <2>2. Own(seen', c) = Own(SeenAlone(c, n)', c)
    BY <1>1, <1>12, <1>15, <2>1 DEF Streamed, SeenAlone
  <2>3. ~DetectingOf(c)
    BY <1>15 DEF DetectingOf
  <2>4. Streamed(c, n)'
    BY <1>1, <1>13, <2>1, <2>2, <2>3 DEF Streamed
  <2> QED BY <2>4
<1> QED BY <1>14, <1>15

LEMMA InitEvidence == Init => Evidence
<1> SUFFICES ASSUME Init PROVE Evidence
  OBVIOUS
<1>1. clip \in Clips /\ sent \in [Camera -> Nat] /\ seen = NothingSeen /\ seen \in SeenSet
  BY NothingSeenIs DEF Init
<1>2. ASSUME NEW c \in Camera PROVE Sending(c)
  <2>1. Len(Frames(c)) \in Nat
    BY <1>1, ClipIs, LenProperties DEF Frames
  <2>2. /\ reader[c].at = 0 /\ reader[c].st # "putting" /\ sent[c] = 0
        /\ c \in Given \/ reader[c].st = "absent"
    BY DEF Init, Given
  <2>3. 0 <= 0 * Stride /\ (0 - 1) * Stride < 0
    BY StrideIs
  <2> QED BY <2>1, <2>2, <2>3 DEF Sending
<1>3. ASSUME NEW c \in Camera PROVE Streamed(c, 0)
  <2>1. DOMAIN queue = {} /\ ~DetectingOf(c) /\ sent[c] = 0
    BY EmptySeq, LenProperties DEF Init, DetectingOf
  <2>2. FirstFrames(0) = <<>>
    BY DEF FirstFrames
  <2>3. SeenAlone(c, 0) = NothingSeen
    BY <1>1, <2>2, ClipIs, NothingSeenIs, SeenOfNothing DEF SeenAlone
  <2> QED BY <1>1, <2>1, <2>3 DEF Streamed
<1> QED BY <1>1, <1>2, <1>3 DEF Evidence

LEMMA EvidenceStep == Inv /\ Evidence /\ [Next]_vars => Evidence'
<1> SUFFICES ASSUME Inv, Evidence, [Next]_vars PROVE Evidence'
  OBVIOUS
<1>1. ASSUME NEW c \in Camera, Extraction(c) PROVE Evidence'
  BY <1>1, ExtractionEvidence
<1>2. CASE Inference
  <2>1. CASE ~Undisturbed
    <3>1. UNCHANGED <<clip, sent, main>> /\ ~Undisturbed'
      <4>1. UNCHANGED <<clip, sent, main>>
        BY <1>2 DEF Inference, Take, Detect, DetectFails, QueueTimeout, CancelYolo
      <4>2. CASE main \notin {"watching", "returned"}
        BY <4>1, <4>2 DEF Undisturbed
      <4>3. CASE main \in {"watching", "returned"} /\ "yolo" \in Failed
        <5>1. cancel = {} /\ yolo.st = "failed"
          BY <4>3 DEF Inv, Quiet, Failed, Status
        <5> QED BY <1>2, <4>3, <5>1
              DEF Inference, Take, Detect, DetectFails, QueueTimeout, CancelYolo
      <4> QED BY <2>1, <4>1, <4>2, <4>3 DEF Undisturbed
    <3> QED BY <3>1 DEF Evidence
  <2>2. CASE Undisturbed /\ Take
    BY <2>2, TakeEvidence
  <2>3. CASE Undisturbed /\ Detect
    BY <2>3, DetectEvidence
  <2>4. CASE DetectFails \/ QueueTimeout
    <3>1. UNCHANGED <<clip, sent>> /\ yolo'.st = "failed" /\ "yolo" \in Tasks
      BY <2>4 DEF DetectFails, QueueTimeout, Awake, Inv, TypeOK, YoloOK
    <3>2. "yolo" \in Failed'
      BY <3>1 DEF Failed, Status, Tasks, Given
    <3> QED BY <3>1, <3>2 DEF Evidence, Undisturbed
  <2>5. CASE Undisturbed /\ CancelYolo
    BY <2>5 DEF Undisturbed, CancelYolo, Inv, Quiet
  <2> QED BY <1>2, <2>1, <2>2, <2>3, <2>4, <2>5 DEF Inference
<1>3. CASE Caller \/ UNCHANGED vars
  <2>1. UNCHANGED <<clip, reader, queue, yolo, seen, sent>>
        /\ (main' \in {"watching", "returned"} => main \in {"watching", "returned"})
    BY <1>3 DEF Caller, SeeError, Raise, Return, Interrupt, Gathered, vars
  <2>2. (\A c \in Camera : Sending(c)' <=> Sending(c))
        /\ \A c \in Camera, n \in Nat : Streamed(c, n)' <=> Streamed(c, n)
    BY <2>1 DEF Sending, Frames, Given, Streamed, DetectingOf, SeenAlone
  <2>3. Failed' = Failed
    BY <2>1 DEF Failed, Status, Tasks, Given
  <2> QED BY <2>1, <2>2, <2>3 DEF Evidence, Undisturbed
<1> QED BY <1>1, <1>2, <1>3 DEF Next

\* Of a camera whose reader is over, or was never there, every frame was put.
LEMMA AllPut ==
  ASSUME Inv, clip \in Clips, NEW c \in Camera, sent[c] \in Nat, Sending(c),
         c \in Given => reader[c].st = "done"
  PROVE  Inferred(c) = FirstFrames(sent[c])
<1> DEFINE at == reader[c].at
           m == sent[c]
<1>1. at \in Nat /\ m \in Nat
  BY DEF Inv, TypeOK, ReaderOK
<1>2. at <= m * Stride /\ (m - 1) * Stride < at
  BY DEF Sending
<1> HIDE DEF at, m
<1>3. (at + Stride - 1) \div Stride = m
  <2>1. CASE Stride = 1
    BY <1>1, <1>2, <2>1
  <2>2. CASE Stride = 2
    BY <1>1, <1>2, <2>2
  <2> QED BY <2>1, <2>2, StrideIs
<1> QED BY <1>3 DEF Inferred, FirstFrames, at, m

\* Both cameras, one after the other, show what each shows alone.
LEMMA SequentialOwn ==
  ASSUME clip \in Clips, NEW p \in Seq(FrameNumbers(clip, "top")),
         NEW q \in Seq(FrameNumbers(clip, "side"))
  PROVE  LET top  == SeenOfVideo(NothingSeen, "top", p, clip)
             both == SeenOfVideo(top, "side", q, clip)
         IN /\ both \in SeenSet
            /\ Own(both, "top") = Own(top, "top")
            /\ Own(both, "side") = Own(SeenOfVideo(NothingSeen, "side", q, clip), "side")
<1> DEFINE top  == SeenOfVideo(NothingSeen, "top", p, clip)
           both == SeenOfVideo(top, "side", q, clip)
<1>1. clip.frames \in [Camera -> Seq(Seq(Detection))] /\ NothingSeen \in SeenSet
      /\ "top" \in Camera /\ "side" \in Camera /\ "top" # "side"
  BY ClipIs, NothingSeenIs DEF Camera
<1>2. top \in SeenSet
  BY <1>1, SeenType
<1>3. \A d \in Camera \ {"top"} : Own(top, d) = Own(NothingSeen, d)
  BY <1>1, SeenLeavesOther
<1> HIDE DEF top
<1>4. both \in SeenSet
  BY <1>1, <1>2, SeenType
<1>5. \A d \in Camera \ {"side"} : Own(both, d) = Own(top, d)
  BY <1>1, <1>2, SeenLeavesOther
<1>6. Own(top, "side") = Own(NothingSeen, "side") =>
        Own(both, "side") = Own(SeenOfVideo(NothingSeen, "side", q, clip), "side")
  BY <1>1, <1>2, SeenOwn
<1> HIDE DEF both
<1>7. Own(both, "top") = Own(top, "top") /\ Own(top, "side") = Own(NothingSeen, "side")
  BY <1>1, <1>3, <1>5
<1> QED BY <1>4, <1>6, <1>7 DEF top, both

\* What was gathered is what the two videos show, one after the other.
LEMMA GatheredIsSequential ==
  ASSUME Inv, Marks, Evidence
  PROVE  SameAsSequential
<1> SUFFICES ASSUME main = "returned" PROVE SameAsSequential
  BY DEF SameAsSequential
<1>1. queue = <<>> /\ DOMAIN queue = {}
  BY NothingLeft, EmptySeq, LenProperties
<1>2. \A t \in Tasks : Status(t) = "done"
  BY DEF Inv, TasksEnded
<1>3. Undisturbed
  BY <1>2 DEF Undisturbed, Failed
<1>4. clip \in Clips /\ sent \in [Camera -> Nat] /\ seen \in SeenSet
      /\ (\A c \in Camera : Sending(c)) /\ (\A c \in Camera : \E n \in Nat : Streamed(c, n))
  BY <1>3 DEF Evidence
<1>5. ASSUME NEW c \in Camera
      PROVE  /\ Inferred(c) = FirstFrames(sent[c]) /\ sent[c] \in Nat
             /\ FirstFrames(sent[c]) \in Seq(FrameNumbers(clip, c))
             /\ Len(FirstFrames(sent[c])) = sent[c]
             /\ Own(seen, c) = Own(SeenAlone(c, sent[c]), c)
  <2>1. sent[c] \in Nat /\ Sending(c)
    BY <1>4
  <2>2. c \in Given => reader[c].st = "done"
    BY <1>2 DEF Tasks, Status, Camera
  <2>3. Inferred(c) = FirstFrames(sent[c])
    BY <1>4, <2>1, <2>2, AllPut
  <2>4. \A j \in 0..sent[c] - 1 : j * Stride \in FrameNumbers(clip, c)
    <3> SUFFICES ASSUME NEW j \in 0..sent[c] - 1 PROVE j * Stride \in FrameNumbers(clip, c)
      OBVIOUS
    <3>1. j \in Nat /\ j < sent[c]
      BY <2>1
    <3> QED BY <1>4, <2>1, <3>1, FrameIsThere
  <2>5. FirstFrames(sent[c]) \in Seq(FrameNumbers(clip, c)) /\ Len(FirstFrames(sent[c])) = sent[c]
    BY <2>1, <2>4, FirstFramesAre
  <2>6. PICK n \in Nat : Streamed(c, n)
    BY <1>4
  <2>7. ~DetectingOf(c)
    <3>1. CASE "yolo" \in Tasks
      BY <1>2, <3>1 DEF DetectingOf, Status
    <3>2. CASE "yolo" \notin Tasks
      <4>1. sent[c] = 0
        <5>1. reader[c].st = "absent" /\ reader[c].at = 0
          BY <2>1, <3>2 DEF Sending, Tasks
        <5>2. sent[c] = 0 \/ sent[c] - 1 >= 0
          BY <2>1
        <5>3. (sent[c] - 1) * Stride < 0
          BY <2>1, <5>1 DEF Sending
        <5>4. CASE Stride = 1
          BY <2>1, <5>2, <5>3, <5>4
        <5>5. CASE Stride = 2
          BY <2>1, <5>2, <5>3, <5>5
        <5> QED BY <5>4, <5>5, StrideIs
      <4>2. DetectingOf(c) => n + 1 <= sent[c]
        BY <2>6 DEF Streamed
      <4> QED BY <2>6, <4>1, <4>2
    <3> QED BY <3>1, <3>2
  <2>8. n = sent[c]
    <3> SUFFICES ASSUME n < sent[c] PROVE FALSE
      BY <2>1, <2>6, <2>7 DEF Streamed
    <3>1. n \in n..sent[c] - 1
      BY <2>1, <2>6
    <3>2. \E i \in DOMAIN queue : queue[i].frame = n * Stride
      BY <2>6, <2>7, <3>1 DEF Streamed
    <3> QED BY <1>1, <3>2
  <2>9. Own(seen, c) = Own(SeenAlone(c, sent[c]), c)
    BY <2>6, <2>8 DEF Streamed
  <2> QED BY <2>1, <2>3, <2>5, <2>9
<1> DEFINE p == FirstFrames(sent["top"])
           q == FirstFrames(sent["side"])
           both == SeenOfVideo(SeenOfVideo(NothingSeen, "top", p, clip), "side", q, clip)
<1>6. /\ p \in Seq(FrameNumbers(clip, "top")) /\ q \in Seq(FrameNumbers(clip, "side"))
      /\ Len(p) = sent["top"] /\ Len(q) = sent["side"]
      /\ Inferred("top") = p /\ Inferred("side") = q
  BY <1>5 DEF Camera
<1>7. both \in SeenSet /\ \A c \in Camera : Own(seen, c) = Own(both, c)
  <2>1. /\ both \in SeenSet
        /\ Own(both, "top") = Own(SeenOfVideo(NothingSeen, "top", p, clip), "top")
        /\ Own(both, "side") = Own(SeenOfVideo(NothingSeen, "side", q, clip), "side")
    BY <1>4, <1>6, SequentialOwn
  <2>2. /\ Own(seen, "top") = Own(SeenOfVideo(NothingSeen, "top", p, clip), "top")
        /\ Own(seen, "side") = Own(SeenOfVideo(NothingSeen, "side", q, clip), "side")
    BY <1>5 DEF Camera, SeenAlone
  <2> HIDE DEF both
  <2> QED BY <2>1, <2>2 DEF Camera
<1> DEFINE want == Result(both, sent["top"] + sent["side"], clip.allowed)
<1>8. Sequential(clip, [c \in Camera |-> Inferred(c)]) = want
  BY <1>6 DEF Sequential, Camera
<1>9. /\ Answer.votes = want.votes /\ Answer.misplaced = want.misplaced
      /\ {Strength(v) : v \in Answer.weak} = {Strength(v) : v \in want.weak}
  <2>1. Vision.rescue_max_candidates \in Nat
    BY VideoAssumption
  <2> DEFINE frames == sent["top"] + sent["side"]
             allowed == clip.allowed
  <2> HIDE DEF p, q, both, want, frames, allowed
  <2>2. LET a == Result(seen, frames, allowed)
            b == Result(both, frames, allowed)
        IN /\ a.votes = b.votes /\ a.misplaced = b.misplaced
           /\ {Strength(v) : v \in a.weak} = {Strength(v) : v \in b.weak}
    BY <1>4, <1>7, <2>1, SameResult, SMTT(60)
  <2> QED BY <2>2 DEF Answer, want, frames, allowed
<1> HIDE DEF want
<1> QED BY <1>8, <1>9 DEF SameAsSequential, Strength

\* THEOREM: the candidates an analysis returns do not depend on how the frames
\* of its two videos interleaved; they are those of one video after the other.
THEOREM InterleavingIsImmaterial == Spec => []SameAsSequential
  <1>1. Inv /\ Marks /\ Evidence => SameAsSequential
    BY GatheredIsSequential
  <1> QED
    BY <1>1, InitInv, InvStep, InitMarks, MarksStep, InitEvidence, EvidenceStep, PTL DEF Spec
=============================================================================
