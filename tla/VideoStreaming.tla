---------------------------- MODULE VideoStreaming ----------------------------
(***************************************************************************)
(* One analysis of a trigger's videos: process_videos_async of             *)
(* video/video_processor.py.  An extractor per camera puts frames in a     *)
(* bounded queue and, at its end, an EOF mark; one inference loop takes    *)
(* them; the caller waits for the tasks, cancels the others at the first   *)
(* error, and turns what was gathered into candidates.  The tasks run on   *)
(* one event loop: a step here is what a task does between two awaits.     *)
(*                                                                         *)
(*   clip    the videos, weight change and active products of the trigger  *)
(*   reader  per camera, the extraction task: st its place, at the number  *)
(*           of frames decoded, end how it ends once its EOF is put        *)
(*   queue   frame_queue: [camera, frame], frame -1 for EOF                *)
(*   yolo    the inference loop: its place, the frame it infers, the EOFs  *)
(*   seen    what was gathered (see VideoEvidence)                         *)
(*   sent    per camera, the frames put in the queue                       *)
(*   main    the caller                                                    *)
(*   cancel  tasks with a cancellation they have not yet met               *)
(*                                                                         *)
(* A cancellation meets a task at its await.  wait_for may swallow it when *)
(* the frame has just arrived (Python before 3.12).                        *)
(***************************************************************************)
EXTENDS VideoEvidence

CONSTANTS
  Clips,      \* clips that may be given
  QueueSize,  \* async_streaming.frame_queue_size
  Stride,     \* async_streaming.frame_stride
  Faults      \* what may go wrong: "open", "read", "short", "detect", "cancel"

ASSUME VideoAssumption ==
  /\ \A k \in Clips : /\ k.given \in [Camera -> BOOLEAN]
                      /\ k.frames \in [Camera -> Seq(Seq(Detection))]
  /\ Vision.rescue_max_candidates \in Nat
  /\ QueueSize \in Nat \ {0}
  /\ Stride \in {1, 2}
  /\ Faults \subseteq {"open", "read", "short", "detect", "cancel"}

VARIABLES clip, reader, queue, yolo, seen, sent, main, cancel

vars == <<clip, reader, queue, yolo, seen, sent, main, cancel>>

Eof == -1

\* Cameras with a path.
Given == {c \in Camera : clip.given[c]}

\* No path, no task.
Tasks == IF Given = {} THEN {} ELSE Given \cup {"yolo"}

Status(t) == IF t = "yolo" THEN yolo.st ELSE reader[t].st

Over == {"done", "failed", "cancelled"}

Running == {t \in Tasks : Status(t) \notin Over}

Failed == {t \in Tasks : Status(t) = "failed"}

Ended == {"returned", "raised", "cancelled"}

\* Without a path there is nothing to do.
Init ==
  /\ clip \in Clips
  /\ reader = [c \in Camera |->
                 [st |-> IF clip.given[c] THEN "opening" ELSE "absent", at |-> 0, end |-> "none"]]
  /\ queue = <<>>
  /\ yolo = [st |-> "waiting", frame |-> 0, camera |-> "top", eofs |-> 0]
  /\ seen = NothingSeen
  /\ sent = [c \in Camera |-> 0]
  /\ main = IF Given = {} THEN "returned" ELSE "watching"
  /\ cancel = {}

-----------------------------------------------------------------------------
(* extract_frames *)

Awake(t) == t \in Tasks \ cancel

MoveReader(c, st, at, end) ==
  reader' = [reader EXCEPT ![c] = [st |-> st, at |-> at, end |-> end]]

Open(c) ==
  /\ reader[c].st = "opening" /\ Awake(c)
  /\ MoveReader(c, "reading", 0, "none")
  /\ UNCHANGED <<clip, queue, yolo, seen, sent, main, cancel>>

\* Without ffmpeg the extractor cannot be iterated: the task ends before its
\* try, and puts no EOF.
OpenFails(c) ==
  /\ "open" \in Faults
  /\ reader[c].st = "opening" /\ Awake(c)
  /\ MoveReader(c, "failed", 0, "none")
  /\ UNCHANGED <<clip, queue, yolo, seen, sent, main, cancel>>

Frames(c) == clip.frames[c]

\* Mistake: frame 0 is skipped.
NotSkippedFromOne(n) == (n + 1) % Stride = 0

\* Frame n is put, not skipped by the stride.
NotSkipped(n) == n % Stride = 0

\* A skipped frame leaves the task at its next read.
Read(c) ==
  /\ reader[c].st = "reading" /\ Awake(c)
  /\ reader[c].at < Len(Frames(c))
  /\ MoveReader(c, IF NotSkipped(reader[c].at) THEN "putting" ELSE "reading",
                reader[c].at + 1, "none")
  /\ UNCHANGED <<clip, queue, yolo, seen, sent, main, cancel>>

\* The last frame is read, or ffmpeg breaks off in the middle, which the
\* extractor swallows.  No frame at all where some were expected is an error.
EndOfVideo(c) ==
  /\ reader[c].st = "reading" /\ Awake(c)
  /\ \/ reader[c].at = Len(Frames(c))
     \/ "short" \in Faults /\ reader[c].at > 0
  /\ MoveReader(c, "closing", reader[c].at,
                IF reader[c].at = 0 /\ clip.expected[c] THEN "failed" ELSE "done")
  /\ UNCHANGED <<clip, queue, yolo, seen, sent, main, cancel>>

\* An error of the retry, or of what is recorded with a frame.
ReadFails(c) ==
  /\ "read" \in Faults
  /\ reader[c].st = "reading" /\ Awake(c)
  /\ MoveReader(c, "closing", reader[c].at, "failed")
  /\ UNCHANGED <<clip, queue, yolo, seen, sent, main, cancel>>

Room == Len(queue) < QueueSize

Put(c) ==
  /\ reader[c].st = "putting" /\ Awake(c) /\ Room
  /\ queue' = Append(queue, [camera |-> c, frame |-> reader[c].at - 1])
  /\ sent' = [sent EXCEPT ![c] = @ + 1]
  /\ MoveReader(c, "reading", reader[c].at, "none")
  /\ UNCHANGED <<clip, yolo, seen, main, cancel>>

\* The finally of the task: EOF, whatever happened.
PutEof(c) ==
  /\ reader[c].st = "closing" /\ Awake(c) /\ Room
  /\ queue' = Append(queue, [camera |-> c, frame |-> Eof])
  /\ MoveReader(c, reader[c].end, reader[c].at, reader[c].end)
  /\ UNCHANGED <<clip, yolo, seen, sent, main, cancel>>

\* A cancelled task still has its EOF to put; cancelled there, or before it
\* began, it ends.
CancelReader(c) ==
  /\ c \in cancel
  /\ MoveReader(c, IF reader[c].st \in {"reading", "putting"} THEN "closing" ELSE "cancelled",
                reader[c].at, "cancelled")
  /\ cancel' = cancel \ {c}
  /\ UNCHANGED <<clip, queue, yolo, seen, sent, main>>

-----------------------------------------------------------------------------
(* yolo_inference_loop *)

AllEofs(n) == n = Cardinality(Given)

\* A frame just taken makes wait_for forget a cancellation.
Take ==
  /\ yolo.st = "waiting" /\ "yolo" \in Tasks /\ queue # <<>>
  /\ queue' = Tail(queue)
  /\ yolo' = IF Head(queue).frame = Eof
             THEN [yolo EXCEPT !.st = IF AllEofs(yolo.eofs + 1) THEN "done" ELSE "waiting",
                               !.eofs = @ + 1]
             ELSE [yolo EXCEPT !.st = "detecting", !.frame = Head(queue).frame,
                               !.camera = Head(queue).camera]
  /\ cancel' = cancel \ {"yolo"}
  /\ UNCHANGED <<clip, reader, seen, sent, main>>

Detect ==
  /\ yolo.st = "detecting" /\ Awake("yolo")
  /\ seen' = AddFrame(seen, yolo.camera, yolo.frame, clip)
  /\ yolo' = [yolo EXCEPT !.st = "waiting"]
  /\ UNCHANGED <<clip, reader, queue, sent, main, cancel>>

DetectFails ==
  /\ "detect" \in Faults
  /\ yolo.st = "detecting" /\ Awake("yolo")
  /\ yolo' = [yolo EXCEPT !.st = "failed"]
  /\ UNCHANGED <<clip, reader, queue, seen, sent, main, cancel>>

\* Mistake: the loop waits for a frame for ever.
NoPatience == FALSE

\* No frame for 60 seconds.
OutOfPatience == queue = <<>>

QueueTimeout ==
  /\ yolo.st = "waiting" /\ Awake("yolo") /\ OutOfPatience
  /\ yolo' = [yolo EXCEPT !.st = "failed"]
  /\ UNCHANGED <<clip, reader, queue, seen, sent, main, cancel>>

CancelYolo ==
  /\ "yolo" \in cancel
  /\ yolo' = [yolo EXCEPT !.st = "cancelled"]
  /\ cancel' = cancel \ {"yolo"}
  /\ UNCHANGED <<clip, reader, queue, seen, sent, main>>

-----------------------------------------------------------------------------
(* The caller *)

Asked(t) == t \in Running

\* The first error cancels every task that still runs, once.
SeeError ==
  /\ main = "watching" /\ Failed # {}
  /\ main' = "draining"
  /\ cancel' = {t \in Tasks : Asked(t)}
  /\ UNCHANGED <<clip, reader, queue, yolo, seen, sent>>

\* Errors are raised when every task is over.
Raise ==
  /\ main = "draining" /\ Running = {}
  /\ main' = "raised"
  /\ UNCHANGED <<clip, reader, queue, yolo, seen, sent, cancel>>

\* Mistake: an error of a task is not looked for.
FineIfOver == Running = {}

Fine == Running = {} /\ Failed = {}

\* The answer, once main has returned: nothing changes any more.
Answer == Result(seen, sent["top"] + sent["side"], clip.allowed)

Return ==
  /\ main = "watching" /\ Fine
  /\ main' = "returned"
  /\ UNCHANGED <<clip, reader, queue, yolo, seen, sent, cancel>>

\* stop_worker cancels the worker that awaits the analysis.
Interrupt ==
  /\ "cancel" \in Faults
  /\ main \in {"watching", "draining"}
  /\ main' = "gathering"
  /\ cancel' = Running
  /\ UNCHANGED <<clip, reader, queue, yolo, seen, sent>>

Gathered ==
  /\ main = "gathering" /\ Running = {}
  /\ main' = "cancelled"
  /\ UNCHANGED <<clip, reader, queue, yolo, seen, sent, cancel>>

-----------------------------------------------------------------------------

Extraction(c) ==
  Open(c) \/ OpenFails(c) \/ Read(c) \/ EndOfVideo(c) \/ ReadFails(c)
          \/ Put(c) \/ PutEof(c) \/ CancelReader(c)

Inference == Take \/ Detect \/ DetectFails \/ QueueTimeout \/ CancelYolo

Caller == SeeError \/ Raise \/ Return \/ Interrupt \/ Gathered

Next == (\E c \in Camera : Extraction(c)) \/ Inference \/ Caller

Spec == Init /\ [][Next]_vars

\* What the event loop, the detector and the timer do in the end.  ffmpeg may
\* hang: reads are not among it.
Progress ==
  \/ \E c \in Camera : Open(c) \/ Put(c) \/ PutEof(c) \/ CancelReader(c)
  \/ Take \/ Detect \/ QueueTimeout \/ CancelYolo
  \/ SeeError \/ Raise \/ Return \/ Gathered

\* The loop stops only where it has nothing left to run.
FairSpec == Spec /\ WF_vars(Progress)

-----------------------------------------------------------------------------
(* Properties *)

Places == Over \cup {"absent", "opening", "reading", "putting", "closing"}

\* A task in its finally knows how it will end.
ReaderOK ==
  /\ reader \in [Camera -> [st : Places, at : Nat, end : Over \cup {"none"}]]
  /\ \A c \in Camera : reader[c].st = "closing" => reader[c].end # "none"

YoloOK ==
  yolo \in [st : Over \cup {"waiting", "detecting"}, frame : Int, camera : Camera, eofs : Nat]

\* The values the variables of an analysis may have.
TypeOK ==
  /\ ReaderOK
  /\ queue \in Seq([camera : Camera, frame : Int])
  /\ YoloOK
  /\ main \in Ended \cup {"watching", "draining", "gathering"}
  /\ cancel \subseteq Camera \cup {"yolo"}

\* While the caller watches nobody is cancelled; what it returned is final.
Quiet ==
  /\ main \in {"watching", "returned"} => cancel = {}
  /\ main = "watching" =>
       /\ yolo.st # "cancelled"
       /\ \A c \in Camera : "cancelled" \notin {reader[c].st, reader[c].end}

\* Numbers of the frames of camera c that were decoded and not skipped.
Inferred(c) == [k \in 1..((reader[c].at + Stride - 1) \div Stride) |-> (k - 1) * Stride]

\* However the two videos' frames interleave in the queue, the candidates are
\* those of inferring one video after the other, in the order of their frames
\* (process_videos).  Of weak candidates of equal strength another may be first,
\* and so be the one that is left when there are too many.
SameAsSequential ==
  main = "returned" =>
    LET want == Sequential(clip, [c \in Camera |-> Inferred(c)])
        Strengths(S) == {<<v.cameras, v.votes, v.best>> : v \in S}
    IN /\ Answer.votes = want.votes
       /\ Answer.misplaced = want.misplaced
       /\ Strengths(Answer.weak) = Strengths(want.weak)

\* An analysis never returns candidates, none of them included, when one of
\* its tasks failed or was cancelled or a frame was not inferred: every task
\* has then come to its own end and the queue is empty.
FailClosed ==
  main = "returned" => queue = <<>> /\ \A t \in Tasks : Status(t) = "done"

\* An analysis ends, whatever fails and even if ffmpeg hangs, except where an
\* extractor waits for room in a full queue that nobody empties any more.
EndsOrQueueFull ==
  <>(main \in Ended \/ (yolo.st \in Over /\ Len(queue) = QueueSize))

\* The failure of a task reaches the caller, as an error of the analysis.
FailureIsRaised == (Failed # {}) ~> (main \in {"raised", "cancelled"})
=============================================================================
