---------------------------- MODULE TriggerPipeline ----------------------------
(***************************************************************************)
(* The trigger pipeline (service/trigger_service.py): upload requests,     *)
(* the bounded queue, the single worker and its video processing, the      *)
(* duplicate cache and the loadcell events, on top of DoorSessionStore and *)
(* of the door polls of api/routes/multi_zone.py.                          *)
(*                                                                         *)
(*   issued     number of session ids generated so far                     *)
(*   zoneOf     zone of the request an id was generated for                *)
(*   home       the visit that was open when the request came, 0 if none   *)
(*   queue      _queue: ids waiting for the worker                         *)
(*   worker     where _worker_loop is and the item it holds                *)
(*   event      state of the LoadcellEvent of an id, "none" without one    *)
(*   status     SessionData.status of an id, "none" before it is saved     *)
(*   suspended  requests inside an await of their own handler              *)
(*   dedup      the duplicate cache (module DedupCache)                    *)
(*                                                                         *)
(* All of it runs on one asyncio event loop.  A handler is a sequence of   *)
(* atomic steps that ends at each await: the one-second wait for a return  *)
(* to settle, the video of a low-weight request, queue.get and the video   *)
(* of the worker.  wait_for runs queue.get in a task of its own, so that   *)
(* an item leaves the queue one step before the worker resumes with it.    *)
(*                                                                         *)
(* Loadcell samples are abstracted to the class enqueue_trigger puts them  *)
(* in (Readings); which queued removals a return matches, whether a repeat *)
(* is recognised and how the video and the engine decide is left open.     *)
(***************************************************************************)
EXTENDS DoorSessionStore, DedupCache, Sequences

CONSTANTS
  ClipZone,           \* [Clip -> Zone]: the zone a clip is uploaded for
  Readings,           \* classes of loadcell readings that occur
  QueueMax,           \* QUEUE_MAX_SIZE
  BalancedCancel,     \* balanced_event_cancel_enabled
  CooperativeCancel,  \* cooperative_cancel_enabled
  OperatorFinalize,   \* the finalize endpoint of a zone is used
  TraceCanFail        \* writing a trace file may raise

ReadingClass == {"removal", "repeat", "return", "unstable_return",
                 "unstable_removal", "low_weight"}

ASSUME PipelineAssumption ==
  /\ ClipZone \in [Clip -> Zone]
  /\ Readings \subseteq ReadingClass
  /\ QueueMax \in Nat \ {0}
  /\ BalancedCancel \in BOOLEAN /\ CooperativeCancel \in BOOLEAN
  /\ OperatorFinalize \in BOOLEAN /\ TraceCanFail \in BOOLEAN

VARIABLES issued, zoneOf, home, queue, worker, event, status, suspended, dedup

requestVars == <<issued, zoneOf, home>>
workVars == <<queue, worker>>
pipelineVars == <<requestVars, workVars, event, status, suspended, dedup>>
vars == <<storeVars, pipelineVars>>

EventState == {"none", "queued", "processing", "waiting", "complete", "error",
               "return_only", "balanced_out", "cancelled_by_return"}
SessionStatus == {"none", "processing", "waiting", "complete", "error"}
Suspension == [sid : Sid, clip : Clip, in : {"settling", "video"}]
IdleWorker == [pc |-> "idle", item |-> 0]

Init ==
  /\ StoreInit
  /\ issued = 0
  /\ zoneOf = [s \in Sid |-> CHOOSE z \in Zone : TRUE]
  /\ home = [s \in Sid |-> 0]
  /\ queue = <<>>
  /\ worker = IdleWorker
  /\ event = [s \in Sid |-> "none"]
  /\ status = [s \in Sid |-> "none"]
  /\ suspended = {}
  /\ dedup = EmptyCache

-----------------------------------------------------------------------------
(* Who holds what *)

Queued == {queue[i] : i \in DOMAIN queue}

AtWorker == IF worker.pc \in {"got", "video"} THEN {worker.item} ELSE {}

Held == Queued \cup AtWorker

\* Removals that may still end up in a basket.
InFlight == {s \in Held : event[s] # "cancelled_by_return"}

InBaskets == TriggersIn(Zone)

-----------------------------------------------------------------------------
(* Requests *)

\* The common head of enqueue_trigger: the lookup misses and an id is issued.
\* What is left of the cache is passed on as d.
Accepted(r, c, d) ==
  /\ r \in Readings
  /\ issued < MaxTriggers
  /\ d \in LookedUp(dedup)
  /\ c \notin DOMAIN d
  /\ issued' = issued + 1
  /\ zoneOf' = [zoneOf EXCEPT ![issued + 1] = ClipZone[c]]
  /\ home' = [home EXCEPT ![issued + 1] = IF global.open THEN visit ELSE 0]

NewStatus(st) == status' = [status EXCEPT ![issued + 1] = st]
NewEvent(st) == event' = [event EXCEPT ![issued + 1] = st]

\* Answered with the session id of an earlier request.
DuplicateRequest(c) ==
  \E d \in LookedUp(dedup) :
    /\ c \in DOMAIN d
    /\ dedup' = d
    /\ UNCHANGED <<storeVars, requestVars, workVars, event, status, suspended>>

\* Missing video files, or a repeat removal whose trace cannot be written:
\* nothing is saved and the id is not used again.
InvalidRequest(c) ==
  \E d \in LookedUp(dedup) :
    /\ c \notin DOMAIN d
    /\ dedup' = d
    /\ UNCHANGED <<storeVars, requestVars, workVars, event, status, suspended>>

\* A return that has not settled: _stabilize_return_delta sleeps, then ...
UnstableReturn(c) ==
  \E d \in LookedUp(dedup) :
    /\ Accepted("unstable_return", c, d)
    /\ suspended' = suspended \cup {[sid |-> issued + 1, clip |-> c, in |-> "settling"]}
    /\ dedup' = d
    /\ UNCHANGED <<storeVars, workVars, event, status>>

\* ... analyses the same samples again, so the request ends as waiting, and is
\* not registered as seen.
ReturnStillUnstable(w) ==
  /\ w.in = "settling"
  /\ suspended' = suspended \ {w}
  /\ status' = [status EXCEPT ![w.sid] = "waiting"]
  /\ UNCHANGED <<storeVars, requestVars, workVars, event, dedup>>

\* A removal that has not settled ends as waiting at once.  It notifies the
\* registry about a session that was never registered, and is registered as
\* seen.  When its trace cannot be written both are skipped.
UnstableRemoval(c) ==
  \E d \in LookedUp(dedup) :
    /\ Accepted("unstable_removal", c, d)
    /\ NewStatus("waiting")
    /\ \/ /\ pending' = Processed(pending, ClipZone[c], issued + 1)
          /\ dedup' = Registered(d, c, issued + 1)
       \/ /\ TraceCanFail
          /\ dedup' = d
          /\ UNCHANGED pending
    /\ UNCHANGED <<active, global, visit, bill, outcome, archived,
                   workVars, event, suspended>>

\* A low-weight request with video runs the detector in its own handler.
LowWeightVideo(c) ==
  \E d \in LookedUp(dedup) :
    /\ Accepted("low_weight", c, d)
    /\ NewStatus("processing")
    /\ suspended' = suspended \cup {[sid |-> issued + 1, clip |-> c, in |-> "video"]}
    /\ dedup' = d
    /\ UNCHANGED <<storeVars, workVars, event>>

LowWeightVideoDone(w) ==
  /\ w.in = "video"
  /\ suspended' = suspended \ {w}
  /\ status' = [status EXCEPT ![w.sid] = "complete"]
  /\ dedup' = Registered(dedup, w.clip, w.sid)
  /\ UNCHANGED <<storeVars, requestVars, workVars, event>>

\* Mistake: the handler reports the failure and carries on.
LowWeightVideoGoesOn(w) ==
  /\ w.in = "video"
  /\ status' = [status EXCEPT ![w.sid] = "error"]
  /\ UNCHANGED <<storeVars, requestVars, workVars, event, suspended, dedup>>

\* The detector fails; when the trace cannot be written either, or after a
\* run that succeeded, the session keeps the status it had.
LowWeightVideoFails(w) ==
  /\ w.in = "video"
  /\ suspended' = suspended \ {w}
  /\ \/ status' = [status EXCEPT ![w.sid] = "error"]
     \/ TraceCanFail /\ UNCHANGED status
  /\ UNCHANGED <<storeVars, requestVars, workVars, event, dedup>>

\* A low-weight request without video, or with the fallback switched off.
LowWeightSkip(c) ==
  \E d \in LookedUp(dedup) :
    /\ Accepted("low_weight", c, d)
    /\ NewStatus("complete")
    /\ dedup' = Registered(d, c, issued + 1)
    /\ UNCHANGED <<storeVars, workVars, event, suspended>>

\* A settled return goes into the basket of its zone without video ...
ReturnOnly(c) ==
  \E d \in LookedUp(dedup) :
    /\ Accepted("return", c, d)
    /\ NewEvent("return_only")
    /\ NewStatus("complete")
    /\ AddTriggerWithGlobal(ClipZone[c], issued + 1)
    /\ dedup' = Registered(d, c, issued + 1)
    /\ UNCHANGED <<pending, visit, bill, outcome, workVars, suspended>>

\* Removals a return may cancel: of any zone and any age, not yet started.
Cancellable == {s \in Sid : event[s] = "queued"}

\* What matched removals, in order, leave of the registry.
Skipped(reg, match) ==
  LET first == Processed(reg, zoneOf[match[1]], match[1])
  IN IF Len(match) = 1 THEN first
     ELSE Processed(first, zoneOf[match[2]], match[2])

\* Bound: a return matches at most two removals.
Matches == {<<s>> : s \in Cancellable}
             \cup {<<s, t>> : s \in Cancellable, t \in Cancellable}

\* ... unless its weight is that of removals still in the queue: then both
\* sides are cancelled and neither reaches a basket.
ReturnBalanced(c) ==
  \E d \in LookedUp(dedup), match \in Matches :
    LET cancelled == {match[i] : i \in DOMAIN match}
    IN /\ BalancedCancel
       /\ Cardinality(cancelled) = Len(match)
       /\ Accepted("return", c, d)
       /\ event' = [s \in Sid |-> IF s \in cancelled THEN "cancelled_by_return"
                                  ELSE IF s = issued + 1 THEN "balanced_out"
                                  ELSE event[s]]
       /\ NewStatus("complete")
       /\ pending' = Skipped(pending, match)
       /\ dedup' = Registered(d, c, issued + 1)
       /\ UNCHANGED <<active, global, visit, bill, outcome, archived,
                      workVars, suspended>>

\* A removal from a position whose product this visit already knows: charged
\* from the loadcell, past the queue and the registry.
RepeatRemoval(c) ==
  \E d \in LookedUp(dedup) :
    /\ Accepted("repeat", c, d)
    /\ \E s \in global.linked[ClipZone[c]] : event[s] # "return_only"
    /\ NewStatus("complete")
    /\ AddTriggerWithGlobal(ClipZone[c], issued + 1)
    /\ dedup' = Registered(d, c, issued + 1)
    /\ UNCHANGED <<pending, visit, bill, outcome, workVars, event, suspended>>

\* Any other removal is registered and queued for the worker.
EnqueueRemoval(c) ==
  \E d \in LookedUp(dedup) :
    /\ Accepted("removal", c, d)
    /\ Len(queue) < QueueMax
    /\ NewStatus("processing")
    /\ NewEvent("queued")
    /\ pending' = Enqueued(pending, ClipZone[c], issued + 1)
    /\ global' = TriggerSeen(global)
    /\ queue' = Append(queue, issued + 1)
    /\ dedup' = Registered(d, c, issued + 1)
    /\ UNCHANGED <<active, visit, bill, outcome, archived, worker, suspended>>

\* A full queue: registered, refused, and taken out of the registry again,
\* unless the trace of the refusal cannot be written.
QueueFull(c) ==
  \E d \in LookedUp(dedup) :
    LET registered == Enqueued(pending, ClipZone[c], issued + 1)
    IN /\ Accepted("removal", c, d)
       /\ Len(queue) = QueueMax
       /\ NewEvent("error")
       /\ global' = TriggerSeen(global)
       /\ \/ /\ pending' = Processed(registered, ClipZone[c], issued + 1)
             /\ NewStatus("error")
          \/ /\ TraceCanFail
             /\ pending' = registered
             /\ NewStatus("processing")
       /\ dedup' = d
       /\ UNCHANGED <<active, visit, bill, outcome, archived, workVars, suspended>>

-----------------------------------------------------------------------------
(* The worker *)

\* queue.get takes the head; the worker resumes with it in a later step.
WorkerGet ==
  /\ worker.pc = "idle"
  /\ queue # <<>>
  /\ worker' = [pc |-> "got", item |-> Head(queue)]
  /\ queue' = Tail(queue)
  /\ UNCHANGED <<storeVars, requestVars, event, status, suspended, dedup>>

\* Mistake: the state of the return is looked for, not that of the removal.
SkipsBalancedItem == CooperativeCancel /\ event[worker.item] = "balanced_out"

SkipsItem == CooperativeCancel /\ event[worker.item] = "cancelled_by_return"

\* _process_trigger_internal up to the await of the video.  An event that is
\* already cancelled keeps its state.
WorkerStart ==
  /\ worker.pc = "got"
  /\ ~SkipsItem
  /\ event' = IF event[worker.item] = "cancelled_by_return" THEN event
              ELSE [event EXCEPT ![worker.item] = "processing"]
  /\ pending' = Marked(pending, zoneOf[worker.item], worker.item, "processing")
  /\ worker' = [worker EXCEPT !.pc = "video"]
  /\ UNCHANGED <<active, global, visit, bill, outcome, archived,
                 requestVars, queue, status, suspended, dedup>>

\* Mistake: the registry is not notified.
DoneUnnoticed(ev, st) ==
  /\ event' = [event EXCEPT ![worker.item] = ev]
  /\ status' = [status EXCEPT ![worker.item] = st]
  /\ worker' = IdleWorker
  /\ UNCHANGED <<pending, visit, bill, outcome, requestVars, queue, suspended, dedup>>

\* The end of an item: the registry is notified and the loop goes round.
Done(ev, st) ==
  /\ event' = [event EXCEPT ![worker.item] = ev]
  /\ status' = [status EXCEPT ![worker.item] = st]
  /\ pending' = Processed(pending, zoneOf[worker.item], worker.item)
  /\ worker' = IdleWorker
  /\ UNCHANGED <<visit, bill, outcome, requestVars, queue, suspended, dedup>>

\* A removal cancelled by a return is skipped, and notified a second time.
\* When its trace cannot be written the loop ends it as an error.
WorkerSkipsCancelled ==
  /\ worker.pc = "got"
  /\ SkipsItem
  /\ \/ Done("cancelled_by_return", "complete")
     \/ TraceCanFail /\ Done("error", "error")
  /\ UNCHANGED <<active, global, archived>>

\* Judged: into the basket.  When the trace cannot be written, the loop ends
\* as an error what is already in the basket.
WorkerCompletes ==
  /\ worker.pc = "video"
  /\ \/ Done("complete", "complete")
     \/ TraceCanFail /\ Done("error", "error")
  /\ AddTriggerWithGlobal(zoneOf[worker.item], worker.item)

\* Mistake: the result goes into the basket before the conflict is looked for.
WorkerKeepsConflict ==
  /\ worker.pc = "video"
  /\ Done("waiting", "waiting")
  /\ AddTriggerWithGlobal(zoneOf[worker.item], worker.item)

\* Video and loadcell disagree: the removal has not settled.
WorkerFindsConflict ==
  /\ worker.pc = "video"
  /\ Done("waiting", "waiting")
  /\ UNCHANGED <<active, global, archived>>

\* Mistake: the exception ends the loop.
WorkerErrsForGood ==
  /\ worker.pc = "video"
  /\ event' = [event EXCEPT ![worker.item] = "error"]
  /\ status' = [status EXCEPT ![worker.item] = "error"]
  /\ pending' = Processed(pending, zoneOf[worker.item], worker.item)
  /\ worker' = [pc |-> "dead", item |-> 0]
  /\ UNCHANGED <<active, global, archived, visit, bill, outcome,
                 requestVars, queue, suspended, dedup>>

\* An exception before the basket; also a conflict whose trace is not written.
WorkerErrs ==
  /\ worker.pc = "video"
  /\ Done("error", "error")
  /\ UNCHANGED <<active, global, archived>>

\* An exception after the video, and a trace that cannot be written in the
\* loop's own handler: the exception leaves the loop, and the task ends.
WorkerDies ==
  /\ worker.pc = "video"
  /\ TraceCanFail
  /\ event' = [event EXCEPT ![worker.item] = "error"]
  /\ worker' = [pc |-> "dead", item |-> 0]
  /\ UNCHANGED <<storeVars, requestVars, queue, status, suspended, dedup>>

-----------------------------------------------------------------------------
(* Door polls, cleanup and time *)

DoorOpens == GetOrStartGlobalSession /\ UNCHANGED pipelineVars

DoorCloses == HandleDoorClose /\ UNCHANGED pipelineVars

\* Offered by the service layer; the routes of the server poll without it.
PollZone(z) == GetOrFinalize(z) /\ UNCHANGED pipelineVars

OperatorFinalizes(z) ==
  OperatorFinalize /\ FinalizeSession(z) /\ UNCHANGED pipelineVars

Cleanup == (CleanupVisit \/ CleanupBaskets) /\ UNCHANGED pipelineVars

Tick ==
  /\ StoreTick
  /\ dedup' = Aged(dedup)
  /\ UNCHANGED <<requestVars, workVars, event, status, suspended>>

Request(c) ==
  \/ DuplicateRequest(c) \/ InvalidRequest(c)
  \/ UnstableReturn(c) \/ UnstableRemoval(c)
  \/ LowWeightVideo(c) \/ LowWeightSkip(c)
  \/ ReturnOnly(c) \/ ReturnBalanced(c)
  \/ RepeatRemoval(c) \/ EnqueueRemoval(c) \/ QueueFull(c)

Resume(w) == ReturnStillUnstable(w) \/ LowWeightVideoDone(w) \/ LowWeightVideoFails(w)

Worker == WorkerGet \/ WorkerStart \/ WorkerSkipsCancelled \/ WorkerCompletes
            \/ WorkerFindsConflict \/ WorkerErrs \/ WorkerDies

Next ==
  \/ \E c \in Clip : Request(c)
  \/ \E w \in suspended : Resume(w)
  \/ Worker
  \/ DoorOpens \/ DoorCloses \/ Cleanup
  \/ \E z \in Zone : PollZone(z) \/ OperatorFinalizes(z)
  \/ Tick

Spec == Init /\ [][Next]_vars

\* The event loop keeps running the worker and the suspended handlers, video
\* processing ends, the cabinet repeats CLOSE until it is answered, and time
\* passes.  Requests, OPEN, polls and cleanup are owed to nobody.
Fairness ==
  /\ WF_vars(Worker)
  /\ WF_vars(\E w \in suspended : Resume(w))
  /\ WF_vars(DoorCloses)
  /\ WF_vars(Tick)

FairSpec == Spec /\ Fairness

=============================================================================
