-------------------------- MODULE DoorPipelineProofs --------------------------
(***************************************************************************)
(* Type correctness of the pipeline and the store, for every value of the  *)
(* constants: first what the helpers on the registry, the cache and the    *)
(* store return, then one lemma per group of actions, then the step and    *)
(* the theorem.  After it, laid out in the same way, the proofs about the  *)
(* registry, the work it stands for and the answers, and about baskets and *)
(* bills: nothing is charged twice, nothing the worker finished is lost,   *)
(* nothing a return cancelled is charged, what is charged is what was      *)
(* answered, a bill is the whole bill of its own visit, and the pipeline   *)
(* implements DoorTransaction.                                             *)
(***************************************************************************)
EXTENDS PipelineProperties, TLAPS

\* A notification resolves to an entry that is in the registry, if to any
\* (_resolve_pending_trigger).
LEMMA ResolveInRegistry ==
  ASSUME NEW reg, NEW z, NEW s
  PROVE  Resolve(reg, z, s) \subseteq DOMAIN reg
BY DEF Resolve, Earliest, OfZone

\* Taking an entry out leaves a well-formed registry
\* (notify_trigger_processed).
LEMMA ProcessedRegistry ==
  ASSUME NEW reg, RegistryOK(reg), NEW z, NEW s
  PROVE  RegistryOK(Processed(reg, z, s))
BY ResolveInRegistry DEF Processed, RegistryOK

\* Setting the status of an entry leaves a well-formed registry
\* (notify_trigger_started).
LEMMA MarkedRegistry ==
  ASSUME NEW reg, RegistryOK(reg), NEW z, NEW s, NEW st \in PendingStatus
  PROVE  RegistryOK(Marked(reg, z, s, st))
BY DEF Marked, RegistryOK

\* Registering a trigger leaves a well-formed registry
\* (notify_trigger_enqueued).
LEMMA EnqueuedRegistry ==
  ASSUME NEW reg, RegistryOK(reg), NEW z \in Zone, NEW s \in Sid
  PROVE  RegistryOK(Enqueued(reg, z, s))
BY DEF Enqueued, RegistryOK, PendingStatus

\* A lookup only drops entries of the duplicate cache (_check_duplicate).
LEMMA LookedUpCache ==
  ASSUME NEW cache, CacheOK(cache), NEW d \in LookedUp(cache)
  PROVE  CacheOK(d)
BY DEF LookedUp, Kept, CacheOK

\* Registering a request leaves a well-formed cache (_register_request).
LEMMA RegisteredCache ==
  ASSUME NEW cache, CacheOK(cache), NEW c \in Clip, NEW s \in Sid
  PROVE  CacheOK(Registered(cache, c, s))
BY DedupAssumption DEF Registered, CacheOK

\* Time passing leaves a well-formed cache.
LEMMA AgedCache ==
  ASSUME NEW cache, CacheOK(cache)
  PROVE  CacheOK(Aged(cache))
BY DedupAssumption DEF Aged, CacheOK

\* Noting the time of a trigger neither opens nor ends a visit
\* (last_trigger_at).
LEMMA TriggerSeenTypes ==
  ASSUME NEW g \in GlobalSession
  PROVE  TriggerSeen(g) \in GlobalSession /\ TriggerSeen(g).open = g.open
<1>1. CASE g.open
  <2> DEFINE h == [g EXCEPT !.triggered = TRUE]
  <2>1. h \in GlobalSession /\ h.open = g.open
    BY DEF GlobalSession
  <2>2. 0 \in 0..SubsequentWait
    BY StoreAssumption
  <2>3. [h EXCEPT !.sinceTrigger = 0] \in GlobalSession
    BY <2>1, <2>2 DEF GlobalSession
  <2>4. TriggerSeen(g) = [h EXCEPT !.sinceTrigger = 0]
    BY <1>1 DEF TriggerSeen
  <2> QED BY <2>1, <2>3, <2>4 DEF GlobalSession
<1>2. CASE ~g.open
  BY <1>2 DEF TriggerSeen
<1> QED BY <1>1, <1>2

\* Linking a basket to the visit neither opens nor ends it (zone_sessions).
LEMMA LinkedTypes ==
  ASSUME NEW g \in GlobalSession, NEW z \in Zone, NEW T \in SUBSET Sid
  PROVE  /\ [g EXCEPT !.linked[z] = T] \in GlobalSession
         /\ [g EXCEPT !.linked[z] = T].open = g.open
<1>1. g.linked \in [Zone -> SUBSET Sid]
  BY DEF GlobalSession
<1>2. [g.linked EXCEPT ![z] = T] \in [Zone -> SUBSET Sid]
  BY <1>1
<1>3. [g EXCEPT !.linked[z] = T] = [g EXCEPT !.linked = [g.linked EXCEPT ![z] = T]]
  BY DEF GlobalSession
<1> QED BY <1>2, <1>3 DEF GlobalSession

\* Putting a trigger into the basket of its zone keeps the types of the store
\* and does not open or end a visit (add_trigger_with_global).
LEMMA AddTriggerTypes ==
  ASSUME StoreTypeOK, NEW z \in Zone, NEW s \in Sid, AddTriggerWithGlobal(z, s)
  PROVE  /\ active' \in [Zone -> Basket]
         /\ global' \in GlobalSession
         /\ global'.open = global.open
         /\ archived' \subseteq Sid
<1> USE StoreAssumption DEF StoreTypeOK
<1>1. Appended(z, s) \in Basket
  BY DEF Appended, Basket
<1>2. active' \in [Zone -> Basket]
  BY <1>1 DEF AddTriggerWithGlobal
<1>3. archived' \subseteq Sid
  BY DEF AddTriggerWithGlobal, Basket
<1>4. Appended(z, s).triggers \subseteq Sid
  BY <1>1 DEF Basket
<1>5. global' \in GlobalSession /\ global'.open = global.open
  <2>1. CASE global.open
    <3> DEFINE L == [global EXCEPT !.linked[z] = Appended(z, s).triggers]
    <3>1. L \in GlobalSession /\ L.open = global.open
      BY <1>4, LinkedTypes
    <3>2. global' = TriggerSeen(L)
      BY <2>1 DEF AddTriggerWithGlobal
    <3> HIDE DEF L
    <3> QED BY <3>1, <3>2, TriggerSeenTypes
  <2>2. CASE ~global.open
    BY <2>2 DEF AddTriggerWithGlobal
  <2> QED BY <2>1, <2>2
<1> QED BY <1>2, <1>3, <1>5

\* Finalizing the baskets of some zones keeps the types of the store
\* (_finalize_session_in_memory).
LEMMA FinalizeBasketsTypes ==
  ASSUME StoreTypeOK, NEW zones \in SUBSET Zone, FinalizeBaskets(zones)
  PROVE  active' \in [Zone -> Basket] /\ archived' \subseteq Sid
BY StoreAssumption DEF StoreTypeOK, FinalizeBaskets, NoBasket, Basket, TriggersIn

\* The absent visit is a closed one.
LEMMA NoGlobalTypes == NoGlobal \in GlobalSession /\ ~NoGlobal.open
BY StoreAssumption DEF NoGlobal, GlobalSession

\* A request that is let in gets an id within the bound, and both ways of
\* leaving the cache afterwards are well formed (the head of enqueue_trigger).
LEMMA AcceptedTypes ==
  ASSUME TypeOK, NEW r, NEW c \in Clip, NEW d \in LookedUp(dedup), Accepted(r, c, d)
  PROVE  /\ issued + 1 \in Sid
         /\ ClipZone[c] \in Zone
         /\ CacheOK(d)
         /\ CacheOK(Registered(d, c, issued + 1))
         /\ issued' \in 0..MaxTriggers
         /\ zoneOf' \in [Sid -> Zone]
         /\ home' \in [Sid -> 0..MaxVisits]
<1> USE StoreAssumption, PipelineAssumption
<1>1. issued + 1 \in Sid /\ ClipZone[c] \in Zone
  BY DEF TypeOK, Accepted, Sid
<1>2. CacheOK(d)
  BY LookedUpCache DEF TypeOK
<1>3. CacheOK(Registered(d, c, issued + 1))
  BY <1>1, <1>2, RegisteredCache
<1>4. issued' \in 0..MaxTriggers /\ zoneOf' \in [Sid -> Zone]
  BY <1>1 DEF TypeOK, Accepted, Sid
<1>5. home' \in [Sid -> 0..MaxVisits]
  BY <1>1 DEF TypeOK, StoreTypeOK, Accepted
<1> QED BY <1>1, <1>2, <1>3, <1>4, <1>5

\* The initial state has the types.
LEMMA InitTypes == Init => TypeOK
<1> SUFFICES ASSUME Init PROVE TypeOK
  OBVIOUS
<1> USE StoreAssumption, PipelineAssumption, DedupAssumption
<1>1. StoreTypeOK
  <2>1. RegistryOK(pending)
    BY DEF Init, StoreInit, EmptyRegistry, RegistryOK
  <2>2. active \in [Zone -> Basket]
    BY DEF Init, StoreInit, NoBasket, Basket
  <2>3. global \in GlobalSession /\ ~global.open
    BY NoGlobalTypes DEF Init, StoreInit
  <2> QED BY <2>1, <2>2, <2>3 DEF Init, StoreInit, StoreTypeOK
<1>2. CacheOK(dedup)
  BY DEF Init, EmptyCache, CacheOK
<1>3. zoneOf \in [Sid -> Zone]
  BY DEF Init
<1>4. queue \in Seq(Sid) /\ worker \in [pc : {"idle", "got", "video", "dead"}, item : 0..MaxTriggers]
  BY DEF Init, IdleWorker
<1> QED BY <1>1, <1>2, <1>3, <1>4
        DEF Init, TypeOK, IdleWorker, EventState, SessionStatus

\* A step that leaves the store alone keeps its types.
LEMMA StoreUnchangedTypes == StoreTypeOK /\ UNCHANGED storeVars => StoreTypeOK'
BY DEF StoreTypeOK, storeVars, RegistryOK

\* Every branch of enqueue_trigger keeps the types, one step per branch.
LEMMA RequestTypes ==
  ASSUME TypeOK, NEW c \in Clip, Request(c)
  PROVE  TypeOK'
<1> USE StoreAssumption, PipelineAssumption, DedupAssumption
<1>1. ASSUME NEW d \in LookedUp(dedup), dedup' = d,
             UNCHANGED <<storeVars, requestVars, workVars, event, status, suspended>>
      PROVE  TypeOK'
  <2>1. CacheOK(dedup')
    BY <1>1, LookedUpCache DEF TypeOK
  <2>2. StoreTypeOK'
    BY <1>1, StoreUnchangedTypes DEF TypeOK
  <2> QED BY <1>1, <2>1, <2>2 DEF TypeOK, requestVars, workVars, CacheOK
<1>2. CASE DuplicateRequest(c)
  BY <1>1, <1>2 DEF DuplicateRequest
<1>3. CASE InvalidRequest(c)
  BY <1>1, <1>3 DEF InvalidRequest
<1>4. CASE UnstableReturn(c)
  <2>1. PICK d \in LookedUp(dedup) : 
          /\ Accepted("unstable_return", c, d)
          /\ suspended' = suspended \cup {[sid |-> issued + 1, clip |-> c, in |-> "settling"]}
          /\ dedup' = d
          /\ UNCHANGED <<storeVars, workVars, event, status>>
    BY <1>4 DEF UnstableReturn
  <2>2. suspended' \subseteq Suspension
    BY <2>1, AcceptedTypes DEF TypeOK, Suspension
  <2>3. StoreTypeOK'
    BY <2>1, StoreUnchangedTypes DEF TypeOK
  <2> QED BY <2>1, <2>2, <2>3, AcceptedTypes DEF TypeOK, workVars, CacheOK
<1>5. CASE UnstableRemoval(c)
  <2>1. PICK d \in LookedUp(dedup) :
          /\ Accepted("unstable_removal", c, d)
          /\ NewStatus("waiting")
          /\ \/ /\ pending' = Processed(pending, ClipZone[c], issued + 1)
                /\ dedup' = Registered(d, c, issued + 1)
             \/ /\ TraceCanFail
                /\ dedup' = d
                /\ UNCHANGED pending
          /\ UNCHANGED <<active, global, visit, bill, outcome, archived,
                         workVars, event, suspended>>
    BY <1>5 DEF UnstableRemoval
  <2>2. RegistryOK(pending')
    BY <2>1, ProcessedRegistry DEF TypeOK, StoreTypeOK
  <2>3. CacheOK(dedup')
    BY <2>1, AcceptedTypes
  <2>4. status' \in [Sid -> SessionStatus]
    BY <2>1, AcceptedTypes DEF TypeOK, NewStatus, SessionStatus
  <2>5. StoreTypeOK'
    BY <2>1, <2>2 DEF TypeOK, StoreTypeOK, RegistryOK
  <2> QED BY <2>1, <2>3, <2>4, <2>5, AcceptedTypes DEF TypeOK, workVars, CacheOK
<1>6. CASE LowWeightVideo(c)
  <2>1. PICK d \in LookedUp(dedup) :
          /\ Accepted("low_weight", c, d)
          /\ NewStatus("processing")
          /\ suspended' = suspended \cup {[sid |-> issued + 1, clip |-> c, in |-> "video"]}
          /\ dedup' = d
          /\ UNCHANGED <<storeVars, workVars, event>>
    BY <1>6 DEF LowWeightVideo
  <2>2. suspended' \subseteq Suspension
    BY <2>1, AcceptedTypes DEF TypeOK, Suspension
  <2>3. status' \in [Sid -> SessionStatus]
    BY <2>1, AcceptedTypes DEF TypeOK, NewStatus, SessionStatus
  <2>4. StoreTypeOK'
    BY <2>1, StoreUnchangedTypes DEF TypeOK
  <2> QED BY <2>1, <2>2, <2>3, <2>4, AcceptedTypes DEF TypeOK, workVars, CacheOK
<1>7. CASE LowWeightSkip(c)
  <2>1. PICK d \in LookedUp(dedup) :
          /\ Accepted("low_weight", c, d)
          /\ NewStatus("complete")
          /\ dedup' = Registered(d, c, issued + 1)
          /\ UNCHANGED <<storeVars, workVars, event, suspended>>
    BY <1>7 DEF LowWeightSkip
  <2>2. status' \in [Sid -> SessionStatus]
    BY <2>1, AcceptedTypes DEF TypeOK, NewStatus, SessionStatus
  <2>3. StoreTypeOK'
    BY <2>1, StoreUnchangedTypes DEF TypeOK
  <2> QED BY <2>1, <2>2, <2>3, AcceptedTypes DEF TypeOK, workVars, CacheOK
<1>8. CASE ReturnOnly(c)
  <2>1. PICK d \in LookedUp(dedup) :
          /\ Accepted("return", c, d)
          /\ NewEvent("return_only")
          /\ NewStatus("complete")
          /\ AddTriggerWithGlobal(ClipZone[c], issued + 1)
          /\ dedup' = Registered(d, c, issued + 1)
          /\ UNCHANGED <<pending, visit, bill, outcome, workVars, suspended>>
    BY <1>8 DEF ReturnOnly
  <2>2. status' \in [Sid -> SessionStatus] /\ event' \in [Sid -> EventState]
    BY <2>1, AcceptedTypes DEF TypeOK, NewStatus, NewEvent, SessionStatus, EventState
  <2>3. StoreTypeOK'
    BY <2>1, AcceptedTypes, AddTriggerTypes DEF TypeOK, StoreTypeOK, RegistryOK
  <2> QED BY <2>1, <2>2, <2>3, AcceptedTypes DEF TypeOK, workVars, CacheOK
<1>9. CASE ReturnBalanced(c)
  <2>1. PICK d \in LookedUp(dedup), match \in Matches :
          /\ Accepted("return", c, d)
          /\ event' = [s \in Sid |-> IF s \in {match[i] : i \in DOMAIN match}
                                       THEN "cancelled_by_return"
                                     ELSE IF s = issued + 1 THEN "balanced_out"
                                     ELSE event[s]]
          /\ NewStatus("complete")
          /\ pending' = Skipped(pending, match)
          /\ dedup' = Registered(d, c, issued + 1)
          /\ UNCHANGED <<active, global, visit, bill, outcome, archived,
                         workVars, suspended>>
    BY <1>9 DEF ReturnBalanced
  <2>2. status' \in [Sid -> SessionStatus]
    BY <2>1, AcceptedTypes DEF TypeOK, NewStatus, SessionStatus
  <2>3. event' \in [Sid -> EventState]
    BY <2>1 DEF TypeOK, EventState
  <2>4. RegistryOK(pending')
    BY <2>1, ProcessedRegistry DEF TypeOK, StoreTypeOK, Skipped
  <2>5. StoreTypeOK'
    BY <2>1, <2>4 DEF TypeOK, StoreTypeOK, RegistryOK
  <2> QED BY <2>1, <2>2, <2>3, <2>5, AcceptedTypes DEF TypeOK, workVars, CacheOK
<1>10. CASE RepeatRemoval(c)
  <2>1. PICK d \in LookedUp(dedup) :
          /\ Accepted("repeat", c, d)
          /\ NewStatus("complete")
          /\ AddTriggerWithGlobal(ClipZone[c], issued + 1)
          /\ dedup' = Registered(d, c, issued + 1)
          /\ UNCHANGED <<pending, visit, bill, outcome, workVars, event, suspended>>
    BY <1>10 DEF RepeatRemoval
  <2>2. status' \in [Sid -> SessionStatus]
    BY <2>1, AcceptedTypes DEF TypeOK, NewStatus, SessionStatus
  <2>3. StoreTypeOK'
    BY <2>1, AcceptedTypes, AddTriggerTypes DEF TypeOK, StoreTypeOK, RegistryOK
  <2> QED BY <2>1, <2>2, <2>3, AcceptedTypes DEF TypeOK, workVars, CacheOK
<1>11. CASE EnqueueRemoval(c)
  <2>1. PICK d \in LookedUp(dedup) :
          /\ Accepted("removal", c, d)
          /\ NewStatus("processing")
          /\ NewEvent("queued")
          /\ pending' = Enqueued(pending, ClipZone[c], issued + 1)
          /\ global' = TriggerSeen(global)
          /\ queue' = Append(queue, issued + 1)
          /\ dedup' = Registered(d, c, issued + 1)
          /\ UNCHANGED <<active, visit, bill, outcome, archived, worker, suspended>>
    BY <1>11 DEF EnqueueRemoval
  <2>2. status' \in [Sid -> SessionStatus] /\ event' \in [Sid -> EventState]
    BY <2>1, AcceptedTypes DEF TypeOK, NewStatus, NewEvent, SessionStatus, EventState
  <2>3. RegistryOK(pending')
    BY <2>1, AcceptedTypes, EnqueuedRegistry DEF TypeOK, StoreTypeOK
  <2>4. StoreTypeOK'
    BY <2>1, <2>3, TriggerSeenTypes DEF TypeOK, StoreTypeOK, RegistryOK
  <2>5. queue' \in Seq(Sid)
    BY <2>1, AcceptedTypes DEF TypeOK
  <2> QED BY <2>1, <2>2, <2>4, <2>5, AcceptedTypes DEF TypeOK, CacheOK
<1>12. CASE QueueFull(c)
  <2> DEFINE registered == Enqueued(pending, ClipZone[c], issued + 1)
  <2>1. PICK d \in LookedUp(dedup) :
          /\ Accepted("removal", c, d)
          /\ NewEvent("error")
          /\ global' = TriggerSeen(global)
          /\ \/ /\ pending' = Processed(registered, ClipZone[c], issued + 1)
                /\ NewStatus("error")
             \/ /\ TraceCanFail
                /\ pending' = registered
                /\ NewStatus("processing")
          /\ dedup' = d
          /\ UNCHANGED <<active, visit, bill, outcome, archived, workVars, suspended>>
    BY <1>12 DEF QueueFull
  <2>2. status' \in [Sid -> SessionStatus] /\ event' \in [Sid -> EventState]
    BY <2>1, AcceptedTypes DEF TypeOK, NewStatus, NewEvent, SessionStatus, EventState
  <2>3. RegistryOK(registered)
    BY <2>1, AcceptedTypes, EnqueuedRegistry DEF TypeOK, StoreTypeOK
  <2>4. RegistryOK(pending')
    BY <2>1, <2>3, ProcessedRegistry
  <2>5. StoreTypeOK'
    BY <2>1, <2>4, TriggerSeenTypes DEF TypeOK, StoreTypeOK, RegistryOK
  <2> QED BY <2>1, <2>2, <2>5, AcceptedTypes DEF TypeOK, workVars, CacheOK
<1> QED
  BY <1>2, <1>3, <1>4, <1>5, <1>6, <1>7, <1>8, <1>9, <1>10, <1>11, <1>12 DEF Request

\* A request that resumes after its await keeps the types.
LEMMA ResumeTypes ==
  ASSUME TypeOK, NEW w \in suspended, Resume(w)
  PROVE  TypeOK'
<1> USE StoreAssumption, PipelineAssumption, DedupAssumption
<1>1. w.sid \in Sid /\ w.clip \in Clip
  BY DEF TypeOK, Suspension
<1>2. StoreTypeOK'
  BY StoreUnchangedTypes DEF TypeOK, Resume, ReturnStillUnstable,
                             LowWeightVideoDone, LowWeightVideoFails
<1>3. status' \in [Sid -> SessionStatus]
  BY <1>1 DEF TypeOK, SessionStatus, Resume, ReturnStillUnstable,
              LowWeightVideoDone, LowWeightVideoFails
<1>4. CacheOK(dedup')
  BY <1>1, RegisteredCache DEF TypeOK, Resume, ReturnStillUnstable,
                               LowWeightVideoDone, LowWeightVideoFails
<1>5. suspended' \subseteq Suspension
  BY DEF TypeOK, Resume, ReturnStillUnstable, LowWeightVideoDone, LowWeightVideoFails
<1> QED
  BY <1>2, <1>3, <1>4, <1>5
     DEF TypeOK, Resume, ReturnStillUnstable, LowWeightVideoDone, LowWeightVideoFails,
         requestVars, workVars, CacheOK

\* The end of an item keeps the types, whatever it did to the store before
\* (the finally of _worker_loop).
LEMMA DoneTypes ==
  ASSUME TypeOK, worker.pc \in {"got", "video"},
         NEW ev \in EventState, NEW st \in SessionStatus, Done(ev, st),
         active' \in [Zone -> Basket], global' \in GlobalSession,
         global'.open = global.open, archived' \subseteq Sid
  PROVE  TypeOK'
<1> USE StoreAssumption, PipelineAssumption, DedupAssumption
<1>1. RegistryOK(pending')
  BY ProcessedRegistry DEF TypeOK, StoreTypeOK, Done
<1>2. StoreTypeOK'
  BY <1>1 DEF TypeOK, StoreTypeOK, Done, RegistryOK
<1>3. event' \in [Sid -> EventState] /\ status' \in [Sid -> SessionStatus]
  BY DEF TypeOK, Done
<1>4. worker' \in [pc : {"idle", "got", "video", "dead"}, item : 0..MaxTriggers]
       /\ worker'.pc \notin {"got", "video"}
  BY DEF Done, IdleWorker
<1> QED BY <1>2, <1>3, <1>4 DEF TypeOK, Done, requestVars, CacheOK

\* Every step of the worker keeps the types.
LEMMA WorkerTypes ==
  ASSUME TypeOK, Worker
  PROVE  TypeOK'
<1> USE StoreAssumption, PipelineAssumption, DedupAssumption
<1> USE DEF EventState, SessionStatus
<1>1. CASE WorkerGet
  <2>1. Head(queue) \in Sid /\ queue' \in Seq(Sid)
    BY <1>1 DEF WorkerGet, TypeOK
  <2>2. worker' \in [pc : {"idle", "got", "video", "dead"}, item : 0..MaxTriggers]
         /\ worker'.item \in Sid
    BY <1>1, <2>1 DEF WorkerGet, Sid
  <2>3. StoreTypeOK'
    BY <1>1, StoreUnchangedTypes DEF TypeOK, WorkerGet
  <2> QED BY <1>1, <2>1, <2>2, <2>3 DEF TypeOK, WorkerGet, requestVars, CacheOK
<1>2. CASE WorkerStart
  <2>1. RegistryOK(pending')
    BY <1>2, MarkedRegistry DEF TypeOK, StoreTypeOK, WorkerStart, PendingStatus
  <2>2. StoreTypeOK'
    BY <1>2, <2>1 DEF TypeOK, StoreTypeOK, WorkerStart, RegistryOK
  <2>3. event' \in [Sid -> EventState]
    BY <1>2 DEF TypeOK, WorkerStart
  <2>4. worker' \in [pc : {"idle", "got", "video", "dead"}, item : 0..MaxTriggers]
         /\ worker'.item \in Sid
    BY <1>2 DEF TypeOK, WorkerStart
  <2> QED BY <1>2, <2>2, <2>3, <2>4 DEF TypeOK, WorkerStart, requestVars, CacheOK
<1>3. CASE WorkerSkipsCancelled
  BY <1>3, DoneTypes DEF WorkerSkipsCancelled, TypeOK, StoreTypeOK
<1>4. CASE WorkerCompletes
  <2>1. worker.item \in Sid /\ zoneOf[worker.item] \in Zone
    BY <1>4 DEF WorkerCompletes, TypeOK
  <2>2. /\ active' \in [Zone -> Basket] /\ archived' \subseteq Sid
        /\ global' \in GlobalSession /\ global'.open = global.open
    BY <1>4, <2>1, AddTriggerTypes DEF WorkerCompletes, TypeOK
  <2> QED BY <1>4, <2>2, DoneTypes DEF WorkerCompletes
<1>5. CASE WorkerFindsConflict
  BY <1>5, DoneTypes DEF WorkerFindsConflict, TypeOK, StoreTypeOK
<1>6. CASE WorkerErrs
  BY <1>6, DoneTypes DEF WorkerErrs, TypeOK, StoreTypeOK
<1>7. CASE WorkerDies
  <2>1. event' \in [Sid -> EventState]
    BY <1>7 DEF TypeOK, WorkerDies
  <2>2. StoreTypeOK'
    BY <1>7, StoreUnchangedTypes DEF TypeOK, WorkerDies
  <2>3. /\ worker' \in [pc : {"idle", "got", "video", "dead"}, item : 0..MaxTriggers]
        /\ worker'.pc \in {"got", "video"} => worker'.item \in Sid
    BY <1>7 DEF TypeOK, WorkerDies
  <2>4. status' \in [Sid -> SessionStatus]
    BY <1>7 DEF TypeOK, WorkerDies, requestVars
  <2>5. CacheOK(dedup')
    BY <1>7 DEF TypeOK, WorkerDies, requestVars
  <2> QED BY <1>7, <2>1, <2>2, <2>3, <2>4, <2>5 DEF TypeOK, WorkerDies, requestVars
<1> QED BY <1>1, <1>2, <1>3, <1>4, <1>5, <1>6, <1>7 DEF Worker

\* The final CLOSE keeps the types of the store (finalize_global_session).
LEMMA BillTypes ==
  ASSUME StoreTypeOK, global.open, FinalizeGlobalSession
  PROVE  /\ bill' \in [Visit -> SUBSET Sid]
         /\ outcome' \in [Visit -> {"none", "billed", "expired"}]
         /\ global' \in GlobalSession /\ ~global'.open
         /\ active' \in [Zone -> Basket] /\ archived' \subseteq Sid
<1> DEFINE joined == [z \in Zone |-> IF Exists(active[z]) THEN active[z].triggers
                                                         ELSE global.linked[z]]
<1>1. joined \in [Zone -> SUBSET Sid]
  BY DEF StoreTypeOK, Basket, GlobalSession
<1>2. UNION {joined[z] : z \in Zone} \subseteq Sid
  BY <1>1
<1>3. bill' = [bill EXCEPT ![visit] = UNION {joined[z] : z \in Zone}]
  BY DEF FinalizeGlobalSession
<1> HIDE DEF joined
<1>4. bill' \in [Visit -> SUBSET Sid]
  BY <1>2, <1>3 DEF StoreTypeOK
<1>5. outcome' \in [Visit -> {"none", "billed", "expired"}]
  BY DEF FinalizeGlobalSession, StoreTypeOK
<1>6. FinalizeBaskets(Zone) /\ global' = NoGlobal
  BY DEF FinalizeGlobalSession
<1> QED BY <1>4, <1>5, <1>6, NoGlobalTypes, FinalizeBasketsTypes

\* Restarting the wait of a CLOSE keeps the type of the visit
\* (handle_close_signal).
LEMMA PendingCloseTypes ==
  ASSUME NEW g \in GlobalSession
  PROVE  /\ [g EXCEPT !.pendingClose = TRUE, !.sinceClose = 0] \in GlobalSession
         /\ [g EXCEPT !.pendingClose = TRUE, !.sinceClose = 0].open = g.open
         /\ [g EXCEPT !.sinceClose = 0] \in GlobalSession
         /\ [g EXCEPT !.sinceClose = 0].open = g.open
<1> DEFINE h == [g EXCEPT !.pendingClose = TRUE]
<1>1. h \in GlobalSession /\ h.open = g.open
  BY DEF GlobalSession
<1>2. 0 \in 0..InitialWait
  BY StoreAssumption
<1>3. [h EXCEPT !.sinceClose = 0] \in GlobalSession /\ [h EXCEPT !.sinceClose = 0].open = g.open
  BY <1>1, <1>2 DEF GlobalSession
<1>4. [g EXCEPT !.sinceClose = 0] \in GlobalSession /\ [g EXCEPT !.sinceClose = 0].open = g.open
  BY <1>2 DEF GlobalSession
<1> QED BY <1>3, <1>4

\* OPEN, CLOSE, polls, forced finalization and cleanup keep the types.
LEMMA DoorTypes ==
  ASSUME TypeOK, UNCHANGED pipelineVars,
         \/ GetOrStartGlobalSession \/ HandleDoorClose
         \/ CleanupVisit \/ CleanupBaskets
         \/ \E z \in Zone : GetOrFinalize(z) \/ FinalizeSession(z)
  PROVE  TypeOK'
<1> USE StoreAssumption
<1>1. StoreTypeOK'
  <2> USE DEF TypeOK
  <2>1. CASE GetOrStartGlobalSession
    <3>1. visit' \in 0..MaxVisits /\ visit' > 0
      BY <2>1 DEF GetOrStartGlobalSession, StoreTypeOK
    <3>2. [NoGlobal EXCEPT !.open = TRUE] \in GlobalSession
      BY NoGlobalTypes DEF GlobalSession
    <3>3. global' \in GlobalSession
      BY <2>1, <3>2 DEF GetOrStartGlobalSession
    <3> QED BY <2>1, <3>1, <3>3 DEF GetOrStartGlobalSession, StoreTypeOK, RegistryOK
  <2>2. CASE HandleDoorClose
    <3>1. CASE CloseBlocked
      <4>1. global' \in GlobalSession /\ global'.open = global.open
        BY <3>1, PendingCloseTypes DEF CloseBlocked, StoreTypeOK
      <4> QED BY <3>1, <4>1 DEF CloseBlocked, StoreTypeOK, RegistryOK
    <3>2. CASE CloseFirst
      <4>1. global' \in GlobalSession /\ global'.open = global.open
        BY <3>2, PendingCloseTypes DEF CloseFirst, StoreTypeOK
      <4> QED BY <3>2, <4>1 DEF CloseFirst, StoreTypeOK, RegistryOK
    <3>3. CASE CloseWaits
      <4>1. global' \in GlobalSession /\ global'.open = global.open
        BY <3>3, PendingCloseTypes DEF CloseWaits, StoreTypeOK
      <4> QED BY <3>3, <4>1 DEF CloseWaits, StoreTypeOK, RegistryOK
    <3>4. CASE CloseFinalizes
      BY <3>4, BillTypes DEF CloseFinalizes, StoreTypeOK, RegistryOK
    <3> QED BY <2>2, <3>1, <3>2, <3>3, <3>4 DEF HandleDoorClose
  <2>3. CASE CleanupVisit
    <3>1. outcome' \in [Visit -> {"none", "billed", "expired"}]
      BY <2>3 DEF CleanupVisit, StoreTypeOK
    <3>2. global' \in GlobalSession /\ ~global'.open
      BY <2>3, NoGlobalTypes DEF CleanupVisit
    <3>3. active' \in [Zone -> Basket] /\ archived' \subseteq Sid
      BY <2>3, FinalizeBasketsTypes DEF CleanupVisit
    <3> QED BY <2>3, <3>1, <3>2, <3>3 DEF CleanupVisit, StoreTypeOK, RegistryOK
  <2>4. CASE CleanupBaskets
    BY <2>4, FinalizeBasketsTypes DEF CleanupBaskets, StoreTypeOK, RegistryOK
  <2>5. ASSUME NEW z \in Zone, GetOrFinalize(z) \/ FinalizeSession(z)
        PROVE  StoreTypeOK'
    BY <2>5, FinalizeBasketsTypes
       DEF GetOrFinalize, FinalizeSession, StoreTypeOK, RegistryOK
  <2> QED BY <2>1, <2>2, <2>3, <2>4, <2>5
<1> QED BY <1>1 DEF TypeOK, pipelineVars, requestVars, workVars, CacheOK

\* An age stays within the limit it stops growing at.
LEMMA GrownTypes ==
  ASSUME NEW limit \in Nat, NEW age \in 0..limit
  PROVE  Grown(age, limit) \in 0..limit
BY DEF Grown

\* Time passing keeps the types.
LEMMA TickTypes ==
  ASSUME TypeOK, Tick
  PROVE  TypeOK'
<1> USE StoreAssumption
<1>1. active' \in [Zone -> Basket]
  <2>1. ASSUME NEW z \in Zone PROVE active'[z] \in Basket
    <3>1. active[z] \in Basket
      BY DEF TypeOK, StoreTypeOK
    <3>2. /\ Grown(active[z].idle, SessionTimeout + 1) \in 0..(SessionTimeout + 1)
          /\ Grown(active[z].life, MaxDuration + 1) \in 0..(MaxDuration + 1)
      <4>1. active[z].idle \in 0..(SessionTimeout + 1) /\ active[z].life \in 0..(MaxDuration + 1)
        BY <3>1 DEF Basket
      <4>2. SessionTimeout + 1 \in Nat /\ MaxDuration + 1 \in Nat
        OBVIOUS
      <4> QED BY <4>1, <4>2, GrownTypes
    <3>3. active'[z] = IF Exists(active[z])
                         THEN [active[z] EXCEPT
                                 !.idle = Grown(active[z].idle, SessionTimeout + 1),
                                 !.life = Grown(active[z].life, MaxDuration + 1)]
                         ELSE active[z]
      BY DEF Tick, StoreTick
    <3> QED BY <3>1, <3>2, <3>3 DEF Basket
  <2> QED BY <2>1 DEF Tick, StoreTick
<1>2. global' \in GlobalSession /\ global'.open = global.open
  <2>1. /\ Grown(global.life, GlobalMaxDuration + 1) \in 0..(GlobalMaxDuration + 1)
        /\ Grown(global.sinceClose, InitialWait) \in 0..InitialWait
        /\ Grown(global.sinceTrigger, SubsequentWait) \in 0..SubsequentWait
    BY GrownTypes DEF TypeOK, StoreTypeOK, GlobalSession
  <2>2. CASE global.open
    <3> DEFINE l == Grown(global.life, GlobalMaxDuration + 1)
               c == IF global.pendingClose THEN Grown(global.sinceClose, InitialWait)
                                           ELSE global.sinceClose
               t == IF global.triggered THEN Grown(global.sinceTrigger, SubsequentWait)
                                        ELSE global.sinceTrigger
    <3>1. global \in GlobalSession
      BY DEF TypeOK, StoreTypeOK
    <3>2. l \in 0..(GlobalMaxDuration + 1) /\ c \in 0..InitialWait /\ t \in 0..SubsequentWait
      BY <2>1, <3>1 DEF GlobalSession
    <3>3. global' = [global EXCEPT !.life = l, !.sinceClose = c, !.sinceTrigger = t]
      BY <2>2 DEF Tick, StoreTick
    <3> HIDE DEF l, c, t
    <3>4. [global EXCEPT !.life = l] \in GlobalSession
      BY <3>1, <3>2 DEF GlobalSession
    <3>5. [[global EXCEPT !.life = l] EXCEPT !.sinceClose = c] \in GlobalSession
      BY <3>2, <3>4 DEF GlobalSession
    <3>6. [[[global EXCEPT !.life = l] EXCEPT !.sinceClose = c]
              EXCEPT !.sinceTrigger = t] \in GlobalSession
      BY <3>2, <3>5 DEF GlobalSession
    <3>7. global' \in GlobalSession
      BY <3>3, <3>6
    <3>8. global'.open = global.open
      BY <3>1, <3>3 DEF GlobalSession
    <3> QED BY <3>7, <3>8
  <2>3. CASE ~global.open
    BY <2>3 DEF Tick, StoreTick, TypeOK, StoreTypeOK
  <2> QED BY <2>2, <2>3
<1>3. CacheOK(dedup')
  BY AgedCache DEF Tick, TypeOK
<1>4. StoreTypeOK'
  BY <1>1, <1>2 DEF Tick, StoreTick, TypeOK, StoreTypeOK, RegistryOK
<1> QED BY <1>3, <1>4 DEF Tick, TypeOK, requestVars, workVars, CacheOK

\* Every step keeps the types: TypeOK is inductive as it stands.
THEOREM StepTypes == TypeOK /\ [Next]_vars => TypeOK'
<1> SUFFICES ASSUME TypeOK, [Next]_vars PROVE TypeOK'
  OBVIOUS
<1>1. CASE UNCHANGED vars
  BY <1>1, StoreUnchangedTypes
     DEF vars, pipelineVars, requestVars, workVars, TypeOK, CacheOK
<1>2. CASE Next
  BY <1>2, RequestTypes, ResumeTypes, WorkerTypes, DoorTypes, TickTypes
     DEF Next, DoorOpens, DoorCloses, Cleanup, PollZone, OperatorFinalizes
<1> QED BY <1>1, <1>2

\* Type correctness of the service: in every reachable state the registry, the
\* baskets, the visit, the queue, the worker, the events and the duplicate cache
\* hold values of their types, for all zones, clips, bounds and thresholds.
THEOREM TypeCorrect == Spec => []TypeOK
BY InitTypes, StepTypes, PTL DEF Spec

-----------------------------------------------------------------------------
(* The registry, the work it stands for and the answers. *)

Elements(q) == {q[i] : i \in DOMAIN q}

Once(q) == \A i, j \in DOMAIN q : q[i] = q[j] => i = j

\* Appending a new element to a sequence without repetition.
LEMMA AppendElements ==
  ASSUME NEW S, NEW q \in Seq(S), NEW x \in S
  PROVE  /\ Elements(Append(q, x)) = Elements(q) \cup {x}
         /\ Once(q) /\ x \notin Elements(q) => Once(Append(q, x))
<1>1. /\ Append(q, x) \in Seq(S)
      /\ DOMAIN Append(q, x) = 1..(Len(q) + 1)
      /\ DOMAIN q = 1..Len(q)
      /\ Len(q) \in Nat
  OBVIOUS
<1>2. \A i \in 1..Len(q) : Append(q, x)[i] = q[i]
  OBVIOUS
<1>3. Append(q, x)[Len(q) + 1] = x
  OBVIOUS
<1>4. Elements(Append(q, x)) \subseteq Elements(q) \cup {x}
  BY <1>1, <1>2, <1>3 DEF Elements
<1>5. Elements(q) \cup {x} \subseteq Elements(Append(q, x))
  BY <1>1, <1>2, <1>3 DEF Elements
<1>6. ASSUME Once(q), x \notin Elements(q) PROVE Once(Append(q, x))
  BY <1>1, <1>2, <1>3, <1>6 DEF Elements, Once
<1> QED BY <1>4, <1>5, <1>6

\* Removing the head of a sequence without repetition.
LEMMA TailElements ==
  ASSUME NEW S, NEW q \in Seq(S), q # <<>>
  PROVE  /\ Elements(q) = {Head(q)} \cup Elements(Tail(q))
         /\ Once(q) => Head(q) \notin Elements(Tail(q)) /\ Once(Tail(q))
<1>1. /\ DOMAIN q = 1..Len(q)
      /\ Len(q) \in Nat /\ Len(q) > 0
      /\ DOMAIN Tail(q) = 1..(Len(q) - 1)
      /\ Head(q) = q[1]
      /\ \A i \in 1..(Len(q) - 1) : Tail(q)[i] = q[i + 1]
  OBVIOUS
<1>2. Elements(q) \subseteq {Head(q)} \cup Elements(Tail(q))
  <2> SUFFICES ASSUME NEW i \in 1..Len(q), q[i] # Head(q) PROVE q[i] \in Elements(Tail(q))
    BY <1>1 DEF Elements
  <2>1. i - 1 \in 1..(Len(q) - 1) /\ q[i] = Tail(q)[i - 1]
    BY <1>1
  <2> QED BY <1>1, <2>1 DEF Elements
<1>3. {Head(q)} \cup Elements(Tail(q)) \subseteq Elements(q)
  BY <1>1 DEF Elements
<1>4. ASSUME Once(q) PROVE Head(q) \notin Elements(Tail(q)) /\ Once(Tail(q))
  <2>1. \A i \in 1..(Len(q) - 1) : i + 1 \in DOMAIN q /\ i + 1 # 1
    BY <1>1
  <2>2. Head(q) \notin Elements(Tail(q))
    BY <1>1, <1>4, <2>1 DEF Elements, Once
  <2>3. Once(Tail(q))
    BY <1>1, <1>4, <2>1 DEF Once
  <2> QED BY <2>2, <2>3
<1> QED BY <1>2, <1>3, <1>4

-----------------------------------------------------------------------------
(* What a step can do to the registry, the queue and the worker. *)

\* Neither of the two causes of a notify call about an id without an entry.
Gated == "unstable_removal" \notin Readings /\ ~BalancedCancel

Quiet == UNCHANGED <<pending, queue, worker>>

Without(S) == pending' = [t \in DOMAIN pending \ S |-> pending[t]]

\* A notify call about a trigger other than the one the worker holds.
Dropped ==
  /\ ~Gated
  /\ \E S \in SUBSET DOMAIN pending : Without(S)
  /\ UNCHANGED <<queue, worker>>

Refused == Without({issued + 1}) /\ UNCHANGED <<queue, worker>>

Leaked == TraceCanFail /\ UNCHANGED <<queue, worker>>

Grew ==
  /\ issued + 1 \in Sid
  /\ pending' = Enqueued(pending, zoneOf'[issued + 1], issued + 1)
  /\ queue' = Append(queue, issued + 1)
  /\ issued' = issued + 1
  /\ UNCHANGED worker

Got ==
  /\ worker.pc = "idle"
  /\ queue # <<>>
  /\ worker' = [pc |-> "got", item |-> Head(queue)]
  /\ queue' = Tail(queue)
  /\ UNCHANGED pending

Started ==
  /\ worker.pc = "got"
  /\ pending' = Marked(pending, zoneOf[worker.item], worker.item, "processing")
  /\ worker' = [worker EXCEPT !.pc = "video"]
  /\ UNCHANGED queue

Ended ==
  /\ worker.pc \in {"got", "video"}
  /\ pending' = Processed(pending, zoneOf[worker.item], worker.item)
  /\ worker' = IdleWorker
  /\ UNCHANGED queue

Died ==
  /\ TraceCanFail
  /\ worker' = [pc |-> "dead", item |-> 0]
  /\ UNCHANGED <<pending, queue>>

WorkStep ==
  /\ issued' \in {issued, issued + 1}
  /\ \A s \in 1..issued : zoneOf'[s] = zoneOf[s]
  /\ \/ Quiet \/ Dropped \/ Refused \/ Leaked \/ Grew
     \/ Got \/ Started \/ Ended \/ Died

\* Accepting a request issues one id and changes no zone of an earlier id.
LEMMA AcceptedWork ==
  ASSUME TypeOK, NEW r, NEW c, NEW d, Accepted(r, c, d)
  PROVE  /\ r \in Readings
         /\ issued + 1 \in Sid
         /\ issued' = issued + 1
         /\ \A s \in 1..issued : zoneOf'[s] = zoneOf[s]
         /\ zoneOf'[issued + 1] = ClipZone[c]
<1> USE StoreAssumption
<1>1. issued + 1 \in Sid /\ 1..issued \subseteq Sid
  BY DEF Accepted, TypeOK, Sid
<1> QED BY <1>1 DEF Accepted, TypeOK

\* Every request changes the registry and the queue in one of these ways.
LEMMA RequestWork ==
  ASSUME TypeOK, NEW c \in Clip, Request(c)
  PROVE  WorkStep
<1> USE DEF WorkStep, workVars
<1>1. CASE DuplicateRequest(c) \/ InvalidRequest(c)
  BY <1>1 DEF DuplicateRequest, InvalidRequest, requestVars, storeVars, Quiet
<1>2. CASE UnstableReturn(c)
  BY <1>2, AcceptedWork DEF UnstableReturn, storeVars, Quiet
<1>3. CASE UnstableRemoval(c)
  <2>1. CASE UNCHANGED pending
    BY <1>3, <2>1, AcceptedWork DEF UnstableRemoval, Quiet
  <2>2. CASE pending' = Processed(pending, ClipZone[c], issued + 1)
    <3>1. Without(Resolve(pending, ClipZone[c], issued + 1))
      BY <2>2 DEF Processed, Without
    <3>2. Resolve(pending, ClipZone[c], issued + 1) \in SUBSET DOMAIN pending
      BY ResolveInRegistry
    <3>3. PICK d \in LookedUp(dedup) : Accepted("unstable_removal", c, d)
      BY <1>3 DEF UnstableRemoval
    <3>4. ~Gated
      BY <3>3, AcceptedWork DEF Gated
    <3>5. Dropped
      BY <1>3, <3>1, <3>2, <3>4 DEF UnstableRemoval, Dropped
    <3> QED BY <3>3, <3>5, AcceptedWork
  <2> QED BY <1>3, <2>1, <2>2 DEF UnstableRemoval
<1>4. CASE LowWeightVideo(c) \/ LowWeightSkip(c)
  BY <1>4, AcceptedWork DEF LowWeightVideo, LowWeightSkip, storeVars, Quiet
<1>5. CASE ReturnOnly(c) \/ RepeatRemoval(c)
  BY <1>5, AcceptedWork DEF ReturnOnly, RepeatRemoval, Quiet
<1>6. CASE ReturnBalanced(c)
  <2>1. PICK d \in LookedUp(dedup), match \in Matches :
          /\ BalancedCancel
          /\ Accepted("return", c, d)
          /\ pending' = Skipped(pending, match)
          /\ UNCHANGED workVars
    BY <1>6 DEF ReturnBalanced
  <2> DEFINE first == Processed(pending, zoneOf[match[1]], match[1])
  <2>2. PICK S : S \in SUBSET DOMAIN pending /\ Without(S)
    <3>1. /\ first = [t \in DOMAIN pending \ Resolve(pending, zoneOf[match[1]], match[1])
                       |-> pending[t]]
          /\ Resolve(pending, zoneOf[match[1]], match[1]) \in SUBSET DOMAIN pending
      BY ResolveInRegistry DEF Processed
    <3>2. CASE Len(match) = 1
      BY <2>1, <3>1, <3>2 DEF Skipped, Without
    <3>3. CASE Len(match) # 1
      <4> DEFINE S == Resolve(pending, zoneOf[match[1]], match[1])
                 U == Resolve(first, zoneOf[match[2]], match[2])
      <4>1. U \subseteq DOMAIN pending
        BY <3>1, ResolveInRegistry
      <4>2. Skipped(pending, match) = [t \in DOMAIN first \ U |-> first[t]]
        BY <3>3 DEF Skipped, Processed
      <4>3. Skipped(pending, match) = [t \in DOMAIN pending \ (S \cup U) |-> pending[t]]
        <5> HIDE DEF U
        <5> QED BY <3>1, <4>2
      <4> QED BY <2>1, <3>1, <4>1, <4>3 DEF Without
    <3> QED BY <3>2, <3>3
  <2>3. Dropped
    BY <2>1, <2>2 DEF Dropped, Gated
  <2> QED BY <2>1, <2>3, AcceptedWork
<1>7. CASE EnqueueRemoval(c)
  BY <1>7, AcceptedWork DEF EnqueueRemoval, Grew
<1>8. CASE QueueFull(c)
  <2> DEFINE registered == Enqueued(pending, ClipZone[c], issued + 1)
  <2>1. PICK d \in LookedUp(dedup) :
          /\ Accepted("removal", c, d)
          /\ \/ pending' = Processed(registered, ClipZone[c], issued + 1)
             \/ TraceCanFail
          /\ UNCHANGED workVars
    BY <1>8 DEF QueueFull
  <2>2. CASE pending' = Processed(registered, ClipZone[c], issued + 1)
    <3>1. DOMAIN registered = DOMAIN pending \cup {issued + 1}
      BY DEF Enqueued
    <3>2. Resolve(registered, ClipZone[c], issued + 1) = {issued + 1}
      BY <3>1 DEF Resolve
    <3>3. \A t \in DOMAIN pending \ {issued + 1} : registered[t] = pending[t]
      BY DEF Enqueued
    <3>4. Without({issued + 1})
      BY <2>2, <3>1, <3>2, <3>3 DEF Processed, Without
    <3> QED BY <2>1, <3>4, AcceptedWork DEF Refused
  <2> QED BY <2>1, <2>2, AcceptedWork DEF Leaked
<1> QED
  BY <1>1, <1>2, <1>3, <1>4, <1>5, <1>6, <1>7, <1>8 DEF Request

\* So does every other step.
LEMMA StepWork ==
  ASSUME TypeOK, [Next]_vars
  PROVE  WorkStep
<1> USE DEF WorkStep
<1>1. CASE \E c \in Clip : Request(c)
  BY <1>1, RequestWork
<1>2. CASE \E w \in suspended : Resume(w)
  BY <1>2 DEF Resume, ReturnStillUnstable, LowWeightVideoDone, LowWeightVideoFails,
              storeVars, requestVars, workVars, Quiet
<1>3. CASE Worker
  BY <1>3 DEF Worker, WorkerGet, WorkerStart, WorkerSkipsCancelled, WorkerCompletes,
              WorkerFindsConflict, WorkerErrs, WorkerDies, Done,
              storeVars, requestVars, Got, Started, Ended, Died
<1>4. CASE DoorOpens \/ DoorCloses \/ Cleanup
             \/ \E z \in Zone : PollZone(z) \/ OperatorFinalizes(z)
  BY <1>4 DEF DoorOpens, DoorCloses, Cleanup, PollZone, OperatorFinalizes,
              GetOrStartGlobalSession, HandleDoorClose, CloseBlocked, CloseFirst, CloseWaits,
              CloseFinalizes, CleanupVisit, CleanupBaskets, GetOrFinalize, FinalizeSession,
              pipelineVars, requestVars, workVars, Quiet
<1>5. CASE Tick
  BY <1>5 DEF Tick, StoreTick, requestVars, workVars, Quiet
<1>6. CASE UNCHANGED vars
  BY <1>6 DEF vars, storeVars, pipelineVars, requestVars, workVars, Quiet
<1> QED BY <1>1, <1>2, <1>3, <1>4, <1>5, <1>6 DEF Next

-----------------------------------------------------------------------------
(* No item is held twice, and only issued ones are held. *)

QueueOK ==
  /\ Once(queue)
  /\ AtWorker \cap Queued = {}
  /\ \A s \in Held : s <= issued

\* How the kinds of step move the held items.
LEMMA HeldStep ==
  ASSUME TypeOK, TypeOK', QueueOK, WorkStep
  PROVE  /\ QueueOK'
         /\ Quiet \/ Dropped \/ Refused \/ Leaked \/ Got \/ Started => Held' = Held
         /\ Grew => Held' = Held \cup {issued + 1}
         /\ Ended => Held' = Held \ {worker.item} /\ worker.item \in Held
<1>1. /\ Queued = Elements(queue) /\ Queued' = Elements(queue')
      /\ queue \in Seq(Sid) /\ Queued \subseteq Sid
      /\ issued \in Nat /\ issued' \in Nat
  BY StoreAssumption DEF Queued, Elements, TypeOK
<1>2. Held \subseteq Sid
  BY <1>1 DEF Held, AtWorker, TypeOK
<1>3. issued <= issued'
  BY <1>1 DEF WorkStep
<1>4. \A s \in Held : s <= issued'
  BY <1>1, <1>2, <1>3 DEF QueueOK, Sid
<1>5. CASE UNCHANGED <<queue, worker>>
  <2>1. Queued' = Queued /\ AtWorker' = AtWorker /\ Held' = Held
    BY <1>5 DEF Queued, AtWorker, Held
  <2>2. QueueOK'
    BY <1>4, <1>5, <2>1 DEF QueueOK
  <2>3. ~Grew
    BY <1>1, <1>5 DEF Grew
  <2>4. ~Got
    BY <1>5 DEF Got
  <2>5. ~Started
    BY <1>5 DEF Started, TypeOK
  <2>6. ~Ended
    BY <1>5 DEF Ended, IdleWorker
  <2> QED BY <2>1, <2>2, <2>3, <2>6
<1>6. CASE Grew
  <2>1. issued + 1 \notin Held /\ issued + 1 \in Sid
    BY <1>1, <1>6 DEF QueueOK, Grew
  <2>2. Queued' = Queued \cup {issued + 1} /\ Once(queue')
    BY <1>1, <1>6, <2>1, AppendElements DEF Grew, QueueOK, Held
  <2>3. AtWorker' = AtWorker
    BY <1>6 DEF Grew, AtWorker
  <2>4. Held' = Held \cup {issued + 1}
    BY <2>2, <2>3 DEF Held
  <2>5. QueueOK'
    BY <1>4, <1>6, <2>1, <2>2, <2>3, <2>4, <1>1 DEF QueueOK, Held, Grew
  <2>6. ~Quiet /\ ~Dropped /\ ~Refused /\ ~Leaked /\ ~Got /\ ~Started /\ ~Ended
    BY <1>1, <1>6, <2>1, <2>2 DEF Grew, Quiet, Dropped, Refused, Leaked, Got, Started, Ended, Held
  <2> QED BY <2>4, <2>5, <2>6
<1>7. CASE Got
  <2>1. /\ Elements(queue) = {Head(queue)} \cup Elements(queue')
        /\ Head(queue) \notin Elements(queue') /\ Once(queue')
    BY <1>1, <1>7, TailElements DEF Got, QueueOK
  <2>2. AtWorker = {} /\ AtWorker' = {Head(queue)}
    BY <1>7 DEF Got, AtWorker
  <2>3. Held' = Held
    BY <1>1, <2>1, <2>2 DEF Held
  <2>4. QueueOK'
    BY <1>1, <1>4, <2>1, <2>2, <2>3 DEF QueueOK
  <2>5. ~Grew /\ ~Ended
    BY <1>7, <2>1, <1>1, <2>2 DEF Got, Grew, Ended, AtWorker
  <2> QED BY <2>3, <2>4, <2>5
<1>8. CASE Started
  <2>1. AtWorker' = AtWorker /\ Queued' = Queued
    BY <1>8 DEF Started, AtWorker, Queued, TypeOK
  <2>2. QueueOK' /\ Held' = Held
    BY <1>4, <1>8, <2>1 DEF QueueOK, Held, Started
  <2>3. ~Grew /\ ~Ended
    BY <1>8, <1>1 DEF Started, Grew, Ended, IdleWorker, TypeOK
  <2> QED BY <2>2, <2>3
<1>9. CASE Ended
  <2>1. AtWorker = {worker.item} /\ AtWorker' = {} /\ Queued' = Queued
    BY <1>9 DEF Ended, IdleWorker, AtWorker, Queued
  <2>2. Held' = Held \ {worker.item} /\ worker.item \in Held
    BY <2>1 DEF Held, QueueOK
  <2>3. QueueOK'
    BY <1>4, <1>9, <2>1, <2>2 DEF QueueOK, Ended
  <2>4. worker' # worker /\ worker'.pc = "idle"
    BY <1>9 DEF Ended, IdleWorker
  <2>5. ~Quiet /\ ~Dropped /\ ~Refused /\ ~Leaked /\ ~Grew /\ ~Got /\ ~Started
    BY <1>9, <2>4 DEF Quiet, Dropped, Refused, Leaked, Grew, Got, Started, Ended, TypeOK
  <2> QED BY <2>2, <2>3, <2>5
<1>10. CASE Died
  <2>1. AtWorker' = {} /\ Queued' = Queued
    BY <1>10 DEF Died, AtWorker, Queued
  <2>2. QueueOK'
    BY <1>4, <1>10, <2>1 DEF QueueOK, Died, Held
  <2>3. CASE worker' = worker
    BY <1>5, <1>10, <2>3 DEF Died
  <2>4. CASE worker' # worker
    BY <1>10, <2>2, <2>4 DEF Died, Quiet, Dropped, Refused, Leaked, Grew, Got, Started,
                             Ended, IdleWorker, TypeOK
  <2> QED BY <2>3, <2>4
<1> QED
  BY <1>5, <1>6, <1>7, <1>8, <1>9, <1>10 DEF WorkStep, Quiet, Dropped, Refused, Leaked

\* Held items stay distinct in every reachable state.
LEMMA HeldOnce == Spec => []QueueOK
<1>1. Init => QueueOK
  BY StoreAssumption DEF Init, QueueOK, Once, AtWorker, Queued, Held, IdleWorker
<1>2. TypeOK /\ TypeOK' /\ QueueOK /\ [Next]_vars => QueueOK'
  BY StepWork, HeldStep
<1> QED BY <1>1, <1>2, TypeCorrect, PTL DEF Spec

-----------------------------------------------------------------------------
(* The answers given to the cabinet. *)

\* Who may still answer: ids that were not issued have no answer, and what the
\* worker or a suspended handler holds has none that is final.  No two of them
\* hold the same id.
Unanswered ==
  /\ \A s \in Sid : s > issued => status[s] = "none"
  /\ \A s \in Held : status[s] = "processing"
  /\ \A w \in suspended : /\ w.sid <= issued /\ w.sid \notin Held
                          /\ status[w.sid] \in {"none", "processing"}
  /\ \A w, x \in suspended : w.sid = x.sid => w = x

OnlyAnswers(t) == \A s \in Sid : s # t => status'[s] = status[s]

Fresh ==
  /\ issued + 1 \in Sid /\ issued' = issued + 1
  /\ OnlyAnswers(issued + 1)
  /\ \/ UNCHANGED <<queue, worker, suspended>>
     \/ /\ UNCHANGED suspended
        /\ Grew
        /\ status'[issued + 1] = "processing"
     \/ /\ UNCHANGED <<queue, worker>>
        /\ \E c \in Clip, i \in {"settling", "video"} :
             suspended' = suspended \cup {[sid |-> issued + 1, clip |-> c, in |-> i]}
        /\ status'[issued + 1] \in {status[issued + 1], "processing"}

Resumed ==
  \E w \in suspended :
    /\ UNCHANGED <<issued, queue, worker>>
    /\ suspended' = suspended \ {w}
    /\ OnlyAnswers(w.sid)

AnswerStep ==
  \/ Fresh
  \/ Resumed
  \/ Ended /\ OnlyAnswers(worker.item) /\ UNCHANGED <<issued, suspended>>
  \/ UNCHANGED <<issued, status, suspended>>
     /\ (UNCHANGED <<queue, worker>> \/ Got \/ Started \/ Died)

\* An answer is given by the request itself, by its handler when it resumes or
\* by the worker at the end of an item.
LEMMA StepAnswers ==
  ASSUME TypeOK, [Next]_vars
  PROVE  AnswerStep
<1> USE DEF AnswerStep
<1>1. CASE \E c \in Clip : Request(c)
  <2>1. PICK c \in Clip : Request(c)
    BY <1>1
  <2>2. CASE DuplicateRequest(c) \/ InvalidRequest(c)
    BY <2>2 DEF DuplicateRequest, InvalidRequest, requestVars, workVars
  <2>3. CASE \E r, d : Accepted(r, c, d)
    <3>1. issued + 1 \in Sid /\ issued' = issued + 1
      BY <2>3, AcceptedWork
    <3>2. CASE UnstableReturn(c)
      BY <3>1, <3>2, <2>1 DEF UnstableReturn, Fresh, OnlyAnswers, workVars
    <3>3. CASE LowWeightVideo(c)
      BY <3>1, <3>3 DEF LowWeightVideo, Fresh, OnlyAnswers, NewStatus, workVars, TypeOK
    <3>4. CASE EnqueueRemoval(c)
      BY <3>1, <3>4, AcceptedWork
         DEF EnqueueRemoval, Fresh, OnlyAnswers, NewStatus, Grew, TypeOK
    <3>5. CASE \/ UnstableRemoval(c) \/ LowWeightSkip(c) \/ ReturnOnly(c)
               \/ ReturnBalanced(c) \/ RepeatRemoval(c) \/ QueueFull(c)
      BY <3>1, <3>5
         DEF UnstableRemoval, LowWeightSkip, ReturnOnly, ReturnBalanced, RepeatRemoval,
             QueueFull, Fresh, OnlyAnswers, NewStatus, workVars, TypeOK
    <3> QED BY <2>1, <2>2, <3>2, <3>3, <3>4, <3>5 DEF Request
  <2> QED
    BY <2>1, <2>2, <2>3
       DEF Request, UnstableReturn, UnstableRemoval, LowWeightVideo, LowWeightSkip,
           ReturnOnly, ReturnBalanced, RepeatRemoval, EnqueueRemoval, QueueFull
<1>2. CASE \E w \in suspended : Resume(w)
  BY <1>2 DEF Resume, ReturnStillUnstable, LowWeightVideoDone, LowWeightVideoFails,
              requestVars, workVars, Resumed, OnlyAnswers, TypeOK
<1>3. CASE Worker
  <2>1. CASE WorkerGet \/ WorkerStart \/ WorkerDies
    BY <2>1 DEF WorkerGet, WorkerStart, WorkerDies, storeVars, requestVars, Got, Started, Died
  <2>2. CASE WorkerSkipsCancelled \/ WorkerCompletes \/ WorkerFindsConflict \/ WorkerErrs
    <3>1. Ended
      BY <2>2 DEF WorkerSkipsCancelled, WorkerCompletes, WorkerFindsConflict, WorkerErrs,
                  Done, Ended
    <3>2. UNCHANGED <<issued, suspended>>
      BY <2>2 DEF WorkerSkipsCancelled, WorkerCompletes, WorkerFindsConflict, WorkerErrs,
                  Done, requestVars
    <3>3. OnlyAnswers(worker.item)
      BY <2>2 DEF WorkerSkipsCancelled, WorkerCompletes, WorkerFindsConflict, WorkerErrs,
                  Done, OnlyAnswers, TypeOK
    <3> QED BY <3>1, <3>2, <3>3
  <2> QED BY <1>3, <2>1, <2>2 DEF Worker
<1>4. CASE DoorOpens \/ DoorCloses \/ Cleanup
             \/ \E z \in Zone : PollZone(z) \/ OperatorFinalizes(z)
  BY <1>4 DEF DoorOpens, DoorCloses, Cleanup, PollZone, OperatorFinalizes,
              pipelineVars, requestVars, workVars
<1>5. CASE Tick
  BY <1>5 DEF Tick, requestVars, workVars
<1>6. CASE UNCHANGED vars
  BY <1>6 DEF vars, pipelineVars, requestVars, workVars
<1> QED BY <1>1, <1>2, <1>3, <1>4, <1>5, <1>6 DEF Next

\* A step leaves it open who may still answer, and no final answer changes.
LEMMA UnansweredStep ==
  ASSUME TypeOK, TypeOK', QueueOK, Unanswered, [Next]_vars
  PROVE  /\ Unanswered'
         /\ \A s \in Sid : status[s] \in {"complete", "error"} => status'[s] = status[s]
<1>1. /\ AnswerStep /\ WorkStep
      /\ issued \in Nat /\ Sid \subseteq Nat /\ Held \subseteq Sid
      /\ \A s \in Held : s <= issued
      /\ \A w \in suspended : w.sid \in Sid
  <2>1. AnswerStep /\ WorkStep
    BY StepAnswers, StepWork
  <2>2. issued \in Nat /\ Sid \subseteq Nat
    BY StoreAssumption DEF TypeOK, Sid
  <2>3. Held \subseteq Sid
    BY DEF TypeOK, Held, AtWorker, Queued
  <2>4. \A w \in suspended : w.sid \in Sid
    BY DEF TypeOK, Suspension
  <2> QED BY <2>1, <2>2, <2>3, <2>4 DEF QueueOK
<1>2. CASE Fresh
  <2> DEFINE new == issued + 1
  <2>1. /\ new \notin Held /\ new \in Sid /\ status[new] = "none" /\ issued' = new
        /\ \A w \in suspended : w.sid # new
        /\ \A s \in Sid : s # new => status'[s] = status[s]
    BY <1>1, <1>2 DEF Fresh, Unanswered, OnlyAnswers
  <2>2. \A s \in Sid : status[s] \in {"complete", "error"} => status'[s] = status[s]
    BY <2>1
  <2>3. \A s \in Sid : s > issued' => status'[s] = "none"
    BY <1>1, <2>1 DEF Unanswered
  <2>4. \A s \in Held : status'[s] = "processing"
    BY <1>1, <2>1 DEF Unanswered
  <2>5. \A w \in suspended : /\ w.sid <= issued' /\ w.sid \notin Held /\ w.sid # new
                             /\ status'[w.sid] \in {"none", "processing"}
    <3> SUFFICES ASSUME NEW w \in suspended
                 PROVE  /\ w.sid <= issued' /\ w.sid \notin Held /\ w.sid # new
                        /\ status'[w.sid] \in {"none", "processing"}
      OBVIOUS
    <3>1. /\ w.sid <= issued /\ w.sid \notin Held
          /\ status[w.sid] \in {"none", "processing"}
      BY DEF Unanswered
    <3>2. w.sid \in Sid /\ w.sid # new
      BY <1>1, <2>1
    <3>3. status'[w.sid] = status[w.sid]
      BY <2>1, <3>2
    <3>4. w.sid <= issued'
      <4>1. w.sid \in Nat /\ issued \in Nat /\ issued' = issued + 1
        BY <1>1, <2>1, <3>2
      <4> QED BY <3>1, <4>1
    <3> QED BY <3>1, <3>2, <3>3, <3>4
  <2>6. CASE UNCHANGED <<queue, worker, suspended>>
    <3>1. Held' = Held
      BY <2>6 DEF Held, Queued, AtWorker
    <3> QED BY <2>2, <2>3, <2>4, <2>5, <2>6, <3>1 DEF Unanswered
  <2>7. CASE UNCHANGED suspended /\ Grew /\ status'[new] = "processing"
    <3>1. Held' = Held \cup {new}
      BY <1>1, <2>7, HeldStep
    <3> QED BY <2>2, <2>3, <2>4, <2>5, <2>7, <3>1 DEF Unanswered
  <2>8. ASSUME UNCHANGED <<queue, worker>>, status'[new] \in {status[new], "processing"},
               NEW w, w.sid = new, suspended' = suspended \cup {w}
        PROVE  Unanswered'
    <3>1. Held' = Held
      BY <2>8 DEF Held, Queued, AtWorker
    <3>2. \A x \in suspended' : /\ x.sid <= issued' /\ x.sid \notin Held'
                                /\ status'[x.sid] \in {"none", "processing"}
      BY <1>1, <2>1, <2>5, <2>8, <3>1
    <3>3. \A x, y \in suspended' : x.sid = y.sid => x = y
      BY <2>5, <2>8 DEF Unanswered
    <3> QED BY <2>3, <2>4, <3>1, <3>2, <3>3 DEF Unanswered
  <2> QED BY <1>2, <2>2, <2>6, <2>7, <2>8 DEF Fresh
<1>3. CASE Resumed
  <2>1. PICK w \in suspended : /\ UNCHANGED <<issued, queue, worker>>
                               /\ suspended' = suspended \ {w}
                               /\ OnlyAnswers(w.sid)
    BY <1>3 DEF Resumed
  <2>2. Held' = Held
    BY <2>1 DEF Held, Queued, AtWorker
  <2>3. w.sid \in Sid /\ w.sid <= issued /\ w.sid \notin Held
        /\ status[w.sid] \in {"none", "processing"}
    BY <1>1 DEF Unanswered
  <2>4. \A x \in suspended' : x \in suspended /\ x.sid # w.sid /\ x.sid \in Sid
    BY <1>1, <2>1 DEF Unanswered
  <2>5. \A s \in Sid : s > issued' => status'[s] = "none"
    BY <1>1, <2>1, <2>3 DEF Unanswered, OnlyAnswers
  <2>6. \A s \in Held' : status'[s] = "processing"
    BY <1>1, <2>1, <2>2, <2>3 DEF Unanswered, OnlyAnswers
  <2>7. \A x \in suspended' : /\ x.sid <= issued' /\ x.sid \notin Held'
                              /\ status'[x.sid] \in {"none", "processing"}
    BY <2>1, <2>2, <2>4 DEF Unanswered, OnlyAnswers
  <2>8. Unanswered'
    BY <2>4, <2>5, <2>6, <2>7 DEF Unanswered
  <2> QED BY <2>1, <2>3, <2>8 DEF OnlyAnswers
<1>4. CASE Ended /\ OnlyAnswers(worker.item) /\ UNCHANGED <<issued, suspended>>
  <2>1. Held' = Held \ {worker.item} /\ worker.item \in Held
    BY <1>1, <1>4, HeldStep
  <2>2. worker.item \in Sid /\ worker.item <= issued /\ status[worker.item] = "processing"
    BY <1>1, <2>1 DEF Unanswered
  <2>3. \A s \in Sid : s > issued' => status'[s] = "none"
    BY <1>1, <1>4, <2>2 DEF Unanswered, OnlyAnswers
  <2>4. \A s \in Held' : status'[s] = "processing"
    BY <1>1, <1>4, <2>1 DEF Unanswered, OnlyAnswers
  <2>5. \A w \in suspended' : /\ w.sid <= issued' /\ w.sid \notin Held'
                              /\ status'[w.sid] \in {"none", "processing"}
    BY <1>1, <1>4, <2>1 DEF Unanswered, OnlyAnswers
  <2>6. Unanswered'
    BY <1>4, <2>3, <2>4, <2>5 DEF Unanswered
  <2> QED BY <1>4, <2>2, <2>6 DEF OnlyAnswers
<1>5. CASE UNCHANGED <<issued, status, suspended>>
           /\ (UNCHANGED <<queue, worker>> \/ Got \/ Started \/ Died)
  <2>1. Held' \subseteq Held
    <3>1. CASE UNCHANGED <<queue, worker>> \/ Died
      BY <3>1 DEF Died, Held, Queued, AtWorker
    <3>2. CASE Got \/ Started
      BY <1>1, <3>2, HeldStep
    <3> QED BY <1>5, <3>1, <3>2
  <2> QED BY <1>5, <2>1 DEF Unanswered
<1> QED BY <1>1, <1>2, <1>3, <1>4, <1>5 DEF AnswerStep

\* Whatever a session was answered in the end, complete or error, it is answered
\* for good: in every configuration, with returns that cancel, handlers that
\* overlap and a worker that dies.
THEOREM AnswersAreFinal == Spec => FinalStatusStays
<1>1. Init => Unanswered
  BY StoreAssumption DEF Init, Unanswered, Held, Queued, AtWorker, IdleWorker
<1>2. TypeOK /\ TypeOK' /\ QueueOK /\ Unanswered /\ [Next]_vars => Unanswered'
  BY UnansweredStep
<1>3. ASSUME TypeOK, TypeOK', QueueOK, Unanswered, [Next]_vars
      PROVE  [\A s \in Sid : status[s] \in {"complete", "error"} => status'[s] = status[s]]_vars
  BY <1>3, UnansweredStep
<1> QED BY <1>1, <1>2, <1>3, TypeCorrect, HeldOnce, PTL DEF Spec, FinalStatusStays

-----------------------------------------------------------------------------

\* Where trace files can be written, no registry entry outlives its work: it
\* is never an entry left behind that makes CLOSE answer pending_trigger.
THEOREM NoEntryLeftBehind ==
  ASSUME ~TraceCanFail
  PROVE  Spec => []NoStuckEntry
<1>1. Init => NoStuckEntry
  BY DEF Init, StoreInit, EmptyRegistry, NoStuckEntry
<1>2. ASSUME TypeOK, TypeOK', QueueOK, NoStuckEntry, [Next]_vars
      PROVE  NoStuckEntry'
  <2>1. WorkStep
    BY <1>2, StepWork
  <2>2. /\ Quiet \/ Dropped \/ Refused \/ Got \/ Started => Held' = Held
        /\ Grew => Held' = Held \cup {issued + 1}
        /\ Ended => Held' = Held \ {worker.item}
    BY <1>2, <2>1, HeldStep
  <2>3. CASE Quiet \/ Dropped \/ Refused \/ Got \/ Started
    <3>1. DOMAIN pending' \subseteq DOMAIN pending
      BY <2>3 DEF Quiet, Dropped, Refused, Without, Got, Started, Marked
    <3> QED BY <1>2, <2>2, <2>3, <3>1 DEF NoStuckEntry
  <2>4. CASE Grew
    <3>1. DOMAIN pending' = DOMAIN pending \cup {issued + 1}
      BY <2>4 DEF Grew, Enqueued
    <3> QED BY <1>2, <2>2, <2>4, <3>1 DEF NoStuckEntry
  <2>5. CASE Ended
    <3>1. DOMAIN pending' \subseteq DOMAIN pending \ {worker.item}
      BY <2>5 DEF Ended, Processed, Resolve
    <3> QED BY <1>2, <2>2, <2>5, <3>1 DEF NoStuckEntry
  <2> QED BY <2>1, <2>3, <2>4, <2>5 DEF WorkStep, Leaked, Died
<1> QED BY <1>1, <1>2, TypeCorrect, HeldOnce, PTL DEF Spec

-----------------------------------------------------------------------------
(* The gate of CLOSE, where every notify call is about its own entry. *)

\* Ids at or below issued keep their zone, so held items do.
LEMMA HeldZones ==
  ASSUME TypeOK, QueueOK, WorkStep, NEW s \in Held
  PROVE  s \in Sid /\ s # issued + 1 /\ zoneOf'[s] = zoneOf[s]
<1>1. s \in Sid /\ s <= issued /\ issued \in Nat
  BY StoreAssumption DEF TypeOK, Held, AtWorker, Queued, QueueOK
<1>2. s \in 1..issued
  BY <1>1 DEF Sid
<1> QED BY <1>1, <1>2 DEF WorkStep

\* Every removal in the queue or at the worker has its own entry, with its zone
\* and progress, for every number of zones, uploads, queue places and visits.
THEOREM RegistryIsTheWork ==
  ASSUME Gated, ~TraceCanFail
  PROVE  Spec => []RegistryMatchesWork
<1>1. Init => RegistryMatchesWork
  BY DEF Init, StoreInit, EmptyRegistry, RegistryMatchesWork, Held, Queued, AtWorker, IdleWorker
<1>2. ASSUME TypeOK, TypeOK', QueueOK, RegistryMatchesWork, [Next]_vars
      PROVE  RegistryMatchesWork'
  <2>1. WorkStep
    BY <1>2, StepWork
  <2>2. /\ Quiet \/ Refused \/ Got \/ Started => Held' = Held
        /\ Grew => Held' = Held \cup {issued + 1}
        /\ Ended => Held' = Held \ {worker.item} /\ worker.item \in Held
    BY <1>2, <2>1, HeldStep
  <2>3. \A s \in Held : s \in Sid /\ s # issued + 1 /\ zoneOf'[s] = zoneOf[s]
    BY <1>2, <2>1, HeldZones
  <2>4. DOMAIN pending = Held /\ pending = [s \in Held |-> pending[s]]
    BY <1>2 DEF RegistryMatchesWork, TypeOK, StoreTypeOK, RegistryOK
  <2>5. CASE Quiet
    BY <1>2, <2>2, <2>3, <2>5 DEF RegistryMatchesWork, Quiet
  <2>6. CASE Refused
    <3>1. DOMAIN pending \ {issued + 1} = Held
      BY <2>3, <2>4
    <3>2. pending' = pending
      BY <2>4, <2>6, <3>1 DEF Refused, Without
    <3> QED BY <1>2, <2>2, <2>3, <2>6, <3>2 DEF RegistryMatchesWork, Refused
  <2>7. CASE Grew
    <3>1. /\ DOMAIN pending' = Held \cup {issued + 1}
          /\ pending'[issued + 1] = [zone |-> zoneOf'[issued + 1], status |-> "queued"]
          /\ \A s \in Held : pending'[s] = pending[s]
      BY <2>3, <2>4, <2>7 DEF Grew, Enqueued
    <3>2. worker # [pc |-> "video", item |-> issued + 1]
      BY <2>3 DEF Held, AtWorker
    <3>3. worker' = worker
      BY <2>7 DEF Grew
    <3>4. ASSUME NEW s \in Held
          PROVE  /\ pending'[s].zone = zoneOf'[s]
                 /\ pending'[s].status = "processing" <=> worker' = [pc |-> "video", item |-> s]
      BY <1>2, <2>3, <3>1, <3>3 DEF RegistryMatchesWork
    <3>5. /\ pending'[issued + 1].zone = zoneOf'[issued + 1]
          /\ pending'[issued + 1].status = "processing"
               <=> worker' = [pc |-> "video", item |-> issued + 1]
      BY <3>1, <3>2, <3>3
    <3> QED BY <2>2, <2>7, <3>1, <3>4, <3>5 DEF RegistryMatchesWork
  <2>8. CASE Got
    BY <1>2, <2>2, <2>3, <2>8 DEF RegistryMatchesWork, Got
  <2>9. CASE Started
    <3>1. worker.item \in Held
      BY <2>9 DEF Started, Held, AtWorker
    <3>2. Resolve(pending, zoneOf[worker.item], worker.item) = {worker.item}
      BY <2>4, <3>1 DEF Resolve
    <3>3. DOMAIN pending' = Held
      BY <2>4, <2>9 DEF Started, Marked
    <3>4. pending'[worker.item] = [pending[worker.item] EXCEPT !.status = "processing"]
      BY <2>4, <2>9, <3>1, <3>2 DEF Started, Marked
    <3>5. worker'.pc = "video" /\ worker'.item = worker.item /\ worker.pc = "got"
          /\ worker' = [pc |-> "video", item |-> worker.item]
      BY <1>2, <2>9 DEF Started, TypeOK
    <3>6. ASSUME NEW s \in Held, s # worker.item
          PROVE  /\ pending'[s].zone = zoneOf'[s]
                 /\ pending'[s].status = "processing" <=> worker' = [pc |-> "video", item |-> s]
      <4>1. pending'[s] = pending[s]
        BY <2>4, <2>9, <3>2, <3>6 DEF Started, Marked
      <4> QED BY <1>2, <2>3, <3>5, <3>6, <4>1 DEF RegistryMatchesWork
    <3>7. pending[worker.item] \in [zone : Zone, status : PendingStatus]
      BY <1>2, <2>4, <3>1 DEF TypeOK, StoreTypeOK, RegistryOK
    <3>8. /\ pending'[worker.item].zone = zoneOf'[worker.item]
          /\ pending'[worker.item].status = "processing"
      BY <1>2, <2>3, <3>1, <3>4, <3>7 DEF RegistryMatchesWork
    <3> QED BY <2>2, <2>9, <3>3, <3>5, <3>6, <3>8 DEF RegistryMatchesWork
  <2>10. CASE Ended
    <3>1. Resolve(pending, zoneOf[worker.item], worker.item) = {worker.item}
      BY <2>2, <2>4, <2>10 DEF Resolve
    <3>2. /\ DOMAIN pending' = Held \ {worker.item}
          /\ \A s \in Held \ {worker.item} : pending'[s] = pending[s]
      BY <2>4, <2>10, <3>1 DEF Ended, Processed
    <3>3. worker'.pc = "idle"
      BY <2>10 DEF Ended, IdleWorker
    <3> QED BY <1>2, <2>2, <2>3, <2>10, <3>2, <3>3 DEF RegistryMatchesWork
  <2> QED
    BY <2>1, <2>5, <2>6, <2>7, <2>8, <2>9, <2>10 DEF WorkStep, Dropped, Leaked, Died
<1> QED BY <1>1, <1>2, TypeCorrect, HeldOnce, PTL DEF Spec

\* Only the CLOSE that finds an empty registry ends a visit with a bill.
LEMMA BilledByClose ==
  ASSUME [Next]_vars, NEW v, outcome[v] = "none", outcome'[v] = "billed"
  PROVE  DOMAIN pending = {}
<1>1. outcome' # outcome
  OBVIOUS
<1>2. ~UNCHANGED vars
  BY <1>1 DEF vars, storeVars
<1>3. \A c \in Clip : ~Request(c)
  BY <1>1 DEF Request, DuplicateRequest, InvalidRequest, UnstableReturn, UnstableRemoval,
              LowWeightVideo, LowWeightSkip, ReturnOnly, ReturnBalanced, RepeatRemoval,
              EnqueueRemoval, QueueFull, storeVars
<1>4. \A w \in suspended : ~Resume(w)
  BY <1>1 DEF Resume, ReturnStillUnstable, LowWeightVideoDone, LowWeightVideoFails, storeVars
<1>5. ~Worker
  BY <1>1 DEF Worker, WorkerGet, WorkerStart, WorkerSkipsCancelled, WorkerCompletes,
              WorkerFindsConflict, WorkerErrs, WorkerDies, Done, storeVars
<1>6. ~Tick /\ ~DoorOpens /\ \A z \in Zone : ~PollZone(z) /\ ~OperatorFinalizes(z)
  BY <1>1 DEF Tick, StoreTick, DoorOpens, GetOrStartGlobalSession, PollZone, GetOrFinalize,
              OperatorFinalizes, FinalizeSession
<1>7. CASE Cleanup
  <2>1. CleanupVisit
    BY <1>1, <1>7 DEF Cleanup, CleanupBaskets
  <2>2. outcome' = [outcome EXCEPT ![visit] = "expired"]
    BY <2>1 DEF CleanupVisit
  <2> QED BY <2>2
<1>8. CASE DoorCloses
  BY <1>1, <1>8 DEF DoorCloses, HandleDoorClose, CloseBlocked, CloseFirst, CloseWaits,
                    CloseFinalizes
<1> QED BY <1>2, <1>3, <1>4, <1>5, <1>6, <1>7, <1>8 DEF Next

\* A visit is billed only while no removal that may still be charged is in the
\* queue or at the worker: the safety of the CLOSE gate.
THEOREM CloseIsGated ==
  ASSUME Gated, ~TraceCanFail
  PROVE  Spec => CloseWaitsForInFlight
<1>1. ASSUME RegistryMatchesWork, [Next]_vars
      PROVE  [\A v \in Visit : outcome[v] = "none" /\ outcome'[v] = "billed"
                => InFlight = {}]_vars
  BY <1>1, BilledByClose DEF RegistryMatchesWork, InFlight
<1> QED BY <1>1, RegistryIsTheWork, PTL DEF Spec, CloseWaitsForInFlight

-----------------------------------------------------------------------------
(* Baskets and bills. *)

\* What the store has taken in: it is in a basket or was archived with one.
Charged == InBaskets \cup archived

NothingLinked == [z \in Zone |-> {}]

-----------------------------------------------------------------------------
(* What a step can do to the baskets and the bills. *)

LinkKept == global'.linked \in {global.linked, NothingLinked}

Unmoved ==
  /\ \A z \in Zone : active'[z].triggers = active[z].triggers
  /\ UNCHANGED <<archived, bill>>
  /\ LinkKept

\* During a visit only the operator does this.
Cleared ==
  /\ \E zones \in SUBSET Zone : FinalizeBaskets(zones)
  /\ UNCHANGED bill
  /\ LinkKept
  /\ global.open /\ global'.open => OperatorFinalize
  /\ UNCHANGED pipelineVars

Billed == global.open /\ FinalizeGlobalSession

Added(z, s) ==
  /\ \/ WorkerCompletes /\ s = worker.item /\ s \in AtWorker
     \/ s = issued + 1 /\ UNCHANGED workVars
  /\ s <= issued' /\ s \notin Held'
  /\ AddTriggerWithGlobal(z, s)
  /\ UNCHANGED bill

ChargeStep ==
  \/ Unmoved \/ Cleared \/ Billed
  \/ \E z \in Zone, s \in Sid : Added(z, s)

\* Held items are ids.
LEMMA HeldIds ==
  ASSUME TypeOK
  PROVE  Held \subseteq Sid /\ issued \in Nat /\ Sid \subseteq Nat /\ AtWorker \subseteq Held
BY StoreAssumption DEF TypeOK, Held, AtWorker, Queued, Sid

\* Only the id a request was issued is added to the work.
LEMMA HeldGrowth ==
  ASSUME TypeOK, TypeOK', QueueOK, [Next]_vars
  PROVE  /\ issued' \in {issued, issued + 1}
         /\ \A s \in Held' : s \in Held \/ (s = issued + 1 /\ issued' = issued + 1)
<1>1. WorkStep
  BY StepWork
<1>2. CASE Died
  BY <1>1, <1>2 DEF Died, WorkStep, Held, AtWorker, Queued
<1>3. CASE ~Died
  <2>1. CASE Grew
    BY <1>1, <2>1, HeldStep DEF Grew
  <2>2. CASE Ended
    BY <1>1, <2>2, HeldStep DEF WorkStep
  <2>3. CASE Quiet \/ Dropped \/ Refused \/ Leaked \/ Got \/ Started
    BY <1>1, <2>3, HeldStep DEF WorkStep
  <2> QED BY <1>1, <1>3, <2>1, <2>2, <2>3 DEF WorkStep
<1> QED BY <1>2, <1>3

\* Every request changes the baskets in one of these ways.
LEMMA RequestCharge ==
  ASSUME TypeOK, TypeOK', QueueOK, NEW c \in Clip, Request(c)
  PROVE  ChargeStep
<1> USE DEF ChargeStep
<1>1. CASE UNCHANGED storeVars
  BY <1>1 DEF storeVars, Unmoved, LinkKept
<1>2. CASE UnstableRemoval(c) \/ ReturnBalanced(c)
  BY <1>2 DEF UnstableRemoval, ReturnBalanced, Unmoved, LinkKept
<1>3. CASE EnqueueRemoval(c) \/ QueueFull(c)
  <2>1. global' = TriggerSeen(global) /\ UNCHANGED <<active, archived, bill>>
    BY <1>3 DEF EnqueueRemoval, QueueFull
  <2>2. TriggerSeen(global).linked = global.linked
    BY DEF TriggerSeen, TypeOK, StoreTypeOK, GlobalSession
  <2> QED BY <2>1, <2>2 DEF Unmoved, LinkKept
<1>4. CASE ReturnOnly(c) \/ RepeatRemoval(c)
  <2>1. PICK r \in ReadingClass, d \in LookedUp(dedup) :
          /\ Accepted(r, c, d)
          /\ AddTriggerWithGlobal(ClipZone[c], issued + 1)
          /\ UNCHANGED <<bill, workVars>>
    BY <1>4 DEF ReturnOnly, RepeatRemoval, ReadingClass
  <2>2. ClipZone[c] \in Zone
    BY PipelineAssumption
  <2>3. issued + 1 \in Sid /\ issued' = issued + 1
    BY <2>1, AcceptedWork
  <2>4. Held' = Held
    BY <2>1 DEF workVars, Held, Queued, AtWorker
  <2>5. issued + 1 \notin Held /\ issued + 1 <= issued'
    BY <2>3, HeldIds DEF QueueOK
  <2>6. Added(ClipZone[c], issued + 1)
    BY <2>1, <2>4, <2>5 DEF Added
  <2> QED BY <2>2, <2>3, <2>6
<1> QED
  BY <1>1, <1>2, <1>3, <1>4
     DEF Request, DuplicateRequest, InvalidRequest, UnstableReturn, LowWeightVideo, LowWeightSkip

\* So does every other step.
LEMMA StepCharge ==
  ASSUME TypeOK, TypeOK', QueueOK, [Next]_vars
  PROVE  ChargeStep
<1> USE DEF ChargeStep
<1>1. CASE UNCHANGED storeVars
  BY <1>1 DEF storeVars, Unmoved, LinkKept
<1>2. CASE \E c \in Clip : Request(c)
  BY <1>2, RequestCharge
<1>3. CASE \E w \in suspended : Resume(w)
  BY <1>1, <1>3 DEF Resume, ReturnStillUnstable, LowWeightVideoDone, LowWeightVideoFails
<1>4. CASE Worker
  <2>1. CASE WorkerCompletes
    <3>1. worker.item \in Sid /\ zoneOf[worker.item] \in Zone
      BY <2>1 DEF WorkerCompletes, TypeOK
    <3>2. AtWorker = {worker.item} /\ AtWorker' = {} /\ Queued' = Queued
      BY <2>1 DEF WorkerCompletes, Done, IdleWorker, AtWorker, Queued
    <3>3. worker.item \notin Held'
      BY <3>2 DEF Held, QueueOK
    <3>4. issued' = issued
      BY <2>1 DEF WorkerCompletes, Done, requestVars
    <3>5. worker.item <= issued'
      BY <3>2, <3>4 DEF QueueOK, Held
    <3>6. Added(zoneOf[worker.item], worker.item)
      BY <2>1, <3>2, <3>3, <3>5 DEF WorkerCompletes, Done, Added
    <3> QED BY <3>1, <3>6
  <2>2. CASE ~WorkerCompletes
    BY <1>4, <2>2 DEF Worker, WorkerGet, WorkerStart, WorkerSkipsCancelled,
              WorkerFindsConflict, WorkerErrs, WorkerDies, Done, storeVars, Unmoved, LinkKept
  <2> QED BY <2>1, <2>2
<1>5. CASE DoorOpens
  <2>1. global'.linked = NothingLinked
    BY <1>5 DEF DoorOpens, GetOrStartGlobalSession, NoGlobal, NothingLinked
  <2> QED BY <1>5, <2>1 DEF DoorOpens, GetOrStartGlobalSession, Unmoved, LinkKept
<1>6. CASE DoorCloses
  <2>1. CASE CloseBlocked \/ CloseFirst \/ CloseWaits
    <3>1. global'.linked = global.linked
      BY <2>1 DEF CloseBlocked, CloseFirst, CloseWaits, TypeOK, StoreTypeOK, GlobalSession
    <3> QED BY <2>1, <3>1 DEF CloseBlocked, CloseFirst, CloseWaits, Unmoved, LinkKept
  <2>2. CASE CloseFinalizes
    BY <2>2 DEF CloseFinalizes, Billed
  <2> QED BY <1>6, <2>1, <2>2 DEF DoorCloses, HandleDoorClose
<1>7. CASE Cleanup
  <2>1. CASE CleanupVisit
    <3>1. global'.linked = NothingLinked /\ ~global'.open
      BY <2>1 DEF CleanupVisit, NoGlobal, NothingLinked
    <3> QED BY <1>7, <2>1, <3>1 DEF Cleanup, CleanupVisit, Cleared, LinkKept
  <2>2. CASE CleanupBaskets
    BY <1>7, <2>2 DEF Cleanup, CleanupBaskets, Cleared, LinkKept
  <2> QED BY <1>7, <2>1, <2>2 DEF Cleanup
<1>8. CASE \E z \in Zone : PollZone(z) \/ OperatorFinalizes(z)
  BY <1>8 DEF PollZone, GetOrFinalize, OperatorFinalizes, FinalizeSession, Cleared, LinkKept
<1>9. CASE Tick
  <2>1. global'.linked = global.linked
    BY <1>9 DEF Tick, StoreTick, TypeOK, StoreTypeOK, GlobalSession
  <2>2. \A z \in Zone : active'[z].triggers = active[z].triggers
    BY <1>9 DEF Tick, StoreTick, TypeOK, StoreTypeOK, Basket
  <2> QED BY <1>9, <2>1, <2>2 DEF Tick, StoreTick, Unmoved, LinkKept
<1>10. CASE UNCHANGED vars
  BY <1>1, <1>10 DEF vars
<1> QED BY <1>2, <1>3, <1>4, <1>5, <1>6, <1>7, <1>8, <1>9, <1>10 DEF Next

-----------------------------------------------------------------------------
(* What the steps do to the triggers the store has taken in. *)

\* Baskets are sets of ids; so are links and bills.
LEMMA StoreSets ==
  ASSUME TypeOK
  PROVE  /\ \A z \in Zone : active[z].triggers \subseteq Sid
         /\ \A z \in Zone : global.linked[z] \subseteq Sid
         /\ \A z \in Zone : active[z].triggers \subseteq Charged
         /\ archived \subseteq Charged /\ Charged \subseteq Sid
BY DEF TypeOK, StoreTypeOK, Basket, GlobalSession, Charged, InBaskets, TriggersIn

\* add_trigger puts the trigger into one basket; what that basket held before
\* stays in it or is archived.  A visit links the basket as it is afterwards.
LEMMA AddedBaskets ==
  ASSUME TypeOK, NEW z \in Zone, NEW s \in Sid, AddTriggerWithGlobal(z, s)
  PROVE  /\ \A y \in Zone : y # z => active'[y].triggers = active[y].triggers
         /\ \/ /\ active'[z].triggers = {s} \cup active[z].triggers
               /\ archived' = archived
            \/ /\ active'[z].triggers = {s}
               /\ archived' = archived \cup active[z].triggers
         /\ \A y \in Zone : global'.linked[y] \in {global.linked[y], active'[y].triggers}
<1>1. active'[z] = Appended(z, s) /\ \A y \in Zone : y # z => active'[y] = active[y]
  BY DEF AddTriggerWithGlobal, TypeOK, StoreTypeOK
<1>2. Appended(z, s).triggers = {s} \cup IF Replaces(z) THEN {} ELSE active[z].triggers
  BY DEF Appended
<1>3. \A y \in Zone : global'.linked[y] \in {global.linked[y], active'[y].triggers}
  <2>1. CASE global.open
    <3> DEFINE T == Appended(z, s).triggers
               L == [global EXCEPT !.linked[z] = T]
    <3>1. L \in GlobalSession
      <4>1. T \in SUBSET Sid
        BY <1>2 DEF TypeOK, StoreTypeOK, Basket
      <4> QED BY <4>1, LinkedTypes DEF TypeOK, StoreTypeOK
    <3>2. TriggerSeen(L).linked = L.linked
      BY <3>1 DEF TriggerSeen, GlobalSession
    <3>3. \A y \in Zone : L.linked[y] = IF y = z THEN T ELSE global.linked[y]
      BY DEF TypeOK, StoreTypeOK, GlobalSession
    <3>4. global' = TriggerSeen(L)
      BY <2>1 DEF AddTriggerWithGlobal
    <3> HIDE DEF L
    <3> QED BY <1>1, <3>2, <3>3, <3>4
  <2>2. CASE ~global.open
    BY <2>2 DEF AddTriggerWithGlobal
  <2> QED BY <2>1, <2>2
<1>4. archived' = IF Replaces(z) THEN archived \cup active[z].triggers ELSE archived
  BY DEF AddTriggerWithGlobal
<1> QED BY <1>1, <1>2, <1>3, <1>4

\* Finalizing baskets moves their triggers to the archive.
LEMMA ClearedBaskets ==
  ASSUME NEW zones \in SUBSET Zone, FinalizeBaskets(zones)
  PROVE  /\ \A z \in Zone : active'[z].triggers = IF z \in zones THEN {} ELSE active[z].triggers
         /\ archived' = archived \cup UNION {active[z].triggers : z \in zones}
BY DEF FinalizeBaskets, NoBasket, TriggersIn

\* The store never forgets a trigger, and takes in only the one being added.
LEMMA ChargedStep ==
  ASSUME TypeOK, ChargeStep
  PROVE  /\ Charged \subseteq Charged'
         /\ Charged' = Charged \/ \E z \in Zone, s \in Sid : Added(z, s) /\ Charged' = Charged \cup {s}
<1> USE DEF Charged, InBaskets, TriggersIn
<1>1. CASE Unmoved
  BY <1>1 DEF Unmoved
<1>2. ASSUME NEW zones \in SUBSET Zone, FinalizeBaskets(zones)
      PROVE  Charged' = Charged
  BY <1>2, ClearedBaskets
<1>3. CASE Cleared \/ Billed
  BY <1>2, <1>3 DEF Cleared, Billed, FinalizeGlobalSession
<1>4. ASSUME NEW z \in Zone, NEW s \in Sid, Added(z, s)
      PROVE  Charged' = Charged \cup {s}
  BY <1>4, AddedBaskets DEF Added
<1> QED BY <1>1, <1>3, <1>4 DEF ChargeStep

-----------------------------------------------------------------------------

\* What makes ChargedAtMostOnce inductive: the store has taken in nothing that
\* is still held or not yet issued, and the links of a visit are triggers the
\* store has and no earlier bill has.
ChargeInv ==
  /\ ChargedAtMostOnce
  /\ \A s \in Charged : s <= issued
  /\ Held \cap Charged = {}
  /\ \A z \in Zone : global.linked[z] \subseteq Charged
  /\ \A z \in Zone, v \in Visit : global.linked[z] \cap bill[v] = {}

\* The part of ChargeInv about ids that are charged and held.
LEMMA ChargedIds ==
  ASSUME TypeOK, TypeOK', QueueOK, ChargeInv, [Next]_vars
  PROVE  /\ \A s \in Charged' : s <= issued'
         /\ Held' \cap Charged' = {}
         /\ \A z \in Zone, s \in Sid : Added(z, s) => s \notin Charged
<1>1. issued' \in {issued, issued + 1} /\ issued \in Nat
  BY HeldGrowth, HeldIds
<1>2. Charged \subseteq Nat
  BY StoreSets, HeldIds
<1>3. \A s \in Charged : s <= issued /\ s # issued + 1 /\ s <= issued'
  BY <1>1, <1>2 DEF ChargeInv
<1>4. \A z \in Zone, s \in Sid : Added(z, s) => s \notin Charged
  BY <1>3, HeldIds DEF Added, ChargeInv
<1>5. Held' \cap Charged = {}
  BY <1>3, HeldGrowth DEF ChargeInv
<1>6. CASE Charged' = Charged
  BY <1>3, <1>4, <1>5, <1>6
<1>7. ASSUME NEW z \in Zone, NEW s \in Sid, Added(z, s), Charged' = Charged \cup {s}
      PROVE  (\A t \in Charged' : t <= issued') /\ Held' \cap Charged' = {}
  BY <1>3, <1>5, <1>7 DEF Added
<1>8. ChargeStep
  BY StepCharge
<1> QED BY <1>4, <1>6, <1>7, <1>8, <1>3, <1>5, ChargedStep

\* Every step keeps ChargeInv.
LEMMA ChargeInvStep ==
  ASSUME TypeOK, TypeOK', QueueOK, ChargeInv, [Next]_vars
  PROVE  ChargeInv'
<1> USE DEF ChargedAtMostOnce
<1>1. ChargeStep
  BY StepCharge
<1>2. (\A s \in Charged' : s <= issued') /\ Held' \cap Charged' = {}
  BY ChargedIds
<1>3. InBaskets \cap archived = {} /\ InBaskets = UNION {active[z].triggers : z \in Zone}
  BY DEF ChargeInv, InBaskets, TriggersIn
<1>4. InBaskets' = UNION {active'[z].triggers : z \in Zone}
  BY DEF InBaskets, TriggersIn
<1>5. \A y, z \in Zone : y # z => active[y].triggers \cap active[z].triggers = {}
  BY DEF ChargeInv
<1>6. /\ \A v, w \in Visit : v # w => bill[v] \cap bill[w] = {}
      /\ \A v \in Visit : bill[v] \subseteq archived
  BY DEF ChargeInv
<1>7. /\ \A z \in Zone : global.linked[z] \subseteq Charged
      /\ \A z \in Zone, v \in Visit : global.linked[z] \cap bill[v] = {}
  BY DEF ChargeInv
<1>8. Charged \subseteq Charged'
  BY <1>1, ChargedStep
<1>9. ASSUME bill' = bill, archived \subseteq archived', LinkKept,
             \A y, z \in Zone : y # z => active'[y].triggers \cap active'[z].triggers = {},
             InBaskets' \cap archived' = {}
      PROVE  ChargeInv'
  <2>1. \A z \in Zone : global'.linked[z] \subseteq global.linked[z]
    BY <1>9 DEF LinkKept, NothingLinked
  <2> QED BY <1>2, <1>6, <1>7, <1>8, <1>9, <2>1 DEF ChargeInv
<1>10. CASE Unmoved
  BY <1>3, <1>4, <1>5, <1>9, <1>10 DEF Unmoved
<1>11. ASSUME NEW zones \in SUBSET Zone, FinalizeBaskets(zones)
       PROVE  /\ archived \subseteq archived'
              /\ \A y, z \in Zone : y # z => active'[y].triggers \cap active'[z].triggers = {}
              /\ InBaskets' \cap archived' = {}
  <2>1. /\ \A z \in Zone : active'[z].triggers = IF z \in zones THEN {} ELSE active[z].triggers
        /\ archived' = archived \cup UNION {active[z].triggers : z \in zones}
    BY <1>11, ClearedBaskets
  <2> QED BY <1>3, <1>4, <1>5, <2>1
<1>12. CASE Cleared
  BY <1>9, <1>11, <1>12 DEF Cleared
<1>13. CASE Billed
  <2> DEFINE joined == [z \in Zone |-> IF Exists(active[z]) THEN active[z].triggers
                                                            ELSE global.linked[z]]
             B == UNION {joined[z] : z \in Zone}
  <2>1. bill' = [bill EXCEPT ![visit] = B] /\ global' = NoGlobal /\ FinalizeBaskets(Zone)
    BY <1>13 DEF Billed, FinalizeGlobalSession
  <2>2. visit \in Visit /\ DOMAIN bill = Visit
    BY <1>13 DEF Billed, TypeOK, StoreTypeOK, Visit
  <2>3. archived' = archived \cup UNION {active[z].triggers : z \in Zone}
    BY <2>1, ClearedBaskets
  <2>4. archived' = Charged
    BY <1>3, <2>3 DEF Charged
  <2>5. B \subseteq Charged
    BY <1>3, <1>7 DEF Charged
  <2>6. \A v \in Visit : B \cap bill[v] = {}
    BY <1>3, <1>6, <1>7
  <2>7. \A v \in Visit : bill'[v] = IF v = visit THEN B ELSE bill[v]
    BY <2>1, <2>2
  <2>8. \A z \in Zone : global'.linked[z] = {}
    BY <2>1 DEF NoGlobal
  <2> HIDE DEF B
  <2>9. /\ \A v, w \in Visit : v # w => bill'[v] \cap bill'[w] = {}
        /\ \A v \in Visit : bill'[v] \subseteq archived'
    BY <1>6, <2>4, <2>5, <2>6, <2>7 DEF Charged
  <2> QED BY <1>2, <1>11, <2>1, <2>8, <2>9 DEF ChargeInv
<1>14. ASSUME NEW z \in Zone, NEW s \in Sid, Added(z, s) PROVE ChargeInv'
  <2>1. s \notin InBaskets /\ s \notin archived /\ bill' = bill
    BY <1>14, ChargedIds DEF Charged, Added
  <2>2. /\ \A y \in Zone : y # z => active'[y].triggers = active[y].triggers
        /\ \/ /\ active'[z].triggers = {s} \cup active[z].triggers
              /\ archived' = archived
           \/ /\ active'[z].triggers = {s}
              /\ archived' = archived \cup active[z].triggers
        /\ \A y \in Zone : global'.linked[y] \in {global.linked[y], active'[y].triggers}
    BY <1>14, AddedBaskets DEF Added
  <2>3. InBaskets' \cap archived' = {}
    BY <1>3, <1>4, <1>5, <2>1, <2>2
  <2>4. \A x, y \in Zone : x # y => active'[x].triggers \cap active'[y].triggers = {}
    BY <1>3, <1>5, <2>1, <2>2
  <2>5. \A y \in Zone : active'[y].triggers \subseteq Charged'
    BY <1>4 DEF Charged
  <2>6. \A y \in Zone, v \in Visit : active'[y].triggers \cap bill[v] = {}
    BY <1>3, <1>6, <2>1, <2>2
  <2>7. \A y \in Zone : global'.linked[y] \subseteq Charged'
    BY <1>7, <1>8, <2>2, <2>5
  <2>8. \A y \in Zone, v \in Visit : global'.linked[y] \cap bill'[v] = {}
    BY <1>7, <2>1, <2>2, <2>6
  <2>9. \A v \in Visit : bill'[v] \subseteq archived'
    BY <1>6, <2>1, <2>2
  <2> QED BY <1>2, <1>6, <2>1, <2>3, <2>4, <2>7, <2>8, <2>9 DEF ChargeInv
<1> QED BY <1>1, <1>10, <1>12, <1>13, <1>14 DEF ChargeStep

\* A trigger is charged at most once: over all uploads, polls, cleanups, forced
\* finalizations and visits, no trigger is in two bills, in two baskets, or in
\* a basket after it was billed or archived.
THEOREM NothingChargedTwice == Spec => []ChargedAtMostOnce
<1>1. Init => ChargeInv
  BY DEF Init, StoreInit, NoBasket, NoGlobal, IdleWorker, ChargeInv, ChargedAtMostOnce,
         Charged, InBaskets, TriggersIn, Held, Queued, AtWorker
<1>2. TypeOK /\ TypeOK' /\ QueueOK /\ ChargeInv /\ [Next]_vars => ChargeInv'
  BY ChargeInvStep
<1>3. ChargeInv => ChargedAtMostOnce
  BY DEF ChargeInv
<1> QED BY <1>1, <1>2, <1>3, TypeCorrect, HeldOnce, PTL DEF Spec

-----------------------------------------------------------------------------
(* Finished and cancelled removals. *)

\* Events of ids not issued yet are not there; the one the worker runs is in
\* processing where cancelled items are skipped; what a return may cancel, or
\* has cancelled, was not taken in.
EventInv ==
  /\ \A s \in Sid : s > issued => event[s] = "none"
  /\ CooperativeCancel /\ worker.pc = "video" => event[worker.item] = "processing"
  /\ CooperativeCancel =>
       \A s \in Sid : event[s] \in {"queued", "cancelled_by_return"} => s \notin Charged

\* How a step changes the event of an id.
EventStep(s) ==
  \/ event'[s] = event[s]
  \/ /\ s = issued + 1 /\ issued' = issued + 1
     /\ \/ event'[s] \notin {"complete", "cancelled_by_return", "queued"}
        \/ event'[s] = "queued" /\ s \in Held'
  \/ event[s] = "queued" /\ event'[s] = "cancelled_by_return" /\ UNCHANGED worker
  \/ WorkerStart /\ s = worker.item /\ event'[s] = "processing"
  \/ /\ WorkerSkipsCancelled /\ s = worker.item
     /\ event'[s] \in {"cancelled_by_return", "error"}
  \/ WorkerCompletes /\ s = worker.item /\ event'[s] \in {"complete", "error"}
  \/ /\ worker.pc = "video" /\ s = worker.item
     /\ event'[s] \in {"waiting", "error"} /\ worker'.pc \in {"idle", "dead"}

\* Every step changes the events in these ways only.
LEMMA StepEvents ==
  ASSUME TypeOK, [Next]_vars, NEW s \in Sid
  PROVE  EventStep(s)
<1> USE DEF EventStep
<1>1. CASE event' = event
  BY <1>1
<1>2. ASSUME NEW c \in Clip, Request(c) PROVE EventStep(s)
  <2>1. CASE ReturnBalanced(c)
    <3>1. PICK match \in Matches :
            event' = [t \in Sid |-> IF t \in {match[i] : i \in DOMAIN match}
                                      THEN "cancelled_by_return"
                                    ELSE IF t = issued + 1 THEN "balanced_out"
                                    ELSE event[t]]
      BY <2>1 DEF ReturnBalanced
    <3>2. {match[i] : i \in DOMAIN match} \subseteq Cancellable
      BY DEF Matches
    <3>3. worker' = worker
      BY <2>1 DEF ReturnBalanced, workVars
    <3>4. \A t \in Cancellable : event[t] = "queued"
      BY DEF Cancellable
    <3>5. issued' = issued + 1
      BY <2>1 DEF ReturnBalanced, Accepted
    <3> QED BY <3>1, <3>2, <3>3, <3>4, <3>5
  <2>2. CASE ReturnOnly(c) \/ QueueFull(c)
    <3>1. PICK st \in {"return_only", "error"} : NewEvent(st)
      BY <2>2 DEF ReturnOnly, QueueFull
    <3>2. issued' = issued + 1
      BY <2>2 DEF ReturnOnly, QueueFull, Accepted
    <3> QED BY <3>1, <3>2 DEF NewEvent, TypeOK
  <2>3. CASE EnqueueRemoval(c)
    <3>1. NewEvent("queued") /\ queue' = Append(queue, issued + 1) /\ issued' = issued + 1
      BY <2>3 DEF EnqueueRemoval, Accepted
    <3>2. CASE s = issued + 1
      <4>1. Queued' = Elements(queue') /\ queue \in Seq(Sid)
        BY DEF Queued, Elements, TypeOK
      <4>2. s \in Elements(queue')
        BY <3>1, <3>2, <4>1, AppendElements
      <4> QED BY <3>1, <3>2, <4>1, <4>2 DEF NewEvent, TypeOK, Held
    <3> QED BY <3>1, <3>2 DEF NewEvent, TypeOK
  <2> QED BY <1>1, <1>2, <2>1, <2>2, <2>3
       DEF Request, DuplicateRequest, InvalidRequest, UnstableReturn, UnstableRemoval,
           LowWeightVideo, LowWeightSkip, RepeatRemoval
<1>3. CASE Worker
  <2>1. CASE WorkerGet
    BY <2>1 DEF WorkerGet
  <2>2. CASE WorkerStart
    BY <2>2 DEF WorkerStart, TypeOK
  <2>3. CASE WorkerSkipsCancelled
    BY <2>3 DEF WorkerSkipsCancelled, Done, TypeOK
  <2>4. CASE WorkerCompletes
    BY <2>4 DEF WorkerCompletes, Done, TypeOK
  <2>5. CASE WorkerFindsConflict \/ WorkerErrs \/ WorkerDies
    BY <2>5 DEF WorkerFindsConflict, WorkerErrs, WorkerDies, Done, IdleWorker, TypeOK
  <2> QED BY <1>3, <2>1, <2>2, <2>3, <2>4, <2>5 DEF Worker
<1> QED
  BY <1>1, <1>2, <1>3
     DEF Next, Resume, ReturnStillUnstable, LowWeightVideoDone, LowWeightVideoFails,
         DoorOpens, DoorCloses, Cleanup, PollZone, OperatorFinalizes, Tick, vars, pipelineVars

\* The worker is at the video only after it started an item, or stays there.
LEMMA AtVideo ==
  ASSUME [Next]_vars, worker'.pc = "video"
  PROVE  WorkerStart \/ worker' = worker
<1>1. CASE Worker
  BY <1>1 DEF Worker, WorkerGet, WorkerSkipsCancelled, WorkerCompletes,
              WorkerFindsConflict, WorkerErrs, WorkerDies, Done, IdleWorker
<1>2. CASE \E c \in Clip : Request(c)
  BY <1>2 DEF Request, DuplicateRequest, InvalidRequest, UnstableReturn, UnstableRemoval,
              LowWeightVideo, LowWeightSkip, ReturnOnly, ReturnBalanced, RepeatRemoval,
              EnqueueRemoval, QueueFull, workVars
<1> QED
  BY <1>1, <1>2
     DEF Next, Resume, ReturnStillUnstable, LowWeightVideoDone, LowWeightVideoFails,
         DoorOpens, DoorCloses, Cleanup, PollZone, OperatorFinalizes, Tick,
         vars, pipelineVars, workVars

\* Every step keeps EventInv.
LEMMA EventInvStep ==
  ASSUME TypeOK, TypeOK', QueueOK, ChargeInv, EventInv, [Next]_vars
  PROVE  EventInv'
<1>1. issued \in Nat /\ issued' \in {issued, issued + 1} /\ Sid \subseteq Nat
  BY HeldIds, HeldGrowth
<1>2. worker.pc \in {"got", "video"} => worker.item \in Sid /\ worker.item <= issued
  BY DEF TypeOK, QueueOK, Held, AtWorker
<1>3. \A s \in Sid : EventStep(s)
  BY StepEvents
<1>4. ASSUME NEW s \in Sid, s > issued' PROVE event'[s] = "none"
  <2>1. s > issued /\ (s = issued + 1 => issued' = issued)
    BY <1>1, <1>4
  <2>2. event[s] = "none"
    BY <2>1 DEF EventInv
  <2>3. worker.pc \in {"got", "video"} => s # worker.item
    BY <1>1, <1>2, <2>1
  <2> QED BY <1>1, <1>3, <2>1, <2>2, <2>3
       DEF EventStep, WorkerStart, WorkerSkipsCancelled, WorkerCompletes
<1>5. ASSUME CooperativeCancel, worker'.pc = "video" PROVE event'[worker'.item] = "processing"
  <2>1. CASE WorkerStart
    <3>1. event[worker.item] # "cancelled_by_return" /\ worker'.item = worker.item
      BY <1>5, <2>1 DEF WorkerStart, SkipsItem, TypeOK
    <3>2. worker.item \in Sid
      BY <1>2, <2>1 DEF WorkerStart
    <3> QED BY <2>1, <3>1, <3>2 DEF WorkerStart, TypeOK
  <2>2. CASE ~WorkerStart
    <3>1. worker' = worker /\ worker.pc = "video"
      BY <1>5, <2>2, AtVideo
    <3>2. event[worker.item] = "processing" /\ worker.item \in Sid /\ worker.item # issued + 1
      BY <1>1, <1>2, <1>5, <3>1 DEF EventInv
    <3> QED BY <1>3, <2>2, <3>1, <3>2
         DEF EventStep, WorkerSkipsCancelled, WorkerCompletes, Done, IdleWorker
  <2> QED BY <2>1, <2>2
<1>6. ASSUME CooperativeCancel, NEW s \in Sid, event'[s] \in {"queued", "cancelled_by_return"}
      PROVE  s \notin Charged'
  <2>1. s \notin Charged
    <3>1. CASE s = issued + 1
      BY <1>1, <3>1 DEF ChargeInv
    <3>2. CASE s # issued + 1
      <4>1. event[s] \in {"queued", "cancelled_by_return"}
        BY <1>3, <1>6, <3>2 DEF EventStep, WorkerSkipsCancelled, SkipsItem
      <4> QED BY <1>6, <4>1 DEF EventInv
    <3> QED BY <3>1, <3>2
  <2>2. ASSUME NEW z \in Zone, NEW t \in Sid, Added(z, t) PROVE t # s
    <3>1. CASE WorkerCompletes /\ t = worker.item
      <4>1. event'[t] \in {"complete", "error"}
        BY <3>1 DEF WorkerCompletes, Done, TypeOK
      <4> QED BY <1>6, <4>1
    <3>2. CASE t = issued + 1
      <4>1. event[t] = "none" /\ t \notin Held'
        BY <1>1, <2>2, <3>2 DEF EventInv, Added
      <4>2. worker.pc \in {"got", "video"} => t # worker.item
        BY <1>1, <1>2, <3>2
      <4>3. event'[t] \notin {"queued", "cancelled_by_return"}
        BY <1>3, <4>1, <4>2 DEF EventStep, WorkerStart, WorkerSkipsCancelled, WorkerCompletes
      <4> QED BY <1>6, <4>3
    <3> QED BY <2>2, <3>1, <3>2 DEF Added
  <2>3. ChargeStep
    BY StepCharge
  <2> QED BY <2>1, <2>2, <2>3, ChargedStep
<1> QED BY <1>4, <1>5, <1>6 DEF EventInv

\* The invariants the two theorems below rest on hold in every reachable state.
LEMMA ChargeInvariants == Spec => [](TypeOK /\ QueueOK /\ ChargeInv /\ EventInv)
<1>1. Init => ChargeInv /\ EventInv
  BY DEF Init, StoreInit, NoBasket, NoGlobal, IdleWorker, ChargeInv, ChargedAtMostOnce,
         Charged, InBaskets, TriggersIn, Held, Queued, AtWorker, EventInv
<1>2. TypeOK /\ TypeOK' /\ QueueOK /\ ChargeInv /\ EventInv /\ [Next]_vars
        => ChargeInv' /\ EventInv'
  BY ChargeInvStep, EventInvStep
<1> QED BY <1>1, <1>2, TypeCorrect, HeldOnce, PTL DEF Spec

\* What the worker finished is in a basket or in one that was archived: no
\* timeout, cleanup, forced finalization or visit loses it.
THEOREM FinishedWorkIsKept == Spec => []CompletedIsKept
<1>1. Init => CompletedIsKept
  BY DEF Init, CompletedIsKept
<1>2. ASSUME TypeOK, TypeOK', QueueOK, CompletedIsKept, [Next]_vars PROVE CompletedIsKept'
  <2> SUFFICES ASSUME NEW s \in Sid, event'[s] = "complete" PROVE s \in Charged'
    BY DEF CompletedIsKept, Charged
  <2>1. ChargeStep
    BY <1>2, StepCharge
  <2>2. CASE event[s] = "complete"
    BY <1>2, <2>1, <2>2, ChargedStep DEF CompletedIsKept, Charged
  <2>3. CASE WorkerCompletes /\ s = worker.item
    <3>1. zoneOf[s] \in Zone /\ AddTriggerWithGlobal(zoneOf[s], s)
      BY <1>2, <2>3 DEF WorkerCompletes, TypeOK
    <3>2. s \in active'[zoneOf[s]].triggers
      BY <1>2, <3>1, AddedBaskets
    <3> QED BY <3>1, <3>2 DEF Charged, InBaskets, TriggersIn
  <2> QED BY <1>2, <2>2, <2>3, StepEvents DEF EventStep
<1> QED BY <1>1, <1>2, TypeCorrect, HeldOnce, PTL DEF Spec

\* Where the worker skips cancelled items, a removal that a return cancelled is
\* never put into a basket: not by the step that cancels it, whatever the
\* worker is doing, and not by a later one.
THEOREM CancelledStaysOut ==
  ASSUME CooperativeCancel
  PROVE  Spec => CancelledNeverCharged
<1> DEFINE Out == \A s \in Sid : "cancelled_by_return" \in {event[s], event'[s]} =>
                    s \notin (InBaskets \cup archived)'
<1>1. ASSUME TypeOK, QueueOK, ChargeInv, EventInv, EventInv', [Next]_vars PROVE Out
  <2> SUFFICES ASSUME NEW s \in Sid, "cancelled_by_return" \in {event[s], event'[s]}
               PROVE  s \notin Charged'
    BY DEF Charged
  <2>1. CASE event'[s] = "cancelled_by_return"
    BY <1>1, <2>1 DEF EventInv
  <2>2. CASE event[s] = "cancelled_by_return" /\ event'[s] # event[s]
    <3>1. s \notin Charged /\ s # issued + 1
      BY <1>1, <2>2, HeldIds DEF EventInv
    <3>2. ~(worker.pc = "video" /\ s = worker.item)
      BY <1>1, <2>2 DEF EventInv
    <3>3. ~(WorkerStart /\ s = worker.item)
      BY <2>2 DEF WorkerStart, SkipsItem
    <3>4. WorkerSkipsCancelled
      BY <1>1, <2>2, <3>1, <3>2, <3>3, StepEvents DEF EventStep, WorkerCompletes
    <3> QED BY <3>1, <3>4 DEF WorkerSkipsCancelled, Charged, InBaskets, TriggersIn
  <2> QED BY <2>1, <2>2
<1> QED BY <1>1, ChargeInvariants, PTL DEF Spec, CancelledNeverCharged
-----------------------------------------------------------------------------
(* What is charged and what was answered. *)

\* A handler that waits has no event: its request was not queued.
NoEventYet == \A w \in suspended : event[w.sid] = "none"

\* The event of an issued id that is neither queued nor at the worker stays: only
\* a return touches a queued one, and only the worker its own.
LEMMA EventStays ==
  ASSUME TypeOK, QueueOK, [Next]_vars, NEW s \in Sid,
         s <= issued, s \notin Held, event[s] # "queued"
  PROVE  event'[s] = event[s]
<1>1. s # issued + 1
  BY HeldIds
<1>2. ~(worker.pc \in {"got", "video"} /\ s = worker.item)
  BY DEF Held, AtWorker
<1> QED BY <1>1, <1>2, StepEvents
     DEF EventStep, WorkerStart, WorkerSkipsCancelled, WorkerCompletes

\* Only an unsettled return and a low-weight video make a handler wait, both with
\* the id their request was issued.
LEMMA NewlySuspended ==
  ASSUME [Next]_vars, NEW w \in suspended', w \notin suspended
  PROVE  \E c \in Clip : /\ UnstableReturn(c) \/ LowWeightVideo(c)
                         /\ w.sid = issued + 1
<1>1. CASE \E c \in Clip : Request(c)
  <2>1. PICK c \in Clip : Request(c)
    BY <1>1
  <2>2. UnstableReturn(c) \/ LowWeightVideo(c)
    BY <2>1 DEF Request, DuplicateRequest, InvalidRequest, UnstableRemoval,
                LowWeightSkip, ReturnOnly, ReturnBalanced, RepeatRemoval,
                EnqueueRemoval, QueueFull
  <2>3. w.sid = issued + 1
    BY <2>2 DEF UnstableReturn, LowWeightVideo
  <2> QED BY <2>2, <2>3
<1>2. CASE Worker
  BY <1>2 DEF Worker, WorkerGet, WorkerStart, WorkerSkipsCancelled, WorkerCompletes,
              WorkerFindsConflict, WorkerErrs, WorkerDies, Done
<1> QED
  BY <1>1, <1>2
     DEF Next, Resume, ReturnStillUnstable, LowWeightVideoDone, LowWeightVideoFails,
         DoorOpens, DoorCloses, Cleanup, PollZone, OperatorFinalizes, Tick,
         vars, pipelineVars

\* Every step keeps NoEventYet.
LEMMA NoEventYetStep ==
  ASSUME TypeOK, QueueOK, EventInv, Unanswered, NoEventYet, [Next]_vars
  PROVE  NoEventYet'
<1>1. ASSUME NEW w \in suspended PROVE event'[w.sid] = "none"
  <2>1. w.sid \in Sid /\ w.sid <= issued /\ w.sid \notin Held /\ event[w.sid] = "none"
    BY DEF TypeOK, Suspension, Unanswered, NoEventYet
  <2> QED BY <2>1, EventStays
<1>2. ASSUME NEW w \in suspended', w \notin suspended PROVE event'[w.sid] = "none"
  <2>1. PICK c \in Clip : (UnstableReturn(c) \/ LowWeightVideo(c)) /\ w.sid = issued + 1
    BY <1>2, NewlySuspended
  <2>2. event' = event /\ issued + 1 \in Sid
    BY <2>1, AcceptedWork DEF UnstableReturn, LowWeightVideo
  <2>3. event[issued + 1] = "none"
    BY <2>2, HeldIds DEF EventInv
  <2> QED BY <2>1, <2>2, <2>3
<1> QED BY <1>1, <1>2 DEF NoEventYet

\* Who is newly charged is answered in the same step: by the handler of a
\* return or a repeat removal, or by the worker, which has an error left to
\* report only when the trace failed.
LEMMA NewlyCharged ==
  ASSUME TypeOK, TypeOK', QueueOK, [Next]_vars, NEW s \in Charged', s \notin Charged
  PROVE  \/ status'[s] = "complete"
         \/ TraceCanFail /\ status'[s] = "error" /\ event'[s] = "error"
<1>1. PICK z \in Zone, t \in Sid : Added(z, t) /\ Charged' = Charged \cup {t}
  BY StepCharge, ChargedStep
<1>2. s = t
  BY <1>1
<1>3. CASE WorkerCompletes /\ s = worker.item
  BY <1>2, <1>3 DEF WorkerCompletes, Done, TypeOK
<1>4. CASE s = issued + 1
  <2>1. issued' # issued
    BY <1>1, <1>2, <1>4, HeldIds DEF Added
  <2>2. ~(\E w \in suspended : Resume(w)) /\ ~Worker
    BY <2>1 DEF Resume, ReturnStillUnstable, LowWeightVideoDone, LowWeightVideoFails,
            Worker, WorkerGet, WorkerStart, WorkerSkipsCancelled, WorkerCompletes,
            WorkerFindsConflict, WorkerErrs, WorkerDies, Done, requestVars
  <2>3. PICK c \in Clip : Request(c)
    BY <2>1, <2>2 DEF Next, DoorOpens, DoorCloses, Cleanup, PollZone, OperatorFinalizes, Tick,
                      vars, pipelineVars, requestVars
  <2>4. ~(UNCHANGED <<active, archived>>)
    BY DEF Charged, InBaskets, TriggersIn
  <2>5. ReturnOnly(c) \/ RepeatRemoval(c)
    BY <2>3, <2>4
       DEF Request, DuplicateRequest, InvalidRequest, UnstableReturn, UnstableRemoval,
           LowWeightVideo, LowWeightSkip, ReturnBalanced, EnqueueRemoval, QueueFull, storeVars
  <2>6. status' = [status EXCEPT ![issued + 1] = "complete"]
    BY <2>5 DEF ReturnOnly, RepeatRemoval, NewStatus
  <2>7. s \in DOMAIN status
    BY <1>2 DEF TypeOK
  <2> QED BY <1>4, <2>6, <2>7
<1> QED BY <1>1, <1>2, <1>3, <1>4 DEF Added

\* Who is newly answered as complete is charged in the same step, or is one of
\* those that are never charged.
LEMMA NewlyAnswered ==
  ASSUME TypeOK, TypeOK', QueueOK, EventInv, NoEventYet, [Next]_vars, NEW s \in Sid,
         status'[s] = "complete", status[s] # "complete"
  PROVE  s \in Charged' \/ event'[s] \in {"none", "cancelled_by_return", "balanced_out"}
<1>1. ASSUME NEW z \in Zone, AddTriggerWithGlobal(z, s) PROVE s \in Charged'
  BY <1>1, AddedBaskets DEF Charged, InBaskets, TriggersIn
<1>2. ASSUME NEW c \in Clip, Request(c)
      PROVE  s \in Charged' \/ event'[s] \in {"none", "balanced_out"}
  <2>1. CASE UNCHANGED status
    BY <2>1
  <2>2. CASE \E r, d : Accepted(r, c, d)
    <3>1. issued + 1 \in Sid /\ ClipZone[c] \in Zone /\ event[issued + 1] = "none"
      BY <2>2, AcceptedWork, HeldIds, PipelineAssumption DEF EventInv
    <3>2. s = issued + 1 \/ UNCHANGED status
      BY <1>2, <3>1
         DEF Request, DuplicateRequest, InvalidRequest, UnstableReturn, UnstableRemoval,
             LowWeightVideo, LowWeightSkip, ReturnOnly, ReturnBalanced, RepeatRemoval,
             EnqueueRemoval, QueueFull, NewStatus, TypeOK
    <3>3. CASE ReturnOnly(c) \/ RepeatRemoval(c)
      BY <1>1, <3>1, <3>2, <3>3 DEF ReturnOnly, RepeatRemoval
    <3>4. CASE LowWeightSkip(c)
      BY <3>1, <3>2, <3>4 DEF LowWeightSkip
    <3>5. CASE ReturnBalanced(c)
      <4>1. PICK match \in Matches :
              event' = [t \in Sid |-> IF t \in {match[i] : i \in DOMAIN match}
                                        THEN "cancelled_by_return"
                                      ELSE IF t = issued + 1 THEN "balanced_out"
                                      ELSE event[t]]
        BY <3>5 DEF ReturnBalanced
      <4>2. {match[i] : i \in DOMAIN match} \subseteq Cancellable
        BY DEF Matches
      <4>3. issued + 1 \notin Cancellable
        BY <3>1 DEF Cancellable
      <4> QED BY <3>1, <3>2, <4>1, <4>2, <4>3
    <3>6. CASE \/ UnstableReturn(c) \/ UnstableRemoval(c) \/ LowWeightVideo(c)
               \/ EnqueueRemoval(c) \/ QueueFull(c)
      BY <3>1, <3>2, <3>6 DEF UnstableReturn, UnstableRemoval, LowWeightVideo,
                              EnqueueRemoval, QueueFull, NewStatus, TypeOK
    <3> QED BY <1>2, <2>1, <3>3, <3>4, <3>5, <3>6
         DEF Request, DuplicateRequest, InvalidRequest
  <2> QED
    BY <1>2, <2>1, <2>2
       DEF Request, DuplicateRequest, InvalidRequest, UnstableReturn, UnstableRemoval,
           LowWeightVideo, LowWeightSkip, ReturnOnly, ReturnBalanced, RepeatRemoval,
           EnqueueRemoval, QueueFull
<1>3. ASSUME NEW w \in suspended, Resume(w) PROVE event'[s] = "none"
  <2>1. s = w.sid /\ event' = event
    BY <1>3 DEF Resume, ReturnStillUnstable, LowWeightVideoDone, LowWeightVideoFails, TypeOK
  <2> QED BY <2>1 DEF NoEventYet
<1>4. CASE Worker
  <2>1. CASE WorkerCompletes
    <3>1. s = worker.item /\ zoneOf[s] \in Zone
      BY <2>1 DEF WorkerCompletes, Done, TypeOK
    <3> QED BY <1>1, <2>1, <3>1 DEF WorkerCompletes
  <2>2. CASE WorkerSkipsCancelled
    BY <2>2 DEF WorkerSkipsCancelled, Done, TypeOK
  <2>3. CASE WorkerGet \/ WorkerStart \/ WorkerFindsConflict \/ WorkerErrs \/ WorkerDies
    BY <2>3 DEF WorkerGet, WorkerStart, WorkerFindsConflict, WorkerErrs, WorkerDies, Done, TypeOK
  <2> QED BY <1>4, <2>1, <2>2, <2>3 DEF Worker
<1> QED
  BY <1>2, <1>3, <1>4
     DEF Next, DoorOpens, DoorCloses, Cleanup, PollZone, OperatorFinalizes, Tick,
         vars, pipelineVars

\* Every step keeps AnswersMatchCharges.
LEMMA AnswersMatchStep ==
  ASSUME TypeOK, TypeOK', QueueOK, ChargeInv, EventInv, Unanswered, NoEventYet,
         AnswersMatchCharges, [Next]_vars
  PROVE  AnswersMatchCharges'
<1>1. ASSUME NEW s \in Sid, s \in Charged'
      PROVE  \/ status'[s] = "complete"
             \/ TraceCanFail /\ status'[s] = "error" /\ event'[s] = "error"
  <2>1. CASE s \in Charged
    <3>1. \/ status[s] = "complete"
          \/ TraceCanFail /\ status[s] = "error" /\ event[s] = "error"
      BY <2>1 DEF AnswersMatchCharges, Charged
    <3>2. status'[s] = status[s]
      BY <3>1, UnansweredStep
    <3>3. s <= issued /\ s \notin Held
      BY <2>1 DEF ChargeInv
    <3> QED BY <3>1, <3>2, <3>3, EventStays
  <2> QED BY <1>1, <2>1, NewlyCharged
<1>2. ASSUME NEW s \in Sid, status'[s] = "complete",
             event'[s] \notin {"none", "cancelled_by_return", "balanced_out"}
      PROVE  s \in Charged'
  <2>1. CASE status[s] = "complete"
    <3>1. s <= issued /\ s \notin Held
      BY <2>1, HeldIds DEF Unanswered
    <3>2. CASE event[s] = "queued" \/ event'[s] = event[s]
      <4>1. event[s] \notin {"none", "cancelled_by_return", "balanced_out"}
        BY <1>2, <3>2
      <4>2. s \in Charged
        BY <2>1, <4>1 DEF AnswersMatchCharges, Charged
      <4> QED BY <4>2, StepCharge, ChargedStep
    <3> QED BY <3>1, <3>2, EventStays
  <2> QED BY <1>2, <2>1, NewlyAnswered
<1> QED BY <1>1, <1>2 DEF AnswersMatchCharges, Charged

\* What the cabinet was told is what is charged, in every configuration: with
\* returns that cancel, handlers that overlap, a queue that is full, baskets
\* that time out, and traces that cannot be written, where a charged trigger may
\* be answered as an error and nothing else may happen.
THEOREM AnswersAreCharges == Spec => []AnswersMatchCharges
<1>1. Init => Unanswered /\ NoEventYet /\ AnswersMatchCharges
  BY StoreAssumption
     DEF Init, StoreInit, NoBasket, Unanswered, NoEventYet, AnswersMatchCharges,
         InBaskets, TriggersIn, Held, Queued, AtWorker, IdleWorker
<1>2. TypeOK /\ TypeOK' /\ QueueOK /\ Unanswered /\ [Next]_vars => Unanswered'
  BY UnansweredStep
<1>3. TypeOK /\ QueueOK /\ EventInv /\ Unanswered /\ NoEventYet /\ [Next]_vars => NoEventYet'
  BY NoEventYetStep
<1>4. TypeOK /\ TypeOK' /\ QueueOK /\ ChargeInv /\ EventInv /\ Unanswered
        /\ NoEventYet /\ AnswersMatchCharges /\ [Next]_vars => AnswersMatchCharges'
  BY AnswersMatchStep
<1> QED BY <1>1, <1>2, <1>3, <1>4, ChargeInvariants, PTL DEF Spec

-----------------------------------------------------------------------------
(* Visits. *)

\* Nothing opens the CLOSE gate early, leaks an entry or ends a visit that is
\* not closed: what the promises about whole visits rest on.
Orderly == Gated /\ ~TraceCanFail /\ ~ExpireVisits

\* The visit a request belongs to that comes now.
Current == IF global.open THEN visit ELSE 0

-----------------------------------------------------------------------------
(* What a step does to the visit and to the homes of the triggers. *)

DoorKept == global'.open = global.open /\ UNCHANGED <<visit, outcome>>

Opened ==
  /\ ~global.open /\ global'.open
  /\ visit' = visit + 1
  /\ global'.linked = NothingLinked
  /\ UNCHANGED <<active, bill, outcome, home, Held>>

VisitStep ==
  /\ \A s \in Sid : \/ home'[s] = home[s]
                    \/ s = issued + 1 /\ issued' = issued + 1 /\ home'[s] = Current
  /\ \/ DoorKept
     \/ Opened
     \/ CloseFinalizes /\ UNCHANGED pipelineVars
     \/ ExpireVisits

\* add_trigger leaves the visit open or not; during one no basket is replaced.
LEMMA AddedOpen ==
  ASSUME TypeOK, NEW z \in Zone, NEW s \in Sid, AddTriggerWithGlobal(z, s)
  PROVE  /\ global'.open = global.open
         /\ global.open => active'[z].triggers = {s} \cup active[z].triggers
<1>1. Appended(z, s).triggers \in SUBSET Sid
  BY DEF Appended, TypeOK, StoreTypeOK, Basket
<1>2. ASSUME global.open PROVE global'.open = global.open
  <2> DEFINE L == [global EXCEPT !.linked[z] = Appended(z, s).triggers]
  <2>1. L \in GlobalSession /\ L.open = global.open
    BY <1>1, LinkedTypes DEF TypeOK, StoreTypeOK
  <2>2. global' = TriggerSeen(L)
    BY <1>2 DEF AddTriggerWithGlobal
  <2> HIDE DEF L
  <2> QED BY <2>1, <2>2 DEF TriggerSeen, GlobalSession
<1>3. ASSUME global.open PROVE active'[z].triggers = {s} \cup active[z].triggers
  <2>1. active'[z] = Appended(z, s)
    BY DEF AddTriggerWithGlobal, TypeOK, StoreTypeOK
  <2> QED BY <1>3, <2>1 DEF Appended, Replaces
<1> QED BY <1>2, <1>3 DEF AddTriggerWithGlobal

\* A request leaves the visit as it is; its id belongs to that visit.
LEMMA RequestVisit ==
  ASSUME TypeOK, NEW c \in Clip, Request(c)
  PROVE  VisitStep
<1>1. \/ home' = home
      \/ issued' = issued + 1 /\ home' = [home EXCEPT ![issued + 1] = Current]
  BY DEF Request, DuplicateRequest, InvalidRequest, UnstableReturn, UnstableRemoval,
         LowWeightVideo, LowWeightSkip, ReturnOnly, ReturnBalanced, RepeatRemoval,
         EnqueueRemoval, QueueFull, requestVars, Accepted, Current
<1>2. UNCHANGED <<visit, outcome>>
  BY DEF Request, DuplicateRequest, InvalidRequest, UnstableReturn, UnstableRemoval,
         LowWeightVideo, LowWeightSkip, ReturnOnly, ReturnBalanced, RepeatRemoval,
         EnqueueRemoval, QueueFull, storeVars
<1>3. global'.open = global.open
  <2>1. \/ global' = global \/ global' = TriggerSeen(global)
        \/ \E z \in Zone, s \in Sid : AddTriggerWithGlobal(z, s)
    <3>1. CASE ReturnOnly(c) \/ RepeatRemoval(c)
      <4>1. PICK r \in ReadingClass, d \in LookedUp(dedup) :
              Accepted(r, c, d) /\ AddTriggerWithGlobal(ClipZone[c], issued + 1)
        BY <3>1 DEF ReturnOnly, RepeatRemoval, ReadingClass
      <4>2. issued + 1 \in Sid
        BY <4>1, AcceptedWork
      <4> QED BY <4>1, <4>2, PipelineAssumption
    <3>2. CASE ~(ReturnOnly(c) \/ RepeatRemoval(c))
      BY <3>2 DEF Request, DuplicateRequest, InvalidRequest, UnstableReturn, UnstableRemoval,
                  LowWeightVideo, LowWeightSkip, ReturnBalanced, EnqueueRemoval, QueueFull, storeVars
    <3> QED BY <3>1, <3>2
  <2>2. TriggerSeen(global).open = global.open
    BY DEF TriggerSeen, TypeOK, StoreTypeOK, GlobalSession
  <2>3. ASSUME NEW z \in Zone, NEW s \in Sid, AddTriggerWithGlobal(z, s)
        PROVE  global'.open = global.open
    BY <2>3, AddedOpen
  <2> QED BY <2>1, <2>2, <2>3
<1> QED BY <1>1, <1>2, <1>3 DEF VisitStep, DoorKept, TypeOK

\* So does every other step, but OPEN, the last CLOSE and the expiry.
LEMMA StepVisit ==
  ASSUME TypeOK, TypeOK', [Next]_vars
  PROVE  VisitStep
<1> USE DEF VisitStep
<1>1. CASE \E c \in Clip : Request(c)
  BY <1>1, RequestVisit
<1>2. CASE UNCHANGED storeVars /\ UNCHANGED home
  BY <1>2 DEF storeVars, DoorKept
<1>3. CASE \E w \in suspended : Resume(w)
  BY <1>2, <1>3 DEF Resume, ReturnStillUnstable, LowWeightVideoDone, LowWeightVideoFails, requestVars
<1>4. CASE Worker
  <2>1. CASE WorkerCompletes
    <3>1. worker.item \in Sid /\ zoneOf[worker.item] \in Zone
      BY <2>1 DEF WorkerCompletes, TypeOK
    <3>2. global'.open = global.open
      BY <2>1, <3>1, AddedOpen DEF WorkerCompletes
    <3> QED BY <2>1, <3>2 DEF WorkerCompletes, Done, requestVars, DoorKept
  <2>2. CASE ~WorkerCompletes
    BY <1>4, <2>2 DEF Worker, WorkerGet, WorkerStart, WorkerSkipsCancelled, WorkerFindsConflict,
              WorkerErrs, WorkerDies, Done, storeVars, requestVars, DoorKept
  <2> QED BY <2>1, <2>2
<1>5. CASE DoorOpens
  <2>1. global'.open /\ global'.linked = NothingLinked /\ Held' = Held
    BY <1>5 DEF DoorOpens, GetOrStartGlobalSession, NoGlobal, NothingLinked, pipelineVars, workVars,
                Held, Queued, AtWorker
  <2> QED BY <1>5, <2>1 DEF DoorOpens, GetOrStartGlobalSession, Opened, pipelineVars, requestVars
<1>6. CASE DoorCloses
  <2>1. CASE CloseBlocked \/ CloseFirst \/ CloseWaits
    <3>1. global'.open = global.open
      BY <2>1 DEF CloseBlocked, CloseFirst, CloseWaits, TypeOK, StoreTypeOK, GlobalSession
    <3> QED BY <1>6, <2>1, <3>1 DEF CloseBlocked, CloseFirst, CloseWaits, DoorKept,
                                    DoorCloses, pipelineVars, requestVars
  <2>2. CASE CloseFinalizes
    BY <1>6, <2>2 DEF DoorCloses, pipelineVars, requestVars
  <2> QED BY <1>6, <2>1, <2>2 DEF DoorCloses, HandleDoorClose
<1>7. CASE Cleanup
  BY <1>7 DEF Cleanup, CleanupVisit, CleanupBaskets, DoorKept, pipelineVars, requestVars
<1>8. CASE \E z \in Zone : PollZone(z) \/ OperatorFinalizes(z)
  BY <1>8 DEF PollZone, GetOrFinalize, OperatorFinalizes, FinalizeSession, DoorKept,
              pipelineVars, requestVars
<1>9. CASE Tick
  <2>1. global'.open = global.open
    BY <1>9 DEF Tick, StoreTick, TypeOK, StoreTypeOK, GlobalSession
  <2> QED BY <1>9, <2>1 DEF Tick, StoreTick, DoorKept, requestVars
<1>10. CASE UNCHANGED vars
  BY <1>2, <1>10 DEF vars, pipelineVars, requestVars
<1> QED BY <1>1, <1>3, <1>4, <1>5, <1>6, <1>7, <1>8, <1>9, <1>10 DEF Next

-----------------------------------------------------------------------------
(* A bill has only what belongs to its visit. *)

\* Triggers that may still be billed.
Live == Held \cup InBaskets \cup UNION {global.linked[z] : z \in Zone}

\* Outside a visit nothing is live that a visit began; during one, nothing
\* that an earlier visit began.
VisitInv ==
  /\ \A s \in Sid : home[s] <= visit /\ (s > issued => home[s] = 0)
  /\ \A s \in Live : home[s] \in {0, Current}
  /\ BilledToOwnVisit

\* Every visit so far has ended, but the one that is on; of that one, what the
\* worker judged is in a basket, and its links are the baskets.
BilledInv ==
  /\ \A v \in Visit : outcome[v] # "none" => v <= visit /\ ~(global.open /\ v = visit)
  /\ global.open =>
       /\ \A s \in Sid : home[s] = visit /\ event[s] = "complete" => s \in InBaskets
       /\ \A z \in Zone : global.linked[z] \subseteq active[z].triggers
  /\ VisitBillsItsTriggers

\* A step makes nothing live but the trigger of a request.
LEMMA LiveGrowth ==
  ASSUME TypeOK, TypeOK', QueueOK, [Next]_vars
  PROVE  \A s \in Live' : s \in Live \/ (s = issued + 1 /\ issued' = issued + 1)
<1> USE DEF Live, InBaskets, TriggersIn
<1>1. /\ issued' \in {issued, issued + 1} /\ issued \in Nat
      /\ \A s \in Held' : s \in Held \/ (s = issued + 1 /\ issued' = issued + 1)
  BY HeldGrowth, HeldIds
<1>2. ChargeStep
  BY StepCharge
<1>3. ASSUME LinkKept, NEW z \in Zone PROVE global'.linked[z] \subseteq global.linked[z]
  BY <1>3 DEF LinkKept, NothingLinked
<1>4. CASE Unmoved
  BY <1>1, <1>3, <1>4 DEF Unmoved
<1>5. ASSUME NEW zones \in SUBSET Zone, FinalizeBaskets(zones)
      PROVE  \A z \in Zone : active'[z].triggers \subseteq active[z].triggers
  BY <1>5, ClearedBaskets
<1>6. CASE Cleared
  BY <1>1, <1>3, <1>5, <1>6 DEF Cleared
<1>7. CASE Billed
  <2>1. FinalizeBaskets(Zone) /\ \A z \in Zone : global'.linked[z] = {}
    BY <1>7 DEF Billed, FinalizeGlobalSession, NoGlobal
  <2> QED BY <1>1, <1>5, <2>1
<1>8. ASSUME NEW z \in Zone, NEW t \in Sid, Added(z, t)
      PROVE  \A s \in Live' : s \in Live \/ (s = issued + 1 /\ issued' = issued + 1)
  <2>1. t \in Held \/ (t = issued + 1 /\ issued' = issued + 1)
    BY <1>1, <1>8, HeldIds DEF Added
  <2>2. /\ \A y \in Zone : active'[y].triggers \subseteq {t} \cup active[y].triggers
        /\ \A y \in Zone : global'.linked[y] \in {global.linked[y], active'[y].triggers}
    BY <1>8, AddedBaskets DEF Added
  <2> QED BY <1>1, <2>1, <2>2
<1> QED BY <1>2, <1>4, <1>6, <1>7, <1>8 DEF ChargeStep

\* Live triggers are ids, issued ones.
LEMMA LiveIds ==
  ASSUME TypeOK, QueueOK, ChargeInv
  PROVE  \A s \in Live : s \in Sid /\ s <= issued
<1>1. \A s \in Charged : s \in Sid /\ s <= issued
  BY StoreSets DEF ChargeInv
<1>2. \A s \in Held : s \in Sid /\ s <= issued
  BY HeldIds DEF QueueOK
<1> QED BY <1>1, <1>2 DEF Live, Charged, ChargeInv

\* The last CLOSE of a visit leaves nothing live.
LEMMA CloseLeavesNothing ==
  ASSUME TypeOK, RegistryMatchesWork, CloseFinalizes, UNCHANGED pipelineVars
  PROVE  Held = {} /\ Held' = {} /\ Live' = {}
<1>1. Held = {}
  BY DEF CloseFinalizes, RegistryMatchesWork
<1>2. Held' = Held
  BY DEF pipelineVars, workVars, Held, Queued, AtWorker
<1>3. FinalizeBaskets(Zone) /\ \A z \in Zone : global'.linked[z] = {}
  BY DEF CloseFinalizes, FinalizeGlobalSession, NoGlobal
<1>4. \A z \in Zone : active'[z].triggers = {}
  BY <1>3, ClearedBaskets
<1> QED BY <1>1, <1>2, <1>3, <1>4 DEF Live, InBaskets, TriggersIn

\* What FinalizeGlobalSession bills: baskets, and links of zones without one.
LEMMA BillIs ==
  ASSUME TypeOK, Billed
  PROVE  /\ visit \in Visit
         /\ \A v \in Visit : v # visit => bill'[v] = bill[v]
         /\ bill'[visit] \subseteq InBaskets \cup UNION {global.linked[z] : z \in Zone}
         /\ InBaskets \subseteq bill'[visit]
         /\ (\A z \in Zone : global.linked[z] \subseteq active[z].triggers)
               => bill'[visit] = InBaskets
<1> DEFINE joined == [z \in Zone |-> IF Exists(active[z]) THEN active[z].triggers
                                                          ELSE global.linked[z]]
           B == UNION {joined[z] : z \in Zone}
<1>1. bill' = [bill EXCEPT ![visit] = B]
  BY DEF Billed, FinalizeGlobalSession
<1>2. visit \in Visit /\ DOMAIN bill = Visit
  BY DEF Billed, TypeOK, StoreTypeOK, Visit
<1>3. \A z \in Zone : /\ active[z].triggers \subseteq joined[z]
                       /\ joined[z] \subseteq active[z].triggers \cup global.linked[z]
  BY DEF Exists
<1>4. B \subseteq InBaskets \cup UNION {global.linked[z] : z \in Zone} /\ InBaskets \subseteq B
  BY <1>3 DEF InBaskets, TriggersIn
<1>5. ASSUME \A z \in Zone : global.linked[z] \subseteq active[z].triggers PROVE B = InBaskets
  BY <1>3, <1>5 DEF InBaskets, TriggersIn
<1> HIDE DEF B
<1> QED BY <1>1, <1>2, <1>4, <1>5

\* Counters, ids and homes are numbers.
LEMMA Numbers ==
  ASSUME TypeOK
  PROVE  /\ issued \in Nat /\ visit \in Nat
         /\ Sid \subseteq Nat /\ Visit \subseteq Nat \ {0}
         /\ \A s \in Sid : home[s] \in Nat
<1>1. home \in [Sid -> 0..MaxVisits] /\ visit \in 0..MaxVisits /\ MaxVisits \in Nat
  BY StoreAssumption DEF TypeOK, StoreTypeOK
<1>2. issued \in Nat /\ Sid \subseteq Nat
  BY HeldIds
<1> QED BY <1>1, <1>2 DEF Visit

\* Every step keeps VisitInv.
LEMMA VisitInvStep ==
  ASSUME Orderly, TypeOK, TypeOK', QueueOK, ChargeInv, RegistryMatchesWork, VisitInv,
         [Next]_vars
  PROVE  VisitInv'
<1>1. VisitStep /\ ~ExpireVisits
  BY StepVisit DEF Orderly
<1>2. /\ issued \in Nat /\ issued' \in {issued, issued + 1} /\ visit \in Nat
      /\ Sid \subseteq Nat /\ \A s \in Sid : home[s] \in Nat
  BY Numbers, HeldGrowth
<1>3. \A s \in Sid : \/ home'[s] = home[s]
                     \/ s = issued + 1 /\ issued' = issued + 1 /\ home'[s] = Current
  BY <1>1 DEF VisitStep
<1>4. Current \in Nat /\ Current <= visit /\ visit <= visit'
  <2>1. CloseFinalizes => visit' = visit
    BY DEF CloseFinalizes
  <2> QED BY <1>1, <1>2, <2>1 DEF VisitStep, DoorKept, Opened, Current
<1>5. visit' \in Nat
  BY StoreAssumption DEF TypeOK, StoreTypeOK
<1>6. \A s \in Sid : home'[s] <= visit' /\ (s > issued' => home'[s] = 0)
  <2>1. \A s \in Sid : home[s] <= visit /\ (s > issued => home[s] = 0)
    BY DEF VisitInv
  <2> QED BY <1>2, <1>3, <1>4, <1>5, <2>1
<1>7. \A s \in Live : s \in Sid /\ s # issued + 1 /\ home'[s] = home[s] /\ home[s] \in {0, Current}
  <2>1. \A s \in Live : s \in Sid /\ s <= issued
    BY LiveIds
  <2>2. \A s \in Live : s # issued + 1
    BY <1>2, <2>1
  <2> QED BY <1>3, <2>1, <2>2 DEF VisitInv
<1>8. \A s \in Live' : home'[s] \in {0, Current}
  <2> SUFFICES ASSUME NEW s \in Live', s \notin Live PROVE home'[s] \in {0, Current}
    BY <1>7
  <2>1. s = issued + 1 /\ issued' = issued + 1
    BY LiveGrowth
  <2>2. s \in Sid
    BY <1>2, <2>1 DEF TypeOK, Sid
  <2>3. home[s] = 0
    BY <1>2, <2>1, <2>2 DEF VisitInv
  <2> QED BY <1>3, <2>2, <2>3
<1>9. \A s \in Live' : home'[s] \in {0, Current'}
  <2>1. CASE DoorKept
    <3>1. Current' = Current
      BY <2>1 DEF DoorKept, Current
    <3> QED BY <1>8, <3>1
  <2>2. CASE Opened
    <3>1. Current = 0
      BY <2>2 DEF Opened, Current
    <3> QED BY <1>8, <3>1
  <2>3. CASE CloseFinalizes /\ UNCHANGED pipelineVars
    BY <2>3, CloseLeavesNothing
  <2> QED BY <1>1, <2>1, <2>2, <2>3 DEF VisitStep
<1>10. BilledToOwnVisit'
  <2> SUFFICES ASSUME NEW v \in Visit, NEW s \in bill'[v] PROVE home'[s] \in {0, v}
    BY DEF BilledToOwnVisit
  <2>1. CASE s \in bill[v]
    <3>1. s \in Charged
      BY <2>1 DEF ChargeInv, ChargedAtMostOnce, Charged
    <3>2. s \in Sid /\ s <= issued
      BY <3>1, StoreSets DEF ChargeInv
    <3> QED BY <1>2, <1>3, <2>1, <3>2 DEF VisitInv, BilledToOwnVisit
  <2>2. CASE s \notin bill[v]
    <3>1. Billed
      BY <2>2, StepCharge DEF ChargeStep, Unmoved, Cleared, Added
    <3>2. v = visit /\ s \in Live
      BY <2>2, <3>1, BillIs DEF Live
    <3> QED BY <1>7, <3>1, <3>2 DEF Billed, Current
  <2> QED BY <2>1, <2>2
<1> QED BY <1>6, <1>9, <1>10 DEF VisitInv

\* Work, charges and registry, as the invariants below need them.
LEMMA OrderlyInvariants ==
  ASSUME Orderly
  PROVE  Spec => [](TypeOK /\ QueueOK /\ ChargeInv /\ EventInv /\ RegistryMatchesWork)
<1>1. Gated /\ ~TraceCanFail
  BY DEF Orderly
<1> QED BY <1>1, ChargeInvariants, RegistryIsTheWork, PTL

\* A trigger is billed to the visit it was uploaded in, however long its video
\* takes and whatever is opened, closed or finalized meanwhile.
THEOREM BillsAreOfTheirVisit ==
  ASSUME Orderly
  PROVE  Spec => []BilledToOwnVisit
<1>1. Init => VisitInv
  BY DEF Init, StoreInit, NoBasket, NoGlobal, IdleWorker, VisitInv, BilledToOwnVisit, Live,
         InBaskets, TriggersIn, Held, Queued, AtWorker
<1>2. TypeOK /\ TypeOK' /\ QueueOK /\ ChargeInv /\ RegistryMatchesWork /\ VisitInv /\ [Next]_vars
        => VisitInv'
  BY VisitInvStep
<1>3. VisitInv => BilledToOwnVisit
  BY DEF VisitInv
<1> QED BY <1>1, <1>2, <1>3, OrderlyInvariants, PTL DEF Spec

-----------------------------------------------------------------------------
(* A bill has everything that belongs to its visit. *)

\* While a visit stays open nothing leaves the baskets, and links stay in them.
LEMMA BasketsStay ==
  ASSUME ~OperatorFinalize, TypeOK, TypeOK', QueueOK, BilledInv, [Next]_vars,
         global.open, global'.open
  PROVE  \A z \in Zone : /\ active[z].triggers \subseteq active'[z].triggers
                         /\ global'.linked[z] \subseteq active'[z].triggers
<1>1. \A z \in Zone : global.linked[z] \subseteq active[z].triggers
  BY DEF BilledInv
<1>2. CASE Unmoved
  BY <1>1, <1>2 DEF Unmoved, LinkKept, NothingLinked
<1>3. ASSUME NEW z \in Zone, NEW s \in Sid, Added(z, s)
      PROVE  \A y \in Zone : /\ active[y].triggers \subseteq active'[y].triggers
                             /\ global'.linked[y] \subseteq active'[y].triggers
  <2>1. AddTriggerWithGlobal(z, s)
    BY <1>3 DEF Added
  <2>2. active'[z].triggers = {s} \cup active[z].triggers
    BY <2>1, AddedOpen
  <2>3. /\ \A y \in Zone : y # z => active'[y].triggers = active[y].triggers
        /\ \A y \in Zone : global'.linked[y] \in {global.linked[y], active'[y].triggers}
    BY <2>1, AddedBaskets
  <2> QED BY <1>1, <2>2, <2>3
<1>4. ~Cleared /\ ~Billed
  BY DEF Cleared, Billed, FinalizeGlobalSession, NoGlobal
<1> QED BY <1>2, <1>3, <1>4, StepCharge DEF ChargeStep

\* What the worker judges goes into a basket in the same step.
LEMMA NewlyComplete ==
  ASSUME TypeOK, EventInv, [Next]_vars, NEW s \in Sid,
         event'[s] = "complete", event[s] # "complete"
  PROVE  s \in Held /\ s \in InBaskets'
<1>1. WorkerCompletes /\ s = worker.item
  BY StepEvents DEF EventStep
<1>2. s \in Held
  BY <1>1 DEF WorkerCompletes, Held, AtWorker
<1>3. zoneOf[s] \in Zone /\ AddTriggerWithGlobal(zoneOf[s], s)
  BY <1>1 DEF WorkerCompletes, TypeOK
<1>4. s \in active'[zoneOf[s]].triggers
  BY <1>3, AddedBaskets
<1> QED BY <1>2, <1>3, <1>4 DEF InBaskets, TriggersIn

\* Every step keeps BilledInv.
LEMMA BilledInvStep ==
  ASSUME Orderly, ~OperatorFinalize, TypeOK, TypeOK', QueueOK, ChargeInv, EventInv,
         RegistryMatchesWork, VisitInv, BilledInv, [Next]_vars
  PROVE  BilledInv'
<1>1. DoorKept \/ Opened \/ (CloseFinalizes /\ UNCHANGED pipelineVars)
  BY StepVisit DEF Orderly, VisitStep
<1>2. /\ issued \in Nat /\ visit \in Nat /\ Sid \subseteq Nat /\ Visit \subseteq Nat \ {0}
      /\ outcome \in [Visit -> {"none", "billed", "expired"}]
  BY Numbers DEF TypeOK, StoreTypeOK
<1>3. ASSUME CloseFinalizes
      PROVE  /\ Billed /\ visit' = visit /\ ~global'.open
             /\ outcome' = [outcome EXCEPT ![visit] = "billed"]
    BY <1>3 DEF CloseFinalizes, FinalizeGlobalSession, Billed, NoGlobal
<1>4. \A v \in Visit : outcome[v] # "none" => v <= visit /\ ~(global.open /\ v = visit)
  BY DEF BilledInv
<1>5. \A v \in Visit : outcome'[v] # "none" => v <= visit' /\ ~(global'.open /\ v = visit')
  <2>1. CASE DoorKept
    BY <1>4, <2>1 DEF DoorKept
  <2>2. CASE Opened
    BY <1>2, <1>4, <2>2 DEF Opened
  <2>3. CASE CloseFinalizes
    BY <1>2, <1>3, <1>4, <2>3
  <2> QED BY <1>1, <2>1, <2>2, <2>3
\* What was complete before was issued before, so its home has not changed.
<1>6. ASSUME NEW s \in Sid, event'[s] = "complete"
      PROVE  /\ home'[s] = home[s]
             /\ event[s] = "complete" \/ (s \in Live /\ s \in InBaskets')
  <2>1. s <= issued /\ (event[s] = "complete" \/ (s \in Live /\ s \in InBaskets'))
    <3>1. CASE event[s] = "complete"
      BY <1>2, <3>1 DEF EventInv
    <3>2. CASE event[s] # "complete"
      <4>1. s \in Held /\ s \in InBaskets'
        BY <1>6, <3>2, NewlyComplete
      <4> QED BY <4>1 DEF QueueOK, Live
    <3> QED BY <3>1, <3>2
  <2>2. s # issued + 1
    BY <1>2, <2>1
  <2> QED BY <2>1, <2>2, StepVisit DEF VisitStep
<1>7. ASSUME global'.open
      PROVE  /\ \A s \in Sid : home'[s] = visit' /\ event'[s] = "complete" => s \in InBaskets'
             /\ \A z \in Zone : global'.linked[z] \subseteq active'[z].triggers
  <2>1. CASE DoorKept
    <3>1. global.open /\ visit' = visit
      BY <1>7, <2>1 DEF DoorKept
    <3>2. \A z \in Zone : /\ active[z].triggers \subseteq active'[z].triggers
                          /\ global'.linked[z] \subseteq active'[z].triggers
      BY <1>7, <3>1, BasketsStay
    <3>3. InBaskets \subseteq InBaskets'
      BY <3>2 DEF InBaskets, TriggersIn
    <3>4. \A s \in Sid : home[s] = visit /\ event[s] = "complete" => s \in InBaskets
      BY <3>1 DEF BilledInv
    <3> QED BY <1>6, <3>1, <3>2, <3>3, <3>4
  <2>2. CASE Opened
    <3>1. \A s \in Sid : home'[s] # visit'
      <4>1. \A s \in Sid : home[s] <= visit /\ home[s] \in Nat
        BY Numbers DEF VisitInv
      <4> QED BY <1>2, <2>2, <4>1 DEF Opened
    <3>2. \A z \in Zone : global'.linked[z] = {}
      BY <2>2 DEF Opened, NothingLinked
    <3> QED BY <3>1, <3>2
  <2> QED BY <1>1, <1>3, <1>7, <2>1, <2>2
<1>8. VisitBillsItsTriggers'
  <2> SUFFICES ASSUME NEW v \in Visit, outcome'[v] = "billed",
                      NEW s \in Sid, home'[s] = v, event'[s] = "complete"
               PROVE  s \in bill'[v]
    BY DEF VisitBillsItsTriggers
  <2>1. home[s] = v /\ v # 0
    BY <1>2, <1>6
  <2>2. CASE outcome[v] = "billed"
    <3>1. v # Current
      BY <1>4, <2>1, <2>2 DEF Current
    <3>2. event[s] = "complete"
      BY <1>6, <2>1, <3>1 DEF VisitInv
    <3>3. s \in bill[v]
      BY <2>1, <2>2, <3>2 DEF BilledInv, VisitBillsItsTriggers
    <3>4. CASE Billed
      <4>1. v # visit
        BY <2>1, <3>1, <3>4 DEF Billed, Current
      <4> QED BY <3>3, <3>4, <4>1, BillIs
    <3>5. CASE ~Billed
      BY <3>3, <3>5, StepCharge DEF ChargeStep, Unmoved, Cleared, Added
    <3> QED BY <3>4, <3>5
  <2>3. CASE outcome[v] # "billed"
    <3>1. CloseFinalizes /\ UNCHANGED pipelineVars
      BY <1>1, <2>3 DEF DoorKept, Opened
    <3>2. v = visit /\ global.open
      BY <1>2, <1>3, <2>3, <3>1 DEF CloseFinalizes
    <3>3. event[s] = "complete"
      BY <3>1 DEF pipelineVars
    <3>4. s \in InBaskets
      BY <2>1, <3>2, <3>3 DEF BilledInv
    <3> QED BY <1>3, <3>1, <3>2, <3>4, BillIs
  <2> QED BY <2>2, <2>3
<1> QED BY <1>5, <1>7, <1>8 DEF BilledInv

\* A billed visit has every removal of the visit that was judged: no upload, poll
\* or cleanup between OPEN and CLOSE takes one out of the baskets, and none is
\* judged after the bill.
THEOREM BillsAreComplete ==
  ASSUME Orderly, ~OperatorFinalize
  PROVE  Spec => []VisitBillsItsTriggers
<1>1. Init => VisitInv /\ BilledInv
  BY DEF Init, StoreInit, NoBasket, NoGlobal, IdleWorker, VisitInv, BilledToOwnVisit, Live,
         InBaskets, TriggersIn, Held, Queued, AtWorker, BilledInv, VisitBillsItsTriggers
<1>2. TypeOK /\ TypeOK' /\ QueueOK /\ ChargeInv /\ RegistryMatchesWork /\ VisitInv /\ [Next]_vars
        => VisitInv'
  BY VisitInvStep
<1>3. TypeOK /\ TypeOK' /\ QueueOK /\ ChargeInv /\ EventInv /\ RegistryMatchesWork /\ VisitInv
        /\ BilledInv /\ [Next]_vars => BilledInv'
  BY BilledInvStep
<1>4. BilledInv => VisitBillsItsTriggers
  BY DEF BilledInv
<1> QED BY <1>1, <1>2, <1>3, <1>4, OrderlyInvariants, PTL DEF Spec

-----------------------------------------------------------------------------
(* The pipeline implements DoorTransaction. *)

\* Without balanced cancellation all work may still be charged.
NoneCancelled == \A s \in Sid : event[s] # "cancelled_by_return"

LEMMA NoneCancelledStep ==
  ASSUME ~BalancedCancel, TypeOK, NoneCancelled, [Next]_vars
  PROVE  NoneCancelled'
<1> USE DEF NoneCancelled
<1>1. CASE event' = event
  BY <1>1
<1>2. ASSUME NEW c \in Clip, Request(c) PROVE NoneCancelled'
  <2>1. event' = event \/ \E st \in {"return_only", "queued", "error"} : NewEvent(st)
    BY <1>2 DEF Request, DuplicateRequest, InvalidRequest, UnstableReturn, UnstableRemoval,
           LowWeightVideo, LowWeightSkip, ReturnOnly, ReturnBalanced, RepeatRemoval,
           EnqueueRemoval, QueueFull
  <2> QED BY <2>1 DEF NewEvent, TypeOK
<1>3. CASE Worker
  <2>1. ~WorkerSkipsCancelled
    BY DEF WorkerSkipsCancelled, SkipsItem, TypeOK
  <2>2. event' = event \/ \E st \in {"processing", "complete", "error", "waiting"} :
                            event' = [event EXCEPT ![worker.item] = st]
    BY <1>3, <2>1 DEF Worker, WorkerGet, WorkerStart, WorkerCompletes, WorkerFindsConflict,
                      WorkerErrs, WorkerDies, Done
  <2> QED BY <2>2 DEF TypeOK
<1> QED
  BY <1>1, <1>2, <1>3
     DEF Next, Resume, ReturnStillUnstable, LowWeightVideoDone, LowWeightVideoFails,
         DoorOpens, DoorCloses, Cleanup, PollZone, OperatorFinalizes, Tick, vars, pipelineVars

LEMMA AllInFlight ==
  ASSUME TypeOK, TypeOK', NoneCancelled, NoneCancelled'
  PROVE  InFlight = Held /\ InFlight' = Held'
<1>1. Held \subseteq Sid /\ Held' \subseteq Sid
  BY DEF TypeOK, Held, AtWorker, Queued
<1> QED BY <1>1 DEF NoneCancelled, InFlight

\* What was issued last and is not taken in is fresh to the transaction.
LEMMA FreshIds ==
  ASSUME ChargeInv, NEW s \in Sid, s \notin Held, s \notin Charged
  PROVE  Transaction!Fresh(s)
<1>1. \A v \in Visit : s \notin bill[v]
  BY DEF ChargeInv, ChargedAtMostOnce, Charged
<1> QED BY <1>1 DEF Transaction!Fresh, Charged, InFlight

\* Steps that leave the baskets alone: work is accepted or dismissed, or the
\* step is none of the transaction's.
LEMMA WorkMaps ==
  ASSUME Orderly, TypeOK, TypeOK', QueueOK, ChargeInv, NoneCancelled, NoneCancelled',
         [Next]_vars, DoorKept, InBaskets' = InBaskets, bill' = bill
  PROVE  [Transaction!Next]_(Transaction!vars)
<1>1. WorkStep
  BY StepWork
<1>2. /\ Quiet \/ Dropped \/ Refused \/ Got \/ Started => Held' = Held
      /\ Grew => Held' = Held \cup {issued + 1}
      /\ Ended => Held' = Held \ {worker.item} /\ worker.item \in Held
  BY <1>1, HeldStep
<1>3. InFlight = Held /\ InFlight' = Held'
  BY AllInFlight
<1>4. CASE Held' = Held
  BY <1>3, <1>4 DEF DoorKept, Transaction!vars
<1>5. CASE Grew
  <2>1. issued + 1 \in Sid /\ issued + 1 \notin Held /\ issued + 1 \notin Charged
    BY <1>5, HeldIds DEF Grew, QueueOK, ChargeInv
  <2>2. Transaction!Fresh(issued + 1)
    BY <2>1, FreshIds
  <2>3. Transaction!Accept(issued + 1)
    BY <1>2, <1>3, <1>5, <2>2 DEF Transaction!Accept, DoorKept
  <2> QED BY <2>1, <2>3 DEF Transaction!Next
<1>6. CASE Ended
  <2>1. worker.item \in Sid
    BY <1>2, <1>6, HeldIds
  <2>2. Transaction!Dismiss(worker.item)
    BY <1>2, <1>3, <1>6 DEF Transaction!Dismiss, DoorKept
  <2> QED BY <2>1, <2>2 DEF Transaction!Next
<1>7. ~Leaked /\ ~Died
  BY DEF Orderly, Leaked, Died
<1> QED BY <1>1, <1>2, <1>4, <1>5, <1>6, <1>7 DEF WorkStep

\* add_trigger maps to Put, of finished work or of a fresh trigger.
LEMMA AddedMaps ==
  ASSUME Orderly, TypeOK, TypeOK', QueueOK, ChargeInv, NoneCancelled, NoneCancelled',
         [Next]_vars, DoorKept, NEW z \in Zone, NEW s \in Sid, Added(z, s)
  PROVE  [Transaction!Next]_(Transaction!vars)
<1>1. InFlight = Held /\ InFlight' = Held'
  BY AllInFlight
<1>2. AddTriggerWithGlobal(z, s) /\ bill' = bill
  BY DEF Added
<1>3. /\ \A y \in Zone : y # z => active'[y].triggers = active[y].triggers
      /\ \/ active'[z].triggers = {s} \cup active[z].triggers
         \/ active'[z].triggers = {s}
  BY <1>2, AddedBaskets
<1>4. global.open => active'[z].triggers = {s} \cup active[z].triggers
  BY <1>2, AddedOpen
<1>5. /\ s \in InBaskets' /\ InBaskets' \subseteq InBaskets \cup {s}
      /\ global.open => InBaskets' = InBaskets \cup {s}
  BY <1>3, <1>4 DEF InBaskets, TriggersIn
<1>6. \E gone \in Transaction!WrittenOff : InBaskets' = (InBaskets \ gone) \cup {s}
  <2>1. CASE global.open
    BY <1>5, <2>1 DEF Transaction!WrittenOff
  <2>2. CASE ~global.open
    <3>1. InBaskets \ InBaskets' \in Transaction!WrittenOff
      BY <2>2 DEF Transaction!WrittenOff
    <3> QED BY <1>5, <3>1
  <2> QED BY <2>1, <2>2
<1>7. /\ s \in Held \/ Transaction!Fresh(s)
      /\ Held' = Held \ {s}
  <2>1. CASE WorkerCompletes /\ s = worker.item /\ s \in AtWorker
    <3>1. AtWorker = {s} /\ AtWorker' = {} /\ Queued' = Queued
      BY <2>1 DEF WorkerCompletes, Done, IdleWorker, AtWorker, Queued
    <3> QED BY <3>1 DEF Held, QueueOK
  <2>2. CASE s = issued + 1 /\ UNCHANGED workVars
    <3>1. Held' = Held
      BY <2>2 DEF workVars, Held, Queued, AtWorker
    <3>2. s \notin Held /\ s \notin Charged
      BY <2>2, HeldIds DEF QueueOK, ChargeInv
    <3> QED BY <3>1, <3>2, FreshIds
  <2> QED BY <2>1, <2>2 DEF Added
<1>8. Transaction!Put(s)
  BY <1>1, <1>2, <1>6, <1>7 DEF Transaction!Put, DoorKept
<1> QED BY <1>8 DEF Transaction!Next

\* Every step maps to a step of the transaction, or to none.
LEMMA TransactionStep ==
  ASSUME Orderly, ~OperatorFinalize, TypeOK, TypeOK', QueueOK, ChargeInv, RegistryMatchesWork,
         BilledInv, NoneCancelled, NoneCancelled', [Next]_vars
  PROVE  [Transaction!Next]_(Transaction!vars)
<1>1. DoorKept \/ Opened \/ (CloseFinalizes /\ UNCHANGED pipelineVars)
  BY StepVisit DEF Orderly, VisitStep
<1>2. InFlight = Held /\ InFlight' = Held'
  BY AllInFlight
<1>3. CASE Opened
  <2>1. InBaskets' = InBaskets
    BY <1>3 DEF Opened, InBaskets, TriggersIn
  <2>2. visit + 1 \in Visit
    BY <1>3, Numbers DEF Opened, TypeOK, StoreTypeOK, Visit
  <2> QED BY <1>2, <1>3, <2>1, <2>2 DEF Opened, Transaction!Open, Transaction!Next, TypeOK, StoreTypeOK, GlobalSession
<1>4. CASE CloseFinalizes /\ UNCHANGED pipelineVars
  <2>1. Held = {} /\ Held' = {} /\ InBaskets' = {}
    BY <1>4, CloseLeavesNothing DEF Live
  <2>2. Billed /\ visit' = visit /\ ~global'.open
    BY <1>4 DEF CloseFinalizes, Billed, FinalizeGlobalSession, NoGlobal
  <2>3. bill' = [bill EXCEPT ![visit] = InBaskets]
    <3>1. bill'[visit] = InBaskets /\ \A v \in Visit : v # visit => bill'[v] = bill[v]
      BY <2>2, BillIs DEF BilledInv, Billed
    <3>2. bill \in [Visit -> SUBSET Sid] /\ bill' \in [Visit -> SUBSET Sid]
      BY DEF TypeOK, StoreTypeOK
    <3> QED BY <3>1, <3>2
  <2>4. global.open /\ global'.open = FALSE
    BY <1>4 DEF CloseFinalizes, FinalizeGlobalSession, NoGlobal
  <2> QED BY <1>2, <2>1, <2>2, <2>3, <2>4 DEF Transaction!Bill, Transaction!Next
<1>5. CASE DoorKept
  <2>1. CASE Unmoved
    <3>1. InBaskets' = InBaskets
      BY <2>1 DEF Unmoved, InBaskets, TriggersIn
    <3> QED BY <1>5, <2>1, <3>1, WorkMaps DEF Unmoved
  <2>2. CASE Cleared
    <3>1. Held' = Held /\ bill' = bill
      BY <2>2 DEF Cleared, pipelineVars, workVars, Held, Queued, AtWorker
    <3>2. ~global.open
      BY <1>5, <2>2 DEF Cleared, DoorKept
    <3>3. InBaskets' \subseteq InBaskets
      BY <2>2, ClearedBaskets DEF Cleared, InBaskets, TriggersIn
    <3>4. InBaskets \ InBaskets' \in Transaction!WrittenOff
      BY <3>2 DEF Transaction!WrittenOff
    <3>5. InBaskets' = InBaskets \ (InBaskets \ InBaskets')
      BY <3>3
    <3>6. Transaction!WriteOff
      BY <1>2, <1>5, <3>1, <3>4, <3>5 DEF Transaction!WriteOff, DoorKept
    <3> QED BY <3>6 DEF Transaction!Next
  <2>3. ~Billed
    BY <1>5 DEF DoorKept, Billed, FinalizeGlobalSession, NoGlobal
  <2> QED BY <1>5, <2>1, <2>2, <2>3, StepCharge, AddedMaps DEF ChargeStep
<1> QED BY <1>1, <1>3, <1>4, <1>5

\* The pipeline, its registry, queue, worker, polls and clock implement the
\* transaction that is promised: one bill per visit, with everything in the
\* baskets, made when no work is left.
THEOREM PipelineKeepsTransaction ==
  ASSUME Orderly, ~OperatorFinalize
  PROVE  Spec => TransactionKept
<1>1. ~BalancedCancel
  BY DEF Orderly, Gated
<1>2. Init => NoneCancelled /\ VisitInv /\ BilledInv
  BY DEF Init, StoreInit, NoBasket, NoGlobal, IdleWorker, VisitInv, BilledToOwnVisit, Live,
         InBaskets, TriggersIn, Held, Queued, AtWorker, BilledInv, VisitBillsItsTriggers,
         NoneCancelled
<1>3. TypeOK /\ NoneCancelled /\ [Next]_vars => NoneCancelled'
  BY <1>1, NoneCancelledStep
<1>4. TypeOK /\ TypeOK' /\ QueueOK /\ ChargeInv /\ RegistryMatchesWork /\ VisitInv /\ [Next]_vars
        => VisitInv'
  BY VisitInvStep
<1>5. TypeOK /\ TypeOK' /\ QueueOK /\ ChargeInv /\ EventInv /\ RegistryMatchesWork /\ VisitInv
        /\ BilledInv /\ [Next]_vars => BilledInv'
  BY BilledInvStep
<1>6. Init => Transaction!Init
  BY DEF Init, StoreInit, NoBasket, NoGlobal, IdleWorker, InFlight, InBaskets, TriggersIn,
         Held, Queued, AtWorker, Transaction!Init
<1>7. TypeOK /\ TypeOK' /\ QueueOK /\ ChargeInv /\ RegistryMatchesWork /\ BilledInv
        /\ NoneCancelled /\ NoneCancelled' /\ [Next]_vars
        => [Transaction!Next]_(Transaction!vars)
  BY TransactionStep
<1> QED
  BY <1>2, <1>3, <1>4, <1>5, <1>6, <1>7, OrderlyInvariants, PTL
     DEF Spec, TransactionKept, Transaction!Spec

-----------------------------------------------------------------------------
(* Registry entries where trace files cannot be written. *)

\* Only WorkerDies ends the loop.
LEMMA AtDead ==
  ASSUME TypeOK, [Next]_vars, worker'.pc = "dead"
  PROVE  WorkerDies \/ worker' = worker
<1>1. CASE Worker
  BY <1>1 DEF Worker, WorkerGet, WorkerStart, WorkerSkipsCancelled, WorkerCompletes,
              WorkerFindsConflict, WorkerErrs, Done, IdleWorker, TypeOK
<1>2. CASE \E c \in Clip : Request(c)
  BY <1>2 DEF Request, DuplicateRequest, InvalidRequest, UnstableReturn, UnstableRemoval,
              LowWeightVideo, LowWeightSkip, ReturnOnly, ReturnBalanced, RepeatRemoval,
              EnqueueRemoval, QueueFull, workVars
<1> QED
  BY <1>1, <1>2
     DEF Next, Resume, ReturnStillUnstable, LowWeightVideoDone, LowWeightVideoFails,
         DoorOpens, DoorCloses, Cleanup, PollZone, OperatorFinalizes, Tick,
         vars, pipelineVars, workVars

\* An item that leaves the worker takes its entry along or is an error.
LEMMA LeavesWork ==
  ASSUME TypeOK, TypeOK', QueueOK, [Next]_vars, NEW s \in Held, s \notin Held'
  PROVE  s \notin DOMAIN pending' \/ event'[s] = "error"
<1>1. WorkStep
  BY StepWork
<1>2. /\ Quiet \/ Dropped \/ Refused \/ Leaked \/ Got \/ Started => Held' = Held
      /\ Grew => Held' = Held \cup {issued + 1}
      /\ Ended => Held' = Held \ {worker.item}
  BY <1>1, HeldStep
<1>3. CASE Ended
  <2>1. s = worker.item
    BY <1>2, <1>3
  <2> QED BY <1>3, <2>1 DEF Ended, Processed, Resolve
<1>4. CASE Died
  <2>1. worker'.pc = "dead"
    BY <1>4 DEF Died
  <2>2. CASE WorkerDies
    <3>1. s \in AtWorker
      BY <2>2 DEF WorkerDies, Held, Queued
    <3> QED BY <2>2, <3>1, HeldIds DEF WorkerDies, AtWorker, TypeOK
  <2>3. CASE worker' = worker
    BY <1>4, <2>3 DEF Died, Held, AtWorker, Queued
  <2> QED BY <2>1, <2>2, <2>3, AtDead
<1> QED BY <1>1, <1>2, <1>3, <1>4 DEF WorkStep

\* The entry of a request is of work, or of a refusal that is an error.
LEMMA NewEntry ==
  ASSUME TypeOK, TypeOK', QueueOK, [Next]_vars, NEW s \in DOMAIN pending', s \notin DOMAIN pending
  PROVE  s = issued + 1 /\ issued' = issued + 1 /\ (s \in Held' \/ event'[s] = "error")
<1>1. CASE \E c \in Clip : Request(c)
  <2>1. PICK c \in Clip : Request(c)
    BY <1>1
  <2>2. CASE EnqueueRemoval(c)
    <3>1. Grew
      BY <2>2, AcceptedWork DEF EnqueueRemoval, Grew
    <3>2. WorkStep
      BY StepWork
    <3> QED BY <3>1, <3>2, HeldStep DEF Grew, Enqueued
  <2>3. CASE QueueFull(c)
    <3>1. PICK d \in LookedUp(dedup) : Accepted("removal", c, d)
      BY <2>3 DEF QueueFull
    <3>2. issued + 1 \in Sid /\ issued' = issued + 1
      BY <3>1, AcceptedWork
    <3>3. event'[issued + 1] = "error"
      BY <2>3, <3>2 DEF QueueFull, NewEvent, TypeOK
    <3>4. s = issued + 1
      BY <2>3 DEF QueueFull, Enqueued, Processed
    <3> QED BY <3>2, <3>3, <3>4
  <2>4. CASE ReturnBalanced(c)
    BY <2>4 DEF ReturnBalanced, Skipped, Processed
  <2> QED BY <2>1, <2>2, <2>3, <2>4
       DEF Request, DuplicateRequest, InvalidRequest, UnstableReturn, UnstableRemoval,
           LowWeightVideo, LowWeightSkip, ReturnOnly, RepeatRemoval, storeVars, Processed
<1>2. CASE Worker
  BY <1>2 DEF Worker, WorkerGet, WorkerStart, WorkerSkipsCancelled, WorkerCompletes,
              WorkerFindsConflict, WorkerErrs, WorkerDies, Done, Marked, Processed, storeVars
<1> QED
  BY <1>1, <1>2
     DEF Next, Resume, ReturnStillUnstable, LowWeightVideoDone, LowWeightVideoFails,
         DoorOpens, GetOrStartGlobalSession, DoorCloses, HandleDoorClose, CloseBlocked,
         CloseFirst, CloseWaits, CloseFinalizes, Cleanup, CleanupVisit, CleanupBaskets,
         PollZone, GetOrFinalize, OperatorFinalizes, FinalizeSession, Tick, StoreTick,
         vars, storeVars

\* An entry outlives its work only when a trace file could not be written, and
\* then its event is an error: in every configuration, with returns that cancel
\* and notify calls that hit the wrong entry.
THEOREM LeakedAreErrors == Spec => []LeakedEntriesAreErrors
<1> DEFINE LeakInv == LeakedEntriesAreErrors /\ \A s \in DOMAIN pending : s <= issued
<1>1. Init => LeakInv
  BY DEF Init, StoreInit, EmptyRegistry, LeakedEntriesAreErrors
<1>2. ASSUME TypeOK, TypeOK', QueueOK, LeakInv, [Next]_vars PROVE LeakInv'
  <2>1. issued \in Nat /\ issued' \in {issued, issued + 1} /\ DOMAIN pending \subseteq Sid
        /\ Sid \subseteq Nat
    BY <1>2, HeldGrowth, HeldIds DEF TypeOK, StoreTypeOK, RegistryOK
  <2>2. ASSUME NEW s \in DOMAIN pending' PROVE s <= issued'
    <3>1. CASE s \in DOMAIN pending
      <4>1. s <= issued
        BY <1>2, <3>1
      <4>2. s \in Nat
        BY <2>1, <3>1
      <4> HIDE DEF LeakInv
      <4> QED BY <2>1, <4>1, <4>2
    <3>2. CASE s \notin DOMAIN pending
      <4>1. s = issued'
        BY <1>2, <2>2, <3>2, NewEntry
      <4> QED BY <2>1, <4>1
    <3> QED BY <3>1, <3>2
  <2>3. ASSUME NEW s \in DOMAIN pending' \ Held' PROVE event'[s] = "error"
    <3>1. CASE s \notin DOMAIN pending
      BY <1>2, <2>3, <3>1, NewEntry
    <3>2. CASE s \in Held
      BY <1>2, <2>3, <3>2, LeavesWork
    <3>3. CASE s \in DOMAIN pending /\ s \notin Held
      <4>1. event[s] = "error" /\ s # issued + 1 /\ s \in Sid
        BY <1>2, <2>1, <3>3 DEF LeakedEntriesAreErrors
      <4>2. ~(worker.pc \in {"got", "video"} /\ s = worker.item)
        BY <3>3 DEF Held, AtWorker
      <4> QED BY <1>2, <4>1, <4>2, StepEvents
           DEF EventStep, WorkerStart, WorkerSkipsCancelled, WorkerCompletes
    <3> QED BY <3>1, <3>2, <3>3
  <2> QED BY <2>2, <2>3 DEF LeakedEntriesAreErrors
<1>3. LeakInv => LeakedEntriesAreErrors
  OBVIOUS
<1> HIDE DEF LeakInv
<1> QED BY <1>1, <1>2, <1>3, TypeCorrect, HeldOnce, PTL DEF Spec
=============================================================================
