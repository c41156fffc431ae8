# TLA+ model of the CRK model service

The CRK model service runs on the computer of a smart cabinet. Cameras upload a
pair of videos and the loadcell samples of a shelf (a *trigger*, one per *zone*)
when goods are taken or put back; a vision model and the weights decide which
products moved. A Node process of the cabinet polls the service and tells it when
the door opens (`OPEN`) and closes (`CLOSE`); the answer to the last `CLOSE` is
the bill of the visit. This directory models that program in TLA+, checks the
model with TLC and proves theorems about it with TLAPS.

Paths below are relative to `src/services/model/model_service/`.

## 1. Inventory

| Component | State | Operations | Interacts with |
|---|---|---|---|
| In-flight registry (`session/door_session_store.py`) | `_pending_triggers`: session id → zone, status | `notify_trigger_enqueued/started/finalizing/processed` | written by the pipeline, read by CLOSE |
| Duplicate cache (`service/trigger_service.py`) | `_dedup_cache`: key → time, session id | `_check_duplicate`, `_register_request` | every request |
| Trigger pipeline (`service/trigger_service.py`) | `_queue`, worker task, `_loadcell_events` | `enqueue_trigger` and its branches, `_worker_loop`, `_process_trigger_internal`, `start/stop_worker` | both stores, video processor, engine, trace files |
| Door session store (`session/door_session_store.py`) | `_active_sessions` (baskets), `_global_session` (visit) | `add_trigger(_with_global)`, `get_or_finalize`, `finalize_session`, `get_or_start_global_session`, `handle_close_signal`, `finalize_global_session`, `cleanup_timed_out_sessions`, `recover_active_sessions`, `clear_all` | pipeline, door API, cleanup task, YAML pool |
| Door API (`api/routes/multi_zone.py`) | none | OPEN, CLOSE, polls, forced finalization | stores |
| Lifecycle (`api/manager.py`) | tasks | start-up recovery, cleanup every minute, shutdown | everything |
| Session store (`session/session_store.py`) | session id → result and status | `save`, `update_stage`, `get_with_status`, capacity and age eviction | pipeline writes, polls read |
| YAML persistence (`session/yaml_persistence.py`) | files, thread pool | save, archive, recover | door session store |
| Product aggregation (`session/product_aggregator.py`) | products of a basket | rebuild by event time, match returns | door session store |
| CLOSE reconciliation (`session/door_session_store.py`, `session/freezer_close_aggregate.py`) | – | cross-zone returns, deferred returns, net-delta and final weight repair | runs inside `finalize_global_session` |
| Active products (`session/active_product_store.py`) | product snapshot and its history | `set_products`, `get_effective_snapshot`, `clear` | polls write, triggers capture |
| Loadcell statistics, weight matching, counting, decision engine (`core/loadcell_stats.py`, `weight/`, `engine/`) | – | pure computations | pipeline |
| Video and vision (`video/`, `vision/`) | – | decoding, inference, voting, traces | pipeline |
| Configuration, health, logging (`core/`, `api/routes/health.py`) | – | – | – |

How it runs. One process, one asyncio event loop. Handlers and the single worker
are coroutines; between two `await`s a step is atomic, and every method of the
stores is such a step (they take a lock as well, which no coroutine holds across
an `await`). The hard behaviour is in the `await`s of a request (a return that has
to settle, a low-weight video), of the worker (`queue.get`, the video), and in the
order of uploads, door signals, polls and cleanup, which nobody controls: triggers
arrive late, out of order and twice, CLOSE comes while videos are processed, returns
cancel removals that are still queued, timeouts end baskets and visits.

What makes each part correct: the registry has an entry for exactly the work that
is in flight; the duplicate cache stays within its limit and swallows no retry that
was asked for; the pipeline finishes all work and charges nothing it cancelled; the
stores charge every trigger once and to the right visit; CLOSE waits for all work
and ends in the end. `PROJECT.json` lists the hazards, each at its line.

## 2. Modules

| Module | Models |
|---|---|
| `PendingTriggers` | the registry as operators on a function from session ids to entries |
| `DedupCache` | the duplicate cache as operators, with its eviction and expiry |
| `DoorSessionStore` | baskets, visits, OPEN, CLOSE and its waits, forced and timed finalization, cleanup; each method is one action |
| `TriggerPipeline` | requests (one action per branch of `enqueue_trigger` and per resumption after an `await`), queue, worker, loadcell events, door polls; composes the three modules above |
| `DoorTransaction` | abstract specification: what a customer is promised about a visit, without registry, queue, worker or clock |
| `PipelineProperties` | type invariant, safety, action and liveness properties, the refinement |
| `SessionStore` | the results of triggers between the worker and a polling client: saves, capacity and age eviction, polls by id and by zone |
| `SessionPersistence` | the YAML files of the baskets: a pool of threads writes copies of them, through stops, crashes, failing file operations, a change of date and restarts |
| `Sequencing` | filtering, adding up and ordering sequences, as functions of values (not of operators), so that facts about them can be cited |
| `ProductAggregation` | `aggregate_with_unmatched`: the basket of a zone rebuilt by event time, returns by weight and by place, hints within a removal, waiting returns |
| `CloseReconciliation`, `CloseWeight` | the passes of `finalize_global_session` in their order: returns across zones, waiting returns, net change, final weight check, signed net of a freezer |
| `ZoneBaskets` | the state machine over these three: customers move products, results arrive in any order, CLOSE settles |
| `ActiveProducts` | `ActiveProductStore`: class resolution, weight repair, the effective snapshot |
| `PromisedCatalogue` | abstract specification: what a trigger may rely on about the catalogue |
| `Catalogue` | polls and CLOSE write the catalogue, triggers copy it, wait and are billed from the copy; refines `PromisedCatalogue` |
| `LoadcellReading` | `analyze_weight_delta` and the kind of request the service makes of it: stable windows, plateaus, paired movements, channels, the freezer's fallback, hints of returns |
| `ShelfUploads` | a shelf under customers' hands and the payload that is uploaded of it, cut off anywhere |
| `VideoEvidence` | what the detections of a trigger's videos say: thresholds, regions, motion, votes, the path of the hand, rescued candidates |
| `VideoStreaming` | the tasks of one analysis: extractors, the bounded queue, the inference loop, failures and cancellation |
| `WeightMatching` | the strict matcher and the count calculator |
| `ProductDecision`, `Judgement` | the cascade of `decision_engine.judge`: strict strategies, relaxed ones, and what the service keeps of the result |
| `MC...` | constants of the TLC instances |
| `DoorPipelineProofs` | proofs about the pipeline: types, registry, work and answers; baskets, bills and the refinement |
| `SessionStoreProofs`, `PersistenceProofs`, `VideoProofs`, `CatalogueProofs` | proofs about the module each is named for |
| `BasketProofs` | proofs about `ZoneBaskets` and the passes under it |
| `JudgementProofs` | proofs about the decision engine: `Judgement` and the modules under it |
| `FoldProofs` | finite sets and sequences: extremes, orders, sorting, and what a fold gives after each entry |

How they fit together. `LoadcellReading` yields the kinds of request that
`TriggerPipeline` takes as `Readings`, and the weight changes and hints of the
movements in `MCZoneBaskets`, which computes them from payloads. `VideoEvidence`
yields candidates of the form `Judgement` starts from, `Judgement` the products of
a trigger in `ZoneBaskets`, and `Catalogue` says from which copy of the product list
they are billed. `DoorSessionStore` and `SessionPersistence` treat a basket as
the set of its triggers: when it begins, ends and is written does not depend on
what is in it.

State and code of the pipeline:

* `pending` is `_pending_triggers`. `Resolve` is the lookup every `notify_*` call
  makes: an unknown session id falls back to the first entry of the same zone. The
  status `finalizing` is set and its entry removed in one atomic step of the worker,
  so it is never visible and left out.
* `active[z]` is `_active_sessions[z]`: its triggers, the ticks since the last one
  (`idle`) and since it was created (`life`). `global` is `_global_session`:
  `pendingClose`/`sinceClose` are `pending_close`/`first_close_at`,
  `triggered`/`sinceTrigger` are `last_trigger_at`, `linked` is `zone_sessions`.
  `bill`, `outcome` and `archived` record what the program answered and saved.
* `queue`, `worker`, `event`, `status` are `_queue`, the place of `_worker_loop`, the
  state of each `LoadcellEvent` and `SessionData.status`; `suspended` are requests
  inside an `await` of their own handler; `dedup` is `_dedup_cache`.
* `queue.get` runs in a task of its own under `wait_for`, so an item leaves the
  queue (`WorkerGet`) one step before the worker resumes with it (`WorkerStart`,
  `WorkerSkipsCancelled`). A return that arrives in between still finds the event
  `queued` and cancels it.
* Time is counted in ticks; a variable holds an age that stops growing once it is
  past the largest threshold it is compared with.
* A return matches at most two queued removals; which of them add up to its weight
  is left open. `PollZone` is offered by `JudgmentService`, which no route of the
  server uses; the cleanup task has the same effect on a basket.

State and code of the others: `SessionStore.store` is `_store` with ages instead of
times, `last` the order and age of each session's last save, `answer` and `shown` what polls
were told; `SessionPersistence.memory` is `_active_sessions`, `jobs` and `thread` are the
executor's queue and threads, `open` and `done` the files of `active/` and `completed/`
(a file is the last trigger it holds), `seen`, `handed` and `failures` what has happened so
far: triggers, copies handed over, file operations that failed; `ZoneBaskets.sessions[z]` is a `DoorSession` with its triggers, basket
(`aggregated_products`), `unmatched`, `deferred`, `cross` and hinted returns;
`ActiveProducts.current` and `lastValid` are `_snapshot` and the last one with
something in stock; `VideoStreaming.reader`, `queue` and `yolo` are the extraction
tasks, `frame_queue` and the inference task; `Judgement.removal` and `verdict` are the
arguments and the result of `judge`; `ShelfUploads.holds` is the payload, `told` the
`LoadcellDeltaAnalysis`. Weights are whole grams, confidences percent or hundredths,
means of loadcell samples milligrams.

## 3. Runs

| Run | What it shows |
|---|---|
| `pipeline_default` | every kind of request, one clip, queue of one, forced finalization, a visit that expires, traces that may fail: `ChargedAtMostOnce`, `CompletedIsKept`, `CancelledNeverCharged`, `FinalStatusStays`, `AnswersMatchCharges` (what the cabinet was told is what is charged) and `LeakedEntriesAreErrors` (an entry of the registry outlives its work only where an error was reported) |
| `pipeline_gate` | no unstable removals and no balanced cancellation, so nothing notifies the registry about an id that is not in it: `RegistryMatchesWork`, `CloseWaitsForInFlight`, `BilledToOwnVisit`, `VisitBillsItsTriggers`, `TransactionKept` (the pipeline implements `DoorTransaction`), and `EverythingEnds`: all work and every visit that the cabinet keeps closing |
| `sessions_capacity` | a client finds what the worker did with its trigger last, however saves, evictions and expiries meet, unless that was crowded out (`ResultsAreFound`); a result is never answered as "processing" again (`NeverBackToProcessing`), a poll by zone never goes back (`ZonePollsGoForward`) |
| `baskets` | three movements, two zones, both cabinets, in and out of a visit, any order of results, CLOSE at any moment: `MovementsAccounted`, `ArrivalOrderIsImmaterial`, `BillIsFair`, `BillWeighsWhatIsHeld`, `BillFollowsTheScales` |
| `persistence` | while no file operation has failed: of the files that threads and crashes left in `active/`, a crash would bring back that of the open basket (`OpenIsRecoverable`), a first process that stops in good order has all its baskets in `completed/` with all their triggers (`StopKeepsAll`), and what is finalized is recorded in the end, under fairness (`ClosedIsRecorded`) |
| `video` | the interleaving of two cameras gives what the analysis of one frame after the other gives (`SameAsSequential`), no answer from half an analysis: no task that failed, no frame left in the queue (`FailClosed`), and it ends unless its queue is full of frames nobody takes (`EndsOrQueueFull`) |
| `catalogue` | `PromiseKept` (refinement of `PromisedCatalogue`), `WeightNotForgotten`, `BilledAsCaptured` |
| `judgement` | the matcher's pruned search equals its definition (`SearchMatchesDefinition`), what can be explained is billed, the bill weighs what left or is one product clearly seen, and it stays within sight and stock |
| `loadcell` | `RestIsRead`, `RemovalIsCharged`, `MovementsExplainNet` on every payload of four loads |

Three runs show that the code does not do what its documents say; each is a run
whose property TLC refutes:

| Run | What happens |
|---|---|
| `gate_cancelled` | a cancelled removal is notified as processed by the return and again by the worker; the second call takes the entry of another removal, and CLOSE bills the visit without it |
| `video_stuck` | a detector error with a full queue never reaches the caller: the cancelled extractor waits for room for its EOF |
| `taken_back` | two units lifted at once and one put back in the same payload: the net of one is judged, the return is replayed as well, and the unit that is held is not billed |

Bounds and why they are enough.

* Pipeline: 3 session ids (a trigger that is notified, one that is hit, a third that
  makes a queue with the worker busy), thresholds of 0 or 1 tick (before and after),
  `QueueMax = 1` to fill the queue.
* Sessions: three in a store of two, `TTL` and ages in ticks: a session is evicted while
  it is worked on and comes back with its result.
* Baskets: three products, of which two weigh nearly the same and one may be taken
  for another; three movements over two zones (a removal, another one and a return,
  or returns to the wrong zone), and four movements in a random search of 8.7 million
  states by TLC's simulation. Tolerances are small but in the code's order. The
  mixed payloads are those `LoadcellReading` tells of, with the code's constants.
* Persistence: one zone, two threads, three triggers (two baskets of one and two, or three),
  two processes (a crash and what it left), two days with a retention of none, and one
  operation that fails, a file that cannot be read among them.
* Video: clips of up to five frames and a queue of two, stride 2, each fault once.
* Catalogue: rows with lost weight, sold out, doubled, unknown and renamed; expiry
  after one tick.
* Judgement: the code's constants but `RescueTolerance`, 8 instead of 5, so that the
  offsets fall on both sides of it; three shelves, up to three units, targets off by 0, 3 or 7 g.
* Loadcell: the code's constants; loads differ by 40 g or more, so that no window of
  five samples over a step is taken for stable. Steps of less than about 30 g are
  different: see section 5.

Fairness. `pipeline_gate`: weak fairness of the worker and of suspended handlers (the
event loop runs a ready task, and video processing ends or raises), of `DoorCloses` (the
Node process repeats CLOSE about every ten seconds until it is answered with success)
and of time; uploads, OPEN, polls, forced finalization and cleanup are not fair.
`persistence`: a thread of the pool takes the next save and finishes it; starts, stops
and crashes are not fair. `video`: the tasks of the event loop and the reading of a
frame, which ends after a timeout; faults and cancellation are not fair.
Deadlock checking is off where the model stops on purpose: a closed visit, an analysis
that has ended, a process that is not started again, a payload that is uploaded. In the
pipeline and the session store time always passes.

## 4. Proofs

The theorems hold for all zones, clips, bounds, thresholds and switches that satisfy
the assumptions of the modules: in the pipeline `StoreAssumption`, `DedupAssumption` and
`PipelineAssumption` (numbers are natural, the cache and the queue have room for at
least one entry, switches are Boolean). What a theorem needs beyond them is in its
second column.

| Theorem | Also assumes | States |
|---|---|---|
| `TypeCorrect` (`DoorPipelineProofs`) | – | `[]TypeOK` |
| `NoEntryLeftBehind` (`DoorPipelineProofs`) | trace files can be written | `[]NoStuckEntry`: no entry outlives its work |
| `RegistryIsTheWork` (`DoorPipelineProofs`) | trace files can be written, `Gated` | `[]RegistryMatchesWork` |
| `CloseIsGated` (`DoorPipelineProofs`) | trace files can be written, `Gated` | `CloseWaitsForInFlight` |
| `NothingChargedTwice` (`DoorPipelineProofs`) | – | `[]ChargedAtMostOnce` |
| `FinishedWorkIsKept` (`DoorPipelineProofs`) | – | `[]CompletedIsKept` |
| `CancelledStaysOut` (`DoorPipelineProofs`) | `CooperativeCancel`, the default | `CancelledNeverCharged` |
| `LeakedAreErrors` (`DoorPipelineProofs`) | – | `[]LeakedEntriesAreErrors` |
| `AnswersAreFinal` (`DoorPipelineProofs`) | – | `FinalStatusStays` |
| `AnswersAreCharges` (`DoorPipelineProofs`) | – | `[]AnswersMatchCharges` |
| `BillsAreOfTheirVisit` (`DoorPipelineProofs`) | `Orderly` | `[]BilledToOwnVisit` |
| `BillsAreComplete` (`DoorPipelineProofs`) | `Orderly`, no forced finalization | `[]VisitBillsItsTriggers` |
| `PipelineKeepsTransaction` (`DoorPipelineProofs`) | `Orderly`, no forced finalization | `TransactionKept`, the refinement of `DoorTransaction` |
| `StoreTypeCorrect` (`SessionStoreProofs`) | – | `[]TypeOK` |
| `WorkIsFound` (`SessionStoreProofs`) | – | `[]ResultsAreFound` |
| `ZonePollsForward` (`SessionStoreProofs`) | – | `ZonePollsGoForward` |
| `ProcessingComesFirst` (`SessionStoreProofs`) | – | `NeverBackToProcessing` |
| `PersistenceTypeCorrect` (`PersistenceProofs`) | – | `[]TypeOK` |
| `OpenBasketsRecover` (`PersistenceProofs`) | – | `[]OpenIsRecoverable` |
| `StopLosesNothing` (`PersistenceProofs`) | – | `[]StopKeepsAll` |
| `NeverHalfAnAnalysis` (`VideoProofs`) | – | `[]FailClosed` |
| `InterleavingIsImmaterial` (`VideoProofs`) | – | `[]SameAsSequential` |
| `StoreKeepsPromise` (`CatalogueProofs`) | – | `PromiseKept`, the refinement of `PromisedCatalogue` |
| `WeightsAreKept` (`CatalogueProofs`) | – | `WeightNotForgotten` |
| `BillsAreCaptured` (`CatalogueProofs`) | – | `[]BilledAsCaptured` |
| `BillIsWeighed` (`BasketProofs`) | – | `[]BillFollowsTheScales` |
| `BilledAsSeen` (`JudgementProofs`) | – | `[]BilledWasSeenAndInStock` |
| `BilledByWeight` (`JudgementProofs`) | – | `[]BillWeighsOrIsOneSeen` |
| `SearchIsComplete` (`JudgementProofs`) | – | `[]SearchMatchesDefinition` |
| `ExplainedIsBilled` (`JudgementProofs`) | – | `[]ExplainableIsBilled` |

`Gated` says that neither cause of a notification about an id without an entry
occurs: no unstable removals, no balanced cancellation. The run `gate_cancelled` shows
that it is needed, and section 5 what else breaks the properties without it.
`Orderly` is `Gated`, trace files that can be written, and visits that do not expire. A
visit that expires ends without a look at the registry, so what is judged of it later
can land in the next visit; after a trace that cannot be written the registry no
longer tells what work is left, which the gate of CLOSE relies on. A forced
finalization during a visit drops the zone's first basket from its bill (section 5), so
the two theorems about whole bills exclude it; `BillsAreOfTheirVisit` does not. These
are the switches of the run `pipeline_gate`; `pipeline_default` has them the other way.

The arguments:

* **Types.** `TypeOK` is inductive as it stands; `StepTypes` goes through the actions.
  The bounded ages need `GrownTypes`, the registry `RegistryOK` of its operators.
* **Work.** `NoStuckEntry` follows from `RegistryMatchesWork` where that holds, and is proved
  on its own because it also holds in the shipped configuration, with balanced
  cancellation and unstable removals. It is not inductive: when the worker ends an item, its entry
  goes, and the state after is good only if the same id is not in the queue as well.
  `QueueOK` says that: held items are distinct and issued. `StepWork` sorts every
  step into nine kinds (`WorkStep`: nothing, an entry dropped, grown, got, started,
  ended, ...), so each invariant is checked against nine cases and not
  twenty-six actions. `RegistryMatchesWork` is then inductive together with
  `QueueOK`: the registry has the entry of every held item, so a notification never
  falls back to another one of the zone. `CloseIsGated` follows, as only the CLOSE
  that finds an empty registry writes a bill (`BilledByClose`).
* **Charges.** Steps are of four kinds for the store (`ChargeStep`: baskets stay,
  baskets are finalized, the visit is billed, one trigger is added). `ChargeInv`
  strengthens `ChargedAtMostOnce`: what the store took in is issued and no longer
  held, so a trigger that is added is new to it; and what a visit links was taken in
  and is in no earlier bill, which a forced finalization relies on, as its
  basket is billed from the link. `FinishedWorkIsKept` uses that the store never
  forgets (`ChargedStep`).
* **Cancellation.** `EventInv`: an event is `processing` while the worker runs its
  video, ids not issued have no event, and what is `queued` or cancelled was not
  taken in. `StepEvents` lists the ways an event changes.
* **Leaks and answers.** `LeakedEntriesAreErrors` needs only that entries are of issued
  ids. `FinalStatusStays` rests on `Unanswered`: what is held, or suspended in a handler,
  is still unanswered or `processing`, and an id is in one of these places at most, so
  nobody is left to overwrite an answer. `StepAnswers` sorts the steps as `StepWork` does.
  `AnswersMatchCharges` brings the three together: an id that is charged is answered and
  no longer held, so by `UnansweredStep` and `EventStays` neither its answer nor its
  event changes; who is newly charged is answered in the same step (`NewlyCharged`), and
  who is newly answered as complete is charged in that step or never (`NewlyAnswered`).
  For a handler that resumes, `NoEventYet` says that its request has no event.
* **Visits.** `VisitInv`: `home[s]`, the visit an upload came in, is never a later one, and
  what is still live (held, in a basket or linked) is of the visit that is on, or of none.
  It is inductive because a visit ends only by a CLOSE that finds no work, and takes
  all baskets with it. `BilledInv` adds that a judged removal of the open visit is in a
  basket and that the links of the visit are among the baskets, so its bill is all of it.
* **Transaction.** The abstract state is read off the pipeline; each step maps to a step
  of `DoorTransaction` or to a stutter, by the kinds of `ChargeStep`. That the abstract
  visit is billed only when no work is left comes from `RegistryIsTheWork`.
* **Session store.** `Ordered`: every record has an order of its own, and of two the one
  saved later is not older, so eviction by order is eviction by age and gives up the
  oldest. `Forward`: what a zone was shown is followed by a record as new, as long as
  the zone has any. `Answered`: a record says `processing` only while its worker is
  working, and a worker that has answered does not start again. For `ResultsAreFound`:
  `Linked`, a record carries the order and the age of its session's last save; `UpToDate`,
  its status is one of the stage its worker reached; `Missed`, a session without a record
  is too old or crowded out. An evicted record had at least `Target` newer ones, each of
  an order of its own, so as many saves lie between (`EvictedIsCrowdedOut`), and as only
  a save of its own brings a session back, that stays so (`StaysCrowdedOut`).
* **Persistence.** `DiskInv`. `OnDisk`: where nothing has failed, an open basket is in
  `active/` or a copy of it is on its way, and no copy on its way completes it. That it is
  also the one recovery would choose is not plain: a late thread may have put an old copy
  over its file, and files of earlier baskets may lie beside it. A copy is a stretch of the
  numbered triggers (`Spans`), and the stretches of two baskets of a zone do not overlap,
  with those of others all before the open one (`BasketsApart`); so the oldest copy of the open
  basket is still newer than anything else. This needs that no operation failed: after a
  start that skipped an unreadable file (`load`) the older basket goes on, with triggers
  later than those of the newer one.
  `StopKeepsAll` speaks of a stop, and for that the invariant follows the copies
  of one basket through queue, threads and files (`FirstLife`): a copy holds no more than
  the basket does, the completed one holds all of it, a basket that was archived is
  complete on disk or on its way, or past the retention.
  `Homes` and `Errands` tell whose copy it is and where a thread is with it. `FirstLife` is
  restricted to the first process, as the property is.
* **Video.** `FailClosed` speaks of the state after the caller returned. The invariant
  `Inv` adds the typing of every task's place and `Quiet`: while the caller watches its
  tasks nobody is cancelled, so a task that has ended there ended by itself, well or
  with an error that the caller sees before it returns. That no frame is left in the
  queue is the EOF protocol, `Marks`: an EOF is the last entry of its camera
  (`InOrder`), and the EOFs counted and those in the queue are together no more than the
  cameras that are through (`Counted`). The loop that has counted all of them has none left
  in the queue, and an entry would have its camera's EOF behind it.
* **Evidence.** `SameAsSequential` compares two folds over frames, each frame a fold over
  its detections, in different orders. The invariant `Evidence` follows each camera:
  what was gathered of it is what its first n frames show alone, and the frames between n
  and `sent` are in the queue in order (`Streamed`). That adding a frame of one camera leaves
  the other's evidence alone is `AddFrameOwn`; that the result depends on each camera's
  evidence only, up to the order of weak candidates of equal strength, is `SameResult`.
  The prover has no induction over data, so the folds are reasoned about by minimality: a
  least number at which a statement fails (`Counting`), and a least set for which the
  recursion behind a fold has no solution (`SolutionExists`, `FoldStates`).
* **Baskets.** `BillFollowsTheScales` speaks of the state after CLOSE, of ambient visits in
  which nothing was put back. `BasketInv` follows their sessions: they hold triggers of
  removals among those that happened, a basket, and no return that is deferred, unmatched
  or matched across zones (`Takes`). It rests on one lemma for each pass: rebuilding leaves
  no return open (`AggregateType`, `RebuiltAll`), nothing is matched across zones
  (`NoCrossReturns`) or settled late (`NothingDeferred`), the check of the net finds every
  net a removal (`NothingToValidate`), and the final weight check leaves a basket of the
  right weight, replaces it or empties it (`FinallyWeighed`). That the net of a zone is what
  its loadcells lost is `NetIsLost`. The repeated product that may replace a basket is the
  best of finitely many groups, each of a product of known weight (`GroupsWeighed`,
  `BestIsOne`); the order by tuples of keys is `LexOrder`. Assumed are the types of the
  movements (`ZonesAssumption`), of weights and tolerances (`AggregationAssumption`,
  `CloseAssumption`); the movements themselves may be any, also seen wrongly. TLC
  checked `BasketInv` on the instance of `baskets` before it was proved.
* **Judgement.** `BilledAsSeen` is about any removal (`IsRemoval`), not only those of the
  run, whose scenes TLC checks to be such (`ScenesAssumption`); assumed are the types of the
  settings (`MatchingAssumption`, `DecisionAssumption`). A result is `Sound` when its items
  are of named classes on sale, each once, in numbers that are not above a positive
  stock; one lemma for each branch says that it gives a sound result, and the cascade and the
  last guard keep it so. For the strict matcher that is an invariant of the search:
  a node combines candidates that come before the first that may still join
  (`Nodes`, `GrownType`), so no class joins twice. Joined stage entries keep the classes different
  (`StageAddedType`, `JoiningType`). Each choice of a best entry has to exist: of keys by
  `LexLeast` and `FirstByOneOf`, of relative errors by `Closest`, an order of fractions.
  The relaxed search takes stock 0 for three units; that such an item is dropped before
  it is billed is the last step (`StoredSound`).
  `BilledByWeight` assumes two things more. The video names only classes in stock
  (`NamedInStock`), as the detector is given no others: else the worker drops a sold-out
  half of a pair and the rest weighs too little; TLC checks it of the scenes. And a single
  unit may be off by no more than two (`SlackAssumption`), which the defaults satisfy with
  8 g against 15 g. The argument: a success explains exactly what its items weigh (part
  of `Sound`), so the last guard bounds the error of all it lets pass by the tolerance of
  the units (`EnforcedFair`, `SlackBounds`). The guard lets changes below `min_weight_change`
  pass, where only a strict combination is left, and the search returns no other than those
  that weigh right (`Exact`, `SeveralFair`); and identity goes past the guard, with its own
  comparison or one unit (`VisionFirstFair`).
  `SearchIsComplete` compares the search with a definition that does not search
  (`Admissible`: ranks in rising order, a count for each, right in stock, units and weight).
  The invariant, round by round, says which nodes have been met: exactly those that choose at
  most k candidates, in the order of their ranks, not too heavy and not too many
  (`Reached`), and no combination twice (`Apart`). That nothing is missed is `MetBefore`: what
  a node leaves out of a combination is lighter and has fewer units, so the node above
  was not pruned either; that nothing is met twice is `ChildrenMet` and `MetApart`: two
  nodes of one round differ in a part, its count, or what they are grown from.
  `DeepenedMet` is the step of the induction, `VisitedMet` its end; `FoundMet` adds that
  the cut at `max_combinations` drops nothing when there are fewer.
  `ExplainedIsBilled` assumes with `NamedInStock` that this cut does not happen, as a
  search that is cut off may return risky combinations only and drop the believable one,
  and that `min_weight_change` is at least the matcher's tolerance, below which it
  returns nothing; the defaults are 5 g for both, and three classes in at most five units
  make no more than 55 combinations in the run against 100 allowed (`FewExplain`). The
  argument: completeness puts the believable combination among those the strict matcher
  chooses from (`StrictExplains`), and what it chooses passes the last guard, also when the
  first candidate takes the place of a product of its weight, since every unit counts for
  the tolerance (`GraceItems`, `StrictPasses`). Ahead of it in the cascade stands only the
  guard for products of one weight, whose own allowances, of one unit, several and two
  bottles, are none larger than the last guard's (`CollisionPasses`). So the first result is
  complete (`CascadeExplains`), and a complete result weighs what is gone (`CascadeFair`).
* **Catalogue.** The refinement maps the store's two snapshots to what is promised.
  It needs `Paired`: while a current catalogue has something in stock it is the last
  valid one, so the fallback never tells of another. `WeightNotForgotten` is about one
  step of `set_products`: a class whose weight the current or a fresh catalogue tells has
  a positive repair source (`WeighedIfKnown`). `CopiesOK`: what is billed of a copy is one of its rows in stock.

The parts of `DiskInv` were checked with TLC before they were proved, on one zone with two
triggers and on two zones with one.

Model-checked only:

* Liveness: `EverythingEnds`, `ClosedIsRecorded`, `EndsOrQueueFull`. It needs fairness
  and `ENABLED`, which the prover does not handle.
* The baskets when something was put back (`MovementsAccounted`, `ArrivalOrderIsImmaterial`,
  `BillIsFair`, `BillWeighsWhatIsHeld`), and the type invariant of `ZoneBaskets`. They equate
  sums over baskets, hints and returns that several nested folds change; each would need its
  own lemmas about those folds, as `BasketProofs` has for removals, and these were not done.
* `ArrivalOrderIsImmaterial` compares the baskets with those the same results give when they
  arrive as things happened, in sessions opened in the order they were. The last part is
  needed: where combinations of several units tie, the search across zones goes by the
  time a session was created (`StableKey`), so which of two zones keeps a product can depend
  on whose result came first. Apart from that the order of arrival must not matter.
* The loadcells (`RestIsRead`, `RemovalIsCharged`, `MovementsExplainNet`), folds over samples.

## 5. What the code does that its documents do not say

Beside the three violation runs, modelling showed the following; `WaitingCanBeRetried`
and `GpuExclusive` in `PipelineProperties` state two of them.

Pipeline and door
* An unstable removal, never registered, is notified as processed
  (`trigger_service.py:583`), with the effect of `gate_cancelled`: the registry falls back
  to another entry of the zone (`door_session_store.py:398`).
* An upload answered "retry trigger after stable tail" is registered as seen
  (`trigger_service.py:626`), so its retry within the TTL is answered as a duplicate.
* A low-weight request runs the detector next to the worker (`trigger_service.py:2792`),
  although "the worker is intentionally serial to protect the Jetson GPU".
* A trace file that cannot be written ends the worker (`trigger_service.py:3298`) or
  leaves an entry behind (`trigger_service.py:2696`): CLOSE answers `pending_trigger` on.
* A forced finalization during a visit drops the zone's first basket from the bill
  (`door_session_store.py:1333`).
* A failure after the session was evicted from the session store is told to nobody
  (`update_stage` of an unknown id only logs).
* A trace that cannot be written after a trigger was added to its basket makes the answer an
  error (`trigger_service.py:3734`, `3313`) although the trigger is charged; it is the only such
  mismatch (`AnswersMatchCharges`).
* Recovery skips a file it cannot read (`yaml_persistence.py:183`, `213`) and takes up an older
  basket of the zone, if one is there; the newer file stays in `active/`.
* The active file of a basket is removed before the completed one exists
  (`yaml_persistence.py:114`): a crash in between loses it.

Baskets
* The reconciliation of waiting returns compares with the absolute value of the zone's net
  (`door_session_store.py:1674`): a zone that ended heavier by the weight of its basket
  keeps it, and the zone the products came from bills them as well.

Catalogue
* `get_effective_snapshot` and `runtime-flow.md:80` speak of the catalogue of the visit; an
  empty payload does not end what the last valid one allows.
* The bill looks prices up in the live store when the copy has none. Class id 0 is never
  recognised; two rows of one class are both kept, and a weight is repaired by an index
  that another product may have had.

Video and judgement
* `vote_count` counts detections, not frames; an unreadable video gives an empty result; the
  order of rescued candidates that tie depends on the interleaving; before Python 3.12
  `wait_for` may swallow a cancellation that meets a result.
* The grip of a segment (three units, `product-detection-pipeline.md:190`) is ignored by
  `calculate_combination` (`decision_engine.py:9465`), whose limit is five.
* A single bottle may be billed 13 g off, past the guard of 8 g; the strong-bottle override
  ignores stock; the vision-first partial result bypasses the full-weight guard; the guard
  for equal weights comes before an exact match; stock 0 counts as three in the relaxed
  search and is dropped after it; the strict and the combination path ignore `has_loadcell`.

Loadcells
* `filter_peaks` is documented to remove spikes; its result is only counted.
* The channel targets average all samples a plateau was prolonged over, the bumps included
  (the document calls them stable channel deltas).
* A step of less than about 30 g never makes a window of five unsteady: plateaus melt into
  each other, and a product of 20 g gives an unstable removal, which charges nothing in
  an ambient cabinet. A swap of products within 5 g of each other is paired out.
* A tail of up to four samples at another load is accepted: a payload may be cut off when
  the next movement has begun.

## 6. Not modelled

* Decision engine: the freezer's strategies, payloads with several removal segments,
  judgement by vision alone, the `weight_aware` policy and its forced final fallback, the
  rescue and diagnostic lists of the trace as evidence, the formula of the stage score.
* Strict matcher: the matching of a return, which the baskets do by themselves.
* Video: the freezer's re-ranking of candidates, diagnostics, image preprocessing; inference.
* Loadcells: purchase candidates after the first (only traced), targets that need vision,
  the retired mixed-sign guard, samples that cannot be parsed.
* Pipeline: the cancellation of the worker after the 30 s of a stop, `process_trigger` (used
  only where no worker was started), the search by weight in balanced cancellation.
* CLOSE: the repair by a later candidate and the freezer's combination search, which are
  never reached; the cap on combinations visited across zones.
* `api/routes/trigger.py` parses an upload and calls what is modelled; `services` that only
  build responses, configuration, logging, health and traces: input and output.

What would come next: the freezer's decision strategies, on top of `WeightMatching`; the
segment matcher for several removals in one payload, fed by `LoadcellReading`.
