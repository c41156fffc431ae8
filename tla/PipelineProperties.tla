-------------------------- MODULE PipelineProperties --------------------------
(***************************************************************************)
(* What the trigger pipeline and the door visits promise.                  *)
(***************************************************************************)
EXTENDS TriggerPipeline

CacheOK(cache) ==
  /\ DOMAIN cache \subseteq Clip
  /\ cache \in [DOMAIN cache -> [sid : Sid, age : 0..DedupTTL]]

TypeOK ==
  /\ StoreTypeOK
  /\ issued \in 0..MaxTriggers
  /\ zoneOf \in [Sid -> Zone]
  /\ home \in [Sid -> 0..MaxVisits]
  /\ queue \in Seq(Sid)
  /\ worker \in [pc : {"idle", "got", "video", "dead"}, item : 0..MaxTriggers]
  /\ worker.pc \in {"got", "video"} => worker.item \in Sid
  /\ event \in [Sid -> EventState]
  /\ status \in [Sid -> SessionStatus]
  /\ suspended \subseteq Suspension
  /\ CacheOK(dedup)

-----------------------------------------------------------------------------
(* The registry and the work it stands for *)

\* An entry of the registry belongs to a removal that is still in the queue or
\* at the worker: nothing else can keep CLOSE waiting for ever.  Weaker than
\* RegistryMatchesWork below, and proved where that does not hold: returns that
\* cancel and unstable removals may take an entry too many, not leave one
\* (door_session_store.py handle_close_signal, pending_trigger).
NoStuckEntry == DOMAIN pending \subseteq Held

\* Where trace files may fail, an entry can outlive its work, but only for a
\* removal whose loadcell event was marked as an error first.
LeakedEntriesAreErrors ==
  \A s \in DOMAIN pending \ Held : event[s] = "error"

\* Every removal in the queue or at the worker has its own entry, and an entry
\* says "processing" exactly while the worker runs its video.
RegistryMatchesWork ==
  /\ DOMAIN pending = Held
  /\ \A s \in Held : /\ pending[s].zone = zoneOf[s]
                     /\ pending[s].status = "processing" <=>
                          worker = [pc |-> "video", item |-> s]

\* A visit is billed only while no removal that may still be charged is in the
\* queue or at the worker.
CloseWaitsForInFlight ==
  [][\A v \in Visit :
       outcome[v] = "none" /\ outcome'[v] = "billed" => InFlight = {}]_vars

-----------------------------------------------------------------------------
(* Baskets and bills *)

\* A trigger is charged at most once: no trigger is in two bills, in two
\* baskets, or in a basket after it was billed or archived.
ChargedAtMostOnce ==
  /\ \A v, w \in Visit : v # w => bill[v] \cap bill[w] = {}
  /\ \A y, z \in Zone : y # z => active[y].triggers \cap active[z].triggers = {}
  /\ InBaskets \cap archived = {}
  /\ \A v \in Visit : bill[v] \subseteq archived

\* A removal cancelled by a return never reaches a basket or a bill, whatever
\* the worker was doing when the return came.
CancelledNeverCharged ==
  [][\A s \in Sid : "cancelled_by_return" \in {event[s], event'[s]} =>
       s \notin (InBaskets \cup archived)']_vars

\* What the worker finished is still known to the store: in a basket, or in a
\* basket that was saved when it was finalized.
CompletedIsKept ==
  \A s \in Sid : event[s] = "complete" => s \in InBaskets \cup archived

\* What the cabinet was told is what is charged.  A trigger told to be uploaded
\* again ("waiting"), or still without an answer, is in no basket; one that was
\* charged is answered as complete, except that where the trace could not be
\* written after the basket it is answered as an error (trigger_service.py,
\* trace_context.finalize after add_trigger_with_global); and an answer of
\* complete is charged, unless a return and the removals it matched cancelled
\* each other or the request never had an event (low weight).
AnswersMatchCharges ==
  \A s \in Sid :
    /\ s \in InBaskets \cup archived =>
         \/ status[s] = "complete"
         \/ TraceCanFail /\ status[s] = "error" /\ event[s] = "error"
    /\ status[s] = "complete"
         /\ event[s] \notin {"none", "cancelled_by_return", "balanced_out"} =>
         s \in InBaskets \cup archived

\* A session that was reported complete or failed to the cabinet keeps that
\* answer.
FinalStatusStays ==
  [][\A s \in Sid : status[s] \in {"complete", "error"} => status'[s] = status[s]]_vars

\* A trigger is billed to the visit it was uploaded in.
BilledToOwnVisit ==
  \A v \in Visit : \A s \in bill[v] : home[s] \in {0, v}

\* A billed visit has every removal of the visit that was judged: nothing the
\* customer took in it is left out (global_door_session.py, "all zone triggers
\* from OPEN to CLOSE").
VisitBillsItsTriggers ==
  \A v \in Visit : outcome[v] = "billed" =>
    \A s \in Sid : home[s] = v /\ event[s] = "complete" => s \in bill[v]

\* The pipeline and the store together keep the promise of DoorTransaction.
Transaction == INSTANCE DoorTransaction
  WITH Trigger <- Sid, Visits <- Visit, open <- global.open,
       work <- InFlight, basket <- InBaskets, ledger <- bill

TransactionKept == Transaction!Spec

-----------------------------------------------------------------------------
(* Requests *)

\* A request answered "retry after the tail is stable" is not answered as a
\* duplicate when it is retried.
WaitingCanBeRetried == \A c \in DOMAIN dedup : status[dedup[c].sid] # "waiting"

\* One video at a time runs on the GPU.
GpuExclusive ==
  Cardinality({w \in suspended : w.in = "video"})
    + (IF worker.pc = "video" THEN 1 ELSE 0) <= 1

-----------------------------------------------------------------------------
(* Liveness *)

\* Every removal that was queued leaves the worker in the end.
WorkIsFinished == \A s \in Sid : s \in Held ~> s \notin Held

\* A visit the cabinet keeps closing ends: no registry entry blocks it.
VisitEnds == global.open ~> ~global.open

\* The work of every removal ends, and so does the visit that waits for it.
EverythingEnds == WorkIsFinished /\ VisitEnds

=============================================================================
