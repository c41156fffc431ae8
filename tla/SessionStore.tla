---------------------------- MODULE SessionStore ----------------------------
(***************************************************************************)
(* Results of triggers between the worker and the polling client           *)
(* (session/session_store.py, and its use by trigger_service.py and by     *)
(* judge_multi_zone when no visit is open).                                *)
(*                                                                         *)
(*   store   _store: session id |-> status, age and the order of its       *)
(*           creation (created_at; two saves never share it)               *)
(*   saves   number of records created so far                              *)
(*   worker  what the trigger service did with the trigger                 *)
(*   answer  per session id, what the last poll of it was told             *)
(*   shown   per zone, the record the last poll without a session id was   *)
(*           told of, by its order                                         *)
(*   last    per session, order and age of its last save, whatever became  *)
(*           of the record (kept for the properties only)                  *)
(*                                                                         *)
(* A record is replaced as a whole by the save of the result, with a new   *)
(* creation time; update_stage changes the record that is there, if any.   *)
(* Every method runs under the store's lock.                               *)
(***************************************************************************)
EXTENDS Integers, FiniteSets, Functions

CONSTANTS
  Sid,          \* sessions
  Zone,
  ZoneOf,       \* zone in a session's id
  Polled,       \* sessions whose id the client polls; of the others it polls the zone
  MaxSessions,  \* max_sessions
  TTL           \* ttl_seconds, in ticks

ASSUME SessionStoreAssumption ==
  /\ IsFiniteSet(Sid)
  /\ ZoneOf \in [Sid -> Zone] /\ Polled \subseteq Sid
  /\ MaxSessions \in Nat \ {0}
  /\ TTL \in Nat

VARIABLES store, saves, worker, answer, shown, last

vars == <<store, saves, worker, answer, shown, last>>

Status == {"processing", "waiting", "complete", "error"}
Answers == Status \cup {"not_found", "expired"}

Record == [status : Status, age : 0..(TTL + 1), order : Nat]

\* no_active_session
Nothing == 0

Init ==
  /\ store = <<>>
  /\ saves = 0
  /\ worker = [s \in Sid |-> "none"]
  /\ answer = [s \in Sid |-> "none"]
  /\ shown = [z \in Zone |-> Nothing]
  /\ last = [s \in Sid |-> [order |-> 0, age |-> 0]]

Ids == DOMAIN store

-----------------------------------------------------------------------------
(* Operations of the store *)

\* Mistake: one entry too many.
FullTooLate == Cardinality(Ids) > MaxSessions

Full == Cardinality(Ids) >= MaxSessions

Target == (MaxSessions * 8) \div 10

Newer(s) == {t \in Ids : store[t].order > store[s].order}

\* Mistake: the newest sessions go.
KeptOldest == {s \in Ids : Cardinality(Ids \ (Newer(s) \cup {s})) < Target}

\* _cleanup_to_capacity keeps the newest.
Kept == {s \in Ids : Cardinality(Newer(s)) < Target}

\* save, whatever it overwrites.
Save(s, status) ==
  LET rec  == [status |-> status, age |-> 0, order |-> saves + 1]
      left == IF Full THEN Kept ELSE Ids
  IN /\ store' = [t \in left \cup {s} |-> IF t = s THEN rec ELSE store[t]]
     /\ saves' = saves + 1
     /\ last' = [last EXCEPT ![s] = [order |-> saves + 1, age |-> 0]]

\* Mistake: a missing session is created anew.
UpdateStageCreating(s, status) ==
  store' = [t \in Ids \cup {s} |->
              IF t \in Ids THEN IF t = s THEN [store[t] EXCEPT !.status = status] ELSE store[t]
              ELSE [status |-> "processing", age |-> 0, order |-> saves]]

\* update_stage, of which only the status matters here.
UpdateStage(s, status) ==
  store' = IF s \in Ids THEN [store EXCEPT ![s].status = status] ELSE store

Expired(s) == store[s].age > TTL

Removed(sids) == Restrict(store, Ids \ sids)

-----------------------------------------------------------------------------
(* The trigger service *)

\* enqueue_trigger: the session of an accepted trigger.
Enqueue(s) ==
  /\ worker[s] = "none"
  /\ Save(s, "processing")
  /\ worker' = [worker EXCEPT ![s] = "working"]
  /\ UNCHANGED <<answer, shown>>

\* ... and of one the full queue refuses: the save and the error in a request.
EnqueueQueueFull(s) ==
  /\ worker[s] = "none"
  /\ Save(s, "error")
  /\ worker' = [worker EXCEPT ![s] = "failed"]
  /\ UNCHANGED <<answer, shown>>

\* The result of video and judgment is saved before the basket and the trace
\* are written ...
Publish(s) ==
  /\ worker[s] = "working"
  /\ \E status \in {"complete", "waiting"} : Save(s, status)
  /\ worker' = [worker EXCEPT ![s] = "published"]
  /\ UNCHANGED <<answer, shown>>

Finish(s) ==
  /\ worker[s] = "published"
  /\ worker' = [worker EXCEPT ![s] = "finished"]
  /\ UNCHANGED <<store, saves, answer, shown, last>>

\* ... and an exception before or after that is the session's last status.
Fail(s) ==
  /\ worker[s] \in {"working", "published"}
  /\ UpdateStage(s, "error")
  /\ worker' = [worker EXCEPT ![s] = "failed"]
  /\ UNCHANGED <<saves, answer, shown, last>>

-----------------------------------------------------------------------------
(* The client and the cleanup task *)

\* judge_multi_zone with a session id: get_with_status drops what is expired.
Poll(s) ==
  /\ s \in Polled /\ worker[s] # "none"
  /\ answer' = [answer EXCEPT ![s] = IF s \notin Ids THEN "not_found"
                                     ELSE IF Expired(s) THEN "expired"
                                     ELSE store[s].status]
  /\ store' = IF s \in Ids /\ Expired(s) THEN Removed({s}) ELSE store
  /\ UNCHANGED <<saves, worker, shown, last>>

Active(z) == {s \in Ids : ~Expired(s) /\ ZoneOf[s] = z}

Latest(z) == CHOOSE s \in Active(z) : \A t \in Active(z) : store[t].order <= store[s].order

\* judge_multi_zone with a device id or none: get_latest_active.
PollZone(z) ==
  /\ shown' = [shown EXCEPT ![z] =
                 IF Active(z) = {} THEN Nothing ELSE store[Latest(z)].order]
  /\ UNCHANGED <<store, saves, worker, answer, last>>

\* cleanup_expired, from the periodic task.
CleanupExpired ==
  /\ \E s \in Ids : Expired(s)
  /\ store' = Removed({s \in Ids : Expired(s)})
  /\ UNCHANGED <<saves, worker, answer, shown, last>>

Older(age) == IF age <= TTL THEN age + 1 ELSE age

Tick ==
  /\ store' = [s \in Ids |-> [store[s] EXCEPT !.age = Older(@)]]
  /\ last' = [s \in Sid |-> [last[s] EXCEPT !.age = Older(@)]]
  /\ UNCHANGED <<saves, worker, answer, shown>>

-----------------------------------------------------------------------------

Next ==
  \/ \E s \in Sid : Enqueue(s) \/ EnqueueQueueFull(s) \/ Publish(s)
                   \/ Finish(s) \/ Fail(s) \/ Poll(s)
  \/ \E z \in Zone : PollZone(z)
  \/ CleanupExpired \/ Tick

Spec == Init /\ [][Next]_vars

-----------------------------------------------------------------------------

\* Types, and no more sessions than max_sessions whatever overwrites whatever.
TypeOK ==
  /\ Ids \subseteq Sid
  /\ \A s \in Ids : store[s] \in Record
  /\ Cardinality(Ids) <= MaxSessions
  /\ saves \in Nat
  /\ worker \in [Sid -> {"none", "working", "published", "finished", "failed"}]
  /\ answer \in [Sid -> Answers \cup {"none"}]
  /\ shown \in [Zone -> Nat]

\* The statuses of a session whose trigger the service has brought so far.
Stages ==
  [working |-> {"processing"}, published |-> {"complete", "waiting"},
   finished |-> {"complete", "waiting"}, failed |-> {"error"}]

\* As many sessions as the store keeps (80% of max_sessions) were saved after s,
\* and then another save made room.
CrowdedOut(s) ==
  /\ Cardinality({t \in Sid : last[t].order > last[s].order}) >= Target
  /\ saves > last[s].order + Target

\* A client that asks for a session finds what the worker did with its trigger
\* last, however the trigger's two saves, the status changes, evictions and
\* expiries meet in the store; it finds nothing only when the last save is too
\* old or was crowded out by later ones. Above all, the result of a trigger
\* whose session was evicted while it was worked on is there again, and an
\* eviction takes no result before its time (save, update_stage,
\* _cleanup_to_capacity, cleanup_expired, get_with_status).
ResultsAreFound ==
  \A s \in Sid : worker[s] # "none" =>
    IF s \in Ids THEN store[s].status \in Stages[worker[s]]
    ELSE last[s].age > TTL \/ CrowdedOut(s)

\* Polls of a zone never step back: whatever is evicted, expired or saved
\* again between two of them, the second shows the same session or a record
\* created later, or nothing (get_latest_active).
ZonePollsGoForward ==
  [][\A z \in Zone :
       shown'[z] # Nothing => shown'[z] >= shown[z]]_vars

\* After a result, an error, an expiry or an eviction the client never finds the
\* session "processing" again, although all of them meet in the store in any
\* order: an evicted session is unknown to its polls until its result is saved
\* (update_stage creates no record).
NeverBackToProcessing ==
  [][\A s \in Sid :
       answer'[s] = "processing" => answer[s] \in {"none", "processing"}]_vars

=============================================================================
