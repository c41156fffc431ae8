-------------------------- MODULE SessionStoreProofs --------------------------
(***************************************************************************)
(* Proofs about the session store: it keeps its bound, a client finds what *)
(* the worker did last, and answers do not step back.                      *)
(***************************************************************************)
EXTENDS SessionStore, FoldProofs

-----------------------------------------------------------------------------
(* The order of the records. *)

\* Every record has an order of its own, no later than the last save, and of
\* two records the one saved later is not older.
Ordered ==
  /\ \A s \in Ids : store[s].order \in 1..saves
  /\ \A s, t \in Ids : store[s].order = store[t].order => s = t
  /\ \A s, t \in Ids : store[s].order < store[t].order => store[t].age <= store[s].age

TypeInv ==
  /\ TypeOK
  /\ store \in [Ids -> Record]
  /\ shown \in [Zone -> Nat]
  /\ last \in [Sid -> [order : Nat, age : 0..(TTL + 1)]]

StoreInv == TypeInv /\ Ordered

LEMMA TargetIs == Target \in Nat /\ Target + 1 <= MaxSessions
  BY SessionStoreAssumption DEF Target

Orders == [s \in Ids |-> store[s].order]

\* A cleanup to capacity leaves no more sessions than its target: the oldest it
\* keeps has all others before it.
LEMMA KeptFew ==
  ASSUME StoreInv
  PROVE  IsFiniteSet(Kept) /\ Cardinality(Kept) <= Target
<1>1. IsFiniteSet(Ids) /\ IsFiniteSet(Kept) /\ Kept \subseteq Ids
  BY FS_Subset, SessionStoreAssumption DEF StoreInv, TypeInv, TypeOK, Kept
<1>2. CASE Kept = {}
  BY <1>2, FS_EmptySet, TargetIs
<1>3. CASE Kept # {}
  <2>1. \A s \in Kept : Orders[s] = store[s].order /\ Orders[s] \in Int
    BY <1>1 DEF Orders, StoreInv, TypeInv, TypeOK, Record
  <2>2. PICK s \in Kept : \A t \in Kept : Orders[s] <= Orders[t]
    BY <1>1, <1>3, <2>1, Bottommost
  <2>3. Kept \ {s} \subseteq Newer(s)
    BY <1>1, <2>1, <2>2 DEF StoreInv, Ordered, Newer
  <2>4. IsFiniteSet(Newer(s)) /\ Cardinality(Newer(s)) < Target
    BY <1>1, FS_Subset DEF Kept, Newer
  <2>5. Cardinality(Kept \ {s}) <= Cardinality(Newer(s))
    BY <2>3, <2>4, FS_Subset
  <2>6. Cardinality(Kept \ {s}) = Cardinality(Kept) - 1
    BY <1>1, FS_RemoveElement
  <2>7. Cardinality(Newer(s)) \in Nat /\ Cardinality(Kept) \in Nat
    BY <1>1, <2>4, FS_CardinalityType
  <2> QED BY <1>1, <2>4, <2>5, <2>6, <2>7, TargetIs
<1> QED BY <1>2, <1>3

\* The newest record, by any set of records.
LEMMA NewestOf ==
  ASSUME StoreInv, NEW S \in SUBSET Ids, S # {}
  PROVE  \E s \in S : \A t \in S : store[t].order <= store[s].order
<1>1. IsFiniteSet(S)
  BY FS_Subset, SessionStoreAssumption DEF StoreInv, TypeInv, TypeOK
<1>2. \A s \in S : Orders[s] = store[s].order /\ Orders[s] \in Int
  BY DEF Orders, StoreInv, TypeInv, TypeOK, Record
<1>3. PICK s \in S : \A t \in S : Orders[t] <= Orders[s]
  BY <1>1, <1>2, Topmost
<1> QED BY <1>2, <1>3

-----------------------------------------------------------------------------
(* What a step does to the store. *)

Saved(s) ==
  LET left == IF Full THEN Kept ELSE Ids
  IN /\ Ids' = left \cup {s}
     /\ saves' = saves + 1
     /\ store'[s].order = saves + 1 /\ store'[s].age = 0 /\ store'[s] \in Record
     /\ store' = [t \in Ids' |-> IF t = s THEN store'[s] ELSE store[t]]
     /\ last' = [last EXCEPT ![s] = [order |-> saves + 1, age |-> 0]]

\* Only a status changes.
Restaged ==
  /\ UNCHANGED <<saves, last>>
  /\ Ids' = Ids
  /\ store' \in [Ids -> Record]
  /\ \A t \in Ids : store'[t].order = store[t].order /\ store'[t].age = store[t].age

Outlived == \E S \in SUBSET {t \in Ids : Expired(t)} : UNCHANGED <<saves, last>> /\ store' = Removed(S)

StoreStep ==
  \/ \E s \in Sid : Saved(s)
  \/ Restaged \/ Outlived \/ Tick

LEMMA SaveIs ==
  ASSUME StoreInv, NEW s \in Sid, NEW status \in Status, Save(s, status)
  PROVE  Saved(s) /\ store'[s].status = status
<1> DEFINE rec == [status |-> status, age |-> 0, order |-> saves + 1]
           left == IF Full THEN Kept ELSE Ids
<1>1. rec \in Record /\ rec.order = saves + 1 /\ rec.age = 0 /\ rec.status = status
  BY SessionStoreAssumption DEF Record, StoreInv, TypeInv, TypeOK
<1>2. /\ store' = [t \in left \cup {s} |-> IF t = s THEN rec ELSE store[t]] /\ saves' = saves + 1
      /\ last' = [last EXCEPT ![s] = [order |-> saves + 1, age |-> 0]]
  BY DEF Save
<1> HIDE DEF rec, left
<1>3. Ids' = left \cup {s} /\ store'[s] = rec
  BY <1>2 DEF Ids
<1> QED BY <1>1, <1>2, <1>3 DEF Saved, left

LEMMA StepStore ==
  ASSUME StoreInv, [Next]_vars
  PROVE  StoreStep
<1> USE DEF StoreStep
<1>1. ASSUME UNCHANGED <<store, saves, last>> PROVE Restaged
  BY <1>1 DEF Restaged, Ids, StoreInv, TypeInv
<1>2. ASSUME NEW s \in Sid, Enqueue(s) \/ EnqueueQueueFull(s) \/ Publish(s)
      PROVE  Saved(s)
  BY <1>2, SaveIs DEF Enqueue, EnqueueQueueFull, Publish, Status
<1>3. ASSUME NEW s \in Sid, Fail(s)
      PROVE  Restaged
  <2>1. CASE s \in Ids
    <3>1. store' = [store EXCEPT ![s] = [store[s] EXCEPT !.status = "error"]] /\ UNCHANGED <<saves, last>>
      BY <1>3, <2>1 DEF Fail, UpdateStage
    <3>2. store \in [Ids -> Record]
      BY DEF StoreInv, TypeInv
    <3>3. [store[s] EXCEPT !.status = "error"] \in Record
          /\ [store[s] EXCEPT !.status = "error"].age = store[s].age
          /\ [store[s] EXCEPT !.status = "error"].order = store[s].order
      BY <2>1, <3>2 DEF Record, Status
    <3>4. Ids' = Ids
      BY <3>1 DEF Ids
    <3> QED BY <2>1, <3>1, <3>2, <3>3, <3>4 DEF Restaged
  <2>2. CASE s \notin Ids
    BY <1>1, <1>3, <2>2 DEF Fail, UpdateStage
  <2> QED BY <2>1, <2>2
<1>4. ASSUME NEW s \in Sid, Poll(s)
      PROVE  Restaged \/ Outlived
  <2>1. CASE s \in Ids /\ Expired(s)
    BY <1>4, <2>1 DEF Poll, Outlived
  <2>2. CASE ~(s \in Ids /\ Expired(s))
    BY <1>1, <1>4, <2>2 DEF Poll
  <2> QED BY <2>1, <2>2
<1>5. CASE CleanupExpired
  BY <1>5 DEF CleanupExpired, Outlived
<1>6. CASE \E s \in Sid : Finish(s)
  BY <1>1, <1>6 DEF Finish
<1>7. CASE \E z \in Zone : PollZone(z)
  BY <1>1, <1>7 DEF PollZone
<1>8. CASE UNCHANGED vars
  BY <1>1, <1>8 DEF vars
<1> QED BY <1>2, <1>3, <1>4, <1>5, <1>6, <1>7, <1>8 DEF Next

\* What a step leaves of the records is in order again, and no more than fits.
LEMMA SavedInOrder ==
  ASSUME StoreInv, NEW s \in Sid, Saved(s)
  PROVE  /\ store' \in [Ids' -> Record] /\ Ids' \subseteq Sid /\ saves' \in Nat
         /\ Cardinality(Ids') <= MaxSessions
         /\ Ordered'
<1> DEFINE left == IF Full THEN Kept ELSE Ids
<1>1. /\ Ids' = left \cup {s} /\ left \subseteq Ids /\ saves' = saves + 1 /\ saves \in Nat
      /\ store'[s].order = saves + 1 /\ store'[s].age = 0 /\ store'[s] \in Record
      /\ \A t \in Ids' : t # s => t \in Ids /\ store'[t] = store[t]
      /\ store' = [t \in Ids' |-> store'[t]]
  BY DEF Saved, Kept, StoreInv, TypeInv, TypeOK
<1>2. store' \in [Ids' -> Record] /\ Ids' \subseteq Sid
  BY <1>1 DEF StoreInv, TypeInv, TypeOK
<1>3. Cardinality(Ids') <= MaxSessions
  <2>1. IsFiniteSet(Ids) /\ IsFiniteSet(left) /\ Cardinality(left) + 1 <= MaxSessions
    <3>1. IsFiniteSet(Ids) /\ IsFiniteSet(left)
      BY <1>1, FS_Subset, SessionStoreAssumption DEF StoreInv, TypeInv, TypeOK
    <3>2. CASE Full
      <4>1. Cardinality(left) \in Nat /\ Cardinality(left) <= Target
        BY <3>1, <3>2, KeptFew, FS_CardinalityType
      <4> QED BY <3>1, <4>1, TargetIs, SessionStoreAssumption
    <3>3. CASE ~Full
      <4>1. Cardinality(Ids) \in Nat /\ left = Ids
        BY <3>1, <3>3, FS_CardinalityType
      <4>2. Cardinality(Ids) < MaxSessions
        BY <3>3, <4>1, SessionStoreAssumption DEF Full
      <4> QED BY <3>1, <4>1, <4>2, SessionStoreAssumption
    <3> QED BY <3>2, <3>3
  <2> HIDE DEF left
  <2>2. Cardinality(Ids') \in {Cardinality(left), Cardinality(left) + 1}
    BY <1>1, <2>1, FS_AddElement
  <2>3. Cardinality(left) \in Nat
    BY <2>1, FS_CardinalityType
  <2> QED BY <2>1, <2>2, <2>3, SessionStoreAssumption
<1> HIDE DEF left
<1>4. \A t \in Ids : /\ store[t].order \in Nat /\ store[t].age \in Nat
                     /\ store[t].order \in 1..saves
  BY SessionStoreAssumption DEF StoreInv, TypeInv, Ordered, Record
<1>5. \A t \in Ids' : store'[t].order \in 1..saves'
  BY <1>1, <1>4
<1>6. \A t \in Ids' : t # s => store'[t].order < store'[s].order /\ store'[s].age <= store'[t].age
  BY <1>1, <1>4
<1>7. \A t, u \in Ids' : store'[t].order = store'[u].order => t = u
  BY <1>1, <1>4, <1>6 DEF StoreInv, Ordered
<1>8. \A t, u \in Ids' : store'[t].order < store'[u].order => store'[u].age <= store'[t].age
  <2> SUFFICES ASSUME NEW t \in Ids', NEW u \in Ids', store'[t].order < store'[u].order
               PROVE  store'[u].age <= store'[t].age
    OBVIOUS
  <2>1. CASE t # s /\ u # s
    BY <1>1, <2>1 DEF StoreInv, Ordered
  <2>2. CASE u = s /\ t # s
    BY <1>6, <2>2
  <2>3. CASE t = s
    <3>1. store'[u].order \in 1..saves'
      BY <1>5
    <3> QED BY <1>1, <2>3, <3>1
  <2> QED BY <2>1, <2>2, <2>3
<1> QED BY <1>1, <1>2, <1>3, <1>5, <1>7, <1>8 DEF Ordered

LEMMA StepInOrder ==
  ASSUME StoreInv, StoreStep
  PROVE  /\ store' \in [Ids' -> Record] /\ Ids' \subseteq Sid /\ saves' \in Nat
         /\ Cardinality(Ids') <= MaxSessions
         /\ Ordered'
<1>1. CASE \E s \in Sid : Saved(s)
  BY <1>1, SavedInOrder
<1>2. CASE Restaged
  BY <1>2 DEF Restaged, StoreInv, TypeInv, TypeOK, Ordered
<1>3. CASE Outlived
  <2>1. Ids' \subseteq Ids /\ store' = [t \in Ids' |-> store[t]] /\ saves' = saves
    BY <1>3 DEF Outlived, Removed, Restrict, Ids
  <2>2. Cardinality(Ids') <= MaxSessions
    <3>1. IsFiniteSet(Ids) /\ IsFiniteSet(Ids') /\ Cardinality(Ids') <= Cardinality(Ids)
      BY <2>1, FS_Subset, SessionStoreAssumption DEF StoreInv, TypeInv, TypeOK
    <3>2. Cardinality(Ids) \in Nat /\ Cardinality(Ids') \in Nat
      BY <3>1, FS_CardinalityType
    <3>3. Cardinality(Ids) <= MaxSessions
      BY DEF StoreInv, TypeInv, TypeOK
    <3> QED BY <3>1, <3>2, <3>3, SessionStoreAssumption
  <2> QED BY <2>1, <2>2 DEF StoreInv, TypeInv, TypeOK, Ordered
<1>4. CASE Tick
  <2>1. Ids' = Ids /\ saves' = saves
    BY <1>4 DEF Tick, Ids
  <2>2. ASSUME NEW t \in Ids
        PROVE  /\ store'[t] \in Record /\ store'[t].order = store[t].order
               /\ store'[t].age = IF store[t].age <= TTL THEN store[t].age + 1 ELSE store[t].age
    <3>1. store[t] \in Record
      BY DEF StoreInv, TypeInv
    <3>2. store'[t] = [store[t] EXCEPT !.age = IF store[t].age <= TTL THEN store[t].age + 1
                                               ELSE store[t].age]
      BY <1>4 DEF Tick, Older
    <3> QED BY <3>1, <3>2, SessionStoreAssumption DEF Record
  <2>3. store' \in [Ids' -> Record]
    BY <1>4, <2>1, <2>2 DEF Tick
  <2>4. ASSUME NEW t \in Ids, NEW u \in Ids, store[u].age <= store[t].age
        PROVE  store'[u].age <= store'[t].age
    <3>1. store[t].age \in 0..(TTL + 1) /\ store[u].age \in 0..(TTL + 1)
      BY DEF StoreInv, TypeInv, Record
    <3> QED BY <2>2, <2>4, <3>1, SessionStoreAssumption
  <2> QED BY <2>1, <2>2, <2>3, <2>4 DEF StoreInv, TypeInv, TypeOK, Ordered
<1> QED BY <1>1, <1>2, <1>3, <1>4 DEF StoreStep

\* Last saves are ticked along, and renewed by the save of their session only.
LEMMA LastStep ==
  ASSUME StoreInv, StoreStep
  PROVE  /\ last' \in [Sid -> [order : Nat, age : 0..(TTL + 1)]]
         /\ \A s \in Sid :
              \/ Saved(s)
              \/ /\ last'[s].order = last[s].order
                 /\ last'[s].age \in {last[s].age, Older(last[s].age)}
<1>1. last \in [Sid -> [order : Nat, age : 0..(TTL + 1)]] /\ saves \in Nat /\ TTL \in Nat
  BY SessionStoreAssumption DEF StoreInv, TypeInv, TypeOK
<1>2. ASSUME NEW s \in Sid, Saved(s)
      PROVE  /\ last' \in [Sid -> [order : Nat, age : 0..(TTL + 1)]]
             /\ \A t \in Sid : t # s => last'[t] = last[t]
  <2>1. last' = [last EXCEPT ![s] = [order |-> saves + 1, age |-> 0]]
    BY <1>2 DEF Saved
  <2>2. [order |-> saves + 1, age |-> 0] \in [order : Nat, age : 0..(TTL + 1)]
    BY <1>1
  <2> QED BY <1>1, <2>1, <2>2
<1>3. CASE Restaged \/ Outlived
  BY <1>1, <1>3 DEF Restaged, Outlived
<1>4. CASE Tick
  <2>1. \A s \in Sid : /\ [last[s] EXCEPT !.age = Older(last[s].age)] \in [order : Nat, age : 0..(TTL + 1)]
                      /\ [last[s] EXCEPT !.age = Older(last[s].age)].order = last[s].order
                      /\ [last[s] EXCEPT !.age = Older(last[s].age)].age = Older(last[s].age)
    BY <1>1 DEF Older
  <2>2. last' = [s \in Sid |-> [last[s] EXCEPT !.age = Older(last[s].age)]]
    BY <1>4 DEF Tick
  <2> QED BY <2>1, <2>2
<1> QED BY <1>2, <1>3, <1>4 DEF StoreStep

-----------------------------------------------------------------------------

\* The store holds no more sessions than max_sessions, and every session, answer
\* and worker is what its type says, for every number of sessions and zones.
LEMMA StoreInvariant == Spec => []StoreInv
<1>1. Init => StoreInv
  <2> SUFFICES ASSUME Init PROVE StoreInv
    OBVIOUS
  <2>1. Ids = {} /\ Cardinality(Ids) = 0
    BY FS_EmptySet DEF Init, Ids
  <2> QED BY <2>1, SessionStoreAssumption DEF Init, StoreInv, TypeInv, TypeOK, Ordered, Nothing
<1>2. ASSUME StoreInv, [Next]_vars PROVE StoreInv'
  <2>1. /\ store' \in [Ids' -> Record] /\ Ids' \subseteq Sid /\ saves' \in Nat
        /\ Cardinality(Ids') <= MaxSessions
        /\ Ordered'
    BY <1>2, StepStore, StepInOrder
  <2>2. worker' \in [Sid -> {"none", "working", "published", "finished", "failed"}]
    BY <1>2 DEF StoreInv, TypeInv, TypeOK, Next, Enqueue, EnqueueQueueFull, Publish, Finish,
                Fail, Poll, PollZone, CleanupExpired, Tick, vars
  <2>3. answer' \in [Sid -> Answers \cup {"none"}]
    <3>1. ASSUME NEW s \in Sid, Poll(s) PROVE answer' \in [Sid -> Answers \cup {"none"}]
      <4>1. s \in Ids => store[s].status \in Status
        BY <1>2 DEF StoreInv, TypeInv, Record
      <4> QED BY <1>2, <3>1, <4>1 DEF Poll, Answers, StoreInv, TypeInv, TypeOK
    <3>2. CASE answer' = answer
      BY <1>2, <3>2 DEF StoreInv, TypeInv, TypeOK
    <3> QED BY <1>2, <3>1, <3>2 DEF Next, Enqueue, EnqueueQueueFull, Publish, Finish, Fail,
                                    PollZone, CleanupExpired, Tick, vars
  <2>4. shown' \in [Zone -> Nat]
    <3>1. ASSUME NEW z \in Zone, PollZone(z)
          PROVE shown' \in [Zone -> Nat]
      <4>1. CASE Active(z) = {}
        BY <1>2, <3>1, <4>1 DEF PollZone, Nothing, StoreInv, TypeInv
      <4>2. CASE Active(z) # {}
        <5>1. Latest(z) \in Ids
          BY <1>2, <4>2, NewestOf DEF Latest, Active
        <5>2. store[Latest(z)].order \in Nat /\ store[Latest(z)].status \in Status
          BY <1>2, <5>1 DEF StoreInv, TypeInv, Record
        <5> QED BY <1>2, <3>1, <4>2, <5>2 DEF PollZone, StoreInv, TypeInv
      <4> QED BY <4>1, <4>2
    <3>2. CASE shown' = shown
      BY <1>2, <3>2 DEF StoreInv, TypeInv
    <3> QED BY <1>2, <3>1, <3>2 DEF Next, Enqueue, EnqueueQueueFull, Publish, Finish, Fail,
                                    Poll, CleanupExpired, Tick, vars
  <2>5. last' \in [Sid -> [order : Nat, age : 0..(TTL + 1)]]
    BY <1>2, StepStore, LastStep
  <2> QED BY <2>1, <2>2, <2>3, <2>4, <2>5 DEF StoreInv, TypeInv, TypeOK
<1> QED BY <1>1, <1>2, PTL DEF Spec

\* Records, answers and counters of the session store keep their types, for every
\* capacity, lifetime and set of sessions, whatever is saved, evicted or polled.
THEOREM StoreTypeCorrect == Spec => []TypeOK
<1>1. StoreInv => TypeOK
  BY DEF StoreInv, TypeInv
<1> QED BY <1>1, StoreInvariant, PTL

-----------------------------------------------------------------------------
(* What a client finds. *)

\* A record carries the order and the age of its session's last save.
Linked ==
  /\ \A s \in Sid : last[s].order <= saves
  /\ \A s \in Ids : store[s].order = last[s].order /\ store[s].age = last[s].age

Later(s) == {t \in Sid : last[t].order > last[s].order}

\* Every record is of a trigger the worker knows and says where it has got to.
UpToDate == \A s \in Ids : worker[s] # "none" /\ store[s].status \in Stages[worker[s]]

Missed ==
  \A s \in Sid \ Ids : worker[s] # "none" => last[s].age > TTL \/ CrowdedOut(s)

LEMMA LinkedStep ==
  ASSUME StoreInv, StoreInv', Linked, StoreStep
  PROVE  Linked'
<1>1. /\ last \in [Sid -> [order : Nat, age : 0..(TTL + 1)]] /\ saves \in Nat /\ Ids \subseteq Sid
      /\ last' \in [Sid -> [order : Nat, age : 0..(TTL + 1)]] /\ saves' \in Nat
  BY DEF StoreInv, TypeInv, TypeOK
<1>2. ASSUME NEW s \in Sid, Saved(s) PROVE Linked'
  <2>1. /\ \A t \in Sid : last'[t] = IF t = s THEN [order |-> saves + 1, age |-> 0] ELSE last[t]
        /\ \A t \in Ids' : t # s => t \in Ids /\ store'[t] = store[t]
        /\ store'[s].order = saves + 1 /\ store'[s].age = 0 /\ saves' = saves + 1
        /\ Ids' \subseteq Sid
    BY <1>1, <1>2 DEF Saved, Kept
  <2> QED BY <1>1, <2>1 DEF Linked
<1>3. CASE Restaged
  BY <1>3 DEF Restaged, Linked
<1>4. CASE Outlived
  BY <1>4 DEF Outlived, Removed, Restrict, Ids, Linked
<1>5. CASE Tick
  <2>1. /\ Ids' = Ids /\ saves' = saves
        /\ \A s \in Sid : last'[s].order = last[s].order /\ last'[s].age = Older(last[s].age)
    BY <1>1, <1>5 DEF Tick, Ids
  <2>2. ASSUME NEW s \in Ids
        PROVE  store'[s].order = store[s].order /\ store'[s].age = Older(store[s].age)
    <3>1. store[s] \in Record
      BY DEF StoreInv, TypeInv
    <3> QED BY <1>5, <3>1 DEF Tick, Record
  <2> QED BY <1>1, <2>1, <2>2 DEF Linked
<1> QED BY <1>2, <1>3, <1>4, <1>5 DEF StoreStep

\* Whoever was saved after a session was saved after it still, until it is itself
\* saved again.
LEMMA LaterStays ==
  ASSUME StoreInv, StoreInv', Linked, StoreStep, NEW s \in Sid, ~Saved(s)
  PROVE  /\ last'[s].order = last[s].order
         /\ Later(s) \subseteq Later(s)'
         /\ IsFiniteSet(Later(s)) /\ IsFiniteSet(Later(s)')
         /\ Cardinality(Later(s)) <= Cardinality(Later(s)')
         /\ saves <= saves'
<1>1. /\ last \in [Sid -> [order : Nat, age : 0..(TTL + 1)]] /\ saves \in Nat
      /\ last' \in [Sid -> [order : Nat, age : 0..(TTL + 1)]] /\ saves' \in Nat
  BY DEF StoreInv, TypeInv, TypeOK
<1>2. \A t \in Sid : Saved(t) \/ last'[t].order = last[t].order
  BY LastStep
<1>3. \A t \in Sid : Saved(t) => last'[t].order = saves + 1
  BY <1>1 DEF Saved
<1>4. saves <= saves'
  BY <1>1 DEF StoreStep, Saved, Restaged, Outlived, Tick
<1>5. \A t \in Sid : last[t].order <= last'[t].order
  BY <1>1, <1>2, <1>3 DEF Linked
<1>6. Later(s) \subseteq Later(s)'
  BY <1>1, <1>2, <1>5 DEF Later
<1>7. IsFiniteSet(Later(s)) /\ IsFiniteSet(Later(s)')
  BY FS_Subset, SessionStoreAssumption DEF Later
<1> QED BY <1>2, <1>4, <1>6, <1>7, FS_Subset

LEMMA StaysCrowdedOut ==
  ASSUME StoreInv, StoreInv', Linked, StoreStep, NEW s \in Sid, ~Saved(s), CrowdedOut(s)
  PROVE  CrowdedOut(s)'
<1>1. last[s].order \in Nat /\ saves \in Nat /\ saves' \in Nat
  BY DEF StoreInv, TypeInv, TypeOK
<1>2. Cardinality(Later(s)) >= Target /\ saves > last[s].order + Target
  BY DEF CrowdedOut, Later
<1>3. Cardinality(Later(s)) \in Nat /\ Cardinality(Later(s)') \in Nat
  BY LaterStays, FS_CardinalityType
<1>4. Cardinality(Later(s)') >= Target /\ saves' > last'[s].order + Target
  BY <1>1, <1>2, <1>3, LaterStays, TargetIs
<1> QED BY <1>4 DEF CrowdedOut, Later

\* As many records as an eviction keeps were saved after one it takes; each has an
\* order of its own, so that there were as many saves before the one that evicts.
LEMMA EvictedIsCrowdedOut ==
  ASSUME StoreInv, StoreInv', Linked, NEW t \in Sid, Saved(t), NEW s \in Ids, s \notin Ids'
  PROVE  CrowdedOut(s)'
<1>1. /\ last[s].order \in Nat /\ saves \in Nat /\ saves' = saves + 1 /\ s \in Sid /\ s # t
      /\ Ids \subseteq Sid
      /\ \A u \in Ids : store[u].order = last[u].order /\ store[u].order \in 1..saves
      /\ StoreStep
  BY DEF StoreInv, TypeInv, TypeOK, Saved, Linked, Ordered, StoreStep
<1>2. s \notin Kept
  BY DEF Saved
<1>3. Newer(s) \subseteq Later(s) /\ IsFiniteSet(Newer(s))
  BY <1>1, FS_Subset, SessionStoreAssumption DEF Newer, Later, StoreInv, TypeInv, TypeOK
<1>4. Cardinality(Newer(s)) \in Nat /\ Cardinality(Newer(s)) >= Target
  BY <1>2, <1>3, FS_CardinalityType, TargetIs DEF Kept
<1>5. ~Saved(s)
  BY DEF Saved
<1>6. Cardinality(Later(s)') >= Target
  <2>1. /\ Later(s) \subseteq Later(s)' /\ IsFiniteSet(Later(s)')
    BY <1>1, <1>5, LaterStays
  <2>2. Cardinality(Newer(s)) <= Cardinality(Later(s)') /\ Cardinality(Later(s)') \in Nat
    BY <1>3, <2>1, FS_Subset, FS_CardinalityType
  <2> QED BY <1>4, <2>2, TargetIs
<1>7. Cardinality(Newer(s)) <= saves - last[s].order
  <2> DEFINE span == (last[s].order + 1)..saves
             f == [u \in Newer(s) |-> store[u].order]
  <2>1. f \in Injection(Newer(s), span)
    <3>1. f \in [Newer(s) -> span]
      BY <1>1 DEF Newer
    <3>2. \A u, v \in DOMAIN f : f[u] = f[v] => u = v
      BY DEF Newer, StoreInv, Ordered
    <3> QED BY <3>1, <3>2 DEF Injection, IsInjective
  <2>2. IsFiniteSet(span) /\ Cardinality(span) = saves - last[s].order
    <3>1. last[s].order <= saves
      BY <1>1 DEF Linked
    <3>2. /\ IsFiniteSet(span)
          /\ Cardinality(span) = IF last[s].order + 1 > saves THEN 0
                                 ELSE saves - (last[s].order + 1) + 1
      <4>1. last[s].order + 1 \in Int /\ saves \in Int
        BY <1>1
      <4> QED BY <4>1, FS_Interval, Zenon
    <3> QED BY <1>1, <3>1, <3>2
  <2> HIDE DEF span, f
  <2>3. Cardinality(Newer(s)) <= Cardinality(span)
    BY <2>1, <2>2, FS_Injection
  <2> QED BY <2>2, <2>3
<1>8. last'[s].order = last[s].order
  BY <1>1, <1>5, LaterStays
<1>9. saves' > last'[s].order + Target
  BY <1>1, <1>4, <1>7, <1>8, TargetIs
<1> QED BY <1>6, <1>9 DEF CrowdedOut, Later

LEMMA MissedStep ==
  ASSUME StoreInv, StoreInv', Linked, Missed, [Next]_vars
  PROVE  Missed'
<1> SUFFICES ASSUME NEW s \in Sid, s \notin Ids', worker'[s] # "none"
             PROVE  last'[s].age > TTL \/ CrowdedOut(s)'
  BY DEF Missed
<1>1. StoreStep /\ ~Saved(s)
  BY StepStore DEF Saved
<1>2. ASSUME last[s].age > TTL PROVE last'[s].age > TTL
  <2>1. last[s].age \in 0..(TTL + 1) /\ last'[s].age \in {last[s].age, Older(last[s].age)}
    BY <1>1, LastStep DEF StoreInv, TypeInv
  <2> QED BY <1>2, <2>1, SessionStoreAssumption DEF Older
<1>3. CASE s \in Ids
  <2>1. CASE \E t \in Sid : Saved(t)
    BY <1>3, <2>1, EvictedIsCrowdedOut
  <2>2. CASE Outlived
    <3>1. Expired(s)
      BY <1>3, <2>2 DEF Outlived, Removed, Restrict, Ids
    <3>2. last[s].age > TTL
      BY <1>3, <3>1 DEF Expired, Linked
    <3> QED BY <1>2, <3>2
  <2>3. CASE Restaged \/ Tick
    BY <1>3, <2>3 DEF Restaged, Tick, Ids
  <2> QED BY <1>1, <2>1, <2>2, <2>3 DEF StoreStep
<1>4. CASE s \notin Ids
  <2>1. worker[s] # "none"
    <3>1. ASSUME Enqueue(s) \/ EnqueueQueueFull(s) PROVE FALSE
      BY <1>1, <3>1, SaveIs DEF Enqueue, EnqueueQueueFull, Status
    <3> QED BY <3>1 DEF Next, Enqueue, EnqueueQueueFull, Publish, Finish, Fail, Poll, PollZone,
                        CleanupExpired, Tick, vars, StoreInv, TypeInv, TypeOK
  <2>2. last[s].age > TTL \/ CrowdedOut(s)
    BY <1>4, <2>1 DEF Missed
  <2> QED BY <1>1, <1>2, <2>2, StaysCrowdedOut
<1> QED BY <1>3, <1>4

LEMMA UpToDateStep ==
  ASSUME StoreInv, UpToDate, [Next]_vars
  PROVE  UpToDate'
<1>1. worker \in [Sid -> {"none", "working", "published", "finished", "failed"}]
      /\ store \in [Ids -> Record] /\ Ids \subseteq Sid
  BY DEF StoreInv, TypeInv, TypeOK
<1>2. ASSUME NEW s \in Sid, NEW status \in Status, NEW stage, Save(s, status),
             worker' = [worker EXCEPT ![s] = stage], stage # "none", status \in Stages[stage]
      PROVE  UpToDate'
  <2>1. Saved(s) /\ store'[s].status = status
    BY <1>2, SaveIs
  <2>2. \A t \in Ids' : t # s => t \in Ids /\ store'[t] = store[t]
    BY <2>1 DEF Saved, Kept
  <2>3. s \in Ids' /\ Ids' \subseteq Sid
    BY <1>1, <2>1 DEF Saved, Kept
  <2> QED BY <1>1, <1>2, <2>1, <2>2, <2>3 DEF UpToDate
<1>3. CASE \E s \in Sid : Enqueue(s) \/ EnqueueQueueFull(s)
  BY <1>2, <1>3 DEF Enqueue, EnqueueQueueFull, Status, Stages
<1>4. CASE \E s \in Sid : Publish(s)
  <2>1. PICK s \in Sid, status \in {"complete", "waiting"} :
          Save(s, status) /\ worker' = [worker EXCEPT ![s] = "published"]
    BY <1>4 DEF Publish
  <2>2. status \in Status /\ status \in Stages["published"]
    BY DEF Status, Stages
  <2> QED BY <1>2, <2>1, <2>2
<1>5. CASE \E s \in Sid : Finish(s)
  <2>1. Stages["published"] = Stages["finished"]
    BY DEF Stages
  <2> QED BY <1>1, <1>5, <2>1 DEF Finish, UpToDate, Ids
<1>6. ASSUME NEW s \in Sid, Fail(s) PROVE UpToDate'
  <2>1. CASE s \in Ids
    <3>1. store' = [store EXCEPT ![s] = [store[s] EXCEPT !.status = "error"]]
          /\ worker' = [worker EXCEPT ![s] = "failed"]
      BY <1>6, <2>1 DEF Fail, UpdateStage
    <3>2. [store[s] EXCEPT !.status = "error"].status = "error" /\ Stages["failed"] = {"error"}
      BY <1>1, <2>1 DEF Record, Stages
    <3> QED BY <1>1, <2>1, <3>1, <3>2 DEF UpToDate, Ids
  <2>2. CASE s \notin Ids
    BY <1>1, <1>6, <2>2 DEF Fail, UpdateStage, UpToDate, Ids
  <2> QED BY <2>1, <2>2
<1>7. CASE (\E s \in Sid : Poll(s)) \/ CleanupExpired
  <2>1. PICK S : /\ store' = store \/ store' = [s \in Ids \ S |-> store[s]]
                 /\ worker' = worker
    BY <1>7 DEF Poll, CleanupExpired, Removed, Restrict
  <2>2. Ids' \subseteq Ids /\ \A s \in Ids' : store'[s] = store[s]
    BY <2>1 DEF Ids
  <2> QED BY <2>1, <2>2 DEF UpToDate
<1>8. CASE Tick
  <2>1. Ids' = Ids /\ worker' = worker
    BY <1>8 DEF Tick, Ids
  <2>2. ASSUME NEW s \in Ids PROVE store'[s].status = store[s].status
    <3>1. store[s] \in Record
      BY <1>1
    <3> QED BY <1>8, <3>1 DEF Tick, Record
  <2> QED BY <2>1, <2>2 DEF UpToDate
<1>9. CASE (\E z \in Zone : PollZone(z)) \/ UNCHANGED vars
  BY <1>9 DEF PollZone, vars, UpToDate, Ids
<1> QED BY <1>3, <1>4, <1>5, <1>6, <1>7, <1>8, <1>9 DEF Next

\* A client that asks for a session finds what the worker did with its trigger
\* last, or nothing when its last save is too old or was crowded out, for every
\* capacity, lifetime and number of sessions: a result is found again although the
\* session was evicted while it was worked on.
THEOREM WorkIsFound == Spec => []ResultsAreFound
<1> DEFINE Inv == Linked /\ UpToDate /\ Missed
<1>1. Init => Inv
  BY SessionStoreAssumption DEF Init, Linked, UpToDate, Missed, Ids
<1>2. StoreInv /\ StoreInv' /\ Inv /\ [Next]_vars => Inv'
  BY StepStore, LinkedStep, UpToDateStep, MissedStep
<1>3. Inv => ResultsAreFound
  BY DEF UpToDate, Missed, ResultsAreFound
<1> QED BY <1>1, <1>2, <1>3, StoreInvariant, PTL DEF Spec

-----------------------------------------------------------------------------
(* Polls of a zone. *)

\* What a poll of the zone would show now is no older than what one showed.
Forward ==
  \A z \in Zone :
    /\ shown[z] <= saves
    /\ Active(z) # {} => \E t \in Active(z) : store[t].order >= shown[z]

\* A newer record of the zone stays active as long as an older one does, or gives
\* way to one saved later.
LEMMA NewerOutlasts ==
  ASSUME StoreInv, StoreInv', StoreStep, NEW t \in Ids, ~Expired(t),
         NEW u \in Active(ZoneOf[t])'
  PROVE  \E v \in Active(ZoneOf[t])' : store'[v].order >= store[t].order
<1>1. /\ t \in Sid /\ u \in Ids' /\ u \in Sid /\ ZoneOf[u] = ZoneOf[t] /\ ~Expired(u)'
      /\ \A s \in Ids : store[s].order \in Nat /\ store[s].age \in Nat
      /\ \A s \in Ids' : store'[s].order \in Nat /\ store'[s].age \in Nat
  BY DEF Active, StoreInv, TypeInv, TypeOK, Record
<1>2. ASSUME NEW s \in Sid, Saved(s) PROVE \E v \in Active(ZoneOf[t])' : store'[v].order >= store[t].order
  <2>1. \A x \in Ids' : x # s => x \in Ids /\ store'[x] = store[x]
    BY <1>2 DEF Saved, Kept
  <2>2. CASE u = s
    <3>1. store'[u].order = saves + 1 /\ store[t].order \in 1..saves /\ saves \in Nat
      BY <1>2, <2>2 DEF Saved, StoreInv, Ordered, TypeInv, TypeOK
    <3> QED BY <1>1, <3>1
  <2>3. CASE u # s /\ store[u].order >= store[t].order
    BY <1>1, <2>1, <2>3
  <2>4. CASE u # s /\ store[u].order < store[t].order
    <3>1. u \in Ids
      BY <1>1, <2>1, <2>4
    <3>2. t \in Ids'
      <4>1. CASE ~Full
        BY <1>2, <4>1 DEF Saved
      <4>2. CASE Full
        <5>1. u \in Kept
          BY <1>1, <1>2, <2>4, <4>2 DEF Saved
        <5>2. Newer(t) \subseteq Newer(u) /\ IsFiniteSet(Newer(u))
          BY <1>1, <2>4, <3>1, FS_Subset, SessionStoreAssumption
             DEF Newer, StoreInv, TypeInv, TypeOK
        <5>3. /\ Cardinality(Newer(t)) <= Cardinality(Newer(u))
              /\ Cardinality(Newer(t)) \in Nat /\ Cardinality(Newer(u)) \in Nat
          BY <5>2, FS_Subset, FS_CardinalityType
        <5>4. t \in Kept
          BY <5>1, <5>3, TargetIs DEF Kept
        <5> QED BY <1>2, <4>2, <5>4 DEF Saved
      <4> QED BY <4>1, <4>2
    <3>3. CASE t = s
      <4>1. store'[t].order = saves + 1 /\ store[t].order \in 1..saves /\ saves \in Nat
            /\ store'[t].age = 0
        BY <1>2, <3>3 DEF Saved, StoreInv, Ordered, TypeInv, TypeOK
      <4>2. t \in Active(ZoneOf[t])'
        BY <3>2, <4>1, SessionStoreAssumption DEF Active, Expired
      <4> QED BY <1>1, <4>1, <4>2
    <3>4. CASE t # s
      <4>1. store'[t] = store[t]
        BY <2>1, <3>2, <3>4
      <4>2. t \in Active(ZoneOf[t])'
        BY <3>2, <4>1 DEF Active, Expired
      <4> QED BY <1>1, <4>1, <4>2
    <3> QED BY <3>3, <3>4
  <2> QED BY <1>1, <2>1, <2>2, <2>3, <2>4
<1>3. ASSUME t \in Ids', store'[t].order = store[t].order, Expired(t)', u \in Ids,
             store'[u].order = store[u].order
      PROVE  \E v \in Active(ZoneOf[t])' : store'[v].order >= store[t].order
  <2>1. CASE store'[u].order >= store'[t].order
    BY <1>1, <1>3, <2>1
  <2>2. CASE store'[u].order < store'[t].order
    <3>1. store'[t].age <= store'[u].age
      BY <1>1, <1>3, <2>2 DEF StoreInv, Ordered
    <3> QED BY <1>1, <1>3, <3>1, SessionStoreAssumption DEF Expired
  <2> QED BY <1>1, <1>3, <2>1, <2>2
<1>4. ASSUME t \in Ids', store'[t].order = store[t].order, ~Expired(t)'
      PROVE  \E v \in Active(ZoneOf[t])' : store'[v].order >= store[t].order
  BY <1>1, <1>4 DEF Active
<1>5. CASE Restaged \/ Tick
  <2>1. Ids' = Ids /\ \A x \in Ids : store'[x].order = store[x].order
    <3>1. CASE Restaged
      BY <3>1 DEF Restaged
    <3>2. CASE Tick
      <4>1. Ids' = Ids
        BY <3>2 DEF Tick, Ids
      <4>2. ASSUME NEW x \in Ids PROVE store'[x].order = store[x].order
        <5>1. store[x] \in Record
          BY DEF StoreInv, TypeInv
        <5> QED BY <3>2, <5>1 DEF Tick, Record
      <4> QED BY <4>1, <4>2
    <3> QED BY <1>5, <3>1, <3>2
  <2> QED BY <1>1, <1>3, <1>4, <2>1
<1>6. CASE Outlived
  <2>1. t \in Ids' /\ store'[t] = store[t]
    BY <1>6 DEF Outlived, Removed, Restrict, Ids
  <2> QED BY <1>4, <2>1 DEF Expired
<1> QED BY <1>2, <1>5, <1>6 DEF StoreStep

LEMMA ForwardStep ==
  ASSUME StoreInv, StoreInv', Forward, [Next]_vars
  PROVE  /\ Forward'
         /\ \A z \in Zone : shown'[z] # Nothing => shown'[z] >= shown[z]
<1>1. StoreStep
  BY StepStore
<1>2. \A z \in Zone : shown[z] \in Nat
  BY DEF StoreInv, TypeInv
<1>3. saves \in Nat /\ saves' \in Nat /\ saves <= saves'
  BY <1>1 DEF StoreInv, TypeInv, TypeOK, StoreStep, Saved, Restaged, Outlived, Tick
<1>4. ASSUME NEW z \in Zone, shown'[z] = shown[z]
      PROVE  /\ shown'[z] <= saves'
             /\ Active(z)' # {} => \E t \in Active(z)' : store'[t].order >= shown'[z]
             /\ shown'[z] >= shown[z]
  <2>1. shown'[z] <= saves'
    BY <1>2, <1>3, <1>4 DEF Forward
  <2>2. ASSUME NEW u \in Active(z)' PROVE \E t \in Active(z)' : store'[t].order >= shown'[z]
    <3>1. CASE Active(z) # {}
      <4>1. PICK t \in Active(z) : store[t].order >= shown[z]
        BY <3>1 DEF Forward
      <4>2. t \in Ids /\ ~Expired(t) /\ ZoneOf[t] = z
        BY DEF Active
      <4>3. PICK v \in Active(z)' : store'[v].order >= store[t].order
        BY <1>1, <4>2, NewerOutlasts
      <4>4. store'[v].order \in Nat /\ store[t].order \in Nat
        BY <4>2 DEF Active, StoreInv, TypeInv, Record
      <4> QED BY <1>2, <1>4, <4>1, <4>3, <4>4
    <3>2. CASE Active(z) = {}
      <4>1. u \in Ids' /\ ~Expired(u)' /\ ZoneOf[u] = z
        BY DEF Active
      <4>2. CASE \E s \in Sid : Saved(s)
        <5>1. PICK s \in Sid : Saved(s)
          BY <4>2
        <5>2. CASE u = s
          BY <1>2, <1>3, <1>4, <2>1, <5>1, <5>2 DEF Saved
        <5>3. CASE u # s
          BY <3>2, <4>1, <5>1, <5>3 DEF Saved, Kept, Active, Expired
        <5> QED BY <5>2, <5>3
      <4>3. CASE Restaged
        BY <3>2, <4>1, <4>3 DEF Restaged, Active, Expired
      <4>4. CASE Outlived
        BY <3>2, <4>1, <4>4 DEF Outlived, Removed, Restrict, Ids, Active, Expired
      <4>5. CASE Tick
        <5>1. u \in Ids /\ store[u] \in Record
              /\ store'[u] = [store[u] EXCEPT !.age = IF store[u].age <= TTL THEN store[u].age + 1
                                                      ELSE store[u].age]
          BY <4>1, <4>5 DEF Tick, Older, Ids, StoreInv, TypeInv
        <5>2. Expired(u)
          BY <3>2, <4>1, <5>1 DEF Active
        <5> QED BY <4>1, <5>1, <5>2, SessionStoreAssumption DEF Expired, Record
      <4> QED BY <1>1, <4>2, <4>3, <4>4, <4>5 DEF StoreStep
    <3> QED BY <3>1, <3>2
  <2> QED BY <1>2, <1>4, <2>1, <2>2
<1>5. ASSUME NEW y \in Zone, PollZone(y)
      PROVE  /\ \A z \in Zone : z # y => shown'[z] = shown[z]
             /\ shown'[y] <= saves'
             /\ Active(y)' # {} => \E t \in Active(y)' : store'[t].order >= shown'[y]
             /\ shown'[y] # Nothing => shown'[y] >= shown[y]
  <2>1. store' = store /\ saves' = saves /\ Active(y)' = Active(y)
    BY <1>5 DEF PollZone, Active, Ids, Expired
  <2>2. \A z \in Zone : z # y => shown'[z] = shown[z]
    BY <1>5 DEF PollZone, StoreInv, TypeInv
  <2>3. CASE Active(y) = {}
    BY <1>3, <1>5, <2>1, <2>2, <2>3 DEF PollZone, Nothing, StoreInv, TypeInv
  <2>4. CASE Active(y) # {}
    <3>1. shown'[y] = store[Latest(y)].order
      BY <1>5, <2>4 DEF PollZone, StoreInv, TypeInv
    <3>2. Latest(y) \in Active(y) /\ \A t \in Active(y) : store[t].order <= store[Latest(y)].order
      BY <2>4, NewestOf DEF Latest, Active
    <3>3. PICK t \in Active(y) : store[t].order >= shown[y]
      BY <2>4 DEF Forward
    <3>4. \A x \in Active(y) : store[x].order \in Nat /\ store[x].order <= saves
      BY <1>3 DEF Active, StoreInv, Ordered
    <3> QED BY <1>2, <2>1, <2>2, <3>1, <3>2, <3>3, <3>4
  <2> QED BY <2>3, <2>4, <2>2
<1>6. CASE \E y \in Zone : PollZone(y)
  <2>1. PICK y \in Zone : PollZone(y)
    BY <1>6
  <2> QED BY <1>4, <1>5, <2>1 DEF Forward
<1>7. CASE shown' = shown
  BY <1>4, <1>7 DEF Forward
<1> QED BY <1>6, <1>7 DEF Next, Enqueue, EnqueueQueueFull, Publish, Finish, Fail, Poll,
                          CleanupExpired, Tick, vars

\* Whatever is evicted, expired or saved again between two polls of a zone, the
\* second never shows a record older than the first.
THEOREM ZonePollsForward == Spec => ZonePollsGoForward
<1>1. Init => Forward
  BY DEF Init, Forward, Active, Ids, Nothing
<1>2. StoreInv /\ StoreInv' /\ Forward /\ [Next]_vars => Forward'
  BY ForwardStep
<1>3. ASSUME StoreInv, StoreInv', Forward, [Next]_vars
      PROVE  [\A z \in Zone : shown'[z] # Nothing => shown'[z] >= shown[z]]_vars
  BY <1>3, ForwardStep
<1> QED BY <1>1, <1>2, <1>3, StoreInvariant, PTL DEF Spec, ZonePollsGoForward

-----------------------------------------------------------------------------
(* Answers. *)

\* Only a trigger that is being worked on has a record that says so, and what was
\* answered something else is worked on or has no such record.
Answered ==
  \A s \in Sid :
    /\ s \in Ids /\ store[s].status = "processing" => worker[s] = "working"
    /\ answer[s] \notin {"none", "processing"} =>
         worker[s] # "none" /\ (s \in Ids => store[s].status # "processing")

\* The records that say "processing" after a step.
Processing == {s \in Ids : store[s].status = "processing"}

LEMMA StepProcessing ==
  ASSUME StoreInv, Answered, [Next]_vars, NEW s \in Sid
  PROVE  /\ s \in Processing' => \/ s \in Processing /\ worker'[s] = worker[s]
                                 \/ worker[s] = "none" /\ worker'[s] = "working"
         /\ worker[s] # "none" => worker'[s] # "none"
<1>1. worker \in [Sid -> {"none", "working", "published", "finished", "failed"}]
      /\ store \in [Ids -> Record]
  BY DEF StoreInv, TypeInv, TypeOK
<1>2. ASSUME NEW t \in Sid, NEW status \in Status, Save(t, status)
      PROVE  /\ s # t /\ s \in Processing' => s \in Processing
             /\ t \in Processing' => status = "processing"
  <2>1. Saved(t) /\ store'[t].status = status
    BY <1>2, SaveIs
  <2>2. \A x \in Ids' : x # t => x \in Ids /\ store'[x] = store[x]
    BY <2>1 DEF Saved, Kept
  <2> QED BY <2>1, <2>2 DEF Processing
<1>3. ASSUME NEW t \in Sid, Enqueue(t)
      PROVE  /\ s \in Processing' => \/ s \in Processing /\ worker'[s] = worker[s]
                                     \/ worker[s] = "none" /\ worker'[s] = "working"
             /\ worker[s] # "none" => worker'[s] # "none"
  BY <1>1, <1>2, <1>3 DEF Enqueue, Status
<1>4. ASSUME NEW t \in Sid, EnqueueQueueFull(t) \/ Publish(t)
      PROVE  /\ s \in Processing' => s \in Processing /\ worker'[s] = worker[s]
             /\ worker[s] # "none" => worker'[s] # "none"
  <2>1. PICK status \in Status \ {"processing"} : Save(t, status)
    BY <1>4 DEF EnqueueQueueFull, Publish, Status
  <2>2. s \in Processing' => s # t /\ s \in Processing
    BY <1>2, <2>1
  <2> QED BY <1>1, <1>4, <2>2 DEF EnqueueQueueFull, Publish
<1>5. ASSUME NEW t \in Sid, Fail(t)
      PROVE  /\ s \in Processing' => s \in Processing /\ worker'[s] = worker[s]
             /\ worker[s] # "none" => worker'[s] # "none"
  <2>1. CASE t \in Ids
    <3>1. store' = [store EXCEPT ![t] = [store[t] EXCEPT !.status = "error"]]
      BY <1>5, <2>1 DEF Fail, UpdateStage
    <3>2. [store[t] EXCEPT !.status = "error"].status = "error"
      BY <1>1, <2>1 DEF Record
    <3>3. s \in Processing' => s # t /\ s \in Processing
      BY <1>1, <2>1, <3>1, <3>2 DEF Processing, Ids
    <3> QED BY <1>1, <1>5, <3>3 DEF Fail
  <2>2. CASE t \notin Ids
    <3>1. Processing' = Processing /\ t \notin Processing
      BY <1>5, <2>2 DEF Fail, UpdateStage, Processing, Ids
    <3> QED BY <1>1, <1>5, <3>1 DEF Fail
  <2> QED BY <2>1, <2>2
<1>6. ASSUME NEW t \in Sid, Finish(t)
      PROVE  /\ s \in Processing' => s \in Processing /\ worker'[s] = worker[s]
             /\ worker[s] # "none" => worker'[s] # "none"
  <2>1. t \notin Processing
    BY <1>6 DEF Finish, Processing, Answered
  <2> QED BY <1>1, <1>6, <2>1 DEF Finish, Processing, Ids
<1>7. CASE \/ \E t \in Sid : Poll(t)
           \/ CleanupExpired
  BY <1>7 DEF Poll, CleanupExpired, Removed, Restrict, Processing, Ids
<1>8. CASE Tick
  <2>1. Ids' = Ids
    BY <1>8 DEF Tick, Ids
  <2>2. ASSUME s \in Ids PROVE store'[s].status = store[s].status
    <3>1. store[s] \in Record
      BY <1>1, <2>2
    <3> QED BY <1>8, <2>2, <3>1 DEF Tick, Record
  <2> QED BY <1>8, <2>1, <2>2 DEF Tick, Processing
<1>9. CASE (\E z \in Zone : PollZone(z)) \/ UNCHANGED vars
  BY <1>9 DEF PollZone, vars, Processing, Ids
<1> QED BY <1>3, <1>4, <1>5, <1>6, <1>7, <1>8, <1>9 DEF Next

LEMMA AnsweredStep ==
  ASSUME StoreInv, StoreInv', Answered, [Next]_vars
  PROVE  /\ Answered'
         /\ \A s \in Sid : answer'[s] = "processing" => answer[s] \in {"none", "processing"}
<1> SUFFICES
      ASSUME NEW s \in Sid
      PROVE  /\ s \in Processing' => worker'[s] = "working"
             /\ answer'[s] \notin {"none", "processing"} =>
                  worker'[s] # "none" /\ s \notin Processing'
             /\ answer'[s] = "processing" => answer[s] \in {"none", "processing"}
  BY DEF Answered, Processing
<1>1. /\ s \in Processing => worker[s] = "working"
      /\ answer[s] \notin {"none", "processing"} => worker[s] # "none" /\ s \notin Processing
  BY DEF Answered, Processing
<1>2. /\ s \in Processing' => \/ s \in Processing /\ worker'[s] = worker[s]
                              \/ worker[s] = "none" /\ worker'[s] = "working"
      /\ worker[s] # "none" => worker'[s] # "none"
  BY StepProcessing
<1>3. CASE answer'[s] = answer[s]
  BY <1>1, <1>2, <1>3
<1>4. CASE Poll(s)
  <2>1. /\ worker' = worker /\ worker[s] # "none"
        /\ answer'[s] = IF s \notin Ids THEN "not_found" ELSE IF Expired(s) THEN "expired"
                        ELSE store[s].status
        /\ store' = IF s \in Ids /\ Expired(s) THEN Removed({s}) ELSE store
    BY <1>4 DEF Poll, StoreInv, TypeInv, TypeOK
  <2>2. CASE s \notin Ids
    BY <2>1, <2>2 DEF Processing, Ids
  <2>3. CASE s \in Ids /\ Expired(s)
    BY <2>1, <2>3 DEF Processing, Removed, Restrict, Ids
  <2>4. CASE s \in Ids /\ ~Expired(s)
    BY <1>1, <2>1, <2>4 DEF Processing, Ids
  <2> QED BY <1>1, <1>2, <2>1, <2>2, <2>3, <2>4
<1>5. CASE \E t \in Sid \ {s} : Poll(t)
  BY <1>3, <1>5 DEF Poll, StoreInv, TypeInv, TypeOK
<1> QED BY <1>3, <1>4, <1>5 DEF Next, Enqueue, EnqueueQueueFull, Publish, Finish, Fail,
                               PollZone, CleanupExpired, Tick, vars

\* A session that was answered anything but "processing" never says it again, in
\* whatever order results, evictions, expiries and polls meet in the store.
THEOREM ProcessingComesFirst == Spec => NeverBackToProcessing
<1>1. Init => Answered
  BY DEF Init, Answered, Ids
<1>2. StoreInv /\ StoreInv' /\ Answered /\ [Next]_vars => Answered'
  BY AnsweredStep
<1>3. ASSUME StoreInv, StoreInv', Answered, [Next]_vars
      PROVE  [\A s \in Sid : answer'[s] = "processing" => answer[s] \in {"none", "processing"}]_vars
  BY <1>3, AnsweredStep
<1> QED BY <1>1, <1>2, <1>3, StoreInvariant, PTL DEF Spec, NeverBackToProcessing
=============================================================================
