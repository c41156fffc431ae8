--------------------------- MODULE DoorSessionStore ---------------------------
(***************************************************************************)
(* Baskets and door visits (session/door_session_store.py), as the trigger *)
(* pipeline and the polling API use them.                                  *)
(*                                                                         *)
(*   pending  the in-flight registry (module PendingTriggers)              *)
(*   active   _active_sessions: per zone, the basket being filled; absent  *)
(*            when it holds no trigger (add_trigger creates it with one)   *)
(*   global   _global_session: the visit between OPEN and the final CLOSE  *)
(*   visit    number of visits begun: names the current GlobalDoorSession  *)
(*   bill     per visit, the triggers whose products its final answer has  *)
(*   outcome  per visit, how its GlobalDoorSession ended                   *)
(*   archived triggers of the baskets that were finalized in any way       *)
(*                                                                         *)
(* visit, bill, outcome and archived record what the code returns, logs    *)
(* and saves; no guard reads them.                                         *)
(*                                                                         *)
(* Time is counted in ticks and kept as ages that stop growing once they   *)
(* pass the largest threshold they are compared with.  Every method runs   *)
(* under the store's lock or without yielding to the event loop, so each   *)
(* is one step.  What products a basket holds is abstracted to the set of  *)
(* triggers that were added to it.                                         *)
(***************************************************************************)
EXTENDS PendingTriggers, FiniteSets

CONSTANTS
  Zone,               \* shelves of the cabinet
  MaxTriggers,        \* bound: session ids issued
  MaxVisits,          \* bound: visits begun
  InitialWait,        \* close_initial_wait_seconds, in ticks
  SubsequentWait,     \* close_subsequent_wait_seconds
  SessionTimeout,     \* session_timeout: a basket idle for longer is closed
  MaxDuration,        \* max_duration of a basket
  GlobalMaxDuration,  \* global_session_max_duration of a visit
  ExpireVisits        \* FALSE: every visit ends before GlobalMaxDuration

ASSUME StoreAssumption ==
  /\ Zone # {} /\ IsFiniteSet(Zone)
  /\ MaxTriggers \in Nat /\ MaxVisits \in Nat
  /\ InitialWait \in Nat /\ SubsequentWait \in Nat
  /\ SessionTimeout \in Nat /\ MaxDuration \in Nat /\ GlobalMaxDuration \in Nat
  /\ ExpireVisits \in BOOLEAN

VARIABLES pending, active, global, visit, bill, outcome, archived

storeVars == <<pending, active, global, visit, bill, outcome, archived>>

Sid == 1..MaxTriggers
Visit == 1..MaxVisits

Basket == [triggers : SUBSET Sid,
           idle     : 0..(SessionTimeout + 1),
           life     : 0..(MaxDuration + 1)]

NoBasket == [triggers |-> {}, idle |-> 0, life |-> 0]

GlobalSession == [open         : BOOLEAN,
                  pendingClose : BOOLEAN,
                  sinceClose   : 0..InitialWait,
                  triggered    : BOOLEAN,
                  sinceTrigger : 0..SubsequentWait,
                  life         : 0..(GlobalMaxDuration + 1),
                  linked       : [Zone -> SUBSET Sid]]

NoGlobal == [open |-> FALSE, pendingClose |-> FALSE, sinceClose |-> 0,
             triggered |-> FALSE, sinceTrigger |-> 0, life |-> 0,
             linked |-> [z \in Zone |-> {}]]

StoreInit ==
  /\ pending = EmptyRegistry
  /\ active = [z \in Zone |-> NoBasket]
  /\ global = NoGlobal
  /\ visit = 0
  /\ bill = [v \in Visit |-> {}]
  /\ outcome = [v \in Visit |-> "none"]
  /\ archived = {}

-----------------------------------------------------------------------------
(* Helpers *)

Exists(basket) == basket.triggers # {}

TimedOut(basket) ==
  /\ Exists(basket)
  /\ basket.idle > SessionTimeout \/ basket.life > MaxDuration

TriggersIn(zones) == UNION {active[z].triggers : z \in zones}

Grown(age, limit) == IF age < limit THEN age + 1 ELSE limit

\* last_trigger_at = now, when a visit is open.
TriggerSeen(g) ==
  IF g.open THEN [g EXCEPT !.triggered = TRUE, !.sinceTrigger = 0] ELSE g

\* Mistake: a finalized basket is saved but stays the zone's active one.
FinalizedInPlace(zones) ==
  /\ archived' = archived \cup TriggersIn(zones)
  /\ UNCHANGED active

\* _finalize_session_in_memory of the baskets of some zones.
FinalizeBaskets(zones) ==
  /\ active' = [z \in Zone |-> IF z \in zones THEN NoBasket ELSE active[z]]
  /\ archived' = archived \cup TriggersIn(zones)

-----------------------------------------------------------------------------
(* Baskets *)

\* Mistake: a basket times out during a visit as well.
ReplacesAnytime(z) == TimedOut(active[z])

\* The basket add_trigger appends to: outside a visit a timed-out basket is
\* finalized and a new one begun, during a visit it is used whatever its age.
Replaces(z) == ~global.open /\ TimedOut(active[z])

Appended(z, s) ==
  [triggers |-> {s} \cup IF Replaces(z) THEN {} ELSE active[z].triggers,
   idle     |-> 0,
   life     |-> IF Replaces(z) THEN 0 ELSE active[z].life]

\* Mistake: a timed-out basket is replaced without being finalized.
AddTriggerOverTimedOut(z, s) ==
  /\ active' = [active EXCEPT ![z] = Appended(z, s)]
  /\ global' = IF global.open
                 THEN TriggerSeen([global EXCEPT !.linked[z] = Appended(z, s).triggers])
                 ELSE global
  /\ UNCHANGED archived

AddTriggerWithGlobal(z, s) ==
  /\ active' = [active EXCEPT ![z] = Appended(z, s)]
  /\ archived' = IF Replaces(z) THEN archived \cup active[z].triggers ELSE archived
  /\ global' = IF global.open
                 THEN TriggerSeen([global EXCEPT !.linked[z] = Appended(z, s).triggers])
                 ELSE global

\* get_or_finalize: JudgmentService closes a zone's basket that has timed out.
GetOrFinalize(z) ==
  /\ ~global.open
  /\ TimedOut(active[z])
  /\ FinalizeBaskets({z})
  /\ UNCHANGED <<pending, global, visit, bill, outcome>>

\* finalize_session: forced from the API; a visit keeps its link to the basket.
FinalizeSession(z) ==
  /\ Exists(active[z])
  /\ FinalizeBaskets({z})
  /\ UNCHANGED <<pending, global, visit, bill, outcome>>

-----------------------------------------------------------------------------
(* Visits *)

\* OPEN without a visit begins one; an OPEN during a visit changes nothing.
GetOrStartGlobalSession ==
  /\ ~global.open
  /\ visit < MaxVisits
  /\ global' = [NoGlobal EXCEPT !.open = TRUE]
  /\ visit' = visit + 1
  /\ UNCHANGED <<pending, active, bill, outcome, archived>>

\* finalize_global_session: baskets of every zone join the visit and close.
FinalizeGlobalSession ==
  LET joined == [z \in Zone |-> IF Exists(active[z]) THEN active[z].triggers
                                                     ELSE global.linked[z]]
  IN /\ bill' = [bill EXCEPT ![visit] = UNION {joined[z] : z \in Zone}]
     /\ outcome' = [outcome EXCEPT ![visit] = "billed"]
     /\ global' = NoGlobal
     /\ FinalizeBaskets(Zone)

\* A CLOSE while any trigger is registered.
CloseBlocked ==
  /\ global.open
  /\ DOMAIN pending # {}
  /\ global' = IF global.pendingClose THEN global
               ELSE [global EXCEPT !.pendingClose = TRUE, !.sinceClose = 0]
  /\ UNCHANGED <<pending, active, visit, bill, outcome, archived>>

\* The first CLOSE of a visit.
CloseFirst ==
  /\ global.open
  /\ DOMAIN pending = {}
  /\ ~global.pendingClose
  /\ global' = [global EXCEPT !.pendingClose = TRUE, !.sinceClose = 0]
  /\ UNCHANGED <<pending, active, visit, bill, outcome, archived>>

Settled == IF global.triggered THEN global.sinceTrigger >= SubsequentWait
                               ELSE global.sinceClose >= InitialWait

\* A later CLOSE before the wait is over.
CloseWaits ==
  /\ global.open
  /\ DOMAIN pending = {}
  /\ global.pendingClose
  /\ ~Settled
  /\ global' = IF global.triggered THEN [global EXCEPT !.sinceClose = 0] ELSE global
  /\ UNCHANGED <<pending, active, visit, bill, outcome, archived>>

\* Mistake: a trigger the worker has started no longer holds CLOSE back.
CloseFinalizesDuringVideo ==
  /\ global.open
  /\ \A s \in DOMAIN pending : pending[s].status # "queued"
  /\ global.pendingClose
  /\ Settled
  /\ FinalizeGlobalSession
  /\ UNCHANGED <<pending, visit>>

\* A CLOSE that ends the visit: handle_close_signal and, in the same request,
\* finalize_global_session.
CloseFinalizes ==
  /\ global.open
  /\ DOMAIN pending = {}
  /\ global.pendingClose
  /\ Settled
  /\ FinalizeGlobalSession
  /\ UNCHANGED <<pending, visit>>

HandleDoorClose == CloseBlocked \/ CloseFirst \/ CloseWaits \/ CloseFinalizes

\* cleanup_timed_out_sessions ends a visit that lasts too long.  It does not
\* look at the registry, and its result is not returned to anyone.
CleanupVisit ==
  /\ ExpireVisits
  /\ global.open
  /\ global.life > GlobalMaxDuration
  /\ FinalizeBaskets(Zone)
  /\ global' = NoGlobal
  /\ outcome' = [outcome EXCEPT ![visit] = "expired"]
  /\ UNCHANGED <<pending, visit, bill>>

\* Mistake: the baskets of a visit time out as well.
CleanupDuringVisit ==
  /\ \E z \in Zone : TimedOut(active[z])
  /\ FinalizeBaskets({z \in Zone : TimedOut(active[z])})
  /\ UNCHANGED <<pending, global, visit, bill, outcome>>

\* ... and, without a visit, the baskets that have timed out.
CleanupBaskets ==
  /\ ~global.open
  /\ \E z \in Zone : TimedOut(active[z])
  /\ FinalizeBaskets({z \in Zone : TimedOut(active[z])})
  /\ UNCHANGED <<pending, global, visit, bill, outcome>>

StoreTick ==
  /\ active' = [z \in Zone |->
                  IF Exists(active[z])
                    THEN [active[z] EXCEPT !.idle = Grown(@, SessionTimeout + 1),
                                           !.life = Grown(@, MaxDuration + 1)]
                    ELSE active[z]]
  /\ global' = IF ~global.open THEN global
               ELSE [global EXCEPT
                       !.life = Grown(@, GlobalMaxDuration + 1),
                       !.sinceClose = IF global.pendingClose THEN Grown(@, InitialWait) ELSE @,
                       !.sinceTrigger = IF global.triggered THEN Grown(@, SubsequentWait) ELSE @]
  /\ UNCHANGED <<pending, visit, bill, outcome, archived>>

-----------------------------------------------------------------------------

RegistryOK(reg) ==
  /\ DOMAIN reg \subseteq Sid
  /\ reg \in [DOMAIN reg -> [zone : Zone, status : PendingStatus]]

StoreTypeOK ==
  /\ RegistryOK(pending)
  /\ active \in [Zone -> Basket]
  /\ global \in GlobalSession
  /\ visit \in 0..MaxVisits
  /\ global.open => visit > 0
  /\ bill \in [Visit -> SUBSET Sid]
  /\ outcome \in [Visit -> {"none", "billed", "expired"}]
  /\ archived \subseteq Sid

=============================================================================
