--------------------------- MODULE PendingTriggers ---------------------------
(***************************************************************************)
(* The in-flight trigger registry of DoorSessionStore                      *)
(* (session/door_session_store.py, _pending_triggers).                     *)
(*                                                                         *)
(* The registry is a dict from session id to an entry with the zone and    *)
(* the progress of the trigger.  Here it is a function whose domain is the *)
(* set of registered session ids.  Session ids are numbered in the order   *)
(* in which they are generated, and an id is registered in the atomic step *)
(* that generates it, so the order of the numbers is the insertion order   *)
(* of the dict.                                                            *)
(*                                                                         *)
(* The notify_* calls take a zone and a session id.  An id that is not     *)
(* registered is not ignored: the call falls back to the first registered  *)
(* trigger of the same zone.                                               *)
(*                                                                         *)
(* The status "finalizing" is set and its entry removed in one atomic      *)
(* step of the worker, so no other step ever sees it: it is left out.      *)
(***************************************************************************)
EXTENDS Naturals

PendingStatus == {"queued", "processing"}

EmptyRegistry == [s \in {} |-> [zone |-> 0, status |-> "queued"]]

OfZone(reg, z) == {s \in DOMAIN reg : reg[s].zone = z}

\* The first entry of a zone in dict order, as a set of at most one id.
Earliest(reg, z) == {s \in OfZone(reg, z) : \A t \in OfZone(reg, z) : s <= t}

\* The entry a notify call is about: at most one id.
Resolve(reg, z, s) == IF s \in DOMAIN reg THEN {s} ELSE Earliest(reg, z)

\* Mistake: one entry per zone stands for all its triggers.
EnqueuedOncePerZone(reg, z, s) ==
  IF OfZone(reg, z) # {} THEN reg
  ELSE [t \in DOMAIN reg \cup {s} |->
          IF t = s THEN [zone |-> z, status |-> "queued"] ELSE reg[t]]

Enqueued(reg, z, s) ==
  [t \in DOMAIN reg \cup {s} |->
     IF t = s THEN [zone |-> z, status |-> "queued"] ELSE reg[t]]

Marked(reg, z, s, status) ==
  [t \in DOMAIN reg |->
     IF t \in Resolve(reg, z, s) THEN [reg[t] EXCEPT !.status = status] ELSE reg[t]]

\* Mistake: the entry is marked, not removed.
ProcessedButKept(reg, z, s) ==
  [t \in DOMAIN reg |-> IF t \in Resolve(reg, z, s)
                          THEN [reg[t] EXCEPT !.status = "processed"] ELSE reg[t]]

\* Mistake: only an entry that is still queued is removed.
ProcessedIfQueued(reg, z, s) ==
  [t \in DOMAIN reg \ {u \in Resolve(reg, z, s) : reg[u].status = "queued"} |-> reg[t]]

Processed(reg, z, s) == [t \in DOMAIN reg \ Resolve(reg, z, s) |-> reg[t]]

=============================================================================
