--------------------------- MODULE PromisedCatalogue ---------------------------
(***************************************************************************)
(* What the catalogue promises the triggers.  A payload with a recognised  *)
(* product in stock is what they are given: until a CLOSE takes it away,   *)
(* and then until it is older than Ttl.  A payload without one changes     *)
(* nothing, and neither does a visit that begins or runs out of time.      *)
(***************************************************************************)
EXTENDS Integers

CONSTANT Ttl

VARIABLES
  given,  \* the classes a trigger may see now
  held,   \* no CLOSE took the catalogue away since it came
  since,  \* when it came
  now,
  visit   \* the door is open

promiseVars == <<given, held, since, now, visit>>

Init ==
  /\ given = {}
  /\ held = FALSE
  /\ since = 0
  /\ now = 0
  /\ visit = FALSE

Payload ==
  /\ given' # {}
  /\ held' = TRUE
  /\ since' = now
  /\ visit' \in {visit, TRUE}
  /\ UNCHANGED now

VisitBegins ==
  /\ visit' = TRUE
  /\ UNCHANGED <<given, held, since, now>>

Close ==
  /\ visit
  /\ visit' = FALSE
  /\ held' = FALSE
  /\ given' = IF now - since <= Ttl THEN given ELSE {}
  /\ UNCHANGED <<since, now>>

VisitTimesOut ==
  /\ visit
  /\ visit' = FALSE
  /\ UNCHANGED <<given, held, since, now>>

Elapse ==
  /\ now' = now + 1
  /\ given' = IF held \/ now' - since <= Ttl THEN given ELSE {}
  /\ UNCHANGED <<held, since, visit>>

\* A new process knows nothing.
Restart ==
  /\ given' = {}
  /\ held' = FALSE
  /\ since' = 0
  /\ now' = 0
  /\ visit' = FALSE

Next == Payload \/ VisitBegins \/ Close \/ VisitTimesOut \/ Elapse \/ Restart

Spec == Init /\ [][Next]_promiseVars
=============================================================================
